CONSTANTS
  m1 = m1
  m2 = m2
  m3 = m3
  n1 = n1
  n2 = n2
  t1 = t1
  t2 = t2
  Null = Null
  Ids = {m1, m2, m3}
  Namespaces = {n1}
  Texts = {t1}
  Redact <- KeepRedact
  Importances = {1}
  ConfMax = 1
  MaxAge = 2
  MaxLinks = 1
  LinkTypes = {"contradicts"}
  Policies <- LineagePolicies
  Notes <- LineageNotes
  Updates <- LineageUpdates
SYMMETRY IdPerms
SPECIFICATION Spec
INVARIANTS TypeOK LineageAcyclic ReplayAgrees
PROPERTIES DedupKeepsContent CuratedSurvivesAutomation ImplementsLifecycle

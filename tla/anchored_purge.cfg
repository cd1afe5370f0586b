CONSTANTS
  m1 = m1
  m2 = m2
  m3 = m3
  n1 = n1
  n2 = n2
  t1 = t1
  t2 = t2
  Null = Null
  Ids = {m1, m2}
  Namespaces = {n1}
  Texts = {t1}
  Redact <- KeepRedact
  Importances = {1}
  ConfMax = 0
  MaxAge = 2
  MaxLinks = 0
  LinkTypes = {"similar"}
  Policies <- LineagePolicies
  Notes <- AnchorNotes
  Updates <- LineageUpdates
SYMMETRY IdPerms
SPECIFICATION Spec
INVARIANTS ForeignKeyNeverBlocksPurge

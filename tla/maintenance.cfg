CONSTANTS
  m1 = m1
  m2 = m2
  m3 = m3
  n1 = n1
  n2 = n2
  t1 = t1
  t2 = t2
  Null = Null
  Ids = {m1, m2}
  Namespaces = {n1, n2}
  Texts = {t1, t2}
  Redact <- ScrubRedact
  Importances = {1, 2}
  ConfMax = 0
  MaxAge = 3
  MaxLinks = 1
  LinkTypes = {"contradicts"}
  Policies <- MaintenancePolicies
  Notes <- MaintenanceNotes
  Updates <- MaintenanceUpdates
SYMMETRY IdPerms
SPECIFICATION Spec
INVARIANTS VectorsLiveOnly StampTellsTruth NoDanglingReference
PROPERTIES ContestedSurvivesSweep

SPECIFICATION Spec
CONSTANTS
  Ids = {u1, u2, u3}
  Names <- TwoNames
  Fold <- FoldTwo
  Roles = {admin, operator}
  Admin = admin
  DefaultRole = operator
  AutoProvision = TRUE
  Subs = {sub1}
  AdminName = chief
  Asks <- OneOfEach
  Slots = {s1, s2}
  None = None
  chief = chief
  ann = ann
CONSTRAINT FewTokens
SYMMETRY Symmetric
INVARIANTS OneAccountPerSubject
PROPERTIES RosterRefined OnlyAdminsEnable OnlyOthersRename
CHECK_DEADLOCK FALSE

\* Accounts, connections, permissions and one tunnel request.
SPECIFICATION AdmSpec
CONSTANTS
  Ids = {c1}
  Callers <- AllClaims
  Users = {u1, u2}
  Roles = {admin, operator}
  Admin = admin
  Operator = operator
  Groups = {g1}
  MaxGrants = 1
  Datas = {d1}
  Secrets = {x, y}
  Slots = {s1}
  None = None
CONSTRAINT FewTokens
SYMMETRY Symmetric
INVARIANTS AdmTypeOK ShownIsTrue
PROPERTIES AnswerWithinRequest RightsFollow OwnerKept SecretFollows
CHECK_DEADLOCK FALSE

SPECIFICATION Spec
CONSTANTS
  ann = ann
  t1 = t1
  c1 = c1
  c2 = c2
  s1 = s1
  s2 = s2
  Token = {t1}
  Name = {ann}
  NameOf <- Names
  Admin = {ann}
  Command = {c1, c2}
  Request = {"r1"}
  Code = {"k1"}
  Session = {s1, s2}
  Server = Server
  NoJob = NoJob
  Anonymous = Anonymous
  NoOne = NoOne
  NoGrant = NoGrant
  CodeTTL = 0
  SessionTTL = 0
  MaxWrites = 4
  MaxTime = 1
SYMMETRY Alike
INVARIANTS
  TypeOK
  OneSessionPerCode
PROPERTIES
  AnswersFollowFile
  AnonymousOnlyWithoutTokens

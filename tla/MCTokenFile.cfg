SPECIFICATION Spec
CONSTANTS
  ann = ann
  bob = bob
  t1 = t1
  t2 = t2
  t3 = t3
  Token = {t1, t2, t3}
  Name = {ann, bob}
  NameOf <- Names
  Command = {"c1"}
  Server = Server
  NoJob = NoJob
  MaxWrites = 10
INVARIANTS
  IssuedTokensKept
  RevokedTokensGone

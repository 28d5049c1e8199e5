SPECIFICATION FairSpec
CONSTANTS
  ann = ann
  bob = bob
  annCalls = annCalls
  bobCalls = bobCalls
  command = command
  server = server
  cli = cli
  main = main
  NoUser = NoUser
  NoNote = NoNote
  NoClient = NoClient
  NewId = NewId
  NoteId = {"n1"}
  User = {ann, bob}
  Client = {annCalls, bobCalls}
  Viewer <- Callers
  Signs <- SignAsSelf
  Process = {server}
  Home <- TwoHomes
  Cli = {}
  Project = {main}
  Grants <- AllGranted
  Text = {"x", "y"}
  Scope = {"team"}
  Status = {"active"}
  MaxRevision = 3
PROPERTIES
  DeprecateKeepsText

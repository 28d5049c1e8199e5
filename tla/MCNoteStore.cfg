SPECIFICATION FairSpec
CONSTANTS
  ann = ann
  bob = bob
  annCalls = annCalls
  bobCalls = bobCalls
  command = command
  server = server
  cli = cli
  main = main
  NoUser = NoUser
  NoNote = NoNote
  NoClient = NoClient
  NewId = NewId
  NoteId = {"n1"}
  User = {ann, bob}
  Client = {annCalls, bobCalls, command}
  Viewer <- Callers
  Signs <- SignAsSelf
  Process = {server, cli}
  Home <- TwoHomes
  Cli = {command}
  Project = {main}
  Grants <- AllGranted
  Text = {"x"}
  Scope = {"team"}
  Status = {"active"}
  MaxRevision = 3
INVARIANTS
  TypeOK
  HistoryComplete
  NoStaleWrite
PROPERTIES
  LogSpec
  EveryRequestEnds

SPECIFICATION Spec
CONSTANTS
  Names <- Directory
  Doc <- Documents
  Markdowns = {"b.md", "decision-c.md"}
  Drafts <- Written
  Me = "ann"
  Target = "p"
  ImportScope = "project"
  Above <- TopLine
  Initial <- BottomFirst
  Below <- BottomRest
  Credential = {"sk-1"}
  Prefix <- TypePrefixes
  KnownScopes <- Scopes
  KnownStatuses <- Statuses
  Unit = 2
  DefaultLimit = 1
  MaxLimit = 2
  TypeOrder <- Order
  LineSize <- Sizes
  HeaderSize = 3
  HeadingSize = 2
  CutSize = 3
  MaxBytes = 8
  MaxNotes = 2
  MaxTime = 3
  MaxText = 12
INVARIANTS
  TypeOK
  OwnLinesKept
  ExportIdempotent
  GetReadsBack
  ListFollowsClock
  DigestFits
  DigestTells
PROPERTIES
  ImportTakesAll

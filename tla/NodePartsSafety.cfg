SPECIFICATION MCSpec
CONSTANTS
  Spoken <- MCSpoken
  WordMs = 2
  SamplesPerMs = 2
  DecodeIntervalMs = 2
  OverlapMs = 2
  MaxWindowMs = 8
  AgreementUpdates = 2
  TrailingGuardWords = 1
  Chunks = {2, 3, 5, 13, 15}
  MaxSamples = 24
  Target = 3
  Rates = {2, 3, 5, 6, 9}
  Channels = {1, 2}
  Sizes = {1, 4, 6}
  MaxFrames = 14
  Grain = 4
  Rounding = 1
  Publishers = {"w1", "w2"}
  Readers = {"r"}
  MaxPublishes = 4
  Builds = {"a", "b", "c"}
  Embeds = {"b"}
  Release <- MCRelease
  Blocks = 2
  Creates = {1, 2}
  Count = 3
  Module = 2
  ByteLimit = 4
  ShortLimit = 4
  WordLimit = 16
  Cells = {0, 1, 2, 3, 5, 9}
  Now = 5
  DefaultChannel <- MCDefaultChannel
  UiChannel <- MCUiChannel
  Calls = {1, 2}
  Values = {0, 1, 2, 3}
  FrameLimit = 128
  LowerCase <- MCLower
  Rank <- MCRank
  Symbols <- MCSymbols
  WireCases <- MCWireCases
  Sessions <- MCSessions
  Histories <- MCHistories
  Windows = {0, 1, 2}
  Snippets <- MCSnippets
  Names <- MCNames
  Registries <- MCRegistries
  Requests <- MCRequests
  Failures = {0, 1, 2}
  Mediums <- MCMediums
  FrameCases <- MCFrameCases
  Deps <- MCDeps
  Installed <- MCInstalled
INVARIANTS
  TypeOK
  Faithful
  HeardBeforeDropped
  Audible
  EvenlySampled
  ReadersAdvance
  HandsOutWhole
  SourcesWhole
  RunnerEchoes
  InProcessAnswers
  ToolTurns
  DeclarationsKept
  DeclarationsAgree
PROPERTIES
  LiveSpec
CHECK_DEADLOCK FALSE

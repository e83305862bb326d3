SPECIFICATION Spec
CONSTANTS
    RowIds = {1, 2, 3}
    NoParent = 0
    MaxTouches = 5
    PanelSessions = {"s1", "s2"}
    Files = {1, 2}
    Collectible = {1, 2}
    Remarks <- MCRemarks
    ResolveCap = 1
    NoFile = 0
    Unknown = Unknown
    Idle = Idle
    Sent = Sent
    MaxVersion = 2
    MaxRemarks = 3
    MaxClicks = 2
    Personas = {"p1", "p2"}
    Models = {"m1", "m2"}
    EffortsOf <- MCEfforts
    EmptyText = EmptyText
    Null = Null
    Blank = Blank
    Still = Still
    Posted = Posted
    MaxEdits = 5
    MaxLoads = 2
    MaxKeys = 5
    MaxQuery = 1
    MaxTurns = 2
    NoTask = "none"
    Subtask = "sub"
    Shapes <- MCShapes
    Inherited <- MCInherited
    MaxItems = 4
    Indices = {0, 1}
    MaxCalls = 2
    MaxAttempts = 2
    MaxDeltas = 2
    MaxBatch = 3
    MaxConnects = 2
    Tokens = {"event", "data", "id", "junk"}
    MaxText = 6
    Transcripts = {"a", "b"}
    ViewLines = 1
    MaxLines = 5
    MaxGestures = 5
    FindRows = {1, 2}
    Shared = {1}
    RowTexts <- MCTexts
    Needles = {"x", "y"}
    MaxFindActs = 5
    Questions <- MCQuestions
    Labels = {"l1"}
    NoRequest = "none"
    MaxPicks = 4
    Chats = {"c1", "c2"}
    NewKey = "new"
    Existing = {"c1"}
    Chunks = {"t1", "t2"}
    Pasted = {"t2"}
    BareToken = "token"
    Pictures = {"i1"}
    MaxStored = 1
    MaxWrites = 5
    Typed = {"a", " ", "@", "/"}
    FilePaths <- MCPaths
    MaxChars = 5
    HistoryLimit = 2
    Origin = 0
    Branches = {1, 2}
    MaxEnvelopes = 7
    MaxDeeds = 5
    Transfers <- MCTransfers
    CompressThreshold = 1
    MaxImageBytes = 3
    MaxInlineLines = 2
    MaxPastes = 3
    Catalogues <- MCCatalogues
    Presets <- MCPresets
    Talks = {"c1", "c2"}
    Opener = Opener
    Opened = {"c1"}
    Unset = Unset
    MaxChoices = 2
    MaxMessages = 2
INVARIANTS
  StreamShown
  TranscriptWhole
  AnswersReach
  
  BranchesSound
  
PROPERTIES
  
  ReaderInControl
  FindHonest
  WrittenIsSent
  
  FamiliesInPlace
  
CHECK_DEADLOCK FALSE

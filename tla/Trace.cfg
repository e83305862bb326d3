SPECIFICATION Spec
CONSTANTS
    Nil = Nil
    TraceSessions = {"s1", "s2"}
    RootOf <- MCRootOf
    ChildOf <- MCChildOf
    MaxLog <- MCMaxLog
    MaxMoves = 2
    NoHash = "none"
    Hashes = {"h1", "h2", "h3"}
    CharsOf <- MCCharsOf
    MaxEntries = 2
    MaxTotalChars = 3
    MaxFetches = 4
INVARIANTS
  TraceFaithful
  BodiesSound
PROPERTIES
  TraceCatchesUp
CHECK_DEADLOCK FALSE

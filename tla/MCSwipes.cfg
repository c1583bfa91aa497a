SPECIFICATION NamedSpec
CONSTANTS
    Nil = Nil
    Users <- ThreeUsers
    Ids <- ThreeUsersAndAStranger
    Requests <- ThreeRequests
INVARIANTS
    TypeOK
    MatchOnlyMutual
    LostMatchOnlyByOverlap
    OneRoomPerPair
    ListsAgree
    EventsTruthful
    RepliesTruthful
    WaitsAreShort
PROPERTIES
    LedgerSpec
    EveryRequestFinishes

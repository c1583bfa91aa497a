SPECIFICATION Spec
CONSTANTS
    Nil = Nil
    Users <- TwoUsers
    Ids <- TwoUsers
    Requests <- TwoRequests
INVARIANT MutualLikesMatch

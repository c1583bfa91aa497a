SPECIFICATION Spec
CONSTANTS
    u1 = u1
    u2 = u2
    d1 = d1
    d2 = d2
    main = main
    second = second
    None = None
    Slots <- TwoSlots
    Uploads <- TwoUploads
    Deletes <- TwoDeletes
    Stores <- ThreeStores
SYMMETRY Symmetric
INVARIANTS
    TypeOK
    DanglingOnlyUnconfirmed
    OrphansExplained
PROPERTY ReplacedForGood

CONSTANTS
    Handlers = {h1, h2}
    MaxEvents = 2
SPECIFICATION Spec
SYMMETRY Symmetry
INVARIANTS
    TypeOK
    WatchedAsBelieved
    NothingUnwanted
    CalledIfAsked

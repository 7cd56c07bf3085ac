SPECIFICATION Spec
CONSTANTS
    aut = aut
    run = run
    name = name
    Known = {aut, run}
    Other = {name}
    Errors = errors
    Missing = Missing
    MaxPack = 3
INVARIANTS
    FlagIsFresh
    ScanIsComplete
PROPERTIES
    RecordIsHonest

SPECIFICATION Spec
CONSTANTS
    NumDevices = 2
    PackName <- MCPackName
    NoName = ""
    OwnTags <- MCOwnTags
    TagPacks <- MCTagPacks
    Identity <- MCIdentity
    Answers <- MCAnswers
    Buffers <- MCBuffers
    ErrorCodes <- MCErrorCodes
    Forms <- MCForms
    Unit = 10
    Nul = "nul"
    Limit <- MCLimit
INVARIANTS TypeOK PacksAreLoaded
PROPERTIES PrintedIsShown AxisIsShown

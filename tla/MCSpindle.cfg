SPECIFICATION Spec
CONSTANTS
    NumDevices = 1
    PackName <- SpindlePackName
    NoName = ""
    OwnTags <- SpindleOwnTags
    TagPacks <- SpindleTagPacks
    Identity <- MCIdentity
    Answers <- NoAnswers
    Buffers <- SpindleBuffers
    ErrorCodes <- MCErrorCodes
    Forms <- SpindleForms
    Unit = 10
    Nul = "nul"
    Limit <- MCLimit
PROPERTY SpindleIsShown

SPECIFICATION Spec
CONSTANTS
    Minute = 4
    NoTime = NoTime
    MaxTime = 13
PROPERTIES
    TimeIsNotBehind

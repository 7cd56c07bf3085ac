SPECIFICATION Spec
CONSTANTS
    Configs <- MCConfigs
    Absent = Absent
    Torn = Torn
    MaxStarts = 3
    Hostname <- MCHostname
    NoHostname = NoHostname
    Localhost <- MCLocalhost
    DefaultPort <- MCDefaultPort
INVARIANTS TypeOK KeyFitsCert PanicIsReported LinesAreKept  ServerHasItsOwnPair
PROPERTY OwnCertLoads

SPECIFICATION Spec
CONSTANTS
    Octets <- MCOctets
    MaxOctets = 4
    Suites <- MCSuites
    MaxSuites = 3
    Frequencies <- MCFrequencies
    Levels <- MCLevels
    PassphraseMin = 2
    PassphraseMax = 3
    KeyDigits = 4
INVARIANTS
    TextsCarrySsid
    SameUnderSameName
    SecretsArriveWhole
    ConfigCarriesSsid
    SuitesAsAdvertised
    NeverTakenForOpen
    ChannelHasFrequency
CHECK_DEADLOCK FALSE

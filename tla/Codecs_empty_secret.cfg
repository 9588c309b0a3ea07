SPECIFICATION Spec
CONSTANTS
    Octets <- MCOctets
    MaxOctets = 4
    Suites <- MCSuites
    MaxSuites = 2
    Frequencies <- MCFrequencies
    Levels <- MCLevels
    PassphraseMin = 2
    PassphraseMax = 3
    KeyDigits = 4
INVARIANTS
    EmptySecretRefused
CHECK_DEADLOCK FALSE

SPECIFICATION NSpec
CONSTANTS
    MaxChars = 3
    MaxWrite = 2
    Sample <- MCSample
    Seen <- MCSeen
INVARIANTS
    AverageIsMean
    InOrderUnlessRaced

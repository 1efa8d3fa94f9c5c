SPECIFICATION FairSpec
CONSTANTS
    Speed = 50
    MaxKills = 1
    Shade = {0, 149, 150, 200, 255}
INVARIANTS
    RTypeOK
    ProgramKept
    OneTrain
    ColourIsDominant
PROPERTIES
    StopPrevails

SPECIFICATION FairSpec
CONSTANTS
    MaxPresses = 3
INVARIANTS
    LTypeOK
    ToggleNeedsPress
    LedsAgree
    AEUndisturbed
PROPERTIES
    PressServed

SPECIFICATION Spec
CONSTANTS
    Slides = {a, b, c}
    HasRail = TRUE
INVARIANTS
    DialogNamesRailNumber

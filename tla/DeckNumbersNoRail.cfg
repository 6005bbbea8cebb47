SPECIFICATION Spec
CONSTANTS
    Slides = {a, b, c}
    HasRail = FALSE
INVARIANTS
    NoBlankSheet

SPECIFICATION Spec
CONSTANTS
    Slides = {a, b}
    Links = {l}
    Shared = FALSE
    MaxEdits = 3
PROPERTIES
    StyleCatchesUp
CHECK_DEADLOCK FALSE

SPECIFICATION Spec
CONSTANTS
    a = a
    b = b
    c = c
    Deck <- MCDeck
    Spare = {c}
    NoSlide = none
    MaxEdits = 2
PROPERTIES
    RefusalRestoresIndex

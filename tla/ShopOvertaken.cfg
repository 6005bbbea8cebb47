SPECIFICATION Spec
CONSTANTS
    Tabs = {u1, u2}
    Shopping = {u1, u2}
    Paying = {u1, u2}
    Products = {p, q}
    Low = {q}
    First = p
    Most = 2
    Ceiling = 2
PROPERTIES
    NothingIsUndone

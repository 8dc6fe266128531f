SPECIFICATION LiveSpec
CONSTANTS
    Promises = {p1, p2, p3, p4}
    Values = {undefined, v}
    Functions = {f}
    Undefined = undefined
    NoPromise = none
INVARIANTS TypeOK SingleResolver RegistrationOrder
PROPERTIES ImplementsChains JobsDrain

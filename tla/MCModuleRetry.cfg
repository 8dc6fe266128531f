SPECIFICATION Spec
CONSTANTS
    a = a
    b = b
    c = c
    Names <- MCNames
    Graphs <- MCGraphs
INVARIANTS FailureIsRemembered

SPECIFICATION LiveSpec
CONSTANTS
    a = a
    b = b
    c = c
    Names <- MCNames
    Graphs <- MCGraphs
INVARIANTS TypeOK EvaluatedOnce DependenciesFirst SuccessMeansDone
PROPERTIES HostCallReturns

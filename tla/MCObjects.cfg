SPECIFICATION Spec
CONSTANTS
    Subject = Subject
    Parent = Parent
    Datum = Datum
    Accessor = Accessor
    SymbolKey = SymbolKey
    Parameter = Parameter
    Objects = {Subject, Parent}
    Keys <- MCKeys
    IndexNames <- MCIndexNames
    Symbols = {SymbolKey}
    Functions = {Accessor}
    Undefined = Undefined
    Null = Null
    Hole = Hole
    Parameters = {Parameter}
    StringUnits <- MCStringUnits
    FunctionLength = 0
    FunctionName = Datum
    MaxLength = 2
    DenseReach = 0
    DenseLimit = 2
    MaxNesting = 1
    InitialHeaps <- MCHeaps
    Definitions <- MCDefinitions
    Writes <- MCWrites
    Deletions <- MCDeletions
    Reparentings <- MCReparentings
    Sealable = {Subject}
    Pushed = {Datum}
INVARIANTS TypeOK StorageAgrees MappedAreWritable ChainsEnd DefineConforms
PROPERTIES KeepsContract

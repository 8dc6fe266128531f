SPECIFICATION Spec
CONSTANT Programs <- AllPrograms
CONSTANT GlobalNames <- MCGlobalNames
INVARIANT TypeOK
INVARIANT RefusedWhenIllegal
PROPERTY MeansTheSame
INVARIANT NoInternalFailure
INVARIANT StatementsStartClean
INVARIANT WithEnvironmentMatches
INVARIANT UpvaluesAreShared
PROPERTY ConstantsStay
PROPERTY Terminates
CHECK_DEADLOCK FALSE

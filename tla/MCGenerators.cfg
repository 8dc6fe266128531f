SPECIFICATION Spec
CONSTANTS
  Names <- MCNames
  Programs <- MCPrograms
  MaxReads = 2
  GenIds <- MCGenIds
  Slots <- MCSlots
  Sources <- GeneratorSources
INVARIANTS
  TypeOK
  StackDiscipline
  CallersKeepOperands
  GeneratorExclusive
  RunsAsSpecified
PROPERTIES
  BoundaryRespected
  FailureBypassesHandlers

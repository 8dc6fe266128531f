SPECIFICATION FairSpec
CONSTANTS
  Names <- MCNames
  Programs <- MCPrograms
  MaxReads = 2
  GenIds <- MCGenIds
  Slots <- MCSlots
  Sources <- MCSources
INVARIANTS
  RunsAsSpecified
  HeightMatchesVerifier
  PendingInsideItsFinalizer
PROPERTIES
  SavedCompletionSurvives
  Termination

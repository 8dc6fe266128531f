SPECIFICATION Spec
CONSTANTS
  Names <- MCNames
  Programs <- MCPrograms
  MaxReads = 0
  GenIds <- MCGenIds
  Slots <- MCSlots
  Sources <- NestedHandler
PROPERTIES
  SavedCompletionSurvives

SPECIFICATION Spec
CONSTANTS
  Names <- MCNames
  Programs <- MCPrograms
  MaxReads = 1
  GenIds <- MCGenIds
  Slots <- MCSlots
  Sources <- ObjectRest
INVARIANTS
  HeightMatchesVerifier

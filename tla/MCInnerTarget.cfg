SPECIFICATION Spec
CONSTANTS
  Names <- MCNames
  Programs <- MCPrograms
  MaxReads = 2
  GenIds <- MCGenIds
  Slots <- MCSlots
  Sources <- InnerTarget
INVARIANTS
  JumpsLeaveTheRegion

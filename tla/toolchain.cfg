SPECIFICATION Spec
CONSTANTS
  LowerCase <- MCLowerCase
  Registers <- MCRegisters
  Numerals <- MCNumerals
  Sources <- MCSources
  TextLimits = {9, 11, 127}
  Operands <- MCOperands
  Images <- MCImages
  ExecutedSources <- MCExecutedSources
  ByteBits = 2
  UpperShift = 4
  DramBytes = 16
  ReadOnly <- MCReadOnly
INVARIANTS TypeOK LabelsAgree ListingAligned FitsTheSegment 
PROPERTY ExecutesItsSource

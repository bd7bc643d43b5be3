CONSTANTS
  PageSize = 2
  MaxRecords = 6
SPECIFICATION Spec
INVARIANTS
  TypeOK
  CompleteUnlessPulled
  NoneTwiceUnlessPushed

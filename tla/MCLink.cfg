SPECIFICATION FairSpec
CONSTANTS
  Inputs <- LinkInputs
  SegmentNumbers = {1, 2, 3, 4, 9}
INVARIANTS LinkTypeOK ChainsGrow  RelocsCurrent SegmentsApart MapTells
PROPERTIES ProgramsLoad 
CHECK_DEADLOCK FALSE

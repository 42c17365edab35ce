SPECIFICATION Spec
CONSTANTS
  Inputs <- LinkInputs
  SegmentNumbers = {1, 2, 3, 4, 9}
INVARIANTS RelocsizeIsBytes
CHECK_DEADLOCK FALSE

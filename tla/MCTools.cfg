\* The tools around the linker, one at a time.
SPECIFICATION Spec
CONSTANTS
  Tools = {"copyreloc", "label", "res", "dialog"}
  Copies <- Calls
  MaxAttempts = 3
  Listings <- SomeListings
  Images <- SomeImages
  Templates <- SomeTemplates
INVARIANTS CopiedWhole JumpsReach  FunctionsSplit DumpsWhole DialogRead
PROPERTIES KeptCopied CopyEnds
CHECK_DEADLOCK FALSE

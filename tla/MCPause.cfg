SPECIFICATION Spec
CONSTANT EndingFrames = 3
INVARIANTS TypeOK  GamePausedBalance NoReentry
PROPERTY TickOnlyInPlay

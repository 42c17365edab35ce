SPECIFICATION SpeedSpec
CONSTANTS
  Width = 4
  Height = 2
  Levels <- WalkLevels
  MonsterLimit = 4
  SlipLimit = 4
  Draws <- OneDraw
  Leftovers <- NoLeftover
  TickCycle = 4
  Targets <- Corner
INVARIANTS SpeedLimit
PROPERTIES TickEnds DeathIsFound KeptKeyUsed

SPECIFICATION Spec
CONSTANTS
  Width = 2
  Height = 2
  Levels <- KeyLevels
  MonsterLimit = 4
  SlipLimit = 4
  Draws <- OneDraw
  Leftovers <- NoLeftover
  TickCycle = 4
  Targets = {}
INVARIANTS LookEnds

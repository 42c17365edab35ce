SPECIFICATION Spec
CONSTANTS
  Width = 5
  Height = 2
  Levels <- IceLevels
  MonsterLimit = 4
  SlipLimit = 4
  Draws <- OneDraw
  Leftovers <- NoLeftover
  TickCycle = 4
  Targets = {}
INVARIANTS IsblockMeansBlock

SPECIFICATION Spec
CONSTANTS
  Width = 3
  Height = 3
  Levels <- DeadLevels
  MonsterLimit = 4
  SlipLimit = 4
  Draws <- OneDraw
  Leftovers <- NoLeftover
  TickCycle = 4
  Targets = {}
PROPERTIES DeathRestarts

SPECIFICATION Spec
CONSTANTS
  Width = 4
  Height = 2
  Levels <- DoorLevels
  MonsterLimit = 4
  SlipLimit = 4
  Draws <- OneDraw
  Leftovers <- NoLeftover
  TickCycle = 20
  Targets = {}
INVARIANTS TypeOK ChipsAddUp 
PROPERTIES FollowsFlow

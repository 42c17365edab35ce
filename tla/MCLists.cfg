SPECIFICATION Spec
CONSTANTS
  Width = 5
  Height = 2
  Levels <- ListLevels
  MonsterLimit = 4
  SlipLimit = 4
  Draws <- SomeDraws
  Leftovers <- AllLeftovers
  TickCycle = 4
  Targets = {}
INVARIANTS LoopInRange MonstersListed SlippingListed SlidersOnBoard OneChip TogglesTogether
PROPERTIES TrapKeeps TrapsFollowButtons

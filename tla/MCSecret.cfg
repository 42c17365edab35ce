SPECIFICATION Spec
CONSTANTS
  FakeLastLevel = 2
  LastLevel = 3
  MelindaThreshold = 2
  Times = {0, 9}
  LevelBonus <- Bonus
  MaxRestarts = 2
PROPERTIES SecretNeedsPassword

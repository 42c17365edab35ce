------------------------------- MODULE Tiles -------------------------------
(***************************************************************************)
(* The tiles of the game board, the directions, and the pure rules about   *)
(* them: what a tile does to whoever enters it (TileTable), the thin walls *)
(* of panels and ice corners, turning, and the direction a slide takes.    *)
(* Nothing here has state; every other module of the game uses it.         *)
(*                                                                         *)
(* A tile is the byte the program stores in a board layer.  Chip's own     *)
(* tile is kept without its facing: nothing but the drawing code reads it. *)
(***************************************************************************)
EXTENDS Integers

Floor == 0
Wall == 1
ICChip == 2
Water == 3
Fire == 4
InvisibleWall == 5
PanelN == 6
PanelW == 7
PanelS == 8
PanelE == 9
Block == 10
Dirt == 11
Ice == 12
ForceS == 13
BlockN == 14
BlockW == 15
BlockS == 16
BlockE == 17
ForceN == 18
ForceE == 19
ForceW == 20
Exit == 21
BlueDoor == 22
RedDoor == 23
GreenDoor == 24
YellowDoor == 25
IceWallNW == 26
IceWallNE == 27
IceWallSE == 28
IceWallSW == 29
FakeFloor == 30
FakeWall == 31
Thief == 33
Socket == 34
ToggleButton == 35
CloneButton == 36
ToggleWall == 37
ToggleFloor == 38
TrapButton == 39
TankButton == 40
Teleport == 41
Bomb == 42
Trap == 43
HiddenWall == 44
Gravel == 45
PopupWall == 46
Hint == 47
PanelSE == 48
CloneMachine == 49
ForceRandom == 50
ChipSplash == 51
ChipBurned == 52
Swim == 60
Chip == 108

\* The first (northward) tile of each monster; +1 west, +2 south, +3 east.
Bug == 64
Fireball == 68
Ball == 72
Tank == 76
Glider == 80
Teeth == 84
Walker == 88
Blob == 92
Paramecium == 96

Keys == 100..103      \* blue, red, green, yellow
Boots == 104..107     \* flipper, fire, ice skates, suction
Doors == {BlueDoor, RedDoor, GreenDoor, YellowDoor}

Tile == 0..111
ChipTiles == {Swim, Chip}
Monsters == Bug..(Paramecium + 3)
Transparent == Bug..(Chip + 3)
Buttons == {ToggleButton, CloneButton, TrapButton, TankButton}
Panels == {PanelN, PanelW, PanelS, PanelE, PanelSE}
IceWalls == {IceWallNW, IceWallNE, IceWallSE, IceWallSW}
ForceFloors == {ForceN, ForceW, ForceS, ForceE, ForceRandom}
CloneBlocks == BlockN..BlockE

\* The base tile of a monster's kind: the byte without its direction bits.
Kind(t) == 4 * (t \div 4)
-----------------------------------------------------------------------------
North == <<0, -1>>
West  == <<-1, 0>>
South == <<0, 1>>
East  == <<1, 0>>
Still == <<0, 0>>     \* a tank that has stopped

Compass == {North, West, South, East}
Dir == Compass \cup {Still}

TurnLeft(d) == IF d \in Compass THEN <<d[2], -d[1]>> ELSE d
TurnRight(d) == IF d \in Compass THEN <<-d[2], d[1]>> ELSE d
TurnAround(d) == <<-d[1], -d[2]>>

DirIndex(d) == CASE d = North -> 0 [] d = West -> 1
                 [] d = South -> 2 [] d = East -> 3

SetTileDir(t, d) == IF d \in Compass THEN Kind(t) + DirIndex(d) ELSE t

TileDir(t) == CASE t % 4 = 0 -> North [] t % 4 = 1 -> West
                [] t % 4 = 2 -> South [] t % 4 = 3 -> East

\* The direction in which a block in a clone machine is let out.
CloneBlockDir(t) == CASE t = BlockN -> North [] t = BlockW -> West
                      [] t = BlockS -> South [] t = BlockE -> East
-----------------------------------------------------------------------------
\* Sides of the tile that carry a thin wall, named by the way it faces.
WallSides(t) ==
  CASE t = PanelN -> {North}            [] t = PanelW -> {West}
    [] t = PanelS -> {South}            [] t = PanelE -> {East}
    [] t \in {PanelSE, IceWallSE} -> {South, East}
    [] t = IceWallNW -> {North, West}   [] t = IceWallNE -> {North, East}
    [] t = IceWallSW -> {South, West}
    [] OTHER -> {}

\* CheckPanelWalls with its flag 1 (entering) and 0 (leaving).
CanEnterPast(t, d) == TurnAround(d) \notin WallSides(t)
CanLeavePast(t, d) == d \notin WallSides(t)
-----------------------------------------------------------------------------
(***************************************************************************)
(* One row of TileTable: for Chip, a block and a monster in turn, whether  *)
(* it may enter (0 never, 1 always, 2 it depends) and the action code its  *)
(* move routine switches on.  The codes are the program's:                 *)
(*   0 nothing   1 pick up / press   2 drown or die   3 open   4 stand on  *)
(*   (and slide, for blocks and monsters)   5 slide (explode, for blocks   *)
(*   and monsters)   6 trap   7 teleport                                   *)
(***************************************************************************)
TileRow(t) ==
  CASE t = Floor -> <<1,0, 1,0, 1,1>>
    [] t = ICChip -> <<1,1, 0,0, 0,0>>
    [] t = Water -> <<2,2, 1,2, 2,2>>
    [] t = Fire -> <<2,2, 1,1, 2,2>>
    [] t \in Panels -> <<2,4, 2,1, 2,1>>
    [] t \in {Block, FakeFloor, FakeWall, HiddenWall} -> <<2,0, 0,0, 0,0>>
    [] t = Dirt -> <<1,3, 0,0, 0,0>>
    [] t \in {Ice, ForceN, ForceW, ForceS, ForceE} -> <<2,5, 1,4, 1,4>>
    [] t = ForceRandom -> <<2,5, 1,4, 0,0>>
    [] t \in IceWalls -> <<2,5, 2,4, 2,4>>
    [] t \in {Exit, Gravel} -> <<1,4, 1,1, 0,0>>
    [] t \in Doors \cup {Socket} -> <<2,3, 0,0, 0,0>>
    [] t \in {Thief, PopupWall} -> <<2,4, 0,0, 0,0>>
    [] t \in Buttons \cup {ToggleFloor, Hint} -> <<1,4, 1,1, 1,1>>
    [] t = Teleport -> <<1,7, 1,7, 1,7>>
    [] t = Bomb -> <<1,2, 1,5, 1,5>>
    [] t = Trap -> <<1,6, 1,6, 1,6>>
    [] t \in Monsters -> <<2,2, 0,0, 0,0>>
    [] t \in Keys -> <<2,1, 1,1, 1,1>>
    [] t \in Boots -> <<2,1, 1,1, 0,0>>
    [] t \in 60..63 \cup 108..111 -> <<0,0, 1,1, 1,0>>
    [] OTHER -> <<0,0, 0,0, 0,0>>

TileTable == [t \in Tile |-> TileRow(t)]

\* Where the columns of each kind of mover start.
ForChip == 1
ForBlock == 3
ForMonster == 5
CanEnter(t, mover) == TileTable[t][mover]
ActionOn(t, mover) == TileTable[t][mover + 1]
-----------------------------------------------------------------------------
\* The way an ice corner bends a slide: in at an open side, out at the other.
Bend(t, d) ==
  IF CanEnterPast(t, d)
  THEN CHOOSE e \in Compass \ WallSides(t) : e # TurnAround(d)
  ELSE TurnAround(d)

(***************************************************************************)
(* SlideMovement's switch on the tile slid onto: where something that came *)
(* with direction d goes next.  "old" is the direction its slide record    *)
(* held before (any value when the record is new), kept on every tile the  *)
(* switch does not name; "rnd" is the random floor's draw.                 *)
(***************************************************************************)
SlideDir(t, d, old, rnd) ==
  CASE t \in {Ice, Teleport, Trap} -> d
    [] t = ForceN -> North [] t = ForceW -> West
    [] t = ForceS -> South [] t = ForceE -> East
    [] t = ForceRandom -> rnd
    [] t \in IceWalls -> Bend(t, d)
    [] OTHER -> old
=============================================================================

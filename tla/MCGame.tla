------------------------------- MODULE MCGame -------------------------------
(* Levels for TLC: each run takes one of these level sets as Levels, with   *)
(* the board size that goes with it.                                        *)
EXTENDS GameProps

\* A level whose top layer is given row by row; lower, monsters, traps and
\* clones come on top of that.
At(rows, c) == rows[c[2] + 1][c[1] + 1]
Layer(rows) == [c \in Cell |-> At(rows, c)]
Bare == [c \in Cell |-> Floor]
Place(t) == [c \in Cell |-> t]
Where(rows, S) == SetToSortSeq({c \in Cell : At(rows, c) \in S},
                    LAMBDA p, q : p[2] * Width + p[1] < q[2] * Width + q[1])
FindChip(rows) == CHOOSE c \in Cell : At(rows, c) \in ChipTiles

PlainLevel(rows) ==
  [upper |-> Layer(rows), lower |-> Bare, monsters |-> Where(rows, Monsters),
   traps |-> <<>>, clones |-> <<>>, chip |-> FindChip(rows), chips |-> 0,
   time |-> 0]

On(l, c, t) == [l EXCEPT !.lower[c] = t]
Linked(l, traps, clones) == [l EXCEPT !.traps = traps, !.clones = clones]
TrapFrom(b, t) == [from |-> b, to |-> t, shut |-> TRUE]
CloneFrom(b, m) == [from |-> b, to |-> m]

OneDraw == {[dir |-> North, order |-> <<"left", "right", "back">>,
             floor |-> <<North, North>>]}
NoLeftover == {Still}

AllLeftovers == StackDirs

\* Ice with a bend, a force floor that may be blocked at its end, a ball that
\* slides and drowns, and a block to push on.
IceLevels ==
  <<PlainLevel(<< <<Chip,  Block, Ice,      ForceE, Floor>>,
                  <<Water, Ice,   Ball + 3, Ice,    IceWallSE>> >>)>>

\* A ball that goes round and round on four bends of ice, one that may eat
\* Chip, and a block.
RingLevels ==
  <<On(PlainLevel(<< <<Chip,  Block,    Ball + 3,  IceWallNE>>,
                     <<Floor, Ball + 1, IceWallSW, IceWallSE>> >>),
       <<2, 0>>, IceWallNW)>>

\* Two traps with two buttons each, one already holding a bug; Chip, a block
\* and a ball press them, and the ball goes from a button into its trap.
TrapLevels ==
  <<Linked(On(PlainLevel(<< <<Chip, TrapButton, Block, Floor, TrapButton>>,
                            <<TrapButton, Trap, Ball + 3, Bug, Floor>> >>),
              <<3, 1>>, Trap),
           <<TrapFrom(<<1, 0>>, <<1, 1>>), TrapFrom(<<0, 1>>, <<1, 1>>),
             TrapFrom(<<4, 0>>, <<3, 1>>), TrapFrom(<<1, 0>>, <<3, 1>>)>>, <<>>)>>

\* A block that is let out onto the button of a second machine, and fireballs
\* that fly into a bomb while MonsterLoop runs, behind a tank that stands.
CloneLevels ==
  <<Linked(On(On(PlainLevel(
      << <<Chip, Block, CloneButton, Bomb, Tank>>,
         <<Floor, BlockE, CloneButton, Floor, Fireball + 1>> >>),
      <<1, 1>>, CloneMachine), <<4, 1>>, CloneMachine), <<>>,
      <<CloneFrom(<<2, 0>>, <<1, 1>>), CloneFrom(<<2, 1>>, <<4, 1>>)>>)>>

\* Two teleports, with a block in the way of one of them.
TeleportLevels ==
  <<PlainLevel(<< <<Chip, Teleport, Floor, Ball + 1, Wall>>,
                  <<Floor, Block, Teleport, Floor, Wall>> >>)>>

\* Two tanks, their button, toggle walls and theirs.
TankLevels ==
  <<PlainLevel(<< <<Chip, TankButton, Tank + 3, Floor, ToggleButton>>,
                  <<Floor, Block, ToggleWall, Tank + 1, ToggleFloor>> >>)>>

\* The slow and the random ones: teeth, a blob, a walker, a random floor.
ZooLevels ==
  <<PlainLevel(<< <<Chip, Floor, Teeth, Floor, Wall>>,
                  <<Blob, ForceRandom, Walker, Wall, Wall>> >>)>>

\* All of these, to start from any.
ListLevels ==
  LET sets == <<IceLevels, CloneLevels, TeleportLevels, TankLevels, ZooLevels,
                TrapLevels>>
  IN  FlattenSeq(sets)

\* Keys, doors, chips, a thief, a clock of one second; then water, walls that
\* give way, and the end.
DoorLevels ==
  <<[PlainLevel(<< <<Chip, ICChip, Socket, Exit>>,
                   <<100, BlueDoor, Thief, ICChip>> >>)
       EXCEPT !.chips = 1, !.time = 2],
    PlainLevel(<< <<Exit, Water, Chip, PopupWall>>,
                  <<FakeFloor, Floor, Dirt, FakeWall>> >>)>>

\* Chip on a bend is hit by the block that his own push let out, and slides
\* on into the exit.
DeadLevels ==
  <<Linked(On(On(PlainLevel(<< <<Floor, BlockS, Floor>>,
                               <<Chip, Block, CloneButton>>,
                               <<Floor, Exit, Floor>> >>),
                 <<1, 0>>, CloneMachine), <<1, 1>>, IceWallNE),
           <<>>, <<CloneFrom(<<2, 1>>, <<1, 0>>)>>),
    PlainLevel(<< <<Chip, Floor, Floor>>, <<Floor, Floor, Floor>>,
                  <<Floor, Floor, Floor>> >>)>>

\* A key that a bug may stand on.
KeyLevels == <<PlainLevel(<< <<Chip, Floor>>, <<100, Bug + 1>> >>)>>

SomeDraws ==
  {[dir |-> North, order |-> <<"left", "right", "back">>,
    floor |-> <<North, East>>],
   [dir |-> East, order |-> <<"back", "right", "left">>,
    floor |-> <<West, South>>]}

\* The levels of every set are such that the lists and the board can agree.
ASSUME LevelsAreWellFormed == LevelsWellFormed
=============================================================================

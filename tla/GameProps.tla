----------------------------- MODULE GameProps -----------------------------
(***************************************************************************)
(* What should be true of the game: agreement between the lists and the    *)
(* board, traps, toggle walls, what is carried and what is left, and the   *)
(* course of the levels.  A dead Chip's board is about to be thrown away,  *)
(* and the ending empties the lists: most of it is said of play.           *)
(***************************************************************************)
EXTENDS Game, FiniteSetsExt

world == game.w
InPlay == ~Dead(game) /\ ~game.ending

\* The step loads no level.
SamePlay == world'.level = world.level /\ InPlay /\ InPlay' /\ ~game'.placard
-----------------------------------------------------------------------------
\* The variables have their types, whatever happens on the boards.
TypeOK ==
  /\ game \in GameType
  /\ tick \in 0..(TickCycle - 1)
  /\ pc \in {"idle", "monsters", "slide", "bounce", "afterSlide", "slips",
             "clock"}
  /\ loop \in [i: Nat, n: Nat, ndir: StackDirs]

\* MonsterLoop reads and writes within the list: it keeps the length that the
\* list had when it began, and a monster that dies, at its turn or not, never
\* leaves that count past the list's end.  (MonsterLoop and DeleteMonster.)
LoopInRange ==
  pc = "monsters" => loop.i >= 1 /\ loop.n <= Len(world.monsters)

\* The monster list and the board agree both ways: each entry has its monster
\* on top of its cell, no two entries share a cell, and each monster on top
\* that is not a clone machine's master has an entry.  (MonsterLoop moves what
\* the list names and the board shows; nothing ever rebuilds either.)
MonstersListed ==
  InPlay =>
    /\ \A i \in 1..Len(world.monsters) :
         LET m == world.monsters[i]
         IN  /\ Kind(world.upper[m.pos]) = Kind(m.tile)
             /\ FindMonster(world, m.pos) = i
    /\ \A c \in Cell : world.upper[c] \in Monsters
                         => \/ FindMonster(world, c) # 0
                            \/ world.lower[c] = CloneMachine

\* "slipping records whether the monster is also on the slip list"
\* (structs.asm): MonsterLoop passes over what SlipLoop moves, so a wrong
\* flag is a monster that moves twice a tick or never again.
SlippingListed ==
  InPlay => \A i \in 1..Len(world.monsters) :
    LET m == world.monsters[i]
    IN  m.slipping <=> \E k \in 1..Len(world.slips) :
                         world.slips[k].pos = m.pos /\ world.slips[k].isblock

\* Every entry of the slip list has its slider on the board, a listed monster
\* or a block, and no two entries are of one cell: FindSlipper and
\* DeleteSlipperAt know a slider by its cell alone.
SlidersOnBoard ==
  InPlay => \A k \in 1..Len(world.slips) :
    LET s == world.slips[k]
    IN  /\ FindSlipper(world, s.pos) = k
        /\ IF s.isblock THEN FindMonster(world, s.pos) # 0
           ELSE world.upper[s.pos] = Block

\* There is one Chip: on top at ChipX, ChipY, nowhere else, and never beneath
\* something unless that killed him.
OneChip ==
  InPlay => /\ world.upper[game.chip.pos] \in ChipTiles
            /\ \A c \in Cell : world.upper[c] \in ChipTiles => c = game.chip.pos
            /\ \A c \in Cell : world.lower[c] \notin ChipTiles
-----------------------------------------------------------------------------
Thing(t) == IF t \in ChipTiles THEN Chip ELSE IF t \in Monsters THEN Kind(t) ELSE t

\* What stands on a shut trap stays there: no move, push, slide or tank
\* reversal of one tick takes it out.
TrapKeeps ==
  [][SamePlay => \A c \in Cell :
       TrapHolds(world, c) =>
         /\ world'.lower[c] = Trap
         /\ Thing(world'.upper[c]) = Thing(world.upper[c])]_vars

\* Traps do what their buttons say.  A trap that was shut opens only in a step
\* after which one of its buttons is under something; and what walks into a
\* trap is held unless one is, the button it has just left not counted.
\* (PressTrapButton and EnterTrap decide from different things, and every
\* connection has a flag of its own.)
Covered(w, b) == w.lower[b] = TrapButton
Weighted(w, trap) == \E i \in 1..Len(w.traps) :
                       w.traps[i].to = trap /\ Covered(w, w.traps[i].from)
TrapsFollowButtons ==
  [][SamePlay =>
       /\ \A i \in 1..Len(world.traps) :
            world.traps[i].shut /\ ~world'.traps[i].shut
              => Weighted(world', world.traps[i].to)
       /\ \A c \in Cell :
            world.lower[c] # Trap /\ world'.lower[c] = Trap
              => (TrapHolds(world', c) <=> ~Weighted(world', c))]_vars

\* All toggle walls are as the level has them, or all are the other way round,
\* also beneath what stands on them.
IsToggle(t) == t \in {ToggleWall, ToggleFloor}
ToggleAt(w, c) == IF IsToggle(w.upper[c]) THEN w.upper[c] ELSE w.lower[c]
TogglesTogether ==
  InPlay =>
    \/ \A c \in ToggleCells[world.level] :
         ToggleAt(world, c) = InitialTile(world.level, c)
    \/ \A c \in ToggleCells[world.level] :
         ToggleAt(world, c) = Toggled(InitialTile(world.level, c))
-----------------------------------------------------------------------------
\* The chips still needed and the chips still on the board go down together:
\* none is counted twice, lost beneath something, or left after it was taken.
ChipsOn(upper, lower) == {c \in Cell : upper[c] = ICChip}
                         \cup {c \in Cell : lower[c] = ICChip}
ChipsAddUp ==
  LET l == Levels[world.level]
      taken == Cardinality(ChipsOn(l.upper, l.lower))
                 - Cardinality(ChipsOn(world.upper, world.lower))
  IN  InPlay => game.bag.chips = IF taken < l.chips THEN l.chips - taken ELSE 0

\* Behind the placard Chip waits at the level's start with nothing in his bag,
\* however much of the tick that loaded the level was still to run.
StartsFresh ==
  game.placard =>
    /\ game.chip.pos = Levels[world.level].chip
    /\ game.bag = LoadLevel(world.level).bag
    /\ ~game.chip.moved /\ ~game.chip.buffered

\* The clock of a timed level is never seen at 0: reaching it is dying.  One of
\* an untimed level never runs.
ClockRuns == game.time > 0 <=> Levels[world.level].time > 0
-----------------------------------------------------------------------------
(***************************************************************************)
(* The course of the levels.                                               *)
(***************************************************************************)
Mode == IF Dead(game) /\ ~game.placard THEN "dead"
        ELSE IF game.ending THEN "ending"
        ELSE IF game.placard THEN "placard" ELSE "play"

Flow == INSTANCE LevelFlow WITH LastLevel <- Len(Levels), level <- world.level,
                                mode <- Mode

\* The game goes through its levels as LevelFlow says.
FollowsFlow == Flow!FlowSpec

\* A tick comes to its end, although both of its loops run over lists that they
\* change, and SlipLoop takes an index again whenever the length changed.
TickEnds == pc # "idle" ~> pc = "idle"

\* When Chip is dead a level is soon read, even if nobody touches a key; but
\* not during the ending, when no tick runs.
DeathIsFound == (Dead(game) /\ ~game.ending) ~> ~Dead(game)

\* A key that was kept is used or dropped.
KeptKeyUsed == game.chip.buffered ~> (~game.chip.buffered \/ game.ending)
-----------------------------------------------------------------------------
(***************************************************************************)
(* What comments of the program say, and the program does not do.          *)
(***************************************************************************)

\* "isblock records whether the moving object is a block (not a monster)"
\* (structs.asm).
IsblockMeansBlock ==
  \A k \in 1..Len(world.slips) :
    world.slips[k].isblock <=> world.slips[k].tile = Block

\* "if tile is transparent, check the lower tile instead" (logic.asm): the
\* question is answered.
LookEnds == world.fault # "recursion"

\* "If chip died, then play "bummer" sfx, show death message, and restart the
\* level" (logic.asm).
DeathRestarts ==
  [][Dead(game) /\ ~game.ending => world'.level = world.level]_vars
-----------------------------------------------------------------------------
(***************************************************************************)
(* What a level must be like for the lists and the board to agree in play. *)
(* Nothing in the program looks whether a level is: the lists it makes are *)
(* then wrong from the start, or go wrong in the cases described here.     *)
(***************************************************************************)
Bearers == Monsters \cup {Block}
Has(l, x, t) == l.upper[x] = t \/ l.lower[x] = t

\* Every monster on top is listed, once, and there is room for the list.
ListsItsMonsters(l) ==
  /\ Len(l.monsters) <= MonsterLimit
  /\ \A i, j \in 1..Len(l.monsters) : l.monsters[i] = l.monsters[j] => i = j
  /\ \A x \in Cell : l.upper[x] \in Monsters
       => l.lower[x] = CloneMachine \/ \E i \in 1..Len(l.monsters) : l.monsters[i] = x

\* A block, a bomb or a computer chip is not hidden beneath a mere tile.
HidesNothing(l) ==
  \A x \in Cell :
    /\ l.lower[x] # Block
    /\ l.lower[x] = Bomb => l.upper[x] \in Bearers
    /\ l.lower[x] = ICChip => l.upper[x] \in Bearers \cup ChipTiles

\* No clone block is let out onto a tank button or a teleport: a tank that
\* has set off the machine, or Chip who is coming out of a teleport, is not
\* where the lists say.
ClonesApart(l) ==
  \A i \in 1..Len(l.clones) :
    LET m == l.clones[i].to
        q == Step(m, CloneBlockDir(l.upper[m]))
    IN  l.upper[m] \in CloneBlocks /\ q \in Cell
          => ~Has(l, q, TankButton) /\ ~Has(l, q, Teleport)

\* A block pushed away from a teleport's exit does not go into another one:
\* it might come out where Chip went in, and he would be put on top of it.
TeleportsApart(l) ==
  \A p \in Cell : \A d \in Compass :
    LET q == Step(Step(p, d), d)
    IN  q \in Cell => ~(Has(l, p, Teleport) /\ Has(l, q, Teleport))

WellFormed(l) == /\ ListsItsMonsters(l) /\ HidesNothing(l)
                 /\ ClonesApart(l) /\ TeleportsApart(l)
LevelsWellFormed == \A n \in 1..Len(Levels) : WellFormed(Levels[n])
=============================================================================

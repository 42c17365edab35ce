------------------------------- MODULE World -------------------------------
(***************************************************************************)
(* The part of GameState that moves: the two board layers, the list of     *)
(* monsters, the list of things that are sliding, and the trap             *)
(* connections; with the operations the program has on them.  A "world" is *)
(* one record, and an operation is an operator from a world to a world, so *)
(* that a handler is written as the sequence of calls it makes.            *)
(*                                                                         *)
(* List indices start at 1; the program's index -1 ("not found") is 0.     *)
(***************************************************************************)
EXTENDS Tiles, Sequences, SequencesExt

CONSTANTS
  Width, Height,   (* board size: 32 by 32 in the program                  *)
  Levels,          (* the level set: a sequence of decoded levels          *)
  MonsterLimit,    (* longest monster list GrowArray can allocate          *)
  SlipLimit        (* longest slip list GrowArray can allocate             *)

Cell == (0..(Width - 1)) \X (0..(Height - 1))
NoCell == <<-1, -1>>

\* A connection of the level file: a button and what it works; for a trap,
\* shut is Connection.flag = 1: what stands on the trap is held.
Link == [from: Cell, to: Cell]
TrapLink == [from: Cell, to: Cell, shut: BOOLEAN]

\* A level as ReadLevelFields leaves it, before InitBoard runs.
Level == [upper: [Cell -> Tile], lower: [Cell -> Tile], monsters: Seq(Cell),
          traps: Seq(TrapLink), clones: Seq(Link), chip: Cell,
          chips: Nat, time: Nat]

(***************************************************************************)
(* What the level files guarantee and the program takes for granted: Chip  *)
(* is on the board, and a clone machine holds a monster or a clone block.  *)
(***************************************************************************)
LevelOK(l) ==
  /\ l.upper[l.chip] \in ChipTiles
  /\ \A c \in Cell : l.upper[c] \in ChipTiles => c = l.chip
  /\ \A c \in Cell : l.lower[c] \notin ChipTiles \cup Monsters
  /\ \A i \in 1..Len(l.clones) :
       /\ l.lower[l.clones[i].to] = CloneMachine
       /\ l.upper[l.clones[i].to] \in Monsters \cup CloneBlocks

ASSUME WorldAssumption ==
  /\ Width \in Nat \ {0} /\ Height \in Nat \ {0}
  /\ MonsterLimit \in Nat /\ SlipLimit \in Nat
  /\ Levels \in Seq(Level) /\ Levels # <<>>
  /\ \A n \in 1..Len(Levels) : LevelOK(Levels[n])
-----------------------------------------------------------------------------
Monster == [tile: Tile, pos: Cell, dir: Dir, slipping: BOOLEAN]

\* isblock is the program's name; it is set for monsters, clear for blocks.
Slipper == [tile: Tile, pos: Cell, dir: Dir, isblock: BOOLEAN]

Autopsy == {"NotDeadYet", "Burned", "Drowned", "Bombed", "Squished", "Eaten",
            "OutOfTime"}

(***************************************************************************)
(* Where the program would leave its own data: a write through monster     *)
(* index -1, or the unbounded self-call of ChipCanEnterTile.  A world with *)
(* a fault stands for a program that has crashed.  "cloneDepth" is not the *)
(* program's: it marks the bound of this model (see Moves).                *)
(***************************************************************************)
Fault == {"none", "monsterIndex", "recursion", "cloneDepth"}

WorldType ==
  [level: 1..Len(Levels), upper: [Cell -> Tile], lower: [Cell -> Tile],
   monsters: Seq(Monster), slips: Seq(Slipper), traps: Seq(TrapLink),
   autopsy: Autopsy, fault: Fault]
-----------------------------------------------------------------------------
Step(p, d) == <<p[1] + d[1], p[2] + d[2]>>

\* The least index in S, or 0 when there is none.
First(S) == IF S = {} THEN 0 ELSE CHOOSE i \in S : \A j \in S : i <= j

FindMonster(w, p) == First({i \in 1..Len(w.monsters) : w.monsters[i].pos = p})
FindSlipper(w, p) == First({i \in 1..Len(w.slips) : w.slips[i].pos = p})

SetUpper(w, p, t) == [w EXCEPT !.upper[p] = t]
SetLower(w, p, t) == [w EXCEPT !.lower[p] = t]

\* Fault: the top tile is overwritten before it is saved.
PushLost(w, p) == w

\* Cover the tile at p, and uncover what lies beneath it.
Push(w, p) == SetLower(w, p, w.upper[p])
Pop(w, p) == SetLower(SetUpper(w, p, w.lower[p]), p, Floor)

Kill(w, cause) == [w EXCEPT !.autopsy = cause]
Crash(w, kind) == [w EXCEPT !.fault = kind]
-----------------------------------------------------------------------------
(***************************************************************************)
(* Traps.  Connections to the same trap count together only when they are  *)
(* neighbours in the list: FindTrapSpan stops at the first other trap.     *)
(***************************************************************************)
FindTrap(w, p) == First({i \in 1..Len(w.traps) : w.traps[i].to = p})
FindTrapByButton(w, p) == First({i \in 1..Len(w.traps) : w.traps[i].from = p})

FindTrapSpan(w, p) ==
  {i \in 1..Len(w.traps) :
     /\ FindTrap(w, p) # 0 /\ i >= FindTrap(w, p)
     /\ \A j \in FindTrap(w, p)..i : w.traps[j].to = p}

SetTraps(w, S, s) ==
  [w EXCEPT !.traps =
     [i \in 1..Len(w.traps) |->
        IF i \in S THEN [w.traps[i] EXCEPT !.shut = s] ELSE w.traps[i]]]

\* A trap nothing is connected to never lets go.
TrapHolds(w, p) ==
  w.lower[p] = Trap /\ (FindTrap(w, p) # 0 => w.traps[FindTrap(w, p)].shut)

PressTrapButton(w, p) ==
  LET b == FindTrapByButton(w, p)
  IN  IF b = 0 THEN w ELSE SetTraps(w, FindTrapSpan(w, w.traps[b].to), FALSE)

\* Fault: what is leaving a button for the trap still holds the trap open.
EnterTrapByOwnButton(w, dest, src) ==
  LET span == FindTrapSpan(w, dest)
  IN  SetTraps(w, span, \A i \in span : w.upper[w.traps[i].from] = TrapButton)

\* The trap shuts unless one of its buttons is covered by something other
\* than what is just leaving that button.
EnterTrap(w, dest, src) ==
  LET span == FindTrapSpan(w, dest)
  IN  SetTraps(w, span,
        \A i \in span : \/ w.upper[w.traps[i].from] = TrapButton
                        \/ w.traps[i].from = src)
-----------------------------------------------------------------------------
(***************************************************************************)
(* The monster list.                                                       *)
(***************************************************************************)

\* Fault: the flag of the monster's own entry is left set.
DeleteSlipperAtLeavesFlag(w, p) ==
  LET i == FindSlipper(w, p)
  IN  IF i = 0 THEN w ELSE [w EXCEPT !.slips = RemoveAt(w.slips, i)]

\* Fault: a slider that stops is left on the list.
DeleteSlipperAtNever(w, p) == w

\* DeleteSlipperAt: the slider at p leaves the slip list, and a monster's
\* own entry is marked as no longer slipping.
Unmark(w, m) == IF m = 0 THEN Crash(w, "monsterIndex")
                ELSE [w EXCEPT !.monsters[m].slipping = FALSE]

DeleteSlipperAt(w, p) ==
  LET i == FindSlipper(w, p)
  IN  IF i = 0 THEN w
      ELSE [(IF w.slips[i].isblock THEN Unmark(w, FindMonster(w, p)) ELSE w)
              EXCEPT !.slips = RemoveAt(@, i)]

\* Fault: the list is shortened at its head, whoever died.
DeleteMonsterFirst(w, i) == [w EXCEPT !.monsters = Tail(w.monsters)]

DeleteMonster(w, i) ==
  [(IF w.monsters[i].slipping THEN DeleteSlipperAt(w, w.monsters[i].pos) ELSE w)
     EXCEPT !.monsters = RemoveAt(@, i)]

\* A new monster's arrival: a trap may shut on it, and it may eat Chip.
Arrived(w, p) == IF w.lower[p] = Trap THEN EnterTrap(w, p, NoCell)
                 ELSE IF w.lower[p] \in ChipTiles THEN Kill(w, "Eaten") ELSE w

\* Place a monster whose tile may already be on top of the cell.
PlaceMonster(w, t, p, d) ==
  LET entry == [tile |-> t, pos |-> p, dir |-> d, slipping |-> FALSE]
      covered == IF w.upper[p] # t THEN Push(w, p) ELSE w
  IN  Arrived(SetUpper([covered EXCEPT !.monsters = Append(@, entry)], p, t), p)

NewMonster(w, t, p, d, cloning) ==
  IF \/ Len(w.monsters) >= MonsterLimit
     \/ ~cloning /\ w.lower[p] = CloneMachine
  THEN w ELSE PlaceMonster(w, t, p, d)

\* InitBoard: the monsters the level lists, as far as they stand on top.
ReadBoard(n) ==
  [level |-> n, upper |-> Levels[n].upper, lower |-> Levels[n].lower,
   monsters |-> <<>>, slips |-> <<>>, traps |-> Levels[n].traps,
   autopsy |-> "NotDeadYet", fault |-> "none"]

ListMonster(w, p) ==
  IF w.upper[p] \notin Monsters THEN w
  ELSE NewMonster(w, w.upper[p], p, TileDir(w.upper[p]), FALSE)

\* A loop from 1 to n.
Looped(Turn(_, _), start, n) ==
  LET after[k \in 0..n] == IF k = 0 THEN start ELSE Turn(after[k - 1], k)
  IN  after[n]

InitBoard(n) ==
  LET cells == Levels[n].monsters
  IN  Looped(LAMBDA w, k : ListMonster(w, cells[k]), ReadBoard(n), Len(cells))
-----------------------------------------------------------------------------
(***************************************************************************)
(* Buttons that work at once on the whole board.                           *)
(***************************************************************************)

\* The toggle list and the teleport list InitBoard collects: the top tile
\* of the level as loaded, or the one beneath a monster.
InitialTile(n, c) == IF Levels[n].upper[c] \in Monsters
                     THEN Levels[n].lower[c] ELSE Levels[n].upper[c]
ToggleCells ==
  [n \in 1..Len(Levels) |->
     {c \in Cell : InitialTile(n, c) \in {ToggleWall, ToggleFloor}}]
Teleports ==
  [n \in 1..Len(Levels) |-> {c \in Cell : InitialTile(n, c) = Teleport}]

Toggled(t) == CASE t = ToggleWall -> ToggleFloor
                [] t = ToggleFloor -> ToggleWall [] OTHER -> t

\* Fault: walls beneath something do not flip.
PressToggleButtonOnTop(w) ==
  [w EXCEPT !.upper = [c \in Cell |-> IF c \in ToggleCells[w.level]
                                      THEN Toggled(w.upper[c]) ELSE w.upper[c]]]

PressToggleButton(w) ==
  LET flip(layer) == [c \in Cell |-> IF c \in ToggleCells[w.level]
                                     THEN Toggled(layer[c]) ELSE layer[c]]
  IN  [w EXCEPT !.upper = flip(w.upper), !.lower = flip(w.lower)]

\* Every tank in the list turns round, in the list and on the board at the
\* place the list gives (the last such entry wins a cell).
ReverseTile(t) == SetTileDir(t, TurnAround(TileDir(t)))
TanksAt(w, c) == {i \in 1..Len(w.monsters) :
                    w.monsters[i].pos = c /\ Kind(w.monsters[i].tile) = Tank}
Greatest(S) == CHOOSE i \in S : \A j \in S : j <= i

PressTankButton(w) ==
  LET turned(m) == IF Kind(m.tile) = Tank
                   THEN [m EXCEPT !.tile = ReverseTile(m.tile),
                                  !.dir = TurnAround(TileDir(m.tile))]
                   ELSE m
  IN  [w EXCEPT
         !.monsters = [i \in 1..Len(w.monsters) |-> turned(w.monsters[i])],
         !.upper = [c \in Cell |->
            IF TanksAt(w, c) = {} THEN w.upper[c]
            ELSE ReverseTile(w.monsters[Greatest(TanksAt(w, c))].tile)]]
=============================================================================

------------------------------- MODULE Moves -------------------------------
(***************************************************************************)
(* Who may enter a cell, and the three routines that move things about the *)
(* board: MoveBlock, MoveMonster and, for Chip, the parts of MoveChip that *)
(* other routines share.  Everything here is one call of the program, so   *)
(* nothing interleaves with it; Game strings the calls together.           *)
(*                                                                         *)
(* A block that hits a clone button makes MoveBlock call itself for the    *)
(* block it lets out.  The model follows one such call inside another and  *)
(* marks a third with the fault "cloneDepth".                              *)
(***************************************************************************)
EXTENDS World

\* What Chip carries, and the computer chips still to be found.
Bag == [chips: Nat, keys: [Keys -> Nat], boots: SUBSET Boots]

Refused == -1          \* no entry; any other result is an action code
Keep == 255            \* the "facing" argument that means: as it is
-----------------------------------------------------------------------------
(***************************************************************************)
(* Entering and leaving.  Nothing may enter a clone machine.               *)
(***************************************************************************)
KeyFor(door) == door + 78

BootsFor(t) == IF t = Water THEN {104} ELSE IF t = Fire THEN {105}
               ELSE IF t \in IceWalls \cup {Ice} THEN {106}
               ELSE IF t \in ForceFloors THEN {107} ELSE {}

HaveBoots(bag, t) == BootsFor(t) \cap bag.boots # {}

\* The conditional tiles, for Chip.
ChipMayEnter(bag, t, d) ==
  \/ t \in {Water, Fire, Ice, FakeFloor, Thief, PopupWall} \cup ForceFloors
  \/ t \in Panels \cup IceWalls /\ CanEnterPast(t, d)
  \/ t \in Doors /\ bag.keys[KeyFor(t)] > 0
  \/ t = Socket /\ bag.chips = 0

\* What is seen through: ChipCanEnterTile asks about the layer beneath.
SeenThrough(t) ==
  t \in Transparent \cup {Block} /\ CanEnter(t, ForChip) = 2

\* Would tile t, met in either layer, let Chip in?
LetsChipIn(bag, t, d) ==
  CanEnter(t, ForChip) \in IF ChipMayEnter(bag, t, d) THEN {1, 2} ELSE {1}

ChipCanEnter(w, bag, p, d) ==
  IF \/ w.lower[p] = CloneMachine
     \/ ~LetsChipIn(bag, IF SeenThrough(w.upper[p]) THEN w.lower[p]
                         ELSE w.upper[p], d)
  THEN Refused
  ELSE IF HaveBoots(bag, w.upper[p]) THEN 4 ELSE ActionOn(w.upper[p], ForChip)

\* Asked about the layer beneath something seen through, the routine calls
\* itself on that same layer: if it is seen through too, it never returns.
EndlessLook(w, p) == /\ w.lower[p] # CloneMachine
                     /\ SeenThrough(w.upper[p]) /\ SeenThrough(w.lower[p])

\* What asking with the flag of a real move does to the cell, let in or not.
ChipOpens(w, p) ==
  IF w.lower[p] = CloneMachine THEN w
  ELSE IF w.upper[p] = FakeFloor THEN SetUpper(w, p, Floor)
  ELSE IF w.upper[p] \in {FakeWall, HiddenWall, PopupWall}
       THEN SetUpper(w, p, Wall) ELSE w

\* ... and to the bag: the thief takes the boots, a door its key (but the
\* green door keeps returning it).
ChipPays(bag, t) ==
  IF t = Thief THEN [bag EXCEPT !.boots = {}]
  ELSE IF t \in Doors \ {GreenDoor} /\ bag.keys[KeyFor(t)] > 0
       THEN [bag EXCEPT !.keys[KeyFor(t)] = @ - 1]
  ELSE bag

\* The conditional tiles, for blocks and in part for monsters.
PassesWalls(t, d) == t \in Panels \cup IceWalls /\ CanEnterPast(t, d)

BlockCanEnter(w, p, d) ==
  LET t == w.upper[p]
  IN  IF /\ w.lower[p] # CloneMachine
         /\ CanEnter(t, ForBlock) \in IF PassesWalls(t, d) THEN {1, 2} ELSE {1}
      THEN ActionOn(t, ForBlock) ELSE Refused

MonsterMayEnter(monster, t, d) ==
  \/ t = Water
  \/ t = Fire /\ Kind(monster) \notin {Bug, Walker}
  \/ CanEnter(t, ForMonster) \in IF PassesWalls(t, d) THEN {1, 2} ELSE {1}

Unharmed(monster, t) == \/ t = Water /\ Kind(monster) = Glider
                        \/ t = Fire /\ Kind(monster) = Fireball

\* A monster enters Chip's cell as if Chip were not there.
MonsterCanEnter(w, monster, p, d) ==
  LET t == IF w.upper[p] \in ChipTiles THEN w.lower[p] ELSE w.upper[p]
  IN  IF w.lower[p] = CloneMachine \/ ~MonsterMayEnter(monster, t, d)
      THEN Refused
      ELSE IF Unharmed(monster, t) THEN 1 ELSE ActionOn(t, ForMonster)

\* Fault: traps hold nothing.
CanLeaveTrap(w, p, d) ==
  /\ Step(p, d) \in Cell
  /\ w.lower[p] \in Panels => CanLeavePast(w.lower[p], d)

\* A move may begin: it stays on the board, nothing holds it, no panel of
\* its own cell is in the way.
CanLeave(w, p, d) ==
  /\ Step(p, d) \in Cell
  /\ ~TrapHolds(w, p)
  /\ w.lower[p] \in Panels => CanLeavePast(w.lower[p], d)
-----------------------------------------------------------------------------
(***************************************************************************)
(* SlideMovement for blocks and monsters: make or refresh the entry in the *)
(* slip list.  It hands back the direction and the tile the mover goes on  *)
(* with.  A full list that cannot grow changes nothing.                    *)
(***************************************************************************)
SlideTile(w, src, dst) ==
  LET t == IF src = dst THEN w.lower[dst] ELSE w.upper[dst]
  IN  IF t \in ChipTiles THEN w.lower[dst] ELSE t

\* Entry i, or a new one, with direction nd and tile f.
ListSlipper(w, i, src, dst, nd, isMonster, f) ==
  LET entry == [tile |-> IF f = Keep THEN w.upper[src] ELSE f,
                pos |-> dst, dir |-> nd, isblock |-> isMonster]
  IN  [w EXCEPT !.slips = IF i = 0 THEN Append(@, entry)
                          ELSE [@ EXCEPT ![i] = entry]]

\* The monster's own entry says that it slips.
Marked(m, f) == [m EXCEPT !.slipping = TRUE, !.tile = IF f = Keep THEN @ ELSE f]

MarkSlipping(w, m, f) ==
  IF m = 0 THEN Crash(w, "monsterIndex")
  ELSE [w EXCEPT !.monsters[m] = Marked(@, f)]

SlideOnto(w, i, src, dst, nd, isMonster, f) ==
  LET listed == ListSlipper(w, i, src, dst, nd, isMonster, f)
  IN  [w |-> IF isMonster THEN MarkSlipping(listed, FindMonster(w, src), f)
             ELSE listed, d |-> nd, facing |-> f]

Slide(w, src, dst, d, isMonster, facing, rnd) ==
  LET i == FindSlipper(w, src)
      old == IF i = 0 THEN rnd ELSE w.slips[i].dir
  IN  IF i = 0 /\ Len(w.slips) >= SlipLimit
      THEN [w |-> w, d |-> d, facing |-> facing]
      ELSE SlideOnto(w, i, src, dst,
                     SlideDir(SlideTile(w, src, dst), d, old, rnd), isMonster,
                     IF isMonster /\ facing # Keep THEN SetTileDir(facing, d)
                     ELSE facing)
-----------------------------------------------------------------------------
(***************************************************************************)
(* EnterTeleport.  The other teleports are tried from the one entered      *)
(* backwards through the list, which is in reading order.                  *)
(***************************************************************************)
CellBack(start, k) ==
  LET n == (start[2] * Width + start[1] - k) % (Width * Height)
  IN  <<n % Width, n \div Width>>

\* How far back they are.  One that is not in the list leads nowhere.
TeleportsBack(w, start) ==
  IF start \notin Teleports[w.level] THEN {}
  ELSE {k \in 1..(Width * Height - 1) : CellBack(start, k) \in Teleports[w.level]}

\* The first whose exit is open to a block or a monster, or the one entered.
TeleportTo(w, start, d, open) ==
  LET Works(p) == w.upper[p] = Teleport /\ Step(p, d) \in open
      working == {k \in TeleportsBack(w, start) : Works(CellBack(start, k))}
  IN  IF working = {} THEN start ELSE CellBack(start, First(working))
-----------------------------------------------------------------------------
(***************************************************************************)
(* Clone machines: CloneListPtr stays as the level has it.                 *)
(***************************************************************************)
FindCloneMachine(w, b) ==
  LET links == Levels[w.level].clones
      i == First({k \in 1..Len(links) : links[k].from = b})
  IN  IF i = 0 THEN NoCell ELSE links[i].to

\* A monster is added to the list at the machine's cell, where the master
\* copy already is; it walks off by itself later.
CloneFacing(w, m, d) ==
  LET t == w.upper[m]
      dest == Step(m, d)
  IN  IF /\ dest \in Cell
         /\ \/ MonsterCanEnter(w, t, dest, d) # Refused
            \/ w.upper[dest] = t
         /\ FindMonster(w, m) = 0
      THEN NewMonster(w, t, m, d, TRUE) ELSE w

CloneMonster(w, m) == CloneFacing(w, m, TileDir(w.upper[m]))

\* A clone block at m has somewhere to go.
Leads(w, m, d) == /\ Step(m, d) \in Cell
                  /\ BlockCanEnter(w, Step(m, d), d) # Refused

\* The machine, if any, that the button at b makes let out a block.
BlockOut(w, b) ==
  LET m == FindCloneMachine(w, b)
  IN  IF /\ w.lower[b] = CloneButton /\ m # NoCell
         /\ w.upper[m] \in CloneBlocks
         /\ Leads(w, m, CloneBlockDir(w.upper[m]))
      THEN m ELSE NoCell

\* The button at b is pressed, but for a block that is let out.
Press(w, b) ==
  CASE w.lower[b] = ToggleButton -> PressToggleButton(w)
    [] w.lower[b] = TrapButton -> PressTrapButton(w, b)
    [] w.lower[b] = TankButton -> PressTankButton(w)
    [] w.lower[b] = CloneButton ->
         LET m == FindCloneMachine(w, b)
         IN  IF m # NoCell /\ w.upper[m] \in Monsters
             THEN CloneMonster(w, m) ELSE w
    [] OTHER -> w
-----------------------------------------------------------------------------
(***************************************************************************)
(* MoveBlock up to the button it may hit.  The result says whether it      *)
(* moved, with which action code, and where to.                            *)
(***************************************************************************)
BlockAct(w, src, d) ==
  IF CanLeave(w, src, d) THEN BlockCanEnter(w, Step(src, d), d) ELSE Refused

BlockDest(w, src, d, act) ==
  IF act # 7 THEN Step(src, d)
  ELSE TeleportTo(w, Step(src, d), d,
                  {p \in Cell : BlockCanEnter(w, p, d) # Refused})

\* What a move with action code act does to the board and the slip list.
CoverFor(w, acts, act, dst) == IF act \in acts THEN Push(w, dst) ELSE w
ShutFor(w, act, dst, src) == IF act = 6 THEN EnterTrap(w, dst, src) ELSE w
UnslipFor(w, acts, act, src) ==
  IF act \in acts THEN w ELSE DeleteSlipperAt(w, src)
Uncover(w, src) == IF w.lower[src] = CloneMachine THEN w ELSE Pop(w, src)

SlipFor(w, src, dst, d, act, tile, rnd) ==
  IF act \in {4, 7} \/ (act = 6 /\ FindSlipper(w, src) # 0)
  THEN Slide(w, src, dst, d, FALSE, tile, rnd).w ELSE w

CarryBlock(w, src, dst, d, act, tile, rnd) ==
  LET top == IF act = 2 THEN Dirt ELSE IF act = 5 THEN Floor
             ELSE IF tile = Keep THEN w.upper[src] ELSE tile
  IN  Uncover(SetUpper(UnslipFor(CoverFor(ShutFor(
                SlipFor(w, src, dst, d, act, tile, rnd), act, dst, src),
                {1, 4, 6, 7}, act, dst), {4, 6, 7}, act, src), dst, top), src)

\* The move with action code act, or its refusal: what slid then stops.
BlockLands(w, src, dst, d, act, tile, rnd) ==
  [w |-> CarryBlock(w, src, dst, d, act, tile, rnd), ok |-> TRUE, act |-> act,
   at |-> dst]

BlockGoes(w, src, d, act, tile, rnd) ==
  IF act = Refused
  THEN [w |-> DeleteSlipperAt(w, src), ok |-> FALSE, act |-> 0, at |-> src]
  ELSE BlockLands(w, src, BlockDest(w, src, d, act), d, act, tile, rnd)

BlockStep(w, src, d, tile, rnd) ==
  BlockGoes(w, src, d, BlockAct(w, src, d), tile, rnd)

HitsButton(r) == r.ok /\ r.act = 1 /\ r.w.lower[r.at] \in Buttons

\* The block may have landed on Chip.
Squish(r) == IF r.ok /\ r.w.lower[r.at] \in ChipTiles
             THEN [r EXCEPT !.w = Kill(@, "Squished")] ELSE r

\* MoveBlock with its last argument null: the button works at once.  At the
\* second such call inside another the model stops following.
HitAtOnce(r) ==
  IF ~HitsButton(r) THEN r
  ELSE [r EXCEPT !.w = IF BlockOut(r.w, r.at) # NoCell
                       THEN Crash(@, "cloneDepth") ELSE Press(@, r.at)]

MoveClonedBlock(w, src, d, tile, rnd) ==
  Squish(HitAtOnce(BlockStep(w, src, d, tile, rnd))).w

\* The whole of pressing the button at b.
PressFor(w, b, m, rnd) ==
  IF m = NoCell THEN Press(w, b)
  ELSE MoveClonedBlock(w, m, CloneBlockDir(w.upper[m]), Block, rnd)

PressButton(w, b, rnd) == PressFor(w, b, BlockOut(w, b), rnd)

Hit(r, rnd) ==
  IF HitsButton(r) THEN [r EXCEPT !.w = PressButton(@, r.at, rnd)] ELSE r

MoveBlock(w, src, d, tile, rnd) ==
  Squish(Hit(BlockStep(w, src, d, tile, rnd[1]), rnd[2]))

\* MoveBlock as MoveChip calls it: the button is only noted, in hit.
Noted(r) == [w |-> r.w, ok |-> r.ok,
             hit |-> IF HitsButton(r) THEN r.at ELSE NoCell]

PushBlock(w, src, d, rnd) == Noted(Squish(BlockStep(w, src, d, Keep, rnd[1])))
-----------------------------------------------------------------------------
(***************************************************************************)
(* MoveMonster.  dead tells its results 2 and 1 apart; d is the direction  *)
(* it writes back to its caller.                                           *)
(***************************************************************************)
MonsterAct(w, src, d) ==
  IF CanLeave(w, src, d) THEN MonsterCanEnter(w, w.upper[src], Step(src, d), d)
  ELSE Refused

\* A teleport asks with the tile it finds at its own entrance.
MonsterDest(w, src, d, act) ==
  IF act # 7 THEN Step(src, d)
  ELSE TeleportTo(w, Step(src, d), d,
                  {p \in Cell : MonsterCanEnter(w, w.upper[Step(src, d)], p, d)
                                  # Refused})

\* What a move with action code act does to the board and the slip list; the
\* monster arrives with tile t.
AppearFor(w, act, dst, t) == IF act = 2 THEN w ELSE SetUpper(w, dst, t)

CarryMonster(w, src, dst, act, t) ==
  Uncover(AppearFor(UnslipFor(CoverFor(ShutFor(w, act, dst, src),
            {0, 1, 4, 6, 7}, act, dst), {4, 7}, act, src), act, dst, t), src)

\* The move with action code act, or its refusal: what slid then stops.  s is
\* what SlideMovement made of the board, the direction and the facing.
MonsterLands(w, src, dst, act, s) ==
  LET shown == IF s.facing = Keep THEN w.upper[src] ELSE s.facing
  IN  [w |-> CarryMonster(s.w, src, dst, act, IF act = 5 THEN Floor ELSE shown),
       ok |-> TRUE, dead |-> act \in {2, 5}, act |-> act, at |-> dst, d |-> s.d]

MonsterLeaves(w, src, dst, d, act, facing, rnd) ==
  MonsterLands(w, src, dst, act,
               IF act \in {4, 7} THEN Slide(w, src, dst, d, TRUE, facing, rnd)
               ELSE [w |-> w, d |-> d, facing |-> facing])

MonsterGoes(w, src, d, act, facing, rnd) ==
  IF act = Refused
  THEN [w |-> DeleteSlipperAt(w, src), ok |-> FALSE, dead |-> FALSE, act |-> 0,
        at |-> src, d |-> d]
  ELSE MonsterLeaves(w, src, MonsterDest(w, src, d, act), d, act, facing, rnd)

MonsterStep(w, src, d, facing, rnd) ==
  MonsterGoes(w, src, d, MonsterAct(w, src, d), facing, rnd)

\* Fault: the list still has the tank where it came from.
PressTankButtonStale(r, src) == [r EXCEPT !.w = PressTankButton(r.w)]

\* A tank that sets off the tank button is itself turned with the others, and
\* goes on the way its list entry says.
TankMoved(r, m) ==
  IF m = 0 THEN r.w
  ELSE [r.w EXCEPT !.monsters[m] = [@ EXCEPT !.pos = r.at, !.dir = r.d]]

GoesOnAsListed(r, m) ==
  IF m = 0 THEN r ELSE [r EXCEPT !.d = r.w.monsters[m].dir]

PressTankButtonFrom(r, src) ==
  LET m == FindMonster(r.w, src)
  IN  GoesOnAsListed([r EXCEPT !.w = PressTankButton(TankMoved(r, m))], m)

HitByMonster(r, src, rnd) ==
  IF HitsButton(r) /\ r.w.lower[r.at] = TankButton
  THEN PressTankButtonFrom(r, src) ELSE Hit(r, rnd)

\* The monster may have come upon Chip.
Eat(r) == IF r.ok /\ ~r.dead /\ r.w.lower[r.at] \in ChipTiles
          THEN [r EXCEPT !.w = Kill(@, "Eaten")] ELSE r

MoveMonster(w, src, d, facing, rnd) ==
  Eat(HitByMonster(MonsterStep(w, src, d, facing, rnd[1]), src, rnd[2]))
-----------------------------------------------------------------------------
(***************************************************************************)
(* A teleport's exit, for Chip: a block standing there is pushed out of    *)
(* the way first, and stays pushed if Chip cannot follow after all.        *)
(***************************************************************************)
\* With the exit cleared, or not: can Chip follow?
FollowsTo(r, bag, p, d) ==
  LET exit == Step(p, d)
  IN  [w |-> IF r.ok /\ EndlessLook(r.w, exit) THEN Crash(r.w, "recursion")
             ELSE r.w,
       ok |-> r.ok /\ ChipCanEnter(r.w, bag, exit, d) # Refused, at |-> p]

TryTeleport(w, bag, p, d, rnd) ==
  LET exit == Step(p, d)
  IN  IF w.upper[p] # Teleport \/ exit \notin Cell
      THEN [w |-> w, ok |-> FALSE, at |-> p]
      ELSE FollowsTo(IF w.upper[exit] # Block THEN [w |-> w, ok |-> TRUE]
                     ELSE MoveBlock(w, exit, d, Keep, rnd), bag, p, d)

TryNext(r, bag, start, k, d, rnd) ==
  IF r.ok \/ k \notin TeleportsBack(r.w, start) THEN r
  ELSE TryTeleport(r.w, bag, CellBack(start, k), d, rnd)

ChipTeleport(w, bag, start, d, rnd) ==
  LET Back(r) == IF r.ok THEN r ELSE [r EXCEPT !.at = start]
  IN  Back(Looped(LAMBDA r, k : TryNext(r, bag, start, k, d, rnd),
                  [w |-> w, ok |-> FALSE, at |-> start], Width * Height - 1))
=============================================================================

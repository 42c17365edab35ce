------------------------------ MODULE Monsters ------------------------------
(***************************************************************************)
(* One iteration of MonsterLoop and one of SlipLoop.  Both loops walk a    *)
(* list that the moves they make change under them; how the index copes is *)
(* Game's business, what an iteration does to the world is here.           *)
(***************************************************************************)
EXTENDS Moves

\* MonsterLoop's locals xnewdir and ynewdir before anything is written to
\* them: whatever the stack held.  Far stands for the values that point off
\* the board.
Far == <<1000, 1000>>
StackDirs == Dir \cup {Far}

ASSUME FarAssumption == \A p \in Cell : Step(p, Far) \notin Cell
-----------------------------------------------------------------------------
Abs(n) == IF n < 0 THEN -n ELSE n

\* The unit step towards a distance along one axis.
Across(dx) == IF dx > 0 THEN East ELSE West
Down(dy) == IF dy > 0 THEN South ELSE North

\* The directions teeth prefer, towards Chip: the longer axis, then the other
\* one if there is any distance along it.
TowardsChip(p, chip) ==
  LET dx == chip[1] - p[1]
      dy == chip[2] - p[2]
  IN  IF Abs(dx) <= Abs(dy)
      THEN <<Down(dy)>> \o IF dx = 0 THEN <<>> ELSE <<Across(dx)>>
      ELSE <<Across(dx)>> \o IF dy = 0 THEN <<>> ELSE <<Down(dy)>>

\* A monster on a trap or a clone machine does not choose.
Stuck(w, p) == w.lower[p] \in {Trap, CloneMachine}

\* The orders in which a walker or blob may draw its three other turns.
TurnOrders == {<<"left", "right", "back">>, <<"left", "back", "right">>,
               <<"right", "left", "back">>, <<"right", "back", "left">>,
               <<"back", "left", "right">>, <<"back", "right", "left">>}

Turned(d, turn) == IF turn = "left" THEN TurnLeft(d)
                   ELSE IF turn = "right" THEN TurnRight(d)
                   ELSE TurnAround(d)

TurnsFrom(d, order) ==
  <<d, Turned(d, order[1]), Turned(d, order[2]), Turned(d, order[3])>>

\* The directions monster i tries, in order, until one is open.  ndir is what
\* xnewdir and ynewdir hold, drawn what a blob or walker draws.
Attempts(w, i, ndir, chip, drawn) ==
  LET m == w.monsters[i]
      d == m.dir
      left == TurnLeft(d)  right == TurnRight(d)  back == TurnAround(d)
      kind == Kind(m.tile)
      stuck == Stuck(w, m.pos)
  IN  CASE kind \in {Bug, Paramecium, Teeth} /\ stuck -> <<ndir>>
        [] kind = Tank -> <<d>>
        [] kind = Blob -> TurnsFrom(drawn.dir, drawn.order)
        [] kind \in {Fireball, Ball, Glider, Walker} /\ stuck -> <<d>>
        [] kind = Bug /\ ~stuck -> <<left, d, right, back>>
        [] kind = Fireball /\ ~stuck -> <<d, right, left, back>>
        [] kind = Ball /\ ~stuck -> <<d, back>>
        [] kind = Glider /\ ~stuck -> <<d, left, right, back>>
        [] kind = Paramecium /\ ~stuck -> <<right, d, left, back>>
        [] kind = Walker /\ ~stuck -> TurnsFrom(d, drawn.order)
        [] kind = Teeth /\ ~stuck -> TowardsChip(m.pos, chip)

\* MoveMonster in each direction until it moves, facing that way.
Attempt(r, m, d, rnd) ==
  IF r.ok THEN r ELSE MoveMonster(r.w, m.pos, d, SetTileDir(m.tile, d), rnd)

TryAttempts(w, i, dirs, rnd) ==
  LET m == w.monsters[i]
  IN  Looped(LAMBDA r, k : Attempt(r, m, dirs[k], rnd),
             [w |-> w, ok |-> FALSE, dead |-> FALSE, act |-> 0, at |-> m.pos,
              d |-> dirs[1]],
             Len(dirs))
-----------------------------------------------------------------------------
\* Teeth that cannot move at least face Chip.
FaceChip(w, i, d) ==
  LET m == w.monsters[i]
      t == SetTileDir(m.tile, d)
  IN  [SetUpper(w, m.pos, t) EXCEPT !.monsters[i].tile = t]

\* A tank that cannot move stops for good, unless a trap holds it.
StopTank(w, i) ==
  IF TrapHolds(w, w.monsters[i].pos) THEN w
  ELSE [w EXCEPT !.monsters[i].dir = Still]

\* Fault: the list entry stays behind.
SettleInPlace(r, i) ==
  [r.w EXCEPT !.monsters[i].tile = r.w.upper[r.at], !.monsters[i].dir = r.d]

Settle(r, i) ==
  [r.w EXCEPT !.monsters[i] = [@ EXCEPT !.tile = r.w.upper[r.at],
                                        !.pos = r.at, !.dir = r.d]]

\* MonsterLoop passes over what slides, what is no monster, and on odd turns
\* the slow ones.
Passes(w, i, evenTurn) ==
  \/ w.monsters[i].slipping
  \/ w.monsters[i].tile \notin Monsters
  \/ Kind(w.monsters[i].tile) \in {Teeth, Blob} /\ ~evenTurn

\* Its turn is over where it was.
Stays(r, i, kind, first) ==
  IF kind = Teeth /\ ~Stuck(r.w, r.at)
  THEN [w |-> FaceChip(r.w, i, first), ndir |-> first, gone |-> FALSE]
  ELSE [w |-> IF kind = Tank THEN StopTank(r.w, i) ELSE r.w,
        ndir |-> r.d, gone |-> FALSE]

AfterAttempts(r, i, kind, first) ==
  IF r.dead THEN [w |-> DeleteMonster(r.w, i), ndir |-> r.d, gone |-> TRUE]
  ELSE IF r.ok THEN [w |-> Settle(r, i), ndir |-> r.d, gone |-> FALSE]
  ELSE Stays(r, i, kind, first)

\* The iteration: the new world, the new xnewdir and ynewdir, and whether
\* monster i was deleted.
MonsterTurn(w, i, ndir, chip, evenTurn, drawn, rnd) ==
  LET dirs == Attempts(w, i, ndir, chip, drawn)
  IN  IF Passes(w, i, evenTurn) THEN [w |-> w, ndir |-> ndir, gone |-> FALSE]
      ELSE AfterAttempts(TryAttempts(w, i, dirs, rnd), i,
                         Kind(w.monsters[i].tile), dirs[1])
-----------------------------------------------------------------------------
(***************************************************************************)
(* SlipLoop.  A move that fails takes the slider off the list; on ice it   *)
(* is put back turned round and tried again; whatever still cannot move is *)
(* put back as it was, at the end of the list.                             *)
(***************************************************************************)
OnIce(w, p) == w.lower[p] \in IceWalls \cup {Ice}

\* Where a monster that slid is now; its index is not checked.
SettleSlipper(r, m) ==
  IF m = 0 THEN Crash(r.w, "monsterIndex")
  ELSE IF r.dead THEN DeleteMonster(r.w, m)
  ELSE [r.w EXCEPT !.monsters[m] =
         [@ EXCEPT !.pos = r.at, !.dir = r.d,
                   !.tile = SetTileDir(r.w.upper[r.at], r.d)]]

\* A try of the monster at p, and its entry put back facing d.
SlideMonsterOn(w, p, d, rnd) ==
  MoveMonster(w, p, d, SetTileDir(w.upper[p], d), rnd)
TurnMonster(w, p, d, rnd) == Slide(w, p, p, d, TRUE, Keep, rnd[1])

\* The last try is over; stay is the way it is put back if that failed.
SlidMonster(w, s, r, stay, rnd) ==
  IF r.ok THEN SettleSlipper(r, FindMonster(w, s.pos))
  ELSE TurnMonster(r.w, s.pos, stay, rnd).w

MonsterSlidesBack(w, s, turn, rnd) ==
  SlidMonster(w, s, SlideMonsterOn(turn.w, s.pos, turn.d, rnd),
              TurnAround(turn.d), rnd)

AfterMonsterSlid(w, s, r, rnd) ==
  IF r.ok \/ ~OnIce(w, s.pos) THEN SlidMonster(w, s, r, s.dir, rnd)
  ELSE MonsterSlidesBack(w, s, TurnMonster(r.w, s.pos, TurnAround(s.dir), rnd),
                         rnd)

SlipMonster(w, s, rnd) ==
  AfterMonsterSlid(w, s, SlideMonsterOn(w, s.pos, s.dir, rnd), rnd)

\* The same for a block.
SlideBlockOn(w, p, d, rnd) == MoveBlock(w, p, d, Keep, rnd)
TurnBlock(w, p, d, rnd) == Slide(w, p, p, d, FALSE, Keep, rnd[1])

SlidBlock(s, r, stay, rnd) ==
  IF r.ok THEN r.w ELSE TurnBlock(r.w, s.pos, stay, rnd).w

BlockSlidesBack(s, turn, rnd) ==
  SlidBlock(s, SlideBlockOn(turn.w, s.pos, turn.d, rnd), TurnAround(turn.d), rnd)

AfterBlockSlid(w, s, r, rnd) ==
  IF r.ok \/ ~OnIce(w, s.pos) THEN SlidBlock(s, r, s.dir, rnd)
  ELSE BlockSlidesBack(s, TurnBlock(r.w, s.pos, TurnAround(s.dir), rnd), rnd)

SlipBlock(w, s, rnd) ==
  AfterBlockSlid(w, s, SlideBlockOn(w, s.pos, s.dir, rnd), rnd)

\* The iteration for slip list entry i.
SlipTurn(w, i, rnd) ==
  IF w.slips[i].isblock THEN SlipMonster(w, w.slips[i], rnd)
  ELSE SlipBlock(w, w.slips[i], rnd)
=============================================================================

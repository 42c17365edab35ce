-------------------------------- MODULE Chip --------------------------------
(***************************************************************************)
(* Chip: MoveChip whole, with everything it may set off (pushing a block,  *)
(* buttons, dying, finishing the level, loading the next), and what DoTick *)
(* does with a key that was kept and with the mouse's target.              *)
(*                                                                         *)
(* A game is the program's GameState and the counters beside it:           *)
(*   w        the world: boards, monsters, slip list, traps, autopsy       *)
(*   chip     where Chip is, his slide, and the input waiting for him      *)
(*   bag      keys, boots, chips still needed                              *)
(*   time     TimeRemaining                                                *)
(*   placard  IsLevelPlacardVisible: until a key is hit the timer is       *)
(*            paused and Chip does not move                                *)
(*   ending   EndingTick is not 0: the last level is done                  *)
(* Boxes a handler opens are modal (see Pause) and take no time here.      *)
(***************************************************************************)
EXTENDS Monsters

ChipType ==
  [pos: Cell, sliding: BOOLEAN, slide: Dir,   \* ChipX/Y, IsSliding, SlideX/Y
   moved: BOOLEAN,                            \* ChipHasMoved
   buffered: BOOLEAN, buf: Dir,               \* IsBuffered, BufferedX/Y
   mouse: BOOLEAN, target: Cell,              \* HaveMouseTarget, MouseTargetX/Y
   idle: 0..3]                                \* IdleTickCount, which stops mattering at 3

GameType == [w: WorldType, chip: ChipType, bag: Bag, time: Nat,
             placard: BOOLEAN, ending: BOOLEAN]
-----------------------------------------------------------------------------
\* FUN_4_0356: clear everything, read level n, put up the placard.
LoadLevel(n) ==
  [w |-> InitBoard(n),
   chip |-> [pos |-> Levels[n].chip, sliding |-> FALSE, slide |-> Still,
             moved |-> FALSE, buffered |-> FALSE, buf |-> Still,
             mouse |-> FALSE, target |-> <<0, 0>>, idle |-> 0],
   bag |-> [chips |-> Levels[n].chips, keys |-> [k \in Keys |-> 0],
            boots |-> {}],
   time |-> Levels[n].time, placard |-> TRUE, ending |-> FALSE]

\* Fault: a kept key survives.
RestartWithKey(g) == [LoadLevel(g.w.level) EXCEPT
                        !.chip.buffered = g.chip.buffered,
                        !.chip.buf = g.chip.buf]

\* Chip is dead: the message, then the same level again.
Restart(g) == LoadLevel(g.w.level)

\* Fault: the levels start over after the last.
EndLevelWraps(g) == LoadLevel(1 + (g.w.level % Len(Levels)))

\* EndLevel: on to the next level, or after the last one the ending, with
\* the lists emptied so that nothing moves behind the animation.
EndLevel(g) ==
  IF g.w.level < Len(Levels) THEN LoadLevel(g.w.level + 1)
  ELSE [g EXCEPT !.ending = TRUE, !.chip.sliding = FALSE,
                 !.w = [@ EXCEPT !.autopsy = "NotDeadYet",
                                 !.slips = <<>>, !.monsters = <<>>]]
-----------------------------------------------------------------------------
Dead(g) == g.w.autopsy # "NotDeadYet"
Under(g) == g.w.lower[g.chip.pos]
ChipTile(under) == IF under = Water THEN Swim ELSE Chip

\* The tail of every refusal: Chip turns to face what stopped him.
Blocked(g) ==
  [g |-> [g EXCEPT !.w = SetUpper(@, g.chip.pos, ChipTile(Under(g)))],
   ok |-> FALSE]

\* A sliding Chip has no choice on ice or in a teleport, and on a force floor
\* may not add to its push.
Carried(g, d) ==
  /\ g.chip.sliding
  /\ \/ Under(g) \in IceWalls \cup {Ice, Teleport}
     \/ Under(g) \in ForceFloors /\ d = g.chip.slide

\* SlideMovement with Chip's own slide instead of a list entry.
SlideChip(g, dst, d, rnd) ==
  [g EXCEPT !.chip.sliding = TRUE,
            !.chip.slide = SlideDir(SlideTile(g.w, g.chip.pos, dst), d,
                                    g.chip.slide, rnd)]

\* Faults: the count goes below 0; the last chip is never counted.
PickUpBelowZero(bag, t) ==
  IF t = ICChip THEN [bag EXCEPT !.chips = @ - 1]
  ELSE IF t \in Keys THEN [bag EXCEPT !.keys[t] = @ + 1]
  ELSE IF t \in Boots THEN [bag EXCEPT !.boots = @ \cup {t}]
  ELSE bag

PickUpAllButOne(bag, t) ==
  IF t = ICChip THEN [bag EXCEPT !.chips = IF @ > 1 THEN @ - 1 ELSE @]
  ELSE IF t \in Keys THEN [bag EXCEPT !.keys[t] = @ + 1]
  ELSE IF t \in Boots THEN [bag EXCEPT !.boots = @ \cup {t}]
  ELSE bag

PickUp(bag, t) ==
  IF t = ICChip THEN [bag EXCEPT !.chips = IF @ > 0 THEN @ - 1 ELSE 0]
  ELSE IF t \in Keys THEN [bag EXCEPT !.keys[t] = @ + 1]
  ELSE IF t \in Boots THEN [bag EXCEPT !.boots = @ \cup {t}]
  ELSE bag

\* A kept key that points back the way Chip is about to slide is dropped
\* when the floor changes under him: he is not to turn on the spot.
DropBoost(g, t, was) ==
  IF g.chip.buffered /\ t # was /\ g.chip.buf = TurnAround(g.chip.slide)
  THEN [g EXCEPT !.chip.moved = TRUE, !.chip.buffered = FALSE] ELSE g

\* Chip, already gone from his cell, comes to cell p with action code act: what
\* he finds there is his, or is covered and comes back when he leaves.
Take(g, t) == [g EXCEPT !.bag = PickUp(@, t)]
Covering(g, p) == [g EXCEPT !.w = Push(@, p)]

\* Out of the teleport that let him go.
TeleportChip(g, r, d, rnd) ==
  [g |-> Covering(SlideChip([g EXCEPT !.w = r.w], r.at, d, rnd[2]), r.at),
   at |-> r.at]

\* Chip, off his cell, arrives somewhere with action code act; src and was are
\* his old cell and what he slid on there.  Result: the game, and where he is.
ArriveFrom(g, src, was, dst, act, d, rnd) ==
  LET t == g.w.upper[dst]
      onto == CASE act = 1 -> Take(g, t)
                [] act = 4 -> Covering(g, dst)
                [] act = 5 -> Covering(DropBoost(SlideChip(g, dst, d, rnd[2]),
                                                 t, was), dst)
                [] act = 6 -> Covering([g EXCEPT !.w = EnterTrap(@, dst, src)],
                                       dst)
                [] OTHER -> g
  IN  IF act = 7
      THEN TeleportChip(g, ChipTeleport(g.w, g.bag, dst, d, rnd), d, rnd)
      ELSE [g |-> onto, at |-> dst]

Arrive(g, dst, act, d, rnd) ==
  ArriveFrom([g EXCEPT !.w = Pop(@, g.chip.pos)], g.chip.pos,
             IF g.chip.sliding THEN Under(g) ELSE 255, dst, act, d, rnd)

\* After Chip has arrived: his tile, the button he stands on, the button a
\* pushed block hit, the end of a slide, the exit.
ShowChip(w, p) == SetUpper(w, p, ChipTile(w.lower[p]))
OwnButton(w, p, act, rnd) == IF act = 4 THEN PressButton(w, p, rnd) ELSE w
PushedButton(w, hit, rnd) ==
  IF hit = NoCell THEN w ELSE PressButton(w, hit, rnd)
LeaveBy(g, p) == IF g.w.lower[p] = Exit THEN EndLevel(g) ELSE g

Finish(a, act, hit, rnd) ==
  LET p == a.at
  IN  [g |-> LeaveBy([a.g EXCEPT
                        !.w = PushedButton(OwnButton(ShowChip(@, p), p, act,
                                                     rnd[2]), hit, rnd[2]),
                        !.chip.pos = p,
                        !.chip.sliding = @ /\ act \in {5, 7}], p),
       ok |-> TRUE]

\* Chip steps, or fails to step, into a cell no block is in the way of.
AskedAt(g, dst) == [g EXCEPT !.w = ChipOpens(@, dst)]
PaidFor(g, t) == [g EXCEPT !.bag = ChipPays(@, t)]

EnterAs(g, dst, act, d, hit, rnd) ==
  IF act = Refused THEN Blocked(AskedAt(g, dst))
  ELSE IF act = 2 THEN [g |-> Restart(g), ok |-> FALSE]
  ELSE Finish(Arrive(PaidFor(AskedAt(g, dst), g.w.upper[dst]), dst, act, d, rnd),
              act, hit, rnd)

Enter(g, d, hit, rnd) ==
  LET dst == Step(g.chip.pos, d)
  IN  IF EndlessLook(g.w, dst)
      THEN [g |-> [g EXCEPT !.w = Crash(@, "recursion")], ok |-> FALSE]
      ELSE EnterAs(g, dst, ChipCanEnter(g.w, g.bag, dst, d), d, hit, rnd)

\* A block may not be pushed along or against its own slide.
SlidesAlong(w, p, d) ==
  LET i == FindSlipper(w, p)
  IN  i # 0 /\ w.slips[i].dir \in {d, TurnAround(d)}

\* Chip pushes the block that is in his way, if one is.
PushAside(g, d, rnd) ==
  LET dst == Step(g.chip.pos, d)
      Pushed(r) == [g |-> [g EXCEPT !.w = r.w], ok |-> r.ok, hit |-> r.hit,
                    died |-> r.w.autopsy # "NotDeadYet"]
  IN  IF g.w.upper[dst] = Block /\ ~SlidesAlong(g.w, dst, d)
      THEN Pushed(PushBlock(g.w, dst, d, rnd))
      ELSE [g |-> g, ok |-> g.w.upper[dst] # Block, hit |-> NoCell,
            died |-> FALSE]

\* Then he goes there himself.  Having killed himself by the push (or been
\* dead before), he starts the level again.
EnterAfterPush(r, d, rnd) ==
  IF r.died THEN [g |-> Restart(r.g), ok |-> FALSE]
  ELSE IF ~r.ok THEN Blocked(r.g)
  ELSE Enter(r.g, d, r.hit, rnd)

PushAndEnter(g, d, rnd) == EnterAfterPush(PushAside(g, d, rnd), d, rnd)

\* Only one voluntary move at a time; one more is kept for later.
Keeps(g, d) ==
  IF g.chip.buffered THEN g
  ELSE [g EXCEPT !.chip.buffered = TRUE, !.chip.buf = d]

\* A move that is neither ignored nor kept.
Walk(g, d, voluntary, rnd) ==
  LET g1 == [g EXCEPT !.chip.idle = 0, !.chip.buffered = @ /\ ~voluntary,
                      !.chip.moved = @ \/ voluntary]
  IN  IF voluntary /\ Carried(g, d) /\ Step(g.chip.pos, d) \in Cell
      THEN [g |-> g1, ok |-> FALSE]
      ELSE IF ~CanLeave(g.w, g.chip.pos, d) THEN Blocked(g1)
      ELSE PushAndEnter(g1, d, rnd)

\* While the timer is paused MoveChip does nothing.
Frozen(g) == g.placard

\* Fault: a second move in the same tick is not kept for later.
MoveChipAtOnce(g, d, voluntary, rnd) ==
  IF Frozen(g) THEN [g |-> g, ok |-> FALSE] ELSE Walk(g, d, voluntary, rnd)

(***************************************************************************)
(* MoveChip.  voluntary: a key, a kept key or the mouse; otherwise a slide.*)
(* ok is its result: 0 when he stayed, was ignored, or died.               *)
(***************************************************************************)
MoveChip(g, d, voluntary, rnd) ==
  IF Frozen(g) THEN [g |-> g, ok |-> FALSE]
  ELSE IF voluntary /\ g.chip.moved THEN [g |-> Keeps(g, d), ok |-> FALSE]
  ELSE Walk(g, d, voluntary, rnd)
-----------------------------------------------------------------------------
(***************************************************************************)
(* What is waiting for Chip: one kept key, or a target of the mouse.       *)
(***************************************************************************)
Forget(g) == [g EXCEPT !.chip.mouse = FALSE]
\* The axis with the longer way first.
MouseFirst(g) ==
  LET dx == g.chip.target[1] - g.chip.pos[1]
      dy == g.chip.target[2] - g.chip.pos[2]
  IN  IF Abs(dy) >= Abs(dx) THEN Down(dy) ELSE Across(dx)

MouseSecond(g) ==
  LET dx == g.chip.target[1] - g.chip.pos[1]
      dy == g.chip.target[2] - g.chip.pos[2]
  IN  IF Abs(dy) >= Abs(dx)
      THEN IF dx = 0 THEN Still ELSE Across(dx)
      ELSE IF dy = 0 THEN Still ELSE Down(dy)

AtTarget(g) == IF Dead(g) \/ g.chip.pos = g.chip.target THEN Forget(g) ELSE g

\* Pushing in the direction of the slide adds nothing.
AlongSlide(g, d) == g.chip.sliding /\ d = g.chip.slide

\* A step towards the target: the longer axis, then the other.  Between the
\* two DoTick clears ChipHasMoved at the start of a tick, but not after a
\* slide, where the second step is therefore kept as a key.
GivesUp(g, d, afterSlide) == Dead(g) \/ (afterSlide /\ AlongSlide(g, d))

SecondMouseStep(r, d, afterSlide, rnd) ==
  LET g == IF afterSlide THEN r.g ELSE [r.g EXCEPT !.chip.moved = FALSE]
      AfterSecond(s) == AtTarget(IF s.ok THEN s.g ELSE Forget(s.g))
  IN  IF r.ok \/ ~r.g.chip.mouse \/ GivesUp(r.g, d, afterSlide)
      THEN AtTarget(r.g)
      ELSE AfterSecond(IF d = Still THEN [g |-> g, ok |-> FALSE]
                       ELSE MoveChip(g, d, TRUE, rnd))

MouseStep(g, afterSlide, rnd) ==
  IF GivesUp(g, MouseFirst(g), afterSlide) THEN AtTarget(g)
  ELSE SecondMouseStep(MoveChip(g, MouseFirst(g), TRUE, rnd), MouseSecond(g),
                       afterSlide, rnd)

\* A kept key is tried once and is gone, and takes the mouse target with it.
KeyDone(g) == [g EXCEPT !.chip.buffered = FALSE, !.chip.mouse = FALSE]

UseBuffered(g, rnd) ==
  KeyDone(IF Dead(g) THEN g ELSE MoveChip(g, g.chip.buf, TRUE, rnd).g)

\* After two ticks with nothing to do Chip turns to the player.
StandAround(g) ==
  LET g1 == [g EXCEPT !.chip.idle = IF @ < 3 THEN @ + 1 ELSE 3]
  IN  IF g.chip.idle < 2 THEN g1
      ELSE [g1 EXCEPT !.w = SetUpper(@, g.chip.pos, ChipTile(Under(g)))]
=============================================================================

----------------------------- MODULE GameProofs -----------------------------
(***************************************************************************)
(* The course of the levels, for every level set and whatever happens on   *)
(* the boards: the game keeps its types, a level that has been read waits  *)
(* untouched behind its placard, the clock runs for timed levels only, and *)
(* the levels follow one another as LevelFlow says.                        *)
(*                                                                         *)
(* A step of the program is many operators deep, but each of them turns a  *)
(* game into another in one of a few ways, and the ways compose (Goes).    *)
(***************************************************************************)
EXTENDS GameProps, MovesProofs

\* The same level goes on being played.
Onward(g, h) ==
  /\ h \in GameType
  /\ h.w.level = g.w.level /\ h.time = g.time
  /\ h.placard = g.placard /\ h.ending = g.ending
  /\ Dead(g) => Dead(h)

\* Nothing that a waiting player could see has changed.
Waits(g, h) ==
  /\ h.chip.pos = g.chip.pos /\ h.bag = g.bag
  /\ h.chip.moved => g.chip.moved
  /\ h.chip.buffered => g.chip.buffered

\* The level has just been read.
Fresh(h) ==
  /\ h \in GameType /\ h.placard /\ ~h.ending
  /\ h.chip.pos = Levels[h.w.level].chip /\ h.bag = LoadLevel(h.w.level).bag
  /\ ~h.chip.moved /\ ~h.chip.buffered
  /\ h.time = Levels[h.w.level].time

\* The ending has begun; Chip may even die in it.
Ended(g, h) ==
  /\ h \in GameType /\ h.ending /\ ~h.placard
  /\ h.w.level = g.w.level /\ h.w.level = Len(Levels) /\ h.time = g.time

\* How a game goes on.  Behind the placard only the level itself can be read
\* again.
Goes(g, h) ==
  \/ Onward(g, h) /\ (g.placard => Waits(g, h))
  \/ Fresh(h) /\ h.w.level = g.w.level
  \/ ~g.placard /\ Fresh(h) /\ h.w.level = g.w.level + 1
  \/ ~g.placard /\ Ended(g, h)

LEMMA GameParts ==
  ASSUME NEW g \in GameType
  PROVE  /\ g.w \in WorldType /\ g.chip \in ChipType /\ g.bag \in Bag /\ g.time \in Nat
         /\ g.placard \in BOOLEAN /\ g.ending \in BOOLEAN
         /\ g = [w |-> g.w, chip |-> g.chip, bag |-> g.bag, time |-> g.time,
                 placard |-> g.placard, ending |-> g.ending]
         /\ g.chip.pos \in Cell /\ g.chip.slide \in Dir /\ g.chip.buf \in Dir
         /\ g.chip.sliding \in BOOLEAN /\ g.chip.moved \in BOOLEAN
         /\ g.chip.buffered \in BOOLEAN /\ g.chip.mouse \in BOOLEAN
         /\ g.chip.target \in Cell /\ g.chip.idle \in 0..3
         /\ g.w.level \in 1..Len(Levels)
<1>1. g.w.level \in 1..Len(Levels)
  BY WorldParts DEF GameType
<1> QED
  BY <1>1 DEF GameType, ChipType

LEMMA ChipTyped == ASSUME NEW g \in GameType PROVE g.chip \in ChipType
BY DEF GameType

LEMMA GoesSelf == \A g \in GameType : Goes(g, g)
BY DEF Goes, Onward, Waits

LEMMA GoesTwice ==
  ASSUME NEW g \in GameType, NEW h, Goes(g, h), NEW k, Goes(h, k)
  PROVE  Goes(g, k)
<1>0. /\ h \in GameType /\ k \in GameType
      /\ g.w.level \in Nat /\ h.w.level \in 1..Len(Levels) /\ k.w.level \in 1..Len(Levels)
      /\ Len(Levels) \in Nat
  <2>1. h \in GameType /\ k \in GameType
    BY DEF Goes, Onward, Fresh, Ended
  <2>2. Len(Levels) \in Nat
    BY WorldAssumption
  <2> QED
    BY <2>1, <2>2, GameParts
<1>1. CASE Onward(g, h) /\ (g.placard => Waits(g, h))
  BY <1>0, <1>1 DEF Goes, Onward, Waits, Ended
<1>2. CASE Fresh(h)
  <2>1. h.placard
    BY <1>2 DEF Fresh
  <2>2. Fresh(k) /\ k.w.level = h.w.level
    BY <1>2, <2>1 DEF Goes, Onward, Waits, Fresh
  <2> QED
    BY <1>0, <1>2, <2>2 DEF Goes, Onward, Fresh, Ended
<1>3. CASE ~g.placard /\ Ended(g, h)
  BY <1>0, <1>3 DEF Goes, Onward, Ended
<1> QED
  BY <1>1, <1>2, <1>3 DEF Goes

\* A change of one part of the game.
LEMMA WorldChange ==
  ASSUME NEW g \in GameType, NEW v, v \in WorldType, v.level = g.w.level,
         g.w.autopsy # "NotDeadYet" => v.autopsy # "NotDeadYet"
  PROVE  LET h == [g EXCEPT !.w = v]
         IN  Onward(g, h) /\ Waits(g, h) /\ h.w = v /\ h.chip = g.chip /\ h.bag = g.bag
BY GameParts DEF GameType, Onward, Waits, Dead

LEMMA ChipChange ==
  ASSUME NEW g \in GameType, NEW c \in ChipType
  PROVE  LET h == [g EXCEPT !.chip = c]
         IN  Onward(g, h) /\ h.w = g.w /\ h.chip = c /\ h.bag = g.bag
BY GameParts DEF GameType, Onward, Dead

LEMMA BagChange ==
  ASSUME NEW g \in GameType, NEW b \in Bag
  PROVE  LET h == [g EXCEPT !.bag = b]
         IN  Onward(g, h) /\ h.w = g.w /\ h.chip = g.chip /\ h.bag = b
BY GameParts DEF GameType, Onward, Dead

LEMMA OnwardTwice ==
  ASSUME NEW g, NEW h, NEW k, Onward(g, h), Onward(h, k)
  PROVE  Onward(g, k)
BY DEF Onward

LEMMA OnwardGoes ==
  ASSUME NEW g, ~g.placard, NEW h, Onward(g, h)
  PROVE  Goes(g, h) /\ ~h.placard
BY DEF Onward, Goes

LEMMA FollowsChange ==
  ASSUME NEW g \in GameType, NEW v, Follows(g.w, v)
  PROVE  LET h == [g EXCEPT !.w = v]
         IN  Onward(g, h) /\ Waits(g, h) /\ h.w = v /\ h.chip = g.chip /\ h.bag = g.bag
BY WorldChange DEF Follows
-----------------------------------------------------------------------------
(***************************************************************************)
(* Levels read, and the end of a level.                                    *)
(***************************************************************************)
LEMMA LoadLevelFresh ==
  ASSUME NEW n \in 1..Len(Levels)
  PROVE  Fresh(LoadLevel(n)) /\ LoadLevel(n).w.level = n
<1> DEFINE g == LoadLevel(n)
<1>1. g.w = InitBoard(n) /\ g.w \in WorldType /\ g.w.level = n
  BY InitBoardType DEF LoadLevel
<1>2. g.chip \in ChipType
  <2>1. <<0, 0>> \in Cell
    BY WorldAssumption DEF Cell
  <2>2. Levels[n].chip \in Cell
    BY LevelParts
  <2> QED
    BY <2>1, <2>2 DEF LoadLevel, ChipType, Dir
<1>3. g.bag \in Bag /\ g.time \in Nat /\ g.time = Levels[n].time
  BY LevelParts DEF LoadLevel, Bag
<1>4. g.placard /\ ~g.ending /\ g.placard \in BOOLEAN /\ g.ending \in BOOLEAN
  BY DEF LoadLevel
<1>5. g.chip.pos = Levels[n].chip /\ ~g.chip.moved /\ ~g.chip.buffered
  BY DEF LoadLevel
<1>6. g = [w |-> g.w, chip |-> g.chip, bag |-> g.bag, time |-> g.time,
           placard |-> g.placard, ending |-> g.ending]
  BY DEF LoadLevel
<1> HIDE DEF g
<1>7. g \in GameType
  BY <1>1, <1>2, <1>3, <1>4, <1>6 DEF GameType
<1>8. g.bag = LoadLevel(g.w.level).bag
  BY <1>1 DEF g
<1> QED
  BY <1>1, <1>3, <1>4, <1>5, <1>7, <1>8 DEF Fresh, Dead, g

LEMMA RestartGoes ==
  ASSUME NEW g \in GameType
  PROVE  Goes(g, Restart(g)) /\ Fresh(Restart(g)) /\ Restart(g).w.level = g.w.level
BY GameParts, LoadLevelFresh DEF Restart, Goes

LEMMA EndLevelGoes ==
  ASSUME NEW g \in GameType, ~g.placard
  PROVE  Goes(g, EndLevel(g))
<1>1. g.w.level \in 1..Len(Levels) /\ Len(Levels) \in Nat
  BY GameParts, WorldAssumption
<1>2. CASE g.w.level < Len(Levels)
  <2>1. g.w.level + 1 \in 1..Len(Levels)
    BY <1>1, <1>2
  <2> QED
    BY <1>2, <2>1, LoadLevelFresh DEF EndLevel, Goes
<1>3. CASE ~(g.w.level < Len(Levels))
  <2> DEFINE v == [g.w EXCEPT !.autopsy = "NotDeadYet", !.slips = <<>>, !.monsters = <<>>]
             c == [g.chip EXCEPT !.sliding = FALSE]
             h == EndLevel(g)
  <2>1. h = [g EXCEPT !.ending = TRUE, !.chip = c, !.w = v]
    BY <1>3 DEF EndLevel
  <2>2. v \in WorldType /\ v.level = g.w.level
    <3>1. <<>> \in Seq(Slipper) /\ <<>> \in Seq(Monster)
      OBVIOUS
    <3>2. g.w \in WorldType
      BY GameParts
    <3> QED
      BY <3>1, <3>2 DEF WorldType, Autopsy
  <2>3. c \in ChipType
    BY ChipTyped DEF ChipType
  <2> HIDE DEF v, c
  <2>4. /\ h.w = v /\ h.chip = c /\ h.bag = g.bag /\ h.time = g.time
        /\ h.placard = g.placard /\ h.ending = TRUE
        /\ h = [w |-> h.w, chip |-> h.chip, bag |-> h.bag, time |-> h.time,
                placard |-> h.placard, ending |-> h.ending]
    BY <2>1, GameParts
  <2> HIDE DEF h
  <2>5. h \in GameType
    BY <2>2, <2>3, <2>4, GameParts DEF GameType
  <2>6. g.w.level = Len(Levels)
    BY <1>1, <1>3
  <2>7. Ended(g, h)
    BY <2>2, <2>4, <2>5, <2>6 DEF Ended
  <2> QED
    BY <2>7 DEF Goes, h
<1> QED
  BY <1>2, <1>3
-----------------------------------------------------------------------------
(***************************************************************************)
(* MoveChip, up to where Chip arrives.                                     *)
(***************************************************************************)
LEMMA ShowChipFollows ==
  ASSUME NEW w \in WorldType, NEW p, NEW q
  PROVE  Follows(w, SetUpper(w, p, ChipTile(q)))
<1>1. ChipTile(q) \in Tile
  BY DEF ChipTile, Swim, Chip, Tile
<1> QED
  BY <1>1, SetUpperFollows

LEMMA BlockedOnward ==
  ASSUME NEW g \in GameType
  PROVE  Onward(g, Blocked(g).g)
<1> DEFINE v == SetUpper(g.w, g.chip.pos, ChipTile(Under(g)))
<1>1. Blocked(g).g = [g EXCEPT !.w = v]
  BY DEF Blocked
<1>2. Follows(g.w, v)
  BY GameParts, ShowChipFollows
<1> HIDE DEF v
<1> QED
  BY <1>1, <1>2, FollowsChange

LEMMA SlideChipOnward ==
  ASSUME NEW g \in GameType, NEW dst, NEW d \in Dir, NEW rnd \in Dir
  PROVE  Onward(g, SlideChip(g, dst, d, rnd)) /\ Waits(g, SlideChip(g, dst, d, rnd))
<1> DEFINE nd == SlideDir(SlideTile(g.w, g.chip.pos, dst), d, g.chip.slide, rnd)
           c == [g.chip EXCEPT !.sliding = TRUE, !.slide = nd]
<1>1. nd \in Dir
  BY GameParts, SlideDirType
<1>2. SlideChip(g, dst, d, rnd) = [g EXCEPT !.chip = c]
  BY GameParts DEF SlideChip
<1> HIDE DEF nd
<1>3. c \in ChipType /\ c.pos = g.chip.pos /\ c.moved = g.chip.moved
      /\ c.buffered = g.chip.buffered
  BY <1>1, ChipTyped DEF ChipType
<1> HIDE DEF c
<1> QED
  BY <1>2, <1>3, ChipChange DEF Waits

LEMMA PickUpType == \A bag \in Bag : \A t : PickUp(bag, t) \in Bag
<1> SUFFICES ASSUME NEW bag \in Bag, NEW t PROVE PickUp(bag, t) \in Bag
  OBVIOUS
<1>1. bag.chips \in Nat /\ bag.keys \in [Keys -> Nat] /\ bag.boots \in SUBSET Boots
  BY DEF Bag
<1>2. CASE t = ICChip
  BY <1>1, <1>2 DEF PickUp, Bag
<1>3. CASE t # ICChip /\ t \in Keys
  BY <1>1, <1>3 DEF PickUp, Bag
<1>4. CASE t # ICChip /\ t \notin Keys
  BY <1>1, <1>4 DEF PickUp, Bag
<1> QED
  BY <1>2, <1>3, <1>4

LEMMA ChipPaysType == \A bag \in Bag : \A t : ChipPays(bag, t) \in Bag
<1> SUFFICES ASSUME NEW bag \in Bag, NEW t PROVE ChipPays(bag, t) \in Bag
  OBVIOUS
<1>1. bag.chips \in Nat /\ bag.keys \in [Keys -> Nat] /\ bag.boots \in SUBSET Boots
  BY DEF Bag
<1>2. CASE t = Thief
  BY <1>1, <1>2 DEF ChipPays, Bag
<1>3. CASE t # Thief /\ t \in Doors \ {GreenDoor} /\ bag.keys[KeyFor(t)] > 0
  <2>1. KeyFor(t) \in Keys
    BY <1>3 DEF KeyFor, Keys, Doors, BlueDoor, RedDoor, GreenDoor, YellowDoor
  <2>2. bag.keys[KeyFor(t)] \in Nat /\ bag.keys[KeyFor(t)] - 1 \in Nat
    BY <1>1, <1>3, <2>1
  <2>3. ChipPays(bag, t) = [bag EXCEPT !.keys = [bag.keys EXCEPT ![KeyFor(t)] = bag.keys[KeyFor(t)] - 1]]
    BY <1>3 DEF ChipPays
  <2> QED
    BY <1>1, <2>1, <2>2, <2>3 DEF Bag
<1>4. CASE t # Thief /\ ~(t \in Doors \ {GreenDoor} /\ bag.keys[KeyFor(t)] > 0)
  BY <1>1, <1>4 DEF ChipPays
<1> QED
  BY <1>2, <1>3, <1>4

LEMMA TakeOnward ==
  ASSUME NEW g \in GameType, NEW t
  PROVE  Onward(g, Take(g, t))
<1>1. Take(g, t) = [g EXCEPT !.bag = PickUp(g.bag, t)]
  BY DEF Take
<1>2. PickUp(g.bag, t) \in Bag
  BY GameParts, PickUpType
<1> QED
  BY <1>1, <1>2, BagChange

LEMMA CoveringOnward ==
  ASSUME NEW g \in GameType, NEW p \in Cell
  PROVE  Onward(g, Covering(g, p))
<1>1. Covering(g, p) = [g EXCEPT !.w = Push(g.w, p)]
  BY DEF Covering
<1> QED
  BY <1>1, GameParts, PushFollows, FollowsChange

LEMMA DropBoostOnward ==
  ASSUME NEW g \in GameType, NEW t, NEW was
  PROVE  Onward(g, DropBoost(g, t, was))
<1> DEFINE c == [g.chip EXCEPT !.moved = TRUE, !.buffered = FALSE]
<1>1. DropBoost(g, t, was) \in {g, [g EXCEPT !.chip = c]}
  BY GameParts DEF DropBoost
<1>2. c \in ChipType
  BY ChipTyped DEF ChipType
<1> HIDE DEF c
<1>3. Onward(g, g) /\ Onward(g, [g EXCEPT !.chip = c])
  BY <1>2, ChipChange DEF Onward
<1> QED
  BY <1>1, <1>3

LEMMA TeleportChipOnward ==
  ASSUME NEW g \in GameType, NEW r, Follows(g.w, r.w), r.at \in Cell,
         NEW d \in Dir, NEW rnd \in Floors
  PROVE  LET a == TeleportChip(g, r, d, rnd) IN Onward(g, a.g) /\ a.at \in Cell
<1> DEFINE g1 == [g EXCEPT !.w = r.w]
           g2 == SlideChip(g1, r.at, d, rnd[2])
           g3 == Covering(g2, r.at)
<1>1. TeleportChip(g, r, d, rnd) = [g |-> g3, at |-> r.at]
  BY DEF TeleportChip
<1>2. Onward(g, g1) /\ g1 \in GameType
  BY FollowsChange DEF Onward
<1> HIDE DEF g1
<1>3. rnd[2] \in Dir
  BY DEF Floors
<1>4. Onward(g1, g2) /\ g2 \in GameType
  BY <1>2, <1>3, SlideChipOnward DEF Onward
<1> HIDE DEF g2
<1>5. Onward(g2, g3)
  BY <1>4, CoveringOnward
<1> HIDE DEF g3
<1>6. Onward(g, g3)
  BY <1>2, <1>4, <1>5, OnwardTwice
<1> QED
  BY <1>1, <1>6

LEMMA ArriveFromOnward ==
  ASSUME NEW g \in GameType, NEW src, NEW was, NEW dst \in Cell, NEW act,
         NEW d \in Dir, NEW rnd \in Floors
  PROVE  LET a == ArriveFrom(g, src, was, dst, act, d, rnd)
         IN  Onward(g, a.g) /\ a.at \in Cell
<1> DEFINE t == g.w.upper[dst]
           a == ArriveFrom(g, src, was, dst, act, d, rnd)
<1>1. CASE act = 1
  <2>1. a = [g |-> Take(g, t), at |-> dst]
    BY <1>1 DEF ArriveFrom
  <2> QED
    BY <2>1, TakeOnward
<1>2. CASE act = 4
  <2>1. a = [g |-> Covering(g, dst), at |-> dst]
    BY <1>2 DEF ArriveFrom
  <2> QED
    BY <2>1, CoveringOnward
<1>3. CASE act = 5
  <2> DEFINE g1 == SlideChip(g, dst, d, rnd[2])
             g2 == DropBoost(g1, t, was)
             g3 == Covering(g2, dst)
  <2>1. a = [g |-> g3, at |-> dst]
    BY <1>3 DEF ArriveFrom
  <2>2. rnd[2] \in Dir
    BY DEF Floors
  <2>3. Onward(g, g1) /\ g1 \in GameType
    BY <2>2, SlideChipOnward DEF Onward
  <2> HIDE DEF g1
  <2>4. Onward(g1, g2) /\ g2 \in GameType
    BY <2>3, DropBoostOnward DEF Onward
  <2> HIDE DEF g2
  <2>5. Onward(g2, g3)
    BY <2>4, CoveringOnward
  <2> HIDE DEF g3
  <2>6. Onward(g, g3)
    BY <2>3, <2>4, <2>5, OnwardTwice
  <2> QED
    BY <2>1, <2>6
<1>4. CASE act = 6
  <2> DEFINE g1 == [g EXCEPT !.w = EnterTrap(g.w, dst, src)]
             g2 == Covering(g1, dst)
  <2>1. a = [g |-> g2, at |-> dst]
    BY <1>4 DEF ArriveFrom
  <2>2. Onward(g, g1) /\ g1 \in GameType
    BY GameParts, EnterTrapFollows, FollowsChange DEF Onward
  <2> HIDE DEF g1
  <2>3. Onward(g1, g2)
    BY <2>2, CoveringOnward
  <2> HIDE DEF g2
  <2>4. Onward(g, g2)
    BY <2>2, <2>3, OnwardTwice
  <2> QED
    BY <2>1, <2>4
<1>5. CASE act = 7
  <2> DEFINE r == ChipTeleport(g.w, g.bag, dst, d, rnd)
  <2>1. a = TeleportChip(g, r, d, rnd)
    BY <1>5 DEF ArriveFrom
  <2>2. Follows(g.w, r.w) /\ r.at \in Cell
    BY GameParts, ChipTeleportType DEF TeleportResult
  <2> HIDE DEF r
  <2> QED
    BY <2>1, <2>2, TeleportChipOnward
<1>6. CASE act \notin {1, 4, 5, 6, 7}
  <2>1. a = [g |-> g, at |-> dst]
    BY <1>6 DEF ArriveFrom
  <2> QED
    BY <2>1 DEF Onward
<1> QED
  BY <1>1, <1>2, <1>3, <1>4, <1>5, <1>6

LEMMA ArriveOnward ==
  ASSUME NEW g \in GameType, NEW dst \in Cell, NEW act, NEW d \in Dir, NEW rnd \in Floors
  PROVE  LET a == Arrive(g, dst, act, d, rnd) IN Onward(g, a.g) /\ a.at \in Cell
<1> DEFINE g1 == [g EXCEPT !.w = Pop(g.w, g.chip.pos)]
           was == IF g.chip.sliding THEN Under(g) ELSE 255
           a == ArriveFrom(g1, g.chip.pos, was, dst, act, d, rnd)
<1>1. Arrive(g, dst, act, d, rnd) = a
  BY DEF Arrive
<1>2. Onward(g, g1) /\ g1 \in GameType
  BY GameParts, PopFollows, FollowsChange DEF Onward
<1> HIDE DEF g1, was
<1>3. Onward(g1, a.g) /\ a.at \in Cell
  BY <1>2, ArriveFromOnward
<1> HIDE DEF a
<1> QED
  BY <1>1, <1>2, <1>3, OnwardTwice
-----------------------------------------------------------------------------
(***************************************************************************)
(* MoveChip, from where he arrives, and the whole of it.                   *)
(***************************************************************************)
LEMMA ButtonsFollow ==
  ASSUME NEW w \in WorldType, NEW p, NEW act, NEW hit, NEW rnd \in Dir
  PROVE  Follows(w, OwnButton(w, p, act, rnd)) /\ Follows(w, PushedButton(w, hit, rnd))
BY PressButtonFollows, FollowsSelf DEF OwnButton, PushedButton

LEMMA ChipAtType ==
  ASSUME NEW c \in ChipType, NEW p \in Cell, NEW on \in BOOLEAN
  PROVE  [c EXCEPT !.pos = p, !.sliding = on] \in ChipType
BY DEF ChipType

LEMMA FinishGoes ==
  ASSUME NEW a, a.g \in GameType, ~a.g.placard, a.at \in Cell, NEW act, NEW hit,
         NEW rnd \in Floors
  PROVE  Goes(a.g, Finish(a, act, hit, rnd).g)
<1> DEFINE g == a.g
           p == a.at
           v1 == ShowChip(g.w, p)
           v2 == OwnButton(v1, p, act, rnd[2])
           v3 == PushedButton(v2, hit, rnd[2])
           on == g.chip.sliding /\ act \in {5, 7}
           c == [g.chip EXCEPT !.pos = p, !.sliding = on]
           h == [g EXCEPT !.w = v3, !.chip = c]
<1>1. Finish(a, act, hit, rnd).g = LeaveBy(h, p)
  BY GameParts DEF Finish
<1>2. Follows(g.w, v1) /\ v1 \in WorldType
  BY GameParts, ShowChipFollows, LaterWorld DEF ShowChip
<1> HIDE DEF v1
<1>3. rnd[2] \in Dir
  BY DEF Floors
<1>4. Follows(v1, v2) /\ v2 \in WorldType
  <2>1. Follows(v1, OwnButton(v1, p, act, rnd[2]))
    BY <1>2, <1>3, ButtonsFollow
  <2> QED
    BY <2>1, LaterWorld
<1> HIDE DEF v2
<1>5. Follows(v2, v3)
  BY <1>3, <1>4, ButtonsFollow
<1> HIDE DEF v3
<1>6. Follows(g.w, v3)
  <2>1. Follows(g.w, v2)
    BY <1>2, <1>4, FollowsTwice, GameParts
  <2> QED
    BY <2>1, <1>5, FollowsTwice, GameParts
<1>7. on \in BOOLEAN
  OBVIOUS
<1> HIDE DEF on
<1>8. c \in ChipType
  BY <1>7, GameParts, ChipAtType
<1> HIDE DEF c
<1>9. Onward(g, h) /\ h \in GameType
  <2> DEFINE g1 == [g EXCEPT !.w = v3]
  <2>1. Onward(g, g1) /\ g1 \in GameType
    BY <1>6, FollowsChange DEF Onward
  <2>2. h = [g1 EXCEPT !.chip = c]
    BY GameParts
  <2> HIDE DEF g1, h
  <2>3. Onward(g1, h)
    BY <1>8, <2>1, <2>2, ChipChange
  <2> QED
    BY <2>1, <2>3, OnwardTwice DEF Onward
<1> HIDE DEF h
<1>10. Goes(g, h) /\ ~h.placard
  BY <1>9, OnwardGoes
<1>11. CASE h.w.lower[p] = Exit
  BY <1>1, <1>9, <1>10, <1>11, EndLevelGoes, GoesTwice DEF LeaveBy
<1>12. CASE h.w.lower[p] # Exit
  BY <1>1, <1>10, <1>12 DEF LeaveBy
<1> QED
  BY <1>11, <1>12

LEMMA AskedAtOnward ==
  ASSUME NEW g \in GameType, NEW dst
  PROVE  Onward(g, AskedAt(g, dst)) /\ AskedAt(g, dst) \in GameType
<1>1. Wall \in Tile /\ Floor \in Tile
  BY DEF Wall, Floor, Tile
<1> DEFINE v == ChipOpens(g.w, dst)
<1>2. Follows(g.w, v)
  BY <1>1, GameParts, SetUpperFollows, FollowsSelf DEF ChipOpens
<1>3. AskedAt(g, dst) = [g EXCEPT !.w = v]
  BY DEF AskedAt
<1> HIDE DEF v
<1> QED
  BY <1>2, <1>3, FollowsChange DEF Onward

LEMMA PaidForOnward ==
  ASSUME NEW g \in GameType, NEW t
  PROVE  Onward(g, PaidFor(g, t)) /\ PaidFor(g, t) \in GameType
<1>1. PaidFor(g, t) = [g EXCEPT !.bag = ChipPays(g.bag, t)]
  BY DEF PaidFor
<1>2. ChipPays(g.bag, t) \in Bag
  BY GameParts, ChipPaysType
<1> QED
  BY <1>1, <1>2, BagChange DEF Onward

LEMMA EnterAsGoes ==
  ASSUME NEW g \in GameType, ~g.placard, NEW dst \in Cell, NEW act, NEW d \in Dir,
         NEW hit, NEW rnd \in Floors
  PROVE  Goes(g, EnterAs(g, dst, act, d, hit, rnd).g)
<1> DEFINE g1 == AskedAt(g, dst)
           g2 == PaidFor(g1, g.w.upper[dst])
           a == Arrive(g2, dst, act, d, rnd)
           f == Finish(a, act, hit, rnd).g
           b == Blocked(g1).g
<1>1. EnterAs(g, dst, act, d, hit, rnd).g =
        IF act = Refused THEN b ELSE IF act = 2 THEN Restart(g) ELSE f
  BY DEF EnterAs
<1>2. Onward(g, g1) /\ g1 \in GameType
  BY AskedAtOnward
<1> HIDE DEF g1
<1>3. Onward(g1, b)
  BY <1>2, BlockedOnward
<1> HIDE DEF b
<1>4. Goes(g, b)
  BY <1>2, <1>3, OnwardTwice, OnwardGoes
<1>5. Goes(g, Restart(g))
  BY RestartGoes
<1>6. Onward(g1, g2) /\ g2 \in GameType
  BY <1>2, PaidForOnward
<1> HIDE DEF g2
<1>7. Onward(g2, a.g) /\ a.at \in Cell
  BY <1>6, ArriveOnward
<1> HIDE DEF a
<1>8. Onward(g, a.g)
  BY <1>2, <1>6, <1>7, OnwardTwice
<1>9. Goes(g, a.g) /\ ~a.g.placard /\ a.g \in GameType
  BY <1>8, OnwardGoes DEF Onward
<1>10. Goes(a.g, f)
  BY <1>7, <1>9, FinishGoes
<1> HIDE DEF f
<1>11. Goes(g, f)
  BY <1>9, <1>10, GoesTwice
<1> QED
  BY <1>1, <1>4, <1>5, <1>11

LEMMA EnterGoes ==
  ASSUME NEW g \in GameType, ~g.placard, NEW d \in Dir, Step(g.chip.pos, d) \in Cell,
         NEW hit, NEW rnd \in Floors
  PROVE  Goes(g, Enter(g, d, hit, rnd).g)
<1> DEFINE dst == Step(g.chip.pos, d)
           v == Crash(g.w, "recursion")
<1>1. CASE EndlessLook(g.w, dst)
  <2>1. Enter(g, d, hit, rnd).g = [g EXCEPT !.w = v]
    BY <1>1 DEF Enter
  <2>2. Follows(g.w, v)
    BY GameParts, CrashFollows DEF Fault
  <2> HIDE DEF v
  <2> QED
    BY <2>1, <2>2, FollowsChange, OnwardGoes
<1>2. CASE ~EndlessLook(g.w, dst)
  BY <1>2, EnterAsGoes DEF Enter
<1> QED
  BY <1>1, <1>2

LEMMA PushAsideOnward ==
  ASSUME NEW g \in GameType, NEW d \in Dir, Step(g.chip.pos, d) \in Cell,
         NEW rnd \in Floors
  PROVE  LET r == PushAside(g, d, rnd) IN Onward(g, r.g) /\ r.g.chip = g.chip
<1> DEFINE dst == Step(g.chip.pos, d)
           push == PushBlock(g.w, dst, d, rnd)
           h == [g EXCEPT !.w = push.w]
           r == PushAside(g, d, rnd)
<1>1. r.g = h \/ r.g = g
  BY DEF PushAside
<1>2. Follows(g.w, push.w)
  BY GameParts, PushBlockType
<1> HIDE DEF push
<1>3. Onward(g, h) /\ h.chip = g.chip
  BY <1>2, FollowsChange
<1> HIDE DEF h, r
<1>4. Onward(g, g)
  BY DEF Onward
<1>5. Onward(g, r.g) /\ r.g.chip = g.chip
  BY <1>1, <1>3, <1>4
<1> QED
  BY <1>5 DEF r

LEMMA PushAndEnterGoes ==
  ASSUME NEW g \in GameType, ~g.placard, NEW d \in Dir, Step(g.chip.pos, d) \in Cell,
         NEW rnd \in Floors
  PROVE  Goes(g, PushAndEnter(g, d, rnd).g)
<1> DEFINE r == PushAside(g, d, rnd)
           h == PushAndEnter(g, d, rnd).g
<1>1. Onward(g, r.g) /\ r.g.chip = g.chip /\ r.g \in GameType
  BY PushAsideOnward DEF Onward
<1>2. h = IF r.died THEN Restart(r.g) ELSE IF ~r.ok THEN Blocked(r.g).g
          ELSE Enter(r.g, d, r.hit, rnd).g
  BY DEF PushAndEnter, EnterAfterPush
<1> HIDE DEF r, h
<1>3. Goes(g, r.g) /\ ~r.g.placard
  BY <1>1, OnwardGoes
<1>4. Goes(r.g, Restart(r.g))
  BY <1>1, RestartGoes
<1>5. Goes(r.g, Blocked(r.g).g)
  BY <1>1, <1>3, BlockedOnward, OnwardGoes
<1>6. Goes(r.g, Enter(r.g, d, r.hit, rnd).g)
  BY <1>1, <1>3, EnterGoes
<1>7. Goes(r.g, h)
  BY <1>2, <1>4, <1>5, <1>6
<1>8. Goes(g, h)
  BY <1>3, <1>7, GoesTwice
<1> QED
  BY <1>8 DEF h

LEMMA ChipWalksType ==
  ASSUME NEW c \in ChipType, NEW kept \in BOOLEAN, NEW moved \in BOOLEAN
  PROVE  LET b == [c EXCEPT !.idle = 0, !.buffered = kept, !.moved = moved]
         IN  b \in ChipType /\ b.pos = c.pos
<1> DEFINE a == [c EXCEPT !.idle = 0]
<1>1. a \in ChipType /\ a.pos = c.pos
  BY DEF ChipType
<1>2. [c EXCEPT !.idle = 0, !.buffered = kept, !.moved = moved]
        = [a EXCEPT !.buffered = kept, !.moved = moved]
  OBVIOUS
<1> HIDE DEF a
<1>4. [a EXCEPT !.buffered = kept, !.moved = moved] \in ChipType
  BY <1>1 DEF ChipType
<1>5. [a EXCEPT !.buffered = kept, !.moved = moved].pos = a.pos
  BY <1>1 DEF ChipType
<1> QED
  BY <1>1, <1>2, <1>4, <1>5

LEMMA WalkGoes ==
  ASSUME NEW g \in GameType, ~g.placard, NEW d \in Dir, NEW voluntary \in BOOLEAN,
         NEW rnd \in Floors
  PROVE  Goes(g, Walk(g, d, voluntary, rnd).g)
<1> DEFINE kept == g.chip.buffered /\ ~voluntary
           moved == g.chip.moved \/ voluntary
           c == [g.chip EXCEPT !.idle = 0, !.buffered = kept, !.moved = moved]
           g1 == [g EXCEPT !.chip = c]
           h == Walk(g, d, voluntary, rnd).g
           walked == [g EXCEPT !.chip.idle = 0, !.chip.buffered = @ /\ ~voluntary,
                               !.chip.moved = @ \/ voluntary]
<1>0. walked = g1
  BY GameParts
<1>1. h = IF voluntary /\ Carried(g, d) /\ Step(g.chip.pos, d) \in Cell THEN g1
          ELSE IF ~CanLeave(g.w, g.chip.pos, d) THEN Blocked(g1).g
          ELSE PushAndEnter(g1, d, rnd).g
  <2>1. h = IF voluntary /\ Carried(g, d) /\ Step(g.chip.pos, d) \in Cell THEN walked
            ELSE IF ~CanLeave(g.w, g.chip.pos, d) THEN Blocked(walked).g
            ELSE PushAndEnter(walked, d, rnd).g
    BY DEF Walk
  <2> QED
    BY <1>0, <2>1
<1>2. kept \in BOOLEAN /\ moved \in BOOLEAN
  OBVIOUS
<1> HIDE DEF kept, moved
<1>3. c \in ChipType /\ c.pos = g.chip.pos
  BY <1>2, GameParts, ChipWalksType
<1> HIDE DEF c
<1>4. Onward(g, g1) /\ g1 \in GameType /\ g1.chip = c
  BY <1>3, ChipChange DEF Onward
<1> HIDE DEF g1, h
<1>5. Goes(g, g1) /\ ~g1.placard
  BY <1>4, OnwardGoes
<1>6. Goes(g1, Blocked(g1).g)
  BY <1>4, <1>5, BlockedOnward, OnwardGoes
<1>7. CanLeave(g.w, g.chip.pos, d) => Goes(g1, PushAndEnter(g1, d, rnd).g)
  BY <1>3, <1>4, <1>5, PushAndEnterGoes DEF CanLeave
<1>8. Goes(g, h)
  BY <1>1, <1>5, <1>6, <1>7, GoesTwice
<1> QED
  BY <1>8 DEF h

\* Whatever a key, the mouse or a slide makes Chip do.
LEMMA MoveChipGoes ==
  ASSUME NEW g \in GameType, NEW d \in Dir, NEW voluntary \in BOOLEAN, NEW rnd \in Floors
  PROVE  Goes(g, MoveChip(g, d, voluntary, rnd).g)
<1>1. CASE g.placard
  BY <1>1, GoesSelf DEF MoveChip, Frozen
<1>2. CASE ~g.placard /\ voluntary /\ g.chip.moved
  <2> DEFINE c == [g.chip EXCEPT !.buffered = TRUE, !.buf = d]
  <2>1. c \in ChipType
    BY ChipTyped DEF ChipType
  <2>2. Keeps(g, d) = IF g.chip.buffered THEN g ELSE [g EXCEPT !.chip = c]
    BY GameParts DEF Keeps
  <2> HIDE DEF c
  <2>3. Goes(g, [g EXCEPT !.chip = c])
    BY <1>2, <2>1, ChipChange, OnwardGoes
  <2> QED
    BY <1>2, <2>2, <2>3, GoesSelf DEF MoveChip, Frozen
<1>3. CASE ~g.placard /\ ~(voluntary /\ g.chip.moved)
  BY <1>3, WalkGoes DEF MoveChip, Frozen
<1> QED
  BY <1>1, <1>2, <1>3
-----------------------------------------------------------------------------
(***************************************************************************)
(* The input that waits for Chip.                                          *)
(***************************************************************************)
\* Chip's slide, the mouse's target and the idle count are no player's sight,
\* and a kept key or the mark of a move may always be cleared.
LEMMA ChipGoes ==
  ASSUME NEW g \in GameType, NEW c \in ChipType, c.pos = g.chip.pos,
         c.moved => g.chip.moved, c.buffered => g.chip.buffered
  PROVE  Goes(g, [g EXCEPT !.chip = c]) /\ [g EXCEPT !.chip = c] \in GameType
BY ChipChange DEF Goes, Waits, Onward

LEMMA GoesType == \A g, h : Goes(g, h) => h \in GameType
BY DEF Goes, Onward, Fresh, Ended

LEMMA ForgetGoes ==
  ASSUME NEW g \in GameType
  PROVE  Goes(g, Forget(g))
<1> DEFINE c == [g.chip EXCEPT !.mouse = FALSE]
<1>1. c \in ChipType /\ c.pos = g.chip.pos /\ c.moved = g.chip.moved
      /\ c.buffered = g.chip.buffered
  BY ChipTyped DEF ChipType
<1>2. Forget(g) = [g EXCEPT !.chip = c]
  BY DEF Forget
<1> HIDE DEF c
<1> QED
  BY <1>1, <1>2, ChipGoes

LEMMA KeyDoneGoes ==
  ASSUME NEW g \in GameType
  PROVE  Goes(g, KeyDone(g))
<1> DEFINE c == [g.chip EXCEPT !.buffered = FALSE, !.mouse = FALSE]
<1>1. c \in ChipType /\ c.pos = g.chip.pos /\ c.moved = g.chip.moved /\ ~c.buffered
  BY ChipTyped DEF ChipType
<1>2. KeyDone(g) = [g EXCEPT !.chip = c]
  BY GameParts DEF KeyDone
<1> HIDE DEF c
<1> QED
  BY <1>1, <1>2, ChipGoes

LEMMA MovedClearedGoes ==
  ASSUME NEW g \in GameType
  PROVE  LET h == [g EXCEPT !.chip.moved = FALSE] IN Goes(g, h) /\ h \in GameType
<1> DEFINE c == [g.chip EXCEPT !.moved = FALSE]
<1>1. c \in ChipType /\ c.pos = g.chip.pos /\ ~c.moved /\ c.buffered = g.chip.buffered
  BY ChipTyped DEF ChipType
<1>2. [g EXCEPT !.chip.moved = FALSE] = [g EXCEPT !.chip = c]
  OBVIOUS
<1> HIDE DEF c
<1> QED
  BY <1>1, <1>2, ChipGoes

LEMMA AtTargetGoes ==
  ASSUME NEW g \in GameType
  PROVE  Goes(g, AtTarget(g))
BY ForgetGoes, GoesSelf DEF AtTarget

LEMMA MouseDirections ==
  ASSUME NEW g
  PROVE  MouseFirst(g) \in Dir /\ MouseSecond(g) \in Dir
<1>1. \A n : Across(n) \in Dir /\ Down(n) \in Dir
  BY DEF Across, Down, Dir, Compass
<1>2. Still \in Dir
  BY DEF Dir
<1> QED
  BY <1>1, <1>2 DEF MouseFirst, MouseSecond

LEMMA SecondMouseStepGoes ==
  ASSUME NEW r, r.g \in GameType, NEW d \in Dir, NEW afterSlide, NEW rnd \in Floors
  PROVE  Goes(r.g, SecondMouseStep(r, d, afterSlide, rnd))
<1> DEFINE g == IF afterSlide THEN r.g ELSE [r.g EXCEPT !.chip.moved = FALSE]
           s == IF d = Still THEN [g |-> g, ok |-> FALSE] ELSE MoveChip(g, d, TRUE, rnd)
           k == IF s.ok THEN s.g ELSE Forget(s.g)
<1>1. SecondMouseStep(r, d, afterSlide, rnd) =
        IF r.ok \/ ~r.g.chip.mouse \/ GivesUp(r.g, d, afterSlide)
        THEN AtTarget(r.g) ELSE AtTarget(k)
  BY DEF SecondMouseStep
<1>2. Goes(r.g, g) /\ g \in GameType
  BY MovedClearedGoes, GoesSelf
<1> HIDE DEF g
<1>3. Goes(g, s.g) /\ s.g \in GameType
  BY <1>2, MoveChipGoes, GoesSelf, GoesType
<1> HIDE DEF s
<1>4. Goes(s.g, k) /\ k \in GameType
  BY <1>3, ForgetGoes, GoesSelf, GoesType
<1> HIDE DEF k
<1>5. Goes(r.g, k)
  BY <1>2, <1>3, <1>4, GoesTwice
<1>6. Goes(r.g, AtTarget(k))
  BY <1>4, <1>5, AtTargetGoes, GoesTwice
<1> QED
  BY <1>1, <1>6, AtTargetGoes

LEMMA MouseStepGoes ==
  ASSUME NEW g \in GameType, NEW afterSlide, NEW rnd \in Floors
  PROVE  Goes(g, MouseStep(g, afterSlide, rnd))
<1> DEFINE r == MoveChip(g, MouseFirst(g), TRUE, rnd)
           h == SecondMouseStep(r, MouseSecond(g), afterSlide, rnd)
<1>1. MouseStep(g, afterSlide, rnd) =
        IF GivesUp(g, MouseFirst(g), afterSlide) THEN AtTarget(g) ELSE h
  BY DEF MouseStep
<1>2. Goes(g, r.g) /\ r.g \in GameType
  BY MouseDirections, MoveChipGoes, GoesType
<1> HIDE DEF r
<1>3. Goes(r.g, h)
  BY <1>2, MouseDirections, SecondMouseStepGoes
<1> HIDE DEF h
<1> QED
  BY <1>1, <1>2, <1>3, AtTargetGoes, GoesTwice

LEMMA KeyGoes ==
  ASSUME NEW g \in GameType, NEW rnd \in Floors
  PROVE  Goes(g, KeyDone(MoveChip(g, g.chip.buf, TRUE, rnd).g)) /\ Goes(g, KeyDone(g))
<1> DEFINE h == MoveChip(g, g.chip.buf, TRUE, rnd).g
<1>1. Goes(g, h) /\ h \in GameType
  BY GameParts, MoveChipGoes, GoesType
<1> HIDE DEF h
<1>2. Goes(h, KeyDone(h))
  BY <1>1, KeyDoneGoes
<1>3. Goes(g, KeyDone(h))
  BY <1>1, <1>2, GoesTwice
<1> QED
  BY <1>3, KeyDoneGoes DEF h

LEMMA UseBufferedGoes ==
  ASSUME NEW g \in GameType, NEW rnd \in Floors
  PROVE  Goes(g, UseBuffered(g, rnd)) /\ Goes(g, KeyAfterSlide(g, rnd))
BY KeyGoes DEF UseBuffered, KeyAfterSlide

LEMMA StandAroundGoes ==
  ASSUME NEW g \in GameType
  PROVE  Goes(g, StandAround(g))
<1> DEFINE n == IF g.chip.idle < 3 THEN g.chip.idle + 1 ELSE 3
           c == [g.chip EXCEPT !.idle = n]
           g1 == [g EXCEPT !.chip = c]
           v == SetUpper(g.w, g.chip.pos, ChipTile(Under(g)))
           g2 == [g1 EXCEPT !.w = v]
<1>1. g.chip.idle \in 0..3
  BY GameParts
<1>2. n \in 0..3
  BY <1>1
<1>3. StandAround(g) = IF g.chip.idle < 2 THEN g1 ELSE g2
  BY DEF StandAround
<1> HIDE DEF n
<1>4. c \in ChipType /\ c.pos = g.chip.pos /\ c.moved = g.chip.moved
      /\ c.buffered = g.chip.buffered
  BY <1>2, ChipTyped DEF ChipType
<1> HIDE DEF c
<1>5. Goes(g, g1) /\ g1 \in GameType /\ g1.w = g.w
  BY <1>4, ChipGoes, ChipChange
<1>6. Follows(g.w, v)
  BY GameParts, ShowChipFollows
<1> HIDE DEF g1, v
<1>7. Goes(g1, g2)
  BY <1>5, <1>6, FollowsChange DEF Goes
<1> HIDE DEF g2
<1> QED
  BY <1>3, <1>5, <1>7, GoesTwice

LEMMA InputGoes ==
  ASSUME NEW g \in GameType, NEW rnd \in Floors
  PROVE  Goes(g, EvenInput(g, rnd)) /\ Goes(g, OddInput(g, rnd))
<1> DEFINE h == IF g.chip.pos = g.chip.target THEN Forget(g) ELSE MouseStep(g, FALSE, rnd)
<1>1. Goes(g, h) /\ h \in GameType
  BY ForgetGoes, MouseStepGoes, GoesType
<1>2. ToMouse(g, rnd) = [h EXCEPT !.chip.moved = FALSE]
  BY DEF ToMouse
<1> HIDE DEF h
<1>3. Goes(g, ToMouse(g, rnd))
  BY <1>1, <1>2, MovedClearedGoes, GoesTwice
<1>4. Goes(g, EvenInput(g, rnd))
  BY <1>3, MovedClearedGoes, GoesSelf, UseBufferedGoes, StandAroundGoes DEF EvenInput
<1>5. Goes(g, OddInput(g, rnd))
  BY GoesSelf, UseBufferedGoes DEF OddInput
<1> QED
  BY <1>4, <1>5

LEMMA MouseAfterSlideGoes ==
  ASSUME NEW g \in GameType, NEW rnd \in Floors
  PROVE  Goes(g, MouseAfterSlide(g, rnd))
BY ForgetGoes, MouseStepGoes DEF MouseAfterSlide

LEMMA TurnSlideGoes ==
  ASSUME NEW g \in GameType, NEW rnd \in Dir
  PROVE  Goes(g, TurnSlide(g, rnd))
<1> DEFINE d == TurnAround(g.chip.slide)
           c == [g.chip EXCEPT !.slide = d]
           g1 == [g EXCEPT !.chip = c]
           h == SlideChip(g1, g.chip.pos, d, rnd)
<1>1. d \in Dir
  BY GameParts, TurnsAreDirections
<1>2. TurnSlide(g, rnd) = h
  BY DEF TurnSlide
<1> HIDE DEF d
<1>3. c \in ChipType /\ c.pos = g.chip.pos /\ c.moved = g.chip.moved
      /\ c.buffered = g.chip.buffered
  BY <1>1, ChipTyped DEF ChipType
<1> HIDE DEF c
<1>4. Goes(g, g1) /\ g1 \in GameType
  BY <1>3, ChipGoes
<1> HIDE DEF g1
<1>5. Goes(g1, h)
  BY <1>1, <1>4, SlideChipOnward DEF Goes
<1> HIDE DEF h
<1> QED
  BY <1>2, <1>4, <1>5, GoesTwice

LEMMA AutopsiedGoes ==
  ASSUME NEW g \in GameType
  PROVE  Goes(g, Autopsied(g))
BY RestartGoes, GoesSelf DEF Autopsied
-----------------------------------------------------------------------------
(***************************************************************************)
(* The inductive invariant.  Beside what is to be shown: MonsterLoop's     *)
(* index and length stay within the list, although the list changes under  *)
(* it; and the placard is never up during the ending.                      *)
(***************************************************************************)
GoodGame(g) ==
  /\ g \in GameType
  /\ ~(g.placard /\ g.ending)
  /\ g.placard => /\ g.chip.pos = Levels[g.w.level].chip
                  /\ g.bag = LoadLevel(g.w.level).bag
                  /\ ~g.chip.moved /\ ~g.chip.buffered
  /\ g.time > 0 <=> Levels[g.w.level].time > 0

LoopType ==
  /\ tick \in 0..(TickCycle - 1)
  /\ pc \in {"idle", "monsters", "slide", "bounce", "afterSlide", "slips", "clock"}
  /\ loop \in [i: Nat, n: Nat, ndir: StackDirs]

GameInv == GoodGame(game) /\ LoopType /\ LoopInRange

\* GameInv is the type invariant and the two safety invariants of the runs,
\* with those two facts.
LEMMA GameInvGives == GameInv => TypeOK /\ StartsFresh /\ ClockRuns
BY DEF GameInv, GoodGame, LoopType, TypeOK, StartsFresh, ClockRuns, world

LEMMA GoodGameStays ==
  ASSUME NEW g, GoodGame(g), NEW h, Goes(g, h)
  PROVE  GoodGame(h)
<1>1. CASE Onward(g, h) /\ (g.placard => Waits(g, h))
  BY <1>1 DEF GoodGame, Onward, Waits
<1>2. CASE Fresh(h)
  BY <1>2 DEF GoodGame, Fresh
<1>3. CASE Ended(g, h)
  BY <1>3 DEF GoodGame, Ended
<1> QED
  BY <1>1, <1>2, <1>3 DEF Goes

\* The placard taken away.
Opened(g) == [g EXCEPT !.placard = FALSE]

LEMMA OpenedGood ==
  ASSUME NEW g, GoodGame(g)
  PROVE  /\ GoodGame(Opened(g)) /\ Opened(g) \in GameType /\ ~Opened(g).placard
         /\ Opened(g).w = g.w /\ Opened(g).ending = g.ending /\ Opened(g).chip = g.chip
<1> DEFINE h == Opened(g)
<1>1. g \in GameType
  BY DEF GoodGame
<1>2. /\ h.w = g.w /\ h.chip = g.chip /\ h.bag = g.bag /\ h.time = g.time
      /\ h.placard = FALSE /\ h.ending = g.ending
  BY <1>1, GameParts DEF Opened
<1>3. h \in GameType
  BY <1>1 DEF Opened, GameType
<1> HIDE DEF h
<1>4. GoodGame(h)
  BY <1>2, <1>3 DEF GoodGame
<1> QED
  BY <1>2, <1>3, <1>4 DEF h

LEMMA DrawParts ==
  ASSUME NEW k \in Draws
  PROVE  k.floor \in Floors /\ k.floor[2] \in Dir /\ k.dir \in Dir
<1>1. k \in DrawType
  BY GameAssumption
<1> QED
  BY <1>1 DEF DrawType, Floors, Dir

\* The clock, where it does not run out.
Ticks(g, h) == g.time > 1 /\ h = [g EXCEPT !.time = g.time - 1]

LEMMA TicksGood ==
  ASSUME NEW g, GoodGame(g), NEW h, Ticks(g, h)
  PROVE  /\ GoodGame(h) /\ h.w = g.w /\ h.placard = g.placard /\ h.ending = g.ending
<1>1. g \in GameType /\ g.time \in Nat /\ g.time - 1 \in Nat /\ g.time - 1 > 0
  BY GameParts DEF GoodGame, Ticks
<1>2. /\ h.w = g.w /\ h.chip = g.chip /\ h.bag = g.bag /\ h.time = g.time - 1
      /\ h.placard = g.placard /\ h.ending = g.ending /\ h \in GameType
  BY <1>1, GameParts DEF Ticks, GameType
<1> QED
  BY <1>1, <1>2 DEF GoodGame
-----------------------------------------------------------------------------
(***************************************************************************)
(* Each action makes the game go on in one of those ways.                  *)
(***************************************************************************)
\* What a step does to the game.
GoesOn == \/ Goes(game, game') \/ Goes(Opened(game), game') \/ Ticks(game, game')

LEMMA ArrowGoes ==
  ASSUME GameInv, NEW d \in Compass, Arrow(d)
  PROVE  GoesOn /\ pc' = pc
<1>1. PICK k \in Draws : game' = MoveChip(Opened(game), d, TRUE, k.floor).g
  BY DEF Arrow, Opened
<1>2. Opened(game) \in GameType /\ k.floor \in Floors /\ d \in Dir
  BY OpenedGood, DrawParts DEF GameInv, Dir
<1>3. Goes(Opened(game), game')
  BY <1>1, <1>2, MoveChipGoes
<1> QED
  BY <1>3 DEF GoesOn, Arrow

LEMMA OtherKeyGoes ==
  ASSUME GameInv, OtherKey
  PROVE  GoesOn /\ pc' = pc
<1>1. game' = Opened(game) /\ pc' = pc
  BY DEF OtherKey, Opened
<1>2. Goes(Opened(game), game')
  BY <1>1, OpenedGood, GoesSelf DEF GameInv
<1> QED
  BY <1>1, <1>2 DEF GoesOn

LEMMA ClickGoes ==
  ASSUME GameInv, NEW p \in Targets, Click(p)
  PROVE  GoesOn /\ pc' = pc
<1> DEFINE g == Opened(game)
           c == [game.chip EXCEPT !.mouse = TRUE, !.target = p, !.buffered = FALSE]
<1>1. p \in Cell /\ game \in GameType
  BY GameAssumption DEF GameInv, GoodGame
<1>2. g \in GameType /\ g.chip = game.chip
  BY OpenedGood DEF GameInv
<1>3. game' = [g EXCEPT !.chip = c] /\ pc' = pc
  BY <1>1, GameParts DEF Click, Opened
<1>4. c \in ChipType /\ c.pos = game.chip.pos /\ c.moved = game.chip.moved /\ ~c.buffered
  BY <1>1, ChipTyped DEF ChipType
<1> HIDE DEF c, g
<1>5. Goes(g, game')
  BY <1>2, <1>3, <1>4, ChipGoes
<1> QED
  BY <1>3, <1>5 DEF GoesOn, g

LEMMA RestartLevelGoes ==
  ASSUME GameInv, RestartLevel
  PROVE  GoesOn /\ pc' = pc
BY RestartGoes DEF RestartLevel, GoesOn, GameInv, GoodGame

LEMMA TickGoes ==
  ASSUME GameInv, EvenTick \/ OddTick
  PROVE  GoesOn
BY InputGoes, DrawParts DEF EvenTick, OddTick, GoesOn, GameInv, GoodGame

LEMMA LoopsDoneGo ==
  ASSUME GameInv, MonstersDone \/ SlipsDone
  PROVE  GoesOn /\ pc' # "monsters"
BY AutopsiedGoes DEF MonstersDone, SlipsDone, GoTo, AfterMonsters, GoesOn, GameInv, GoodGame

LEMMA SlideTryGoes ==
  ASSUME NEW g \in GameType, NEW k \in Draws
  PROVE  LET t == SlideTry(g, k)
         IN  /\ Goes(g, t.r.g) /\ Goes(g, TurnSlide(t.r.g, t.floor))
             /\ t.r.g \in GameType
<1> DEFINE h == MoveChip(g, g.chip.slide, FALSE, k.floor).g
<1>1. Goes(g, h) /\ h \in GameType
  BY GameParts, DrawParts, MoveChipGoes, GoesType
<1>2. SlideTry(g, k).r.g = h /\ SlideTry(g, k).floor = k.floor[2]
  BY DEF SlideTry
<1> HIDE DEF h
<1>3. Goes(g, TurnSlide(h, k.floor[2]))
  BY <1>1, DrawParts, TurnSlideGoes, GoesTwice
<1> QED
  BY <1>1, <1>2, <1>3

LEMMA SlideOnGoes ==
  ASSUME GameInv, SlideOn
  PROVE  GoesOn /\ pc' # "monsters"
<1> DEFINE c == [game.chip EXCEPT !.idle = 0]
           g == [game EXCEPT !.chip.idle = 0]
<1>1. game \in GameType
  BY DEF GameInv, GoodGame
<1>2. c \in ChipType /\ c.pos = game.chip.pos /\ c.moved = game.chip.moved
      /\ c.buffered = game.chip.buffered
  BY <1>1, ChipTyped DEF ChipType
<1>3. g = [game EXCEPT !.chip = c]
  OBVIOUS
<1> HIDE DEF c
<1>4. Goes(game, g) /\ g \in GameType
  BY <1>1, <1>2, <1>3, ChipGoes
<1>5. PICK k \in Draws : \/ game' = SlideTry(g, k).r.g /\ pc' = "afterSlide"
                         \/ /\ game' = TurnSlide(SlideTry(g, k).r.g, SlideTry(g, k).floor)
                            /\ pc' = "bounce"
  BY DEF SlideOn
<1> HIDE DEF g
<1>6. Goes(g, game')
  BY <1>4, <1>5, SlideTryGoes
<1>7. Goes(game, game')
  BY <1>1, <1>4, <1>6, GoesTwice
<1> QED
  BY <1>5, <1>7 DEF GoesOn

LEMMA BounceGoes ==
  ASSUME GameInv, Bounce
  PROVE  GoesOn /\ pc' # "monsters"
<1>1. game \in GameType
  BY DEF GameInv, GoodGame
<1>2. PICK k \in Draws : \/ game' = SlideTry(game, k).r.g
                         \/ game' = TurnSlide(SlideTry(game, k).r.g, SlideTry(game, k).floor)
  BY DEF Bounce
<1>3. Goes(game, game')
  BY <1>1, <1>2, SlideTryGoes
<1> QED
  BY <1>3 DEF GoesOn, Bounce

LEMMA AfterSlideGoes ==
  ASSUME GameInv, AfterSlide
  PROVE  GoesOn /\ pc' # "monsters"
<1>1. game \in GameType
  BY DEF GameInv, GoodGame
<1>2. PICK k \in Draws :
        game' \in {[game EXCEPT !.chip.moved = FALSE], KeyAfterSlide(game, k.floor),
                   MouseAfterSlide(game, k.floor), game}
  BY DEF AfterSlide
<1>3. Goes(game, game')
  BY <1>1, <1>2, DrawParts, MovedClearedGoes, UseBufferedGoes, MouseAfterSlideGoes, GoesSelf
<1> QED
  BY <1>3 DEF GoesOn, AfterSlide, GoTo

LEMMA ClockGoes ==
  ASSUME GameInv, Clock
  PROVE  GoesOn /\ pc' # "monsters"
<1>1. game \in GameType /\ game.time \in Nat
  BY GameParts DEF GameInv, GoodGame
<1>2. pc' # "monsters"
  BY DEF Clock, GoTo
<1>3. CASE game.time = 0 \/ tick = 0 \/ tick % 10 # 0
  BY <1>1, <1>2, <1>3, GoesSelf DEF Clock, GoesOn
<1>4. CASE ~(game.time = 0 \/ tick = 0 \/ tick % 10 # 0) /\ game.time = 1
  BY <1>1, <1>2, <1>4, RestartGoes DEF Clock, GoesOn
<1>5. CASE ~(game.time = 0 \/ tick = 0 \/ tick % 10 # 0) /\ game.time # 1
  <2>1. game' = [game EXCEPT !.time = game.time - 1] /\ game.time > 1
    BY <1>1, <1>5 DEF Clock
  <2> QED
    BY <1>2, <2>1 DEF GoesOn, Ticks
<1> QED
  BY <1>3, <1>4, <1>5

\* The world after an iteration of either loop.
LEMMA OutlivesGoes ==
  ASSUME NEW g \in GameType, NEW v, Outlives(g.w, v)
  PROVE  Goes(g, [g EXCEPT !.w = v]) /\ [g EXCEPT !.w = v].w = v
BY WorldChange DEF Outlives, Goes

LEMMA SlipMovesGoes ==
  ASSUME GameInv, SlipMoves
  PROVE  GoesOn /\ pc' = pc /\ pc = "slips"
<1>1. /\ game \in GameType /\ game.w \in WorldType /\ loop.i \in Nat
      /\ Len(game.w.slips) \in Nat
  BY GameParts, WorldParts DEF GameInv, GoodGame, LoopType
<1>2. PICK k \in Draws : game' = [game EXCEPT !.w = SlipTurn(game.w, loop.i + 1, k.floor)]
  BY DEF SlipMoves
<1>3. loop.i + 1 \in 1..Len(game.w.slips)
  BY <1>1 DEF SlipMoves
<1>4. Outlives(game.w, SlipTurn(game.w, loop.i + 1, k.floor))
  BY <1>1, <1>3, DrawParts, SlipTurnOutlives
<1>5. Goes(game, game')
  BY <1>1, <1>2, <1>4, OutlivesGoes
<1> QED
  BY <1>5 DEF GoesOn, SlipMoves, Runs

LEMMA MonsterMovesGoes ==
  ASSUME GameInv, MonsterMoves
  PROVE  /\ GoesOn /\ pc' = pc
         /\ loop' \in [i: Nat, n: Nat, ndir: StackDirs]
         /\ loop'.i >= 1 /\ loop'.n <= Len(game'.w.monsters)
<1>1. /\ game \in GameType /\ game.w \in WorldType /\ Len(game.w.monsters) \in Nat
      /\ loop \in [i: Nat, n: Nat, ndir: StackDirs]
      /\ loop.i \in Nat /\ loop.n \in Nat /\ loop.ndir \in StackDirs
  BY GameParts, WorldParts DEF GameInv, GoodGame, LoopType
<1>2. loop.i >= 1 /\ loop.i <= loop.n /\ loop.n <= Len(game.w.monsters)
  BY DEF MonsterMoves, Runs, GameInv, LoopInRange, world
<1>3. loop.i \in 1..Len(game.w.monsters)
  BY <1>1, <1>2
<1>4. PICK k \in Draws :
        LET r == MonsterIteration(k)
        IN  /\ game' = [game EXCEPT !.w = r.w]
            /\ loop' = IF r.gone THEN [loop EXCEPT !.n = loop.n - 1, !.ndir = r.ndir]
                       ELSE [loop EXCEPT !.i = loop.i + 1, !.ndir = r.ndir]
  BY DEF MonsterMoves
<1> DEFINE r == MonsterIteration(k)
<1>5. TurnResult(game.w, r)
  BY <1>1, <1>3, DrawParts, MonsterTurnType DEF MonsterIteration
<1>6. game' = [game EXCEPT !.w = r.w]
  BY <1>4
<1>7. loop' = IF r.gone THEN [loop EXCEPT !.n = loop.n - 1, !.ndir = r.ndir]
              ELSE [loop EXCEPT !.i = loop.i + 1, !.ndir = r.ndir]
  BY <1>4
<1> HIDE DEF r
<1>8. Outlives(game.w, r.w)
  BY <1>1, <1>5, FollowsOutlives DEF TurnResult
<1>9. Goes(game, game') /\ game'.w = r.w
  BY <1>1, <1>6, <1>8, OutlivesGoes
<1>10. Len(r.w.monsters) \in Nat
  BY <1>8, WorldParts DEF Outlives
<1>11. CASE r.gone
  <2>1. Len(r.w.monsters) >= Len(game.w.monsters) - 1
    BY <1>8 DEF Outlives
  <2>2. loop' = [loop EXCEPT !.n = loop.n - 1, !.ndir = r.ndir] /\ loop.n - 1 \in Nat
    BY <1>1, <1>2, <1>7, <1>11
  <2>3. /\ loop' \in [i: Nat, n: Nat, ndir: StackDirs]
        /\ loop'.i = loop.i /\ loop'.n = loop.n - 1
    BY <1>1, <1>5, <2>2 DEF TurnResult
  <2> QED
    BY <1>1, <1>2, <1>9, <1>10, <2>1, <2>3 DEF GoesOn, MonsterMoves
<1>12. CASE ~r.gone
  <2>1. Len(r.w.monsters) >= Len(game.w.monsters)
    BY <1>5, <1>12 DEF TurnResult, Follows
  <2>2. loop' = [loop EXCEPT !.i = loop.i + 1, !.ndir = r.ndir] /\ loop.i + 1 \in Nat
    BY <1>1, <1>7, <1>12
  <2>3. /\ loop' \in [i: Nat, n: Nat, ndir: StackDirs]
        /\ loop'.i = loop.i + 1 /\ loop'.n = loop.n
    BY <1>1, <1>5, <2>2 DEF TurnResult
  <2> QED
    BY <1>1, <1>2, <1>9, <1>10, <2>1, <2>3 DEF GoesOn, MonsterMoves
<1> QED
  BY <1>11, <1>12
-----------------------------------------------------------------------------
(***************************************************************************)
(* The invariant.                                                          *)
(***************************************************************************)
LEMMA InitGameInv == Init => GameInv
<1> SUFFICES ASSUME Init PROVE GameInv
  OBVIOUS
<1>1. PICK n \in 1..Len(Levels) : game = LoadLevel(n)
  BY DEF Init
<1>2. GoodGame(game)
  BY <1>1, LoadLevelFresh DEF GoodGame, Fresh
<1>3. Still \in StackDirs
  BY DEF StackDirs, Dir
<1>4. LoopType /\ LoopInRange
  BY <1>3, GameAssumption DEF Init, NoLoop, LoopType, LoopInRange, world
<1> QED
  BY <1>2, <1>4 DEF GameInv

LEMMA NextGoes == GameInv /\ Next => GoesOn
BY ArrowGoes, OtherKeyGoes, ClickGoes, RestartLevelGoes, TickGoes, LoopsDoneGo,
   SlideOnGoes, BounceGoes, AfterSlideGoes, ClockGoes, SlipMovesGoes, MonsterMovesGoes
   DEF Next, InTick, Input

LEMMA GoesOnGood ==
  ASSUME GameInv, GoesOn
  PROVE  GoodGame(game')
<1>1. GoodGame(game) /\ GoodGame(Opened(game))
  BY OpenedGood DEF GameInv
<1> QED
  BY <1>1, GoodGameStays, TicksGood DEF GoesOn

\* What Goes does not say: the tick's own variables.
LEMMA LoopStays ==
  ASSUME GameInv, Next, GoodGame(game')
  PROVE  LoopType' /\ LoopInRange'
<1> DEFINE Pcs == {"idle", "monsters", "slide", "bounce", "afterSlide", "slips", "clock"}
<1>1. Still \in StackDirs
  BY DEF StackDirs, Dir
<1>2. NoLoop \in [i: Nat, n: Nat, ndir: StackDirs]
  BY <1>1 DEF NoLoop
<1>3. /\ tick \in 0..(TickCycle - 1) /\ pc \in Pcs
      /\ loop \in [i: Nat, n: Nat, ndir: StackDirs]
  BY DEF GameInv, LoopType
<1>5. CASE Input
  <2>1. UNCHANGED <<tick, pc, loop>> /\ pc = "idle"
    BY <1>5 DEF Input, Arrow, OtherKey, RestartLevel, Click, Runs
  <2> QED
    BY <1>3, <2>1 DEF LoopType, LoopInRange, world
<1>6. TickNow \in 0..(TickCycle - 1)
  BY <1>3, GameAssumption DEF TickNow
<1>7. CASE OddTick
  BY <1>2, <1>6, <1>7 DEF OddTick, GoTo, AfterMonsters, LoopType, LoopInRange, world
<1>8. CASE EvenTick
  <2>1. game'.w \in WorldType /\ Len(game'.w.monsters) \in Nat
    BY GameParts, WorldParts DEF GoodGame
  <2>2. CASE game'.w.monsters = <<>>
    BY <1>2, <1>6, <1>8, <2>2 DEF EvenTick, GoTo, AfterMonsters, LoopType, LoopInRange, world
  <2>3. CASE game'.w.monsters # <<>>
    <3>1. PICK d \in Leftovers : loop' = [i |-> 1, n |-> Len(game'.w.monsters), ndir |-> d]
      BY <1>8, <2>3 DEF EvenTick
    <3>2. d \in StackDirs
      BY GameAssumption
    <3> QED
      BY <1>6, <1>8, <2>1, <2>3, <3>1, <3>2 DEF EvenTick, LoopType, LoopInRange, world
  <2> QED
    BY <2>2, <2>3
<1>9. CASE MonstersDone \/ SlipsDone \/ AfterSlide \/ Clock
  BY <1>2, <1>3, <1>9 DEF MonstersDone, SlipsDone, AfterSlide, Clock, GoTo, AfterMonsters,
     LoopType, LoopInRange, world
<1>10. CASE SlideOn \/ Bounce
  <2>1. tick' = tick /\ loop' = loop /\ pc' \in {"afterSlide", "bounce"}
    BY <1>10 DEF SlideOn, Bounce
  <2> QED
    BY <1>3, <2>1 DEF LoopType, LoopInRange, world
<1>11. CASE SlipMoves
  <2>1. tick' = tick /\ pc' = "slips" /\ loop' \in {loop, [loop EXCEPT !.i = loop.i + 1]}
    BY <1>11 DEF SlipMoves, Runs
  <2>2. loop' \in [i: Nat, n: Nat, ndir: StackDirs]
    BY <1>3, <2>1
  <2> QED
    BY <1>3, <2>1, <2>2 DEF LoopType, LoopInRange, world
<1>12. CASE MonsterMoves
  <2>1. tick' = tick
    BY <1>12 DEF MonsterMoves
  <2> QED
    BY <1>3, <1>12, <2>1, MonsterMovesGoes DEF LoopType, LoopInRange, world
<1> QED
  BY <1>5, <1>7, <1>8, <1>9, <1>10, <1>11, <1>12 DEF Next, InTick

LEMMA NextGameInv == GameInv /\ [Next]_vars => GameInv'
<1>1. ASSUME GameInv, Next PROVE GameInv'
  <2>1. GoodGame(game')
    BY <1>1, NextGoes, GoesOnGood
  <2> QED
    BY <1>1, <2>1, LoopStays DEF GameInv
<1>2. ASSUME GameInv, UNCHANGED vars PROVE GameInv'
  BY <1>2 DEF GameInv, LoopType, LoopInRange, world, vars
<1> QED
  BY <1>1, <1>2

LEMMA GameInvAlways == Spec => []GameInv
<1>1. Init => GameInv
  BY InitGameInv
<1>2. GameInv /\ [Next]_vars => GameInv'
  BY NextGameInv
<1> QED
  BY <1>1, <1>2, PTL DEF Spec

\* Type correctness of the whole game, with every board, list and loop index:
\* whatever stands where and whatever is drawn, no handler writes a tile that
\* is none, a monster off the board or a loop index below 1.
THEOREM TypeCorrect == Spec => []TypeOK
<1>1. GameInv => TypeOK
  BY GameInvGives
<1> QED
  BY <1>1, GameInvAlways, PTL

\* StartsFresh: a level that is read, at the start, in the middle of a tick or
\* at its end, is still untouched when the placard is taken away.
THEOREM LevelsStartFresh == Spec => []StartsFresh
<1>1. GameInv => StartsFresh
  BY GameInvGives
<1> QED
  BY <1>1, GameInvAlways, PTL

\* ClockRuns: a timed level is never seen with its time at 0, nor an untimed
\* one with any.
THEOREM ClocksRun == Spec => []ClockRuns
<1>1. GameInv => ClockRuns
  BY GameInvGives
<1> QED
  BY <1>1, GameInvAlways, PTL

\* MonsterLoop reads and writes within the list: a monster that is deleted, at
\* its turn or not, never leaves the loop's count past the list's end.
THEOREM LoopsInRange == Spec => []LoopInRange
<1>1. GameInv => LoopInRange
  BY DEF GameInv
<1> QED
  BY <1>1, GameInvAlways, PTL
-----------------------------------------------------------------------------
(***************************************************************************)
(* The refinement: every step of the game is a step of LevelFlow.          *)
(***************************************************************************)
ModeOf(g) == IF Dead(g) /\ ~g.placard THEN "dead"
             ELSE IF g.ending THEN "ending"
             ELSE IF g.placard THEN "placard" ELSE "play"

LEMMA FlowInitially == Init => Flow!FlowInit
<1> SUFFICES ASSUME Init PROVE Flow!FlowInit
  OBVIOUS
<1>1. PICK n \in 1..Len(Levels) : game = LoadLevel(n)
  BY DEF Init
<1>2. game.w.level = n /\ game.placard /\ ~game.ending
  BY <1>1, LoadLevelFresh DEF Fresh
<1> QED
  BY <1>2 DEF Flow!FlowInit, world, Mode

LEMMA CourseOf ==
  ASSUME NEW g, GoodGame(g), NEW h, GoodGame(h), Goes(g, h) \/ Goes(Opened(g), h) \/ Ticks(g, h)
  PROVE  \/ ModeOf(h) = ModeOf(g) /\ h.w.level = g.w.level
         \/ ModeOf(g) = "placard" /\ ModeOf(h) = "play" /\ h.w.level = g.w.level
         \/ ModeOf(g) # "dead" /\ ModeOf(h) = "dead" /\ h.w.level = g.w.level
         \/ ModeOf(h) = "placard" /\ h.w.level = g.w.level
         \/ g.w.level < Len(Levels) /\ h.w.level = g.w.level + 1 /\ ModeOf(h) = "placard"
         \/ g.w.level = Len(Levels) /\ ModeOf(h) = "ending" /\ h.w.level = g.w.level
<1>1. /\ g.w.level \in 1..Len(Levels) /\ h.w.level \in 1..Len(Levels)
      /\ Len(Levels) \in Nat /\ g.placard \in BOOLEAN
  BY GameParts, WorldAssumption DEF GoodGame
<1>2. /\ Opened(g).w = g.w /\ Opened(g).placard = FALSE /\ Opened(g).ending = g.ending
  BY OpenedGood
<1>3. ~(g.placard /\ g.ending) /\ ~(h.placard /\ h.ending)
  BY DEF GoodGame
<1>4. CASE Fresh(h) /\ h.w.level = g.w.level
  BY <1>4 DEF Fresh, ModeOf
<1>5. CASE Fresh(h) /\ h.w.level = g.w.level + 1
  BY <1>1, <1>5 DEF Fresh, ModeOf
<1>6. CASE Ended(g, h)
  BY <1>6 DEF Ended, ModeOf
<1>7. CASE Onward(g, h)
  BY <1>3, <1>7 DEF Onward, ModeOf, Dead
<1>8. CASE Onward(Opened(g), h)
  BY <1>2, <1>3, <1>8 DEF Onward, ModeOf, Dead
<1>9. CASE Ended(Opened(g), h)
  BY <1>2, <1>9 DEF Ended, ModeOf
<1>10. CASE Ticks(g, h)
  BY <1>10, TicksGood DEF ModeOf, Dead
<1> QED
  BY <1>2, <1>4, <1>5, <1>6, <1>7, <1>8, <1>9, <1>10 DEF Goes

LEMMA StepFollowsFlow == GameInv /\ GameInv' /\ [Next]_vars => [Flow!FlowNext]_(Flow!flow)
<1> SUFFICES ASSUME GameInv, GameInv', [Next]_vars PROVE [Flow!FlowNext]_(Flow!flow)
  OBVIOUS
<1>1. Mode = ModeOf(game) /\ Mode' = ModeOf(game')
  BY DEF Mode, ModeOf
<1>2. world = game.w /\ world' = game'.w
  BY DEF world
<1>3. CASE Next
  <2>1. GoesOn /\ GoodGame(game) /\ GoodGame(game')
    BY <1>3, NextGoes DEF GameInv
  <2>2. \/ Mode' = Mode /\ world'.level = world.level
        \/ Mode = "placard" /\ Mode' = "play" /\ world'.level = world.level
        \/ Mode # "dead" /\ Mode' = "dead" /\ world'.level = world.level
        \/ Mode' = "placard" /\ world'.level = world.level
        \/ /\ world.level < Len(Levels) /\ world'.level = world.level + 1
           /\ Mode' = "placard"
        \/ world.level = Len(Levels) /\ Mode' = "ending" /\ world'.level = world.level
    BY <1>1, <1>2, <2>1, CourseOf DEF GoesOn
  <2> QED
    BY <2>2 DEF Flow!FlowNext, Flow!flow, Flow!Start, Flow!Die, Flow!Again, Flow!Advance,
                Flow!Finish
<1>4. CASE UNCHANGED vars
  BY <1>1, <1>2, <1>4 DEF vars, Flow!flow
<1> QED
  BY <1>3, <1>4

\* FollowsFlow: the game implements LevelFlow.  Whatever happens on the boards,
\* a level is followed by itself or by the next one, each begins with its
\* placard, and nothing comes after the last one but the ending.
THEOREM GameFollowsFlow == Spec => FollowsFlow
<1>1. Init => Flow!FlowInit
  BY FlowInitially
<1>2. GameInv /\ GameInv' /\ [Next]_vars => [Flow!FlowNext]_(Flow!flow)
  BY StepFollowsFlow
<1> QED
  BY <1>1, <1>2, GameInvAlways, PTL DEF Spec, FollowsFlow, Flow!FlowSpec
=============================================================================

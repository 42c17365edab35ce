---------------------------- MODULE MovesProofs ----------------------------
(***************************************************************************)
(* Every operation on a world leaves a world: whatever the level set, the  *)
(* tiles stay tiles, what the lists name stays on the board, and the lists *)
(* are changed only where they have entries.  Beside that, each is shown   *)
(* not to bring Chip back to life, not to change the level, and (but for   *)
(* DeleteMonster) not to shorten the monster list under MonsterLoop.       *)
(*                                                                         *)
(* The second part is about the moves of blocks and monsters, with all     *)
(* that they set off: the same holds of them, whatever stands where, and   *)
(* the cell and the direction they hand back are on the board and of the   *)
(* compass.  The moves call one another in a fixed order of depth, and so  *)
(* do the lemmas.                                                          *)
(***************************************************************************)
EXTENDS Monsters, NaturalFacts, SequenceTheorems

\* What every move promises of the world it leaves.
Follows(w, v) ==
  /\ v \in WorldType /\ v.level = w.level
  /\ Len(v.monsters) >= Len(w.monsters)
  /\ w.autopsy # "NotDeadYet" => v.autopsy # "NotDeadYet"

\* The same, but a monster may be gone.
Outlives(w, v) ==
  /\ v \in WorldType /\ v.level = w.level
  /\ Len(v.monsters) >= Len(w.monsters) - 1
  /\ w.autopsy # "NotDeadYet" => v.autopsy # "NotDeadYet"
-----------------------------------------------------------------------------
(***************************************************************************)
(* Tiles and directions.                                                   *)
(***************************************************************************)
LEMMA TurnsAreDirections ==
  ASSUME NEW d \in Dir
  PROVE  TurnLeft(d) \in Dir /\ TurnRight(d) \in Dir /\ TurnAround(d) \in Dir
BY DEF Dir, Compass, North, West, South, East, Still, TurnLeft, TurnRight, TurnAround

LEMMA DirIndexType == \A d \in Compass : DirIndex(d) \in 0..3
BY DEF Compass, North, West, South, East, DirIndex

LEMMA KindType ==
  ASSUME NEW t \in Tile
  PROVE  Kind(t) \in 0..108 /\ \E k \in 0..27 : Kind(t) = 4 * k
BY DEF Tile, Kind

LEMMA FacingType == \A t \in Tile : \A d : SetTileDir(t, d) \in Tile
<1> SUFFICES ASSUME NEW t \in Tile, NEW d PROVE SetTileDir(t, d) \in Tile
  OBVIOUS
<1>1. CASE d \in Compass
  <2>1. DirIndex(d) \in 0..3 /\ Kind(t) \in 0..108
    BY <1>1, DirIndexType, KindType
  <2> QED
    BY <1>1, <2>1 DEF SetTileDir, Tile
<1>2. CASE d \notin Compass
  BY <1>2 DEF SetTileDir
<1> QED
  BY <1>1, <1>2

LEMMA TileDirType == \A t \in Tile : TileDir(t) \in Compass /\ TileDir(t) \in Dir
<1> SUFFICES ASSUME NEW t \in Tile PROVE TileDir(t) \in Compass
  BY DEF Dir
<1>1. t % 4 \in 0..3
  BY DEF Tile
<1> QED
  BY <1>1 DEF TileDir, Compass

LEMMA CloneBlockDirType == \A t \in CloneBlocks : CloneBlockDir(t) \in Compass
BY DEF CloneBlocks, BlockN, BlockW, BlockS, BlockE, CloneBlockDir, Compass

\* An ice corner that lets something in at one side lets it out at another.
LEMMA BendType == \A t \in IceWalls, d \in Dir : Bend(t, d) \in Dir
<1> SUFFICES ASSUME NEW t \in IceWalls, NEW d \in Dir PROVE Bend(t, d) \in Dir
  OBVIOUS
<1>1. \E e \in Compass \ WallSides(t) : e # TurnAround(d)
  <2>1. WallSides(t) \in {{North, West}, {North, East}, {South, East}, {South, West}}
    BY DEF IceWalls, IceWallNW, IceWallNE, IceWallSE, IceWallSW, WallSides, PanelN,
           PanelW, PanelS, PanelE, PanelSE
  <2>2. /\ North # West /\ North # South /\ North # East
        /\ West # South /\ West # East /\ South # East
    BY DEF North, West, South, East
  <2>3. \E a, b \in Compass \ WallSides(t) : a # b
    BY <2>1, <2>2 DEF Compass
  <2> QED
    BY <2>3
<1>2. TurnAround(d) \in Dir
  BY TurnsAreDirections
<1> QED
  BY <1>1, <1>2 DEF Bend, Dir

LEMMA SlideDirType ==
  ASSUME NEW t, NEW d \in Dir, NEW old \in Dir, NEW rnd \in Dir
  PROVE  SlideDir(t, d, old, rnd) \in Dir
<1>1. North \in Dir /\ West \in Dir /\ South \in Dir /\ East \in Dir
  BY DEF Dir, Compass
<1>2. t \in IceWalls => Bend(t, d) \in Dir
  BY BendType
<1> QED
  BY <1>1, <1>2, Zenon DEF SlideDir
-----------------------------------------------------------------------------
(***************************************************************************)
(* Levels, indices, and the parts of a world.                              *)
(***************************************************************************)
LEMMA LevelParts ==
  ASSUME NEW n \in 1..Len(Levels)
  PROVE  /\ Levels[n] \in Level /\ LevelOK(Levels[n])
         /\ Levels[n].upper \in [Cell -> Tile] /\ Levels[n].lower \in [Cell -> Tile]
         /\ Levels[n].monsters \in Seq(Cell) /\ Levels[n].traps \in Seq(TrapLink)
         /\ Levels[n].clones \in Seq(Link) /\ Levels[n].chip \in Cell
         /\ Levels[n].chips \in Nat /\ Levels[n].time \in Nat
<1>1. Levels[n] \in Level /\ LevelOK(Levels[n])
  BY WorldAssumption
<1> QED
  BY <1>1 DEF Level

LEMMA FirstType ==
  ASSUME NEW S \in SUBSET Nat
  PROVE  S # {} => First(S) \in S /\ \A j \in S : First(S) <= j
BY LeastNat DEF First

LEMMA FirstIndex ==
  ASSUME NEW n \in Nat, NEW S \in SUBSET (1..n)
  PROVE  First(S) \in 0..n /\ (First(S) # 0 => First(S) \in S) /\ (S = {} <=> First(S) = 0)
<1>1. S \in SUBSET Nat
  OBVIOUS
<1>2. S = {} => First(S) = 0
  BY DEF First
<1>3. S # {} => First(S) \in S
  BY <1>1, FirstType
<1>4. CASE S = {}
  BY <1>2, <1>4
<1>5. CASE S # {}
  <2>1. First(S) \in 1..n /\ First(S) \in S
    BY <1>3, <1>5
  <2> QED
    BY <2>1, <1>5
<1> QED
  BY <1>4, <1>5

LEMMA GreatestIndex ==
  ASSUME NEW n \in Nat, NEW S \in SUBSET (1..n), S # {}
  PROVE  Greatest(S) \in S
<1> DEFINE T == {n - i : i \in S}
<1>1. T \in SUBSET Nat /\ T # {}
  OBVIOUS
<1>2. PICK k \in T : \A m \in T : k <= m
  BY <1>1, LeastNat
<1>3. PICK i \in S : k = n - i
  BY <1>2
<1>4. \A j \in S : j <= i
  <2> TAKE j \in S
  <2>1. n - j \in T
    OBVIOUS
  <2> QED
    BY <1>2, <1>3, <2>1
<1> QED
  BY <1>3, <1>4 DEF Greatest

LEMMA WorldParts ==
  ASSUME NEW w \in WorldType
  PROVE  /\ w.level \in 1..Len(Levels) /\ w.autopsy \in Autopsy /\ w.fault \in Fault
         /\ w.upper \in [Cell -> Tile] /\ w.lower \in [Cell -> Tile]
         /\ w.monsters \in Seq(Monster) /\ Len(w.monsters) \in Nat
         /\ \A i \in 1..Len(w.monsters) : w.monsters[i] \in Monster
         /\ w.slips \in Seq(Slipper) /\ Len(w.slips) \in Nat
         /\ \A i \in 1..Len(w.slips) : w.slips[i] \in Slipper
         /\ w.traps \in Seq(TrapLink) /\ Len(w.traps) \in Nat
         /\ \A i \in 1..Len(w.traps) : w.traps[i] \in TrapLink
<1>1. /\ w.level \in 1..Len(Levels) /\ w.autopsy \in Autopsy /\ w.fault \in Fault
      /\ w.upper \in [Cell -> Tile] /\ w.lower \in [Cell -> Tile]
      /\ w.monsters \in Seq(Monster) /\ w.slips \in Seq(Slipper)
      /\ w.traps \in Seq(TrapLink)
  BY DEF WorldType
<1> QED
  BY <1>1

LEMMA Indices ==
  ASSUME NEW w \in WorldType, NEW p
  PROVE  /\ FindMonster(w, p) \in 0..Len(w.monsters)
         /\ FindSlipper(w, p) \in 0..Len(w.slips)
         /\ FindTrap(w, p) \in 0..Len(w.traps)
         /\ FindTrapByButton(w, p) \in 0..Len(w.traps)
BY WorldParts, FirstIndex DEF FindMonster, FindSlipper, FindTrap, FindTrapByButton

LEMMA FollowsSelf == \A w \in WorldType : Follows(w, w)
BY WorldParts DEF Follows

LEMMA FollowsTwice ==
  ASSUME NEW u \in WorldType, NEW w, NEW v, Follows(u, w), Follows(w, v)
  PROVE  Follows(u, v)
<1>1. w \in WorldType /\ v \in WorldType
  BY DEF Follows
<1>2. Len(u.monsters) \in Nat /\ Len(w.monsters) \in Nat /\ Len(v.monsters) \in Nat
  BY <1>1, WorldParts
<1> QED
  BY <1>2 DEF Follows

\* What leaves the level, the monster list and the autopsy alone.
LEMMA FollowsAlike ==
  ASSUME NEW w \in WorldType, NEW v \in WorldType, v.level = w.level,
         v.monsters = w.monsters, v.autopsy = w.autopsy
  PROVE  Follows(w, v)
<1>1. Len(w.monsters) \in Nat
  BY WorldParts
<1> QED
  BY <1>1 DEF Follows
-----------------------------------------------------------------------------
(***************************************************************************)
(* Tiles laid and lifted.                                                  *)
(***************************************************************************)
LEMMA SetUpperFollows ==
  ASSUME NEW w \in WorldType, NEW p, NEW t \in Tile
  PROVE  Follows(w, SetUpper(w, p, t))
<1> DEFINE v == SetUpper(w, p, t)
<1>1. v \in WorldType
  BY DEF WorldType, SetUpper
<1>2. v.level = w.level /\ v.monsters = w.monsters /\ v.autopsy = w.autopsy
  BY DEF WorldType, SetUpper
<1> QED
  BY <1>1, <1>2, FollowsAlike

LEMMA SetLowerFollows ==
  ASSUME NEW w \in WorldType, NEW p, NEW t \in Tile
  PROVE  Follows(w, SetLower(w, p, t))
<1> DEFINE v == SetLower(w, p, t)
<1>1. v \in WorldType
  BY DEF WorldType, SetLower
<1>2. v.level = w.level /\ v.monsters = w.monsters /\ v.autopsy = w.autopsy
  BY DEF WorldType, SetLower
<1> QED
  BY <1>1, <1>2, FollowsAlike

LEMMA PushFollows ==
  ASSUME NEW w \in WorldType, NEW p \in Cell
  PROVE  Follows(w, Push(w, p))
<1>1. w.upper[p] \in Tile
  BY WorldParts
<1> QED
  BY <1>1, SetLowerFollows DEF Push

LEMMA PopFollows ==
  ASSUME NEW w \in WorldType, NEW p \in Cell
  PROVE  Follows(w, Pop(w, p))
<1> DEFINE v == SetUpper(w, p, w.lower[p])
<1>1. Follows(w, v)
  BY WorldParts, SetUpperFollows
<1>2. Floor \in Tile
  BY DEF Floor, Tile
<1>3. Follows(v, SetLower(v, p, Floor))
  BY <1>1, <1>2, SetLowerFollows DEF Follows
<1> HIDE DEF v
<1>4. Follows(w, SetLower(v, p, Floor))
  BY <1>1, <1>3, FollowsTwice
<1> QED
  BY <1>4 DEF Pop, v

LEMMA KillFollows ==
  ASSUME NEW w \in WorldType, NEW cause \in Autopsy \ {"NotDeadYet"}
  PROVE  Follows(w, Kill(w, cause))
<1> DEFINE v == Kill(w, cause)
<1>1. v \in WorldType
  BY DEF WorldType, Kill
<1>2. v.level = w.level /\ v.monsters = w.monsters /\ v.autopsy # "NotDeadYet"
  BY DEF WorldType, Kill
<1>3. Len(w.monsters) \in Nat
  BY WorldParts
<1> QED
  BY <1>1, <1>2, <1>3 DEF Follows

LEMMA CrashFollows ==
  ASSUME NEW w \in WorldType, NEW kind \in Fault
  PROVE  Follows(w, Crash(w, kind))
<1> DEFINE v == Crash(w, kind)
<1>1. v \in WorldType
  BY DEF WorldType, Crash
<1>2. v.level = w.level /\ v.monsters = w.monsters /\ v.autopsy = w.autopsy
  BY DEF WorldType, Crash
<1> QED
  BY <1>1, <1>2, FollowsAlike
-----------------------------------------------------------------------------
(***************************************************************************)
(* Traps.                                                                  *)
(***************************************************************************)
LEMMA SetTrapsFollows ==
  ASSUME NEW w \in WorldType, NEW S, NEW s \in BOOLEAN
  PROVE  Follows(w, SetTraps(w, S, s))
<1> DEFINE v == SetTraps(w, S, s)
           set == [i \in 1..Len(w.traps) |->
                     IF i \in S THEN [w.traps[i] EXCEPT !.shut = s] ELSE w.traps[i]]
<1>1. /\ Len(w.traps) \in Nat
      /\ \A i \in 1..Len(w.traps) : w.traps[i] \in TrapLink
  BY WorldParts
<1>2. ASSUME NEW i \in 1..Len(w.traps)
      PROVE  [w.traps[i] EXCEPT !.shut = s] \in TrapLink
  <2>1. w.traps[i] \in TrapLink
    BY <1>1
  <2> QED
    BY <2>1 DEF TrapLink
<1>3. set \in Seq(TrapLink)
  BY <1>1, <1>2
<1>4. v = [w EXCEPT !.traps = set]
  BY DEF SetTraps
<1> HIDE DEF set, v
<1>5. v \in WorldType
  BY <1>3, <1>4 DEF WorldType
<1>6. v.level = w.level /\ v.monsters = w.monsters /\ v.autopsy = w.autopsy
  BY <1>4 DEF WorldType
<1> QED
  BY <1>5, <1>6, FollowsAlike DEF v

LEMMA PressTrapButtonFollows ==
  ASSUME NEW w \in WorldType, NEW p
  PROVE  Follows(w, PressTrapButton(w, p))
BY FollowsSelf, SetTrapsFollows DEF PressTrapButton

LEMMA EnterTrapFollows ==
  ASSUME NEW w \in WorldType, NEW dest, NEW src
  PROVE  Follows(w, EnterTrap(w, dest, src))
<1> DEFINE shut == \A i \in FindTrapSpan(w, dest) :
                     \/ w.upper[w.traps[i].from] = TrapButton
                     \/ w.traps[i].from = src
<1>1. shut \in BOOLEAN
  OBVIOUS
<1>2. EnterTrap(w, dest, src) = SetTraps(w, FindTrapSpan(w, dest), shut)
  BY DEF EnterTrap
<1> HIDE DEF shut
<1> QED
  BY <1>1, <1>2, SetTrapsFollows
-----------------------------------------------------------------------------
(***************************************************************************)
(* The monster list and the slip list.                                     *)
(***************************************************************************)
LEMMA RemoveAtType ==
  ASSUME NEW T, NEW s \in Seq(T), NEW i \in 1..Len(s)
  PROVE  RemoveAt(s, i) \in Seq(T) /\ Len(RemoveAt(s, i)) = Len(s) - 1
<1>1. Len(s) \in Nat
  OBVIOUS
<1> DEFINE before == SubSeq(s, 1, i - 1)
           after == SubSeq(s, i + 1, Len(s))
<1>2. before \in Seq(T) /\ Len(before) = i - 1
  BY <1>1
<1>3. after \in Seq(T) /\ Len(after) = Len(s) - i
  BY <1>1
<1>5. RemoveAt(s, i) = before \o after
  BY DEF RemoveAt
<1> HIDE DEF before, after
<1>4. before \o after \in Seq(T) /\ Len(before \o after) = Len(before) + Len(after)
  BY <1>2, <1>3
<1>6. (i - 1) + (Len(s) - i) = Len(s) - 1
  BY <1>1
<1> QED
  BY <1>2, <1>3, <1>4, <1>5, <1>6

LEMMA SetMonsterFollows ==
  ASSUME NEW w \in WorldType, NEW i \in 1..Len(w.monsters), NEW m \in Monster
  PROVE  Follows(w, [w EXCEPT !.monsters[i] = m])
<1> DEFINE v == [w EXCEPT !.monsters[i] = m]
           set == [w.monsters EXCEPT ![i] = m]
<1>1. w.monsters \in Seq(Monster) /\ Len(w.monsters) \in Nat
  BY WorldParts
<1>2. set \in Seq(Monster) /\ Len(set) = Len(w.monsters)
  BY <1>1
<1>3. v.level = w.level /\ v.monsters = set /\ v.autopsy = w.autopsy
  BY DEF WorldType
<1>4. v \in WorldType
  BY <1>2 DEF WorldType
<1> QED
  BY <1>1, <1>2, <1>3, <1>4 DEF Follows

LEMMA UnmarkFollows ==
  ASSUME NEW w \in WorldType, NEW m \in 0..Len(w.monsters)
  PROVE  Follows(w, Unmark(w, m)) /\ Unmark(w, m).slips = w.slips
<1>1. CASE m = 0
  BY <1>1, CrashFollows DEF Unmark, Crash, Fault, WorldType
<1>2. CASE m # 0
  <2>1. Len(w.monsters) \in Nat /\ w.monsters[m] \in Monster
    BY <1>2, WorldParts
  <2>2. [w.monsters[m] EXCEPT !.slipping = FALSE] \in Monster
    BY <2>1 DEF Monster
  <2>3. Unmark(w, m) = [w EXCEPT !.monsters[m] = [w.monsters[m] EXCEPT !.slipping = FALSE]]
    BY <1>2 DEF Unmark
  <2>4. m \in 1..Len(w.monsters)
    BY <1>2, <2>1
  <2>5. Follows(w, Unmark(w, m))
    <3> DEFINE e == [w.monsters[m] EXCEPT !.slipping = FALSE]
    <3> HIDE DEF e
    <3>1. e \in Monster /\ Unmark(w, m) = [w EXCEPT !.monsters[m] = e]
      BY <2>2, <2>3 DEF e
    <3>2. Follows(w, [w EXCEPT !.monsters[m] = e])
      BY <2>4, <3>1, SetMonsterFollows
    <3> QED
      BY <3>1, <3>2
  <2>6. Unmark(w, m).slips = w.slips
    BY <2>3 DEF WorldType
  <2> QED
    BY <2>5, <2>6
<1> QED
  BY <1>1, <1>2

LEMMA SetSlipsFollows ==
  ASSUME NEW w \in WorldType, NEW s \in Seq(Slipper)
  PROVE  Follows(w, [w EXCEPT !.slips = s])
<1> DEFINE v == [w EXCEPT !.slips = s]
<1>1. v \in WorldType
  BY DEF WorldType
<1>2. v.level = w.level /\ v.monsters = w.monsters /\ v.autopsy = w.autopsy
  BY DEF WorldType
<1> QED
  BY <1>1, <1>2, FollowsAlike

LEMMA DeleteSlipperAtFollows ==
  ASSUME NEW w \in WorldType, NEW p
  PROVE  Follows(w, DeleteSlipperAt(w, p))
<1> DEFINE i == FindSlipper(w, p)
           u == IF w.slips[i].isblock THEN Unmark(w, FindMonster(w, p)) ELSE w
<1>1. /\ Len(w.slips) \in Nat /\ i \in 0..Len(w.slips)
      /\ FindMonster(w, p) \in 0..Len(w.monsters)
  BY Indices, WorldParts
<1>2. Follows(w, u) /\ u.slips = w.slips
  BY <1>1, UnmarkFollows, FollowsSelf
<1>3. DeleteSlipperAt(w, p) = IF i = 0 THEN w ELSE [u EXCEPT !.slips = RemoveAt(u.slips, i)]
  BY DEF DeleteSlipperAt
<1> HIDE DEF i, u
<1>4. CASE i = 0
  BY <1>3, <1>4, FollowsSelf
<1>5. CASE i # 0
  <2>1. u \in WorldType
    BY <1>2 DEF Follows
  <2>2. u.slips \in Seq(Slipper) /\ i \in 1..Len(u.slips)
    BY <1>1, <1>2, <1>5, WorldParts
  <2>3. RemoveAt(u.slips, i) \in Seq(Slipper)
    BY <2>2, RemoveAtType
  <2>4. Follows(u, DeleteSlipperAt(w, p))
    BY <1>3, <1>5, <2>1, <2>3, SetSlipsFollows
  <2> QED
    BY <1>2, <2>4, FollowsTwice
<1> QED
  BY <1>4, <1>5

LEMMA DeleteMonsterOutlives ==
  ASSUME NEW w \in WorldType, NEW i \in 1..Len(w.monsters)
  PROVE  Outlives(w, DeleteMonster(w, i))
<1> DEFINE u == IF w.monsters[i].slipping THEN DeleteSlipperAt(w, w.monsters[i].pos) ELSE w
           v == [u EXCEPT !.monsters = RemoveAt(u.monsters, i)]
<1>1. Follows(w, u)
  BY DeleteSlipperAtFollows, FollowsSelf
<1>2. v = DeleteMonster(w, i)
  BY DEF DeleteMonster
<1> HIDE DEF u
<1>3. /\ u \in WorldType /\ u.monsters \in Seq(Monster) /\ Len(u.monsters) \in Nat
      /\ Len(w.monsters) \in Nat /\ i \in 1..Len(u.monsters)
  BY <1>1, WorldParts DEF Follows
<1>4. /\ RemoveAt(u.monsters, i) \in Seq(Monster)
      /\ Len(RemoveAt(u.monsters, i)) = Len(u.monsters) - 1
  BY <1>3, RemoveAtType
<1>5. v \in WorldType
  BY <1>3, <1>4 DEF WorldType
<1>6. /\ v.level = u.level /\ v.autopsy = u.autopsy
      /\ v.monsters = RemoveAt(u.monsters, i)
  BY <1>3 DEF WorldType
<1> HIDE DEF v
<1>7. Outlives(w, v)
  BY <1>1, <1>3, <1>4, <1>5, <1>6 DEF Follows, Outlives
<1> QED
  BY <1>2, <1>7

LEMMA ArrivedFollows ==
  ASSUME NEW w \in WorldType, NEW p
  PROVE  Follows(w, Arrived(w, p))
BY EnterTrapFollows, KillFollows, FollowsSelf DEF Arrived, Autopsy

LEMMA PlaceMonsterFollows ==
  ASSUME NEW w \in WorldType, NEW t \in Tile, NEW p \in Cell, NEW d \in Dir
  PROVE  Follows(w, PlaceMonster(w, t, p, d))
<1> DEFINE entry == [tile |-> t, pos |-> p, dir |-> d, slipping |-> FALSE]
           u == IF w.upper[p] # t THEN Push(w, p) ELSE w
           v == [u EXCEPT !.monsters = Append(u.monsters, entry)]
           s == SetUpper(v, p, t)
<1>1. Follows(w, u)
  BY PushFollows, FollowsSelf
<1>2. PlaceMonster(w, t, p, d) = Arrived(s, p)
  BY DEF PlaceMonster
<1>3. entry \in Monster
  BY DEF Monster
<1> HIDE DEF u, entry
<1>4. u \in WorldType /\ u.monsters \in Seq(Monster) /\ Len(u.monsters) \in Nat
  BY <1>1, WorldParts DEF Follows
<1>5. /\ Append(u.monsters, entry) \in Seq(Monster)
      /\ Len(Append(u.monsters, entry)) = Len(u.monsters) + 1
  BY <1>3, <1>4
<1>6. v \in WorldType
  BY <1>4, <1>5 DEF WorldType
<1>7. v.level = u.level /\ v.autopsy = u.autopsy /\ v.monsters = Append(u.monsters, entry)
  BY <1>4 DEF WorldType
<1> HIDE DEF v
<1>8. Follows(u, v)
  BY <1>4, <1>5, <1>6, <1>7 DEF Follows
<1>9. Follows(v, s)
  BY <1>6, SetUpperFollows
<1> HIDE DEF s
<1>10. s \in WorldType /\ Follows(s, Arrived(s, p))
  BY <1>9, ArrivedFollows DEF Follows
<1> QED
  BY <1>1, <1>2, <1>4, <1>8, <1>9, <1>10, FollowsTwice

LEMMA NewMonsterFollows ==
  ASSUME NEW w \in WorldType, NEW t \in Tile, NEW p \in Cell, NEW d \in Dir,
         NEW cloning
  PROVE  Follows(w, NewMonster(w, t, p, d, cloning))
BY PlaceMonsterFollows, FollowsSelf DEF NewMonster

LEMMA ListMonsterFollows ==
  ASSUME NEW w \in WorldType, NEW p \in Cell
  PROVE  Follows(w, ListMonster(w, p))
<1>1. w.upper[p] \in Tile
  BY WorldParts
<1>2. TileDir(w.upper[p]) \in Dir
  BY <1>1, TileDirType
<1> QED
  BY <1>1, <1>2, NewMonsterFollows, FollowsSelf DEF ListMonster

LEMMA ReadBoardType ==
  ASSUME NEW n \in 1..Len(Levels)
  PROVE  ReadBoard(n) \in WorldType /\ ReadBoard(n).level = n
<1>1. /\ Levels[n].upper \in [Cell -> Tile] /\ Levels[n].lower \in [Cell -> Tile]
      /\ Levels[n].traps \in Seq(TrapLink)
  BY LevelParts
<1>2. "NotDeadYet" \in Autopsy /\ "none" \in Fault
  BY DEF Autopsy, Fault
<1>3. <<>> \in Seq(Monster) /\ <<>> \in Seq(Slipper)
  OBVIOUS
<1> QED
  BY <1>1, <1>2, <1>3 DEF ReadBoard, WorldType

\* Whatever its monster list names, a level that is read is a world.
LEMMA InitBoardType ==
  ASSUME NEW n \in 1..Len(Levels)
  PROVE  InitBoard(n) \in WorldType /\ InitBoard(n).level = n
<1> DEFINE V == {w \in WorldType : w.level = n}
           cells == Levels[n].monsters
           len == Len(cells)
           base == ReadBoard(n)
           step == [k \in 1..len |-> [w \in V |-> ListMonster(w, cells[k])]]
           listed == CHOOSE f : f = [k \in 0..len |-> IF k = 0 THEN base
                                                    ELSE ListMonster(f[k - 1], cells[k])]
<1>1. len \in Nat /\ \A k \in 1..len : cells[k] \in Cell
  BY LevelParts
<1>2. base \in V
  BY ReadBoardType
<1>3. \A w \in V, k \in 1..len : ListMonster(w, cells[k]) \in V
  BY <1>1, ListMonsterFollows DEF Follows
<1>4. InitBoard(n) = listed[len]
  BY DEF InitBoard, Looped
<1> HIDE DEF V, cells, len, base
<1>5. step \in Steps(V, len)
  BY <1>3 DEF Steps
<1>6. \A w \in V, k \in 1..len : step[k][w] = ListMonster(w, cells[k])
  OBVIOUS
<1> HIDE DEF step
<1>7. PICK f : IsRun(f, V, len, base, step)
  BY <1>1, <1>2, <1>5, RunExists
<1>8. f = [k \in 0..len |-> IF k = 0 THEN base ELSE ListMonster(f[k - 1], cells[k])]
  <2>1. \A k \in 1..len : f[k - 1] \in V
    BY <1>1, <1>7 DEF IsRun
  <2> QED
    BY <1>1, <1>6, <1>7, <2>1 DEF IsRun
<1>9. listed = [k \in 0..len |-> IF k = 0 THEN base ELSE ListMonster(listed[k - 1], cells[k])]
  BY <1>8
<1> HIDE DEF listed
<1>10. listed[0] \in V
  BY <1>1, <1>2, <1>9
<1>11. ASSUME NEW k \in 0..(len - 1), listed[k] \in V PROVE listed[k + 1] \in V
  <2>1. k + 1 \in 1..len /\ (k + 1) - 1 = k
    BY <1>1
  <2>2. listed[k + 1] = ListMonster(listed[k], cells[k + 1])
    BY <1>1, <1>9, <2>1
  <2> QED
    BY <1>3, <1>11, <2>1, <2>2
<1>12. listed[len] \in V
  BY <1>1, <1>10, <1>11, RunStays
<1> QED
  BY <1>4, <1>12 DEF V
-----------------------------------------------------------------------------
(***************************************************************************)
(* Buttons.                                                                *)
(***************************************************************************)
LEMMA ToggledType == \A t \in Tile : Toggled(t) \in Tile
BY DEF Toggled, Tile, ToggleWall, ToggleFloor

LEMMA PressToggleButtonFollows ==
  ASSUME NEW w \in WorldType
  PROVE  Follows(w, PressToggleButton(w))
<1> DEFINE flip(layer) == [c \in Cell |-> IF c \in ToggleCells[w.level]
                                         THEN Toggled(layer[c]) ELSE layer[c]]
           v == [w EXCEPT !.upper = flip(w.upper), !.lower = flip(w.lower)]
<1>1. \A layer \in [Cell -> Tile] : flip(layer) \in [Cell -> Tile]
  BY ToggledType
<1>2. v = PressToggleButton(w)
  BY DEF PressToggleButton
<1> HIDE DEF flip
<1>3. flip(w.upper) \in [Cell -> Tile] /\ flip(w.lower) \in [Cell -> Tile]
  BY <1>1, WorldParts
<1>4. v \in WorldType
  BY <1>3 DEF WorldType
<1>5. v.level = w.level /\ v.monsters = w.monsters /\ v.autopsy = w.autopsy
  BY DEF WorldType
<1> HIDE DEF v
<1> QED
  BY <1>2, <1>4, <1>5, FollowsAlike

LEMMA ReverseTileType == \A t \in Tile : ReverseTile(t) \in Tile
BY FacingType DEF ReverseTile

LEMMA PressTankButtonFollows ==
  ASSUME NEW w \in WorldType
  PROVE  Follows(w, PressTankButton(w))
<1> DEFINE turned(m) == IF Kind(m.tile) = Tank
                        THEN [m EXCEPT !.tile = ReverseTile(m.tile),
                                       !.dir = TurnAround(TileDir(m.tile))]
                        ELSE m
           monsters == [i \in 1..Len(w.monsters) |-> turned(w.monsters[i])]
           upper == [c \in Cell |->
                       IF TanksAt(w, c) = {} THEN w.upper[c]
                       ELSE ReverseTile(w.monsters[Greatest(TanksAt(w, c))].tile)]
           v == [w EXCEPT !.monsters = monsters, !.upper = upper]
<1>1. v = PressTankButton(w)
  BY DEF PressTankButton
<1>2. ASSUME NEW m \in Monster PROVE turned(m) \in Monster
  <2>1. m.tile \in Tile /\ ReverseTile(m.tile) \in Tile
    BY ReverseTileType DEF Monster
  <2>2. TurnAround(TileDir(m.tile)) \in Dir
    BY <2>1, TileDirType, TurnsAreDirections
  <2> QED
    BY <2>1, <2>2 DEF Monster
<1>3. /\ Len(w.monsters) \in Nat
      /\ \A i \in 1..Len(w.monsters) : w.monsters[i] \in Monster
  BY WorldParts
<1>4. monsters \in Seq(Monster) /\ Len(monsters) = Len(w.monsters)
  <2> HIDE DEF turned
  <2> QED
    BY <1>2, <1>3
<1>5. upper \in [Cell -> Tile]
  <2>1. ASSUME NEW c \in Cell, TanksAt(w, c) # {}
        PROVE  ReverseTile(w.monsters[Greatest(TanksAt(w, c))].tile) \in Tile
    <3>1. Greatest(TanksAt(w, c)) \in TanksAt(w, c) /\ TanksAt(w, c) \subseteq 1..Len(w.monsters)
      <4>1. TanksAt(w, c) \subseteq 1..Len(w.monsters)
        BY DEF TanksAt
      <4> QED
        BY <1>3, <2>1, <4>1, GreatestIndex
    <3>2. w.monsters[Greatest(TanksAt(w, c))] \in Monster
      BY <1>3, <3>1
    <3> QED
      BY <3>2, ReverseTileType DEF Monster
  <2>2. w.upper \in [Cell -> Tile]
    BY WorldParts
  <2> QED
    BY <2>1, <2>2
<1> HIDE DEF monsters, upper
<1>6. v \in WorldType
  BY <1>4, <1>5 DEF WorldType
<1>7. v.level = w.level /\ v.monsters = monsters /\ v.autopsy = w.autopsy
  BY DEF WorldType
<1> HIDE DEF v
<1>8. Follows(w, v)
  BY <1>3, <1>4, <1>6, <1>7 DEF Follows
<1> QED
  BY <1>1, <1>8
-----------------------------------------------------------------------------
(***************************************************************************)
(* The second part: moves.                                                 *)
(***************************************************************************)
Facing == Tile \cup {Keep}

LEMMA LaterWorld ==
  ASSUME NEW w, NEW v, Follows(w, v)
  PROVE  /\ v \in WorldType /\ v.level = w.level
         /\ v.upper \in [Cell -> Tile] /\ v.lower \in [Cell -> Tile]
BY WorldParts DEF Follows
-----------------------------------------------------------------------------
(***************************************************************************)
(* SlideMovement.                                                          *)
(***************************************************************************)
LEMMA ListSlipperFollows ==
  ASSUME NEW w \in WorldType, NEW i \in 0..Len(w.slips), NEW src \in Cell,
         NEW dst \in Cell, NEW nd \in Dir, NEW isMonster \in BOOLEAN, NEW f \in Facing
  PROVE  Follows(w, ListSlipper(w, i, src, dst, nd, isMonster, f))
<1> DEFINE entry == [tile |-> IF f = Keep THEN w.upper[src] ELSE f,
                     pos |-> dst, dir |-> nd, isblock |-> isMonster]
           slips == IF i = 0 THEN Append(w.slips, entry) ELSE [w.slips EXCEPT ![i] = entry]
<1>1. /\ w.upper[src] \in Tile /\ w.slips \in Seq(Slipper) /\ Len(w.slips) \in Nat
  BY WorldParts
<1>2. entry \in Slipper
  BY <1>1 DEF Slipper, Facing
<1>3. ListSlipper(w, i, src, dst, nd, isMonster, f) = [w EXCEPT !.slips = slips]
  BY DEF ListSlipper
<1> HIDE DEF entry
<1>4. slips \in Seq(Slipper)
  BY <1>1, <1>2
<1> QED
  BY <1>3, <1>4, SetSlipsFollows

LEMMA MarkSlippingFollows ==
  ASSUME NEW w \in WorldType, NEW m \in 0..Len(w.monsters), NEW f \in Facing
  PROVE  Follows(w, MarkSlipping(w, m, f))
<1>1. CASE m = 0
  BY <1>1, CrashFollows DEF MarkSlipping, Fault
<1>2. CASE m # 0
  <2> DEFINE marked == Marked(w.monsters[m], f)
  <2>1. m \in 1..Len(w.monsters) /\ w.monsters[m] \in Monster
    BY <1>2, WorldParts
  <2>2. marked \in Monster
    BY <2>1 DEF Marked, Monster, Facing
  <2>3. MarkSlipping(w, m, f) = [w EXCEPT !.monsters[m] = marked]
    BY <1>2 DEF MarkSlipping
  <2> QED
    BY <2>1, <2>2, <2>3, SetMonsterFollows
<1> QED
  BY <1>1, <1>2

\* What a slide hands back: the world, the direction, the facing.
SlideResult(w, s) ==
  /\ Follows(w, s.w) /\ s.d \in Dir /\ s.facing \in Facing

LEMMA SlideOntoType ==
  ASSUME NEW w \in WorldType, NEW i \in 0..Len(w.slips), NEW src \in Cell,
         NEW dst \in Cell, NEW nd \in Dir, NEW isMonster \in BOOLEAN, NEW f \in Facing
  PROVE  SlideResult(w, SlideOnto(w, i, src, dst, nd, isMonster, f))
<1> DEFINE listed == ListSlipper(w, i, src, dst, nd, isMonster, f)
           m == FindMonster(w, src)
           u == IF isMonster THEN MarkSlipping(listed, m, f) ELSE listed
<1>1. SlideOnto(w, i, src, dst, nd, isMonster, f) = [w |-> u, d |-> nd, facing |-> f]
  BY DEF SlideOnto
<1>2. Follows(w, listed)
  BY ListSlipperFollows
<1> HIDE DEF listed
<1>3. listed \in WorldType /\ m \in 0..Len(listed.monsters)
  <2>1. /\ m \in 0..Len(w.monsters) /\ Len(w.monsters) \in Nat
        /\ listed \in WorldType /\ Len(listed.monsters) >= Len(w.monsters)
    BY <1>2, Indices, WorldParts DEF Follows
  <2> QED
    BY <2>1, WorldParts
<1> HIDE DEF m
<1>4. Follows(w, u)
  BY <1>2, <1>3, MarkSlippingFollows, FollowsTwice
<1> HIDE DEF u
<1> QED
  BY <1>1, <1>4 DEF SlideResult

LEMMA SlideType ==
  ASSUME NEW w \in WorldType, NEW src \in Cell, NEW dst \in Cell, NEW d \in Dir,
         NEW isMonster \in BOOLEAN, NEW facing \in Facing, NEW rnd \in Dir
  PROVE  SlideResult(w, Slide(w, src, dst, d, isMonster, facing, rnd))
<1> DEFINE i == FindSlipper(w, src)
           old == IF i = 0 THEN rnd ELSE w.slips[i].dir
           nd == SlideDir(SlideTile(w, src, dst), d, old, rnd)
           f == IF isMonster /\ facing # Keep THEN SetTileDir(facing, d) ELSE facing
<1>1. i \in 0..Len(w.slips) /\ Len(w.slips) \in Nat
  BY Indices, WorldParts
<1>2. old \in Dir
  <2>1. CASE i = 0
    BY <2>1
  <2>2. CASE i # 0
    <3>1. w.slips[i] \in Slipper
      BY <1>1, <2>2, WorldParts
    <3> QED
      BY <2>2, <3>1 DEF Slipper
  <2> QED
    BY <2>1, <2>2
<1>3. nd \in Dir
  BY <1>2, SlideDirType
<1>4. f \in Facing
  BY FacingType DEF Facing
<1>5. Slide(w, src, dst, d, isMonster, facing, rnd) =
        IF i = 0 /\ Len(w.slips) >= SlipLimit
        THEN [w |-> w, d |-> d, facing |-> facing]
        ELSE SlideOnto(w, i, src, dst, nd, isMonster, f)
  BY DEF Slide
<1> HIDE DEF i, old, nd, f
<1>6. SlideResult(w, SlideOnto(w, i, src, dst, nd, isMonster, f))
  BY <1>1, <1>3, <1>4, SlideOntoType
<1>7. SlideResult(w, [w |-> w, d |-> d, facing |-> facing])
  BY FollowsSelf DEF SlideResult
<1> QED
  BY <1>5, <1>6, <1>7
-----------------------------------------------------------------------------
(***************************************************************************)
(* Teleports and clone machines lead to cells of the board.                *)
(***************************************************************************)
LEMMA TeleportsBackType ==
  ASSUME NEW w \in WorldType, NEW start
  PROVE  /\ TeleportsBack(w, start) \in SUBSET Nat
         /\ \A k \in TeleportsBack(w, start) : CellBack(start, k) \in Cell
<1>1. Teleports[w.level] \in SUBSET Cell
  BY WorldParts DEF Teleports
<1>2. Width * Height - 1 \in Int
  BY WorldAssumption
<1>3. TeleportsBack(w, start) \in SUBSET Nat
  BY <1>2 DEF TeleportsBack
<1>4. \A k \in TeleportsBack(w, start) : CellBack(start, k) \in Teleports[w.level]
  BY DEF TeleportsBack
<1> QED
  BY <1>1, <1>3, <1>4

LEMMA TeleportToType ==
  ASSUME NEW w \in WorldType, NEW start \in Cell, NEW d, NEW open
  PROVE  TeleportTo(w, start, d, open) \in Cell
<1> DEFINE Works(p) == w.upper[p] = Teleport /\ Step(p, d) \in open
           working == {k \in TeleportsBack(w, start) : Works(CellBack(start, k))}
<1>1. working \in SUBSET Nat /\ \A k \in working : CellBack(start, k) \in Cell
  BY TeleportsBackType
<1>2. TeleportTo(w, start, d, open) =
        IF working = {} THEN start ELSE CellBack(start, First(working))
  BY DEF TeleportTo
<1> HIDE DEF working
<1> QED
  BY <1>1, <1>2, FirstType

LEMMA FindCloneMachineType ==
  ASSUME NEW w \in WorldType, NEW b
  PROVE  FindCloneMachine(w, b) \in Cell \cup {NoCell}
<1> DEFINE links == Levels[w.level].clones
           i == First({k \in 1..Len(links) : links[k].from = b})
<1>1. links \in Seq(Link)
  BY WorldParts, LevelParts
<1>2. FindCloneMachine(w, b) = IF i = 0 THEN NoCell ELSE links[i].to
  BY DEF FindCloneMachine
<1> HIDE DEF links
<1>3. Len(links) \in Nat /\ \A k \in 1..Len(links) : links[k] \in Link
  BY <1>1
<1>4. i \in 0..Len(links)
  BY <1>3, FirstIndex
<1> HIDE DEF i
<1>5. CASE i = 0
  BY <1>2, <1>5
<1>6. CASE i # 0
  <2>1. links[i] \in Link
    BY <1>3, <1>4, <1>6
  <2> QED
    BY <1>2, <1>6, <2>1 DEF Link
<1> QED
  BY <1>5, <1>6

LEMMA CloneMonsterFollows ==
  ASSUME NEW w \in WorldType, NEW m \in Cell
  PROVE  Follows(w, CloneMonster(w, m))
<1>1. w.upper[m] \in Tile
  BY WorldParts
<1>2. TileDir(w.upper[m]) \in Dir
  BY <1>1, TileDirType
<1> QED
  BY <1>1, <1>2, NewMonsterFollows, FollowsSelf DEF CloneMonster, CloneFacing

LEMMA BlockOutType ==
  ASSUME NEW w \in WorldType, NEW b
  PROVE  BlockOut(w, b) # NoCell =>
           BlockOut(w, b) \in Cell /\ CloneBlockDir(w.upper[BlockOut(w, b)]) \in Dir
BY FindCloneMachineType, CloneBlockDirType DEF BlockOut, Dir

LEMMA PressFollows ==
  ASSUME NEW w \in WorldType, NEW b
  PROVE  Follows(w, Press(w, b))
<1> DEFINE m == FindCloneMachine(w, b)
           clone == IF m # NoCell /\ w.upper[m] \in Monsters THEN CloneMonster(w, m) ELSE w
<1>1. Follows(w, clone)
  BY FindCloneMachineType, CloneMonsterFollows, FollowsSelf
<1>2. /\ Follows(w, PressToggleButton(w)) /\ Follows(w, PressTankButton(w))
      /\ Follows(w, PressTrapButton(w, b)) /\ Follows(w, w)
  BY PressToggleButtonFollows, PressTankButtonFollows, PressTrapButtonFollows, FollowsSelf
<1>3. Press(w, b) \in {PressToggleButton(w), PressTrapButton(w, b), PressTankButton(w),
                       clone, w}
  BY Zenon DEF Press
<1> HIDE DEF clone
<1> QED
  BY <1>1, <1>2, <1>3
-----------------------------------------------------------------------------
(***************************************************************************)
(* The parts of a move.                                                    *)
(***************************************************************************)
LEMMA CoverForFollows ==
  ASSUME NEW w \in WorldType, NEW acts, NEW act, NEW dst \in Cell
  PROVE  Follows(w, CoverFor(w, acts, act, dst))
BY PushFollows, FollowsSelf DEF CoverFor

LEMMA ShutForFollows ==
  ASSUME NEW w \in WorldType, NEW act, NEW dst, NEW src
  PROVE  Follows(w, ShutFor(w, act, dst, src))
BY EnterTrapFollows, FollowsSelf DEF ShutFor

LEMMA UnslipForFollows ==
  ASSUME NEW w \in WorldType, NEW acts, NEW act, NEW src
  PROVE  Follows(w, UnslipFor(w, acts, act, src))
BY DeleteSlipperAtFollows, FollowsSelf DEF UnslipFor

LEMMA UncoverFollows ==
  ASSUME NEW w \in WorldType, NEW src \in Cell
  PROVE  Follows(w, Uncover(w, src))
BY PopFollows, FollowsSelf DEF Uncover

LEMMA AppearForFollows ==
  ASSUME NEW w \in WorldType, NEW act, NEW dst, NEW t \in Tile
  PROVE  Follows(w, AppearFor(w, act, dst, t))
BY SetUpperFollows, FollowsSelf DEF AppearFor

LEMMA SlipForFollows ==
  ASSUME NEW w \in WorldType, NEW src \in Cell, NEW dst \in Cell, NEW d \in Dir,
         NEW act, NEW tile \in Facing, NEW rnd \in Dir
  PROVE  Follows(w, SlipFor(w, src, dst, d, act, tile, rnd))
BY SlideType, FollowsSelf DEF SlipFor, SlideResult

LEMMA CarryBlockFollows ==
  ASSUME NEW w \in WorldType, NEW src \in Cell, NEW dst \in Cell, NEW d \in Dir,
         NEW act, NEW tile \in Facing, NEW rnd \in Dir
  PROVE  Follows(w, CarryBlock(w, src, dst, d, act, tile, rnd))
<1> DEFINE top == IF act = 2 THEN Dirt ELSE IF act = 5 THEN Floor
                  ELSE IF tile = Keep THEN w.upper[src] ELSE tile
           w1 == SlipFor(w, src, dst, d, act, tile, rnd)
           w2 == ShutFor(w1, act, dst, src)
           w3 == CoverFor(w2, {1, 4, 6, 7}, act, dst)
           w4 == UnslipFor(w3, {4, 6, 7}, act, src)
           w5 == SetUpper(w4, dst, top)
           w6 == Uncover(w5, src)
<1>1. CarryBlock(w, src, dst, d, act, tile, rnd) = w6
  BY DEF CarryBlock
<1>2. top \in Tile
  <2>1. w.upper[src] \in Tile /\ Dirt \in Tile /\ Floor \in Tile
    BY WorldParts DEF Tile, Dirt, Floor
  <2> QED
    BY <2>1 DEF Facing
<1> HIDE DEF top
<1>3. Follows(w, w1)
  BY SlipForFollows
<1> HIDE DEF w1
<1>4. Follows(w, w2)
  BY <1>3, LaterWorld, ShutForFollows, FollowsTwice
<1> HIDE DEF w2
<1>5. Follows(w, w3)
  BY <1>4, LaterWorld, CoverForFollows, FollowsTwice
<1> HIDE DEF w3
<1>6. Follows(w, w4)
  BY <1>5, LaterWorld, UnslipForFollows, FollowsTwice
<1> HIDE DEF w4
<1>7. Follows(w, w5)
  BY <1>2, <1>6, LaterWorld, SetUpperFollows, FollowsTwice
<1> HIDE DEF w5
<1>8. Follows(w, w6)
  BY <1>7, LaterWorld, UncoverFollows, FollowsTwice
<1> QED
  BY <1>1, <1>8

LEMMA CarryMonsterFollows ==
  ASSUME NEW w \in WorldType, NEW src \in Cell, NEW dst \in Cell, NEW act,
         NEW t \in Tile
  PROVE  Follows(w, CarryMonster(w, src, dst, act, t))
<1> DEFINE w1 == ShutFor(w, act, dst, src)
           w2 == CoverFor(w1, {0, 1, 4, 6, 7}, act, dst)
           w3 == UnslipFor(w2, {4, 7}, act, src)
           w4 == AppearFor(w3, act, dst, t)
           w5 == Uncover(w4, src)
<1>1. CarryMonster(w, src, dst, act, t) = w5
  BY DEF CarryMonster
<1>2. Follows(w, w1)
  BY ShutForFollows
<1> HIDE DEF w1
<1>3. Follows(w, w2)
  BY <1>2, LaterWorld, CoverForFollows, FollowsTwice
<1> HIDE DEF w2
<1>4. Follows(w, w3)
  BY <1>3, LaterWorld, UnslipForFollows, FollowsTwice
<1> HIDE DEF w3
<1>5. Follows(w, w4)
  BY <1>4, LaterWorld, AppearForFollows, FollowsTwice
<1> HIDE DEF w4
<1>6. Follows(w, w5)
  BY <1>5, LaterWorld, UncoverFollows, FollowsTwice
<1> QED
  BY <1>1, <1>6
-----------------------------------------------------------------------------
(***************************************************************************)
(* MoveBlock.                                                              *)
(***************************************************************************)
Floors == Dir \X Dir

\* What a block's move hands back: a world, whether it moved, the action code
\* and the cell it is at.
BlockResult(w, r) ==
  /\ r = [w |-> r.w, ok |-> r.ok, act |-> r.act, at |-> r.at]
  /\ Follows(w, r.w) /\ r.at \in Cell

\* Only the world changes after the block has landed.
LEMMA BlockThen ==
  ASSUME NEW w \in WorldType, NEW r, BlockResult(w, r), NEW v, Follows(r.w, v)
  PROVE  BlockResult(w, [r EXCEPT !.w = v])
<1> DEFINE s == [r EXCEPT !.w = v]
<1>1. s = [w |-> v, ok |-> r.ok, act |-> r.act, at |-> r.at]
  BY DEF BlockResult
<1>2. Follows(w, v)
  BY FollowsTwice DEF BlockResult
<1> HIDE DEF s
<1>3. BlockResult(w, s)
  BY <1>1, <1>2 DEF BlockResult
<1> QED
  BY <1>3 DEF s

LEMMA BlockStepType ==
  ASSUME NEW w \in WorldType, NEW src \in Cell, NEW d \in Dir, NEW tile \in Facing,
         NEW rnd \in Dir
  PROVE  BlockResult(w, BlockStep(w, src, d, tile, rnd))
<1> DEFINE act == BlockAct(w, src, d)
           dst == BlockDest(w, src, d, act)
<1>1. BlockStep(w, src, d, tile, rnd) = BlockGoes(w, src, d, act, tile, rnd)
  BY DEF BlockStep
<1>2. CASE act = Refused
  <2>1. BlockGoes(w, src, d, act, tile, rnd) =
          [w |-> DeleteSlipperAt(w, src), ok |-> FALSE, act |-> 0, at |-> src]
    BY <1>2 DEF BlockGoes
  <2> QED
    BY <1>1, <2>1, DeleteSlipperAtFollows DEF BlockResult
<1>3. CASE act # Refused
  <2>1. Step(src, d) \in Cell
    BY <1>3 DEF BlockAct, CanLeave
  <2>2. dst \in Cell
    BY <2>1, TeleportToType DEF BlockDest
  <2>3. BlockGoes(w, src, d, act, tile, rnd) =
          [w |-> CarryBlock(w, src, dst, d, act, tile, rnd), ok |-> TRUE,
           act |-> act, at |-> dst]
    BY <1>3 DEF BlockGoes, BlockLands
  <2> HIDE DEF act, dst
  <2>4. Follows(w, CarryBlock(w, src, dst, d, act, tile, rnd))
    BY <2>2, CarryBlockFollows
  <2> QED
    BY <1>1, <2>2, <2>3, <2>4 DEF BlockResult
<1> QED
  BY <1>2, <1>3

LEMMA SquishType ==
  ASSUME NEW w \in WorldType, NEW r, BlockResult(w, r)
  PROVE  BlockResult(w, Squish(r))
<1>1. Follows(r.w, Kill(r.w, "Squished"))
  BY LaterWorld, KillFollows DEF BlockResult, Autopsy
<1> QED
  BY <1>1, BlockThen DEF Squish

LEMMA HitAtOnceType ==
  ASSUME NEW w \in WorldType, NEW r, BlockResult(w, r)
  PROVE  BlockResult(w, HitAtOnce(r))
<1> DEFINE v == IF BlockOut(r.w, r.at) # NoCell THEN Crash(r.w, "cloneDepth")
                ELSE Press(r.w, r.at)
<1>1. Follows(r.w, v)
  BY LaterWorld, CrashFollows, PressFollows DEF BlockResult, Fault
<1>2. HitAtOnce(r) = IF ~HitsButton(r) THEN r ELSE [r EXCEPT !.w = v]
  BY DEF HitAtOnce
<1> HIDE DEF v
<1> QED
  BY <1>1, <1>2, BlockThen

LEMMA MoveClonedBlockFollows ==
  ASSUME NEW w \in WorldType, NEW src \in Cell, NEW d \in Dir, NEW tile \in Facing,
         NEW rnd \in Dir
  PROVE  Follows(w, MoveClonedBlock(w, src, d, tile, rnd))
<1> DEFINE r == Squish(HitAtOnce(BlockStep(w, src, d, tile, rnd)))
<1>1. BlockResult(w, r)
  BY BlockStepType, HitAtOnceType, SquishType
<1>2. MoveClonedBlock(w, src, d, tile, rnd) = r.w
  BY DEF MoveClonedBlock
<1> QED
  BY <1>1, <1>2 DEF BlockResult

LEMMA PressButtonFollows ==
  ASSUME NEW w \in WorldType, NEW b, NEW rnd \in Dir
  PROVE  Follows(w, PressButton(w, b, rnd))
<1> DEFINE m == BlockOut(w, b)
<1>1. Block \in Facing
  BY DEF Block, Facing, Tile
<1>2. m # NoCell => m \in Cell /\ CloneBlockDir(w.upper[m]) \in Dir
  BY BlockOutType
<1> HIDE DEF m
<1>3. Follows(w, PressFor(w, b, m, rnd))
  BY <1>1, <1>2, PressFollows, MoveClonedBlockFollows DEF PressFor
<1> QED
  BY <1>3 DEF PressButton, m

LEMMA HitType ==
  ASSUME NEW w \in WorldType, NEW r, BlockResult(w, r), NEW rnd \in Dir
  PROVE  BlockResult(w, Hit(r, rnd))
<1>1. Follows(r.w, PressButton(r.w, r.at, rnd))
  BY LaterWorld, PressButtonFollows DEF BlockResult
<1> QED
  BY <1>1, BlockThen DEF Hit

LEMMA MoveBlockType ==
  ASSUME NEW w \in WorldType, NEW src \in Cell, NEW d \in Dir, NEW tile \in Facing,
         NEW rnd \in Floors
  PROVE  BlockResult(w, MoveBlock(w, src, d, tile, rnd))
<1>1. rnd[1] \in Dir /\ rnd[2] \in Dir
  BY DEF Floors
<1> QED
  BY <1>1, BlockStepType, HitType, SquishType DEF MoveBlock

\* As MoveChip calls it, hit is a cell of the board where one is hit.
LEMMA PushBlockType ==
  ASSUME NEW w \in WorldType, NEW src \in Cell, NEW d \in Dir, NEW rnd \in Floors
  PROVE  Follows(w, PushBlock(w, src, d, rnd).w)
<1> DEFINE r == Squish(BlockStep(w, src, d, Keep, rnd[1]))
<1>1. rnd[1] \in Dir /\ Keep \in Facing
  BY DEF Floors, Facing
<1>2. BlockResult(w, r)
  BY <1>1, BlockStepType, SquishType
<1>3. PushBlock(w, src, d, rnd).w = r.w
  BY DEF PushBlock, Noted
<1> QED
  BY <1>2, <1>3 DEF BlockResult
-----------------------------------------------------------------------------
(***************************************************************************)
(* MoveMonster.  A direction that was never written (see StackDirs) is one *)
(* that leads off the board, and comes back as it was.                     *)
(***************************************************************************)
MonsterActs == {Refused, 0, 1} \cup {ActionOn(t, ForMonster) : t \in Tile}

MonsterResult(w, d, r) ==
  /\ r.dead \in BOOLEAN /\ r.act \in MonsterActs
  /\ r = [w |-> r.w, ok |-> r.ok, dead |-> r.dead, act |-> r.act, at |-> r.at, d |-> r.d]
  /\ Follows(w, r.w) /\ r.at \in Cell
  /\ r.ok \in BOOLEAN /\ (r.ok => r.d \in Dir) /\ (~r.ok => r.d = d)

LEMMA MonsterThen ==
  ASSUME NEW w \in WorldType, NEW d, NEW r, MonsterResult(w, d, r),
         NEW v, Follows(r.w, v)
  PROVE  MonsterResult(w, d, [r EXCEPT !.w = v])
<1> DEFINE s == [r EXCEPT !.w = v]
<1>1. s = [w |-> v, ok |-> r.ok, dead |-> r.dead, act |-> r.act, at |-> r.at, d |-> r.d]
  BY DEF MonsterResult
<1>2. Follows(w, v)
  BY FollowsTwice DEF MonsterResult
<1> HIDE DEF s
<1>3. MonsterResult(w, d, s)
  BY <1>1, <1>2 DEF MonsterResult
<1> QED
  BY <1>3 DEF s

LEMMA MonsterStepType ==
  ASSUME NEW w \in WorldType, NEW src \in Cell, NEW d,
         d \in Dir \/ Step(src, d) \notin Cell, NEW facing \in Tile, NEW rnd \in Dir
  PROVE  MonsterResult(w, d, MonsterStep(w, src, d, facing, rnd))
<1> DEFINE act == MonsterAct(w, src, d)
           dst == MonsterDest(w, src, d, act)
           s == IF act \in {4, 7} THEN Slide(w, src, dst, d, TRUE, facing, rnd)
                ELSE [w |-> w, d |-> d, facing |-> facing]
           shown == IF s.facing = Keep THEN w.upper[src] ELSE s.facing
           t == IF act = 5 THEN Floor ELSE shown
           v == CarryMonster(s.w, src, dst, act, t)
<1>1. MonsterStep(w, src, d, facing, rnd) = MonsterGoes(w, src, d, act, facing, rnd)
  BY DEF MonsterStep
<1>2. CASE act = Refused
  <2>1. MonsterGoes(w, src, d, act, facing, rnd) =
          [w |-> DeleteSlipperAt(w, src), ok |-> FALSE, dead |-> FALSE, act |-> 0,
           at |-> src, d |-> d]
    BY <1>2 DEF MonsterGoes
  <2> QED
    BY <1>1, <2>1, DeleteSlipperAtFollows DEF MonsterResult, MonsterActs
<1>3. CASE act # Refused
  <2>1. Step(src, d) \in Cell /\ act \in MonsterActs
    <3>1. Step(src, d) \in Cell /\ act = MonsterCanEnter(w, w.upper[src], Step(src, d), d)
      BY <1>3 DEF MonsterAct, CanLeave
    <3>2. w.upper[Step(src, d)] \in Tile /\ w.lower[Step(src, d)] \in Tile
      BY <3>1, WorldParts
    <3>3. \A t1 \in Tile : ActionOn(t1, ForMonster) \in MonsterActs
      BY DEF MonsterActs
    <3>4. 1 \in MonsterActs /\ Refused \in MonsterActs
      BY DEF MonsterActs
    <3> QED
      BY <3>1, <3>2, <3>3, <3>4 DEF MonsterCanEnter
  <2>2. dst \in Cell /\ d \in Dir
    BY <2>1, TeleportToType DEF MonsterDest
  <2>3. MonsterGoes(w, src, d, act, facing, rnd) =
          [w |-> v, ok |-> TRUE, dead |-> act \in {2, 5}, act |-> act, at |-> dst,
           d |-> s.d]
    BY <1>3 DEF MonsterGoes, MonsterLeaves, MonsterLands
  <2> HIDE DEF act, dst
  <2>4. SlideResult(w, s)
    <3>1. facing \in Facing
      BY DEF Facing
    <3>2. SlideResult(w, Slide(w, src, dst, d, TRUE, facing, rnd))
      BY <2>2, <3>1, SlideType
    <3>3. SlideResult(w, [w |-> w, d |-> d, facing |-> facing])
      BY <2>2, <3>1, FollowsSelf DEF SlideResult
    <3> QED
      BY <3>2, <3>3
  <2> HIDE DEF s
  <2>5. t \in Tile
    <3>1. w.upper[src] \in Tile /\ Floor \in Tile
      BY WorldParts DEF Floor, Tile
    <3> QED
      BY <2>4, <3>1 DEF SlideResult, Facing
  <2> HIDE DEF t
  <2>6. Follows(w, v)
    BY <2>2, <2>4, <2>5, LaterWorld, CarryMonsterFollows, FollowsTwice DEF SlideResult
  <2> HIDE DEF v
  <2> QED
    BY <1>1, <2>1, <2>2, <2>3, <2>4, <2>6 DEF MonsterResult, SlideResult
<1> QED
  BY <1>2, <1>3

LEMMA DirectionThen ==
  ASSUME NEW w \in WorldType, NEW d, NEW r, MonsterResult(w, d, r), r.ok, NEW e \in Dir
  PROVE  MonsterResult(w, d, [r EXCEPT !.d = e])
<1> DEFINE s == [r EXCEPT !.d = e]
<1>1. s = [w |-> s.w, ok |-> s.ok, dead |-> s.dead, act |-> s.act, at |-> s.at, d |-> s.d]
  BY DEF MonsterResult
<1>2. s.w = r.w /\ s.ok = r.ok /\ s.at = r.at /\ s.d = e /\ s.dead = r.dead /\ s.act = r.act
  BY DEF MonsterResult
<1> HIDE DEF s
<1>3. MonsterResult(w, d, s)
  BY <1>1, <1>2 DEF MonsterResult
<1> QED
  BY <1>3 DEF s

\* A tank button pressed by one of the tanks.
LEMMA PressTankButtonFromType ==
  ASSUME NEW w \in WorldType, NEW d, NEW r, MonsterResult(w, d, r), r.ok, NEW src
  PROVE  MonsterResult(w, d, PressTankButtonFrom(r, src))
<1> DEFINE m == FindMonster(r.w, src)
           moved == TankMoved(r, m)
           u == PressTankButton(moved)
           s == [r EXCEPT !.w = u]
<1>1. PressTankButtonFrom(r, src) = GoesOnAsListed(s, m)
  BY DEF PressTankButtonFrom
<1>2. /\ r.w \in WorldType /\ r.at \in Cell /\ r.d \in Dir
      /\ m \in 0..Len(r.w.monsters) /\ Len(r.w.monsters) \in Nat
  BY LaterWorld, Indices, WorldParts DEF MonsterResult
<1> HIDE DEF m
<1>3. Follows(r.w, moved)
  <2>1. CASE m = 0
    BY <1>2, <2>1, FollowsSelf DEF TankMoved
  <2>2. CASE m # 0
    <3> DEFINE old == r.w.monsters[m]
               both == [old EXCEPT !.pos = r.at, !.dir = r.d]
    <3>1. m \in 1..Len(r.w.monsters) /\ old \in Monster
      BY <1>2, <2>2, WorldParts
    <3>2. both \in Monster
      BY <1>2, <3>1 DEF Monster
    <3>3. moved = [r.w EXCEPT !.monsters[m] = both]
      BY <2>2 DEF TankMoved
    <3> QED
      BY <1>2, <3>1, <3>2, <3>3, SetMonsterFollows
  <2> QED
    BY <2>1, <2>2
<1> HIDE DEF moved
<1>4. Follows(r.w, u)
  BY <1>2, <1>3, LaterWorld, PressTankButtonFollows, FollowsTwice
<1>5. MonsterResult(w, d, s) /\ s.w = u /\ s.ok
  <2>1. MonsterResult(w, d, s)
    BY <1>4, MonsterThen
  <2> QED
    BY <2>1 DEF MonsterResult
<1> HIDE DEF s, u
<1>6. CASE m = 0
  BY <1>1, <1>5, <1>6 DEF GoesOnAsListed
<1>7. CASE m # 0
  <2> DEFINE e == u.monsters[m].dir
  <2>1. u \in WorldType /\ Len(u.monsters) \in Nat /\ Len(u.monsters) >= Len(r.w.monsters)
    BY <1>4, WorldParts DEF Follows
  <2>2. m \in 1..Len(u.monsters)
    BY <1>2, <1>7, <2>1
  <2>3. u.monsters[m] \in Monster
    BY <2>1, <2>2, WorldParts
  <2>4. e \in Dir
    BY <2>3 DEF Monster
  <2> HIDE DEF e
  <2>5. MonsterResult(w, d, [s EXCEPT !.d = e])
    BY <1>5, <2>4, DirectionThen
  <2> QED
    BY <1>1, <1>5, <1>7, <2>5 DEF GoesOnAsListed, e
<1> QED
  BY <1>6, <1>7

LEMMA HitByMonsterType ==
  ASSUME NEW w \in WorldType, NEW d, NEW r, MonsterResult(w, d, r), NEW src,
         NEW rnd \in Dir
  PROVE  MonsterResult(w, d, HitByMonster(r, src, rnd))
<1>1. Follows(r.w, PressButton(r.w, r.at, rnd))
  BY LaterWorld, PressButtonFollows DEF MonsterResult
<1>2. MonsterResult(w, d, Hit(r, rnd))
  BY <1>1, MonsterThen DEF Hit
<1> QED
  BY <1>2, PressTankButtonFromType DEF HitByMonster, HitsButton

LEMMA EatType ==
  ASSUME NEW w \in WorldType, NEW d, NEW r, MonsterResult(w, d, r)
  PROVE  MonsterResult(w, d, Eat(r))
<1>1. Follows(r.w, Kill(r.w, "Eaten"))
  BY LaterWorld, KillFollows DEF MonsterResult, Autopsy
<1> QED
  BY <1>1, MonsterThen DEF Eat

LEMMA MoveMonsterType ==
  ASSUME NEW w \in WorldType, NEW src \in Cell, NEW d,
         d \in Dir \/ Step(src, d) \notin Cell, NEW facing \in Tile, NEW rnd \in Floors
  PROVE  MonsterResult(w, d, MoveMonster(w, src, d, facing, rnd))
<1>1. rnd[1] \in Dir /\ rnd[2] \in Dir
  BY DEF Floors
<1> QED
  BY <1>1, MonsterStepType, HitByMonsterType, EatType DEF MoveMonster
-----------------------------------------------------------------------------
(***************************************************************************)
(* Chip in a teleport.                                                     *)
(***************************************************************************)
TeleportResult(w, r) ==
  /\ r = [w |-> r.w, ok |-> r.ok, at |-> r.at]
  /\ Follows(w, r.w) /\ r.ok \in BOOLEAN /\ r.at \in Cell

LEMMA TryTeleportType ==
  ASSUME NEW w \in WorldType, NEW bag, NEW p \in Cell, NEW d \in Dir, NEW rnd \in Floors
  PROVE  TeleportResult(w, TryTeleport(w, bag, p, d, rnd))
<1> DEFINE exit == Step(p, d)
           r == IF w.upper[exit] # Block THEN [w |-> w, ok |-> TRUE]
                ELSE MoveBlock(w, exit, d, Keep, rnd)
           v == IF r.ok /\ EndlessLook(r.w, exit) THEN Crash(r.w, "recursion") ELSE r.w
           ok == r.ok /\ ChipCanEnter(r.w, bag, exit, d) # Refused
<1>1. CASE w.upper[p] # Teleport \/ exit \notin Cell
  BY <1>1, FollowsSelf DEF TryTeleport, TeleportResult
<1>2. CASE ~(w.upper[p] # Teleport \/ exit \notin Cell)
  <2>1. TryTeleport(w, bag, p, d, rnd) = [w |-> v, ok |-> ok, at |-> p]
    BY <1>2 DEF TryTeleport, FollowsTo
  <2>2. Follows(w, r.w)
    <3>1. Keep \in Facing
      BY DEF Facing
    <3> QED
      BY <1>2, <3>1, FollowsSelf, MoveBlockType DEF BlockResult
  <2> HIDE DEF r
  <2>3. Follows(w, v)
    BY <2>2, LaterWorld, CrashFollows, FollowsTwice DEF Fault
  <2>4. ok \in BOOLEAN
    OBVIOUS
  <2> HIDE DEF v, ok
  <2> QED
    BY <2>1, <2>3, <2>4 DEF TeleportResult
<1> QED
  BY <1>1, <1>2

LEMMA TryNextType ==
  ASSUME NEW w \in WorldType, NEW r, TeleportResult(w, r), NEW bag, NEW start, NEW k,
         NEW d \in Dir, NEW rnd \in Floors
  PROVE  TeleportResult(w, TryNext(r, bag, start, k, d, rnd))
<1>1. CASE r.ok \/ k \notin TeleportsBack(r.w, start)
  BY <1>1 DEF TryNext
<1>2. CASE ~(r.ok \/ k \notin TeleportsBack(r.w, start))
  <2> DEFINE s == TryTeleport(r.w, bag, CellBack(start, k), d, rnd)
  <2>1. r.w \in WorldType /\ CellBack(start, k) \in Cell
    BY <1>2, LaterWorld, TeleportsBackType DEF TeleportResult
  <2>2. TeleportResult(r.w, s)
    BY <2>1, TryTeleportType
  <2>3. TryNext(r, bag, start, k, d, rnd) = s
    BY <1>2 DEF TryNext
  <2> HIDE DEF s
  <2> QED
    BY <2>2, <2>3, FollowsTwice DEF TeleportResult
<1> QED
  BY <1>1, <1>2

LEMMA ChipTeleportType ==
  ASSUME NEW w \in WorldType, NEW bag, NEW start \in Cell, NEW d \in Dir,
         NEW rnd \in Floors
  PROVE  TeleportResult(w, ChipTeleport(w, bag, start, d, rnd))
<1> DEFINE V == {r \in [w: WorldType, ok: BOOLEAN, at: Cell] : Follows(w, r.w)}
           len == Width * Height - 1
           base == [w |-> w, ok |-> FALSE, at |-> start]
           Op(r, k) == TryNext(r, bag, start, k, d, rnd)
           step == [k \in 1..len |-> [r \in V |-> Op(r, k)]]
           tried == CHOOSE f : f = [k \in 0..len |-> IF k = 0 THEN base ELSE Op(f[k - 1], k)]
           Back(r) == IF r.ok THEN r ELSE [r EXCEPT !.at = start]
<1>1. len \in Nat
  BY WorldAssumption
<1>2. \A r : r \in V <=> TeleportResult(w, r)
  BY DEF TeleportResult, Follows
<1>3. TeleportResult(w, base)
  BY FollowsSelf DEF TeleportResult
<1>4. ChipTeleport(w, bag, start, d, rnd) = Back(tried[len])
  BY DEF ChipTeleport, Looped
<1>5. \A r \in V : \A k : Op(r, k) \in V
  <2> HIDE DEF V
  <2> QED
    BY <1>2, TryNextType
<1> HIDE DEF V, len, base, Op
<1>6. base \in V
  BY <1>2, <1>3
<1>7. step \in Steps(V, len)
  BY <1>5 DEF Steps
<1>8. \A r \in V, k \in 1..len : step[k][r] = Op(r, k)
  OBVIOUS
<1> HIDE DEF step
<1>9. PICK f : IsRun(f, V, len, base, step)
  BY <1>1, <1>6, <1>7, RunExists
<1>10. f = [k \in 0..len |-> IF k = 0 THEN base ELSE Op(f[k - 1], k)]
  <2>1. \A k \in 1..len : f[k - 1] \in V
    BY <1>1, <1>9 DEF IsRun
  <2> QED
    BY <1>1, <1>8, <1>9, <2>1 DEF IsRun
<1>11. tried = [k \in 0..len |-> IF k = 0 THEN base ELSE Op(tried[k - 1], k)]
  BY <1>10
<1> HIDE DEF tried
<1>12. tried[0] \in V
  BY <1>1, <1>6, <1>11
<1>13. ASSUME NEW k \in 0..(len - 1), tried[k] \in V PROVE tried[k + 1] \in V
  <2>1. k + 1 \in 1..len /\ (k + 1) - 1 = k
    BY <1>1
  <2>2. tried[k + 1] = Op(tried[k], k + 1)
    BY <1>1, <1>11, <2>1
  <2> QED
    BY <1>5, <1>13, <2>1, <2>2
<1>14. tried[len] \in V
  BY <1>1, <1>12, <1>13, RunStays
<1>15. TeleportResult(w, tried[len])
  BY <1>2, <1>14
<1>16. TeleportResult(w, Back(tried[len]))
  BY <1>15 DEF TeleportResult
<1> QED
  BY <1>4, <1>16
-----------------------------------------------------------------------------
(***************************************************************************)
(* An iteration of MonsterLoop.                                            *)
(***************************************************************************)
LEMMA AcrossDownType ==
  ASSUME NEW n
  PROVE  Across(n) \in StackDirs /\ Down(n) \in StackDirs
BY DEF Across, Down, StackDirs, Dir, Compass

DirSeq == {s \in Seq(StackDirs) : Len(s) > 0}

LEMMA TurnsFromType ==
  ASSUME NEW d \in Dir, NEW order
  PROVE  TurnsFrom(d, order) \in DirSeq
<1> DEFINE a == Turned(d, order[1])
           b == Turned(d, order[2])
           c == Turned(d, order[3])
<1>1. \A turn : Turned(d, turn) \in Dir
  BY TurnsAreDirections DEF Turned
<1>2. a \in Dir /\ b \in Dir /\ c \in Dir
  BY <1>1
<1>3. TurnsFrom(d, order) = <<d, a, b, c>>
  BY DEF TurnsFrom
<1> HIDE DEF a, b, c
<1> QED
  BY <1>2, <1>3 DEF DirSeq, StackDirs

LEMMA MonsterKinds ==
  ASSUME NEW t \in Monsters
  PROVE  Kind(t) \in {Bug, Fireball, Ball, Tank, Glider, Teeth, Walker, Blob, Paramecium}
<1>1. t \div 4 \in 16..24
  BY DEF Monsters, Bug, Paramecium
<1> QED
  BY <1>1 DEF Kind, Bug, Fireball, Ball, Tank, Glider, Teeth, Walker, Blob, Paramecium

LEMMA TowardsChipType ==
  ASSUME NEW p, NEW chip
  PROVE  TowardsChip(p, chip) \in DirSeq
<1> DEFINE dx == chip[1] - p[1]
           dy == chip[2] - p[2]
           x == Across(dx)
           y == Down(dy)
           xs == IF dx = 0 THEN <<>> ELSE <<x>>
           ys == IF dy = 0 THEN <<>> ELSE <<y>>
<1>1. x \in StackDirs /\ y \in StackDirs
  BY AcrossDownType
<1>2. TowardsChip(p, chip) = IF Abs(dx) <= Abs(dy) THEN <<y>> \o xs ELSE <<x>> \o ys
  BY DEF TowardsChip
<1> HIDE DEF x, y, dx, dy
<1>3. /\ <<x>> \in Seq(StackDirs) /\ <<y>> \in Seq(StackDirs)
      /\ Len(<<x>>) = 1 /\ Len(<<y>>) = 1
      /\ xs \in Seq(StackDirs) /\ ys \in Seq(StackDirs)
  BY <1>1
<1> HIDE DEF xs, ys
<1>4. Len(xs) \in Nat /\ Len(ys) \in Nat
  BY <1>3
<1>5. <<x>> \o ys \in Seq(StackDirs) /\ Len(<<x>> \o ys) = 1 + Len(ys)
  BY <1>3, ConcatProperties
<1>6. <<y>> \o xs \in Seq(StackDirs) /\ Len(<<y>> \o xs) = 1 + Len(xs)
  BY <1>3, ConcatProperties
<1> QED
  BY <1>2, <1>4, <1>5, <1>6 DEF DirSeq

LEMMA AttemptsType ==
  ASSUME NEW w \in WorldType, NEW i \in 1..Len(w.monsters),
         w.monsters[i].tile \in Monsters, NEW ndir \in StackDirs, NEW chip,
         NEW drawn, drawn.dir \in Dir
  PROVE  Attempts(w, i, ndir, chip, drawn) \in DirSeq
<1> DEFINE m == w.monsters[i]
           d == m.dir
           left == TurnLeft(d)
           right == TurnRight(d)
           back == TurnAround(d)
           kind == Kind(m.tile)
           stuck == Stuck(w, m.pos)
           S == {<<ndir>>, <<d>>, TurnsFrom(drawn.dir, drawn.order), <<left, d, right, back>>,
                 <<d, right, left, back>>, <<d, back>>, <<d, left, right, back>>,
                 <<right, d, left, back>>, TurnsFrom(d, drawn.order),
                 TowardsChip(m.pos, chip)}
<1>1. m \in Monster
  BY WorldParts
<1>2. d \in Dir
  BY <1>1 DEF Monster
<1>3. d \in StackDirs /\ left \in StackDirs /\ right \in StackDirs /\ back \in StackDirs
  BY <1>2, TurnsAreDirections DEF StackDirs
<1>4. kind \in {Bug, Fireball, Ball, Tank, Glider, Teeth, Walker, Blob, Paramecium}
  BY MonsterKinds
<1>5. Attempts(w, i, ndir, chip, drawn) \in S
  <2> DEFINE k == kind
             a == Attempts(w, i, ndir, chip, drawn)
  <2>1. a = CASE k \in {Bug, Paramecium, Teeth} /\ stuck -> <<ndir>>
              [] k = Tank -> <<d>>
              [] k = Blob -> TurnsFrom(drawn.dir, drawn.order)
              [] k \in {Fireball, Ball, Glider, Walker} /\ stuck -> <<d>>
              [] k = Bug /\ ~stuck -> <<left, d, right, back>>
              [] k = Fireball /\ ~stuck -> <<d, right, left, back>>
              [] k = Ball /\ ~stuck -> <<d, back>>
              [] k = Glider /\ ~stuck -> <<d, left, right, back>>
              [] k = Paramecium /\ ~stuck -> <<right, d, left, back>>
              [] k = Walker /\ ~stuck -> TurnsFrom(d, drawn.order)
              [] k = Teeth /\ ~stuck -> TowardsChip(m.pos, chip)
    BY DEF Attempts
  <2>2. k \in {Bug, Fireball, Ball, Tank, Glider, Teeth, Walker, Blob, Paramecium}
    BY <1>4
  <2> HIDE DEF a, k, kind, stuck, left, right, back, d, m, S
  <2>3. a \in S
    <3>1. CASE k = Tank
      BY <2>1, <3>1 DEF S, Tank, Bug, Paramecium, Teeth, Blob, Fireball, Ball, Glider, Walker
    <3>2. CASE k = Blob
      BY <2>1, <3>2 DEF S, Tank, Bug, Paramecium, Teeth, Blob, Fireball, Ball, Glider, Walker
    <3>3. CASE k \in {Bug, Fireball, Ball, Glider, Teeth, Walker, Paramecium} /\ stuck
      BY <2>1, <3>3 DEF S, Tank, Bug, Paramecium, Teeth, Blob, Fireball, Ball, Glider, Walker
    <3>4. CASE k \in {Bug, Fireball, Ball, Glider, Teeth, Walker, Paramecium} /\ ~stuck
      BY <2>1, <3>4 DEF S, Tank, Bug, Paramecium, Teeth, Blob, Fireball, Ball, Glider, Walker
    <3> QED
      BY <2>2, <3>1, <3>2, <3>3, <3>4
  <2> QED
    BY <2>3 DEF a
<1>6. /\ TurnsFrom(drawn.dir, drawn.order) \in DirSeq /\ TurnsFrom(d, drawn.order) \in DirSeq
      /\ TowardsChip(m.pos, chip) \in DirSeq
  BY <1>2, TurnsFromType, TowardsChipType
<1> HIDE DEF m, d, left, right, back
<1>7. /\ <<ndir>> \in DirSeq /\ <<d>> \in DirSeq /\ <<d, back>> \in DirSeq
      /\ <<left, d, right, back>> \in DirSeq /\ <<d, right, left, back>> \in DirSeq
      /\ <<d, left, right, back>> \in DirSeq /\ <<right, d, left, back>> \in DirSeq
  BY <1>3 DEF DirSeq
<1> QED
  BY <1>5, <1>6, <1>7

\* What is known after each direction tried: a monster that has moved faces a
\* direction of the compass, one that has not may still have Far.
TriesResult(w, r) ==
  /\ r = [w |-> r.w, ok |-> r.ok, dead |-> r.dead, act |-> r.act, at |-> r.at, d |-> r.d]
  /\ Follows(w, r.w) /\ r.at \in Cell /\ r.d \in StackDirs
  /\ r.ok \in BOOLEAN /\ r.dead \in BOOLEAN /\ r.act \in MonsterActs
  /\ r.ok => r.d \in Dir

LEMMA AttemptType ==
  ASSUME NEW w \in WorldType, NEW r, TriesResult(w, r), NEW m \in Monster,
         NEW d \in StackDirs, NEW rnd \in Floors
  PROVE  TriesResult(w, Attempt(r, m, d, rnd))
<1>1. CASE r.ok
  BY <1>1 DEF Attempt
<1>2. CASE ~r.ok
  <2> DEFINE facing == SetTileDir(m.tile, d)
             s == MoveMonster(r.w, m.pos, d, facing, rnd)
  <2>1. m.pos \in Cell /\ m.tile \in Tile
    BY DEF Monster
  <2>2. facing \in Tile
    BY <2>1, FacingType
  <2>3. d \in Dir \/ Step(m.pos, d) \notin Cell
    BY <2>1, FarAssumption DEF StackDirs
  <2>4. r.w \in WorldType
    BY LaterWorld DEF TriesResult
  <2> HIDE DEF facing
  <2>5. MonsterResult(r.w, d, s)
    BY <2>1, <2>2, <2>3, <2>4, MoveMonsterType
  <2>6. Attempt(r, m, d, rnd) = s
    BY <1>2 DEF Attempt, facing
  <2> HIDE DEF s
  <2>7. Follows(w, s.w)
    BY <2>5, FollowsTwice DEF MonsterResult, TriesResult
  <2>8. s.d \in StackDirs
    BY <2>5 DEF MonsterResult, StackDirs
  <2> QED
    BY <2>5, <2>6, <2>7, <2>8 DEF MonsterResult, TriesResult
<1> QED
  BY <1>1, <1>2 DEF TriesResult

LEMMA TryAttemptsType ==
  ASSUME NEW w \in WorldType, NEW i \in 1..Len(w.monsters), NEW dirs \in DirSeq,
         NEW rnd \in Floors
  PROVE  TriesResult(w, TryAttempts(w, i, dirs, rnd))
<1> DEFINE V == {r \in [w: WorldType, ok: BOOLEAN, dead: BOOLEAN, act: MonsterActs,
                        at: Cell, d: StackDirs] : Follows(w, r.w) /\ (r.ok => r.d \in Dir)}
           m == w.monsters[i]
           len == Len(dirs)
           base == [w |-> w, ok |-> FALSE, dead |-> FALSE, act |-> 0, at |-> m.pos,
                    d |-> dirs[1]]
           Op(r, k) == Attempt(r, m, dirs[k], rnd)
           step == [k \in 1..len |-> [r \in V |-> Op(r, k)]]
           tried == CHOOSE f : f = [k \in 0..len |-> IF k = 0 THEN base ELSE Op(f[k - 1], k)]
<1>1. len \in Nat /\ len > 0 /\ \A k \in 1..len : dirs[k] \in StackDirs
  BY DEF DirSeq
<1>2. \A r : r \in V <=> TriesResult(w, r)
  BY DEF TriesResult, Follows
<1>3. m \in Monster /\ m.pos \in Cell
  BY WorldParts DEF Monster
<1>4. TriesResult(w, base)
  BY <1>1, <1>3, FollowsSelf DEF TriesResult, MonsterActs
<1>5. TryAttempts(w, i, dirs, rnd) = tried[len]
  BY DEF TryAttempts, Looped
<1>6. \A r \in V : \A k \in 1..len : Op(r, k) \in V
  <2> HIDE DEF V, m
  <2> QED
    BY <1>1, <1>2, <1>3, AttemptType
<1> HIDE DEF V, len, base, Op, m
<1>7. base \in V
  BY <1>2, <1>4
<1>8. step \in Steps(V, len)
  BY <1>6 DEF Steps
<1>9. \A r \in V, k \in 1..len : step[k][r] = Op(r, k)
  OBVIOUS
<1> HIDE DEF step
<1>10. PICK f : IsRun(f, V, len, base, step)
  BY <1>1, <1>7, <1>8, RunExists
<1>11. f = [k \in 0..len |-> IF k = 0 THEN base ELSE Op(f[k - 1], k)]
  <2>1. \A k \in 1..len : f[k - 1] \in V
    BY <1>1, <1>10 DEF IsRun
  <2> QED
    BY <1>1, <1>9, <1>10, <2>1 DEF IsRun
<1>12. tried = [k \in 0..len |-> IF k = 0 THEN base ELSE Op(tried[k - 1], k)]
  BY <1>11
<1> HIDE DEF tried
<1>13. tried[0] \in V
  BY <1>1, <1>7, <1>12
<1>14. ASSUME NEW k \in 0..(len - 1), tried[k] \in V PROVE tried[k + 1] \in V
  <2>1. k + 1 \in 1..len /\ (k + 1) - 1 = k
    BY <1>1
  <2>2. tried[k + 1] = Op(tried[k], k + 1)
    BY <1>1, <1>12, <2>1
  <2> QED
    BY <1>6, <1>14, <2>1, <2>2
<1>15. tried[len] \in V
  BY <1>1, <1>13, <1>14, RunStays
<1> QED
  BY <1>2, <1>5, <1>15

\* An iteration may lose the monster it is about, and no other.
TurnResult(w, r) ==
  /\ r.ndir \in StackDirs /\ r.gone \in BOOLEAN
  /\ IF r.gone THEN Outlives(w, r.w) ELSE Follows(w, r.w)

LEMMA FaceChipFollows ==
  ASSUME NEW w \in WorldType, NEW i \in 1..Len(w.monsters), NEW d
  PROVE  Follows(w, FaceChip(w, i, d))
<1> DEFINE m == w.monsters[i]
           t == SetTileDir(m.tile, d)
           u == SetUpper(w, m.pos, t)
           turned == [m EXCEPT !.tile = t]
<1>1. m \in Monster
  BY WorldParts
<1>2. m.tile \in Tile
  BY <1>1 DEF Monster
<1>3. t \in Tile
  BY <1>2, FacingType
<1>4. turned \in Monster
  BY <1>1, <1>3 DEF Monster
<1>5. u.monsters = w.monsters
  BY DEF SetUpper
<1>6. FaceChip(w, i, d) = [u EXCEPT !.monsters[i] = turned]
  BY <1>5 DEF FaceChip
<1> HIDE DEF m, t
<1>7. Follows(w, u)
  BY <1>3, SetUpperFollows
<1> HIDE DEF u, turned
<1>8. Follows(u, [u EXCEPT !.monsters[i] = turned])
  BY <1>4, <1>5, <1>7, LaterWorld, SetMonsterFollows
<1> QED
  BY <1>6, <1>7, <1>8, FollowsTwice

LEMMA StopTankFollows ==
  ASSUME NEW w \in WorldType, NEW i \in 1..Len(w.monsters)
  PROVE  Follows(w, StopTank(w, i))
<1> DEFINE m == w.monsters[i]
           stopped == [m EXCEPT !.dir = Still]
<1>1. CASE TrapHolds(w, m.pos)
  BY <1>1, FollowsSelf DEF StopTank
<1>2. CASE ~TrapHolds(w, m.pos)
  <2>1. m \in Monster
    BY WorldParts
  <2>2. stopped \in Monster
    BY <2>1 DEF Monster, Dir
  <2>3. StopTank(w, i) = [w EXCEPT !.monsters[i] = stopped]
    BY <1>2 DEF StopTank
  <2> HIDE DEF stopped
  <2> QED
    BY <2>2, <2>3, SetMonsterFollows
<1> QED
  BY <1>1, <1>2

LEMMA SettleFollows ==
  ASSUME NEW r, r.w \in WorldType, r.at \in Cell, r.d \in Dir,
         NEW i \in 1..Len(r.w.monsters)
  PROVE  Follows(r.w, Settle(r, i))
<1> DEFINE m == r.w.monsters[i]
           settled == [m EXCEPT !.tile = r.w.upper[r.at], !.pos = r.at, !.dir = r.d]
<1>1. m \in Monster /\ r.w.upper[r.at] \in Tile
  BY WorldParts
<1>2. settled \in Monster
  BY <1>1 DEF Monster
<1>3. Settle(r, i) = [r.w EXCEPT !.monsters[i] = settled]
  BY DEF Settle
<1> HIDE DEF settled
<1> QED
  BY <1>2, <1>3, SetMonsterFollows

LEMMA OutlivesLater ==
  ASSUME NEW u, NEW w, NEW v, u \in WorldType, Follows(u, w), Outlives(w, v)
  PROVE  Outlives(u, v)
<1>1. Len(u.monsters) \in Nat /\ Len(w.monsters) \in Nat /\ Len(v.monsters) \in Nat
  BY WorldParts DEF Follows, Outlives
<1> QED
  BY <1>1 DEF Follows, Outlives

LEMMA MonsterTurnType ==
  ASSUME NEW w \in WorldType, NEW i \in 1..Len(w.monsters), NEW ndir \in StackDirs,
         NEW chip, NEW even, NEW drawn, drawn.dir \in Dir, NEW rnd \in Floors
  PROVE  TurnResult(w, MonsterTurn(w, i, ndir, chip, even, drawn, rnd))
<1> DEFINE dirs == Attempts(w, i, ndir, chip, drawn)
           r == TryAttempts(w, i, dirs, rnd)
           kind == Kind(w.monsters[i].tile)
<1>1. CASE Passes(w, i, even)
  BY <1>1, FollowsSelf DEF MonsterTurn, TurnResult
<1>2. CASE ~Passes(w, i, even)
  <2>1. dirs \in DirSeq
    BY <1>2, AttemptsType DEF Passes
  <2>2. dirs[1] \in StackDirs
    BY <2>1 DEF DirSeq
  <2>3. MonsterTurn(w, i, ndir, chip, even, drawn, rnd) = AfterAttempts(r, i, kind, dirs[1])
    BY <1>2 DEF MonsterTurn
  <2> HIDE DEF dirs
  <2>4. TriesResult(w, r)
    BY <2>1, TryAttemptsType
  <2> HIDE DEF r, kind
  <2>5. Len(w.monsters) \in Nat /\ Len(r.w.monsters) \in Nat
    BY <2>4, WorldParts DEF TriesResult, Follows
  <2>6. r.w \in WorldType /\ i \in 1..Len(r.w.monsters) /\ Follows(w, r.w)
    BY <2>4, <2>5 DEF TriesResult, Follows
  <2>7. CASE r.dead
    BY <2>3, <2>4, <2>6, <2>7, DeleteMonsterOutlives, OutlivesLater
       DEF AfterAttempts, TurnResult, TriesResult
  <2>8. CASE ~r.dead /\ r.ok
    BY <2>3, <2>4, <2>6, <2>8, SettleFollows, FollowsTwice DEF AfterAttempts, TurnResult, TriesResult
  <2>9. CASE ~r.dead /\ ~r.ok
    <3>1. AfterAttempts(r, i, kind, dirs[1]) = Stays(r, i, kind, dirs[1])
      BY <2>9 DEF AfterAttempts
    <3>2. Follows(w, FaceChip(r.w, i, dirs[1])) /\ Follows(w, StopTank(r.w, i))
      BY <2>6, FaceChipFollows, StopTankFollows, FollowsTwice
    <3> QED
      BY <2>2, <2>3, <2>4, <2>6, <3>1, <3>2 DEF Stays, TurnResult, TriesResult
  <2> QED
    BY <2>4, <2>7, <2>8, <2>9 DEF TriesResult
<1> QED
  BY <1>1, <1>2
-----------------------------------------------------------------------------
(***************************************************************************)
(* An iteration of SlipLoop.                                               *)
(***************************************************************************)
LEMMA FollowsOutlives ==
  ASSUME NEW w \in WorldType, NEW v, Follows(w, v)
  PROVE  Outlives(w, v)
<1>1. Len(v.monsters) \in Nat /\ Len(w.monsters) \in Nat
  BY WorldParts DEF Follows
<1> QED
  BY <1>1 DEF Follows, Outlives

LEMMA SettleSlipperOutlives ==
  ASSUME NEW r, r.w \in WorldType, r.at \in Cell, r.d \in Dir,
         NEW m \in 0..Len(r.w.monsters)
  PROVE  Outlives(r.w, SettleSlipper(r, m))
<1> DEFINE old == r.w.monsters[m]
           t == SetTileDir(r.w.upper[r.at], r.d)
           settled == [old EXCEPT !.pos = r.at, !.dir = r.d, !.tile = t]
<1>1. Len(r.w.monsters) \in Nat
  BY WorldParts
<1>2. CASE m = 0
  <2>1. Follows(r.w, Crash(r.w, "monsterIndex"))
    BY CrashFollows DEF Fault
  <2> QED
    BY <1>2, <2>1, FollowsOutlives DEF SettleSlipper
<1>3. CASE m # 0 /\ r.dead
  BY <1>1, <1>3, DeleteMonsterOutlives DEF SettleSlipper
<1>4. CASE m # 0 /\ ~r.dead
  <2>1. m \in 1..Len(r.w.monsters)
    BY <1>1, <1>4
  <2>2. old \in Monster /\ r.w.upper[r.at] \in Tile
    BY <2>1, WorldParts
  <2>3. t \in Tile
    BY <2>2, FacingType
  <2>4. SettleSlipper(r, m) = [r.w EXCEPT !.monsters[m] = settled]
    BY <1>4 DEF SettleSlipper
  <2> HIDE DEF t
  <2>5. settled \in Monster
    BY <2>2, <2>3 DEF Monster
  <2> HIDE DEF settled
  <2> QED
    BY <2>1, <2>4, <2>5, SetMonsterFollows, FollowsOutlives
<1> QED
  BY <1>2, <1>3, <1>4

LEMMA SlideMonsterOnType ==
  ASSUME NEW w \in WorldType, NEW p \in Cell, NEW d \in Dir, NEW rnd \in Floors
  PROVE  MonsterResult(w, d, SlideMonsterOn(w, p, d, rnd))
<1>1. w.upper[p] \in Tile
  BY WorldParts
<1>2. SetTileDir(w.upper[p], d) \in Tile
  BY <1>1, FacingType
<1> QED
  BY <1>2, MoveMonsterType DEF SlideMonsterOn

LEMMA TurnInPlaceType ==
  ASSUME NEW w \in WorldType, NEW p \in Cell, NEW d \in Dir, NEW rnd \in Floors
  PROVE  SlideResult(w, TurnMonster(w, p, d, rnd)) /\ SlideResult(w, TurnBlock(w, p, d, rnd))
<1>1. rnd[1] \in Dir /\ Keep \in Facing
  BY DEF Floors, Facing
<1> QED
  BY <1>1, SlideType DEF TurnMonster, TurnBlock

LEMMA SlidMonsterOutlives ==
  ASSUME NEW w \in WorldType, NEW s \in Slipper, NEW r, Follows(w, r.w),
         r.at \in Cell, r.ok => r.d \in Dir, NEW stay \in Dir, NEW rnd \in Floors
  PROVE  Outlives(w, SlidMonster(w, s, r, stay, rnd))
<1> DEFINE m == FindMonster(w, s.pos)
           turned == TurnMonster(r.w, s.pos, stay, rnd).w
<1>1. /\ r.w \in WorldType /\ m \in 0..Len(w.monsters) /\ s.pos \in Cell
      /\ Len(w.monsters) \in Nat /\ Len(r.w.monsters) \in Nat
  BY Indices, LaterWorld, WorldParts DEF Slipper
<1>2. CASE r.ok
  <2>1. m \in 0..Len(r.w.monsters)
    BY <1>1 DEF Follows
  <2> HIDE DEF m
  <2>2. Outlives(r.w, SettleSlipper(r, m))
    BY <1>1, <1>2, <2>1, SettleSlipperOutlives
  <2> QED
    BY <1>1, <1>2, <2>2, OutlivesLater DEF SlidMonster, m
<1>3. CASE ~r.ok
  <2>1. Follows(r.w, turned)
    BY <1>1, TurnInPlaceType DEF SlideResult
  <2>2. SlidMonster(w, s, r, stay, rnd) = turned
    BY <1>3 DEF SlidMonster
  <2> HIDE DEF turned
  <2> QED
    BY <1>1, <2>1, <2>2, FollowsTwice, FollowsOutlives
<1> QED
  BY <1>2, <1>3

LEMMA SlipMonsterOutlives ==
  ASSUME NEW w \in WorldType, NEW s \in Slipper, NEW rnd \in Floors
  PROVE  Outlives(w, SlipMonster(w, s, rnd))
<1> DEFINE r == SlideMonsterOn(w, s.pos, s.dir, rnd)
           back == TurnAround(s.dir)
           turn == TurnMonster(r.w, s.pos, back, rnd)
           again == SlideMonsterOn(turn.w, s.pos, turn.d, rnd)
           front == TurnAround(turn.d)
<1>1. s.pos \in Cell /\ s.dir \in Dir
  BY DEF Slipper
<1>2. back \in Dir
  BY <1>1, TurnsAreDirections
<1> HIDE DEF back
<1>3. MonsterResult(w, s.dir, r)
  BY <1>1, SlideMonsterOnType
<1>4. SlipMonster(w, s, rnd) = IF r.ok \/ ~OnIce(w, s.pos)
                               THEN SlidMonster(w, s, r, s.dir, rnd)
                               ELSE SlidMonster(w, s, again, front, rnd)
  BY DEF SlipMonster, AfterMonsterSlid, MonsterSlidesBack, back
<1> HIDE DEF r
<1>5. Follows(w, r.w) /\ r.w \in WorldType
  BY <1>3, LaterWorld DEF MonsterResult
<1>6. SlideResult(r.w, turn)
  BY <1>1, <1>2, <1>5, TurnInPlaceType
<1> HIDE DEF turn
<1>7. turn.w \in WorldType /\ turn.d \in Dir /\ Follows(w, turn.w)
  BY <1>5, <1>6, LaterWorld, FollowsTwice DEF SlideResult
<1>8. front \in Dir
  BY <1>7, TurnsAreDirections
<1> HIDE DEF front
<1>9. MonsterResult(turn.w, turn.d, again)
  BY <1>1, <1>7, SlideMonsterOnType
<1> HIDE DEF again
<1>10. Follows(w, again.w)
  BY <1>7, <1>9, FollowsTwice DEF MonsterResult
<1>11. Outlives(w, SlidMonster(w, s, r, s.dir, rnd))
  BY <1>1, <1>3, <1>5, SlidMonsterOutlives DEF MonsterResult
<1>12. Outlives(w, SlidMonster(w, s, again, front, rnd))
  BY <1>7, <1>8, <1>9, <1>10, SlidMonsterOutlives DEF MonsterResult
<1> QED
  BY <1>4, <1>11, <1>12

LEMMA SlidBlockFollows ==
  ASSUME NEW w \in WorldType, NEW s \in Slipper, NEW r, Follows(w, r.w),
         NEW stay \in Dir, NEW rnd \in Floors
  PROVE  Follows(w, SlidBlock(s, r, stay, rnd))
<1>1. r.w \in WorldType /\ s.pos \in Cell
  BY LaterWorld DEF Slipper
<1>2. Follows(r.w, TurnBlock(r.w, s.pos, stay, rnd).w)
  BY <1>1, TurnInPlaceType DEF SlideResult
<1> QED
  BY <1>2, FollowsTwice DEF SlidBlock

LEMMA SlideBlockOnFollows ==
  ASSUME NEW w \in WorldType, NEW p \in Cell, NEW d \in Dir, NEW rnd \in Floors
  PROVE  Follows(w, SlideBlockOn(w, p, d, rnd).w)
<1>1. Keep \in Facing
  BY DEF Facing
<1> QED
  BY <1>1, MoveBlockType DEF SlideBlockOn, BlockResult

LEMMA SlipBlockFollows ==
  ASSUME NEW w \in WorldType, NEW s \in Slipper, NEW rnd \in Floors
  PROVE  Follows(w, SlipBlock(w, s, rnd))
<1> DEFINE r == SlideBlockOn(w, s.pos, s.dir, rnd)
           back == TurnAround(s.dir)
           turn == TurnBlock(r.w, s.pos, back, rnd)
           again == SlideBlockOn(turn.w, s.pos, turn.d, rnd)
           front == TurnAround(turn.d)
<1>1. s.pos \in Cell /\ s.dir \in Dir
  BY DEF Slipper
<1>2. back \in Dir
  BY <1>1, TurnsAreDirections
<1> HIDE DEF back
<1>3. Follows(w, r.w)
  BY <1>1, SlideBlockOnFollows
<1>4. SlipBlock(w, s, rnd) = IF r.ok \/ ~OnIce(w, s.pos) THEN SlidBlock(s, r, s.dir, rnd)
                             ELSE SlidBlock(s, again, front, rnd)
  BY DEF SlipBlock, AfterBlockSlid, BlockSlidesBack, back
<1> HIDE DEF r
<1>5. r.w \in WorldType
  BY <1>3, LaterWorld
<1>6. SlideResult(r.w, turn)
  BY <1>1, <1>2, <1>5, TurnInPlaceType
<1> HIDE DEF turn
<1>7. turn.w \in WorldType /\ turn.d \in Dir /\ Follows(w, turn.w)
  BY <1>3, <1>6, LaterWorld, FollowsTwice DEF SlideResult
<1>8. front \in Dir
  BY <1>7, TurnsAreDirections
<1> HIDE DEF front
<1>9. Follows(turn.w, again.w)
  BY <1>1, <1>7, SlideBlockOnFollows
<1> HIDE DEF again
<1>10. Follows(w, again.w)
  BY <1>7, <1>9, FollowsTwice
<1> QED
  BY <1>1, <1>3, <1>4, <1>8, <1>10, SlidBlockFollows

LEMMA SlipTurnOutlives ==
  ASSUME NEW w \in WorldType, NEW i \in 1..Len(w.slips), NEW rnd \in Floors
  PROVE  Outlives(w, SlipTurn(w, i, rnd))
<1>1. w.slips[i] \in Slipper
  BY WorldParts
<1> QED
  BY <1>1, SlipMonsterOutlives, SlipBlockFollows, FollowsOutlives DEF SlipTurn
=============================================================================

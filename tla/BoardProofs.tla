---------------------------- MODULE BoardProofs ----------------------------
(***************************************************************************)
(* The board, for every set of well-formed levels (LevelsWellFormed, in    *)
(* GameProps): the monster list, the slip list and the layers agree, there *)
(* is one Chip, the toggle walls keep together, and the chips that are     *)
(* left are those that are still to be found.                              *)
(*                                                                         *)
(* None of the six is inductive alone: a monster is moved by what the list *)
(* says and the board shows, a slider by the slip list and the monster's   *)
(* flag, and all of it over whatever lies beneath. The invariant           *)
(* (BoardInv) says of each cell which tiles may lie on each other          *)
(* (GoodCell), of the lists that they name what stands there (Roster), and *)
(* of the bag that it owes the chips on the board (Plays). In the middle   *)
(* of a move the board and the lists differ by one monster, which is named *)
(* with the place where it really is (m and a of Board).                   *)
(*                                                                         *)
(* The lemmas follow the program: what each of its procedures, from        *)
(* RemoveSlip to DoTick, makes of a sound board. A step after which Chip   *)
(* is dead need not leave one: nobody looks at it again.                   *)
(***************************************************************************)
EXTENDS GameProofs, FiniteSetTheorems

\* Where the clone machines of level n are.
Machines(n) == {Levels[n].clones[i].to : i \in 1..Len(Levels[n].clones)}

\* What a toggle cell shows in each phase.
Shown(n, x, ph) == IF ph THEN Toggled(InitialTile(n, x)) ELSE InitialTile(n, x)

\* One cell x of level n: u is on top, t beneath; Chip is at c, and ic are the
\* cells with a computer chip.
GoodCell(n, u, t, x, c, ph, ic) ==
  /\ u \in ChipTiles <=> x = c
  /\ t \notin ChipTiles \cup Bearers
  /\ t = Bomb => u \in Bearers
  /\ t = ICChip => u \in Bearers \cup ChipTiles
  /\ (u = ICChip \/ t = ICChip) <=> x \in ic
  /\ \A s \in {TankButton, Teleport} : u = s \/ t = s => Has(Levels[n], x, s)
  /\ x \in Machines(n) =>
       /\ t = CloneMachine
       /\ u \in Monsters \/ (u \in CloneBlocks /\ u = Levels[n].upper[x])
  /\ x \in ToggleCells[n] =>
       u = Shown(n, x, ph) \/ (u \in Bearers \cup ChipTiles /\ t = Shown(n, x, ph))

Cells(w, c, ph, ic) ==
  \A x \in Cell : GoodCell(w.level, w.upper[x], w.lower[x], x, c, ph, ic)

\* Where monster i really is: m, which is being moved, is at a; NoCell when it
\* has died.
At(w, m, a, i) == IF i = m THEN a ELSE w.monsters[i].pos

\* The monster list says where each monster is, and of which kind, and leaves out
\* the masters of clone machines only.
Listed(w, m, a) ==
  /\ \A i \in 1..Len(w.monsters) :
       At(w, m, a, i) \in Cell =>
         /\ w.upper[At(w, m, a, i)] \in Monsters
         /\ Kind(w.upper[At(w, m, a, i)]) = Kind(w.monsters[i].tile)
  /\ \A i, j \in 1..Len(w.monsters) : At(w, m, a, i) = At(w, m, a, j) => i = j
  /\ \A x \in Cell : w.upper[x] \in Monsters =>
       w.lower[x] = CloneMachine \/ \E i \in 1..Len(w.monsters) : At(w, m, a, i) = x
  /\ a \in Cell => w.lower[a] # CloneMachine

\* The slip list says what slides, and a monster that slides knows it.
Slid(w, m, a) ==
  /\ \A k \in 1..Len(w.slips) :
       IF w.slips[k].isblock
       THEN \E i \in 1..Len(w.monsters) :
              At(w, m, a, i) = w.slips[k].pos /\ w.monsters[i].slipping
       ELSE w.upper[w.slips[k].pos] = Block
  /\ \A j, k \in 1..Len(w.slips) : w.slips[j].pos = w.slips[k].pos => j = k
  /\ \A i \in 1..Len(w.monsters) : w.monsters[i].slipping =>
       \E k \in 1..Len(w.slips) : w.slips[k].pos = At(w, m, a, i) /\ w.slips[k].isblock

Roster(w, m, a) == Listed(w, m, a) /\ Slid(w, m, a)

\* A sound board, with Chip at c, the computer chips ic, and monster m at a.
Board(w, m, a, c, ic) ==
  /\ w \in WorldType /\ \E ph \in BOOLEAN : Cells(w, c, ph, ic)
  /\ m \in 0..Len(w.monsters) /\ a \in Cell \cup {NoCell} /\ (m = 0 => a = NoCell)
  /\ Roster(w, m, a)

\* Nothing has killed Chip.
Alive(w) == w.autopsy = "NotDeadYet"

\* The chips still to be found in level n, with those in ic on the board.
Owed(n, ic) ==
  LET l == Levels[n]
      taken == Cardinality(ChipsOn(l.upper, l.lower)) - Cardinality(ic)
  IN  IF taken < l.chips THEN l.chips - taken ELSE 0

\* The game goes well on the board, with Chip at c, and in the bag.
Plays(g, c, ic) ==
  /\ Board(g.w, 0, NoCell, c, ic)
  /\ ic \subseteq Cell /\ g.bag.chips = Owed(g.w.level, ic)

\* Nobody looks at the board again.
Lost(g) == ~Alive(g.w) \/ g.ending

Well(g) == Lost(g) \/ \E ic : Plays(g, g.chip.pos, ic)

\* The inductive invariant.
BoardInv == GameInv /\ Well(game)

-----------------------------------------------------------------------------
(***************************************************************************)
(* What the tables say of tiles.                                           *)
(***************************************************************************)

LEMMA TileFacts ==
  /\ Monsters \subseteq Tile /\ Bearers \subseteq Tile /\ ChipTiles \subseteq Tile
  /\ CloneBlocks \subseteq Tile /\ Monsters \subseteq Bearers /\ Block \in Bearers
  /\ \A t \in Bearers : t \notin ChipTiles /\ t \notin CloneBlocks /\ ~IsToggle(t)
  /\ Block \notin Monsters
  /\ \A t \in CloneBlocks \cup ChipTiles : t \notin Bearers /\ ~IsToggle(t)
  /\ \A t \in CloneBlocks : t \notin ChipTiles
  /\ \A t \in {ICChip, Bomb, TankButton, Teleport, CloneMachine, Floor, Dirt, Wall} :
       t \in Tile /\ t \notin Bearers \cup CloneBlocks \cup ChipTiles /\ ~IsToggle(t)
BY DEF Monsters, Bearers, ChipTiles, CloneBlocks, Tile, IsToggle, Block, ICChip, Bomb,
   TankButton, Teleport, CloneMachine, Floor, Dirt, Wall, ToggleWall, ToggleFloor, Swim,
   Chip, BlockN, BlockE, Bug, Paramecium

LEMMA TilesApart ==
  /\ ICChip # Bomb /\ ICChip # TankButton /\ ICChip # Teleport /\ ICChip # CloneMachine
  /\ Bomb # TankButton /\ Bomb # Teleport /\ Bomb # CloneMachine
  /\ TankButton # Teleport /\ TankButton # CloneMachine /\ Teleport # CloneMachine
  /\ \A t \in {Floor, Dirt, Wall} : t \notin {ICChip, Bomb, TankButton, Teleport, CloneMachine}
  /\ \A t : IsToggle(t) => t \notin {ICChip, Bomb, TankButton, Teleport, CloneMachine,
                                     Floor, Dirt, Wall, Water, Fire, Exit, Trap, Ice}
BY DEF IsToggle, ICChip, Bomb, TankButton, Teleport, CloneMachine, Floor, Dirt, Wall,
   ToggleWall, ToggleFloor, Water, Fire, Exit, Trap, Ice

\* The rows of TileTable, as far as the board depends on them.
LEMMA TileRows ==
  ASSUME NEW t \in Tile
  PROVE  /\ TileRow(t)[3] \in {1, 2} =>
              /\ t \notin Bearers \cup CloneBlocks \cup {ICChip, CloneMachine}
              /\ TileRow(t)[4] \in {0, 1, 2, 4, 5, 6, 7}
              /\ TileRow(t)[4] = 0 => t = Floor
              /\ TileRow(t)[4] = 2 => t = Water
              /\ TileRow(t)[4] = 5 <=> t = Bomb
              /\ TileRow(t)[4] = 7 <=> t = Teleport
              /\ t \in ChipTiles \/ IsToggle(t) => TileRow(t)[4] = 1
         /\ TileRow(t)[5] \in {1, 2} \/ t \in {Water, Fire} =>
              /\ t \notin Bearers \cup CloneBlocks \cup {ICChip, CloneMachine}
              /\ TileRow(t)[6] \in {0, 1, 2, 4, 5, 6, 7}
              /\ TileRow(t)[6] = 2 => t \in {Water, Fire}
              /\ TileRow(t)[6] = 5 <=> t = Bomb
              /\ TileRow(t)[6] = 7 <=> t = Teleport
         /\ TileRow(t)[1] \in {1, 2} =>
              /\ t \notin ChipTiles \cup CloneBlocks \cup {CloneMachine}
              /\ TileRow(t)[2] \in {0, 1, 2, 3, 4, 5, 6, 7}
              /\ t \in Monsters \cup {Bomb} => TileRow(t)[2] = 2
              /\ t = ICChip <=> TileRow(t)[2] = 1 /\ t \notin Keys \cup Boots
              /\ IsToggle(t) => TileRow(t)[2] = 4
              /\ TileRow(t)[2] = 7 <=> t = Teleport
<1> USE DEF TileRow, Bearers, CloneBlocks, Monsters, ChipTiles, IsToggle, Tile, Doors,
   Buttons, Panels, IceWalls, Keys, Boots, Floor, Wall, ICChip, Water, Fire, InvisibleWall,
   PanelN, PanelW, PanelS, PanelE, Block, Dirt, Ice, ForceS, BlockN, BlockW, BlockS, BlockE,
   ForceN, ForceE, ForceW, Exit, BlueDoor, RedDoor, GreenDoor, YellowDoor, IceWallNW,
   IceWallNE, IceWallSE, IceWallSW, FakeFloor, FakeWall, Thief, Socket, ToggleButton,
   CloneButton, ToggleWall, ToggleFloor, TrapButton, TankButton, Teleport, Bomb, Trap,
   HiddenWall, Gravel, PopupWall, Hint, PanelSE, CloneMachine, ForceRandom, Bug, Paramecium,
   Swim, Chip
<1>1. TileRow(t)[3] \in {1, 2} => (t \notin Bearers \cup CloneBlocks \cup {ICChip, CloneMachine})
  OBVIOUS
<1>2. TileRow(t)[3] \in {1, 2} => (TileRow(t)[4] \in {0, 1, 2, 4, 5, 6, 7} /\ (TileRow(t)[4] = 0 => t = Floor))
  OBVIOUS
<1>3. TileRow(t)[3] \in {1, 2} => (TileRow(t)[4] = 2 => t = Water)
  OBVIOUS
<1>4. TileRow(t)[3] \in {1, 2} => (TileRow(t)[4] = 5 <=> t = Bomb)
  OBVIOUS
<1>5. TileRow(t)[3] \in {1, 2} => (TileRow(t)[4] = 7 <=> t = Teleport)
  OBVIOUS
<1>6. TileRow(t)[3] \in {1, 2} => (t \in ChipTiles \/ IsToggle(t) => TileRow(t)[4] = 1)
  OBVIOUS
<1>7. (TileRow(t)[5] \in {1, 2} \/ t \in {Water, Fire}) => (t \notin Bearers \cup CloneBlocks \cup {ICChip, CloneMachine})
  OBVIOUS
<1>8. (TileRow(t)[5] \in {1, 2} \/ t \in {Water, Fire}) => (TileRow(t)[6] \in {0, 1, 2, 4, 5, 6, 7})
  OBVIOUS
<1>9. (TileRow(t)[5] \in {1, 2} \/ t \in {Water, Fire}) => (TileRow(t)[6] = 2 => t \in {Water, Fire})
  OBVIOUS
<1>10. (TileRow(t)[5] \in {1, 2} \/ t \in {Water, Fire}) => (TileRow(t)[6] = 5 <=> t = Bomb)
  OBVIOUS
<1>11. (TileRow(t)[5] \in {1, 2} \/ t \in {Water, Fire}) => (TileRow(t)[6] = 7 <=> t = Teleport)
  OBVIOUS
<1>12. TileRow(t)[1] \in {1, 2} => (t \notin ChipTiles \cup CloneBlocks \cup {CloneMachine})
  OBVIOUS
<1>13. TileRow(t)[1] \in {1, 2} => (TileRow(t)[2] \in {0, 1, 2, 3, 4, 5, 6, 7})
  OBVIOUS
<1>14. TileRow(t)[1] \in {1, 2} => (t \in Monsters \cup {Bomb} => TileRow(t)[2] = 2)
  OBVIOUS
<1>15. TileRow(t)[1] \in {1, 2} => (t = ICChip <=> TileRow(t)[2] = 1 /\ t \notin Keys \cup Boots)
  OBVIOUS
<1>16. TileRow(t)[1] \in {1, 2} => (IsToggle(t) => TileRow(t)[2] = 4)
  OBVIOUS
<1>17. TileRow(t)[1] \in {1, 2} => (TileRow(t)[2] = 7 <=> t = Teleport)
  OBVIOUS
<1> HIDE DEF TileRow, Bearers, CloneBlocks, Monsters, ChipTiles, IsToggle, Keys, Boots,
         Floor, Water, Fire, Bomb, Teleport, ICChip, CloneMachine
<1> QED
  BY <1>1, <1>2, <1>3, <1>4, <1>5, <1>6, <1>7, <1>8, <1>9, <1>10, <1>11, <1>12, <1>13, <1>14, <1>15, <1>16, <1>17, SMT

\* What a block may enter, and what becomes of it there.
LEMMA BlockEnters ==
  ASSUME NEW w \in WorldType, NEW p \in Cell, NEW d, BlockCanEnter(w, p, d) # Refused
  PROVE  LET u == w.upper[p]
             act == BlockCanEnter(w, p, d)
         IN  /\ w.lower[p] # CloneMachine
             /\ u \notin Bearers \cup CloneBlocks \cup {ICChip, CloneMachine}
             /\ act \in {0, 1, 2, 4, 5, 6, 7}
             /\ act = 0 => u = Floor
             /\ act = 2 => u = Water
             /\ act = 5 <=> u = Bomb
             /\ act = 7 <=> u = Teleport
             /\ u \in ChipTiles \/ IsToggle(u) => act = 1
<1> DEFINE u == w.upper[p]
           act == BlockCanEnter(w, p, d)
<1>1. u \in Tile
  BY WorldParts
<1>2. w.lower[p] # CloneMachine /\ TileRow(u)[3] \in {1, 2} /\ act = TileRow(u)[4]
  BY <1>1 DEF BlockCanEnter, CanEnter, ActionOn, TileTable, ForBlock
<1> HIDE DEF u, act
<1>3. QED
  BY <1>1, <1>2, TileRows DEF u, act

\* The same for a monster; it looks beneath Chip.
LEMMA MonsterEnters ==
  ASSUME NEW w \in WorldType, NEW p \in Cell, NEW d, NEW monster,
         MonsterCanEnter(w, monster, p, d) # Refused
  PROVE  LET t == IF w.upper[p] \in ChipTiles THEN w.lower[p] ELSE w.upper[p]
             act == MonsterCanEnter(w, monster, p, d)
         IN  /\ w.lower[p] # CloneMachine
             /\ t \notin Bearers \cup CloneBlocks \cup {ICChip, CloneMachine}
             /\ act \in {0, 1, 2, 4, 5, 6, 7}
             /\ act = 2 => t \in {Water, Fire}
             /\ act = 5 <=> t = Bomb
             /\ act = 7 <=> t = Teleport
<1> DEFINE t == IF w.upper[p] \in ChipTiles THEN w.lower[p] ELSE w.upper[p]
           act == MonsterCanEnter(w, monster, p, d)
<1>1. t \in Tile
  BY WorldParts
<1>2. /\ w.lower[p] # CloneMachine
      /\ TileRow(t)[5] \in {1, 2} \/ t \in {Water, Fire}
      /\ act = TileRow(t)[6] \/ (act = 1 /\ t \in {Water, Fire})
  BY <1>1 DEF MonsterCanEnter, MonsterMayEnter, Unharmed, CanEnter, ActionOn, TileTable,
     ForMonster
<1>3. Water # Bomb /\ Water # Teleport /\ Fire # Bomb /\ Fire # Teleport
  BY DEF Water, Fire, Bomb, Teleport
<1> HIDE DEF t, act
<1>4. QED
  BY <1>1, <1>2, <1>3, TileRows DEF t, act

\* The same for Chip, where no block is in his way.
LEMMA ChipEnters ==
  ASSUME NEW w \in WorldType, NEW p \in Cell, NEW d, NEW bag,
         w.upper[p] # Block, ChipCanEnter(w, bag, p, d) # Refused
  PROVE  LET u == w.upper[p]
             act == ChipCanEnter(w, bag, p, d)
         IN  /\ w.lower[p] # CloneMachine
             /\ act # 2 => /\ act \in {0, 1, 3, 4, 5, 6, 7}
                           /\ u \notin ChipTiles \cup Bearers \cup CloneBlocks
                                         \cup {Bomb, CloneMachine}
                           /\ u = ICChip => act = 1
                           /\ act = 1 => u \in Keys \cup Boots \cup {ICChip}
                           /\ IsToggle(u) => act = 4
                           /\ act = 7 <=> u = Teleport
<1> DEFINE u == w.upper[p]
           act == ChipCanEnter(w, bag, p, d)
<1>1. u \in Tile
  BY WorldParts
<1>2. /\ w.lower[p] # CloneMachine
      /\ IF HaveBoots(bag, u) THEN act = 4 ELSE act = TileRow(u)[2]
      /\ TileRow(u)[1] \in {1, 2}
  BY <1>1 DEF ChipCanEnter, LetsChipIn, SeenThrough, CanEnter, ActionOn, TileTable, ForChip
<1>3. HaveBoots(bag, u) => u \in {Water, Fire, Ice} \cup IceWalls \cup ForceFloors
  BY DEF HaveBoots, BootsFor
<1>4. \A s \in {Water, Fire, Ice} \cup IceWalls \cup ForceFloors :
        /\ s \notin ChipTiles \cup Bearers \cup CloneBlocks
                       \cup {Bomb, CloneMachine, ICChip, Teleport}
        /\ s \notin Keys \cup Boots
  BY DEF IceWalls, ForceFloors, ChipTiles, Bearers, Monsters, CloneBlocks, Keys, Boots,
     Water, Fire, Ice, Bomb, CloneMachine, ICChip, Teleport, IceWallNW, IceWallNE, IceWallSE,
     IceWallSW, ForceN, ForceW, ForceS, ForceE, ForceRandom, Block, Bug, Paramecium, Swim,
     Chip, BlockN, BlockE
<1> HIDE DEF u, act
<1>5. CASE HaveBoots(bag, u)
  BY <1>2, <1>3, <1>4, <1>5 DEF u, act
<1>6. CASE ~HaveBoots(bag, u)
  <2>1. act = TileRow(u)[2]
    BY <1>2, <1>6
  <2>2. u # Block
    BY DEF u
  <2>3. u \notin Bearers \/ u \in Monsters
    BY <2>2 DEF Bearers
  <2> QED
    BY <1>1, <1>2, <2>1, <2>3, TileRows DEF u, act
<1> QED
  BY <1>5, <1>6

-----------------------------------------------------------------------------
(***************************************************************************)
(* One cell: what may come onto it and go from it.                         *)
(***************************************************************************)

LEMMA ToggleShown ==
  ASSUME NEW n \in 1..Len(Levels), NEW x \in ToggleCells[n], NEW ph \in BOOLEAN
  PROVE  /\ x \in Cell /\ IsToggle(Shown(n, x, ph))
         /\ Toggled(Shown(n, x, ph)) = Shown(n, x, ~ph)
         /\ IsToggle(InitialTile(n, x))
<1>1. x \in Cell /\ InitialTile(n, x) \in {ToggleWall, ToggleFloor}
  BY DEF ToggleCells
<1>2. ToggleWall # ToggleFloor
  BY DEF ToggleWall, ToggleFloor
<1> QED
  BY <1>1, <1>2 DEF Shown, Toggled, IsToggle

LEMMA ToggledTiles ==
  /\ \A t : IsToggle(t) => IsToggle(Toggled(t))
  /\ \A t : ~IsToggle(t) => Toggled(t) = t
BY DEF Toggled, IsToggle, ToggleWall, ToggleFloor

\* Something with a body comes onto a tile and covers it.
LEMMA CellCovered ==
  ASSUME NEW n, NEW u, NEW t, NEW x, NEW c, NEW ph, NEW ic, GoodCell(n, u, t, x, c, ph, ic),
         x # c, u \notin Bearers \cup CloneBlocks \cup {ICChip}, NEW b \in Bearers
  PROVE  GoodCell(n, b, u, x, c, ph, ic)
BY TileFacts, TilesApart DEF GoodCell

\* A tile is replaced, and what lies beneath it stays.
LEMMA CellReplaced ==
  ASSUME NEW n \in 1..Len(Levels), NEW u, NEW t, NEW x, NEW c, NEW ph \in BOOLEAN, NEW ic,
         GoodCell(n, u, t, x, c, ph, ic), x # c, ~IsToggle(u),
         u \notin Bearers \cup CloneBlocks \cup {ICChip},
         NEW b \in Bearers \cup {Floor, Dirt, Wall}
  PROVE  GoodCell(n, b, t, x, c, ph, ic)
<1>1. x \notin ToggleCells[n]
  BY ToggleShown DEF GoodCell
<1> QED
  BY <1>1, TileFacts, TilesApart DEF GoodCell

\* One monster instead of another.
LEMMA CellSwapped ==
  ASSUME NEW n, NEW u \in Monsters, NEW t, NEW x, NEW c, NEW ph, NEW ic,
         GoodCell(n, u, t, x, c, ph, ic), x \notin ToggleCells[n] \/ u # Shown(n, x, ph),
         NEW b \in Monsters
  PROVE  GoodCell(n, b, t, x, c, ph, ic)
BY TileFacts, TilesApart DEF GoodCell

\* What had a body goes, and uncovers the tile it stood on.
LEMMA CellLeft ==
  ASSUME NEW n \in 1..Len(Levels), NEW u \in Bearers, NEW t, NEW x, NEW c, NEW ph \in BOOLEAN,
         NEW ic, GoodCell(n, u, t, x, c, ph, ic), t # CloneMachine
  PROVE  GoodCell(n, t, Floor, x, c, ph, ic)
<1>1. x \in ToggleCells[n] => u # Shown(n, x, ph)
  BY ToggleShown, TileFacts
<1> QED
  BY <1>1, TileFacts, TilesApart DEF GoodCell

\* Chip goes.
LEMMA CellWithoutChip ==
  ASSUME NEW n \in 1..Len(Levels), NEW u, NEW t, NEW x \in Cell, NEW ph \in BOOLEAN,
         NEW ic, GoodCell(n, u, t, x, x, ph, ic)
  PROVE  GoodCell(n, t, Floor, x, NoCell, ph, ic)
<1>1. x # NoCell
  BY DEF Cell, NoCell
<1>2. u \in ChipTiles
  BY DEF GoodCell
<1>3. x \in ToggleCells[n] => u # Shown(n, x, ph)
  BY <1>2, ToggleShown, TileFacts
<1> QED
  BY <1>1, <1>2, <1>3, TileFacts, TilesApart DEF GoodCell

\* Chip comes, and covers what he finds or takes it.
LEMMA CellWithChip ==
  ASSUME NEW n \in 1..Len(Levels), NEW u, NEW t, NEW x \in Cell, NEW ph \in BOOLEAN, NEW ic,
         GoodCell(n, u, t, x, NoCell, ph, ic), NEW b \in ChipTiles,
         u \notin ChipTiles \cup Bearers \cup CloneBlocks \cup {Bomb}
  PROVE  /\ u # ICChip => GoodCell(n, b, u, x, x, ph, ic)
         /\ ~IsToggle(u) => GoodCell(n, b, t, x, x, ph, ic \ {x})
<1>1. x \in ToggleCells[n] => u = Shown(n, x, ph) /\ IsToggle(u)
  BY ToggleShown DEF GoodCell
<1>2. x \notin Machines(n) /\ t \notin {ICChip, Bomb} /\ (x \in ic => u = ICChip)
  BY TileFacts DEF GoodCell
<1> QED
  BY <1>1, <1>2, TileFacts, TilesApart DEF GoodCell

LEMMA CellChipTurns ==
  ASSUME NEW n \in 1..Len(Levels), NEW u, NEW t, NEW x \in Cell, NEW ph \in BOOLEAN, NEW ic,
         GoodCell(n, u, t, x, x, ph, ic), NEW b \in ChipTiles
  PROVE  GoodCell(n, b, t, x, x, ph, ic)
<1>1. u \in ChipTiles
  BY DEF GoodCell
<1>2. x \in ToggleCells[n] => u # Shown(n, x, ph)
  BY <1>1, ToggleShown, TileFacts
<1> QED
  BY <1>1, <1>2, TileFacts, TilesApart DEF GoodCell

\* A cell away from Chip does not know where he is, nor which other chips are left.
LEMMA CellElsewhere ==
  ASSUME NEW n, NEW u, NEW t, NEW x, NEW c, NEW ph, NEW ic, GoodCell(n, u, t, x, c, ph, ic),
         x # c, NEW e, x # e
  PROVE  GoodCell(n, u, t, x, e, ph, ic) /\ GoodCell(n, u, t, x, e, ph, ic \ {e})
BY DEF GoodCell

LEMMA CellToggled ==
  ASSUME NEW n \in 1..Len(Levels), NEW u, NEW t, NEW x \in Cell, NEW c, NEW ph \in BOOLEAN,
         NEW ic, GoodCell(n, u, t, x, c, ph, ic)
  PROVE  IF x \in ToggleCells[n] THEN GoodCell(n, Toggled(u), Toggled(t), x, c, ~ph, ic)
         ELSE GoodCell(n, u, t, x, c, ~ph, ic)
<1>1. CASE x \notin ToggleCells[n]
  BY <1>1 DEF GoodCell
<1>2. CASE x \in ToggleCells[n]
  <2>1. x \notin Machines(n)
    BY <1>2, ToggleShown, TileFacts, TilesApart DEF GoodCell
  <2>2. \A s \in {u, t} : IF IsToggle(s) THEN IsToggle(Toggled(s)) ELSE Toggled(s) = s
    BY ToggledTiles
  <2>3. \A s : IsToggle(s) => s \notin Bearers \cup ChipTiles \cup CloneBlocks
    BY TileFacts
  <2>4. Toggled(Shown(n, x, ph)) = Shown(n, x, ~ph) /\ IsToggle(Shown(n, x, ph))
    BY <1>2, ToggleShown
  <2>5. IsToggle(u) \/ (u \in Bearers \cup ChipTiles /\ Toggled(u) = u)
    BY <1>2, <2>4, <2>2 DEF GoodCell
  <2>6. Toggled(u) \in ChipTiles <=> x = c
    BY <2>2, <2>3 DEF GoodCell
  <2>7. Toggled(t) \notin ChipTiles \cup Bearers
    BY <2>2, <2>3 DEF GoodCell
  <2>8. /\ Toggled(t) = Bomb => Toggled(u) \in Bearers
        /\ Toggled(t) = ICChip => Toggled(u) \in Bearers \cup ChipTiles
    BY <2>2, <2>3, TilesApart DEF GoodCell
  <2>9. (Toggled(u) = ICChip \/ Toggled(t) = ICChip) <=> x \in ic
    BY <2>2, TilesApart DEF GoodCell
  <2>10. \A s \in {TankButton, Teleport} :
           Toggled(u) = s \/ Toggled(t) = s => Has(Levels[n], x, s)
    BY <2>2, TilesApart DEF GoodCell
  <2>11. \/ Toggled(u) = Shown(n, x, ~ph)
         \/ Toggled(u) \in Bearers \cup ChipTiles /\ Toggled(t) = Shown(n, x, ~ph)
    BY <1>2, <2>3, <2>4, <2>5 DEF GoodCell
  <2> QED
    BY <1>2, <2>1, <2>6, <2>7, <2>8, <2>9, <2>10, <2>11 DEF GoodCell
<1> QED
  BY <1>1, <1>2

-----------------------------------------------------------------------------
(***************************************************************************)
(* Steps, teleports, and lists whose entries are apart.                    *)
(***************************************************************************)

\* Steps and teleports.
LEMMA StepAway ==
  ASSUME NEW p \in Cell, NEW d \in Dir
  PROVE  (d \in Compass => Step(p, d) # p) /\ (d = Still => Step(p, d) = p)
BY DEF Cell, Dir, Compass, North, West, South, East, Still, Step

LEMMA TeleportToTeleport ==
  ASSUME NEW w \in WorldType, NEW start \in Cell, NEW d, NEW open
  PROVE  LET p == TeleportTo(w, start, d, open)
         IN  p \in Cell /\ (p = start \/ w.upper[p] = Teleport)
<1> DEFINE p == TeleportTo(w, start, d, open)
           works == {k \in TeleportsBack(w, start) : w.upper[CellBack(start, k)] = Teleport
                                                   /\ Step(CellBack(start, k), d) \in open}
<1>1. p \in Cell
  BY TeleportToType
<1>2. p = IF works = {} THEN start ELSE CellBack(start, First(works))
  BY DEF TeleportTo
<1>3. works # {} => First(works) \in works
  BY TeleportsBackType, FirstType
<1> QED
  BY <1>1, <1>2, <1>3
-----------------------------------------------------------------------------

LEMMA RemoveAtIs ==
  ASSUME NEW T, NEW s \in Seq(T), NEW i \in 1..Len(s)
  PROVE  /\ Len(RemoveAt(s, i)) = Len(s) - 1 /\ Len(s) \in Nat
         /\ \A k \in 1..(Len(s) - 1) :
              RemoveAt(s, i)[k] = IF k < i THEN s[k] ELSE s[k + 1]
<1>1. Len(s) \in Nat
  OBVIOUS
<1> DEFINE before == SubSeq(s, 1, i - 1)
           after == SubSeq(s, i + 1, Len(s))
<1>2. before \in Seq(T) /\ Len(before) = i - 1 /\ \A k \in 1..(i - 1) : before[k] = s[k]
  BY <1>1
<1>3. /\ after \in Seq(T) /\ Len(after) = Len(s) - i
      /\ \A k \in 1..(Len(s) - i) : after[k] = s[k + i]
  BY <1>1
<1>4. RemoveAt(s, i) = before \o after
  BY DEF RemoveAt
<1> HIDE DEF before, after
<1>5. /\ Len(before \o after) = Len(before) + Len(after)
      /\ \A k \in 1..(Len(before) + Len(after)) :
           (before \o after)[k] = IF k <= Len(before) THEN before[k]
                                  ELSE after[k - Len(before)]
  BY <1>2, <1>3, ConcatProperties
<1>6. ASSUME NEW k \in 1..(Len(s) - 1)
      PROVE  (before \o after)[k] = IF k < i THEN s[k] ELSE s[k + 1]
  <2> k \in 1..(Len(before) + Len(after)) /\ i \in Nat /\ k \in Nat
    BY <1>1, <1>2, <1>3
  <2>1. CASE k < i
    <3>1. k <= Len(before) /\ k \in 1..(i - 1)
      BY <1>2, <2>1
    <3> QED
      BY <1>2, <1>5, <2>1, <3>1
  <2>2. CASE k >= i
    <3>1. k - (i - 1) \in 1..(Len(s) - i) /\ (k - (i - 1)) + i = k + 1
      BY <1>1, <2>2
    <3>2. ~(k <= Len(before)) /\ k - Len(before) = k - (i - 1) /\ ~(k < i)
      BY <1>2, <2>2
    <3>3. (before \o after)[k] = after[k - (i - 1)]
      BY <1>5, <3>2
    <3> QED
      BY <1>3, <3>1, <3>2, <3>3
  <2> QED
    BY <1>1, <2>1, <2>2
<1> QED
  BY <1>1, <1>2, <1>3, <1>4, <1>5, <1>6

\* List t is list s without the entry of cell src, or with one of cell dst in
\* its place.
Apart(s) == \A j, k \in 1..Len(s) : s[j].pos = s[k].pos => j = k
Reslips(s, t, src, dst, b) ==
  /\ \A k \in 1..Len(t) :
       \/ t[k].pos = dst /\ t[k].isblock = b
       \/ t[k].pos # src /\ \E j \in 1..Len(s) : t[k] = s[j]
  /\ \A j \in 1..Len(s) : s[j].pos # src => \E k \in 1..Len(t) : t[k] = s[j]
  /\ Apart(t)

LEMMA ReslipsNot ==
  ASSUME NEW s \in Seq(Slipper), Apart(s), NEW src, NEW dst, NEW b,
         \A k \in 1..Len(s) : s[k].pos # src
  PROVE  Reslips(s, s, src, dst, b)
BY DEF Reslips

LEMMA ReslipsRemoved ==
  ASSUME NEW s \in Seq(Slipper), Apart(s), NEW dst, NEW b, NEW i \in 1..Len(s)
  PROVE  /\ Reslips(s, RemoveAt(s, i), s[i].pos, dst, b)
         /\ \A k \in 1..Len(RemoveAt(s, i)) : RemoveAt(s, i)[k].pos # s[i].pos
<1> DEFINE t == RemoveAt(s, i)
<1>1. /\ Len(t) = Len(s) - 1 /\ Len(s) \in Nat
      /\ \A k \in 1..(Len(s) - 1) : t[k] = IF k < i THEN s[k] ELSE s[k + 1]
  BY RemoveAtIs
<1> HIDE DEF t
<1>2. ASSUME NEW k \in 1..Len(t)
      PROVE  t[k].pos # s[i].pos /\ \E j \in 1..Len(s) : t[k] = s[j]
  <2>1. PICK j \in 1..Len(s) : j # i /\ t[k] = s[j]
    BY <1>1
  <2> QED
    BY <2>1 DEF Apart
<1>3. ASSUME NEW j \in 1..Len(s), s[j].pos # s[i].pos
      PROVE  \E k \in 1..Len(t) : t[k] = s[j]
  <2>1. CASE j < i
    BY <1>1, <2>1
  <2>2. CASE j > i
    <3>1. j - 1 \in 1..Len(t) /\ t[j - 1] = s[j]
      BY <1>1, <2>2
    <3> QED
      BY <3>1
  <2> QED
    BY <1>1, <1>3, <2>1, <2>2
<1>4. ASSUME NEW j \in 1..Len(t), NEW k \in 1..Len(t), t[j].pos = t[k].pos
      PROVE  j = k
  <2>1. (IF j < i THEN j ELSE j + 1) = (IF k < i THEN k ELSE k + 1)
    BY <1>1, <1>4 DEF Apart
  <2> QED
    BY <1>1, <2>1
<1> QED
  BY <1>2, <1>3, <1>4 DEF Reslips, Apart, t

\* There is an entry of cell p.
Slips(s, p) == \E k \in 1..Len(s) : s[k].pos = p

\* The two ways to make an entry, as relations.
IsAppended(s, e, t) == t = Append(s, e)
IsChanged(s, i, e, t) == t = [s EXCEPT ![i] = e]

LEMMA ReslipsAppended ==
  ASSUME NEW s \in Seq(Slipper), Apart(s), NEW src, NEW e \in Slipper,
         \A k \in 1..Len(s) : s[k].pos # src /\ s[k].pos # e.pos,
         NEW t, IsAppended(s, e, t)
  PROVE  Reslips(s, t, src, e.pos, e.isblock) /\ Slips(t, e.pos)
<1>1. /\ Len(s) \in Nat /\ Len(t) = Len(s) + 1 /\ t[Len(t)] = e
      /\ \A k \in 1..Len(s) : t[k] = s[k]
  BY DEF IsAppended
<1>2. \A k \in 1..Len(t) : k \in 1..Len(s) \/ k = Len(t)
  BY <1>1
<1>3. \A j \in 1..Len(s) : j \in 1..Len(t)
  BY <1>1
<1>4. Apart(t)
  BY <1>1, <1>2 DEF Apart
<1>5. Len(t) \in 1..Len(t)
  BY <1>1
<1> QED
  BY <1>1, <1>2, <1>3, <1>4, <1>5 DEF Reslips, Slips

LEMMA ReslipsChanged ==
  ASSUME NEW s \in Seq(Slipper), Apart(s), NEW i \in 1..Len(s), NEW e \in Slipper,
         \A k \in 1..Len(s) : s[k].pos = e.pos => k = i,
         NEW t, IsChanged(s, i, e, t)
  PROVE  Reslips(s, t, s[i].pos, e.pos, e.isblock) /\ Slips(t, e.pos)
<1>1. Len(t) = Len(s) /\ t[i] = e /\ \A k \in 1..Len(s) : k # i => t[k] = s[k]
  BY DEF IsChanged
<1>2. \A k \in 1..Len(s) : k # i => s[k].pos # s[i].pos
  BY DEF Apart
<1>3. Apart(t)
  BY <1>1 DEF Apart
<1> QED
  BY <1>1, <1>2, <1>3 DEF Reslips, Slips

-----------------------------------------------------------------------------
(***************************************************************************)
(* The lists and the layers, when one thing has moved.                     *)
(***************************************************************************)

LEMMA NoCellIsNone == NoCell \notin Cell
BY DEF NoCell, Cell

LEMMA SlipCells ==
  ASSUME NEW w \in WorldType
  PROVE  /\ \A k \in 1..Len(w.slips) : w.slips[k].pos \in Cell /\ w.slips[k].isblock \in BOOLEAN
         /\ \A i \in 1..Len(w.monsters) : /\ w.monsters[i].pos \in Cell
                                          /\ w.monsters[i].tile \in Tile
                                          /\ w.monsters[i].slipping \in BOOLEAN
                                          /\ w.monsters[i].dir \in Dir
BY WorldParts DEF Slipper, Monster

\* A monster in hand is one of the list, and is where the board has it.
LEMMA InHand ==
  ASSUME NEW w, NEW m \in 0..Len(w.monsters), NEW a, m = 0 => a = NoCell, Listed(w, m, a),
         a \in Cell
  PROVE  m \in 1..Len(w.monsters) /\ At(w, m, a, m) = a /\ w.upper[a] \in Monsters
BY NoCellIsNone DEF Listed, At

\* A cell bears the same thing in v as in w.
Same(w, v, x) ==
  IF w.upper[x] \in Monsters
  THEN /\ v.upper[x] \in Monsters /\ Kind(v.upper[x]) = Kind(w.upper[x])
       /\ v.lower[x] = CloneMachine <=> w.lower[x] = CloneMachine
  ELSE /\ v.upper[x] \notin Monsters
       /\ w.upper[x] = Block => v.upper[x] = Block

LEMMA RosterAlike ==
  ASSUME NEW w \in WorldType, NEW m \in 0..Len(w.monsters), NEW a, m = 0 => a = NoCell,
         Roster(w, m, a), NEW v, NEW n, NEW b, b \in Cell => b = a,
         Len(v.monsters) = Len(w.monsters),
         \A i \in 1..Len(w.monsters) :
           /\ At(v, n, b, i) = At(w, m, a, i)
           /\ Kind(v.monsters[i].tile) = Kind(w.monsters[i].tile)
           /\ v.monsters[i].slipping <=> w.monsters[i].slipping,
         v.slips = w.slips, \A x \in Cell : Same(w, v, x)
  PROVE  Roster(v, n, b)
<1>1. Listed(v, n, b)
  <2>1. ASSUME NEW i \in 1..Len(v.monsters), At(v, n, b, i) \in Cell
        PROVE  /\ v.upper[At(v, n, b, i)] \in Monsters
               /\ Kind(v.upper[At(v, n, b, i)]) = Kind(v.monsters[i].tile)
    BY <2>1 DEF Roster, Listed, Same
  <2>2. \A i, j \in 1..Len(v.monsters) : At(v, n, b, i) = At(v, n, b, j) => i = j
    BY DEF Roster, Listed
  <2>3. ASSUME NEW x \in Cell, v.upper[x] \in Monsters
        PROVE  \/ v.lower[x] = CloneMachine
               \/ \E i \in 1..Len(v.monsters) : At(v, n, b, i) = x
    <3>1. w.upper[x] \in Monsters /\ (v.lower[x] = CloneMachine <=> w.lower[x] = CloneMachine)
      BY <2>3 DEF Same
    <3> QED
      BY <3>1 DEF Roster, Listed
  <2>4. ASSUME b \in Cell PROVE v.lower[b] # CloneMachine
    <3>0. a \in Cell /\ b = a /\ Listed(w, m, a)
      BY <2>4 DEF Roster
    <3>1. w.upper[a] \in Monsters /\ w.lower[a] # CloneMachine
      BY <3>0, InHand DEF Listed
    <3> QED
      BY <3>0, <3>1 DEF Same
  <2> QED
    BY <2>1, <2>2, <2>3, <2>4 DEF Listed
<1>2. Slid(v, n, b)
  <2>1. ASSUME NEW k \in 1..Len(v.slips)
        PROVE  IF v.slips[k].isblock
               THEN \E i \in 1..Len(v.monsters) :
                      At(v, n, b, i) = v.slips[k].pos /\ v.monsters[i].slipping
               ELSE v.upper[v.slips[k].pos] = Block
    <3>1. w.slips[k].pos \in Cell
      BY SlipCells
    <3>2. Block \notin Monsters
      BY TileFacts
    <3> QED
      BY <3>1, <3>2 DEF Roster, Slid, Same
  <2>2. \A j, k \in 1..Len(v.slips) : v.slips[j].pos = v.slips[k].pos => j = k
    BY DEF Roster, Slid
  <2>3. ASSUME NEW i \in 1..Len(v.monsters), v.monsters[i].slipping
        PROVE  \E k \in 1..Len(v.slips) : v.slips[k].pos = At(v, n, b, i) /\ v.slips[k].isblock
    <3>1. w.monsters[i].slipping
      BY <2>3
    <3> QED
      BY <3>1 DEF Roster, Slid
  <2> QED
    BY <2>1, <2>2, <2>3 DEF Slid
<1> QED
  BY <1>1, <1>2 DEF Roster

\* What a move leaves alone: every cell but the two it is about.
SameBut(w, v, src, dst) ==
  \A x \in Cell : x # src /\ x # dst =>
    v.upper[x] = w.upper[x] /\ v.lower[x] = w.lower[x]

\* A block has gone from src to dst, or into water or a bomb there, or has
\* stayed behind as the one in its clone machine.
LEMMA RosterOfBlock ==
  ASSUME NEW w \in WorldType, NEW m \in 0..Len(w.monsters), NEW a, m = 0 => a = NoCell,
         Roster(w, m, a),
         NEW src \in Cell, NEW dst \in Cell, src # dst, w.upper[src] \notin Monsters,
         w.upper[dst] \notin Bearers, NEW v, v.monsters = w.monsters,
         NEW to, to = NoCell \/ (to = dst /\ v.upper[dst] = Block), v.slips \in Seq(Slipper),
         Reslips(w.slips, v.slips, src, to, FALSE), SameBut(w, v, src, dst),
         v.upper[src] \notin Monsters, v.upper[dst] \notin Monsters
  PROVE  Roster(v, m, a)
<1>0. \A i : At(v, m, a, i) = At(w, m, a, i)
  BY DEF At
<1>1. \A x \in Cell : IF w.upper[x] \in Monsters
        THEN x # src /\ x # dst /\ v.upper[x] = w.upper[x] /\ v.lower[x] = w.lower[x]
        ELSE v.upper[x] \notin Monsters
  BY TileFacts DEF SameBut
<1>2. Listed(v, m, a)
  <2>1. ASSUME NEW i \in 1..Len(v.monsters), At(v, m, a, i) \in Cell
        PROVE  /\ v.upper[At(v, m, a, i)] \in Monsters
               /\ Kind(v.upper[At(v, m, a, i)]) = Kind(v.monsters[i].tile)
    BY <1>0, <1>1, <2>1 DEF Roster, Listed
  <2>2. \A i, j \in 1..Len(v.monsters) : At(v, m, a, i) = At(v, m, a, j) => i = j
    BY <1>0 DEF Roster, Listed
  <2>3. ASSUME NEW x \in Cell, v.upper[x] \in Monsters
        PROVE  \/ v.lower[x] = CloneMachine
               \/ \E i \in 1..Len(v.monsters) : At(v, m, a, i) = x
    BY <1>0, <1>1, <2>3 DEF Roster, Listed
  <2>4. ASSUME a \in Cell PROVE v.lower[a] # CloneMachine
    <3>1. w.upper[a] \in Monsters /\ w.lower[a] # CloneMachine
      BY <2>4, InHand DEF Roster, Listed
    <3> QED
      BY <1>1, <2>4, <3>1
  <2> QED
    BY <2>1, <2>2, <2>3, <2>4 DEF Listed
<1>3. Slid(v, m, a)
  <2>1. ASSUME NEW k \in 1..Len(v.slips)
        PROVE  IF v.slips[k].isblock
               THEN \E i \in 1..Len(v.monsters) :
                      At(v, m, a, i) = v.slips[k].pos /\ v.monsters[i].slipping
               ELSE v.upper[v.slips[k].pos] = Block
    <3>0. v.slips[k].pos \in Cell
      <4>1. v.slips[k] \in Slipper
        OBVIOUS
      <4> QED
        BY <4>1 DEF Slipper
    <3>1. CASE v.slips[k].pos = to /\ v.slips[k].isblock = FALSE
      BY <3>0, <3>1, NoCellIsNone
    <3>2. CASE v.slips[k].pos # src /\ \E j \in 1..Len(w.slips) : v.slips[k] = w.slips[j]
      <4>1. PICK j \in 1..Len(w.slips) : v.slips[k] = w.slips[j]
        BY <3>2
      <4>2. w.upper[w.slips[j].pos] = Block => w.slips[j].pos # dst
        BY TileFacts
      <4> QED
        BY <1>0, <3>0, <3>2, <4>1, <4>2 DEF Roster, Slid, SameBut
    <3> QED
      BY <3>1, <3>2 DEF Reslips
  <2>2. \A j, k \in 1..Len(v.slips) : v.slips[j].pos = v.slips[k].pos => j = k
    BY DEF Reslips, Apart
  <2>3. ASSUME NEW i \in 1..Len(v.monsters), v.monsters[i].slipping
        PROVE  \E k \in 1..Len(v.slips) : v.slips[k].pos = At(v, m, a, i) /\ v.slips[k].isblock
    <3>1. PICK j \in 1..Len(w.slips) : w.slips[j].pos = At(w, m, a, i) /\ w.slips[j].isblock
      BY <2>3 DEF Roster, Slid
    <3>2. w.slips[j].pos \in Cell
      BY SlipCells
    <3>3. w.upper[w.slips[j].pos] \in Monsters
      BY <3>1, <3>2, <2>3 DEF Roster, Listed
    <3>4. w.slips[j].pos # src
      BY <3>3
    <3>5. PICK k \in 1..Len(v.slips) : v.slips[k] = w.slips[j]
      BY <3>4 DEF Reslips
    <3> QED
      BY <1>0, <3>1, <3>5
  <2> QED
    BY <2>1, <2>2, <2>3 DEF Slid
<1> QED
  BY <1>2, <1>3 DEF Roster

\* Monster m has gone from src to dst, or has died there; the master of a clone
\* machine has stayed behind at src.
LEMMA RosterOfMonster ==
  ASSUME NEW w \in WorldType, Roster(w, 0, NoCell), NEW m \in 1..Len(w.monsters),
         NEW src \in Cell, w.monsters[m].pos = src, NEW dst \in Cell, src # dst,
         w.upper[dst] \notin Bearers,
         NEW v, v.slips \in Seq(Slipper), Len(v.monsters) = Len(w.monsters),
         \A i \in 1..Len(w.monsters) : i # m => v.monsters[i] = w.monsters[i],
         Kind(v.monsters[m].tile) = Kind(w.monsters[m].tile),
         NEW to, to = NoCell \/ to = dst, Reslips(w.slips, v.slips, src, to, TRUE),
         v.monsters[m].slipping => to = dst /\ \E k \in 1..Len(v.slips) : v.slips[k].pos = dst,
         \A k \in 1..Len(v.slips) : v.slips[k].pos = dst => v.monsters[m].slipping,
         SameBut(w, v, src, dst),
         v.upper[src] \notin Monsters \/ (v.upper[src] = w.upper[src] /\ v.lower[src] = CloneMachine),
         NEW a,
         \/ a = NoCell /\ to = NoCell /\ v.upper[dst] \notin Monsters
         \/ /\ a = dst /\ v.upper[dst] \in Monsters /\ v.lower[dst] # CloneMachine
            /\ Kind(v.upper[dst]) = Kind(v.monsters[m].tile)
  PROVE  Roster(v, m, a)
<1>0. \A i \in 1..Len(w.monsters) :
        /\ i # m => At(v, m, a, i) = w.monsters[i].pos /\ w.monsters[i].pos # src
                    /\ w.monsters[i].pos # dst /\ w.monsters[i].pos \in Cell
        /\ At(w, 0, NoCell, i) = w.monsters[i].pos
  <2>1. ASSUME NEW i \in 1..Len(w.monsters) PROVE At(w, 0, NoCell, i) = w.monsters[i].pos
    BY DEF At
  <2>2. ASSUME NEW i \in 1..Len(w.monsters), i # m
        PROVE At(v, m, a, i) = w.monsters[i].pos /\ w.monsters[i].pos # src
    BY <2>1, <2>2 DEF At, Roster, Listed
  <2>3. ASSUME NEW i \in 1..Len(w.monsters)
        PROVE  w.monsters[i].pos \in Cell /\ w.monsters[i].pos # dst
    BY <2>1, SlipCells, TileFacts DEF Roster, Listed
  <2> QED
    BY <2>1, <2>2, <2>3
<1>00. At(v, m, a, m) = a /\ a # src
  BY NoCellIsNone DEF At
<1>2. Listed(v, m, a)
  <2>1. ASSUME NEW i \in 1..Len(v.monsters), At(v, m, a, i) \in Cell
        PROVE  /\ v.upper[At(v, m, a, i)] \in Monsters
               /\ Kind(v.upper[At(v, m, a, i)]) = Kind(v.monsters[i].tile)
    <3>1. CASE i = m
      BY <1>00, <2>1, <3>1, NoCellIsNone
    <3>2. CASE i # m
      <4>1. v.upper[w.monsters[i].pos] = w.upper[w.monsters[i].pos]
        BY <1>0, <3>2 DEF SameBut
      <4> QED
        BY <1>0, <3>2, <4>1 DEF Roster, Listed
    <3> QED
      BY <3>1, <3>2
  <2>2. ASSUME NEW i \in 1..Len(v.monsters), NEW j \in 1..Len(v.monsters),
               At(v, m, a, i) = At(v, m, a, j)
        PROVE  i = j
    BY <1>0, <1>00, <2>2, NoCellIsNone DEF Roster, Listed
  <2>3. ASSUME NEW x \in Cell, v.upper[x] \in Monsters, v.lower[x] # CloneMachine
        PROVE  \E i \in 1..Len(v.monsters) : At(v, m, a, i) = x
    <3>1. CASE x = dst
      BY <1>00, <2>3, <3>1
    <3>2. CASE x = src
      BY <2>3, <3>2
    <3>3. CASE x # src /\ x # dst
      <4>1. PICK i \in 1..Len(w.monsters) : At(w, 0, NoCell, i) = x
        BY <2>3, <3>3 DEF Roster, Listed, SameBut
      <4> QED
        BY <1>0, <3>3, <4>1
    <3> QED
      BY <3>1, <3>2, <3>3
  <2>4. a \in Cell => v.lower[a] # CloneMachine
    BY NoCellIsNone
  <2> QED
    BY <2>1, <2>2, <2>3, <2>4 DEF Listed
<1>3. Slid(v, m, a)
  <2>1. ASSUME NEW k \in 1..Len(v.slips)
        PROVE  IF v.slips[k].isblock
               THEN \E i \in 1..Len(v.monsters) :
                      At(v, m, a, i) = v.slips[k].pos /\ v.monsters[i].slipping
               ELSE v.upper[v.slips[k].pos] = Block
    <3>0. v.slips[k].pos \in Cell
      <4>1. v.slips[k] \in Slipper
        OBVIOUS
      <4> QED
        BY <4>1 DEF Slipper
    <3>1. CASE v.slips[k].pos = to /\ v.slips[k].isblock = TRUE
      <4>1. to = dst /\ a = dst
        BY <3>0, <3>1, NoCellIsNone
      <4> QED
        BY <1>00, <3>1, <4>1
    <3>2. CASE v.slips[k].pos # src /\ \E j \in 1..Len(w.slips) : v.slips[k] = w.slips[j]
      <4>1. PICK j \in 1..Len(w.slips) : v.slips[k] = w.slips[j]
        BY <3>2
      <4>2. CASE w.slips[j].isblock
        <5>1. PICK i \in 1..Len(w.monsters) : At(w, 0, NoCell, i) = w.slips[j].pos
                                              /\ w.monsters[i].slipping
          BY <4>2 DEF Roster, Slid
        <5>2. i # m
          BY <1>0, <3>2, <4>1, <5>1
        <5>3. At(v, m, a, i) = v.slips[k].pos /\ v.monsters[i].slipping
          BY <1>0, <4>1, <5>1, <5>2
        <5> QED
          BY <4>1, <4>2, <5>3
      <4>3. CASE ~w.slips[j].isblock
        <5>1. w.upper[w.slips[j].pos] = Block
          BY <4>3 DEF Roster, Slid
        <5>2. w.slips[j].pos # dst
          BY <5>1, TileFacts
        <5> QED
          BY <3>0, <3>2, <4>1, <4>3, <5>1, <5>2 DEF SameBut
      <4> QED
        BY <4>2, <4>3
    <3> QED
      BY <3>1, <3>2 DEF Reslips
  <2>2. \A j, k \in 1..Len(v.slips) : v.slips[j].pos = v.slips[k].pos => j = k
    BY DEF Reslips, Apart
  <2>3. ASSUME NEW i \in 1..Len(v.monsters), v.monsters[i].slipping
        PROVE  \E k \in 1..Len(v.slips) : v.slips[k].pos = At(v, m, a, i) /\ v.slips[k].isblock
    <3>1. CASE i = m
      <4>1. PICK k \in 1..Len(v.slips) : v.slips[k].pos = dst
        BY <2>3, <3>1
      <4>2. to = dst /\ a = dst
        BY <2>3, <3>1, NoCellIsNone
      <4>3. \A j \in 1..Len(w.slips) : w.slips[j].pos # dst
        <5> SUFFICES ASSUME NEW j \in 1..Len(w.slips), w.slips[j].pos = dst PROVE FALSE
          OBVIOUS
        <5>1. CASE w.slips[j].isblock
          <6>1. PICK l \in 1..Len(w.monsters) : At(w, 0, NoCell, l) = w.slips[j].pos
            BY <5>1 DEF Roster, Slid
          <6>2. w.upper[dst] \in Monsters
            BY <6>1 DEF Roster, Listed
          <6> QED
            BY <6>2, TileFacts
        <5>2. CASE ~w.slips[j].isblock
          <6>1. w.upper[dst] = Block
            BY <5>2 DEF Roster, Slid
          <6> QED
            BY <6>1, TileFacts
        <5> QED
          BY <5>1, <5>2
      <4>4. v.slips[k].isblock = TRUE
        BY <4>1, <4>2, <4>3 DEF Reslips
      <4> QED
        BY <1>00, <3>1, <4>1, <4>2, <4>4
    <3>2. CASE i # m
      <4>0. w.monsters[i].slipping
        BY <2>3, <3>2
      <4>1. PICK j \in 1..Len(w.slips) : w.slips[j].pos = At(w, 0, NoCell, i) /\ w.slips[j].isblock
        BY <4>0 DEF Roster, Slid
      <4>2. w.slips[j].pos = At(v, m, a, i) /\ w.slips[j].pos # src
        BY <1>0, <3>2, <4>1
      <4>3. PICK k \in 1..Len(v.slips) : v.slips[k] = w.slips[j]
        BY <4>2 DEF Reslips
      <4> QED
        BY <4>1, <4>2, <4>3
    <3> QED
      BY <3>1, <3>2
  <2> QED
    BY <2>1, <2>2, <2>3 DEF Slid
<1> QED
  BY <1>2, <1>3 DEF Roster

-----------------------------------------------------------------------------
(***************************************************************************)
(* Finding and deleting entries.                                           *)
(***************************************************************************)

\* What FindMonster and FindSlipper find.
LEMMA Found ==
  ASSUME NEW w \in WorldType, NEW p
  PROVE  /\ IF FindSlipper(w, p) = 0 THEN \A k \in 1..Len(w.slips) : w.slips[k].pos # p
            ELSE FindSlipper(w, p) \in 1..Len(w.slips) /\ w.slips[FindSlipper(w, p)].pos = p
         /\ IF FindMonster(w, p) = 0 THEN \A i \in 1..Len(w.monsters) : w.monsters[i].pos # p
            ELSE /\ FindMonster(w, p) \in 1..Len(w.monsters)
                 /\ w.monsters[FindMonster(w, p)].pos = p
<1> DEFINE S == {i \in 1..Len(w.slips) : w.slips[i].pos = p}
           M == {i \in 1..Len(w.monsters) : w.monsters[i].pos = p}
<1>1. FindSlipper(w, p) = First(S) /\ FindMonster(w, p) = First(M)
  BY DEF FindSlipper, FindMonster
<1>2. Len(w.slips) \in Nat /\ Len(w.monsters) \in Nat
  BY WorldParts
<1>3. First(S) \in 0..Len(w.slips) /\ (First(S) # 0 => First(S) \in S) /\ (S = {} <=> First(S) = 0)
  BY <1>2, FirstIndex
<1>4. First(M) \in 0..Len(w.monsters) /\ (First(M) # 0 => First(M) \in M) /\ (M = {} <=> First(M) = 0)
  BY <1>2, FirstIndex
<1>5. CASE First(S) = 0 /\ First(M) = 0
  BY <1>1, <1>3, <1>4, <1>5
<1>6. CASE First(S) # 0 /\ First(M) = 0
  BY <1>1, <1>3, <1>4, <1>6
<1>7. CASE First(S) = 0 /\ First(M) # 0
  BY <1>1, <1>3, <1>4, <1>7
<1>8. CASE First(S) # 0 /\ First(M) # 0
  BY <1>1, <1>3, <1>4, <1>8
<1> QED
  BY <1>5, <1>6, <1>7, <1>8

LEMMA FoundOne ==
  ASSUME NEW w \in WorldType, NEW p
  PROVE  /\ \A i \in 1..Len(w.slips) :
              w.slips[i].pos = p /\ Apart(w.slips) => FindSlipper(w, p) = i
         /\ \A i \in 1..Len(w.monsters) :
              /\ w.monsters[i].pos = p
              /\ \A j \in 1..Len(w.monsters) : w.monsters[j].pos = p => j = i
              => FindMonster(w, p) = i
<1>1. ASSUME NEW i \in 1..Len(w.slips), w.slips[i].pos = p, Apart(w.slips)
      PROVE  FindSlipper(w, p) = i
  BY <1>1, Found DEF Apart
<1>2. ASSUME NEW i \in 1..Len(w.monsters), w.monsters[i].pos = p,
             \A j \in 1..Len(w.monsters) : w.monsters[j].pos = p => j = i
      PROVE  FindMonster(w, p) = i
  BY <1>2, Found
<1> QED
  BY <1>1, <1>2

\* The layers and everything else that is not a list of movers stay.
SameLayers(w, v) == /\ v.level = w.level /\ v.upper = w.upper /\ v.lower = w.lower
                    /\ v.autopsy = w.autopsy

\* DeleteSlipperAt, where a block is or nothing slides.
LEMMA UnslipsBlock ==
  ASSUME NEW w \in WorldType, NEW src, Apart(w.slips),
         \A k \in 1..Len(w.slips) : w.slips[k].pos = src => ~w.slips[k].isblock,
         NEW v, v = DeleteSlipperAt(w, src), NEW to, NEW b
  PROVE  /\ v \in WorldType /\ SameLayers(w, v) /\ v.monsters = w.monsters
         /\ Reslips(w.slips, v.slips, src, to, b)
         /\ \A k \in 1..Len(v.slips) : v.slips[k].pos # src
<1> DEFINE i == FindSlipper(w, src)
<1>1. v \in WorldType
  BY DeleteSlipperAtFollows DEF Follows
<1>2. w.slips \in Seq(Slipper)
  BY WorldParts
<1>3. CASE i = 0
  <2>1. v = w /\ \A k \in 1..Len(w.slips) : w.slips[k].pos # src
    BY <1>3, Found DEF DeleteSlipperAt
  <2> QED
    BY <1>1, <1>2, <2>1, ReslipsNot DEF SameLayers
<1>4. CASE i # 0
  <2>1. i \in 1..Len(w.slips) /\ w.slips[i].pos = src
    BY <1>4, Found
  <2>2. v = [w EXCEPT !.slips = RemoveAt(w.slips, i)]
    BY <1>4, <2>1 DEF DeleteSlipperAt
  <2> HIDE DEF i
  <2>3. SameLayers(w, v) /\ v.monsters = w.monsters /\ v.slips = RemoveAt(w.slips, i)
    BY <2>2 DEF SameLayers, WorldType
  <2>4. /\ Reslips(w.slips, RemoveAt(w.slips, i), w.slips[i].pos, to, b)
        /\ \A k \in 1..Len(RemoveAt(w.slips, i)) : RemoveAt(w.slips, i)[k].pos # w.slips[i].pos
    BY <1>2, <2>1, ReslipsRemoved
  <2> QED
    BY <1>1, <2>1, <2>3, <2>4
<1> QED
  BY <1>3, <1>4

\* Monster m is at src, and slips if and only if the slip list has src.
SlipsAt(w, m, src) ==
  /\ m \in 1..Len(w.monsters) /\ w.monsters[m].pos = src /\ FindMonster(w, src) = m
  /\ Apart(w.slips)
  /\ w.monsters[m].slipping <=> \E k \in 1..Len(w.slips) : w.slips[k].pos = src
  /\ \A k \in 1..Len(w.slips) : w.slips[k].pos = src => w.slips[k].isblock

\* Only entry m of the monster list may have changed, and not in its place or kind.
OnlyMonster(w, v, m) ==
  /\ Len(v.monsters) = Len(w.monsters)
  /\ \A i \in 1..Len(w.monsters) : i # m => v.monsters[i] = w.monsters[i]
  /\ v.monsters[m].pos = w.monsters[m].pos
  /\ Kind(v.monsters[m].tile) = Kind(w.monsters[m].tile)

\* The monster's flag is clear, and nothing slides at src.
OffList(w, m, src) == ~w.monsters[m].slipping /\ ~Slips(w.slips, src)

LEMMA UnslipsMonster ==
  ASSUME NEW w \in WorldType, NEW m, NEW src, SlipsAt(w, m, src),
         NEW v, v = DeleteSlipperAt(w, src), NEW to, NEW b
  PROVE  /\ v \in WorldType /\ SameLayers(w, v) /\ OnlyMonster(w, v, m)
         /\ OffList(v, m, src) /\ v.monsters[m].dir = w.monsters[m].dir
         /\ Reslips(w.slips, v.slips, src, to, b)
<1> DEFINE i == FindSlipper(w, src)
<1>1. v \in WorldType
  BY DeleteSlipperAtFollows DEF Follows
<1>2. /\ w.slips \in Seq(Slipper) /\ w.monsters \in Seq(Monster) /\ Len(w.monsters) \in Nat
      /\ m \in 1..Len(w.monsters) /\ w.monsters[m] \in Monster
  BY WorldParts DEF SlipsAt
<1>3. CASE i = 0
  <2>1. v = w /\ \A k \in 1..Len(w.slips) : w.slips[k].pos # src
    BY <1>3, Found DEF DeleteSlipperAt
  <2>2. w.monsters[m].slipping = FALSE
    BY <1>2, <2>1 DEF SlipsAt, Monster
  <2> QED
    BY <1>1, <1>2, <2>1, <2>2, ReslipsNot DEF SameLayers, OnlyMonster, SlipsAt, OffList, Slips
<1>4. CASE i # 0
  <2>1. i \in 1..Len(w.slips) /\ w.slips[i].pos = src
    BY <1>4, Found
  <2>2. v = [Unmark(w, m) EXCEPT !.slips = RemoveAt(Unmark(w, m).slips, i)]
    BY <1>4, <2>1 DEF DeleteSlipperAt, SlipsAt
  <2> HIDE DEF i
  <2> DEFINE e == [w.monsters[m] EXCEPT !.slipping = FALSE]
             s == [w.monsters EXCEPT ![m] = e]
  <2>3. Unmark(w, m) = [w EXCEPT !.monsters = s]
    BY <1>2 DEF Unmark, WorldType
  <2>4. /\ e.pos = w.monsters[m].pos /\ e.tile = w.monsters[m].tile
        /\ e.dir = w.monsters[m].dir /\ e.slipping = FALSE
    BY <1>2 DEF Monster
  <2> HIDE DEF e
  <2>5. /\ Len(s) = Len(w.monsters) /\ s[m] = e
        /\ \A j \in 1..Len(w.monsters) : j # m => s[j] = w.monsters[j]
    BY <1>2
  <2> HIDE DEF s
  <2>6. v = [w EXCEPT !.monsters = s, !.slips = RemoveAt(w.slips, i)]
    BY <2>2, <2>3 DEF WorldType
  <2>7. SameLayers(w, v) /\ v.monsters = s /\ v.slips = RemoveAt(w.slips, i)
    BY <2>6 DEF SameLayers, WorldType
  <2>8. OnlyMonster(w, v, m) /\ v.monsters[m].slipping = FALSE
        /\ v.monsters[m].dir = w.monsters[m].dir
    BY <2>4, <2>5, <2>7 DEF OnlyMonster
  <2>9. Apart(w.slips)
    BY DEF SlipsAt
  <2> QED
    BY <1>1, <1>2, <2>1, <2>7, <2>8, <2>9, ReslipsRemoved DEF OffList, Slips
<1> QED
  BY <1>3, <1>4

-----------------------------------------------------------------------------
(***************************************************************************)
(* SlideMovement.                                                          *)
(***************************************************************************)

\* The entry that SlideMovement makes or changes.
SlideEntry(w, src, dst, nd, isMonster, f) ==
  [tile |-> IF f = Keep THEN w.upper[src] ELSE f, pos |-> dst, dir |-> nd,
   isblock |-> isMonster]

IsListed(w, src, e, t) ==
  t = IF FindSlipper(w, src) = 0 THEN Append(w.slips, e)
      ELSE [w.slips EXCEPT ![FindSlipper(w, src)] = e]

LEMMA SlideLists ==
  ASSUME NEW w \in WorldType, NEW src, NEW e \in Slipper, Apart(w.slips),
         \A k \in 1..Len(w.slips) : w.slips[k].pos = e.pos => w.slips[k].pos = src,
         NEW t, IsListed(w, src, e, t)
  PROVE  Reslips(w.slips, t, src, e.pos, e.isblock) /\ Slips(t, e.pos)
<1> DEFINE i == FindSlipper(w, src)
<1>1. w.slips \in Seq(Slipper)
  BY WorldParts
<1>2. CASE i = 0
  <2>1. IsAppended(w.slips, e, t)
    BY <1>2 DEF IsListed, IsAppended
  <2>2. \A k \in 1..Len(w.slips) : w.slips[k].pos # src /\ w.slips[k].pos # e.pos
    BY <1>2, Found
  <2> QED
    BY <1>1, <2>1, <2>2, ReslipsAppended
<1>3. CASE i # 0
  <2>1. i \in 1..Len(w.slips) /\ w.slips[i].pos = src
    BY <1>3, Found
  <2>2. IsChanged(w.slips, i, e, t)
    BY <1>3 DEF IsListed, IsChanged
  <2> HIDE DEF i
  <2>3. \A k \in 1..Len(w.slips) : w.slips[k].pos = e.pos => k = i
    BY <2>1 DEF Apart
  <2>4. Reslips(w.slips, t, w.slips[i].pos, e.pos, e.isblock) /\ Slips(t, e.pos)
    BY <1>1, <2>1, <2>2, <2>3, ReslipsChanged
  <2> QED
    BY <2>1, <2>4
<1> QED
  BY <1>2, <1>3

\* Only the slip list may have changed.
OnlySlips(w, v) == SameLayers(w, v) /\ v.monsters = w.monsters

\* ListSlipper with the flag of a block and with that of a monster.
ListBlock(w, src, dst, nd, f) ==
  ListSlipper(w, FindSlipper(w, src), src, dst, nd, FALSE, f)
ListBeast(w, src, dst, nd, f) ==
  ListSlipper(w, FindSlipper(w, src), src, dst, nd, TRUE, f)

LEMMA SlideLayers ==
  ASSUME NEW w \in WorldType, NEW src \in Cell, NEW dst \in Cell, NEW nd \in Dir,
         NEW f \in Facing, Apart(w.slips),
         \A k \in 1..Len(w.slips) : w.slips[k].pos = dst => w.slips[k].pos = src
  PROVE  LET u == ListBlock(w, src, dst, nd, f)
             v == ListBeast(w, src, dst, nd, f)
         IN  /\ u \in WorldType /\ OnlySlips(w, u)
             /\ Reslips(w.slips, u.slips, src, dst, FALSE)
             /\ v \in WorldType /\ OnlySlips(w, v)
             /\ Reslips(w.slips, v.slips, src, dst, TRUE)
             /\ Slips(v.slips, dst)
<1> DEFINE i == FindSlipper(w, src)
           u == ListBlock(w, src, dst, nd, f)
           v == ListBeast(w, src, dst, nd, f)
           eu == SlideEntry(w, src, dst, nd, FALSE, f)
           ev == SlideEntry(w, src, dst, nd, TRUE, f)
<1>1. i \in 0..Len(w.slips)
  BY Indices
<1>2. u \in WorldType /\ v \in WorldType
  BY <1>1, ListSlipperFollows DEF Follows, ListBlock, ListBeast
<1>3. w.upper[src] \in Tile
  BY WorldParts
<1>4. eu \in Slipper /\ ev \in Slipper
  BY <1>3 DEF SlideEntry, Slipper, Facing
<1>5. eu.pos = dst /\ ev.pos = dst /\ eu.isblock = FALSE /\ ev.isblock = TRUE
  BY DEF SlideEntry
<1>6. /\ u = [w EXCEPT !.slips = IF i = 0 THEN Append(w.slips, eu) ELSE [w.slips EXCEPT ![i] = eu]]
      /\ v = [w EXCEPT !.slips = IF i = 0 THEN Append(w.slips, ev) ELSE [w.slips EXCEPT ![i] = ev]]
  BY DEF ListSlipper, SlideEntry, ListBlock, ListBeast
<1> HIDE DEF eu, ev, u, v
<1>7. OnlySlips(w, u) /\ OnlySlips(w, v)
  BY <1>6 DEF SameLayers, OnlySlips, WorldType
<1>8. IsListed(w, src, eu, u.slips) /\ IsListed(w, src, ev, v.slips)
  BY <1>6 DEF WorldType, IsListed
<1>9. /\ Reslips(w.slips, u.slips, src, eu.pos, eu.isblock)
      /\ Reslips(w.slips, v.slips, src, ev.pos, ev.isblock)
      /\ Slips(v.slips, ev.pos)
  <2>1. /\ \A k \in 1..Len(w.slips) : w.slips[k].pos = eu.pos => w.slips[k].pos = src
        /\ \A k \in 1..Len(w.slips) : w.slips[k].pos = ev.pos => w.slips[k].pos = src
    BY <1>5
  <2> QED
    BY <1>4, <1>8, <2>1, SlideLists
<1>10. /\ Reslips(w.slips, u.slips, src, dst, FALSE) /\ Reslips(w.slips, v.slips, src, dst, TRUE)
       /\ Slips(v.slips, dst)
  BY <1>5, <1>9
<1> QED
  BY <1>2, <1>7, <1>10 DEF u, v

\* SlideMovement for a block and for a monster.
SlideBlock(w, src, dst, d, facing, rnd) == Slide(w, src, dst, d, FALSE, facing, rnd)
SlideBeast(w, src, dst, d, facing, rnd) == Slide(w, src, dst, d, TRUE, facing, rnd)

LEMMA SlidesBlock ==
  ASSUME NEW w \in WorldType, NEW src \in Cell, NEW dst \in Cell, NEW d \in Dir,
         NEW facing \in Facing, NEW rnd \in Dir, Apart(w.slips),
         \A k \in 1..Len(w.slips) : w.slips[k].pos = dst => w.slips[k].pos = src,
         NEW v, v = SlideBlock(w, src, dst, d, facing, rnd).w
  PROVE  v \in WorldType /\ OnlySlips(w, v) /\ Reslips(w.slips, v.slips, src, dst, FALSE)
<1> DEFINE i == FindSlipper(w, src)
           old == IF i = 0 THEN rnd ELSE w.slips[i].dir
           nd == SlideDir(SlideTile(w, src, dst), d, old, rnd)
<1>1. CASE i = 0 /\ Len(w.slips) >= SlipLimit
  <2>1. v = w
    BY <1>1 DEF Slide, SlideBlock
  <2>2. \A k \in 1..Len(w.slips) : w.slips[k].pos # src
    BY <1>1, Found
  <2> QED
    BY <2>1, <2>2, WorldParts, ReslipsNot DEF SameLayers, OnlySlips
<1>2. CASE ~(i = 0 /\ Len(w.slips) >= SlipLimit)
  <2>1. old \in Dir
    BY Found, WorldParts DEF Slipper
  <2>2. nd \in Dir
    BY <2>1, SlideDirType
  <2>3. v = ListSlipper(w, i, src, dst, nd, FALSE, facing)
    BY <1>2 DEF Slide, SlideOnto, SlideBlock
  <2>4. v = ListBlock(w, src, dst, nd, facing)
    BY <2>3 DEF ListBlock
  <2> HIDE DEF nd, i
  <2> QED
    BY <2>2, <2>4, SlideLayers
<1> QED
  BY <1>1, <1>2

LEMMA KindOf ==
  /\ \A t \in Tile : \A d : SetTileDir(t, d) \in Tile /\ Kind(SetTileDir(t, d)) = Kind(t)
  /\ \A t \in Tile, u \in Monsters : Kind(t) = Kind(u) => t \in Monsters
  /\ \A t \in Tile : Kind(ReverseTile(t)) = Kind(t) /\ ReverseTile(t) \in Tile
<1>1. ASSUME NEW t \in Tile, NEW d PROVE Kind(SetTileDir(t, d)) = Kind(t) /\ SetTileDir(t, d) \in Tile
  <2>1. CASE d \in Compass
    <3>1. DirIndex(d) \in 0..3
      BY <2>1, DirIndexType
    <3>2. \A n \in 0..3 : Kind(Kind(t) + n) = Kind(t)
      BY DEF Kind, Tile
    <3> QED
      BY <2>1, <3>1, <3>2, FacingType DEF SetTileDir
  <2>2. CASE d \notin Compass
    BY <2>2 DEF SetTileDir
  <2> QED
    BY <2>1, <2>2
<1>2. \A t \in Tile, u \in Monsters : Kind(t) = Kind(u) => t \in Monsters
  BY DEF Kind, Monsters, Tile, Bug, Paramecium
<1> QED
  BY <1>1, <1>2 DEF ReverseTile

\* A facing that shows the same kind of thing.
Faces(f, t) == f = Keep \/ (f \in Tile /\ Kind(f) = Kind(t))

\* SlideMovement for monster m.
FlagTells(w, m, dst) == IF w.monsters[m].slipping THEN Slips(w.slips, dst)
                        ELSE ~Slips(w.slips, dst)

LEMMA SlidesMonster ==
  ASSUME NEW w \in WorldType, NEW m, NEW src \in Cell, SlipsAt(w, m, src),
         NEW dst \in Cell, NEW d \in Dir, NEW facing \in Facing, NEW rnd \in Dir,
         \A k \in 1..Len(w.slips) : w.slips[k].pos = dst => w.slips[k].pos = src,
         Faces(facing, w.monsters[m].tile),
         NEW s, s = SlideBeast(w, src, dst, d, facing, rnd)
  PROVE  /\ s.w \in WorldType /\ SameLayers(w, s.w) /\ OnlyMonster(w, s.w, m)
         /\ s.d \in Dir /\ Faces(s.facing, w.monsters[m].tile)
         /\ Reslips(w.slips, s.w.slips, src, dst, TRUE)
         /\ FlagTells(s.w, m, dst)
<1> DEFINE i == FindSlipper(w, src)
           old == IF i = 0 THEN rnd ELSE w.slips[i].dir
           nd == SlideDir(SlideTile(w, src, dst), d, old, rnd)
           f == IF facing # Keep THEN SetTileDir(facing, d) ELSE facing
           listed == ListSlipper(w, i, src, dst, nd, TRUE, f)
<1>1. SlideResult(w, s)
  BY SlideType DEF SlideBeast
<1>2. s.w \in WorldType /\ s.d \in Dir
  BY <1>1 DEF SlideResult, Follows
<1>3. /\ m \in 1..Len(w.monsters) /\ w.monsters[m] \in Monster /\ Len(w.monsters) \in Nat
      /\ w.monsters \in Seq(Monster)
  BY WorldParts DEF SlipsAt
<1>4. CASE i = 0 /\ Len(w.slips) >= SlipLimit
  <2>1. s = [w |-> w, d |-> d, facing |-> facing]
    BY <1>4 DEF Slide, SlideBeast
  <2>2. \A k \in 1..Len(w.slips) : w.slips[k].pos # src
    BY <1>4, Found
  <2>3. w.monsters[m].slipping = FALSE
    BY <1>3, <2>2 DEF SlipsAt, Monster
  <2>4. Reslips(w.slips, w.slips, src, dst, TRUE)
    BY <2>2, WorldParts, ReslipsNot DEF SlipsAt
  <2>5. s.w = w /\ s.facing = facing
    BY <2>1
  <2>6. ~Slips(w.slips, dst)
    BY <2>2 DEF Slips
  <2> QED
    BY <1>2, <1>3, <2>3, <2>4, <2>5, <2>6 DEF SameLayers, OnlyMonster, FlagTells
<1>5. CASE ~(i = 0 /\ Len(w.slips) >= SlipLimit)
  <2>1. old \in Dir
    BY Found, WorldParts DEF Slipper
  <2>2. nd \in Dir
    BY <2>1, SlideDirType
  <2>3. f \in Facing /\ Faces(f, w.monsters[m].tile)
    <3>1. facing # Keep => facing \in Tile
      BY DEF Faces
    <3> QED
      BY <3>1, KindOf DEF Faces, Facing
  <2>4. s = [w |-> MarkSlipping(listed, m, f), d |-> nd, facing |-> f]
    BY <1>5 DEF Slide, SlideOnto, SlipsAt, SlideBeast
  <2> HIDE DEF nd, f, old
  <2>5. /\ listed \in WorldType /\ SameLayers(w, listed) /\ listed.monsters = w.monsters
        /\ Reslips(w.slips, listed.slips, src, dst, TRUE)
        /\ Slips(listed.slips, dst)
    <3>1. listed = ListBeast(w, src, dst, nd, f)
      BY DEF ListBeast
    <3>2. Apart(w.slips)
      BY DEF SlipsAt
    <3> HIDE DEF listed, i
    <3> QED
      <4>1. /\ listed \in WorldType /\ OnlySlips(w, listed)
            /\ Reslips(w.slips, listed.slips, src, dst, TRUE) /\ Slips(listed.slips, dst)
        BY <2>2, <2>3, <3>1, <3>2, SlideLayers
      <4> QED
        BY <4>1 DEF OnlySlips
  <2> HIDE DEF listed, i
  <2> DEFINE e == Marked(w.monsters[m], f)
             ms == [w.monsters EXCEPT ![m] = e]
  <2>6. MarkSlipping(listed, m, f) = [listed EXCEPT !.monsters = ms]
    <3>1. m # 0
      BY <1>3
    <3>2. MarkSlipping(listed, m, f) = [listed EXCEPT !.monsters[m] = Marked(listed.monsters[m], f)]
      BY <3>1 DEF MarkSlipping
    <3> HIDE DEF e
    <3>3. MarkSlipping(listed, m, f) = [listed EXCEPT !.monsters[m] = e]
      BY <2>5, <3>2 DEF e
    <3>4. [listed EXCEPT !.monsters[m] = e] = [listed EXCEPT !.monsters = ms]
      BY <2>5
    <3> QED
      BY <3>3, <3>4
  <2>7. e.slipping = TRUE /\ e.pos = w.monsters[m].pos /\ Kind(e.tile) = Kind(w.monsters[m].tile)
    BY <1>3, <2>3 DEF Marked, Monster, Faces
  <2> HIDE DEF e
  <2>8. /\ Len(ms) = Len(w.monsters) /\ ms[m] = e
        /\ \A j \in 1..Len(w.monsters) : j # m => ms[j] = w.monsters[j]
    BY <1>3
  <2> HIDE DEF ms
  <2>9. s.w = [listed EXCEPT !.monsters = ms] /\ s.facing = f
    BY <2>4, <2>6
  <2>10. SameLayers(w, s.w) /\ s.w.monsters = ms /\ s.w.slips = listed.slips
    BY <2>5, <2>9 DEF SameLayers, WorldType
  <2>11. OnlyMonster(w, s.w, m) /\ s.w.monsters[m].slipping = TRUE
    BY <2>7, <2>8, <2>10 DEF OnlyMonster
  <2> QED
    BY <1>2, <2>3, <2>5, <2>9, <2>10, <2>11 DEF FlagTells
<1> QED
  BY <1>4, <1>5

-----------------------------------------------------------------------------
(***************************************************************************)
(* What a block leaves behind and what it makes of where it goes.          *)
(***************************************************************************)

LEMMA RosterSlips ==
  ASSUME NEW w \in WorldType, NEW m \in 0..Len(w.monsters), NEW a, m = 0 => a = NoCell,
         Roster(w, m, a)
  PROVE  /\ Apart(w.slips)
         /\ \A k \in 1..Len(w.slips) :
              IF w.slips[k].isblock THEN w.upper[w.slips[k].pos] \in Monsters
              ELSE w.upper[w.slips[k].pos] = Block
         /\ \A k \in 1..Len(w.slips) :
              w.upper[w.slips[k].pos] \notin Monsters => ~w.slips[k].isblock
<1>1. Apart(w.slips)
  BY DEF Roster, Slid, Apart
<1>2. ASSUME NEW k \in 1..Len(w.slips)
      PROVE  IF w.slips[k].isblock THEN w.upper[w.slips[k].pos] \in Monsters
             ELSE w.upper[w.slips[k].pos] = Block
  <2>1. CASE w.slips[k].isblock
    <3>1. PICK i \in 1..Len(w.monsters) : At(w, m, a, i) = w.slips[k].pos
      BY <2>1 DEF Roster, Slid
    <3>2. w.slips[k].pos \in Cell
      BY SlipCells
    <3> QED
      BY <2>1, <3>1, <3>2 DEF Roster, Listed
  <2>2. CASE ~w.slips[k].isblock
    BY <2>2 DEF Roster, Slid
  <2> QED
    BY <2>1, <2>2
<1> QED
  BY <1>1, <1>2

LEMMA RosterSlipsAt ==
  ASSUME NEW w \in WorldType, Roster(w, 0, NoCell), NEW m \in 1..Len(w.monsters)
  PROVE  /\ SlipsAt(w, m, w.monsters[m].pos) /\ w.monsters[m].pos \in Cell
         /\ w.upper[w.monsters[m].pos] \in Monsters
         /\ Kind(w.upper[w.monsters[m].pos]) = Kind(w.monsters[m].tile)
<1> DEFINE src == w.monsters[m].pos
<1>0. \A i \in 1..Len(w.monsters) : At(w, 0, NoCell, i) = w.monsters[i].pos
  BY DEF At
<1>1. src \in Cell
  BY SlipCells
<1>2. w.upper[src] \in Monsters /\ Kind(w.upper[src]) = Kind(w.monsters[m].tile)
  BY <1>0, <1>1 DEF Roster, Listed
<1>3. \A i \in 1..Len(w.monsters) : w.monsters[i].pos = src => i = m
  BY <1>0 DEF Roster, Listed
<1>4. FindMonster(w, src) = m
  BY <1>3, FoundOne
<1>5. Apart(w.slips)
  BY DEF Roster, Slid, Apart
<1>6. \A k \in 1..Len(w.slips) : w.slips[k].pos = src => w.slips[k].isblock
  BY <1>2, TileFacts DEF Roster, Slid
<1>7. ASSUME NEW k \in 1..Len(w.slips), w.slips[k].pos = src PROVE w.monsters[m].slipping
  <2>1. PICK i \in 1..Len(w.monsters) : At(w, 0, NoCell, i) = w.slips[k].pos /\ w.monsters[i].slipping
    BY <1>6, <1>7 DEF Roster, Slid
  <2>2. i = m
    BY <1>0, <1>3, <1>7, <2>1
  <2> QED
    BY <2>1, <2>2
<1>8. w.monsters[m].slipping => \E k \in 1..Len(w.slips) : w.slips[k].pos = src
  BY <1>0 DEF Roster, Slid
<1> QED
  BY <1>1, <1>2, <1>4, <1>5, <1>6, <1>7, <1>8 DEF SlipsAt
-----------------------------------------------------------------------------
\* What a mover leaves behind at src.
LeftBehind(w, src) == IF w.lower[src] = CloneMachine THEN w.upper[src] ELSE w.lower[src]

\* The mover went from src to dst, where top is seen now, and beneath under it.
Laid(w, v, src, dst, top, beneath) ==
  /\ v.level = w.level /\ v.autopsy = w.autopsy
  /\ v.upper[src] = LeftBehind(w, src) /\ v.upper[dst] = top
  /\ v.lower[src] = IF w.lower[src] = CloneMachine THEN CloneMachine ELSE Floor
  /\ v.lower[dst] = beneath
  /\ SameBut(w, v, src, dst)

LEMMA LaysOut ==
  ASSUME NEW w \in WorldType, NEW src \in Cell, NEW dst \in Cell, src # dst, NEW top \in Tile,
         NEW u, NEW v, u = SetUpper(w, dst, top), v = Uncover(u, src)
  PROVE  /\ v \in WorldType /\ Laid(w, v, src, dst, top, w.lower[dst])
         /\ v.monsters = w.monsters /\ v.slips = w.slips
<1>1. u \in WorldType
  BY SetUpperFollows DEF Follows
<1>2. v \in WorldType
  BY <1>1, UncoverFollows DEF Follows
<1>3. w.upper \in [Cell -> Tile] /\ w.lower \in [Cell -> Tile]
  BY WorldParts
<1>4. /\ u.level = w.level /\ u.autopsy = w.autopsy /\ u.monsters = w.monsters
      /\ u.slips = w.slips /\ u.lower = w.lower /\ u.upper = [w.upper EXCEPT ![dst] = top]
  BY DEF SetUpper, WorldType
<1>5. CASE w.lower[src] = CloneMachine
  <2>1. v = u
    BY <1>4, <1>5 DEF Uncover
  <2> QED
    BY <1>2, <1>3, <1>4, <1>5, <2>1 DEF Laid, LeftBehind, SameBut
<1>6. CASE w.lower[src] # CloneMachine
  <2>1. v = Pop(u, src)
    BY <1>4, <1>6 DEF Uncover
  <2>2. /\ v.level = u.level /\ v.autopsy = u.autopsy /\ v.monsters = u.monsters
        /\ v.slips = u.slips /\ v.lower = [u.lower EXCEPT ![src] = Floor]
        /\ v.upper = [u.upper EXCEPT ![src] = u.lower[src]]
    BY <1>1, <2>1 DEF Pop, SetUpper, SetLower, WorldType
  <2> QED
    BY <1>2, <1>3, <1>4, <1>6, <2>2 DEF Laid, LeftBehind, SameBut
<1> QED
  BY <1>5, <1>6

LEMMA Covers ==
  ASSUME NEW w \in WorldType, NEW dst \in Cell, NEW acts, NEW act,
         NEW v, v = CoverFor(w, acts, act, dst)
  PROVE  /\ v \in WorldType /\ v.level = w.level /\ v.autopsy = w.autopsy
         /\ v.monsters = w.monsters /\ v.slips = w.slips /\ v.upper = w.upper
         /\ v.lower[dst] = IF act \in acts THEN w.upper[dst] ELSE w.lower[dst]
         /\ \A x \in Cell : x # dst => v.lower[x] = w.lower[x]
<1>1. v \in WorldType
  BY CoverForFollows DEF Follows
<1>2. w.lower \in [Cell -> Tile]
  BY WorldParts
<1>3. CASE act \in acts
  <2>1. v = SetLower(w, dst, w.upper[dst])
    BY <1>3 DEF CoverFor, Push
  <2>2. /\ v.level = w.level /\ v.autopsy = w.autopsy /\ v.monsters = w.monsters
        /\ v.slips = w.slips /\ v.upper = w.upper
        /\ v.lower = [w.lower EXCEPT ![dst] = w.upper[dst]]
    BY <2>1 DEF SetLower, WorldType
  <2> QED
    BY <1>1, <1>2, <1>3, <2>2
<1>4. CASE act \notin acts
  BY <1>1, <1>4 DEF CoverFor
<1> QED
  BY <1>3, <1>4

LEMMA Shuts ==
  ASSUME NEW w \in WorldType, NEW act, NEW dst, NEW src,
         NEW v, v = ShutFor(w, act, dst, src)
  PROVE  v \in WorldType /\ SameLayers(w, v) /\ v.monsters = w.monsters /\ v.slips = w.slips
<1>1. v \in WorldType
  BY ShutForFollows DEF Follows
<1>2. \A S, s : LET t == SetTraps(w, S, s)
                IN  SameLayers(w, t) /\ t.monsters = w.monsters /\ t.slips = w.slips
  BY DEF SetTraps, SameLayers, WorldType
<1> QED
  BY <1>1, <1>2 DEF ShutFor, EnterTrap, SameLayers

BlockActs == {0, 1, 2, 4, 5, 6, 7}
BlockTop(w, src, act, tile) ==
  IF act = 2 THEN Dirt ELSE IF act = 5 THEN Floor
  ELSE IF tile = Keep THEN w.upper[src] ELSE tile

SameBeasts(w, v) == v.monsters = w.monsters

\* CarryBlock, seen from the layers and the slip list.
LEMMA CarriesBlock ==
  ASSUME NEW w \in WorldType, NEW src \in Cell, NEW dst \in Cell, src # dst,
         NEW d \in Dir, NEW act \in BlockActs, NEW tile \in Facing, NEW rnd \in Dir,
         Apart(w.slips), \A k \in 1..Len(w.slips) : w.slips[k].pos # dst,
         \A k \in 1..Len(w.slips) : w.slips[k].pos = src => ~w.slips[k].isblock,
         NEW v, v = CarryBlock(w, src, dst, d, act, tile, rnd)
  PROVE  /\ v \in WorldType /\ SameBeasts(w, v)
         /\ Laid(w, v, src, dst, BlockTop(w, src, act, tile),
                 IF act \in {1, 4, 6, 7} THEN w.upper[dst] ELSE w.lower[dst])
         /\ Reslips(w.slips, v.slips, src, IF act \in {2, 5} THEN NoCell ELSE dst, FALSE)
<1> DEFINE w1 == SlipFor(w, src, dst, d, act, tile, rnd)
           w2 == ShutFor(w1, act, dst, src)
           w3 == CoverFor(w2, {1, 4, 6, 7}, act, dst)
           w4 == UnslipFor(w3, {4, 6, 7}, act, src)
           top == BlockTop(w, src, act, tile)
           slides == act \in {4, 7} \/ (act = 6 /\ FindSlipper(w, src) # 0)
<1>1. v = Uncover(SetUpper(w4, dst, top), src)
  BY DEF CarryBlock, BlockTop
<1>2. top \in Tile
  <2>1. w.upper[src] \in Tile
    BY WorldParts
  <2> QED
    BY <2>1 DEF BlockTop, Facing, Dirt, Floor, Tile
<1>3. w1 \in WorldType /\ SameLayers(w, w1) /\ w1.monsters = w.monsters
  <2>1. CASE slides
    <3>1. w1 = SlideBlock(w, src, dst, d, tile, rnd).w
      BY <2>1 DEF SlipFor, SlideBlock
    <3> HIDE DEF w1
    <3>2. \A k \in 1..Len(w.slips) : w.slips[k].pos = dst => w.slips[k].pos = src
      OBVIOUS
    <3>3. w1 \in WorldType /\ OnlySlips(w, w1)
      BY <3>1, <3>2, SlidesBlock
    <3> QED
      BY <3>3 DEF OnlySlips
  <2>2. CASE ~slides
    BY <2>2 DEF SlipFor, SameLayers
  <2> QED
    BY <2>1, <2>2
<1>4. /\ slides => Reslips(w.slips, w1.slips, src, dst, FALSE)
      /\ ~slides => w1.slips = w.slips
  <2>1. CASE slides
    <3>1. w1 = SlideBlock(w, src, dst, d, tile, rnd).w
      BY <2>1 DEF SlipFor, SlideBlock
    <3> HIDE DEF w1
    <3>2. Reslips(w.slips, w1.slips, src, dst, FALSE)
      <4>1. \A k \in 1..Len(w.slips) : w.slips[k].pos = dst => w.slips[k].pos = src
        OBVIOUS
      <4> QED
        BY <3>1, <4>1, SlidesBlock
    <3> QED
      BY <2>1, <3>2
  <2>2. CASE ~slides
    BY <2>2 DEF SlipFor
  <2> QED
    BY <2>1, <2>2
<1> HIDE DEF w1
<1>5. w2 \in WorldType /\ SameLayers(w, w2) /\ w2.monsters = w.monsters /\ w2.slips = w1.slips
  BY <1>3, Shuts DEF SameLayers
<1> HIDE DEF w2
<1>6. /\ w3 \in WorldType /\ w3.level = w.level /\ w3.autopsy = w.autopsy
      /\ w3.monsters = w.monsters /\ w3.slips = w1.slips /\ w3.upper = w.upper
      /\ w3.lower[dst] = IF act \in {1, 4, 6, 7} THEN w.upper[dst] ELSE w.lower[dst]
      /\ \A x \in Cell : x # dst => w3.lower[x] = w.lower[x]
  BY <1>5, Covers DEF SameLayers
<1> HIDE DEF w3
<1>7. w4 \in WorldType /\ SameLayers(w3, w4) /\ w4.monsters = w3.monsters
  <2>1. CASE act \in {4, 6, 7}
    BY <1>6, <2>1 DEF UnslipFor, SameLayers
  <2>2. CASE act \notin {4, 6, 7}
    <3>1. w4 = DeleteSlipperAt(w3, src) /\ w3.slips = w.slips
      BY <1>4, <1>6, <2>2 DEF UnslipFor
    <3> HIDE DEF w4
    <3> QED
      BY <1>6, <3>1, UnslipsBlock
  <2> QED
    BY <2>1, <2>2
<1>8. Reslips(w.slips, w4.slips, src, IF act \in {2, 5} THEN NoCell ELSE dst, FALSE)
  <2>1. CASE slides
    <3>1. act \in {4, 6, 7}
      BY <2>1
    <3>2. w4.slips = w1.slips
      BY <1>6, <3>1 DEF UnslipFor
    <3> HIDE DEF w4, slides
    <3>3. act \notin {2, 5}
      BY <3>1
    <3> QED
      BY <1>4, <2>1, <3>2, <3>3
  <2>2. CASE ~slides /\ act = 6
    <3>1. w4.slips = w.slips /\ act \notin {2, 5}
      BY <1>4, <1>6, <2>2 DEF UnslipFor
    <3>2. \A k \in 1..Len(w.slips) : w.slips[k].pos # src
      BY <2>2, Found
    <3>3. w.slips \in Seq(Slipper)
      BY WorldParts
    <3> HIDE DEF w4, slides
    <3>4. Reslips(w.slips, w.slips, src, dst, FALSE)
      BY <3>2, <3>3, ReslipsNot
    <3> QED
      BY <3>1, <3>4
  <2>3. CASE ~slides /\ act # 6
    <3>1. w4 = DeleteSlipperAt(w3, src) /\ w3.slips = w.slips
      BY <1>4, <1>6, <2>3 DEF UnslipFor
    <3> HIDE DEF w4, slides
    <3>2. \A to : Reslips(w.slips, w4.slips, src, to, FALSE)
      <4>1. Apart(w3.slips) /\ \A k \in 1..Len(w3.slips) : w3.slips[k].pos = src => ~w3.slips[k].isblock
        BY <3>1
      <4>2. \A to : Reslips(w3.slips, w4.slips, src, to, FALSE)
        BY <1>6, <3>1, <4>1, UnslipsBlock
      <4> QED
        BY <3>1, <4>2
    <3> QED
      BY <3>2, Zenon
  <2> QED
    BY <2>1, <2>2, <2>3
<1> HIDE DEF w4, top
<1>9. /\ v \in WorldType /\ Laid(w4, v, src, dst, top, w4.lower[dst])
      /\ v.monsters = w4.monsters /\ v.slips = w4.slips
  BY <1>1, <1>2, <1>7, LaysOut
<1>10. Laid(w, v, src, dst, top, w4.lower[dst])
  BY <1>6, <1>7, <1>9 DEF Laid, SameLayers, LeftBehind, SameBut
<1>11. w4.lower[dst] = IF act \in {1, 4, 6, 7} THEN w.upper[dst] ELSE w.lower[dst]
  BY <1>6, <1>7 DEF SameLayers
<1> QED
  BY <1>6, <1>7, <1>8, <1>9, <1>10, <1>11 DEF top, SameBeasts

\* What MoveBlock is asked to move: a block, or the one in a clone machine.
BlockMover(w, src, tile) ==
  \/ w.upper[src] = Block /\ tile \in {Keep, Block}
  \/ src \in Machines(w.level) /\ w.upper[src] \in CloneBlocks /\ tile = Block

\* The cell dst is entered with action code act.
BlockMayCome(w, dst, act) ==
  LET u == w.upper[dst]
  IN  /\ u \notin Bearers \cup CloneBlocks \cup {ICChip, CloneMachine}
      /\ act \in BlockActs /\ (act = 0 => u = Floor) /\ (act = 2 => u = Water)
      /\ (act = 5 <=> u = Bomb) /\ (act = 7 <=> u = Teleport)
      /\ (u \in ChipTiles => act = 1)

LEMMA CellsOfBlock ==
  ASSUME NEW w \in WorldType, NEW c, NEW ph \in BOOLEAN, NEW ic, Cells(w, c, ph, ic),
         NEW src \in Cell, NEW dst \in Cell, NEW tile, BlockMover(w, src, tile),
         NEW act, BlockMayCome(w, dst, act), dst # c, NEW v,
         Laid(w, v, src, dst, BlockTop(w, src, act, tile),
              IF act \in {1, 4, 6, 7} THEN w.upper[dst] ELSE w.lower[dst])
  PROVE  Cells(v, c, ph, ic)
<1> DEFINE n == w.level
<1>1. n \in 1..Len(Levels) /\ v.level = n
  BY WorldParts DEF Laid
<1>2. \A x \in Cell : GoodCell(n, w.upper[x], w.lower[x], x, c, ph, ic)
  BY DEF Cells
<1> HIDE DEF n
<1>3. GoodCell(n, v.upper[src], v.lower[src], src, c, ph, ic)
  <2>1. CASE w.lower[src] = CloneMachine
    <3>1. v.upper[src] = w.upper[src] /\ v.lower[src] = w.lower[src]
      BY <2>1 DEF Laid, LeftBehind
    <3> QED
      BY <1>2, <3>1
  <2>2. CASE w.lower[src] # CloneMachine
    <3>1. v.upper[src] = w.lower[src] /\ v.lower[src] = Floor
      BY <2>2 DEF Laid, LeftBehind
    <3>2. w.upper[src] = Block
      BY <1>2, <2>2 DEF BlockMover, GoodCell, n
    <3>3. w.upper[src] \in Bearers
      BY <3>2 DEF Bearers
    <3> QED
      BY <1>1, <1>2, <2>2, <3>1, <3>3, CellLeft
  <2> QED
    BY <2>1, <2>2
<1>4. GoodCell(n, v.upper[dst], v.lower[dst], dst, c, ph, ic)
  <2>1. BlockTop(w, src, act, tile) = IF act = 2 THEN Dirt ELSE IF act = 5 THEN Floor ELSE Block
    <3>1. Keep # Block
      BY DEF Keep, Block
    <3> QED
      BY <3>1 DEF BlockTop, BlockMover
  <2>2. CASE act \in {1, 4, 6, 7}
    <3>1. v.upper[dst] = Block /\ v.lower[dst] = w.upper[dst] /\ Block \in Bearers
      BY <2>1, <2>2 DEF Laid, Bearers
    <3> QED
      BY <1>2, <3>1, CellCovered DEF BlockMayCome
  <2>3. CASE act \in {0, 2, 5}
    <3>1. /\ v.upper[dst] \in Bearers \cup {Floor, Dirt, Wall} /\ v.lower[dst] = w.lower[dst]
      BY <2>1, <2>3 DEF Laid, Bearers
    <3>2. w.upper[dst] \in {Floor, Water, Bomb}
      BY <2>3 DEF BlockMayCome
    <3>3. ~IsToggle(w.upper[dst])
      BY <3>2, TilesApart
    <3> QED
      BY <1>1, <1>2, <3>1, <3>3, CellReplaced DEF BlockMayCome
  <2> QED
    BY <2>2, <2>3 DEF BlockMayCome, BlockActs
<1>5. ASSUME NEW x \in Cell, x # src, x # dst
      PROVE  GoodCell(n, v.upper[x], v.lower[x], x, c, ph, ic)
  <2>1. v.upper[x] = w.upper[x] /\ v.lower[x] = w.lower[x]
    BY <1>5 DEF Laid, SameBut
  <2> QED
    BY <1>2, <2>1
<1> QED
  BY <1>1, <1>3, <1>4, <1>5 DEF Cells

LEMMA BoardParts ==
  ASSUME NEW w, NEW m, NEW a, NEW c, NEW ic, Board(w, m, a, c, ic)
  PROVE  /\ w \in WorldType /\ m \in 0..Len(w.monsters) /\ a \in Cell \cup {NoCell}
         /\ (m = 0 => a = NoCell) /\ Roster(w, m, a)
BY DEF Board

LEMMA BlockLandsWell ==
  ASSUME NEW w, NEW m, NEW a, NEW c, NEW ic, Board(w, m, a, c, ic),
         NEW src \in Cell, NEW dst \in Cell, NEW tile \in Facing, BlockMover(w, src, tile),
         NEW act, BlockMayCome(w, dst, act), src # dst, NEW d \in Dir, NEW rnd \in Dir,
         NEW v, v = CarryBlock(w, src, dst, d, act, tile, rnd)
  PROVE  /\ v \in WorldType /\ v.level = w.level /\ SameBut(w, v, src, dst)
         /\ SameBeasts(w, v)
         /\ dst # c => Board(v, m, a, c, ic)
         /\ dst = c => v.lower[dst] \in ChipTiles
         /\ v.upper[src] = Block => v.lower[src] = CloneMachine
<1>1. w \in WorldType /\ m \in 0..Len(w.monsters) /\ (m = 0 => a = NoCell) /\ Roster(w, m, a)
  BY BoardParts
<1>2. PICK ph \in BOOLEAN : Cells(w, c, ph, ic)
  BY DEF Board
<1>3. w.upper[src] \notin Monsters /\ w.upper[dst] \notin Bearers
  BY TileFacts DEF BlockMover, BlockMayCome, Bearers
<1>4. /\ Apart(w.slips)
      /\ \A k \in 1..Len(w.slips) : w.slips[k].pos # dst
      /\ \A k \in 1..Len(w.slips) : w.slips[k].pos = src => ~w.slips[k].isblock
  <2>1. ASSUME NEW k \in 1..Len(w.slips)
        PROVE  w.slips[k].pos # dst /\ (w.slips[k].pos = src => ~w.slips[k].isblock)
    <3>1. w.upper[w.slips[k].pos] \in Bearers
      BY <1>1, RosterSlips, TileFacts
    <3>2. w.upper[w.slips[k].pos] \notin Monsters => ~w.slips[k].isblock
      BY <1>1, RosterSlips
    <3> QED
      BY <1>3, <3>1, <3>2
  <2> QED
    BY <1>1, <2>1, RosterSlips
<1> DEFINE to == IF act \in {2, 5} THEN NoCell ELSE dst
<1>5. /\ v \in WorldType /\ v.monsters = w.monsters
      /\ Laid(w, v, src, dst, BlockTop(w, src, act, tile),
              IF act \in {1, 4, 6, 7} THEN w.upper[dst] ELSE w.lower[dst])
      /\ Reslips(w.slips, v.slips, src, to, FALSE)
  <2>1. act \in BlockActs
    BY DEF BlockMayCome
  <2>2. v \in WorldType /\ SameBeasts(w, v)
    BY <1>1, <1>4, <2>1, CarriesBlock
  <2>3. Laid(w, v, src, dst, BlockTop(w, src, act, tile),
             IF act \in {1, 4, 6, 7} THEN w.upper[dst] ELSE w.lower[dst])
    BY <1>1, <1>4, <2>1, CarriesBlock
  <2>4. Reslips(w.slips, v.slips, src, to, FALSE)
    BY <1>1, <1>4, <2>1, CarriesBlock
  <2> HIDE DEF to
  <2> QED
    BY <2>2, <2>3, <2>4 DEF SameBeasts
<1>6. v.upper[dst] \notin Monsters /\ (act \notin {2, 5} => v.upper[dst] = Block)
  <2>1. Keep # Block /\ Dirt \notin Monsters /\ Floor \notin Monsters /\ Block \notin Monsters
    BY TileFacts DEF Keep, Block
  <2> QED
    BY <1>5, <2>1 DEF Laid, BlockTop, BlockMover
<1>7. v.upper[src] \notin Monsters
  <2>1. w.lower[src] \notin Bearers
    BY <1>2 DEF Cells, GoodCell
  <2> QED
    BY <1>3, <1>5, <2>1, TileFacts DEF Laid, LeftBehind
<1>12. v.upper[src] = Block => v.lower[src] = CloneMachine
  <2>1. w.lower[src] # Block
    BY <1>2, TileFacts DEF Cells, GoodCell
  <2> QED
    BY <1>5, <2>1 DEF Laid, LeftBehind
<1>8. SameBut(w, v, src, dst) /\ v.level = w.level
  BY <1>5 DEF Laid
<1>9. Roster(v, m, a)
  <2>1. to = NoCell \/ (to = dst /\ v.upper[dst] = Block)
    BY <1>6
  <2>2. v.slips \in Seq(Slipper)
    BY <1>5, WorldParts
  <2> HIDE DEF to
  <2> QED
    BY <1>1, <1>3, <1>5, <1>6, <1>7, <1>8, <2>1, <2>2, RosterOfBlock
<1>10. ASSUME dst # c PROVE Board(v, m, a, c, ic)
  <2>1. Cells(v, c, ph, ic)
    BY <1>1, <1>2, <1>5, <1>10, CellsOfBlock
  <2>2. m \in 0..Len(v.monsters) /\ a \in Cell \cup {NoCell}
    BY <1>1, <1>5, BoardParts
  <2> QED
    BY <1>1, <1>5, <1>9, <2>1, <2>2 DEF Board
<1>11. ASSUME dst = c PROVE v.lower[dst] \in ChipTiles
  <2>1. w.upper[dst] \in ChipTiles
    BY <1>2, <1>11 DEF Cells, GoodCell
  <2> QED
    BY <1>5, <2>1 DEF Laid, BlockMayCome
<1> QED
  BY <1>5, <1>8, <1>10, <1>11, <1>12 DEF SameBeasts

-----------------------------------------------------------------------------
(***************************************************************************)
(* A step of a block.                                                      *)
(***************************************************************************)

\* The same but for traps, autopsy and fault.
SameBoard(w, v) == /\ v.level = w.level /\ v.upper = w.upper /\ v.lower = w.lower
                   /\ v.monsters = w.monsters /\ v.slips = w.slips

LEMMA BoardAlike ==
  ASSUME NEW w, NEW m, NEW a, NEW c, NEW ic, Board(w, m, a, c, ic),
         NEW v \in WorldType, SameBoard(w, v)
  PROVE  Board(v, m, a, c, ic)
<1>1. PICK ph \in BOOLEAN : Cells(w, c, ph, ic)
  BY DEF Board
<1>2. Cells(v, c, ph, ic)
  BY <1>1 DEF Cells, SameBoard
<1>3. Roster(v, m, a)
  <2>1. Listed(v, m, a)
    BY DEF Board, Roster, Listed, At, SameBoard
  <2>2. Slid(v, m, a)
    BY DEF Board, Roster, Slid, At, SameBoard
  <2> QED
    BY <2>1, <2>2 DEF Roster
<1> QED
  BY <1>2, <1>3 DEF Board, SameBoard

\* A block stops sliding where it is.
LEMMA BlockStops ==
  ASSUME NEW w, NEW m, NEW a, NEW c, NEW ic, Board(w, m, a, c, ic),
         NEW src \in Cell, w.upper[src] \notin Monsters,
         NEW v, v = DeleteSlipperAt(w, src)
  PROVE  Board(v, m, a, c, ic) /\ SameLayers(w, v)
<1>1. w \in WorldType /\ m \in 0..Len(w.monsters) /\ (m = 0 => a = NoCell) /\ Roster(w, m, a)
  BY BoardParts
<1>2. /\ Apart(w.slips)
      /\ \A k \in 1..Len(w.slips) : w.slips[k].pos = src => ~w.slips[k].isblock
  BY <1>1, RosterSlips
<1>3. v \in WorldType /\ SameLayers(w, v)
  BY <1>1, <1>2, UnslipsBlock
<1>4. v.monsters = w.monsters
  BY <1>1, <1>2, UnslipsBlock
<1>5. Reslips(w.slips, v.slips, src, NoCell, FALSE)
  BY <1>1, <1>2, UnslipsBlock
<1>6. Listed(v, m, a)
  BY <1>1, <1>3, <1>4 DEF Roster, Listed, At, SameLayers
<1>7. Slid(v, m, a)
  <2>1. \A k \in 1..Len(v.slips) : \E j \in 1..Len(w.slips) : v.slips[k] = w.slips[j]
    <3>1. \A k \in 1..Len(v.slips) : v.slips[k].pos # NoCell
      BY <1>3, SlipCells, NoCellIsNone
    <3> QED
      BY <1>5, <3>1 DEF Reslips
  <2>2. \A i \in 1..Len(w.monsters) : At(v, m, a, i) = At(w, m, a, i)
    BY <1>4 DEF At
  <2>3. ASSUME NEW k \in 1..Len(v.slips)
        PROVE  IF v.slips[k].isblock
               THEN \E i \in 1..Len(v.monsters) :
                      At(v, m, a, i) = v.slips[k].pos /\ v.monsters[i].slipping
               ELSE v.upper[v.slips[k].pos] = Block
    <3>1. PICK j \in 1..Len(w.slips) : v.slips[k] = w.slips[j]
      BY <2>1
    <3>2. IF w.slips[j].isblock
          THEN \E i \in 1..Len(w.monsters) :
                 At(w, m, a, i) = w.slips[j].pos /\ w.monsters[i].slipping
          ELSE w.upper[w.slips[j].pos] = Block
      BY <1>1 DEF Roster, Slid
    <3> QED
      BY <1>3, <1>4, <2>2, <3>1, <3>2 DEF SameLayers
  <2>4. \A j, k \in 1..Len(v.slips) : v.slips[j].pos = v.slips[k].pos => j = k
    BY <1>5 DEF Reslips, Apart
  <2>5. ASSUME NEW i \in 1..Len(w.monsters), w.monsters[i].slipping
        PROVE  \E k \in 1..Len(v.slips) : v.slips[k].pos = At(v, m, a, i) /\ v.slips[k].isblock
    <3>1. PICK j \in 1..Len(w.slips) : w.slips[j].pos = At(w, m, a, i) /\ w.slips[j].isblock
      BY <1>1, <2>5 DEF Roster, Slid
    <3>2. w.slips[j].pos # src
      BY <1>2, <3>1
    <3>3. PICK k \in 1..Len(v.slips) : v.slips[k] = w.slips[j]
      BY <1>5, <3>2 DEF Reslips
    <3> QED
      BY <2>2, <3>1, <3>3
  <2> QED
    BY <1>4, <2>3, <2>4, <2>5 DEF Slid
<1>8. \E ph \in BOOLEAN : Cells(v, c, ph, ic)
  BY <1>3 DEF Board, Cells, SameLayers
<1> QED
  BY <1>1, <1>3, <1>4, <1>6, <1>7, <1>8, BoardParts DEF Board, Roster

\* The result r of BlockStep.
BlockStepped(w, m, a, c, ic, src, d, r) ==
  IF r.ok
  THEN /\ r.at \in Cell /\ r.at # src /\ Step(src, d) \in Cell
       /\ r.w \in WorldType /\ r.w.level = w.level /\ SameBut(w, r.w, src, r.at)
       /\ SameBeasts(w, r.w)
       /\ w.upper[r.at] = Teleport \/ r.at = Step(src, d)
       /\ w.upper[Step(src, d)] # Teleport => r.at = Step(src, d)
       /\ r.at # c => Board(r.w, m, a, c, ic)
       /\ r.at = c => r.w.lower[r.at] \in ChipTiles
       /\ r.w.upper[src] = Block => r.w.lower[src] = CloneMachine
  ELSE Board(r.w, m, a, c, ic) /\ SameLayers(w, r.w)

LEMMA BlockStepWell ==
  ASSUME NEW w, NEW m, NEW a, NEW c, NEW ic, Board(w, m, a, c, ic),
         NEW src \in Cell, NEW d \in Dir, NEW tile \in Facing, BlockMover(w, src, tile),
         NEW rnd \in Dir, NEW r, r = BlockStep(w, src, d, tile, rnd)
  PROVE  BlockStepped(w, m, a, c, ic, src, d, r)
<1> DEFINE act == BlockAct(w, src, d)
           to == BlockDest(w, src, d, act)
<1>1. w \in WorldType
  BY BoardParts
<1>2. r = BlockGoes(w, src, d, act, tile, rnd)
  BY DEF BlockStep
<1>3. w.upper[src] \notin Monsters /\ w.upper[src] \in Bearers \cup CloneBlocks
  BY TileFacts DEF BlockMover, Bearers
<1>4. act # Refused => Step(src, d) \in Cell /\ act = BlockCanEnter(w, Step(src, d), d)
  BY DEF BlockAct, CanLeave
<1> HIDE DEF act
<1>5. CASE act = Refused
  <2>1. r.ok = FALSE /\ r.w = DeleteSlipperAt(w, src)
    BY <1>2, <1>5 DEF BlockGoes
  <2>2. Board(r.w, m, a, c, ic) /\ SameLayers(w, r.w)
    BY <1>3, <2>1, BlockStops
  <2> QED
    BY <2>1, <2>2 DEF BlockStepped
<1>6. CASE act # Refused
  <2> DEFINE p == Step(src, d)
  <2>1. p \in Cell /\ act = BlockCanEnter(w, p, d)
    BY <1>4, <1>6
  <2>2. BlockMayCome(w, p, act)
    <3>1. BlockCanEnter(w, p, d) # Refused
      BY <1>6, <2>1
    <3> HIDE DEF p
    <3>2. act \in {0, 1, 2, 4, 5, 6, 7} /\ w.upper[p] \notin Bearers \cup CloneBlocks \cup {ICChip, CloneMachine}
      BY <1>1, <2>1, <3>1, BlockEnters
    <3>3. /\ act = 0 => w.upper[p] = Floor
          /\ act = 2 => w.upper[p] = Water
          /\ act = 5 <=> w.upper[p] = Bomb
          /\ act = 7 <=> w.upper[p] = Teleport
          /\ w.upper[p] \in ChipTiles => act = 1
      BY <1>1, <2>1, <3>1, BlockEnters
    <3> QED
      BY <3>2, <3>3 DEF BlockMayCome, BlockActs
  <2>3. /\ to \in Cell /\ BlockMayCome(w, to, act)
        /\ w.upper[to] = Teleport \/ to = p
        /\ w.upper[p] # Teleport => to = p
    <3>1. CASE act # 7
      BY <2>1, <2>2, <3>1 DEF BlockDest, BlockMayCome
    <3>2. CASE act = 7
      <4>1. w.upper[p] = Teleport
        BY <2>2, <3>2 DEF BlockMayCome
      <4>2. to = TeleportTo(w, p, d, {q \in Cell : BlockCanEnter(w, q, d) # Refused})
        BY <3>2 DEF BlockDest
      <4> HIDE DEF to, p
      <4>3. to \in Cell /\ w.upper[to] = Teleport
        BY <1>1, <2>1, <4>1, <4>2, TeleportToTeleport
      <4> QED
        BY <2>2, <3>2, <4>1, <4>3 DEF BlockMayCome
    <3> QED
      BY <3>1, <3>2
  <2>4. /\ r.ok = TRUE /\ r.at = to
        /\ r.w = CarryBlock(w, src, to, d, act, tile, rnd)
    BY <1>2, <1>6 DEF BlockGoes, BlockLands
  <2> HIDE DEF to
  <2>5. src # to
    BY <1>3, <2>3 DEF BlockMayCome
  <2>6. /\ r.w \in WorldType /\ r.w.level = w.level /\ SameBut(w, r.w, src, to)
        /\ SameBeasts(w, r.w)
        /\ to # c => Board(r.w, m, a, c, ic)
        /\ to = c => r.w.lower[to] \in ChipTiles
        /\ r.w.upper[src] = Block => r.w.lower[src] = CloneMachine
    BY <2>3, <2>4, <2>5, BlockLandsWell
  <2> QED
    BY <2>1, <2>3, <2>4, <2>5, <2>6 DEF BlockStepped
<1> QED
  BY <1>5, <1>6

-----------------------------------------------------------------------------
(***************************************************************************)
(* Buttons: toggle walls, tanks, traps and clone machines.                 *)
(***************************************************************************)

\* No teleport that is on top goes away.
StayTop(w, v) == \A x \in Cell : w.upper[x] = Teleport => v.upper[x] = Teleport

LEMMA TopTiles ==
  /\ \A t \in Monsters \cup ChipTiles \cup CloneBlocks \cup Bearers : t # Teleport
  /\ \A t \in Buttons : t \notin ChipTiles /\ t # Teleport /\ t # CloneMachine /\ t # Trap
  /\ \A t : IsToggle(t) => t # Teleport /\ t # CloneMachine /\ t \notin Monsters /\ t # Block
  /\ Trap # CloneMachine /\ Trap \notin ChipTiles /\ CloneMachine \notin ChipTiles
BY DEF Monsters, ChipTiles, CloneBlocks, Bearers, Buttons, IsToggle, Teleport, CloneMachine,
   Trap, ToggleWall, ToggleFloor, ToggleButton, CloneButton, TrapButton, TankButton, Swim, Chip,
   Block, BlockN, BlockE, Bug, Paramecium

LEMMA TogglesWell ==
  ASSUME NEW w, NEW m, NEW a, NEW c, NEW ic, Board(w, m, a, c, ic),
         NEW v, v = PressToggleButton(w)
  PROVE  Board(v, m, a, c, ic) /\ StayTop(w, v)
<1> DEFINE n == w.level
<1>1. w \in WorldType /\ m \in 0..Len(w.monsters) /\ (m = 0 => a = NoCell) /\ Roster(w, m, a)
  BY BoardParts
<1>2. PICK ph \in BOOLEAN : Cells(w, c, ph, ic)
  BY DEF Board
<1>3. v \in WorldType
  BY <1>1, PressToggleButtonFollows DEF Follows
<1>4. /\ v.level = n /\ v.monsters = w.monsters /\ v.slips = w.slips
      /\ v.upper = [x \in Cell |-> IF x \in ToggleCells[n] THEN Toggled(w.upper[x]) ELSE w.upper[x]]
      /\ v.lower = [x \in Cell |-> IF x \in ToggleCells[n] THEN Toggled(w.lower[x]) ELSE w.lower[x]]
  BY <1>1 DEF PressToggleButton, WorldType
<1>5. n \in 1..Len(Levels)
  BY <1>1, WorldParts
<1> HIDE DEF n
<1>6. Cells(v, c, ~ph, ic)
  <2>1. ASSUME NEW x \in Cell
        PROVE  GoodCell(n, v.upper[x], v.lower[x], x, c, ~ph, ic)
    <3>1. GoodCell(n, w.upper[x], w.lower[x], x, c, ph, ic)
      BY <1>2 DEF Cells, n
    <3>2. CASE x \in ToggleCells[n]
      <4>1. v.upper[x] = Toggled(w.upper[x]) /\ v.lower[x] = Toggled(w.lower[x])
        BY <1>4, <3>2
      <4>2. GoodCell(n, Toggled(w.upper[x]), Toggled(w.lower[x]), x, c, ~ph, ic)
        BY <1>5, <3>1, <3>2, CellToggled
      <4> QED
        BY <4>1, <4>2
    <3>3. CASE x \notin ToggleCells[n]
      <4>1. v.upper[x] = w.upper[x] /\ v.lower[x] = w.lower[x]
        BY <1>4, <3>3
      <4>2. GoodCell(n, w.upper[x], w.lower[x], x, c, ~ph, ic)
        BY <1>5, <3>1, <3>3, CellToggled
      <4> QED
        BY <4>1, <4>2
    <3> QED
      BY <3>2, <3>3
  <2> QED
    BY <1>4, <2>1 DEF Cells
<1>7. ASSUME NEW x \in Cell
      PROVE  /\ v.upper[x] = w.upper[x] \/ (IsToggle(w.upper[x]) /\ IsToggle(v.upper[x]))
             /\ v.lower[x] = w.lower[x] \/ (IsToggle(w.lower[x]) /\ IsToggle(v.lower[x]))
  BY <1>4, ToggledTiles
<1>8. \A x \in Cell : Same(w, v, x)
  BY <1>7, TopTiles DEF Same
<1>9. Roster(v, m, a)
  <2>1. \A i \in 1..Len(w.monsters) :
          /\ At(v, m, a, i) = At(w, m, a, i)
          /\ Kind(v.monsters[i].tile) = Kind(w.monsters[i].tile)
          /\ v.monsters[i].slipping <=> w.monsters[i].slipping
    BY <1>4 DEF At
  <2>2. Len(v.monsters) = Len(w.monsters) /\ v.slips = w.slips
    BY <1>4
  <2> QED
    BY <1>1, <1>8, <2>1, <2>2, RosterAlike
<1>10. StayTop(w, v)
  BY <1>7, TopTiles DEF StayTop
<1> QED
  BY <1>1, <1>3, <1>4, <1>6, <1>9, <1>10, BoardParts DEF Board

LEMMA TanksTurnWell ==
  ASSUME NEW w, NEW c, NEW ic, Board(w, 0, NoCell, c, ic), NEW v, v = PressTankButton(w)
  PROVE  Board(v, 0, NoCell, c, ic) /\ StayTop(w, v)
<1> DEFINE n == w.level
           turned(m) == IF Kind(m.tile) = Tank
                   THEN [m EXCEPT !.tile = ReverseTile(m.tile),
                                  !.dir = TurnAround(TileDir(m.tile))]
                   ELSE m
<1>1. w \in WorldType /\ Roster(w, 0, NoCell)
  BY BoardParts
<1>2. PICK ph \in BOOLEAN : Cells(w, c, ph, ic)
  BY DEF Board
<1>3. v \in WorldType
  BY <1>1, PressTankButtonFollows DEF Follows
<1>4. /\ v.level = n /\ v.slips = w.slips /\ v.lower = w.lower
      /\ v.monsters = [i \in 1..Len(w.monsters) |-> turned(w.monsters[i])]
      /\ v.upper = [x \in Cell |->
            IF TanksAt(w, x) = {} THEN w.upper[x]
            ELSE ReverseTile(w.monsters[Greatest(TanksAt(w, x))].tile)]
  BY <1>1 DEF PressTankButton, WorldType
<1>5. n \in 1..Len(Levels)
  BY <1>1, WorldParts
<1> HIDE DEF n
<1>6. Len(v.monsters) = Len(w.monsters)
  <2>1. Len(w.monsters) \in Nat
    BY <1>1, WorldParts
  <2> HIDE DEF turned
  <2> QED
    BY <1>4, <2>1
<1>7. ASSUME NEW i \in 1..Len(w.monsters)
      PROVE  /\ v.monsters[i].pos = w.monsters[i].pos
             /\ Kind(v.monsters[i].tile) = Kind(w.monsters[i].tile)
             /\ v.monsters[i].slipping <=> w.monsters[i].slipping
  <2>1. w.monsters[i] \in Monster /\ w.monsters[i].tile \in Tile
    BY <1>1, WorldParts, SlipCells
  <2>2. v.monsters[i] = turned(w.monsters[i])
    BY <1>4
  <2>3. Kind(ReverseTile(w.monsters[i].tile)) = Kind(w.monsters[i].tile)
    BY <2>1, KindOf
  <2>4. CASE Kind(w.monsters[i].tile) = Tank
    <3>1. v.monsters[i] = [w.monsters[i] EXCEPT !.tile = ReverseTile(w.monsters[i].tile),
                                  !.dir = TurnAround(TileDir(w.monsters[i].tile))]
      BY <2>2, <2>4
    <3>2. v.monsters[i].tile = ReverseTile(w.monsters[i].tile)
      BY <2>1, <3>1 DEF Monster
    <3>3. v.monsters[i].pos = w.monsters[i].pos /\ v.monsters[i].slipping = w.monsters[i].slipping
      BY <2>1, <3>1 DEF Monster
    <3> QED
      BY <2>3, <3>2, <3>3
  <2>5. CASE Kind(w.monsters[i].tile) # Tank
    BY <2>2, <2>5
  <2> QED
    BY <2>4, <2>5
<1>8. ASSUME NEW x \in Cell
      PROVE  \/ v.upper[x] = w.upper[x]
             \/ /\ w.upper[x] \in Monsters /\ v.upper[x] \in Monsters
                /\ Kind(v.upper[x]) = Kind(w.upper[x])
  <2>1. CASE TanksAt(w, x) = {}
    BY <1>4, <2>1
  <2>2. CASE TanksAt(w, x) # {}
    <3> DEFINE j == Greatest(TanksAt(w, x))
    <3>1. j \in TanksAt(w, x)
      <4>1. Len(w.monsters) \in Nat
        BY <1>1, WorldParts
      <4>2. TanksAt(w, x) \in SUBSET (1..Len(w.monsters))
        BY DEF TanksAt
      <4> QED
        BY <2>2, <4>1, <4>2, GreatestIndex
    <3>2. v.upper[x] = ReverseTile(w.monsters[j].tile)
      BY <1>4, <2>2
    <3> HIDE DEF j
    <3>3. j \in 1..Len(w.monsters) /\ w.monsters[j].pos = x
      BY <3>1 DEF TanksAt
    <3>4. w.upper[x] \in Monsters /\ Kind(w.upper[x]) = Kind(w.monsters[j].tile)
      BY <1>1, <3>3, RosterSlipsAt
    <3>5. w.monsters[j].tile \in Tile
      BY <1>1, <3>3, SlipCells
    <3>6. v.upper[x] \in Tile /\ Kind(v.upper[x]) = Kind(w.upper[x])
      BY <3>2, <3>4, <3>5, KindOf
    <3> QED
      BY <3>4, <3>6, KindOf
  <2> QED
    BY <2>1, <2>2
<1>9. Cells(v, c, ph, ic)
  <2>1. ASSUME NEW x \in Cell
        PROVE  GoodCell(n, v.upper[x], v.lower[x], x, c, ph, ic)
    <3>1. GoodCell(n, w.upper[x], w.lower[x], x, c, ph, ic) /\ v.lower[x] = w.lower[x]
      BY <1>2, <1>4 DEF Cells, n
    <3>2. CASE v.upper[x] # w.upper[x]
      <4>1. w.upper[x] \in Monsters /\ v.upper[x] \in Monsters
        BY <1>8, <3>2
      <4>2. x \notin ToggleCells[n] \/ w.upper[x] # Shown(n, x, ph)
        BY <1>5, <4>1, ToggleShown, TopTiles
      <4> QED
        BY <3>1, <4>1, <4>2, CellSwapped
    <3> QED
      BY <3>1, <3>2
  <2> QED
    BY <1>4, <2>1 DEF Cells
<1>10. Roster(v, 0, NoCell)
  <2>1. \A x \in Cell : Same(w, v, x)
    BY <1>4, <1>8 DEF Same
  <2>2. \A i \in 1..Len(w.monsters) :
          /\ At(v, 0, NoCell, i) = At(w, 0, NoCell, i)
          /\ Kind(v.monsters[i].tile) = Kind(w.monsters[i].tile)
          /\ v.monsters[i].slipping <=> w.monsters[i].slipping
    BY <1>7 DEF At
  <2>3. v.slips = w.slips /\ NoCell \notin Cell
    BY <1>4, NoCellIsNone
  <2>4. Len(w.monsters) \in Nat
    BY <1>1, WorldParts
  <2>5. 0 \in 0..Len(w.monsters)
    BY <2>4
  <2> QED
    BY <1>1, <1>6, <2>1, <2>2, <2>3, <2>5, RosterAlike
<1>11. StayTop(w, v)
  BY <1>8, TopTiles DEF StayTop
<1> QED
  BY <1>1, <1>3, <1>6, <1>9, <1>10, <1>11, WorldParts DEF Board

LEMMA TrapOpensWell ==
  ASSUME NEW w, NEW m, NEW a, NEW c, NEW ic, Board(w, m, a, c, ic), NEW b,
         NEW v, v = PressTrapButton(w, b)
  PROVE  Board(v, m, a, c, ic) /\ StayTop(w, v)
<1>1. w \in WorldType
  BY BoardParts
<1>2. v \in WorldType
  BY <1>1, PressTrapButtonFollows DEF Follows
<1>3. SameBoard(w, v)
  BY <1>1 DEF SameBoard, PressTrapButton, SetTraps, WorldType
<1> QED
  BY <1>2, <1>3, BoardAlike DEF SameBoard, StayTop

\* A monster enters the list at the machine that holds it.
Grows(w, v, t, p) ==
  /\ \E d \in Dir : v.monsters =
       Append(w.monsters, [tile |-> t, pos |-> p, dir |-> d, slipping |-> FALSE])
  /\ v.slips = w.slips /\ v.level = w.level /\ v.upper = w.upper /\ v.lower = w.lower

LEMMA GrowsWell ==
  ASSUME NEW w, NEW m, NEW a, NEW c, NEW ic, Board(w, m, a, c, ic), NEW p \in Cell,
         w.upper[p] \in Monsters, w.lower[p] = CloneMachine,
         \A i \in 1..Len(w.monsters) : w.monsters[i].pos # p,
         NEW v \in WorldType, Grows(w, v, w.upper[p], p)
  PROVE  Board(v, m, a, c, ic)
<1> DEFINE k == Len(w.monsters)
<1>1. w \in WorldType /\ m \in 0..k /\ (m = 0 => a = NoCell) /\ Roster(w, m, a)
  BY BoardParts
<1>2. PICK ph \in BOOLEAN : Cells(w, c, ph, ic)
  BY DEF Board
<1>3. Cells(v, c, ph, ic)
  BY <1>2 DEF Cells, Grows
<1>4. k \in Nat /\ w.monsters \in Seq(Monster)
  BY <1>1, WorldParts
<1>5. /\ Len(v.monsters) = k + 1 /\ \A i \in 1..k : v.monsters[i] = w.monsters[i]
      /\ v.monsters[k + 1].pos = p /\ v.monsters[k + 1].slipping = FALSE
      /\ v.monsters[k + 1].tile = w.upper[p]
  BY <1>4 DEF Grows
<1>6. v.upper = w.upper /\ v.lower = w.lower /\ v.slips = w.slips
  BY DEF Grows
<1> HIDE DEF k
<1>7. /\ \A i \in 1..k : At(v, m, a, i) = At(w, m, a, i)
      /\ At(v, m, a, k + 1) = p
      /\ \A i \in 1..(k + 1) : i \in 1..k \/ i = k + 1
  BY <1>1, <1>4, <1>5 DEF At
<1>8. Listed(w, m, a) /\ Slid(w, m, a)
  BY <1>1 DEF Roster
<1>9. \A i \in 1..k : At(w, m, a, i) # p
  <2>1. a # p
    BY <1>8 DEF Listed
  <2> QED
    BY <2>1 DEF At, k
<1>10. Listed(v, m, a)
  <2>1. \A i \in 1..(k + 1) : At(v, m, a, i) \in Cell =>
          /\ v.upper[At(v, m, a, i)] \in Monsters
          /\ Kind(v.upper[At(v, m, a, i)]) = Kind(v.monsters[i].tile)
    BY <1>5, <1>6, <1>7, <1>8 DEF Listed, k
  <2>2. \A i, j \in 1..(k + 1) : At(v, m, a, i) = At(v, m, a, j) => i = j
    BY <1>7, <1>8, <1>9 DEF Listed, k
  <2>3. \A x \in Cell : v.upper[x] \in Monsters =>
          v.lower[x] = CloneMachine \/ \E i \in 1..(k + 1) : At(v, m, a, i) = x
    <3>1. \A i \in 1..k : i \in 1..(k + 1)
      BY <1>4
    <3> QED
      BY <1>6, <1>7, <1>8, <3>1 DEF Listed, k
  <2>4. a \in Cell => v.lower[a] # CloneMachine
    BY <1>6, <1>8 DEF Listed
  <2> QED
    BY <1>5, <2>1, <2>2, <2>3, <2>4 DEF Listed
<1>11. Slid(v, m, a)
  <2>1. \A i \in 1..k : i \in 1..(k + 1)
    BY <1>4
  <2>2. ASSUME NEW j \in 1..Len(v.slips)
        PROVE  IF v.slips[j].isblock
               THEN \E i \in 1..(k + 1) :
                      At(v, m, a, i) = v.slips[j].pos /\ v.monsters[i].slipping
               ELSE v.upper[v.slips[j].pos] = Block
    <3>1. IF w.slips[j].isblock
          THEN \E i \in 1..k : At(w, m, a, i) = w.slips[j].pos /\ w.monsters[i].slipping
          ELSE w.upper[w.slips[j].pos] = Block
      BY <1>6, <1>8 DEF Slid, k
    <3> QED
      BY <1>5, <1>6, <1>7, <2>1, <3>1
  <2>3. \A j, l \in 1..Len(v.slips) : v.slips[j].pos = v.slips[l].pos => j = l
    BY <1>6, <1>8 DEF Slid
  <2>4. \A i \in 1..(k + 1) : v.monsters[i].slipping =>
         \E j \in 1..Len(v.slips) : v.slips[j].pos = At(v, m, a, i) /\ v.slips[j].isblock
    <3>1. \A i \in 1..k : w.monsters[i].slipping =>
         \E j \in 1..Len(w.slips) : w.slips[j].pos = At(w, m, a, i) /\ w.slips[j].isblock
      BY <1>8 DEF Slid, k
    <3> QED
      BY <1>5, <1>6, <1>7, <3>1
  <2> QED
    BY <1>5, <2>2, <2>3, <2>4 DEF Slid
<1>12. m \in 0..Len(v.monsters)
  BY <1>1, <1>4, <1>5
<1> QED
  BY <1>1, <1>3, <1>10, <1>11, <1>12, BoardParts DEF Board, Roster

LEMMA MachineFound ==
  ASSUME NEW w \in WorldType, NEW b, FindCloneMachine(w, b) # NoCell
  PROVE  FindCloneMachine(w, b) \in Machines(w.level) /\ FindCloneMachine(w, b) \in Cell
<1> DEFINE links == Levels[w.level].clones
           S == {k \in 1..Len(links) : links[k].from = b}
<1>1. w.level \in 1..Len(Levels)
  BY WorldParts
<1>2. links \in Seq(Link) /\ Len(links) \in Nat
  BY <1>1, LevelParts
<1>3. First(S) \in 0..Len(links)
  <2>1. S \in SUBSET (1..Len(links))
    OBVIOUS
  <2> QED
    BY <1>2, <2>1, FirstIndex
<1>4. First(S) # 0 /\ FindCloneMachine(w, b) = links[First(S)].to
  BY DEF FindCloneMachine
<1> HIDE DEF S
<1>5. First(S) \in 1..Len(links)
  BY <1>2, <1>3, <1>4
<1> QED
  BY <1>2, <1>4, <1>5, FindCloneMachineType DEF Machines, Link

LEMMA ClonesMonsterWell ==
  ASSUME NEW w, NEW m, NEW a, NEW c, NEW ic, Board(w, m, a, c, ic), NEW p \in Machines(w.level),
         p \in Cell, w.upper[p] \in Monsters, NEW v, v = CloneMonster(w, p)
  PROVE  Board(v, m, a, c, ic) /\ StayTop(w, v)
<1> DEFINE t == w.upper[p]
           d == TileDir(t)
<1>1. w \in WorldType
  BY BoardParts
<1>2. w.lower[p] = CloneMachine
  BY DEF Board, Cells, GoodCell
<1>3. v \in WorldType
  BY <1>1, CloneMonsterFollows DEF Follows
<1>4. t \in Tile /\ d \in Dir
  BY <1>1, WorldParts, TileDirType
<1>5. v = CloneFacing(w, p, d)
  BY DEF CloneMonster
<1> HIDE DEF d
<1>6. CASE v = w
  BY <1>6 DEF StayTop
<1>7. CASE v # w
  <2>1. FindMonster(w, p) = 0 /\ v = NewMonster(w, t, p, d, TRUE)
    BY <1>5, <1>7 DEF CloneFacing
  <2>2. v = PlaceMonster(w, t, p, d)
    BY <1>7, <2>1 DEF NewMonster
  <2> DEFINE entry == [tile |-> t, pos |-> p, dir |-> d, slipping |-> FALSE]
             g == [w EXCEPT !.monsters = Append(@, entry)]
             h == SetUpper(g, p, t)
  <2>3. v = Arrived(h, p)
    BY <2>2 DEF PlaceMonster
  <2>4. /\ h.monsters = Append(w.monsters, entry) /\ h.slips = w.slips /\ h.level = w.level
        /\ h.upper = w.upper /\ h.lower = w.lower
    <3>1. w.upper \in [Cell -> Tile]
      BY <1>1, WorldParts
    <3>2. [w.upper EXCEPT ![p] = t] = w.upper
      BY <3>1
    <3> QED
      BY <1>1, <3>2 DEF SetUpper, WorldType
  <2> HIDE DEF h, g
  <2>5. v = h
    BY <1>2, <2>3, <2>4, TopTiles DEF Arrived
  <2>6. Grows(w, v, t, p)
    BY <1>4, <2>4, <2>5 DEF Grows
  <2>7. \A i \in 1..Len(w.monsters) : w.monsters[i].pos # p
    BY <1>1, <2>1, Found
  <2>8. Board(v, m, a, c, ic)
    BY <1>2, <1>3, <2>6, <2>7, GrowsWell
  <2> QED
    BY <2>4, <2>5, <2>8 DEF StayTop
<1> QED
  BY <1>6, <1>7

\* A button is pressed that lets no block out.
LEMMA PressWell ==
  ASSUME NEW w, NEW m, NEW a, NEW c, NEW ic, Board(w, m, a, c, ic), NEW b,
         m = 0 \/ w.lower[b] # TankButton, NEW v, v = Press(w, b)
  PROVE  Board(v, m, a, c, ic) /\ StayTop(w, v)
<1>1. w \in WorldType /\ (m = 0 => a = NoCell)
  BY BoardParts
<1> DEFINE q == FindCloneMachine(w, b)
<1>2. \/ v = PressToggleButton(w)
      \/ v = PressTrapButton(w, b)
      \/ w.lower[b] = TankButton /\ v = PressTankButton(w)
      \/ q # NoCell /\ w.upper[q] \in Monsters /\ v = CloneMonster(w, q)
      \/ v = w
  BY DEF Press
<1>3. CASE v = PressToggleButton(w)
  BY <1>3, TogglesWell
<1>4. CASE v = PressTrapButton(w, b)
  BY <1>4, TrapOpensWell
<1>5. CASE w.lower[b] = TankButton /\ v = PressTankButton(w)
  BY <1>1, <1>5, TanksTurnWell
<1>6. CASE q # NoCell /\ w.upper[q] \in Monsters /\ v = CloneMonster(w, q)
  <2>1. q \in Machines(w.level) /\ q \in Cell
    BY <1>1, <1>6, MachineFound
  <2> HIDE DEF q
  <2> QED
    BY <1>6, <2>1, ClonesMonsterWell
<1>7. CASE v = w
  BY <1>7 DEF StayTop
<1> QED
  BY <1>2, <1>3, <1>4, <1>5, <1>6, <1>7

-----------------------------------------------------------------------------
(***************************************************************************)
(* MoveBlock, and the blocks that buttons let out.                         *)
(***************************************************************************)

\* v comes of w: whoever is not dead has a sound board.
Fine(w, v, m, a, c, ic) == Alive(v) => Board(v, m, a, c, ic) /\ StayTop(w, v)

LEMMA ButtonTiles ==
  /\ \A t \in ChipTiles : t \notin Buttons /\ t # TankButton
  /\ \A t \in Buttons : t \notin ChipTiles
  /\ TankButton # Teleport
BY DEF ChipTiles, Buttons, Swim, Chip, ToggleButton, CloneButton, TrapButton, TankButton, Teleport

LEMMA StayTopTwice ==
  ASSUME NEW u, NEW w, NEW v, StayTop(u, w), StayTop(w, v)
  PROVE  StayTop(u, v)
BY DEF StayTop

LEMMA BlockLeavesTops ==
  ASSUME NEW w, NEW m, NEW a, NEW c, NEW ic, NEW src \in Cell, NEW d, NEW r,
         BlockStepped(w, m, a, c, ic, src, d, r), w.upper[src] # Teleport,
         r.ok => w.upper[Step(src, d)] # Teleport
  PROVE  StayTop(w, r.w)
<1>1. CASE r.ok
  <2>1. r.at = Step(src, d) /\ SameBut(w, r.w, src, r.at)
    BY <1>1 DEF BlockStepped
  <2> QED
    BY <1>1, <2>1 DEF StayTop, SameBut
<1>2. CASE ~r.ok
  BY <1>2 DEF BlockStepped, StayTop, SameLayers
<1> QED
  BY <1>1, <1>2

LEMMA LevelHas ==
  ASSUME NEW w, NEW m, NEW a, NEW c, NEW ic, Board(w, m, a, c, ic), NEW x \in Cell,
         NEW s \in {TankButton, Teleport}, w.upper[x] = s \/ w.lower[x] = s
  PROVE  Has(Levels[w.level], x, s) /\ w.level \in 1..Len(Levels)
<1>1. w.level \in 1..Len(Levels)
  BY BoardParts, WorldParts
<1> QED
  BY <1>1 DEF Board, Cells, GoodCell

LEMMA MachineBlock ==
  ASSUME LevelsWellFormed,
         NEW w, NEW m, NEW a, NEW c, NEW ic, Board(w, m, a, c, ic), NEW p \in Machines(w.level),
         p \in Cell, w.upper[p] \in CloneBlocks,
         NEW q, q = Step(p, CloneBlockDir(w.upper[p])), q \in Cell
  PROVE  ~Has(Levels[w.level], q, TankButton) /\ ~Has(Levels[w.level], q, Teleport)
<1> DEFINE l == Levels[w.level]
<1>1. w.level \in 1..Len(Levels)
  BY BoardParts, WorldParts
<1>2. PICK i \in 1..Len(l.clones) : p = l.clones[i].to
  BY DEF Machines
<1>3. w.upper[p] = l.upper[p]
  <2>1. w.upper[p] \notin Monsters
    BY TileFacts
  <2> QED
    BY <2>1 DEF Board, Cells, GoodCell
<1>4. ClonesApart(l)
  BY <1>1 DEF LevelsWellFormed, WellFormed
<1> QED
  BY <1>2, <1>3, <1>4 DEF ClonesApart

LEMMA HitsAtOnceWell ==
  ASSUME NEW w \in WorldType, NEW r, BlockResult(w, r), NEW m, NEW a, NEW c, NEW ic,
         Board(r.w, m, a, c, ic), r.w.lower[r.at] # TankButton
  PROVE  Board(HitAtOnce(r).w, m, a, c, ic) /\ StayTop(r.w, HitAtOnce(r).w)
<1> DEFINE v == HitAtOnce(r).w
<1>1. \/ v = r.w
      \/ v = Crash(r.w, "cloneDepth")
      \/ v = Press(r.w, r.at)
  <2>1. r = [w |-> r.w, ok |-> r.ok, act |-> r.act, at |-> r.at]
    BY DEF BlockResult
  <2> HIDE DEF HitsButton, Press, Crash
  <2>2. \A u : [r EXCEPT !.w = u].w = u
    BY <2>1
  <2> QED
    BY <2>1, <2>2 DEF HitAtOnce
<1> HIDE DEF v
<1>2. CASE v = r.w
  BY <1>2 DEF StayTop, v
<1>3. CASE v = Crash(r.w, "cloneDepth")
  <2>1. r.w \in WorldType
    BY BoardParts
  <2>2. v \in WorldType
    BY <1>3, <2>1, CrashFollows DEF Follows, Fault
  <2>3. SameBoard(r.w, v)
    BY <1>3, <2>1 DEF Crash, SameBoard, WorldType
  <2> QED
    BY <2>2, <2>3, BoardAlike DEF StayTop, SameBoard, v
<1>4. CASE v = Press(r.w, r.at)
  BY <1>4, PressWell DEF v
<1> QED
  BY <1>1, <1>2, <1>3, <1>4

LEMMA Squishes ==
  ASSUME NEW w \in WorldType, NEW r, BlockResult(w, r)
  PROVE  /\ Squish(r).ok = r.ok /\ Squish(r).at = r.at /\ Squish(r).act = r.act
         /\ r.ok /\ r.w.lower[r.at] \in ChipTiles => ~Alive(Squish(r).w)
         /\ Alive(Squish(r).w) => Squish(r) = r
<1>1. r = [w |-> r.w, ok |-> r.ok, act |-> r.act, at |-> r.at]
  BY DEF BlockResult
<1>2. r.w \in WorldType
  BY DEF BlockResult, Follows
<1>3. ~Alive(Kill(r.w, "Squished"))
  BY <1>2 DEF Alive, Kill, WorldType
<1> HIDE DEF Alive, Kill
<1> QED
  BY <1>1, <1>3 DEF Squish

LEMMA ClonedBlockWell ==
  ASSUME LevelsWellFormed,
         NEW w, NEW m, NEW a, NEW c, NEW ic, Board(w, m, a, c, ic), NEW p \in Machines(w.level),
         p \in Cell, w.upper[p] \in CloneBlocks, NEW rnd \in Dir,
         NEW d, d = CloneBlockDir(w.upper[p]), Step(p, d) \in Cell,
         NEW v, v = MoveClonedBlock(w, p, d, Block, rnd)
  PROVE  Fine(w, v, m, a, c, ic)
<1> DEFINE q == Step(p, d)
           r == BlockStep(w, p, d, Block, rnd)
           s == HitAtOnce(r)
<1>1. w \in WorldType
  BY BoardParts
<1>2. d \in Dir /\ Block \in Facing
  BY CloneBlockDirType DEF Dir, Facing, Block, Tile
<1>3. BlockMover(w, p, Block)
  BY DEF BlockMover
<1>4. BlockResult(w, r)
  BY <1>1, <1>2, BlockStepType
<1>5. BlockStepped(w, m, a, c, ic, p, d, r)
  BY <1>2, <1>3, BlockStepWell
<1>6. v = Squish(s).w
  BY DEF MoveClonedBlock
<1>7. BlockResult(w, s)
  BY <1>1, <1>4, HitAtOnceType
<1>8. ~Has(Levels[w.level], q, TankButton) /\ ~Has(Levels[w.level], q, Teleport)
  BY MachineBlock
<1>9. w.upper[q] # Teleport /\ w.upper[p] # Teleport
  BY <1>8, LevelHas, TopTiles
<1> HIDE DEF q, r, s
<1>10. StayTop(w, r.w)
  BY <1>5, <1>9, BlockLeavesTops DEF q
<1>11. ~HitsButton(r) => s = r
  BY DEF s, HitAtOnce
<1>12. CASE ~r.ok
  <2>1. s = r /\ Squish(s) = s
    BY <1>11, <1>12 DEF HitsButton, Squish
  <2>2. Board(r.w, m, a, c, ic)
    BY <1>5, <1>12 DEF BlockStepped
  <2> QED
    BY <1>6, <1>10, <2>1, <2>2 DEF Fine
<1>13. CASE r.ok /\ r.at = c
  <2>1. r.w.lower[r.at] \in ChipTiles
    BY <1>5, <1>13 DEF BlockStepped
  <2>2. s = r
    BY <1>11, <2>1, ButtonTiles DEF HitsButton
  <2>3. ~Alive(v)
    BY <1>1, <1>4, <1>6, <1>13, <2>1, <2>2, Squishes
  <2> QED
    BY <2>3 DEF Fine
<1>14. CASE r.ok /\ r.at # c
  <2>1. Board(r.w, m, a, c, ic) /\ r.at = q /\ r.w.level = w.level /\ r.at \in Cell
    BY <1>5, <1>9, <1>14 DEF BlockStepped, q
  <2>2. r.w.lower[r.at] # TankButton
    BY <1>8, <2>1, LevelHas
  <2>3. Board(s.w, m, a, c, ic) /\ StayTop(r.w, s.w)
    BY <1>1, <1>4, <2>1, <2>2, HitsAtOnceWell DEF s
  <2>4. Alive(v) => v = s.w
    BY <1>1, <1>6, <1>7, Squishes
  <2>5. StayTop(w, s.w)
    BY <1>10, <2>3, StayTopTwice
  <2> QED
    BY <2>3, <2>4, <2>5 DEF Fine
<1> QED
  BY <1>12, <1>13, <1>14

LEMMA PressButtonWell ==
  ASSUME LevelsWellFormed,
         NEW w, NEW m, NEW a, NEW c, NEW ic, Board(w, m, a, c, ic), NEW b,
         m = 0 \/ w.lower[b] # TankButton, NEW rnd \in Dir, NEW v, v = PressButton(w, b, rnd)
  PROVE  Fine(w, v, m, a, c, ic)
<1> DEFINE p == BlockOut(w, b)
           q == FindCloneMachine(w, b)
<1>1. w \in WorldType
  BY BoardParts
<1>2. v = PressFor(w, b, p, rnd)
  BY DEF PressButton
<1>3. p # NoCell => /\ p = q /\ q # NoCell /\ w.upper[q] \in CloneBlocks
                    /\ Leads(w, q, CloneBlockDir(w.upper[q]))
  BY DEF BlockOut
<1> HIDE DEF p
<1>4. CASE p = NoCell
  <2>1. v = Press(w, b)
    BY <1>2, <1>4 DEF PressFor
  <2> QED
    BY <2>1, PressWell DEF Fine
<1>5. CASE p # NoCell
  <2>1. v = MoveClonedBlock(w, p, CloneBlockDir(w.upper[p]), Block, rnd)
    BY <1>2, <1>5 DEF PressFor
  <2>2. p \in Machines(w.level) /\ p \in Cell
    BY <1>1, <1>3, <1>5, MachineFound
  <2>3. Step(p, CloneBlockDir(w.upper[p])) \in Cell /\ w.upper[p] \in CloneBlocks
    BY <1>3, <1>5 DEF Leads
  <2> QED
    BY <2>1, <2>2, <2>3, ClonedBlockWell
<1> QED
  BY <1>4, <1>5

LEMMA HitsWell ==
  ASSUME LevelsWellFormed, NEW r, NEW m, NEW a, NEW c, NEW ic,
         Board(r.w, m, a, c, ic), m = 0 \/ r.w.lower[r.at] # TankButton, NEW rnd \in Dir,
         NEW v, v = PressButton(r.w, r.at, rnd) \/ v = r.w
  PROVE  Fine(r.w, v, m, a, c, ic)
<1>1. CASE v = PressButton(r.w, r.at, rnd)
  BY <1>1, PressButtonWell
<1>2. CASE v = r.w
  BY <1>2 DEF Fine, StayTop
<1> QED
  BY <1>1, <1>2

\* MoveBlock, of a block that Chip does not push.
BlockMoved(w, c, ic, src, d, r) ==
  /\ BlockResult(w, r)
  /\ Alive(r.w) => /\ Board(r.w, 0, NoCell, c, ic)
                   /\ ~r.ok => SameLayers(w, r.w)
                   /\ (r.ok => w.upper[Step(src, d)] # Teleport) => StayTop(w, r.w)

LEMMA MoveBlockWell ==
  ASSUME LevelsWellFormed, NEW w, NEW c, NEW ic, Board(w, 0, NoCell, c, ic),
         NEW src \in Cell, w.upper[src] = Block, NEW d \in Dir, NEW rnd \in Floors,
         NEW v, v = MoveBlock(w, src, d, Keep, rnd)
  PROVE  BlockMoved(w, c, ic, src, d, v)
<1> DEFINE r == BlockStep(w, src, d, Keep, rnd[1])
           s == Hit(r, rnd[2])
<1>1. w \in WorldType
  BY BoardParts
<1>2. rnd[1] \in Dir /\ rnd[2] \in Dir /\ Keep \in Facing
  BY DEF Floors, Facing
<1>3. BlockMover(w, src, Keep)
  BY DEF BlockMover
<1>4. BlockResult(w, r)
  BY <1>1, <1>2, BlockStepType
<1>5. BlockStepped(w, 0, NoCell, c, ic, src, d, r)
  BY <1>2, <1>3, BlockStepWell
<1>6. v = Squish(s) /\ BlockResult(w, v)
  BY <1>1, <1>2, MoveBlockType DEF MoveBlock
<1>7. BlockResult(w, s)
  BY <1>1, <1>2, <1>4, HitType
<1>8. /\ s.ok = r.ok /\ s.at = r.at
      /\ s.w = PressButton(r.w, r.at, rnd[2]) \/ s.w = r.w
      /\ ~HitsButton(r) => s = r
  <2>1. r = [w |-> r.w, ok |-> r.ok, act |-> r.act, at |-> r.at]
    BY <1>4 DEF BlockResult
  <2> HIDE DEF r
  <2>2. \A u : [r EXCEPT !.w = u].w = u /\ [r EXCEPT !.w = u].ok = r.ok /\ [r EXCEPT !.w = u].at = r.at
    BY <2>1
  <2> QED
    BY <2>2 DEF Hit
<1>9. w.upper[src] # Teleport
  BY TopTiles DEF Bearers
<1> HIDE DEF r, s
<1>10. (r.ok => w.upper[Step(src, d)] # Teleport) => StayTop(w, r.w)
  BY <1>5, <1>9, BlockLeavesTops
<1>11. CASE ~r.ok
  <2>1. s = r /\ v = s
    BY <1>6, <1>8, <1>11 DEF HitsButton, Squish
  <2>2. Board(r.w, 0, NoCell, c, ic) /\ SameLayers(w, r.w)
    BY <1>5, <1>11 DEF BlockStepped
  <2> QED
    BY <1>6, <1>10, <2>1, <2>2 DEF BlockMoved
<1>12. CASE r.ok /\ r.at = c
  <2>1. r.w.lower[r.at] \in ChipTiles
    BY <1>5, <1>12 DEF BlockStepped
  <2>2. s = r
    BY <1>8, <2>1, ButtonTiles DEF HitsButton
  <2>3. ~Alive(v.w)
    BY <1>1, <1>4, <1>6, <1>12, <2>1, <2>2, Squishes
  <2> QED
    BY <1>6, <2>3 DEF BlockMoved
<1>13. CASE r.ok /\ r.at # c
  <2>1. Board(r.w, 0, NoCell, c, ic)
    BY <1>5, <1>13 DEF BlockStepped
  <2>2. Fine(r.w, s.w, 0, NoCell, c, ic)
    BY <1>2, <1>8, <2>1, HitsWell
  <2>3. Alive(v.w) => v = s
    BY <1>1, <1>6, <1>7, Squishes
  <2>4. v.ok
    BY <1>1, <1>6, <1>7, <1>8, <1>13, Squishes
  <2>5. StayTop(w, r.w) /\ StayTop(r.w, s.w) => StayTop(w, s.w)
    BY StayTopTwice
  <2>6. Alive(v.w) => Board(v.w, 0, NoCell, c, ic) /\ StayTop(r.w, s.w)
    BY <2>2, <2>3 DEF Fine
  <2> QED
    BY <1>6, <1>10, <1>13, <2>3, <2>4, <2>5, <2>6 DEF BlockMoved
<1> QED
  BY <1>11, <1>12, <1>13

LEMMA PushBlockWell ==
  ASSUME NEW w, NEW c, NEW ic, Board(w, 0, NoCell, c, ic),
         NEW src \in Cell, w.upper[src] = Block, NEW d \in Dir, NEW rnd \in Floors,
         NEW v, v = PushBlock(w, src, d, rnd)
  PROVE  Alive(v.w) => /\ Board(v.w, 0, NoCell, c, ic)
                       /\ v.ok => (v.w.upper[src] = Block => v.w.lower[src] = CloneMachine)
<1> DEFINE r == BlockStep(w, src, d, Keep, rnd[1])
           s == Squish(r)
<1>1. w \in WorldType
  BY BoardParts
<1>2. rnd[1] \in Dir /\ Keep \in Facing
  BY DEF Floors, Facing
<1>3. BlockMover(w, src, Keep)
  BY DEF BlockMover
<1>4. BlockResult(w, r)
  BY <1>1, <1>2, BlockStepType
<1>5. BlockStepped(w, 0, NoCell, c, ic, src, d, r)
  BY <1>2, <1>3, BlockStepWell
<1>6. v.w = s.w /\ v.ok = s.ok
  BY DEF PushBlock, Noted
<1> HIDE DEF r
<1>7. /\ s.ok = r.ok /\ (Alive(s.w) => s = r)
      /\ r.ok /\ r.w.lower[r.at] \in ChipTiles => ~Alive(s.w)
  BY <1>1, <1>4, Squishes
<1> HIDE DEF s
<1> QED
  BY <1>5, <1>6, <1>7 DEF BlockStepped

-----------------------------------------------------------------------------
(***************************************************************************)
(* A step of a monster.                                                    *)
(***************************************************************************)

MonsterCover(w, src, dst, act) ==
  CoverFor(ShutFor(w, act, dst, src), {0, 1, 4, 6, 7}, act, dst)
MonsterTop(w, dst, act, t) == IF act = 2 THEN w.upper[dst] ELSE t
MonsterBeneath(w, dst, act) ==
  IF act \in {0, 1, 4, 6, 7} THEN w.upper[dst] ELSE w.lower[dst]
SameLists(w, v) == v.monsters = w.monsters /\ v.slips = w.slips

LEMMA MonsterCovers ==
  ASSUME NEW w \in WorldType, NEW src, NEW dst \in Cell, NEW act,
         NEW x, x = MonsterCover(w, src, dst, act)
  PROVE  /\ x \in WorldType /\ x.level = w.level /\ x.autopsy = w.autopsy
         /\ SameLists(w, x) /\ x.upper = w.upper
         /\ x.lower[dst] = MonsterBeneath(w, dst, act)
         /\ \A y \in Cell : y # dst => x.lower[y] = w.lower[y]
<1> DEFINE u == ShutFor(w, act, dst, src)
<1>1. u \in WorldType /\ SameLayers(w, u) /\ SameLists(w, u)
  BY Shuts DEF SameLists
<1>2. x = CoverFor(u, {0, 1, 4, 6, 7}, act, dst)
  BY DEF MonsterCover
<1> HIDE DEF u
<1>3. /\ x \in WorldType /\ x.level = u.level /\ x.autopsy = u.autopsy
      /\ x.monsters = u.monsters /\ x.slips = u.slips /\ x.upper = u.upper
  BY <1>1, <1>2, Covers
<1>4. /\ x.lower[dst] = IF act \in {0, 1, 4, 6, 7} THEN u.upper[dst] ELSE u.lower[dst]
      /\ \A y \in Cell : y # dst => x.lower[y] = u.lower[y]
  BY <1>1, <1>2, Covers
<1> QED
  BY <1>1, <1>3, <1>4 DEF SameLayers, SameLists, MonsterBeneath

LEMMA SetUpperSame ==
  ASSUME NEW w \in WorldType, NEW p \in Cell
  PROVE  SetUpper(w, p, w.upper[p]) = w
<1>1. w.upper \in [Cell -> Tile]
  BY WorldParts
<1>2. [w.upper EXCEPT ![p] = w.upper[p]] = w.upper
  BY <1>1
<1> QED
  BY <1>2 DEF SetUpper, WorldType

LEMMA MonsterAppears ==
  ASSUME NEW w \in WorldType, NEW src \in Cell, NEW dst \in Cell, src # dst, NEW act,
         NEW t \in Tile, NEW x, x = MonsterCover(w, src, dst, act),
         NEW y \in WorldType, SameLayers(x, y),
         NEW v, v = Uncover(AppearFor(y, act, dst, t), src)
  PROVE  /\ v \in WorldType /\ SameLists(y, v)
         /\ Laid(w, v, src, dst, MonsterTop(w, dst, act, t), MonsterBeneath(w, dst, act))
<1> DEFINE top == MonsterTop(w, dst, act, t)
<1>1. /\ x.level = w.level /\ x.autopsy = w.autopsy /\ x.upper = w.upper
      /\ x.lower[dst] = MonsterBeneath(w, dst, act)
      /\ \A z \in Cell : z # dst => x.lower[z] = w.lower[z]
  BY MonsterCovers
<1>2. /\ y.level = w.level /\ y.autopsy = w.autopsy /\ y.upper = w.upper
      /\ y.lower[dst] = MonsterBeneath(w, dst, act)
      /\ \A z \in Cell : z # dst => y.lower[z] = w.lower[z]
  BY <1>1 DEF SameLayers
<1>3. top \in Tile
  BY WorldParts DEF MonsterTop
<1>4. AppearFor(y, act, dst, t) = SetUpper(y, dst, top)
  <2>1. CASE act = 2
    <3>1. AppearFor(y, act, dst, t) = y /\ top = y.upper[dst]
      BY <1>2, <2>1 DEF AppearFor, MonsterTop
    <3> QED
      BY <3>1, SetUpperSame
  <2>2. CASE act # 2
    BY <2>2 DEF AppearFor, MonsterTop
  <2> QED
    BY <2>1, <2>2
<1> HIDE DEF top
<1>5. v \in WorldType /\ Laid(y, v, src, dst, top, y.lower[dst])
  BY <1>3, <1>4, LaysOut
<1>6. SameLists(y, v)
  BY <1>3, <1>4, LaysOut DEF SameLists
<1>7. Laid(w, v, src, dst, top, MonsterBeneath(w, dst, act))
  BY <1>2, <1>5 DEF Laid, LeftBehind, SameBut
<1> QED
  BY <1>5, <1>6, <1>7 DEF top

\* What became of monster m, of its flag and of its slip entry.
Rolls(w, v, m, src, to, dst) ==
  /\ OnlyMonster(w, v, m) /\ Reslips(w.slips, v.slips, src, to, TRUE)
  /\ IF v.monsters[m].slipping THEN to = dst /\ Slips(v.slips, dst)
     ELSE ~Slips(v.slips, dst)

LEMMA MonsterStopsSliding ==
  ASSUME NEW w \in WorldType, NEW m, NEW src, SlipsAt(w, m, src), NEW dst,
         ~Slips(w.slips, dst) \/ dst = src, NEW to, NEW v, v = DeleteSlipperAt(w, src)
  PROVE  v \in WorldType /\ SameLayers(w, v) /\ Rolls(w, v, m, src, to, dst)
<1>1. v \in WorldType /\ SameLayers(w, v) /\ OnlyMonster(w, v, m)
  BY UnslipsMonster
<1>2. OffList(v, m, src)
  BY UnslipsMonster
<1>3. Reslips(w.slips, v.slips, src, NoCell, TRUE)
  BY UnslipsMonster
<1>4. Reslips(w.slips, v.slips, src, to, TRUE)
  BY UnslipsMonster
<1>5. ~Slips(v.slips, dst)
  <2>1. CASE dst = src
    BY <1>2, <2>1 DEF OffList
  <2>2. CASE ~Slips(w.slips, dst)
    <3>1. \A k \in 1..Len(v.slips) : v.slips[k].pos # NoCell
      BY <1>1, SlipCells, NoCellIsNone
    <3>2. \A k \in 1..Len(v.slips) : \E j \in 1..Len(w.slips) : v.slips[k] = w.slips[j]
      BY <1>3, <3>1 DEF Reslips
    <3> QED
      BY <2>2, <3>2 DEF Slips
  <2> QED
    BY <2>1, <2>2
<1> QED
  BY <1>1, <1>2, <1>4, <1>5 DEF Rolls, OffList

LEMMA CarriesMonster ==
  ASSUME NEW w \in WorldType, NEW m, NEW src \in Cell, SlipsAt(w, m, src), NEW dst \in Cell,
         src # dst, ~Slips(w.slips, dst), NEW act, act \notin {4, 7}, NEW t \in Tile,
         NEW to, NEW v, v = CarryMonster(w, src, dst, act, t)
  PROVE  /\ v \in WorldType /\ Rolls(w, v, m, src, to, dst)
         /\ Laid(w, v, src, dst, MonsterTop(w, dst, act, t), MonsterBeneath(w, dst, act))
<1> DEFINE x == MonsterCover(w, src, dst, act)
           y == DeleteSlipperAt(x, src)
<1>1. v = Uncover(AppearFor(y, act, dst, t), src)
  BY DEF CarryMonster, UnslipFor, MonsterCover
<1>2. x \in WorldType /\ SameLists(w, x)
  BY MonsterCovers
<1> HIDE DEF x
<1>3. SlipsAt(x, m, src) /\ ~Slips(x.slips, dst)
  BY <1>2 DEF SlipsAt, SameLists, FindMonster
<1>4. y \in WorldType /\ SameLayers(x, y) /\ Rolls(x, y, m, src, to, dst)
  BY <1>2, <1>3, MonsterStopsSliding
<1> HIDE DEF y
<1>5. v \in WorldType /\ SameLists(y, v)
  BY <1>1, <1>4, MonsterAppears DEF x
<1>6. Laid(w, v, src, dst, MonsterTop(w, dst, act, t), MonsterBeneath(w, dst, act))
  BY <1>1, <1>4, MonsterAppears DEF x
<1>7. Rolls(w, v, m, src, to, dst)
  BY <1>2, <1>4, <1>5 DEF Rolls, SameLists, OnlyMonster
<1> QED
  BY <1>5, <1>6, <1>7

LEMMA CarriesSlider ==
  ASSUME NEW w \in WorldType, NEW src \in Cell, NEW dst \in Cell, src # dst,
         NEW act \in {4, 7}, NEW t \in Tile, NEW v, v = CarryMonster(w, src, dst, act, t)
  PROVE  /\ v \in WorldType /\ SameLists(w, v)
         /\ Laid(w, v, src, dst, t, w.upper[dst])
<1> DEFINE x == MonsterCover(w, src, dst, act)
<1>1. v = Uncover(AppearFor(x, act, dst, t), src)
  BY DEF CarryMonster, UnslipFor, MonsterCover
<1>2. x \in WorldType /\ SameLists(w, x) /\ SameLayers(x, x)
  BY MonsterCovers DEF SameLayers
<1> HIDE DEF x
<1>3. v \in WorldType /\ SameLists(x, v)
  BY <1>1, <1>2, MonsterAppears DEF x
<1>4. Laid(w, v, src, dst, MonsterTop(w, dst, act, t), MonsterBeneath(w, dst, act))
  BY <1>1, <1>2, MonsterAppears DEF x
<1> QED
  BY <1>2, <1>3, <1>4 DEF SameLists, MonsterTop, MonsterBeneath

\* Entry m, of a monster at src, goes to dst with action code act and shows t.
Wandered(w, v, m, src, dst, act, t) ==
  /\ v \in WorldType
  /\ Rolls(w, v, m, src, IF act \in {2, 5} THEN NoCell ELSE dst, dst)
  /\ Laid(w, v, src, dst, MonsterTop(w, dst, act, IF act = 5 THEN Floor ELSE t),
          MonsterBeneath(w, dst, act))

Wanders(w, v, m, src, dst, act) ==
  \E t \in Tile : /\ Kind(t) = Kind(w.monsters[m].tile)
                  /\ Wandered(w, v, m, src, dst, act, t)
Landed(r, act, dst) == /\ r.ok /\ (r.dead <=> act \in {2, 5})
                       /\ r.act = act /\ r.at = dst /\ r.d \in Dir

LEMMA MonsterWanders ==
  ASSUME NEW w \in WorldType, NEW m, NEW src \in Cell, SlipsAt(w, m, src),
         NEW dst \in Cell, src # dst, ~Slips(w.slips, dst), NEW d \in Dir, NEW act,
         NEW facing \in Facing, Faces(facing, w.monsters[m].tile), NEW rnd \in Dir,
         w.upper[src] \in Tile, Kind(w.upper[src]) = Kind(w.monsters[m].tile),
         NEW r, r = MonsterLeaves(w, src, dst, d, act, facing, rnd)
  PROVE  Landed(r, act, dst) /\ Wanders(w, r.w, m, src, dst, act)
<1> DEFINE s == IF act \in {4, 7} THEN Slide(w, src, dst, d, TRUE, facing, rnd)
                ELSE [w |-> w, d |-> d, facing |-> facing]
           t == IF s.facing = Keep THEN w.upper[src] ELSE s.facing
           top == IF act = 5 THEN Floor ELSE t
<1>1. /\ r.ok = TRUE /\ r.dead = (act \in {2, 5}) /\ r.act = act /\ r.at = dst /\ r.d = s.d
      /\ r.w = CarryMonster(s.w, src, dst, act, top)
  BY DEF MonsterLeaves, MonsterLands
<1>2. \A k \in 1..Len(w.slips) : w.slips[k].pos = dst => w.slips[k].pos = src
  BY DEF Slips
<1>3. CASE act \in {4, 7}
  <2>1. s = SlideBeast(w, src, dst, d, facing, rnd)
    BY <1>3 DEF SlideBeast
  <2> HIDE DEF s
  <2>2. s.w \in WorldType /\ SameLayers(w, s.w) /\ OnlyMonster(w, s.w, m)
    BY <1>2, <2>1, SlidesMonster
  <2>3. s.d \in Dir /\ Faces(s.facing, w.monsters[m].tile)
    BY <1>2, <2>1, SlidesMonster
  <2>4. Reslips(w.slips, s.w.slips, src, dst, TRUE)
    BY <1>2, <2>1, SlidesMonster
  <2>5. FlagTells(s.w, m, dst)
    BY <1>2, <2>1, SlidesMonster
  <2>6. t \in Tile /\ Kind(t) = Kind(w.monsters[m].tile) /\ top = t
    BY <1>3, <2>3 DEF Faces
  <2> HIDE DEF t, top
  <2>7. r.w \in WorldType /\ SameLists(s.w, r.w)
    BY <1>1, <1>3, <2>2, <2>6, CarriesSlider
  <2>8. Laid(s.w, r.w, src, dst, top, s.w.upper[dst])
    BY <1>1, <1>3, <2>2, <2>6, CarriesSlider
  <2>9. Laid(w, r.w, src, dst, t, w.upper[dst])
    BY <2>2, <2>6, <2>8 DEF SameLayers, Laid, LeftBehind, SameBut
  <2>10. Rolls(w, r.w, m, src, dst, dst)
    BY <2>2, <2>4, <2>5, <2>7 DEF Rolls, SameLists, OnlyMonster, FlagTells
  <2>11. Wandered(w, r.w, m, src, dst, act, t)
    BY <1>3, <2>7, <2>9, <2>10 DEF Wandered, MonsterTop, MonsterBeneath
  <2> QED
    BY <1>1, <2>3, <2>6, <2>11 DEF Landed, Wanders
<1>4. CASE act \notin {4, 7}
  <2>1. s.w = w /\ s.d = d /\ s.facing = facing
    BY <1>4
  <2> HIDE DEF s
  <2>2. t \in Tile /\ Kind(t) = Kind(w.monsters[m].tile)
    BY <2>1 DEF Faces
  <2>3. top \in Tile
    BY <2>2 DEF Tile, Floor
  <2> HIDE DEF t, top
  <2> DEFINE to == IF act \in {2, 5} THEN NoCell ELSE dst
  <2>4. r.w = CarryMonster(w, src, dst, act, top)
    BY <1>1, <2>1
  <2> HIDE DEF to
  <2>5. r.w \in WorldType /\ Rolls(w, r.w, m, src, to, dst)
    BY <1>4, <2>3, <2>4, CarriesMonster
  <2>6. Laid(w, r.w, src, dst, MonsterTop(w, dst, act, top), MonsterBeneath(w, dst, act))
    BY <1>4, <2>3, <2>4, CarriesMonster
  <2>7. Wandered(w, r.w, m, src, dst, act, t)
    BY <2>5, <2>6 DEF Wandered, top, to
  <2> QED
    BY <1>1, <2>1, <2>2, <2>7 DEF Landed, Wanders
<1> QED
  BY <1>3, <1>4

\* A monster enters dst with action code act.
MonsterMayCome(w, dst, act) ==
  LET t == IF w.upper[dst] \in ChipTiles THEN w.lower[dst] ELSE w.upper[dst]
  IN  /\ t \notin Bearers \cup CloneBlocks \cup {ICChip, CloneMachine}
      /\ act \in {0, 1, 2, 4, 5, 6, 7}
      /\ act = 2 => t \in {Water, Fire}
      /\ act = 5 <=> t = Bomb
      /\ act = 7 <=> t = Teleport

LEMMA MayComeUpper ==
  ASSUME NEW w, NEW dst, NEW act, MonsterMayCome(w, dst, act)
  PROVE  /\ w.upper[dst] \notin Bearers \cup CloneBlocks \cup {ICChip, CloneMachine}
         /\ w.upper[dst] \notin ChipTiles /\ act = 5 => w.upper[dst] = Bomb
BY TileFacts, TopTiles DEF MonsterMayCome

LEMMA CellsOfMonster ==
  ASSUME NEW w \in WorldType, NEW c, NEW ph \in BOOLEAN, NEW ic, Cells(w, c, ph, ic),
         NEW src \in Cell, w.upper[src] \in Monsters, NEW dst \in Cell,
         NEW act, MonsterMayCome(w, dst, act), act \in {2, 5} \/ dst # c,
         NEW t \in Monsters, NEW v,
         Laid(w, v, src, dst, MonsterTop(w, dst, act, IF act = 5 THEN Floor ELSE t),
              MonsterBeneath(w, dst, act))
  PROVE  Cells(v, c, ph, ic)
<1> DEFINE n == w.level
<1>1. n \in 1..Len(Levels) /\ v.level = n
  BY WorldParts DEF Laid
<1>2. \A x \in Cell : GoodCell(n, w.upper[x], w.lower[x], x, c, ph, ic)
  BY DEF Cells
<1> HIDE DEF n
<1>3. GoodCell(n, v.upper[src], v.lower[src], src, c, ph, ic)
  <2>1. CASE w.lower[src] = CloneMachine
    <3>1. v.upper[src] = w.upper[src] /\ v.lower[src] = w.lower[src]
      BY <2>1 DEF Laid, LeftBehind
    <3> QED
      BY <1>2, <3>1
  <2>2. CASE w.lower[src] # CloneMachine
    <3>1. v.upper[src] = w.lower[src] /\ v.lower[src] = Floor
      BY <2>2 DEF Laid, LeftBehind
    <3>2. w.upper[src] \in Bearers
      BY TileFacts
    <3> QED
      BY <1>1, <1>2, <2>2, <3>1, <3>2, CellLeft
  <2> QED
    BY <2>1, <2>2
<1>4. GoodCell(n, v.upper[dst], v.lower[dst], dst, c, ph, ic)
  <2>1. CASE act \in {0, 1, 4, 6, 7}
    <3>1. v.upper[dst] = t /\ v.lower[dst] = w.upper[dst] /\ t \in Bearers /\ dst # c
      BY <2>1, TileFacts DEF Laid, MonsterTop, MonsterBeneath
    <3> QED
      BY <1>2, <3>1, CellCovered, MayComeUpper
  <2>2. CASE act = 2
    BY <1>2, <2>2 DEF Laid, MonsterTop, MonsterBeneath
  <2>3. CASE act = 5
    <3>1. v.upper[dst] = Floor /\ v.lower[dst] = w.lower[dst]
      BY <2>3 DEF Laid, MonsterTop, MonsterBeneath
    <3>2. w.upper[dst] \notin ChipTiles
      <4>1. ASSUME w.upper[dst] \in ChipTiles PROVE FALSE
        <5>1. w.lower[dst] = Bomb
          BY <2>3, <4>1 DEF MonsterMayCome
        <5>2. w.upper[dst] \in Bearers
          BY <1>2, <5>1 DEF GoodCell
        <5> QED
          BY <4>1, <5>2, TileFacts
      <4> QED
        BY <4>1
    <3>3. w.upper[dst] = Bomb /\ dst # c
      BY <1>2, <2>3, <3>2, MayComeUpper DEF GoodCell
    <3>4. ~IsToggle(w.upper[dst])
      BY <3>3, TilesApart
    <3> QED
      BY <1>1, <1>2, <3>1, <3>3, <3>4, CellReplaced, MayComeUpper
  <2> QED
    BY <2>1, <2>2, <2>3 DEF MonsterMayCome
<1>5. ASSUME NEW x \in Cell, x # src, x # dst
      PROVE  GoodCell(n, v.upper[x], v.lower[x], x, c, ph, ic)
  <2>1. v.upper[x] = w.upper[x] /\ v.lower[x] = w.lower[x]
    BY <1>5 DEF Laid, SameBut
  <2> QED
    BY <1>2, <2>1
<1> QED
  BY <1>1, <1>3, <1>4, <1>5 DEF Cells

LEMMA RosterOfWandered ==
  ASSUME NEW w \in WorldType, Roster(w, 0, NoCell), NEW m \in 1..Len(w.monsters),
         NEW src \in Cell, w.monsters[m].pos = src, NEW dst \in Cell, src # dst,
         w.lower[src] \notin Bearers,
         NEW act, MonsterMayCome(w, dst, act), NEW t \in Monsters,
         Kind(t) = Kind(w.monsters[m].tile), NEW v, Wandered(w, v, m, src, dst, act, t)
  PROVE  Roster(v, m, IF act \in {2, 5} THEN NoCell ELSE dst)
<1> DEFINE to == IF act \in {2, 5} THEN NoCell ELSE dst
           a == to
<1>1. /\ v \in WorldType /\ Rolls(w, v, m, src, to, dst)
      /\ Laid(w, v, src, dst, MonsterTop(w, dst, act, IF act = 5 THEN Floor ELSE t),
              MonsterBeneath(w, dst, act))
  BY DEF Wandered
<1>2. w.upper[dst] \notin Bearers \cup CloneBlocks \cup {ICChip, CloneMachine}
  BY MayComeUpper
<1>3. \/ a = NoCell /\ to = NoCell /\ v.upper[dst] \notin Monsters
      \/ /\ a = dst /\ v.upper[dst] \in Monsters /\ v.lower[dst] # CloneMachine
         /\ Kind(v.upper[dst]) = Kind(v.monsters[m].tile)
  <2>1. CASE act \in {2, 5}
    <3>1. v.upper[dst] \in {w.upper[dst], Floor}
      BY <1>1, <2>1 DEF Laid, MonsterTop
    <3> QED
      BY <1>2, <2>1, <3>1, TileFacts
  <2>2. CASE act \notin {2, 5}
    <3>1. v.upper[dst] = t /\ v.lower[dst] = w.upper[dst]
      BY <1>1, <2>2 DEF Laid, MonsterTop, MonsterBeneath, MonsterMayCome
    <3> QED
      BY <1>1, <1>2, <2>2, <3>1 DEF Rolls, OnlyMonster
  <2> QED
    BY <2>1, <2>2
<1>4. v.upper[src] \notin Monsters \/ (v.upper[src] = w.upper[src] /\ v.lower[src] = CloneMachine)
  BY <1>1, TileFacts DEF Laid, LeftBehind
<1>5. v.slips \in Seq(Slipper)
  BY <1>1, WorldParts
<1>6. to = NoCell \/ to = dst
  OBVIOUS
<1> HIDE DEF to
<1>7. /\ Len(v.monsters) = Len(w.monsters)
      /\ \A i \in 1..Len(w.monsters) : i # m => v.monsters[i] = w.monsters[i]
      /\ Kind(v.monsters[m].tile) = Kind(w.monsters[m].tile)
  BY <1>1 DEF Rolls, OnlyMonster
<1>8. Reslips(w.slips, v.slips, src, to, TRUE)
  BY <1>1 DEF Rolls
<1>9. /\ v.monsters[m].slipping => to = dst /\ \E k \in 1..Len(v.slips) : v.slips[k].pos = dst
      /\ \A k \in 1..Len(v.slips) : v.slips[k].pos = dst => v.monsters[m].slipping
  BY <1>1 DEF Rolls, Slips
<1>10. SameBut(w, v, src, dst)
  BY <1>1 DEF Laid
<1>11. w.upper[dst] \notin Bearers
  BY <1>2
<1>12. Roster(v, m, a)
  BY <1>3, <1>4, <1>5, <1>6, <1>7, <1>8, <1>9, <1>10, <1>11, RosterOfMonster, ZenonT(60)
<1> QED
  BY <1>12 DEF to

\* The result r of MonsterStep, taken by entry m at src.
MonsterStepped(w, m, c, ic, src, r) ==
  IF r.ok
  THEN /\ r.at \in Cell /\ r.w \in WorldType /\ r.w.level = w.level /\ OnlyMonster(w, r.w, m)
       /\ r.d \in Dir /\ (r.dead => r.act # 1)
       /\ IF r.dead THEN Board(r.w, m, NoCell, c, ic)
          ELSE IF r.at = c THEN r.w.lower[r.at] \in ChipTiles
          ELSE Board(r.w, m, r.at, c, ic)
  ELSE /\ Board(r.w, 0, NoCell, c, ic) /\ OnlyMonster(w, r.w, m) /\ SameLayers(w, r.w)
       /\ ~r.dead

LEMMA MonsterStopsWell ==
  ASSUME NEW w, NEW c, NEW ic, Board(w, 0, NoCell, c, ic), NEW m \in 1..Len(w.monsters),
         NEW src, src = w.monsters[m].pos, NEW v, v = DeleteSlipperAt(w, src)
  PROVE  Board(v, 0, NoCell, c, ic) /\ OnlyMonster(w, v, m) /\ SameLayers(w, v)
<1>1. w \in WorldType /\ Roster(w, 0, NoCell)
  BY BoardParts
<1>2. SlipsAt(w, m, src) /\ src \in Cell
  BY <1>1, RosterSlipsAt
<1>3. v \in WorldType /\ SameLayers(w, v) /\ OnlyMonster(w, v, m)
  BY <1>1, <1>2, UnslipsMonster
<1>4. OffList(v, m, src)
  BY <1>1, <1>2, UnslipsMonster
<1>5. Reslips(w.slips, v.slips, src, NoCell, TRUE)
  BY <1>1, <1>2, UnslipsMonster
<1>6. Len(v.monsters) = Len(w.monsters) /\ Len(w.monsters) \in Nat
  BY <1>1, <1>3, WorldParts DEF OnlyMonster
<1>7. /\ \A i \in 1..Len(w.monsters) : /\ At(v, 0, NoCell, i) = At(w, 0, NoCell, i)
                                       /\ Kind(v.monsters[i].tile) = Kind(w.monsters[i].tile)
      /\ At(w, 0, NoCell, m) = src
  <2>1. \A i \in 1..Len(w.monsters) : /\ v.monsters[i].pos = w.monsters[i].pos
                                     /\ Kind(v.monsters[i].tile) = Kind(w.monsters[i].tile)
    BY <1>3 DEF OnlyMonster
  <2>2. \A i \in 1..Len(w.monsters) : i # 0
    BY <1>6
  <2> QED
    BY <2>1, <2>2 DEF At
<1>8. Listed(w, 0, NoCell) /\ Slid(w, 0, NoCell)
  BY <1>1 DEF Roster
<1>9. Listed(v, 0, NoCell)
  <2>1. v.upper = w.upper /\ v.lower = w.lower
    BY <1>3 DEF SameLayers
  <2>2. \A i \in 1..Len(v.monsters) :
          At(v, 0, NoCell, i) \in Cell =>
            /\ v.upper[At(v, 0, NoCell, i)] \in Monsters
            /\ Kind(v.upper[At(v, 0, NoCell, i)]) = Kind(v.monsters[i].tile)
    BY <1>6, <1>7, <1>8, <2>1 DEF Listed
  <2>3. /\ \A i, j \in 1..Len(v.monsters) : At(v, 0, NoCell, i) = At(v, 0, NoCell, j) => i = j
        /\ \A x \in Cell : v.upper[x] \in Monsters =>
             v.lower[x] = CloneMachine \/ \E i \in 1..Len(v.monsters) : At(v, 0, NoCell, i) = x
    BY <1>6, <1>7, <1>8, <2>1 DEF Listed
  <2>4. NoCell \notin Cell
    BY NoCellIsNone
  <2> QED
    BY <2>2, <2>3, <2>4 DEF Listed
<1>10. Slid(v, 0, NoCell)
  <2>1. \A k \in 1..Len(v.slips) : \E j \in 1..Len(w.slips) : v.slips[k] = w.slips[j] /\ v.slips[k].pos # src
    <3>1. \A k \in 1..Len(v.slips) : v.slips[k].pos # NoCell
      BY <1>3, SlipCells, NoCellIsNone
    <3> QED
      BY <1>5, <3>1 DEF Reslips
  <2>2. ASSUME NEW k \in 1..Len(v.slips)
        PROVE  IF v.slips[k].isblock
               THEN \E i \in 1..Len(v.monsters) :
                      At(v, 0, NoCell, i) = v.slips[k].pos /\ v.monsters[i].slipping
               ELSE v.upper[v.slips[k].pos] = Block
    <3>1. PICK j \in 1..Len(w.slips) : v.slips[k] = w.slips[j] /\ v.slips[k].pos # src
      BY <2>1
    <3>2. CASE v.slips[k].isblock
      <4>1. PICK i \in 1..Len(w.monsters) : At(w, 0, NoCell, i) = w.slips[j].pos /\ w.monsters[i].slipping
        BY <1>8, <3>1, <3>2 DEF Slid
      <4>2. i # m
        BY <1>7, <3>1, <4>1
      <4>3. v.monsters[i] = w.monsters[i]
        BY <1>3, <4>2 DEF OnlyMonster
      <4> QED
        BY <1>6, <1>7, <3>1, <3>2, <4>1, <4>3
    <3>3. CASE ~v.slips[k].isblock
      <4>1. w.upper[w.slips[j].pos] = Block
        BY <1>8, <3>1, <3>3 DEF Slid
      <4> QED
        BY <1>3, <3>1, <3>3, <4>1 DEF SameLayers
    <3> QED
      BY <3>2, <3>3
  <2>3. \A j, k \in 1..Len(v.slips) : v.slips[j].pos = v.slips[k].pos => j = k
    BY <1>5 DEF Reslips, Apart
  <2>4. ASSUME NEW i \in 1..Len(v.monsters), v.monsters[i].slipping
        PROVE  \E k \in 1..Len(v.slips) : v.slips[k].pos = At(v, 0, NoCell, i) /\ v.slips[k].isblock
    <3>1. i # m /\ i \in 1..Len(w.monsters) /\ v.monsters[i] = w.monsters[i]
      BY <1>3, <1>4, <1>6, <2>4 DEF OnlyMonster, OffList
    <3>2. PICK j \in 1..Len(w.slips) : w.slips[j].pos = At(w, 0, NoCell, i) /\ w.slips[j].isblock
      BY <1>8, <2>4, <3>1 DEF Slid
    <3>3. w.slips[j].pos # src
      BY <1>7, <1>8, <3>1, <3>2 DEF Listed
    <3>4. PICK k \in 1..Len(v.slips) : v.slips[k] = w.slips[j]
      BY <1>5, <3>3 DEF Reslips
    <3> QED
      BY <1>7, <3>1, <3>2, <3>4
  <2> QED
    BY <2>2, <2>3, <2>4 DEF Slid
<1>11. \E ph \in BOOLEAN : Cells(v, c, ph, ic)
  BY <1>3 DEF Board, Cells, SameLayers
<1> QED
  BY <1>3, <1>6, <1>9, <1>10, <1>11 DEF Board, Roster

LEMMA MonsterWay ==
  ASSUME NEW w \in WorldType, NEW src \in Cell, NEW d, NEW act, act = MonsterAct(w, src, d),
         act # Refused, NEW dst, dst = MonsterDest(w, src, d, act)
  PROVE  Step(src, d) \in Cell /\ dst \in Cell /\ MonsterMayCome(w, dst, act)
<1> DEFINE p == Step(src, d)
<1>1. p \in Cell /\ act = MonsterCanEnter(w, w.upper[src], p, d)
  BY DEF MonsterAct, CanLeave
<1> HIDE DEF p
<1>2. MonsterCanEnter(w, w.upper[src], p, d) # Refused
  BY <1>1
<1>3. MonsterMayCome(w, p, act)
  BY <1>1, <1>2, MonsterEnters DEF MonsterMayCome
<1>4. CASE act # 7
  <2>1. dst = p
    BY <1>4 DEF MonsterDest, p
  <2> QED
    BY <1>1, <1>3, <2>1 DEF p
<1>5. CASE act = 7
  <2>1. dst = TeleportTo(w, p, d, {q \in Cell : MonsterCanEnter(w, w.upper[p], q, d) # Refused})
    BY <1>5 DEF MonsterDest, p
  <2>2. dst \in Cell /\ (dst = p \/ w.upper[dst] = Teleport)
    BY <1>1, <2>1, TeleportToTeleport
  <2>3. w.upper[dst] = Teleport => MonsterMayCome(w, dst, act)
    <3>1. Teleport \notin ChipTiles \cup Bearers \cup CloneBlocks \cup {ICChip, CloneMachine, Bomb}
      BY TopTiles, TilesApart
    <3> QED
      BY <1>5, <3>1 DEF MonsterMayCome
  <2> QED
    BY <1>1, <1>3, <2>2, <2>3 DEF p
<1> QED
  BY <1>4, <1>5

LEMMA MonsterStepWell ==
  ASSUME NEW w, NEW c, NEW ic, Board(w, 0, NoCell, c, ic), NEW m \in 1..Len(w.monsters),
         NEW src, src = w.monsters[m].pos, NEW d, d \in Dir \/ Step(src, d) \notin Cell,
         NEW facing \in Facing, Faces(facing, w.monsters[m].tile), NEW rnd \in Dir,
         NEW r, r = MonsterStep(w, src, d, facing, rnd)
  PROVE  MonsterStepped(w, m, c, ic, src, r)
<1> DEFINE act == MonsterAct(w, src, d)
           dst == MonsterDest(w, src, d, act)
<1>1. w \in WorldType /\ Roster(w, 0, NoCell)
  BY BoardParts
<1>2. SlipsAt(w, m, src) /\ src \in Cell
  BY <1>1, RosterSlipsAt
<1>3. w.upper[src] \in Monsters /\ Kind(w.upper[src]) = Kind(w.monsters[m].tile)
  BY <1>1, RosterSlipsAt
<1>4. r = MonsterGoes(w, src, d, act, facing, rnd)
  BY DEF MonsterStep
<1> HIDE DEF act
<1>5. CASE act = Refused
  <2>1. r.ok = FALSE /\ r.dead = FALSE /\ r.w = DeleteSlipperAt(w, src)
    BY <1>4, <1>5 DEF MonsterGoes
  <2>2. Board(r.w, 0, NoCell, c, ic) /\ OnlyMonster(w, r.w, m) /\ SameLayers(w, r.w)
    BY <2>1, MonsterStopsWell
  <2> QED
    BY <2>1, <2>2 DEF MonsterStepped
<1>6. CASE act # Refused
  <2>1. Step(src, d) \in Cell /\ dst \in Cell /\ MonsterMayCome(w, dst, act)
    BY <1>1, <1>2, <1>6, MonsterWay DEF act
  <2>2. d \in Dir /\ r = MonsterLeaves(w, src, dst, d, act, facing, rnd)
    BY <1>4, <1>6, <2>1 DEF MonsterGoes
  <2> HIDE DEF dst
  <2>3. w.upper[dst] \notin Bearers /\ w.upper[src] \in Bearers
    BY <1>3, <2>1, MayComeUpper, TileFacts
  <2>4. src # dst /\ ~Slips(w.slips, dst)
    <3>1. 0 \in 0..Len(w.monsters)
      BY <1>1, WorldParts
    <3>2. \A k \in 1..Len(w.slips) : w.upper[w.slips[k].pos] \in Bearers
      BY <1>1, <3>1, RosterSlips, TileFacts
    <3> QED
      BY <2>3, <3>2 DEF Slips
  <2>5. w.upper[src] \in Tile
    BY <1>3, TileFacts
  <2>6. Landed(r, act, dst) /\ Wanders(w, r.w, m, src, dst, act)
    BY <1>1, <1>2, <1>3, <2>1, <2>2, <2>4, <2>5, MonsterWanders
  <2>7. PICK t \in Tile : /\ Kind(t) = Kind(w.monsters[m].tile)
                          /\ Wandered(w, r.w, m, src, dst, act, t)
    BY <2>6 DEF Wanders
  <2>8. t \in Monsters
    BY <1>3, <2>7, KindOf
  <2>9. /\ r.w \in WorldType /\ OnlyMonster(w, r.w, m)
        /\ Laid(w, r.w, src, dst, MonsterTop(w, dst, act, IF act = 5 THEN Floor ELSE t),
                MonsterBeneath(w, dst, act))
    BY <2>7 DEF Wandered, Rolls
  <2>10. r.w.level = w.level /\ Len(r.w.monsters) = Len(w.monsters)
    BY <2>9 DEF Laid, OnlyMonster
  <2>11. PICK ph \in BOOLEAN : Cells(w, c, ph, ic)
    BY DEF Board
  <2> DEFINE a == IF act \in {2, 5} THEN NoCell ELSE dst
  <2>12. Roster(r.w, m, a)
    <3>1. w.lower[src] \notin Bearers
      BY <1>2, <2>11 DEF Cells, GoodCell
    <3> QED
      BY <1>1, <1>2, <2>1, <2>4, <2>7, <2>8, <3>1, RosterOfWandered
  <2>13. act \in {2, 5} \/ dst # c => Board(r.w, m, a, c, ic)
    <3>1. ASSUME act \in {2, 5} \/ dst # c PROVE Cells(r.w, c, ph, ic)
      BY <1>1, <1>2, <1>3, <2>1, <2>8, <2>9, <2>11, <3>1, CellsOfMonster
    <3>2. Len(w.monsters) \in Nat
      BY <1>1, WorldParts
    <3>3. m \in 0..Len(r.w.monsters) /\ m # 0
      BY <2>10, <3>2
    <3> QED
      BY <2>1, <2>9, <2>12, <3>1, <3>3 DEF Board
  <2>14. dst = c /\ act \notin {2, 5} => r.w.lower[dst] \in ChipTiles
    <3>1. dst = c => w.upper[dst] \in ChipTiles
      BY <2>1, <2>11 DEF Cells, GoodCell
    <3> QED
      BY <2>1, <2>9, <3>1 DEF Laid, MonsterBeneath, MonsterMayCome
  <2>15. r.ok /\ (r.dead <=> act \in {2, 5}) /\ r.act = act /\ r.at = dst /\ r.d \in Dir
    BY <2>6 DEF Landed
  <2>16. CASE act \in {2, 5}
    <3>1. Board(r.w, m, NoCell, c, ic) /\ r.act # 1 /\ r.dead
      BY <2>13, <2>15, <2>16
    <3> QED
      BY <2>1, <2>9, <2>10, <2>15, <3>1 DEF MonsterStepped
  <2>17. CASE act \notin {2, 5}
    <3>1. ~r.dead /\ (dst # c => Board(r.w, m, r.at, c, ic))
      BY <2>13, <2>15, <2>17
    <3> QED
      BY <2>1, <2>9, <2>10, <2>14, <2>15, <2>17, <3>1 DEF MonsterStepped
  <2> QED
    BY <2>16, <2>17
<1> QED
  BY <1>5, <1>6

-----------------------------------------------------------------------------
(***************************************************************************)
(* MoveMonster, with the button that it comes upon.                        *)
(***************************************************************************)

\* The monster in hand, entry m, is listed where it stands.
PutDown(w, m, a, t, d) ==
  [w EXCEPT !.monsters[m] = [@ EXCEPT !.tile = t, !.pos = a, !.dir = d]]

LEMMA SetDown ==
  ASSUME NEW w, NEW m, NEW a, NEW c, NEW ic, Board(w, m, a, c, ic), a \in Cell,
         NEW t \in Tile, Kind(t) = Kind(w.upper[a]), NEW d \in Dir,
         NEW v, v = PutDown(w, m, a, t, d)
  PROVE  Board(v, 0, NoCell, c, ic) /\ m \in 1..Len(w.monsters)
<1> DEFINE old == w.monsters[m]
           e == [old EXCEPT !.tile = t, !.pos = a, !.dir = d]
           ms == [w.monsters EXCEPT ![m] = e]
<1>1. /\ w \in WorldType /\ m \in 0..Len(w.monsters) /\ (m = 0 => a = NoCell) /\ Roster(w, m, a)
  BY BoardParts
<1>2. m \in 1..Len(w.monsters) /\ w.upper[a] \in Monsters
  BY <1>1, InHand DEF Roster
<1>3. /\ w.monsters \in Seq(Monster) /\ Len(w.monsters) \in Nat
      /\ w.monsters[m] \in Monster
  BY <1>1, <1>2, WorldParts
<1>4. /\ e \in Monster /\ e.tile = t /\ e.pos = a /\ (e.slipping <=> old.slipping)
  BY <1>3 DEF Monster
<1>5. v = [w EXCEPT !.monsters = ms]
  BY DEF PutDown
<1> HIDE DEF e
<1>6. /\ ms \in Seq(Monster) /\ Len(ms) = Len(w.monsters) /\ ms[m] = e
      /\ \A j \in 1..Len(w.monsters) : j # m => ms[j] = w.monsters[j]
  BY <1>2, <1>3, <1>4
<1> HIDE DEF ms
<1>7. v \in WorldType
  BY <1>1, <1>5, <1>6 DEF WorldType
<1>8. /\ v.monsters = ms /\ v.slips = w.slips /\ v.upper = w.upper /\ v.lower = w.lower
      /\ v.level = w.level
  BY <1>1, <1>5 DEF WorldType
<1>9. Kind(e.tile) = Kind(old.tile)
  BY <1>1, <1>2, <1>4 DEF Roster, Listed, At
<1>10. \A i \in 1..Len(w.monsters) :
          /\ At(v, 0, NoCell, i) = At(w, m, a, i)
          /\ Kind(v.monsters[i].tile) = Kind(w.monsters[i].tile)
          /\ v.monsters[i].slipping <=> w.monsters[i].slipping
  BY <1>2, <1>4, <1>6, <1>8, <1>9 DEF At
<1>11. \A x \in Cell : Same(w, v, x)
  BY <1>8 DEF Same
<1>12. Len(v.monsters) = Len(w.monsters)
  BY <1>6, <1>8
<1>13. Roster(v, 0, NoCell)
  BY <1>1, <1>8, <1>10, <1>11, <1>12, NoCellIsNone, RosterAlike
<1>14. \E ph \in BOOLEAN : Cells(v, c, ph, ic)
  BY <1>8 DEF Board, Cells
<1>15. 0 \in 0..Len(v.monsters)
  BY <1>3, <1>12
<1> QED
  BY <1>2, <1>7, <1>13, <1>14, <1>15 DEF Board

\* A listed monster is taken in hand.
LEMMA TakenUp ==
  ASSUME NEW w, NEW c, NEW ic, Board(w, 0, NoCell, c, ic), NEW m \in 1..Len(w.monsters),
         NEW a, a = w.monsters[m].pos, w.lower[a] # CloneMachine
  PROVE  Board(w, m, a, c, ic)
<1>1. w \in WorldType /\ Roster(w, 0, NoCell)
  BY BoardParts
<1>2. a \in Cell
  BY <1>1, SlipCells
<1>3. \A i : At(w, m, a, i) = At(w, 0, NoCell, i) \/ i \notin 1..Len(w.monsters)
  BY DEF At
<1>4. Listed(w, m, a)
  BY <1>1, <1>3 DEF Roster, Listed
<1>5. Slid(w, m, a)
  BY <1>1, <1>3 DEF Roster, Slid
<1>6. m \in 0..Len(w.monsters) /\ m # 0
  BY <1>1, WorldParts
<1> QED
  BY <1>1, <1>2, <1>4, <1>5, <1>6 DEF Board, Roster

LEMMA TanksStay ==
  ASSUME NEW w \in WorldType, NEW v, v = PressTankButton(w)
  PROVE  /\ v.lower = w.lower /\ Len(v.monsters) = Len(w.monsters)
         /\ \A i \in 1..Len(w.monsters) : v.monsters[i].pos = w.monsters[i].pos
<1> DEFINE turned(m) == IF Kind(m.tile) = Tank
                   THEN [m EXCEPT !.tile = ReverseTile(m.tile),
                                  !.dir = TurnAround(TileDir(m.tile))]
                   ELSE m
<1>1. /\ v.lower = w.lower
      /\ v.monsters = [i \in 1..Len(w.monsters) |-> turned(w.monsters[i])]
  BY DEF PressTankButton, WorldType
<1>2. \A e \in Monster : turned(e).pos = e.pos
  BY DEF Monster
<1>3. Len(w.monsters) \in Nat /\ \A i \in 1..Len(w.monsters) : w.monsters[i] \in Monster
  BY WorldParts
<1> HIDE DEF turned
<1> QED
  BY <1>1, <1>2, <1>3

\* The result r of MoveMonster, taken by entry m at src.
MonsterMoved(w, m, c, ic, r) ==
  IF r.ok
  THEN Board(r.w, m, IF r.dead THEN NoCell ELSE r.at, c, ic)
  ELSE Board(r.w, 0, NoCell, c, ic) /\ OnlyMonster(w, r.w, m) /\ SameLayers(w, r.w) /\ ~r.dead

LEMMA TankButtonWell ==
  ASSUME NEW w, NEW c, NEW ic, Board(w, 0, NoCell, c, ic), NEW m \in 1..Len(w.monsters),
         NEW src, src = w.monsters[m].pos, NEW r, r.w \in WorldType, OnlyMonster(w, r.w, m),
         r.at \in Cell, r.d \in Dir, Board(r.w, m, r.at, c, ic), r.w.lower[r.at] = TankButton,
         NEW v, v = PressTankButton(TankMoved(r, m))
  PROVE  FindMonster(r.w, src) = m /\ Board(v, m, r.at, c, ic)
<1>1. w \in WorldType /\ Roster(w, 0, NoCell)
  BY BoardParts
<1>2. Len(r.w.monsters) = Len(w.monsters) /\ r.w.monsters[m].pos = src
  BY DEF OnlyMonster
<1>3. ASSUME NEW j \in 1..Len(w.monsters), r.w.monsters[j].pos = src PROVE j = m
  <2>1. j # m => r.w.monsters[j] = w.monsters[j]
    BY DEF OnlyMonster
  <2>2. w.monsters[j].pos = src => j = m
    BY <1>1 DEF Roster, Listed, At
  <2> QED
    BY <1>3, <2>1, <2>2
<1>4. FindMonster(r.w, src) = m
  <2>1. m \in 1..Len(r.w.monsters) /\ \A j \in 1..Len(r.w.monsters) :
                                       r.w.monsters[j].pos = src => j = m
    BY <1>2, <1>3
  <2> QED
    BY <1>2, <2>1, FoundOne
<1> DEFINE u == TankMoved(r, m)
           t == r.w.monsters[m].tile
<1>5. m \in 1..Len(r.w.monsters) /\ r.w.monsters[m] \in Monster /\ t \in Tile
  BY <1>2, WorldParts DEF Monster
<1>6. Kind(t) = Kind(r.w.upper[r.at])
  BY <1>5 DEF Board, Roster, Listed, At
<1>7. [r.w.monsters[m] EXCEPT !.tile = t, !.pos = r.at, !.dir = r.d] =
        [r.w.monsters[m] EXCEPT !.pos = r.at, !.dir = r.d]
  BY <1>5 DEF Monster
<1>8. u = PutDown(r.w, m, r.at, t, r.d)
  BY <1>5, <1>7 DEF TankMoved, PutDown
<1>9. Board(u, 0, NoCell, c, ic)
  <2> HIDE DEF t, u
  <2>1. r.at \in Cell /\ r.d \in Dir /\ Board(r.w, m, r.at, c, ic)
    OBVIOUS
  <2> QED
    BY <1>5, <1>6, <1>8, <2>1, SetDown
<1>10. Len(u.monsters) = Len(w.monsters) /\ u.monsters[m].pos = r.at /\ u.lower = r.w.lower
  <2>1. r.w.monsters \in Seq(Monster)
    BY WorldParts
  <2> QED
    BY <1>2, <1>5, <1>8, <2>1 DEF PutDown, WorldType, Monster
<1> HIDE DEF u
<1>11. Board(v, 0, NoCell, c, ic)
  BY <1>9, TanksTurnWell DEF u
<1>12. v.lower = u.lower /\ Len(v.monsters) = Len(u.monsters) /\ v.monsters[m].pos = u.monsters[m].pos
  BY <1>9, <1>10, BoardParts, TanksStay DEF u
<1>13. v.lower[r.at] # CloneMachine
  BY <1>10, <1>12, TilesApart
<1> QED
  BY <1>4, <1>10, <1>11, <1>12, <1>13, TakenUp

\* What HitByMonster makes of a step that did not end on Chip.
LEMMA MonsterHitsWell ==
  ASSUME LevelsWellFormed, NEW w, NEW c, NEW ic, Board(w, 0, NoCell, c, ic),
         NEW m \in 1..Len(w.monsters), NEW src, src = w.monsters[m].pos, NEW d,
         NEW r, MonsterResult(w, d, r), r.ok, ~r.dead, OnlyMonster(w, r.w, m),
         Board(r.w, m, r.at, c, ic), NEW rnd \in Dir,
         NEW s, s = HitByMonster(r, src, rnd)
  PROVE  /\ s.ok /\ ~s.dead /\ s.at = r.at
         /\ Alive(s.w) => Board(s.w, m, r.at, c, ic)
<1>1. /\ r = [w |-> r.w, ok |-> r.ok, dead |-> r.dead, act |-> r.act, at |-> r.at, d |-> r.d]
      /\ r.w \in WorldType /\ r.at \in Cell /\ r.d \in Dir
  BY LaterWorld DEF MonsterResult
<1>2. CASE HitsButton(r) /\ r.w.lower[r.at] = TankButton
  <2> DEFINE u == PressTankButton(TankMoved(r, m))
             x == [r EXCEPT !.w = u]
  <2>1. FindMonster(r.w, src) = m /\ Board(u, m, r.at, c, ic)
    BY <1>1, <1>2, TankButtonWell
  <2>2. s = GoesOnAsListed(x, m)
    BY <1>2, <2>1 DEF HitByMonster, PressTankButtonFrom
  <2> HIDE DEF u
  <2>3. x.w = u /\ x.ok /\ ~x.dead /\ x.at = r.at
    BY <1>1
  <2>4. x = [w |-> x.w, ok |-> x.ok, dead |-> x.dead, act |-> x.act, at |-> x.at, d |-> x.d]
    BY <1>1
  <2> HIDE DEF x
  <2>5. s.w = x.w /\ s.ok = x.ok /\ s.dead = x.dead /\ s.at = x.at
    BY <2>2, <2>4 DEF GoesOnAsListed
  <2> QED
    BY <2>1, <2>3, <2>5
<1>3. CASE HitsButton(r) /\ r.w.lower[r.at] # TankButton
  <2> DEFINE u == PressButton(r.w, r.at, rnd)
  <2>1. Fine(r.w, u, m, r.at, c, ic)
    BY <1>3, PressButtonWell
  <2>2. s = [r EXCEPT !.w = u]
    BY <1>3 DEF HitByMonster, Hit
  <2> HIDE DEF u
  <2>3. s.w = u /\ s.ok = r.ok /\ s.dead = r.dead /\ s.at = r.at
    BY <1>1, <2>2
  <2> QED
    BY <2>1, <2>3 DEF Fine
<1>4. CASE ~HitsButton(r)
  <2>1. s = r
    BY <1>4 DEF HitByMonster, Hit
  <2> QED
    BY <2>1
<1> QED
  BY <1>2, <1>3, <1>4

LEMMA Eats ==
  ASSUME NEW r, NEW w \in WorldType, NEW d, MonsterResult(w, d, r), NEW s, s = Eat(r)
  PROVE  /\ s.ok = r.ok /\ s.dead = r.dead /\ s.at = r.at
         /\ r.ok /\ ~r.dead /\ r.w.lower[r.at] \in ChipTiles => ~Alive(s.w)
         /\ Alive(s.w) => s = r
<1>1. r = [w |-> r.w, ok |-> r.ok, dead |-> r.dead, act |-> r.act, at |-> r.at, d |-> r.d]
  BY DEF MonsterResult
<1>2. r.w \in WorldType
  BY LaterWorld DEF MonsterResult
<1>3. ~Alive(Kill(r.w, "Eaten"))
  BY <1>2 DEF Alive, Kill, WorldType
<1> HIDE DEF Alive, Kill
<1> QED
  BY <1>1, <1>3 DEF Eat

\* A move that is refused, or kills, presses nothing.
LEMMA PressesNothing ==
  ASSUME NEW r, ~r.ok \/ r.act # 1, NEW src, NEW rnd
  PROVE  HitByMonster(r, src, rnd) = r
BY DEF HitByMonster, Hit, HitsButton

LEMMA MoveMonsterWell ==
  ASSUME LevelsWellFormed, NEW w, NEW c, NEW ic, Board(w, 0, NoCell, c, ic),
         NEW m \in 1..Len(w.monsters), NEW src, src = w.monsters[m].pos,
         NEW d, d \in Dir \/ Step(src, d) \notin Cell,
         NEW facing \in Tile, Faces(facing, w.monsters[m].tile), NEW rnd \in Floors,
         NEW v, v = MoveMonster(w, src, d, facing, rnd)
  PROVE  MonsterResult(w, d, v) /\ (Alive(v.w) => MonsterMoved(w, m, c, ic, v))
<1> DEFINE r == MonsterStep(w, src, d, facing, rnd[1])
           s == HitByMonster(r, src, rnd[2])
<1>1. w \in WorldType /\ Roster(w, 0, NoCell)
  BY BoardParts
<1>2. src \in Cell
  BY <1>1, SlipCells
<1>3. rnd[1] \in Dir /\ rnd[2] \in Dir /\ facing \in Facing
  BY DEF Floors, Facing
<1>4. MonsterResult(w, d, r)
  BY <1>1, <1>2, <1>3, MonsterStepType
<1>5. MonsterStepped(w, m, c, ic, src, r)
  BY <1>3, MonsterStepWell
<1>6. MonsterResult(w, d, s)
  BY <1>1, <1>3, <1>4, HitByMonsterType
<1>7. v = Eat(s) /\ MonsterResult(w, d, v)
  BY <1>1, <1>2, MoveMonsterType DEF MoveMonster
<1>8. /\ ~r.ok \/ r.act # 1 => s = r
      /\ r.ok /\ r.act = 1 /\ r.w.lower[r.at] \notin Buttons => s = r
  BY PressesNothing DEF HitByMonster, Hit, HitsButton
<1> HIDE DEF r
<1>9. /\ v.ok = s.ok /\ v.dead = s.dead /\ v.at = s.at
      /\ s.ok /\ ~s.dead /\ s.w.lower[s.at] \in ChipTiles => ~Alive(v.w)
      /\ Alive(v.w) => v = s
  BY <1>1, <1>6, <1>7, Eats
<1>10. CASE ~r.ok
  <2>1. s = r
    BY <1>8, <1>10
  <2>2. Alive(v.w) => v = r
    BY <1>9, <2>1
  <2> QED
    BY <1>5, <1>7, <1>10, <2>2 DEF MonsterStepped, MonsterMoved
<1>11. CASE r.ok /\ r.dead
  <2>1. s = r
    BY <1>5, <1>8, <1>11 DEF MonsterStepped
  <2>2. Alive(v.w) => v = r
    BY <1>9, <2>1
  <2> QED
    BY <1>5, <1>7, <1>11, <2>2 DEF MonsterStepped, MonsterMoved
<1>12. CASE r.ok /\ ~r.dead /\ r.at = c
  <2>1. r.w.lower[r.at] \in ChipTiles
    BY <1>5, <1>12 DEF MonsterStepped
  <2>2. s = r
    BY <1>8, <2>1, ButtonTiles
  <2> QED
    BY <1>7, <1>9, <1>12, <2>1, <2>2
<1>13. CASE r.ok /\ ~r.dead /\ r.at # c
  <2>1. OnlyMonster(w, r.w, m) /\ Board(r.w, m, r.at, c, ic)
    BY <1>5, <1>13 DEF MonsterStepped
  <2>2. s.ok /\ ~s.dead /\ (Alive(s.w) => Board(s.w, m, s.at, c, ic))
    BY <1>3, <1>4, <1>13, <2>1, MonsterHitsWell
  <2> HIDE DEF s
  <2> QED
    BY <1>7, <1>9, <2>2 DEF MonsterMoved
<1> QED
  BY <1>10, <1>11, <1>12, <1>13

-----------------------------------------------------------------------------
(***************************************************************************)
(* MonsterLoop: a monster's turn.                                          *)
(***************************************************************************)

\* The entry of a monster that has died, and slides no more, goes.
LEMMA DeletesWell ==
  ASSUME NEW w, NEW c, NEW ic, NEW m \in 1..Len(w.monsters), Board(w, m, NoCell, c, ic),
         NEW v, v = DeleteMonster(w, m)
  PROVE  Board(v, 0, NoCell, c, ic)
<1> DEFINE n == Len(w.monsters)
           old(i) == IF i < m THEN i ELSE i + 1
<1>1. w \in WorldType /\ Listed(w, m, NoCell) /\ Slid(w, m, NoCell)
  BY DEF Board, Roster
<1>2. ~w.monsters[m].slipping
  <2>1. At(w, m, NoCell, m) = NoCell
    BY DEF At
  <2>2. \A k \in 1..Len(w.slips) : w.slips[k].pos # NoCell
    BY <1>1, SlipCells, NoCellIsNone
  <2> QED
    BY <1>1, <2>1, <2>2 DEF Slid
<1>3. v = [w EXCEPT !.monsters = RemoveAt(w.monsters, m)]
  BY <1>2 DEF DeleteMonster
<1>4. v \in WorldType
  BY <1>1, DeleteMonsterOutlives DEF Outlives
<1>5. /\ v.monsters = RemoveAt(w.monsters, m) /\ v.slips = w.slips /\ v.upper = w.upper
      /\ v.lower = w.lower /\ v.level = w.level
  BY <1>1, <1>3 DEF WorldType
<1>6. w.monsters \in Seq(Monster)
  BY <1>1, WorldParts
<1>7. /\ Len(v.monsters) = n - 1 /\ n \in Nat
      /\ \A k \in 1..(n - 1) : v.monsters[k] = w.monsters[old(k)]
  BY <1>5, <1>6, RemoveAtIs
<1>8. /\ \A k \in 1..(n - 1) : old(k) \in 1..n /\ old(k) # m
      /\ \A j, k \in 1..(n - 1) : old(j) = old(k) => j = k
      /\ \A i \in 1..n : i # m => \E k \in 1..(n - 1) : old(k) = i
  <2>1. \A k \in 1..(n - 1) : old(k) \in 1..n /\ old(k) # m
    BY <1>7
  <2>2. \A j, k \in 1..(n - 1) : old(j) = old(k) => j = k
    BY <1>7
  <2>3. ASSUME NEW i \in 1..n, i # m PROVE \E k \in 1..(n - 1) : old(k) = i
    <3>1. CASE i < m
      <4>1. i \in 1..(n - 1) /\ old(i) = i
        BY <1>7, <3>1
      <4> QED
        BY <4>1
    <3>2. CASE i > m
      <4>1. i - 1 \in 1..(n - 1) /\ old(i - 1) = i
        BY <1>7, <3>2
      <4> QED
        BY <4>1
    <3> QED
      BY <1>7, <2>3, <3>1, <3>2
  <2> QED
    BY <2>1, <2>2, <2>3
<1> HIDE DEF n, old
<1>9. /\ \A k \in 1..(n - 1) : At(v, 0, NoCell, k) = w.monsters[old(k)].pos
      /\ \A i \in 1..n : i # m => At(w, m, NoCell, i) = w.monsters[i].pos
      /\ At(w, m, NoCell, m) = NoCell
  BY <1>7 DEF At
<1>10. \A k \in 1..(n - 1) : At(v, 0, NoCell, k) = At(w, m, NoCell, old(k))
  BY <1>8, <1>9
<1>11. Listed(v, 0, NoCell)
  <2>1. ASSUME NEW k \in 1..Len(v.monsters), At(v, 0, NoCell, k) \in Cell
        PROVE  /\ v.upper[At(v, 0, NoCell, k)] \in Monsters
               /\ Kind(v.upper[At(v, 0, NoCell, k)]) = Kind(v.monsters[k].tile)
    <3>1. k \in 1..(n - 1) /\ old(k) \in 1..Len(w.monsters)
      BY <1>7, <1>8 DEF n
    <3>2. At(v, 0, NoCell, k) = At(w, m, NoCell, old(k)) /\ v.monsters[k] = w.monsters[old(k)]
      BY <1>7, <1>10, <3>1
    <3>3. /\ w.upper[At(w, m, NoCell, old(k))] \in Monsters
          /\ Kind(w.upper[At(w, m, NoCell, old(k))]) = Kind(w.monsters[old(k)].tile)
      BY <1>1, <2>1, <3>1, <3>2 DEF Listed
    <3> QED
      BY <1>5, <3>2, <3>3
  <2>2. \A j, k \in 1..Len(v.monsters) : At(v, 0, NoCell, j) = At(v, 0, NoCell, k) => j = k
    BY <1>1, <1>7, <1>8, <1>10 DEF Listed, n
  <2>3. ASSUME NEW x \in Cell, v.upper[x] \in Monsters, v.lower[x] # CloneMachine
        PROVE  \E k \in 1..Len(v.monsters) : At(v, 0, NoCell, k) = x
    <3>1. PICK i \in 1..n : At(w, m, NoCell, i) = x
      BY <1>1, <1>5, <2>3 DEF Listed, n
    <3>2. i # m
      BY <1>9, <3>1, NoCellIsNone
    <3> QED
      BY <1>7, <1>8, <1>10, <3>1, <3>2
  <2> QED
    BY <2>1, <2>2, <2>3, NoCellIsNone DEF Listed
<1>12. Slid(v, 0, NoCell)
  <2>1. ASSUME NEW k \in 1..Len(v.slips)
        PROVE  IF v.slips[k].isblock
               THEN \E i \in 1..Len(v.monsters) :
                      At(v, 0, NoCell, i) = v.slips[k].pos /\ v.monsters[i].slipping
               ELSE v.upper[v.slips[k].pos] = Block
    <3>0. v.slips[k].pos \in Cell
      BY <1>4, SlipCells
    <3>1. CASE v.slips[k].isblock
      <4>1. PICK i \in 1..n : At(w, m, NoCell, i) = w.slips[k].pos /\ w.monsters[i].slipping
        BY <1>1, <1>5, <2>1, <3>1 DEF Slid, n
      <4>2. i # m
        BY <1>5, <1>9, <3>0, <4>1, NoCellIsNone
      <4>3. PICK j \in 1..(n - 1) : old(j) = i
        BY <1>8, <4>2
      <4>4. /\ j \in 1..Len(v.monsters) /\ v.monsters[j] = w.monsters[i]
            /\ At(v, 0, NoCell, j) = At(w, m, NoCell, i)
        BY <1>7, <1>10, <4>3
      <4> QED
        BY <1>5, <3>1, <4>1, <4>4
    <3>2. CASE ~v.slips[k].isblock
      BY <1>1, <1>5, <2>1, <3>2 DEF Slid
    <3> QED
      BY <3>1, <3>2
  <2>2. \A j, k \in 1..Len(v.slips) : v.slips[j].pos = v.slips[k].pos => j = k
    BY <1>1, <1>5 DEF Slid
  <2>3. ASSUME NEW i \in 1..Len(v.monsters), v.monsters[i].slipping
        PROVE  \E k \in 1..Len(v.slips) : v.slips[k].pos = At(v, 0, NoCell, i) /\ v.slips[k].isblock
    <3>1. /\ i \in 1..(n - 1) /\ old(i) \in 1..n /\ v.monsters[i] = w.monsters[old(i)]
          /\ At(v, 0, NoCell, i) = At(w, m, NoCell, old(i))
      BY <1>7, <1>8, <1>10, <2>3
    <3>2. w.monsters[old(i)].slipping
      BY <2>3, <3>1
    <3>3. \E k \in 1..Len(w.slips) :
            w.slips[k].pos = At(w, m, NoCell, old(i)) /\ w.slips[k].isblock
      BY <1>1, <3>1, <3>2 DEF Slid, n
    <3> QED
      BY <1>5, <3>1, <3>3
  <2> QED
    BY <2>1, <2>2, <2>3 DEF Slid
<1>13. \E ph \in BOOLEAN : Cells(v, c, ph, ic)
  BY <1>5 DEF Board, Cells
<1>14. 0 \in 0..Len(v.monsters)
  BY <1>4, WorldParts
<1> QED
  BY <1>4, <1>11, <1>12, <1>13, <1>14 DEF Board, Roster

\* An entry is changed in what the board does not show: its direction, or which
\* way it faces.
LEMMA EntryAlike ==
  ASSUME NEW w, NEW c, NEW ic, Board(w, 0, NoCell, c, ic), NEW m \in 1..Len(w.monsters),
         NEW e \in Monster, e.pos = w.monsters[m].pos, Kind(e.tile) = Kind(w.monsters[m].tile),
         e.slipping = w.monsters[m].slipping,
         NEW v, v = [w EXCEPT !.monsters[m] = e]
  PROVE  Board(v, 0, NoCell, c, ic)
<1>1. w \in WorldType /\ Roster(w, 0, NoCell) /\ 0 \in 0..Len(w.monsters)
  BY BoardParts
<1> DEFINE ms == [w.monsters EXCEPT ![m] = e]
<1>2. w.monsters \in Seq(Monster) /\ Len(w.monsters) \in Nat
  BY <1>1, WorldParts
<1>3. /\ ms \in Seq(Monster) /\ Len(ms) = Len(w.monsters) /\ ms[m] = e
      /\ \A j \in 1..Len(w.monsters) : j # m => ms[j] = w.monsters[j]
  BY <1>2
<1>4. v = [w EXCEPT !.monsters = ms]
  OBVIOUS
<1> HIDE DEF ms
<1>5. v \in WorldType
  BY <1>1, <1>3, <1>4 DEF WorldType
<1>6. /\ v.monsters = ms /\ v.slips = w.slips /\ v.upper = w.upper /\ v.lower = w.lower
      /\ v.level = w.level
  BY <1>1, <1>4 DEF WorldType
<1>7. \A i \in 1..Len(w.monsters) :
        /\ At(v, 0, NoCell, i) = At(w, 0, NoCell, i)
        /\ Kind(v.monsters[i].tile) = Kind(w.monsters[i].tile)
        /\ v.monsters[i].slipping <=> w.monsters[i].slipping
  BY <1>3, <1>6 DEF At
<1>8. \A x \in Cell : Same(w, v, x)
  BY <1>6 DEF Same
<1>9. Len(v.monsters) = Len(w.monsters)
  BY <1>3, <1>6
<1>10. Roster(v, 0, NoCell)
  BY <1>1, <1>6, <1>7, <1>8, <1>9, NoCellIsNone, RosterAlike
<1>11. \E ph \in BOOLEAN : Cells(v, c, ph, ic)
  BY <1>6 DEF Board, Cells
<1> QED
  BY <1>1, <1>5, <1>9, <1>10, <1>11 DEF Board

\* One monster tile instead of another of its kind.
LEMMA TurnsWell ==
  ASSUME NEW w, NEW c, NEW ic, Board(w, 0, NoCell, c, ic), NEW p \in Cell,
         w.upper[p] \in Monsters, NEW t \in Monsters, Kind(t) = Kind(w.upper[p]),
         NEW v, v = SetUpper(w, p, t)
  PROVE  Board(v, 0, NoCell, c, ic) /\ SameLists(w, v)
<1>1. w \in WorldType /\ Roster(w, 0, NoCell) /\ 0 \in 0..Len(w.monsters)
  BY BoardParts
<1>2. t \in Tile
  BY TileFacts
<1>3. v \in WorldType
  BY <1>1, <1>2, SetUpperFollows DEF Follows
<1>4. /\ v.monsters = w.monsters /\ v.slips = w.slips /\ v.lower = w.lower /\ v.level = w.level
      /\ v.upper = [w.upper EXCEPT ![p] = t] /\ w.upper \in [Cell -> Tile]
      /\ w.level \in 1..Len(Levels)
  BY <1>1 DEF SetUpper, WorldType
<1>5. v.upper[p] = t /\ \A x \in Cell : x # p => v.upper[x] = w.upper[x]
  BY <1>4
<1>6. PICK ph \in BOOLEAN : Cells(w, c, ph, ic)
  BY DEF Board
<1>7. Cells(v, c, ph, ic)
  <2>1. GoodCell(w.level, w.upper[p], w.lower[p], p, c, ph, ic)
    BY <1>6 DEF Cells
  <2>2. p \notin ToggleCells[w.level] \/ w.upper[p] # Shown(w.level, p, ph)
    BY <1>4, ToggleShown, TileFacts
  <2>3. GoodCell(w.level, t, w.lower[p], p, c, ph, ic)
    BY <2>1, <2>2, CellSwapped
  <2> QED
    BY <1>4, <1>5, <1>6, <2>3 DEF Cells
<1>8. \A i \in 1..Len(w.monsters) :
        /\ At(v, 0, NoCell, i) = At(w, 0, NoCell, i)
        /\ Kind(v.monsters[i].tile) = Kind(w.monsters[i].tile)
        /\ v.monsters[i].slipping <=> w.monsters[i].slipping
  BY <1>4 DEF At
<1>9. \A x \in Cell : Same(w, v, x)
  BY <1>4, <1>5 DEF Same
<1>10. Len(v.monsters) = Len(w.monsters)
  BY <1>4
<1>11. Roster(v, 0, NoCell)
  BY <1>1, <1>4, <1>8, <1>9, <1>10, NoCellIsNone, RosterAlike
<1> QED
  BY <1>1, <1>3, <1>4, <1>7, <1>10, <1>11 DEF Board, SameLists

LEMMA FacesWell ==
  ASSUME NEW w, NEW c, NEW ic, Board(w, 0, NoCell, c, ic), NEW i \in 1..Len(w.monsters),
         NEW d, NEW v, v = FaceChip(w, i, d)
  PROVE  Board(v, 0, NoCell, c, ic)
<1> DEFINE m == w.monsters[i]
           t == SetTileDir(m.tile, d)
           u == SetUpper(w, m.pos, t)
           e == [m EXCEPT !.tile = t]
<1>1. w \in WorldType /\ Roster(w, 0, NoCell)
  BY BoardParts
<1>2. /\ m.pos \in Cell /\ w.upper[m.pos] \in Monsters
      /\ Kind(w.upper[m.pos]) = Kind(m.tile)
  BY <1>1, RosterSlipsAt
<1>3. m \in Monster /\ m.tile \in Tile
  BY <1>1, WorldParts DEF Monster
<1>4. t \in Tile /\ Kind(t) = Kind(m.tile)
  BY <1>3, KindOf
<1>5. t \in Monsters
  BY <1>2, <1>4, KindOf
<1>6. e \in Monster /\ e.pos = m.pos /\ e.tile = t /\ e.slipping = m.slipping
  BY <1>3, <1>4 DEF Monster
<1>7. v = [u EXCEPT !.monsters[i] = [u.monsters[i] EXCEPT !.tile = t]]
  BY DEF FaceChip
<1> HIDE DEF u, t, m
<1>8. Board(u, 0, NoCell, c, ic) /\ SameLists(w, u)
  BY <1>2, <1>4, <1>5, TurnsWell DEF u
<1>9. u.monsters = w.monsters
  BY <1>8 DEF SameLists
<1>10. v = [u EXCEPT !.monsters[i] = e]
  BY <1>7, <1>9 DEF m
<1> HIDE DEF e
<1> QED
  BY <1>4, <1>6, <1>8, <1>9, <1>10, EntryAlike DEF m

LEMMA StopsWell ==
  ASSUME NEW w, NEW c, NEW ic, Board(w, 0, NoCell, c, ic), NEW i \in 1..Len(w.monsters),
         NEW v, v = StopTank(w, i)
  PROVE  Board(v, 0, NoCell, c, ic)
<1> DEFINE m == w.monsters[i]
           e == [m EXCEPT !.dir = Still]
<1>1. w \in WorldType
  BY BoardParts
<1>2. m \in Monster
  BY <1>1, WorldParts
<1>3. e \in Monster /\ e.pos = m.pos /\ e.tile = m.tile /\ e.slipping = m.slipping
  BY <1>2 DEF Monster, Dir
<1>4. v = w \/ v = [w EXCEPT !.monsters[i] = e]
  BY DEF StopTank
<1> HIDE DEF e
<1>5. CASE v = w
  BY <1>5
<1>6. CASE v = [w EXCEPT !.monsters[i] = e]
  BY <1>3, <1>6, EntryAlike
<1> QED
  BY <1>4, <1>5, <1>6

\* What the tries of monster i have come to.
Tried(w, i, c, ic, r) ==
  TriesResult(w, r) /\ (Alive(r.w) => MonsterMoved(w, i, c, ic, r))

\* A monster moved after it stayed where it was, or stays again.
LEMMA MovedAfter ==
  ASSUME NEW w, NEW u, NEW i, OnlyMonster(w, u, i), SameLayers(w, u), NEW c, NEW ic,
         NEW r, MonsterMoved(u, i, c, ic, r), i \in 1..Len(w.monsters)
  PROVE  MonsterMoved(w, i, c, ic, r)
BY DEF MonsterMoved, OnlyMonster, SameLayers

LEMMA AttemptWell ==
  ASSUME LevelsWellFormed, NEW w \in WorldType, NEW i \in 1..Len(w.monsters), NEW c, NEW ic,
         NEW r, Tried(w, i, c, ic, r), NEW d \in StackDirs, NEW rnd \in Floors
  PROVE  Tried(w, i, c, ic, Attempt(r, w.monsters[i], d, rnd))
<1> DEFINE m == w.monsters[i]
           s == Attempt(r, m, d, rnd)
           f == SetTileDir(m.tile, d)
<1>1. m \in Monster /\ m.pos \in Cell /\ m.tile \in Tile
  BY WorldParts DEF Monster
<1>2. TriesResult(w, s)
  BY <1>1, AttemptType DEF Tried
<1>3. CASE r.ok
  BY <1>3 DEF Attempt
<1>4. CASE ~r.ok
  <2>1. s = MoveMonster(r.w, m.pos, d, f, rnd)
    BY <1>4 DEF Attempt
  <2>2. f \in Tile /\ Kind(f) = Kind(m.tile)
    BY <1>1, KindOf
  <2>3. d \in Dir \/ Step(m.pos, d) \notin Cell
    BY <1>1, FarAssumption DEF StackDirs
  <2> HIDE DEF m, s, f
  <2>4. r.w \in WorldType
    BY LaterWorld DEF Tried, TriesResult
  <2>5. MonsterResult(r.w, d, s)
    BY <1>1, <2>1, <2>2, <2>3, <2>4, MoveMonsterType
  <2>6. ASSUME Alive(s.w) PROVE MonsterMoved(w, i, c, ic, s)
    <3>1. Alive(r.w)
      BY <2>5, <2>6 DEF MonsterResult, Follows, Alive
    <3>2. Board(r.w, 0, NoCell, c, ic) /\ OnlyMonster(w, r.w, i) /\ SameLayers(w, r.w)
      BY <1>4, <3>1 DEF Tried, MonsterMoved
    <3>3. /\ i \in 1..Len(r.w.monsters) /\ r.w.monsters[i].pos = m.pos
          /\ Faces(f, r.w.monsters[i].tile)
      BY <2>2, <3>2 DEF OnlyMonster, Faces, m
    <3>4. MonsterMoved(r.w, i, c, ic, s)
      BY <2>1, <2>2, <2>3, <2>6, <3>2, <3>3, MoveMonsterWell
    <3> QED
      BY <3>2, <3>4, MovedAfter
  <2> QED
    BY <1>2, <2>6 DEF Tried, s, m
<1> QED
  BY <1>3, <1>4

LEMMA TriesWell ==
  ASSUME LevelsWellFormed, NEW w, NEW c, NEW ic, Board(w, 0, NoCell, c, ic),
         NEW i \in 1..Len(w.monsters), NEW dirs \in DirSeq, NEW rnd \in Floors
  PROVE  Tried(w, i, c, ic, TryAttempts(w, i, dirs, rnd))
<1> DEFINE V == {r \in [w: WorldType, ok: BOOLEAN, dead: BOOLEAN, act: MonsterActs,
                        at: Cell, d: StackDirs] : Tried(w, i, c, ic, r)}
           m == w.monsters[i]
           len == Len(dirs)
           base == [w |-> w, ok |-> FALSE, dead |-> FALSE, act |-> 0, at |-> m.pos,
                    d |-> dirs[1]]
           Op(r, k) == Attempt(r, m, dirs[k], rnd)
           step == [k \in 1..len |-> [r \in V |-> Op(r, k)]]
           tried == CHOOSE f : f = [k \in 0..len |-> IF k = 0 THEN base ELSE Op(f[k - 1], k)]
<1>0. w \in WorldType
  BY BoardParts
<1>1. len \in Nat /\ len > 0 /\ \A k \in 1..len : dirs[k] \in StackDirs
  BY DEF DirSeq
<1>2. \A r : r \in V <=> Tried(w, i, c, ic, r)
  BY DEF Tried, TriesResult, Follows
<1>3. m \in Monster /\ m.pos \in Cell
  BY <1>0, WorldParts DEF Monster
<1>4. Tried(w, i, c, ic, base)
  <2>1. TriesResult(w, base)
    BY <1>0, <1>1, <1>3, FollowsSelf DEF TriesResult, MonsterActs
  <2>2. base.w = w /\ base.ok = FALSE /\ base.dead = FALSE
    OBVIOUS
  <2> HIDE DEF base
  <2>3. OnlyMonster(w, w, i) /\ SameLayers(w, w)
    BY DEF OnlyMonster, SameLayers
  <2> QED
    BY <2>1, <2>2, <2>3 DEF Tried, MonsterMoved
<1>5. TryAttempts(w, i, dirs, rnd) = tried[len]
  BY DEF TryAttempts, Looped
<1>6. \A r \in V : \A k \in 1..len : Op(r, k) \in V
  <2> HIDE DEF V
  <2>1. \A r : Tried(w, i, c, ic, r) => \A d \in StackDirs : Tried(w, i, c, ic, Attempt(r, m, d, rnd))
    BY <1>0, AttemptWell
  <2> HIDE DEF m
  <2> QED
    BY <1>1, <1>2, <2>1
<1> HIDE DEF V, len, base, Op, m
<1>7. base \in V
  BY <1>2, <1>4
<1>8. step \in Steps(V, len)
  BY <1>6 DEF Steps
<1>9. \A r \in V, k \in 1..len : step[k][r] = Op(r, k)
  OBVIOUS
<1> HIDE DEF step
<1>10. PICK f : IsRun(f, V, len, base, step)
  BY <1>1, <1>7, <1>8, RunExists
<1>11. f = [k \in 0..len |-> IF k = 0 THEN base ELSE Op(f[k - 1], k)]
  <2>1. \A k \in 1..len : f[k - 1] \in V
    BY <1>1, <1>10 DEF IsRun
  <2> QED
    BY <1>1, <1>9, <1>10, <2>1 DEF IsRun
<1>12. tried = [k \in 0..len |-> IF k = 0 THEN base ELSE Op(tried[k - 1], k)]
  BY <1>11
<1> HIDE DEF tried
<1>13. tried[0] \in V
  BY <1>1, <1>7, <1>12
<1>14. ASSUME NEW k \in 0..(len - 1), tried[k] \in V PROVE tried[k + 1] \in V
  <2>1. k + 1 \in 1..len /\ (k + 1) - 1 = k
    BY <1>1
  <2>2. tried[k + 1] = Op(tried[k], k + 1)
    BY <1>1, <1>12, <2>1
  <2> QED
    BY <1>6, <1>14, <2>1, <2>2
<1>15. tried[len] \in V
  BY <1>1, <1>13, <1>14, RunStays
<1> QED
  BY <1>2, <1>5, <1>15

\* The monster that has moved is listed where it is now.
LEMMA SettlesWell ==
  ASSUME NEW c, NEW ic, NEW r, NEW i, i # 0, Board(r.w, i, r.at, c, ic), r.at \in Cell,
         r.d \in Dir, NEW v, v = Settle(r, i)
  PROVE  Board(v, 0, NoCell, c, ic)
<1> DEFINE t == r.w.upper[r.at]
<1>1. t \in Tile
  BY BoardParts, WorldParts
<1>2. v = PutDown(r.w, i, r.at, t, r.d)
  BY DEF Settle, PutDown
<1>3. Kind(t) = Kind(r.w.upper[r.at])
  OBVIOUS
<1> HIDE DEF t
<1> QED
  BY <1>1, <1>2, <1>3, SetDown

\* An iteration of MonsterLoop.
LEMMA MonsterTurnWell ==
  ASSUME LevelsWellFormed, NEW w, NEW c, NEW ic, Board(w, 0, NoCell, c, ic),
         NEW i \in 1..Len(w.monsters), NEW ndir \in StackDirs, NEW chip, NEW even,
         NEW drawn, drawn.dir \in Dir, NEW rnd \in Floors,
         NEW v, v = MonsterTurn(w, i, ndir, chip, even, drawn, rnd), Alive(v.w)
  PROVE  Board(v.w, 0, NoCell, c, ic)
<1> DEFINE dirs == Attempts(w, i, ndir, chip, drawn)
           r == TryAttempts(w, i, dirs, rnd)
           kind == Kind(w.monsters[i].tile)
<1>0. w \in WorldType
  BY BoardParts
<1>1. CASE Passes(w, i, even)
  <2>1. v.w = w
    BY <1>1 DEF MonsterTurn
  <2> QED
    BY <2>1
<1>2. CASE ~Passes(w, i, even)
  <2>1. dirs \in DirSeq
    BY <1>0, <1>2, AttemptsType DEF Passes
  <2>2. v = AfterAttempts(r, i, kind, dirs[1])
    BY <1>2 DEF MonsterTurn
  <2> HIDE DEF dirs
  <2>3. Tried(w, i, c, ic, r)
    BY <2>1, TriesWell
  <2> HIDE DEF r, kind
  <2>4. /\ r.w \in WorldType /\ Len(r.w.monsters) >= Len(w.monsters)
        /\ r.at \in Cell /\ (r.ok => r.d \in Dir)
    BY <2>3 DEF Tried, TriesResult, Follows
  <2>5. i \in 1..Len(r.w.monsters) /\ i # 0
    BY <1>0, <2>4, WorldParts
  <2>6. CASE r.dead
    <3>1. v.w = DeleteMonster(r.w, i)
      BY <2>2, <2>6 DEF AfterAttempts
    <3>2. Alive(r.w)
      BY <2>4, <2>5, <3>1, DeleteMonsterOutlives DEF Outlives, Alive
    <3>3. Board(r.w, i, NoCell, c, ic)
      BY <2>3, <2>6, <3>2 DEF Tried, MonsterMoved
    <3> QED
      BY <2>5, <3>1, <3>3, DeletesWell
  <2>7. CASE ~r.dead /\ r.ok
    <3>1. v.w = Settle(r, i)
      BY <2>2, <2>7 DEF AfterAttempts
    <3>2. Alive(r.w)
      BY <2>4, <2>5, <2>7, <3>1, SettleFollows DEF Follows, Alive
    <3>3. Board(r.w, i, r.at, c, ic)
      BY <2>3, <2>7, <3>2 DEF Tried, MonsterMoved
    <3> QED
      BY <2>4, <2>5, <2>7, <3>1, <3>3, SettlesWell
  <2>8. CASE ~r.dead /\ ~r.ok
    <3>1. \/ v.w = FaceChip(r.w, i, dirs[1])
          \/ v.w = StopTank(r.w, i)
          \/ v.w = r.w
      BY <2>2, <2>8 DEF AfterAttempts, Stays
    <3>2. Alive(r.w)
      BY <2>4, <2>5, <3>1, FaceChipFollows, StopTankFollows DEF Follows, Alive
    <3>3. Board(r.w, 0, NoCell, c, ic)
      BY <2>3, <2>8, <3>2 DEF Tried, MonsterMoved
    <3>4. CASE v.w = FaceChip(r.w, i, dirs[1])
      BY <2>5, <3>3, <3>4, FacesWell
    <3>5. CASE v.w = StopTank(r.w, i)
      BY <2>5, <3>3, <3>5, StopsWell
    <3>6. CASE v.w = r.w
      BY <3>3, <3>6
    <3> QED
      BY <3>1, <3>4, <3>5, <3>6
  <2> QED
    BY <2>6, <2>7, <2>8
<1> QED
  BY <1>1, <1>2

-----------------------------------------------------------------------------
(***************************************************************************)
(* SlipLoop: a slider's turn.                                              *)
(***************************************************************************)

\* A monster that could not move is put back on the slip list where it is.
LEMMA BeastTurns ==
  ASSUME NEW w, NEW c, NEW ic, Board(w, 0, NoCell, c, ic), NEW m \in 1..Len(w.monsters),
         NEW p, p = w.monsters[m].pos, NEW d \in Dir, NEW rnd \in Floors,
         NEW s, s = TurnMonster(w, p, d, rnd)
  PROVE  /\ Board(s.w, 0, NoCell, c, ic) /\ OnlyMonster(w, s.w, m) /\ SameLayers(w, s.w)
         /\ s.d \in Dir
<1> DEFINE v == s.w
<1>1. w \in WorldType /\ Roster(w, 0, NoCell) /\ rnd[1] \in Dir
  BY BoardParts DEF Floors
<1>2. SlipsAt(w, m, p) /\ p \in Cell
  BY <1>1, RosterSlipsAt
<1>3. s = SlideBeast(w, p, p, d, Keep, rnd[1])
  BY DEF TurnMonster, SlideBeast
<1>4. Keep \in Facing /\ Faces(Keep, w.monsters[m].tile)
  BY DEF Facing, Faces
<1>5. \A k \in 1..Len(w.slips) : w.slips[k].pos = p => w.slips[k].pos = p
  OBVIOUS
<1>6. /\ v \in WorldType /\ SameLayers(w, v) /\ OnlyMonster(w, v, m) /\ s.d \in Dir
      /\ Reslips(w.slips, v.slips, p, p, TRUE) /\ FlagTells(v, m, p)
  <2>1. v \in WorldType /\ SameLayers(w, v) /\ OnlyMonster(w, v, m) /\ s.d \in Dir
    BY <1>1, <1>2, <1>3, <1>4, <1>5, SlidesMonster
  <2>2. Reslips(w.slips, v.slips, p, p, TRUE) /\ FlagTells(v, m, p)
    BY <1>1, <1>2, <1>3, <1>4, <1>5, SlidesMonster
  <2> QED
    BY <2>1, <2>2
<1> HIDE DEF v
<1>7. Len(v.monsters) = Len(w.monsters) /\ Len(w.monsters) \in Nat
  BY <1>1, <1>6, WorldParts DEF OnlyMonster
<1>8. /\ \A i \in 1..Len(w.monsters) : /\ At(v, 0, NoCell, i) = At(w, 0, NoCell, i)
                                       /\ Kind(v.monsters[i].tile) = Kind(w.monsters[i].tile)
      /\ At(w, 0, NoCell, m) = p
  BY <1>6 DEF OnlyMonster, At
<1>9. Listed(w, 0, NoCell) /\ Slid(w, 0, NoCell)
  BY <1>1 DEF Roster
<1>10. Listed(v, 0, NoCell)
  BY <1>6, <1>7, <1>8, <1>9 DEF Listed, SameLayers
<1>11. Slid(v, 0, NoCell)
  <2>1. ASSUME NEW k \in 1..Len(v.slips)
        PROVE  IF v.slips[k].isblock
               THEN \E i \in 1..Len(v.monsters) :
                      At(v, 0, NoCell, i) = v.slips[k].pos /\ v.monsters[i].slipping
               ELSE v.upper[v.slips[k].pos] = Block
    <3>1. CASE v.slips[k].pos = p
      <4>1. v.slips[k].isblock
        BY <1>6, <3>1 DEF Reslips
      <4>2. v.monsters[m].slipping
        BY <1>6, <3>1 DEF FlagTells, Slips
      <4> QED
        BY <1>7, <1>8, <3>1, <4>1, <4>2
    <3>2. CASE v.slips[k].pos # p
      <4>0. PICK j \in 1..Len(w.slips) : v.slips[k] = w.slips[j]
        BY <1>6, <3>2 DEF Reslips
      <4>1. CASE v.slips[k].isblock
        <5>1. PICK i \in 1..Len(w.monsters) : At(w, 0, NoCell, i) = w.slips[j].pos /\ w.monsters[i].slipping
          BY <1>9, <4>0, <4>1 DEF Slid
        <5>2. i # m
          BY <1>8, <3>2, <4>0, <5>1
        <5>3. v.monsters[i] = w.monsters[i]
          BY <1>6, <5>2 DEF OnlyMonster
        <5> QED
          BY <1>7, <1>8, <4>0, <4>1, <5>1, <5>3
      <4>2. CASE ~v.slips[k].isblock
        <5>1. w.upper[w.slips[j].pos] = Block
          BY <1>9, <4>0, <4>2 DEF Slid
        <5> QED
          BY <1>6, <4>0, <4>2, <5>1 DEF SameLayers
      <4> QED
        BY <4>1, <4>2
    <3> QED
      BY <3>1, <3>2
  <2>2. \A j, k \in 1..Len(v.slips) : v.slips[j].pos = v.slips[k].pos => j = k
    BY <1>6 DEF Reslips, Apart
  <2>3. ASSUME NEW i \in 1..Len(v.monsters), v.monsters[i].slipping
        PROVE  \E k \in 1..Len(v.slips) : v.slips[k].pos = At(v, 0, NoCell, i) /\ v.slips[k].isblock
    <3>1. CASE i = m
      <4>1. PICK k \in 1..Len(v.slips) : v.slips[k].pos = p
        BY <1>6, <2>3, <3>1 DEF FlagTells, Slips
      <4>2. v.slips[k].isblock
        BY <1>6, <4>1 DEF Reslips
      <4> QED
        BY <1>7, <1>8, <3>1, <4>1, <4>2
    <3>2. CASE i # m
      <4>1. i \in 1..Len(w.monsters) /\ v.monsters[i] = w.monsters[i]
        BY <1>6, <1>7, <3>2 DEF OnlyMonster
      <4>2. PICK j \in 1..Len(w.slips) : w.slips[j].pos = At(w, 0, NoCell, i) /\ w.slips[j].isblock
        BY <1>9, <2>3, <4>1 DEF Slid
      <4>3. w.slips[j].pos # p
        BY <1>8, <1>9, <3>2, <4>1, <4>2 DEF Listed
      <4>4. PICK k \in 1..Len(v.slips) : v.slips[k] = w.slips[j]
        BY <1>6, <4>3 DEF Reslips
      <4> QED
        BY <1>8, <4>1, <4>2, <4>4
    <3> QED
      BY <3>1, <3>2
  <2> QED
    BY <2>1, <2>2, <2>3 DEF Slid
<1>12. \E ph \in BOOLEAN : Cells(v, c, ph, ic)
  BY <1>6 DEF Board, Cells, SameLayers
<1>13. 0 \in 0..Len(v.monsters)
  BY <1>7
<1>14. Board(v, 0, NoCell, c, ic)
  BY <1>6, <1>10, <1>11, <1>12, <1>13 DEF Board, Roster
<1> QED
  BY <1>6, <1>14 DEF v

\* The same for a block.
LEMMA BlockTurns ==
  ASSUME NEW w, NEW c, NEW ic, Board(w, 0, NoCell, c, ic), NEW p \in Cell,
         w.upper[p] = Block, NEW d \in Dir, NEW rnd \in Floors,
         NEW s, s = TurnBlock(w, p, d, rnd)
  PROVE  Board(s.w, 0, NoCell, c, ic) /\ SameLayers(w, s.w) /\ s.d \in Dir
<1> DEFINE v == s.w
<1>1. w \in WorldType /\ Roster(w, 0, NoCell) /\ rnd[1] \in Dir /\ 0 \in 0..Len(w.monsters)
  BY BoardParts DEF Floors
<1>2. Apart(w.slips) /\ w.upper[p] \notin Monsters
  BY <1>1, RosterSlips, TileFacts
<1>3. v = SlideBlock(w, p, p, d, Keep, rnd[1]).w
  BY DEF TurnBlock, SlideBlock
<1>4. Keep \in Facing
  BY DEF Facing
<1>5. \A k \in 1..Len(w.slips) : w.slips[k].pos = p => w.slips[k].pos = p
  OBVIOUS
<1>6. SlideResult(w, s)
  BY <1>1, TurnInPlaceType
<1> HIDE DEF v
<1>7. v \in WorldType /\ OnlySlips(w, v) /\ Reslips(w.slips, v.slips, p, p, FALSE)
  <2>1. v \in WorldType /\ OnlySlips(w, v)
    BY <1>1, <1>2, <1>3, <1>4, <1>5, SlidesBlock
  <2>2. Reslips(w.slips, v.slips, p, p, FALSE)
    BY <1>1, <1>2, <1>3, <1>4, <1>5, SlidesBlock
  <2> QED
    BY <2>1, <2>2
<1>8. /\ v.monsters = w.monsters /\ v.upper = w.upper /\ v.lower = w.lower /\ v.level = w.level
      /\ SameLayers(w, v)
  BY <1>7 DEF OnlySlips, SameLayers
<1>9. Listed(w, 0, NoCell) /\ Slid(w, 0, NoCell)
  BY <1>1 DEF Roster
<1>10. \A i : At(v, 0, NoCell, i) = At(w, 0, NoCell, i)
  BY <1>8 DEF At
<1>11. Listed(v, 0, NoCell)
  BY <1>8, <1>9, <1>10 DEF Listed
<1>12. Slid(v, 0, NoCell)
  <2>1. ASSUME NEW k \in 1..Len(v.slips)
        PROVE  IF v.slips[k].isblock
               THEN \E i \in 1..Len(v.monsters) :
                      At(v, 0, NoCell, i) = v.slips[k].pos /\ v.monsters[i].slipping
               ELSE v.upper[v.slips[k].pos] = Block
    <3>1. CASE v.slips[k].pos = p
      <4>1. ~v.slips[k].isblock
        BY <1>7, <3>1 DEF Reslips
      <4> QED
        BY <1>8, <3>1, <4>1
    <3>2. CASE v.slips[k].pos # p
      <4>1. PICK j \in 1..Len(w.slips) : v.slips[k] = w.slips[j]
        BY <1>7, <3>2 DEF Reslips
      <4>2. IF w.slips[j].isblock
            THEN \E i \in 1..Len(w.monsters) :
                   At(w, 0, NoCell, i) = w.slips[j].pos /\ w.monsters[i].slipping
            ELSE w.upper[w.slips[j].pos] = Block
        BY <1>9 DEF Slid
      <4> QED
        BY <1>8, <1>10, <4>1, <4>2
    <3> QED
      BY <3>1, <3>2
  <2>2. \A j, k \in 1..Len(v.slips) : v.slips[j].pos = v.slips[k].pos => j = k
    BY <1>7 DEF Reslips, Apart
  <2>3. ASSUME NEW i \in 1..Len(v.monsters), v.monsters[i].slipping
        PROVE  \E k \in 1..Len(v.slips) : v.slips[k].pos = At(v, 0, NoCell, i) /\ v.slips[k].isblock
    <3>1. PICK j \in 1..Len(w.slips) : w.slips[j].pos = At(w, 0, NoCell, i) /\ w.slips[j].isblock
      BY <1>8, <1>9, <2>3 DEF Slid
    <3>2. w.slips[j].pos # p
      BY <1>1, <1>2, <3>1, RosterSlips
    <3>3. PICK k \in 1..Len(v.slips) : v.slips[k] = w.slips[j]
      BY <1>7, <3>2 DEF Reslips
    <3> QED
      BY <1>10, <3>1, <3>3
  <2> QED
    BY <2>1, <2>2, <2>3 DEF Slid
<1>13. \E ph \in BOOLEAN : Cells(v, c, ph, ic)
  BY <1>8 DEF Board, Cells
<1>14. Board(v, 0, NoCell, c, ic)
  BY <1>1, <1>7, <1>8, <1>11, <1>12, <1>13 DEF Board, Roster
<1> QED
  BY <1>6, <1>8, <1>14 DEF v, SlideResult

LEMMA SlipperSettles ==
  ASSUME NEW w, NEW m, NEW c, NEW ic, NEW r, r.ok, MonsterMoved(w, m, c, ic, r),
         NEW d \in Dir, r.d = d, r.at \in Cell, m # 0,
         NEW v, v = SettleSlipper(r, m)
  PROVE  Board(v, 0, NoCell, c, ic)
<1>1. CASE r.dead
  <2>1. Board(r.w, m, NoCell, c, ic)
    BY <1>1 DEF MonsterMoved
  <2>2. m \in 1..Len(r.w.monsters)
    BY <2>1, WorldParts DEF Board
  <2>3. v = DeleteMonster(r.w, m)
    BY <1>1, <2>2 DEF SettleSlipper
  <2> QED
    BY <2>1, <2>2, <2>3, DeletesWell
<1>2. CASE ~r.dead
  <2> DEFINE t == SetTileDir(r.w.upper[r.at], d)
  <2>1. Board(r.w, m, r.at, c, ic)
    BY <1>2 DEF MonsterMoved
  <2>2. r.w.upper[r.at] \in Tile
    BY <2>1, BoardParts, WorldParts
  <2>3. t \in Tile /\ Kind(t) = Kind(r.w.upper[r.at])
    BY <2>2, KindOf
  <2>4. v = PutDown(r.w, m, r.at, t, d)
    <3>1. v = [r.w EXCEPT !.monsters[m] = [@ EXCEPT !.pos = r.at, !.dir = d, !.tile = t]]
      BY <1>2 DEF SettleSlipper
    <3>2. m \in 1..Len(r.w.monsters) /\ r.w.monsters[m] \in Monster
      BY <2>1, WorldParts DEF Board
    <3>3. [r.w.monsters[m] EXCEPT !.pos = r.at, !.dir = d, !.tile = t] =
            [r.w.monsters[m] EXCEPT !.tile = t, !.pos = r.at, !.dir = d]
      BY <3>2 DEF Monster
    <3> QED
      BY <3>1, <3>3 DEF PutDown
  <2> HIDE DEF t
  <2> QED
    BY <2>1, <2>3, <2>4, SetDown
<1> QED
  BY <1>1, <1>2

LEMMA SlideOnWell ==
  ASSUME LevelsWellFormed, NEW w, NEW c, NEW ic, Board(w, 0, NoCell, c, ic),
         NEW m \in 1..Len(w.monsters), NEW p, p = w.monsters[m].pos, NEW d \in Dir,
         NEW rnd \in Floors, NEW r, r = SlideMonsterOn(w, p, d, rnd)
  PROVE  MonsterResult(w, d, r) /\ (Alive(r.w) => MonsterMoved(w, m, c, ic, r))
<1> DEFINE f == SetTileDir(w.upper[p], d)
<1>1. w \in WorldType /\ Roster(w, 0, NoCell)
  BY BoardParts
<1>2. /\ p \in Cell /\ Kind(w.upper[p]) = Kind(w.monsters[m].tile) /\ w.upper[p] \in Tile
  BY <1>1, RosterSlipsAt, TileFacts
<1>3. f \in Tile /\ Kind(f) = Kind(w.upper[p])
  BY <1>2, KindOf
<1>4. r = MoveMonster(w, p, d, f, rnd)
  BY DEF SlideMonsterOn
<1> HIDE DEF f
<1>5. Faces(f, w.monsters[m].tile)
  BY <1>2, <1>3 DEF Faces
<1> QED
  BY <1>3, <1>4, <1>5, MoveMonsterWell

\* The last try of monster m, which was at p in w.
LEMMA SlidWell ==
  ASSUME NEW w \in WorldType, NEW m, NEW c, NEW ic, NEW r, Follows(w, r.w),
         r.at \in Cell, r.ok => r.d \in Dir, NEW stay \in Dir, NEW rnd \in Floors,
         NEW s \in Slipper, FindMonster(w, s.pos) = m, m \in 1..Len(w.monsters),
         NEW u, Alive(r.w) => MonsterMoved(u, m, c, ic, r),
         m \in 1..Len(u.monsters), u.monsters[m].pos = s.pos,
         NEW v, v = SlidMonster(w, s, r, stay, rnd), Alive(v)
  PROVE  Board(v, 0, NoCell, c, ic)
<1>1. r.w \in WorldType /\ Len(r.w.monsters) \in Nat /\ Len(w.monsters) \in Nat
  BY WorldParts DEF Follows
<1>2. m \in 1..Len(r.w.monsters) /\ m \in 0..Len(r.w.monsters) /\ m # 0
  BY <1>1 DEF Follows
<1>3. s.pos \in Cell
  BY DEF Slipper
<1>4. CASE r.ok
  <2>1. v = SettleSlipper(r, m)
    BY <1>4 DEF SlidMonster
  <2>2. Alive(r.w)
    BY <1>1, <1>2, <1>4, <2>1, SettleSlipperOutlives DEF Outlives, Alive
  <2> QED
    BY <1>2, <1>4, <2>1, <2>2, SlipperSettles
<1>5. CASE ~r.ok
  <2>1. v = TurnMonster(r.w, s.pos, stay, rnd).w
    BY <1>5 DEF SlidMonster
  <2>2. Alive(r.w)
    BY <1>1, <1>3, <2>1, TurnInPlaceType DEF SlideResult, Follows, Alive
  <2>3. Board(r.w, 0, NoCell, c, ic) /\ OnlyMonster(u, r.w, m)
    BY <1>5, <2>2 DEF MonsterMoved
  <2>4. r.w.monsters[m].pos = s.pos
    BY <2>3 DEF OnlyMonster
  <2> QED
    BY <1>2, <2>1, <2>3, <2>4, BeastTurns
<1> QED
  BY <1>4, <1>5

LEMMA SlipMonsterWell ==
  ASSUME LevelsWellFormed, NEW w, NEW c, NEW ic, Board(w, 0, NoCell, c, ic),
         NEW s \in Slipper, NEW m \in 1..Len(w.monsters), w.monsters[m].pos = s.pos,
         NEW rnd \in Floors, NEW v, v = SlipMonster(w, s, rnd), Alive(v)
  PROVE  Board(v, 0, NoCell, c, ic)
<1> DEFINE r == SlideMonsterOn(w, s.pos, s.dir, rnd)
           back == TurnAround(s.dir)
           turn == TurnMonster(r.w, s.pos, back, rnd)
           again == SlideMonsterOn(turn.w, s.pos, turn.d, rnd)
           front == TurnAround(turn.d)
<1>0. w \in WorldType /\ Roster(w, 0, NoCell)
  BY BoardParts
<1>1. s.pos \in Cell /\ s.dir \in Dir
  BY DEF Slipper
<1>2. back \in Dir
  BY <1>1, TurnsAreDirections
<1> HIDE DEF back
<1>3. FindMonster(w, s.pos) = m
  BY <1>0, RosterSlipsAt DEF SlipsAt
<1>4. MonsterResult(w, s.dir, r) /\ (Alive(r.w) => MonsterMoved(w, m, c, ic, r))
  BY <1>1, SlideOnWell
<1>5. v = IF r.ok \/ ~OnIce(w, s.pos) THEN SlidMonster(w, s, r, s.dir, rnd)
          ELSE SlidMonster(w, s, again, front, rnd)
  BY DEF SlipMonster, AfterMonsterSlid, MonsterSlidesBack, back
<1> HIDE DEF r
<1>6. Follows(w, r.w) /\ r.w \in WorldType /\ r.at \in Cell /\ (r.ok => r.d \in Dir)
  BY <1>4, LaterWorld DEF MonsterResult
<1>7. CASE r.ok \/ ~OnIce(w, s.pos)
  <2>1. v = SlidMonster(w, s, r, s.dir, rnd)
    BY <1>5, <1>7
  <2> QED
    BY <1>0, <1>1, <1>3, <1>4, <1>6, <2>1, SlidWell
<1>8. CASE ~(r.ok \/ ~OnIce(w, s.pos))
  <2>1. v = SlidMonster(w, s, again, front, rnd)
    BY <1>5, <1>8
  <2>2. SlideResult(r.w, turn)
    BY <1>1, <1>2, <1>6, TurnInPlaceType
  <2>3. Alive(r.w) => /\ Board(turn.w, 0, NoCell, c, ic) /\ m \in 1..Len(turn.w.monsters)
                      /\ turn.w.monsters[m].pos = s.pos
    <3>1. ASSUME Alive(r.w)
          PROVE  Board(r.w, 0, NoCell, c, ic) /\ m \in 1..Len(r.w.monsters) /\ r.w.monsters[m].pos = s.pos
      BY <1>4, <1>8, <3>1 DEF MonsterMoved, OnlyMonster
    <3>2. ASSUME Alive(r.w) PROVE Board(turn.w, 0, NoCell, c, ic) /\ OnlyMonster(r.w, turn.w, m)
      <4>1. Board(r.w, 0, NoCell, c, ic) /\ m \in 1..Len(r.w.monsters) /\ s.pos = r.w.monsters[m].pos
        BY <3>1, <3>2
      <4> QED
        BY <1>2, <4>1, BeastTurns
    <3> QED
      BY <3>1, <3>2 DEF OnlyMonster
  <2> HIDE DEF turn
  <2>4. turn.w \in WorldType /\ turn.d \in Dir /\ Follows(w, turn.w) /\ Follows(r.w, turn.w)
    BY <1>0, <1>6, <2>2, LaterWorld, FollowsTwice DEF SlideResult
  <2>5. front \in Dir
    BY <2>4, TurnsAreDirections
  <2>6. MonsterResult(turn.w, turn.d, again)
    BY <1>1, <2>4, SlideMonsterOnType
  <2> HIDE DEF front
  <2>7. ASSUME Alive(again.w)
        PROVE  /\ MonsterMoved(turn.w, m, c, ic, again)
               /\ m \in 1..Len(turn.w.monsters) /\ turn.w.monsters[m].pos = s.pos
    <3>1. Alive(r.w)
      BY <2>4, <2>6, <2>7 DEF MonsterResult, Follows, Alive
    <3> QED
      BY <2>3, <2>4, <2>7, <3>1, SlideOnWell
  <2> HIDE DEF again
  <2>8. Follows(w, again.w) /\ again.at \in Cell /\ (again.ok => again.d \in Dir)
    BY <1>0, <2>4, <2>6, FollowsTwice DEF MonsterResult
  <2>9. Alive(again.w)
    <3>1. again.w \in WorldType /\ Len(again.w.monsters) \in Nat /\ Len(w.monsters) \in Nat
      BY <1>0, <2>8, WorldParts DEF Follows
    <3>2. m \in 0..Len(again.w.monsters)
      BY <2>8, <3>1 DEF Follows
    <3>3. Outlives(again.w, SettleSlipper(again, m)) \/ ~again.ok
      BY <2>8, <3>1, <3>2, SettleSlipperOutlives
    <3>4. Follows(again.w, TurnMonster(again.w, s.pos, front, rnd).w)
      BY <1>1, <2>5, <3>1, TurnInPlaceType DEF SlideResult
    <3> QED
      BY <1>3, <2>1, <3>3, <3>4 DEF SlidMonster, Outlives, Follows, Alive
  <2> QED
    BY <1>0, <1>3, <2>1, <2>5, <2>7, <2>8, <2>9, SlidWell
<1> QED
  BY <1>7, <1>8

LEMMA SlidBlockWell ==
  ASSUME NEW w, NEW c, NEW ic, NEW p \in Cell, w.upper[p] = Block, NEW d, NEW r,
         BlockMoved(w, c, ic, p, d, r), r.w \in WorldType, NEW stay \in Dir,
         NEW rnd \in Floors, NEW s, s.pos = p, NEW v, v = SlidBlock(s, r, stay, rnd), Alive(v)
  PROVE  Board(v, 0, NoCell, c, ic)
<1>1. CASE r.ok
  BY <1>1 DEF SlidBlock, BlockMoved
<1>2. CASE ~r.ok
  <2>1. v = TurnBlock(r.w, p, stay, rnd).w
    BY <1>2 DEF SlidBlock
  <2>2. Alive(r.w)
    BY <2>1, TurnInPlaceType DEF SlideResult, Follows, Alive
  <2>3. Board(r.w, 0, NoCell, c, ic) /\ r.w.upper[p] = Block
    BY <1>2, <2>2 DEF BlockMoved, SameLayers
  <2> QED
    BY <2>1, <2>3, BlockTurns
<1> QED
  BY <1>1, <1>2

LEMMA SlipBlockWell ==
  ASSUME LevelsWellFormed, NEW w, NEW c, NEW ic, Board(w, 0, NoCell, c, ic),
         NEW s \in Slipper, w.upper[s.pos] = Block, NEW rnd \in Floors,
         NEW v, v = SlipBlock(w, s, rnd), Alive(v)
  PROVE  Board(v, 0, NoCell, c, ic)
<1> DEFINE r == SlideBlockOn(w, s.pos, s.dir, rnd)
           back == TurnAround(s.dir)
           turn == TurnBlock(r.w, s.pos, back, rnd)
           again == SlideBlockOn(turn.w, s.pos, turn.d, rnd)
           front == TurnAround(turn.d)
<1>0. w \in WorldType
  BY BoardParts
<1>1. s.pos \in Cell /\ s.dir \in Dir
  BY DEF Slipper
<1>2. back \in Dir
  BY <1>1, TurnsAreDirections
<1> HIDE DEF back
<1>3. Follows(w, r.w)
  BY <1>0, <1>1, SlideBlockOnFollows
<1>4. BlockMoved(w, c, ic, s.pos, s.dir, r)
  BY <1>1, MoveBlockWell DEF SlideBlockOn
<1>5. v = IF r.ok \/ ~OnIce(w, s.pos) THEN SlidBlock(s, r, s.dir, rnd)
          ELSE SlidBlock(s, again, front, rnd)
  BY DEF SlipBlock, AfterBlockSlid, BlockSlidesBack, back
<1> HIDE DEF r
<1>6. r.w \in WorldType
  BY <1>3, LaterWorld
<1>7. CASE r.ok \/ ~OnIce(w, s.pos)
  <2>1. v = SlidBlock(s, r, s.dir, rnd)
    BY <1>5, <1>7
  <2> QED
    BY <1>1, <1>4, <1>6, <2>1, SlidBlockWell
<1>8. CASE ~(r.ok \/ ~OnIce(w, s.pos))
  <2>1. v = SlidBlock(s, again, front, rnd)
    BY <1>5, <1>8
  <2>2. SlideResult(r.w, turn)
    BY <1>1, <1>2, <1>6, TurnInPlaceType
  <2>3. ASSUME Alive(r.w) PROVE Board(turn.w, 0, NoCell, c, ic) /\ turn.w.upper[s.pos] = Block
    <3>1. Board(r.w, 0, NoCell, c, ic) /\ r.w.upper[s.pos] = Block
      BY <1>4, <1>8, <2>3 DEF BlockMoved, SameLayers
    <3>2. Board(turn.w, 0, NoCell, c, ic) /\ SameLayers(r.w, turn.w)
      BY <1>1, <1>2, <3>1, BlockTurns
    <3> QED
      BY <3>1, <3>2 DEF SameLayers
  <2> HIDE DEF turn
  <2>4. turn.w \in WorldType /\ turn.d \in Dir /\ Follows(r.w, turn.w)
    BY <2>2, LaterWorld DEF SlideResult
  <2>5. front \in Dir
    BY <2>4, TurnsAreDirections
  <2> HIDE DEF front
  <2>6. Follows(turn.w, again.w)
    BY <1>1, <2>4, SlideBlockOnFollows
  <2>7. Alive(r.w) => BlockMoved(turn.w, c, ic, s.pos, turn.d, again)
    BY <1>1, <2>3, <2>4, MoveBlockWell DEF SlideBlockOn
  <2> HIDE DEF again
  <2>8. again.w \in WorldType
    BY <2>6, LaterWorld
  <2>9. Follows(again.w, v)
    BY <1>1, <2>1, <2>5, <2>8, FollowsSelf, TurnInPlaceType DEF SlidBlock, SlideResult
  <2>10. Alive(r.w)
    BY <2>4, <2>6, <2>9 DEF Follows, Alive
  <2> QED
    BY <1>1, <2>1, <2>3, <2>5, <2>7, <2>8, <2>10, SlidBlockWell
<1> QED
  BY <1>7, <1>8

\* An iteration of SlipLoop.
LEMMA SlipTurnWell ==
  ASSUME LevelsWellFormed, NEW w, NEW c, NEW ic, Board(w, 0, NoCell, c, ic),
         NEW i \in 1..Len(w.slips), NEW rnd \in Floors,
         NEW v, v = SlipTurn(w, i, rnd), Alive(v)
  PROVE  Board(v, 0, NoCell, c, ic)
<1> DEFINE s == w.slips[i]
<1>1. w \in WorldType /\ Slid(w, 0, NoCell)
  BY BoardParts DEF Roster
<1>2. s \in Slipper
  BY <1>1, WorldParts
<1>3. v = IF s.isblock THEN SlipMonster(w, s, rnd) ELSE SlipBlock(w, s, rnd)
  BY DEF SlipTurn
<1>4. IF s.isblock
      THEN \E m \in 1..Len(w.monsters) : At(w, 0, NoCell, m) = s.pos /\ w.monsters[m].slipping
      ELSE w.upper[s.pos] = Block
  BY <1>1 DEF Slid
<1> HIDE DEF s
<1>5. CASE s.isblock
  <2>1. PICK m \in 1..Len(w.monsters) : At(w, 0, NoCell, m) = s.pos
    BY <1>4, <1>5
  <2>2. w.monsters[m].pos = s.pos
    BY <2>1 DEF At
  <2>3. v = SlipMonster(w, s, rnd)
    BY <1>3, <1>5
  <2> QED
    BY <1>2, <2>2, <2>3, SlipMonsterWell
<1>6. CASE ~s.isblock
  <2>1. v = SlipBlock(w, s, rnd)
    BY <1>3, <1>6
  <2> QED
    BY <1>2, <1>4, <1>6, <2>1, SlipBlockWell
<1> QED
  BY <1>5, <1>6

-----------------------------------------------------------------------------
(***************************************************************************)
(* Chip on his cell.                                                       *)
(***************************************************************************)

\* v differs from w in the tiles of cell p only, and perhaps in traps and autopsy.
OneCell(w, v, p) ==
  /\ v.level = w.level /\ v.monsters = w.monsters /\ v.slips = w.slips
  /\ \A x \in Cell : x # p => v.upper[x] = w.upper[x] /\ v.lower[x] = w.lower[x]

\* What cell p becomes is as sound as what it was.
CellKeeps(w, v, p, c, ic, e, jc) ==
  /\ \A ph \in BOOLEAN : GoodCell(w.level, w.upper[p], w.lower[p], p, c, ph, ic)
                           => GoodCell(w.level, v.upper[p], v.lower[p], p, e, ph, jc)
  /\ \A x \in Cell : x # p => ((x = c <=> x = e) /\ (x \in ic <=> x \in jc))

LEMMA OneCellWell ==
  ASSUME NEW w, NEW c, NEW ic, Board(w, 0, NoCell, c, ic), NEW p \in Cell,
         w.upper[p] \notin Bearers, NEW v \in WorldType, OneCell(w, v, p),
         v.upper[p] \notin Bearers, NEW e, NEW jc, CellKeeps(w, v, p, c, ic, e, jc)
  PROVE  Board(v, 0, NoCell, e, jc)
<1>1. w \in WorldType /\ Roster(w, 0, NoCell)
  BY BoardParts
<1>2. PICK ph \in BOOLEAN : Cells(w, c, ph, ic)
  BY DEF Board
<1>3. Cells(v, e, ph, jc)
  <2>1. ASSUME NEW x \in Cell
        PROVE  GoodCell(w.level, v.upper[x], v.lower[x], x, e, ph, jc)
    <3>1. GoodCell(w.level, w.upper[x], w.lower[x], x, c, ph, ic)
      BY <1>2 DEF Cells
    <3>2. CASE x = p
      BY <3>1, <3>2 DEF CellKeeps
    <3>3. CASE x # p
      <4>1. v.upper[x] = w.upper[x] /\ v.lower[x] = w.lower[x]
        BY <3>3 DEF OneCell
      <4>2. (x = c <=> x = e) /\ (x \in ic <=> x \in jc)
        BY <3>3 DEF CellKeeps
      <4> QED
        BY <3>1, <4>1, <4>2 DEF GoodCell
    <3> QED
      BY <3>2, <3>3
  <2> QED
    BY <2>1 DEF Cells, OneCell
<1>4. Roster(v, 0, NoCell)
  <2>1. ASSUME NEW x \in Cell PROVE Same(w, v, x)
    <3>1. CASE x = p
      BY <3>1 DEF Same, Bearers
    <3>2. CASE x # p
      BY <3>2 DEF Same, OneCell
    <3> QED
      BY <3>1, <3>2
  <2>2. v.monsters = w.monsters /\ v.slips = w.slips
    BY DEF OneCell
  <2>3. Len(w.monsters) \in Nat /\ 0 \in 0..Len(w.monsters)
    BY <1>1, WorldParts
  <2>4. Len(v.monsters) = Len(w.monsters)
    BY <2>2
  <2>5. ASSUME NEW i \in 1..Len(w.monsters)
        PROVE  /\ At(v, 0, NoCell, i) = At(w, 0, NoCell, i)
               /\ Kind(v.monsters[i].tile) = Kind(w.monsters[i].tile)
               /\ v.monsters[i].slipping <=> w.monsters[i].slipping
    BY <2>2 DEF At
  <2> QED
    BY <1>1, <2>1, <2>2, <2>3, <2>4, <2>5, RosterAlike
<1>5. 0 \in 0..Len(v.monsters)
  BY WorldParts
<1> QED
  BY <1>3, <1>4, <1>5 DEF Board

LEMMA ChipTileIs == \A t : ChipTile(t) \in ChipTiles /\ ChipTile(t) \in Tile
BY DEF ChipTile, ChipTiles, Swim, Chip, Tile

LEMMA ChipIsThere ==
  ASSUME NEW w, NEW m, NEW a, NEW p \in Cell, NEW ic, Board(w, m, a, p, ic)
  PROVE  w.upper[p] \in ChipTiles /\ w.upper[p] \notin Bearers /\ w.level \in 1..Len(Levels)
<1>1. w.upper[p] \in ChipTiles
  BY DEF Board, Cells, GoodCell
<1> QED
  BY <1>1, TileFacts, BoardParts, WorldParts

\* A cell's tiles, as they are set one after the other.
LEMMA TilesSet ==
  ASSUME NEW w \in WorldType, NEW p \in Cell, NEW t \in Tile
  PROVE  /\ SetUpper(w, p, t) \in WorldType /\ OneCell(w, SetUpper(w, p, t), p)
         /\ SetUpper(w, p, t).upper[p] = t /\ SetUpper(w, p, t).lower[p] = w.lower[p]
         /\ SetLower(w, p, t) \in WorldType /\ OneCell(w, SetLower(w, p, t), p)
         /\ SetLower(w, p, t).lower[p] = t /\ SetLower(w, p, t).upper[p] = w.upper[p]
<1>1. SetUpper(w, p, t) \in WorldType /\ SetLower(w, p, t) \in WorldType
  BY SetUpperFollows, SetLowerFollows DEF Follows
<1>2. w.upper \in [Cell -> Tile] /\ w.lower \in [Cell -> Tile]
  BY WorldParts
<1>3. /\ OneCell(w, SetUpper(w, p, t), p)
      /\ SetUpper(w, p, t).upper[p] = t /\ SetUpper(w, p, t).lower[p] = w.lower[p]
  BY <1>2 DEF SetUpper, OneCell, WorldType
<1>4. /\ OneCell(w, SetLower(w, p, t), p)
      /\ SetLower(w, p, t).lower[p] = t /\ SetLower(w, p, t).upper[p] = w.upper[p]
  BY <1>2 DEF SetLower, OneCell, WorldType
<1> QED
  BY <1>1, <1>3, <1>4

LEMMA OneCellTwice ==
  ASSUME NEW w, NEW u, NEW v, NEW p, OneCell(w, u, p), OneCell(u, v, p)
  PROVE  OneCell(w, v, p)
BY DEF OneCell

\* Chip is taken off the board, ...
LEMMA ChipLifted ==
  ASSUME NEW w, NEW p \in Cell, NEW ic, Board(w, 0, NoCell, p, ic)
  PROVE  Board(Pop(w, p), 0, NoCell, NoCell, ic)
<1> DEFINE u == SetUpper(w, p, w.lower[p])
           v == SetLower(u, p, Floor)
<1>1. w \in WorldType /\ w.lower[p] \in Tile /\ Floor \in Tile
  BY BoardParts, WorldParts, TileFacts
<1>2. u \in WorldType /\ OneCell(w, u, p) /\ u.upper[p] = w.lower[p]
  BY <1>1, TilesSet
<1> HIDE DEF u
<1>3. v \in WorldType /\ OneCell(u, v, p) /\ v.upper[p] = w.lower[p] /\ v.lower[p] = Floor
  BY <1>1, <1>2, TilesSet
<1>4. Pop(w, p) = v
  BY DEF Pop, u
<1> HIDE DEF v
<1>5. OneCell(w, v, p)
  BY <1>2, <1>3, OneCellTwice
<1>6. w.upper[p] \notin Bearers /\ w.level \in 1..Len(Levels)
  BY ChipIsThere
<1>7. CellKeeps(w, v, p, p, ic, NoCell, ic)
  <2>1. ASSUME NEW ph \in BOOLEAN, GoodCell(w.level, w.upper[p], w.lower[p], p, p, ph, ic)
        PROVE  GoodCell(w.level, v.upper[p], v.lower[p], p, NoCell, ph, ic)
    BY <1>3, <1>6, <2>1, CellWithoutChip
  <2>2. \A x \in Cell : x # NoCell
    BY NoCellIsNone
  <2> QED
    BY <2>1, <2>2 DEF CellKeeps
<1>8. w.lower[p] \notin Bearers
  BY DEF Board, Cells, GoodCell
<1> QED
  BY <1>3, <1>4, <1>5, <1>6, <1>7, <1>8, OneCellWell

\* ... turns where he is, ...
LEMMA ChipTurned ==
  ASSUME NEW w, NEW p \in Cell, NEW ic, Board(w, 0, NoCell, p, ic), NEW t \in ChipTiles
  PROVE  Board(SetUpper(w, p, t), 0, NoCell, p, ic)
<1> DEFINE v == SetUpper(w, p, t)
<1>1. w \in WorldType /\ t \in Tile /\ t \notin Bearers
  BY BoardParts, TileFacts
<1>2. v \in WorldType /\ OneCell(w, v, p) /\ v.upper[p] = t /\ v.lower[p] = w.lower[p]
  BY <1>1, TilesSet
<1> HIDE DEF v
<1>3. w.upper[p] \notin Bearers /\ w.level \in 1..Len(Levels)
  BY ChipIsThere
<1>4. CellKeeps(w, v, p, p, ic, p, ic)
  <2>1. ASSUME NEW ph \in BOOLEAN, GoodCell(w.level, w.upper[p], w.lower[p], p, p, ph, ic)
        PROVE  GoodCell(w.level, v.upper[p], v.lower[p], p, p, ph, ic)
    BY <1>2, <1>3, <2>1, CellChipTurns
  <2> QED
    BY <2>1 DEF CellKeeps
<1>5. Board(v, 0, NoCell, p, ic)
  BY <1>1, <1>2, <1>3, <1>4, OneCellWell
<1> QED
  BY <1>5 DEF v

\* ... and put on it again: what he finds he covers ...
LEMMA ChipCovers ==
  ASSUME NEW w, NEW p \in Cell, NEW ic, Board(w, 0, NoCell, NoCell, ic),
         w.upper[p] \notin ChipTiles \cup Bearers \cup CloneBlocks \cup {Bomb},
         w.upper[p] # ICChip, NEW t \in ChipTiles
  PROVE  Board(SetUpper(Push(w, p), p, t), 0, NoCell, p, ic)
<1> DEFINE u == SetLower(w, p, w.upper[p])
           v == SetUpper(u, p, t)
<1>1. w \in WorldType /\ w.upper[p] \in Tile /\ t \in Tile /\ t \notin Bearers
  BY BoardParts, WorldParts, TileFacts
<1>2. u \in WorldType /\ OneCell(w, u, p) /\ u.lower[p] = w.upper[p]
  BY <1>1, TilesSet
<1>0. SetUpper(Push(w, p), p, t) = v
  BY DEF Push
<1> HIDE DEF u
<1>3. v \in WorldType /\ OneCell(u, v, p) /\ v.upper[p] = t /\ v.lower[p] = w.upper[p]
  BY <1>1, <1>2, TilesSet
<1> HIDE DEF v
<1>5. OneCell(w, v, p)
  BY <1>2, <1>3, OneCellTwice
<1>6. w.level \in 1..Len(Levels)
  BY <1>1, WorldParts
<1>7. CellKeeps(w, v, p, NoCell, ic, p, ic)
  <2>1. ASSUME NEW ph \in BOOLEAN, GoodCell(w.level, w.upper[p], w.lower[p], p, NoCell, ph, ic)
        PROVE  GoodCell(w.level, v.upper[p], v.lower[p], p, p, ph, ic)
    BY <1>3, <1>6, <2>1, CellWithChip
  <2>2. \A x \in Cell : x # NoCell
    BY NoCellIsNone
  <2> QED
    BY <2>1, <2>2 DEF CellKeeps
<1>8. Board(v, 0, NoCell, p, ic)
  BY <1>1, <1>3, <1>5, <1>7, OneCellWell
<1> QED
  BY <1>0, <1>8

\* The same, with the tile known to be no toggle wall.
LEMMA CellTaken ==
  ASSUME NEW n \in 1..Len(Levels), NEW u, NEW t, NEW x \in Cell, NEW ph \in BOOLEAN, NEW ic,
         GoodCell(n, u, t, x, NoCell, ph, ic), NEW b \in ChipTiles,
         u \notin ChipTiles \cup Bearers \cup CloneBlocks \cup {Bomb}, ~IsToggle(u),
         NEW jc, jc = ic \ {x}
  PROVE  GoodCell(n, b, t, x, x, ph, jc)
<1>1. x \in ToggleCells[n] => u = Shown(n, x, ph) /\ IsToggle(u)
  BY ToggleShown DEF GoodCell
<1>2. x \notin Machines(n) /\ t \notin {ICChip, Bomb} /\ (x \in ic => u = ICChip)
  BY TileFacts DEF GoodCell
<1>3. x \notin jc
  OBVIOUS
<1> QED
  BY <1>1, <1>2, <1>3, TileFacts, TilesApart DEF GoodCell

\* ... or takes.
LEMMA ChipReplaces ==
  ASSUME NEW w, NEW p \in Cell, NEW ic, Board(w, 0, NoCell, NoCell, ic),
         w.upper[p] \notin ChipTiles \cup Bearers \cup CloneBlocks \cup {Bomb},
         ~IsToggle(w.upper[p]), NEW t \in ChipTiles
  PROVE  /\ Board(SetUpper(w, p, t), 0, NoCell, p, ic \ {p})
         /\ p \in ic <=> w.upper[p] = ICChip
<1> DEFINE v == SetUpper(w, p, t)
<1>1. w \in WorldType /\ t \in Tile /\ t \notin Bearers
  BY BoardParts, TileFacts
<1>2. v \in WorldType /\ OneCell(w, v, p) /\ v.upper[p] = t /\ v.lower[p] = w.lower[p]
  BY <1>1, TilesSet
<1> HIDE DEF v
<1>3. w.level \in 1..Len(Levels)
  BY <1>1, WorldParts
<1>4. CellKeeps(w, v, p, NoCell, ic, p, ic \ {p})
  <2>1. ASSUME NEW ph \in BOOLEAN, GoodCell(w.level, w.upper[p], w.lower[p], p, NoCell, ph, ic)
        PROVE  GoodCell(w.level, v.upper[p], v.lower[p], p, p, ph, ic \ {p})
    <3> DEFINE b == w.upper[p]
               l == w.lower[p]
    <3>1. GoodCell(w.level, b, l, p, NoCell, ph, ic)
      BY <2>1
    <3>2. b \notin ChipTiles \cup Bearers \cup CloneBlocks \cup {Bomb} /\ ~IsToggle(b)
      OBVIOUS
    <3> HIDE DEF b
    <3>3. GoodCell(w.level, t, l, p, p, ph, ic \ {p})
      BY <1>3, <3>1, <3>2, CellTaken
    <3> QED
      BY <1>2, <3>3
  <2>2. \A x \in Cell : x # NoCell
    BY NoCellIsNone
  <2> QED
    BY <2>1, <2>2 DEF CellKeeps
<1>5. Board(v, 0, NoCell, p, ic \ {p})
  BY <1>1, <1>2, <1>4, OneCellWell
<1>6. p \in ic <=> w.upper[p] = ICChip
  BY DEF Board, Cells, GoodCell
<1> QED
  BY <1>5, <1>6 DEF v

-----------------------------------------------------------------------------
(***************************************************************************)
(* What Chip finds, and his way through the teleports.                     *)
(***************************************************************************)

SpecialTiles == {FakeFloor, FakeWall, HiddenWall, PopupWall}

LEMMA SpecialAre ==
  \A t \in SpecialTiles : /\ t \notin Bearers \cup CloneBlocks \cup ChipTiles \cup Keys \cup Boots
                          /\ t \notin {ICChip, Teleport} /\ ~IsToggle(t)
BY DEF SpecialTiles, Bearers, Monsters, CloneBlocks, ChipTiles, Keys, Boots, IsToggle, ICChip,
   Teleport, FakeFloor, FakeWall, HiddenWall, PopupWall, Block, BlockN, BlockE, Swim, Chip,
   Bug, Paramecium, ToggleWall, ToggleFloor

LEMMA OpensTo ==
  ASSUME NEW w, NEW p
  PROVE  \/ ChipOpens(w, p) = w
         \/ /\ w.upper[p] \in SpecialTiles
            /\ \E t \in {Floor, Wall} : ChipOpens(w, p) = SetUpper(w, p, t)
BY DEF ChipOpens, SpecialTiles

\* Chip looks at a cell, and a wall that is none, or one he did not see, shows.
LEMMA OpensWell ==
  ASSUME NEW w, NEW c, NEW ic, Board(w, 0, NoCell, c, ic), NEW p \in Cell
  PROVE  Board(ChipOpens(w, p), 0, NoCell, c, ic)
<1>1. CASE ChipOpens(w, p) = w
  BY <1>1
<1>2. CASE ChipOpens(w, p) # w
  <2>1. PICK t \in {Floor, Wall} : ChipOpens(w, p) = SetUpper(w, p, t)
    BY <1>2, OpensTo
  <2> DEFINE v == SetUpper(w, p, t)
             u == w.upper[p]
  <2>2. u \in SpecialTiles
    BY <1>2, OpensTo
  <2>3. w \in WorldType /\ t \in Tile /\ t \notin Bearers
    BY BoardParts, TileFacts
  <2>4. w.level \in 1..Len(Levels)
    BY <2>3, WorldParts
  <2>5. v \in WorldType /\ OneCell(w, v, p) /\ v.upper[p] = t /\ v.lower[p] = w.lower[p]
    BY <2>3, TilesSet
  <2> HIDE DEF v, u
  <2>6. u \notin Bearers \cup CloneBlocks \cup ChipTiles \cup {ICChip} /\ ~IsToggle(u)
    BY <2>2, SpecialAre
  <2>7. p # c
    BY <2>6 DEF Board, Cells, GoodCell, u
  <2>8. CellKeeps(w, v, p, c, ic, c, ic)
    <3>1. ASSUME NEW ph \in BOOLEAN, GoodCell(w.level, u, w.lower[p], p, c, ph, ic)
          PROVE  GoodCell(w.level, t, w.lower[p], p, c, ph, ic)
      BY <2>4, <2>6, <2>7, <3>1, CellReplaced
    <3> QED
      BY <2>5, <3>1 DEF CellKeeps, u
  <2>9. Board(v, 0, NoCell, c, ic)
    BY <2>3, <2>5, <2>6, <2>8, OneCellWell DEF u
  <2> QED
    BY <2>1, <2>9 DEF v
<1> QED
  BY <1>1, <1>2

\* What Chip then comes upon, with action code act.
Finds(w, p, act) ==
  /\ act \in {0, 1, 3, 4, 5, 6, 7}
  /\ w.upper[p] \notin ChipTiles \cup Bearers \cup CloneBlocks \cup {Bomb}
  /\ w.upper[p] = ICChip => act = 1
  /\ act = 1 => w.upper[p] \in Keys \cup Boots \cup {ICChip}
  /\ IsToggle(w.upper[p]) => act = 4
  /\ act = 7 => w.upper[p] = Teleport

LEMMA ChipFinds ==
  ASSUME NEW w \in WorldType, NEW p \in Cell, NEW d, NEW bag, NEW act,
         act = ChipCanEnter(w, bag, p, d), act # Refused, act # 2,
         w.upper[p] = Block => w.lower[p] = CloneMachine,
         NEW v, v = ChipOpens(w, p)
  PROVE  Finds(v, p, act) /\ w.upper[p] \notin ChipTiles
<1> DEFINE u == w.upper[p]
<1>1. u # Block
  BY DEF ChipCanEnter
<1>2. /\ w.lower[p] # CloneMachine
      /\ act \in {0, 1, 3, 4, 5, 6, 7}
      /\ u \notin ChipTiles \cup Bearers \cup CloneBlocks \cup {Bomb, CloneMachine}
      /\ u = ICChip => act = 1
      /\ act = 1 => u \in Keys \cup Boots \cup {ICChip}
      /\ IsToggle(u) => act = 4
      /\ act = 7 <=> u = Teleport
  <2>1. ChipCanEnter(w, bag, p, d) # Refused
    OBVIOUS
  <2> QED
    BY <1>1, <2>1, ChipEnters
<1>3. CASE v = w
  BY <1>2, <1>3 DEF Finds
<1>4. CASE v # w
  <2>1. u \in SpecialTiles
    BY <1>4, OpensTo
  <2>2. PICK t \in {Floor, Wall} : v = SetUpper(w, p, t)
    BY <1>4, OpensTo
  <2>3. v.upper[p] = t
    <3>1. t \in Tile
      BY TileFacts
    <3> QED
      BY <2>2, <3>1, TilesSet
  <2>4. t \notin Bearers \cup CloneBlocks \cup ChipTiles /\ ~IsToggle(t)
        /\ t \notin {ICChip, Bomb, Teleport}
    BY TileFacts, TilesApart
  <2>5. act # 1 /\ act # 7
    BY <1>2, <2>1, SpecialAre
  <2> QED
    BY <1>2, <2>3, <2>4, <2>5 DEF Finds
<1> QED
  BY <1>2, <1>3, <1>4
-----------------------------------------------------------------------------
\* A block moves only where there is board.
LEMMA MovedOnBoard ==
  ASSUME NEW w \in WorldType, NEW src \in Cell, NEW d \in Dir, NEW rnd \in Floors,
         NEW v, v = MoveBlock(w, src, d, Keep, rnd), v.ok
  PROVE  Step(src, d) \in Cell
<1> DEFINE r == BlockStep(w, src, d, Keep, rnd[1])
           s == Hit(r, rnd[2])
<1>1. rnd[1] \in Dir /\ rnd[2] \in Dir /\ Keep \in Facing
  BY DEF Floors, Facing
<1>2. BlockResult(w, r)
  BY <1>1, BlockStepType
<1>3. BlockResult(w, s)
  BY <1>1, <1>2, HitType
<1>4. v = Squish(s)
  BY DEF MoveBlock
<1>5. s.ok = r.ok
  <2>1. r = [w |-> r.w, ok |-> r.ok, act |-> r.act, at |-> r.at]
    BY <1>2 DEF BlockResult
  <2> HIDE DEF r
  <2>2. \A u : [r EXCEPT !.w = u].ok = r.ok
    BY <2>1
  <2> QED
    BY <2>2 DEF Hit
<1> HIDE DEF s
<1>6. r.ok
  BY <1>3, <1>4, <1>5, Squishes
<1> QED
  BY <1>6 DEF BlockStep, BlockGoes, BlockAct, CanLeave

\* What Chip's tries of the teleports have come to.
Ported(w, ic, r) ==
  /\ TeleportResult(w, r)
  /\ Alive(r.w) => /\ Board(r.w, 0, NoCell, NoCell, ic) /\ StayTop(w, r.w)
                   /\ r.ok => r.w.upper[r.at] = Teleport

\* No block is pushed from a teleport's exit into another teleport.
LEMMA PushedApart ==
  ASSUME LevelsWellFormed, NEW w, NEW c, NEW ic, Board(w, 0, NoCell, c, ic),
         NEW p \in Cell, NEW d \in Dir, w.upper[p] = Teleport, w.upper[Step(p, d)] = Block,
         Step(Step(p, d), d) \in Cell
  PROVE  w.upper[Step(Step(p, d), d)] # Teleport
<1> DEFINE q == Step(Step(p, d), d)
           l == Levels[w.level]
<1>1. SUFFICES ASSUME w.upper[q] = Teleport PROVE FALSE
  OBVIOUS
<1>2. Has(l, p, Teleport) /\ Has(l, q, Teleport) /\ w.level \in 1..Len(Levels)
  BY <1>1, LevelHas
<1>3. d \in Compass
  <2>1. Step(p, Still) = p
    BY DEF Step, Still, Cell
  <2>2. Block # Teleport
    BY DEF Block, Teleport
  <2> QED
    BY <2>1, <2>2 DEF Dir
<1>4. TeleportsApart(l)
  BY <1>2 DEF LevelsWellFormed, WellFormed
<1> QED
  BY <1>2, <1>3, <1>4 DEF TeleportsApart

LEMMA TryTeleportWell ==
  ASSUME LevelsWellFormed, NEW w, NEW ic, Board(w, 0, NoCell, NoCell, ic), NEW bag,
         NEW p \in Cell, NEW d \in Dir, NEW rnd \in Floors
  PROVE  Ported(w, ic, TryTeleport(w, bag, p, d, rnd))
<1> DEFINE exit == Step(p, d)
           r == IF w.upper[exit] # Block THEN [w |-> w, ok |-> TRUE]
                ELSE MoveBlock(w, exit, d, Keep, rnd)
           v == IF r.ok /\ EndlessLook(r.w, exit) THEN Crash(r.w, "recursion") ELSE r.w
           ok == r.ok /\ ChipCanEnter(r.w, bag, exit, d) # Refused
           s == TryTeleport(w, bag, p, d, rnd)
<1>0. w \in WorldType
  BY BoardParts
<1>1. TeleportResult(w, s)
  BY <1>0, TryTeleportType
<1>2. CASE w.upper[p] # Teleport \/ exit \notin Cell
  <2>1. s.w = w /\ s.ok = FALSE
    BY <1>2 DEF TryTeleport
  <2> HIDE DEF s
  <2> QED
    BY <1>1, <2>1 DEF Ported, StayTop, s
<1>3. CASE ~(w.upper[p] # Teleport \/ exit \notin Cell)
  <2>1. s = [w |-> v, ok |-> ok, at |-> p]
    BY <1>3 DEF TryTeleport, FollowsTo
  <2>2. r.w \in WorldType /\ (Alive(r.w) => Board(r.w, 0, NoCell, NoCell, ic) /\ StayTop(w, r.w))
    <3>1. CASE w.upper[exit] # Block
      <4>1. r.w = w
        BY <3>1
      <4> HIDE DEF r
      <4> QED
        BY <1>0, <4>1 DEF StayTop
    <3>2. CASE w.upper[exit] = Block
      <4>1. r = MoveBlock(w, exit, d, Keep, rnd)
        BY <3>2
      <4>2. BlockMoved(w, NoCell, ic, exit, d, r)
        BY <1>3, <3>2, <4>1, MoveBlockWell
      <4> HIDE DEF r
      <4>3. r.ok => Step(exit, d) \in Cell
        BY <1>0, <1>3, <4>1, MovedOnBoard
      <4>4. r.ok => w.upper[Step(exit, d)] # Teleport
        BY <1>3, <3>2, <4>3, PushedApart
      <4> QED
        BY <4>2, <4>4 DEF BlockMoved, BlockResult, Follows
    <3> QED
      BY <3>1, <3>2
  <2> HIDE DEF r
  <2>3. SameBoard(r.w, v) /\ v \in WorldType /\ (Alive(v) <=> Alive(r.w))
    <3>1. CASE v = r.w
      <4> HIDE DEF v
      <4> QED
        BY <2>2, <3>1 DEF SameBoard
    <3>2. CASE v = Crash(r.w, "recursion")
      <4>1. v \in WorldType
        BY <2>2, <3>2, CrashFollows DEF Follows, Fault
      <4>2. SameBoard(r.w, v) /\ v.autopsy = r.w.autopsy
        BY <2>2, <3>2 DEF Crash, SameBoard, WorldType
      <4> QED
        BY <4>1, <4>2 DEF Alive
    <3> QED
      BY <3>1, <3>2
  <2> HIDE DEF v, ok
  <2>4. s.w = v /\ s.at = p
    BY <2>1
  <2> HIDE DEF s
  <2>5. Alive(v) => Board(v, 0, NoCell, NoCell, ic) /\ StayTop(w, v)
    <3>1. ASSUME Alive(v) PROVE Board(v, 0, NoCell, NoCell, ic)
      BY <2>2, <2>3, <3>1, BoardAlike
    <3>2. ASSUME Alive(v) PROVE StayTop(w, v)
      BY <2>2, <2>3, <3>2 DEF StayTop, SameBoard
    <3> QED
      BY <3>1, <3>2
  <2>6. Alive(v) => v.upper[p] = Teleport
    BY <1>3, <2>5 DEF StayTop
  <2>7. Ported(w, ic, s)
    BY <1>1, <2>4, <2>5, <2>6 DEF Ported
  <2> QED
    BY <2>7 DEF s
<1> QED
  BY <1>2, <1>3

LEMMA TryNextWell ==
  ASSUME LevelsWellFormed, NEW w \in WorldType, NEW ic, NEW r, Ported(w, ic, r), NEW bag,
         NEW start, NEW k, NEW d \in Dir, NEW rnd \in Floors
  PROVE  Ported(w, ic, TryNext(r, bag, start, k, d, rnd))
<1> DEFINE s == TryNext(r, bag, start, k, d, rnd)
           p == CellBack(start, k)
<1>1. TeleportResult(w, s)
  BY TryNextType DEF Ported
<1>2. CASE r.ok \/ k \notin TeleportsBack(r.w, start)
  BY <1>2 DEF TryNext
<1>3. CASE ~(r.ok \/ k \notin TeleportsBack(r.w, start))
  <2>1. r.w \in WorldType /\ p \in Cell
    BY <1>3, LaterWorld, TeleportsBackType DEF Ported, TeleportResult
  <2>2. s = TryTeleport(r.w, bag, p, d, rnd)
    BY <1>3 DEF TryNext
  <2> HIDE DEF s, p
  <2>3. TeleportResult(r.w, s)
    BY <2>1, <2>2, TryTeleportType
  <2>4. ASSUME Alive(s.w)
        PROVE  /\ Board(s.w, 0, NoCell, NoCell, ic) /\ StayTop(w, s.w)
               /\ s.ok => s.w.upper[s.at] = Teleport
    <3>1. Alive(r.w)
      BY <2>3, <2>4 DEF TeleportResult, Follows, Alive
    <3>2. Board(r.w, 0, NoCell, NoCell, ic) /\ StayTop(w, r.w)
      BY <3>1 DEF Ported
    <3>3. Ported(r.w, ic, s)
      BY <2>1, <2>2, <3>2, TryTeleportWell
    <3>4. StayTop(r.w, s.w)
      BY <2>4, <3>3 DEF Ported
    <3> QED
      BY <2>4, <3>2, <3>3, <3>4, StayTopTwice DEF Ported
  <2>5. Ported(w, ic, s)
    BY <1>1, <2>4 DEF Ported, s
  <2> QED
    BY <2>5 DEF s
<1> QED
  BY <1>2, <1>3

LEMMA ChipTeleportWell ==
  ASSUME LevelsWellFormed, NEW w, NEW ic, Board(w, 0, NoCell, NoCell, ic), NEW bag,
         NEW start \in Cell, w.upper[start] = Teleport, NEW d \in Dir, NEW rnd \in Floors,
         NEW v, v = ChipTeleport(w, bag, start, d, rnd), Alive(v.w)
  PROVE  Board(v.w, 0, NoCell, NoCell, ic) /\ v.w.upper[v.at] = Teleport
<1> DEFINE V == {r \in [w: WorldType, ok: BOOLEAN, at: Cell] : Ported(w, ic, r)}
           len == Width * Height - 1
           base == [w |-> w, ok |-> FALSE, at |-> start]
           Op(r, k) == TryNext(r, bag, start, k, d, rnd)
           step == [k \in 1..len |-> [r \in V |-> Op(r, k)]]
           tried == CHOOSE f : f = [k \in 0..len |-> IF k = 0 THEN base ELSE Op(f[k - 1], k)]
           Back(r) == IF r.ok THEN r ELSE [r EXCEPT !.at = start]
<1>0. w \in WorldType
  BY BoardParts
<1>1. len \in Nat
  BY WorldAssumption
<1>2. \A r : r \in V <=> Ported(w, ic, r)
  BY DEF Ported, TeleportResult, Follows
<1>3. Ported(w, ic, base)
  <2>1. TeleportResult(w, base)
    BY <1>0, FollowsSelf DEF TeleportResult
  <2>2. base.w = w /\ base.ok = FALSE
    OBVIOUS
  <2> HIDE DEF base
  <2> QED
    BY <2>1, <2>2 DEF Ported, StayTop
<1>4. v = Back(tried[len])
  BY DEF ChipTeleport, Looped
<1>5. \A r \in V : \A k : Op(r, k) \in V
  <2> HIDE DEF V
  <2> QED
    BY <1>0, <1>2, TryNextWell
<1> HIDE DEF V, len, base, Op
<1>6. base \in V
  BY <1>2, <1>3
<1>7. step \in Steps(V, len)
  BY <1>5 DEF Steps
<1>8. \A r \in V, k \in 1..len : step[k][r] = Op(r, k)
  OBVIOUS
<1> HIDE DEF step
<1>9. PICK f : IsRun(f, V, len, base, step)
  BY <1>1, <1>6, <1>7, RunExists
<1>10. f = [k \in 0..len |-> IF k = 0 THEN base ELSE Op(f[k - 1], k)]
  <2>1. \A k \in 1..len : f[k - 1] \in V
    BY <1>1, <1>9 DEF IsRun
  <2> QED
    BY <1>1, <1>8, <1>9, <2>1 DEF IsRun
<1>11. tried = [k \in 0..len |-> IF k = 0 THEN base ELSE Op(tried[k - 1], k)]
  BY <1>10
<1> HIDE DEF tried
<1>12. tried[0] \in V
  BY <1>1, <1>6, <1>11
<1>13. ASSUME NEW k \in 0..(len - 1), tried[k] \in V PROVE tried[k + 1] \in V
  <2>1. k + 1 \in 1..len /\ (k + 1) - 1 = k
    BY <1>1
  <2>2. tried[k + 1] = Op(tried[k], k + 1)
    BY <1>1, <1>11, <2>1
  <2> QED
    BY <1>5, <1>13, <2>1, <2>2
<1>14. tried[len] \in V
  BY <1>1, <1>12, <1>13, RunStays
<1>15. Ported(w, ic, tried[len])
  BY <1>2, <1>14
<1>16. /\ v.w = tried[len].w
       /\ v.at = IF tried[len].ok THEN tried[len].at ELSE start
  <2>1. tried[len] = [w |-> tried[len].w, ok |-> tried[len].ok, at |-> tried[len].at]
    BY <1>15 DEF Ported, TeleportResult
  <2> QED
    BY <1>4, <2>1
<1> QED
  BY <1>15, <1>16 DEF Ported, StayTop

-----------------------------------------------------------------------------
(***************************************************************************)
(* The bag, and Chip's arrival.                                            *)
(***************************************************************************)

LEMMA CellsFinite == IsFiniteSet(Cell)
<1>1. Width - 1 \in Int /\ Height - 1 \in Int
  BY WorldAssumption
<1>2. IsFiniteSet(0..(Width - 1)) /\ IsFiniteSet(0..(Height - 1))
  BY <1>1, FS_Interval
<1> QED
  BY <1>2, FS_Product DEF Cell

LEMMA OwedLess ==
  ASSUME NEW n \in 1..Len(Levels), NEW ic \in SUBSET Cell, NEW p
  PROVE  /\ Owed(n, ic) \in Nat
         /\ p \in ic => Owed(n, ic \ {p}) = IF Owed(n, ic) > 0 THEN Owed(n, ic) - 1 ELSE 0
         /\ p \notin ic => Owed(n, ic \ {p}) = Owed(n, ic)
<1> DEFINE l == Levels[n]
           k == Cardinality(ChipsOn(l.upper, l.lower))
           j == Cardinality(ic)
<1>1. l.chips \in Nat
  BY LevelParts
<1>2. ChipsOn(l.upper, l.lower) \in SUBSET Cell
  BY DEF ChipsOn
<1>3. k \in Nat
  BY <1>2, CellsFinite, FS_Subset, FS_CardinalityType
<1>4. IsFiniteSet(ic) /\ j \in Nat
  BY CellsFinite, FS_Subset, FS_CardinalityType
<1>5. p \in ic => Cardinality(ic \ {p}) = j - 1
  BY <1>4, FS_RemoveElement
<1>6. p \notin ic => ic \ {p} = ic
  OBVIOUS
<1>7. Owed(n, ic) = IF k - j < l.chips THEN l.chips - (k - j) ELSE 0
  BY DEF Owed
<1>8. p \in ic => Owed(n, ic \ {p}) = IF k - (j - 1) < l.chips THEN l.chips - (k - (j - 1)) ELSE 0
  BY <1>5 DEF Owed
<1> HIDE DEF k, j, l
<1>9. p \in ic => Owed(n, ic \ {p}) = IF Owed(n, ic) > 0 THEN Owed(n, ic) - 1 ELSE 0
  BY <1>1, <1>3, <1>4, <1>7, <1>8
<1>10. Owed(n, ic) \in Nat
  BY <1>1, <1>3, <1>4, <1>7
<1> QED
  BY <1>6, <1>9, <1>10

LEMMA BagsChips ==
  ASSUME NEW b \in Bag, NEW t
  PROVE  /\ ChipPays(b, t).chips = b.chips
         /\ t = ICChip => PickUp(b, t).chips = IF b.chips > 0 THEN b.chips - 1 ELSE 0
         /\ t # ICChip => PickUp(b, t).chips = b.chips
<1>1. b = [chips |-> b.chips, keys |-> b.keys, boots |-> b.boots]
  BY DEF Bag
<1>2. ChipPays(b, t).chips = b.chips
  BY <1>1 DEF ChipPays
<1>3. t = ICChip => PickUp(b, t).chips = IF b.chips > 0 THEN b.chips - 1 ELSE 0
  BY <1>1 DEF PickUp
<1>4. t # ICChip => PickUp(b, t).chips = b.chips
  BY <1>1 DEF PickUp
<1> QED
  BY <1>2, <1>3, <1>4

LEMMA LostStays ==
  ASSUME NEW g, NEW h, Onward(g, h), Lost(g)
  PROVE  Lost(h) /\ Well(h)
BY DEF Onward, Lost, Well, Dead, Alive

\* Chip has come to a.at, but does not show there yet.
Landing(a) ==
  \/ Lost(a.g)
  \/ \E ic : /\ Board(ShowChip(a.g.w, a.at), 0, NoCell, a.at, ic)
             /\ ic \subseteq Cell /\ a.g.bag.chips = Owed(a.g.w.level, ic)

\* He covers what is there.
LEMMA LandsCovering ==
  ASSUME NEW w, NEW p \in Cell, NEW ic, Board(w, 0, NoCell, NoCell, ic), ic \subseteq Cell,
         w.upper[p] \notin ChipTiles \cup Bearers \cup CloneBlocks \cup {Bomb},
         w.upper[p] # ICChip,
         NEW a, a.g.w = Push(w, p), a.g.bag.chips = Owed(w.level, ic), a.at = p
  PROVE  Landing(a)
<1> DEFINE v == Push(w, p)
           t == ChipTile(v.lower[p])
<1>1. t \in ChipTiles
  BY ChipTileIs
<1>2. ShowChip(a.g.w, a.at) = SetUpper(v, p, t)
  BY DEF ShowChip
<1> HIDE DEF t
<1>3. Board(SetUpper(v, p, t), 0, NoCell, p, ic)
  BY <1>1, ChipCovers
<1>4. v.level = w.level
  BY BoardParts, WorldParts, PushFollows DEF Follows
<1> HIDE DEF v
<1> QED
  BY <1>2, <1>3, <1>4 DEF Landing, v

LEMMA LandsTaking ==
  ASSUME NEW w, NEW p \in Cell, NEW ic, Board(w, 0, NoCell, NoCell, ic), ic \subseteq Cell,
         w.upper[p] \notin ChipTiles \cup Bearers \cup CloneBlocks \cup {Bomb},
         ~IsToggle(w.upper[p]),
         NEW a, a.g.w = w, a.at = p, a.g.bag.chips = Owed(w.level, ic \ {p})
  PROVE  Landing(a)
<1> DEFINE t == ChipTile(w.lower[p])
           jc == ic \ {p}
<1>1. t \in ChipTiles
  BY ChipTileIs
<1>2. ShowChip(a.g.w, a.at) = SetUpper(w, p, t)
  BY DEF ShowChip
<1> HIDE DEF t
<1>3. Board(SetUpper(w, p, t), 0, NoCell, p, jc)
  BY <1>1, ChipReplaces
<1>4. jc \subseteq Cell
  OBVIOUS
<1> HIDE DEF jc
<1> QED
  BY <1>2, <1>3, <1>4 DEF Landing, jc

LEMMA SlideChipAlike ==
  ASSUME NEW g \in GameType, NEW dst, NEW d, NEW rnd, NEW t, NEW was
  PROVE  /\ SlideChip(g, dst, d, rnd).w = g.w /\ SlideChip(g, dst, d, rnd).bag = g.bag
         /\ DropBoost(g, t, was).w = g.w /\ DropBoost(g, t, was).bag = g.bag
<1>1. g = [w |-> g.w, chip |-> g.chip, bag |-> g.bag, time |-> g.time,
           placard |-> g.placard, ending |-> g.ending]
  BY GameParts
<1>2. SlideChip(g, dst, d, rnd).w = g.w /\ SlideChip(g, dst, d, rnd).bag = g.bag
  BY <1>1 DEF SlideChip
<1>3. DropBoost(g, t, was).w = g.w /\ DropBoost(g, t, was).bag = g.bag
  BY <1>1 DEF DropBoost
<1> QED
  BY <1>2, <1>3

LEMMA EnterTrapSame ==
  ASSUME NEW w \in WorldType, NEW p, NEW src
  PROVE  SameBoard(w, EnterTrap(w, p, src)) /\ EnterTrap(w, p, src) \in WorldType
<1>1. EnterTrap(w, p, src) \in WorldType
  BY EnterTrapFollows DEF Follows
<1>2. SameBoard(w, EnterTrap(w, p, src))
  BY DEF EnterTrap, SetTraps, SameBoard, WorldType
<1> QED
  BY <1>1, <1>2

LEMMA CoveringIs ==
  ASSUME NEW g \in GameType, NEW p \in Cell
  PROVE  Covering(g, p).w = Push(g.w, p) /\ Covering(g, p).bag = g.bag
BY GameParts DEF Covering

LEMMA ArriveFromWell ==
  ASSUME LevelsWellFormed, NEW g \in GameType, NEW ic, Plays(g, NoCell, ic),
         NEW src, NEW was, NEW dst \in Cell, NEW act, Finds(g.w, dst, act),
         NEW d \in Dir, NEW rnd \in Floors,
         NEW a, a = ArriveFrom(g, src, was, dst, act, d, rnd)
  PROVE  Landing(a)
<1> DEFINE t == g.w.upper[dst]
           n == g.w.level
<1>1. /\ Board(g.w, 0, NoCell, NoCell, ic) /\ ic \subseteq Cell /\ g.bag.chips = Owed(n, ic)
      /\ g.w \in WorldType /\ n \in 1..Len(Levels) /\ g.bag \in Bag
  BY GameParts DEF Plays
<1>2. /\ t \notin ChipTiles \cup Bearers \cup CloneBlocks \cup {Bomb}
      /\ t = ICChip => act = 1
      /\ act = 1 => t \in Keys \cup Boots \cup {ICChip}
      /\ IsToggle(t) => act = 4
      /\ act = 7 => t = Teleport
      /\ act \in {0, 1, 3, 4, 5, 6, 7}
  BY DEF Finds
<1>3. rnd[2] \in Dir
  BY DEF Floors
<1>4. dst \in ic <=> t = ICChip
  <2>1. dst # NoCell
    BY NoCellIsNone
  <2>2. g.w.lower[dst] # ICChip
    BY <1>1, <1>2 DEF Board, Cells, GoodCell
  <2> QED
    BY <1>1, <2>2 DEF Board, Cells, GoodCell
<1>5. ic \in SUBSET Cell
  BY <1>1
<1>6. CASE act = 1
  <2>1. a = [g |-> Take(g, t), at |-> dst]
    BY <1>6 DEF ArriveFrom
  <2>2. Take(g, t).w = g.w /\ Take(g, t).bag = PickUp(g.bag, t)
    BY GameParts DEF Take
  <2>3. a.g.w = g.w /\ a.at = dst /\ a.g.bag = PickUp(g.bag, t)
    BY <2>1, <2>2
  <2>4. PickUp(g.bag, t).chips = Owed(n, ic \ {dst})
    <3>1. CASE t = ICChip
      BY <1>1, <1>4, <1>5, <3>1, BagsChips, OwedLess
    <3>2. CASE t # ICChip
      BY <1>1, <1>4, <1>5, <3>2, BagsChips, OwedLess
    <3> QED
      BY <3>1, <3>2
  <2>5. act # 4
    BY <1>6
  <2>6. ~IsToggle(t)
    BY <1>2, <2>5
  <2> HIDE DEF t
  <2> QED
    BY <1>1, <1>2, <2>3, <2>4, <2>6, LandsTaking DEF t
<1>7. CASE act = 4
  <2>1. a = [g |-> Covering(g, dst), at |-> dst]
    BY <1>7 DEF ArriveFrom
  <2>2. a.g.w = Push(g.w, dst) /\ a.g.bag = g.bag /\ a.at = dst
    BY <2>1, CoveringIs
  <2>3. t # ICChip
    BY <1>2, <1>7
  <2> QED
    BY <1>1, <1>2, <2>2, <2>3, LandsCovering
<1>8. CASE act = 5
  <2> DEFINE g1 == SlideChip(g, dst, d, rnd[2])
             g2 == DropBoost(g1, t, was)
  <2>1. a = [g |-> Covering(g2, dst), at |-> dst]
    BY <1>8 DEF ArriveFrom
  <2>2. g1.w = g.w /\ g1.bag = g.bag /\ g1 \in GameType
    BY <1>3, SlideChipAlike, SlideChipOnward DEF Onward
  <2> HIDE DEF g1, t
  <2>3. g2.w = g.w /\ g2.bag = g.bag /\ g2 \in GameType
    BY <2>2, SlideChipAlike, DropBoostOnward DEF Onward
  <2> HIDE DEF g2
  <2>4. a.g.w = Push(g.w, dst) /\ a.g.bag = g.bag /\ a.at = dst
    BY <2>1, <2>3, CoveringIs
  <2>5. t # ICChip
    BY <1>2, <1>8
  <2> QED
    BY <1>1, <1>2, <2>4, <2>5, LandsCovering DEF t
<1>9. CASE act = 6
  <2> DEFINE v == EnterTrap(g.w, dst, src)
             g1 == [g EXCEPT !.w = v]
  <2>1. a = [g |-> Covering(g1, dst), at |-> dst]
    BY <1>9 DEF ArriveFrom
  <2>2. SameBoard(g.w, v) /\ v \in WorldType /\ Follows(g.w, v)
    BY <1>1, EnterTrapSame, EnterTrapFollows
  <2> HIDE DEF v
  <2>3. g1 \in GameType /\ g1.w = v /\ g1.bag = g.bag
    BY <2>2, FollowsChange DEF Onward
  <2> HIDE DEF g1
  <2>4. a.g.w = Push(v, dst) /\ a.g.bag = g.bag /\ a.at = dst
    BY <2>1, <2>3, CoveringIs
  <2>5. Board(v, 0, NoCell, NoCell, ic)
    BY <1>1, <2>2, BoardAlike
  <2>6. v.upper[dst] = t /\ v.level = n
    BY <2>2 DEF SameBoard
  <2>7. t # ICChip
    BY <1>2, <1>9
  <2> HIDE DEF t
  <2> QED
    BY <1>1, <1>2, <2>4, <2>5, <2>6, <2>7, LandsCovering
<1>10. CASE act = 7
  <2> DEFINE r == ChipTeleport(g.w, g.bag, dst, d, rnd)
             g1 == [g EXCEPT !.w = r.w]
             g2 == SlideChip(g1, r.at, d, rnd[2])
  <2>1. a = [g |-> Covering(g2, r.at), at |-> r.at]
    BY <1>10 DEF ArriveFrom, TeleportChip
  <2>2. Follows(g.w, r.w) /\ r.at \in Cell
    BY <1>1, ChipTeleportType DEF TeleportResult
  <2>3. Alive(r.w) => Board(r.w, 0, NoCell, NoCell, ic) /\ r.w.upper[r.at] = Teleport
    BY <1>1, <1>2, <1>10, ChipTeleportWell
  <2> HIDE DEF r
  <2>4. g1 \in GameType /\ g1.w = r.w /\ g1.bag = g.bag
    BY <2>2, FollowsChange DEF Onward
  <2> HIDE DEF g1
  <2>5. g2.w = r.w /\ g2.bag = g.bag /\ g2 \in GameType
    BY <1>3, <2>4, SlideChipAlike, SlideChipOnward DEF Onward
  <2> HIDE DEF g2
  <2>6. a.g.w = Push(r.w, r.at) /\ a.g.bag = g.bag /\ a.at = r.at
    BY <2>1, <2>2, <2>5, CoveringIs
  <2>7. CASE Alive(r.w)
    <3>1. /\ Teleport \notin ChipTiles \cup Bearers \cup CloneBlocks \cup {Bomb}
          /\ Teleport # ICChip
      BY TileFacts, TilesApart
    <3>2. r.w.level = n
      BY <2>2 DEF Follows
    <3> QED
      BY <1>1, <2>2, <2>3, <2>6, <2>7, <3>1, <3>2, LandsCovering
  <2>8. CASE ~Alive(r.w)
    <3>1. r.w \in WorldType
      BY <2>2 DEF Follows
    <3>2. ~Alive(Push(r.w, r.at))
      BY <2>2, <2>8, <3>1, PushFollows DEF Follows, Alive
    <3> QED
      BY <2>6, <3>2 DEF Landing, Lost
  <2> QED
    BY <2>7, <2>8
<1>11. CASE act \in {0, 3}
  <2>1. a = [g |-> g, at |-> dst]
    BY <1>11 DEF ArriveFrom
  <2>2. act # 1 /\ act # 4
    BY <1>11
  <2>3. t # ICChip /\ ~IsToggle(t)
    BY <1>2, <2>2
  <2>4. Owed(n, ic \ {dst}) = Owed(n, ic)
    BY <1>1, <1>4, <1>5, <2>3, OwedLess
  <2>5. a.g.w = g.w /\ a.at = dst /\ a.g.bag.chips = Owed(n, ic \ {dst})
    BY <1>1, <2>1, <2>4
  <2> HIDE DEF t
  <2> QED
    BY <1>1, <1>2, <2>3, <2>5, LandsTaking DEF t
<1> QED
  BY <1>2, <1>6, <1>7, <1>8, <1>9, <1>10, <1>11

LEMMA ArriveWell ==
  ASSUME LevelsWellFormed, NEW g \in GameType, Well(g), NEW dst \in Cell, NEW act,
         Lost(g) \/ Finds(g.w, dst, act), NEW d \in Dir, NEW rnd \in Floors,
         NEW a, a = Arrive(g, dst, act, d, rnd)
  PROVE  Landing(a)
<1>1. CASE Lost(g)
  <2>1. Onward(g, a.g)
    BY ArriveOnward
  <2> QED
    BY <1>1, <2>1, LostStays DEF Landing
<1>2. CASE ~Lost(g)
  <2> DEFINE p == g.chip.pos
             v == Pop(g.w, p)
             g1 == [g EXCEPT !.w = v]
             was == IF g.chip.sliding THEN Under(g) ELSE 255
  <2>1. a = ArriveFrom(g1, p, was, dst, act, d, rnd)
    BY DEF Arrive
  <2>2. PICK ic : Plays(g, p, ic)
    BY <1>2 DEF Well
  <2>3. p \in Cell /\ g.w \in WorldType
    BY GameParts
  <2>4. Board(v, 0, NoCell, NoCell, ic)
    BY <2>2, <2>3, ChipLifted DEF Plays
  <2>5. Follows(g.w, v)
    BY <2>3, PopFollows
  <2>6. g.w.upper[p] \in ChipTiles
    BY <2>2, <2>3, ChipIsThere DEF Plays
  <2>7. dst # p /\ Finds(g.w, dst, act)
    BY <1>2, <2>6 DEF Finds
  <2>8. v.upper[dst] = g.w.upper[dst]
    BY <2>3, <2>7 DEF Pop, SetUpper, SetLower, WorldType
  <2> HIDE DEF v, was, p
  <2>9. g1 \in GameType /\ g1.w = v /\ g1.bag = g.bag
    BY <2>5, FollowsChange DEF Onward
  <2> HIDE DEF g1
  <2>10. Plays(g1, NoCell, ic)
    BY <2>2, <2>4, <2>5, <2>9 DEF Plays, Follows
  <2>11. Finds(g1.w, dst, act)
    BY <2>7, <2>8, <2>9 DEF Finds
  <2> QED
    BY <2>1, <2>9, <2>10, <2>11, ArriveFromWell
<1> QED
  BY <1>1, <1>2

-----------------------------------------------------------------------------
(***************************************************************************)
(* A level is read.                                                        *)
(***************************************************************************)

\* InitBoard has gone through the first k cells of the level's list.
ListedUpTo(w, n, k) ==
  LET cells == Levels[n].monsters
  IN  /\ w \in WorldType /\ w.level = n
      /\ w.upper = Levels[n].upper /\ w.lower = Levels[n].lower
      /\ w.slips = <<>> /\ Alive(w) /\ Len(w.monsters) <= k
      /\ \A i \in 1..Len(w.monsters) :
           /\ ~w.monsters[i].slipping
           /\ w.upper[w.monsters[i].pos] \in Monsters
           /\ w.monsters[i].tile = w.upper[w.monsters[i].pos]
           /\ \E j \in 1..k : cells[j] = w.monsters[i].pos
      /\ \A i, j \in 1..Len(w.monsters) : w.monsters[i].pos = w.monsters[j].pos => i = j
      /\ \A j \in 1..k : w.upper[cells[j]] \in Monsters =>
           \/ w.lower[cells[j]] = CloneMachine
           \/ \E i \in 1..Len(w.monsters) : w.monsters[i].pos = cells[j]

LEMMA ArrivedSame ==
  ASSUME NEW w \in WorldType, NEW p, w.lower[p] \notin ChipTiles
  PROVE  SameBoard(w, Arrived(w, p)) /\ Arrived(w, p).autopsy = w.autopsy
<1>1. CASE w.lower[p] = Trap
  <2>1. Arrived(w, p) = EnterTrap(w, p, NoCell)
    BY <1>1 DEF Arrived
  <2>2. EnterTrap(w, p, NoCell).autopsy = w.autopsy
    BY DEF EnterTrap, SetTraps, WorldType
  <2> QED
    BY <2>1, <2>2, EnterTrapSame
<1>2. CASE w.lower[p] # Trap
  BY <1>2 DEF Arrived, SameBoard
<1> QED
  BY <1>1, <1>2

\* v is w with entry e at the end of its monster list.
Gains(w, v, e) ==
  /\ v \in WorldType /\ v.level = w.level /\ v.autopsy = w.autopsy
  /\ v.upper = w.upper /\ v.lower = w.lower /\ v.slips = w.slips
  /\ v.monsters = Append(w.monsters, e)

LEMMA PlacedWhereItStands ==
  ASSUME NEW w \in WorldType, NEW p \in Cell, w.lower[p] \notin ChipTiles, NEW d \in Dir,
         NEW e, e = [tile |-> w.upper[p], pos |-> p, dir |-> d, slipping |-> FALSE]
  PROVE  Gains(w, PlaceMonster(w, w.upper[p], p, d), e)
<1> DEFINE t == w.upper[p]
           entry == [tile |-> t, pos |-> p, dir |-> d, slipping |-> FALSE]
           u == [w EXCEPT !.monsters = Append(w.monsters, entry)]
           s == SetUpper(u, p, t)
           v == PlaceMonster(w, t, p, d)
<1>1. v = Arrived(s, p)
  BY DEF PlaceMonster
<1>2. t \in Tile /\ w.monsters \in Seq(Monster) /\ w.upper \in [Cell -> Tile]
  BY WorldParts
<1>3. entry \in Monster
  BY <1>2 DEF Monster
<1>4. Append(w.monsters, entry) \in Seq(Monster)
  BY <1>2, <1>3
<1>5. u \in WorldType
  BY <1>4 DEF WorldType
<1>6. [w.upper EXCEPT ![p] = t] = w.upper
  BY <1>2
<1>7. /\ s.upper = w.upper /\ s.lower = w.lower /\ s.level = w.level /\ s.slips = w.slips
      /\ s.autopsy = w.autopsy /\ s.monsters = Append(w.monsters, entry)
  BY <1>6 DEF SetUpper, WorldType
<1>8. s \in WorldType
  BY <1>2, <1>5, SetUpperFollows DEF Follows
<1> HIDE DEF s
<1>9. SameBoard(s, v) /\ v.autopsy = s.autopsy
  BY <1>1, <1>7, <1>8, ArrivedSame
<1>10. v \in WorldType
  BY <1>2, PlaceMonsterFollows DEF Follows
<1> QED
  BY <1>7, <1>9, <1>10 DEF SameBoard, Gains

LEMMA ListsOneMore ==
  ASSUME LevelsWellFormed, NEW n \in 1..Len(Levels), NEW k \in Nat,
         k < Len(Levels[n].monsters), NEW w, ListedUpTo(w, n, k)
  PROVE  ListedUpTo(ListMonster(w, Levels[n].monsters[k + 1]), n, k + 1)
<1> DEFINE cells == Levels[n].monsters
           p == cells[k + 1]
           t == w.upper[p]
           v == ListMonster(w, p)
<1>1. /\ w \in WorldType /\ w.level = n
      /\ w.upper = Levels[n].upper /\ w.lower = Levels[n].lower
      /\ w.slips = <<>> /\ Alive(w) /\ Len(w.monsters) <= k
  BY DEF ListedUpTo
<1>2. /\ cells \in Seq(Cell) /\ k + 1 \in 1..Len(cells) /\ p \in Cell /\ t \in Tile
      /\ Len(w.monsters) \in Nat
  BY <1>1, LevelParts, WorldParts
<1>3. Len(w.monsters) < MonsterLimit
  <2>1. Len(cells) <= MonsterLimit /\ MonsterLimit \in Nat /\ Len(cells) \in Nat
    BY <1>2, WorldAssumption DEF LevelsWellFormed, WellFormed, ListsItsMonsters
  <2> QED
    BY <1>1, <1>2, <2>1
<1>4. CASE t \notin Monsters \/ w.lower[p] = CloneMachine
  <2>1. v = w
    BY <1>4 DEF ListMonster, NewMonster
  <2>2. \A j \in 1..(k + 1) : j \in 1..k \/ j = k + 1
    OBVIOUS
  <2>3. \A j \in 1..k : j \in 1..(k + 1)
    OBVIOUS
  <2>4. \A j \in 1..(k + 1) : w.upper[cells[j]] \in Monsters =>
           \/ w.lower[cells[j]] = CloneMachine
           \/ \E i \in 1..Len(w.monsters) : w.monsters[i].pos = cells[j]
    BY <1>4, <2>2 DEF ListedUpTo
  <2>5. \A i \in 1..Len(w.monsters) :
           /\ ~w.monsters[i].slipping
           /\ w.upper[w.monsters[i].pos] \in Monsters
           /\ w.monsters[i].tile = w.upper[w.monsters[i].pos]
           /\ \E j \in 1..(k + 1) : cells[j] = w.monsters[i].pos
    BY <2>3 DEF ListedUpTo
  <2>6. \A i, j \in 1..Len(w.monsters) : w.monsters[i].pos = w.monsters[j].pos => i = j
    BY DEF ListedUpTo
  <2>7. Len(w.monsters) <= k + 1
    BY <1>1, <1>2
  <2> HIDE DEF v, p, t
  <2>8. ListedUpTo(w, n, k + 1)
    BY <1>1, <2>4, <2>5, <2>6, <2>7 DEF ListedUpTo
  <2> QED
    BY <2>1, <2>8 DEF v, p
<1>5. CASE t \in Monsters /\ w.lower[p] # CloneMachine
  <2> DEFINE d == TileDir(t)
             entry == [tile |-> t, pos |-> p, dir |-> d, slipping |-> FALSE]
             len == Len(w.monsters)
  <2>1. v = PlaceMonster(w, t, p, d)
    <3>1. ~(len >= MonsterLimit)
      BY <1>2, <1>3, WorldAssumption
    <3> QED
      BY <1>5, <3>1 DEF ListMonster, NewMonster
  <2>2. d \in Dir
    BY <1>2, TileDirType
  <2>3. w.lower[p] \notin ChipTiles
    BY <1>1, <1>2, LevelParts DEF LevelOK
  <2> HIDE DEF v, d
  <2>20. Gains(w, v, entry)
    BY <1>1, <1>2, <2>1, <2>2, <2>3, PlacedWhereItStands
  <2>4. /\ v \in WorldType /\ v.level = w.level /\ v.autopsy = w.autopsy
        /\ v.upper = w.upper /\ v.lower = w.lower /\ v.slips = w.slips
        /\ v.monsters = Append(w.monsters, entry)
    BY <2>20 DEF Gains
  <2>5. w.monsters \in Seq(Monster)
    BY <1>1, WorldParts
  <2>6. /\ Len(v.monsters) = len + 1
        /\ v.monsters[len + 1] = entry
        /\ \A i \in 1..len : v.monsters[i] = w.monsters[i]
    BY <2>4, <2>5
  <2>7. entry.pos = p /\ entry.tile = t /\ ~entry.slipping
    OBVIOUS
  <2> HIDE DEF entry
  <2>8. \A i \in 1..(len + 1) : i \in 1..len \/ i = len + 1
    BY <1>2
  <2>9. \A j \in 1..(k + 1) : j \in 1..k \/ j = k + 1
    OBVIOUS
  <2>10. \A i \in 1..len : w.monsters[i].pos # p
    <3>1. SUFFICES ASSUME NEW i \in 1..len, w.monsters[i].pos = p PROVE FALSE
      OBVIOUS
    <3>2. PICK j \in 1..k : cells[j] = p
      BY <3>1 DEF ListedUpTo
    <3>3. j \in 1..Len(cells) /\ j # k + 1
      BY <1>2
    <3> QED
      BY <1>2, <3>2, <3>3 DEF LevelsWellFormed, WellFormed, ListsItsMonsters
  <2>11. \A i \in 1..len : /\ ~w.monsters[i].slipping
                           /\ w.upper[w.monsters[i].pos] \in Monsters
                           /\ w.monsters[i].tile = w.upper[w.monsters[i].pos]
                           /\ \E j \in 1..k : cells[j] = w.monsters[i].pos
    BY DEF ListedUpTo
  <2>12. \A j \in 1..k : j \in 1..(k + 1)
    OBVIOUS
  <2>13. \A i \in 1..(len + 1) :
           /\ ~v.monsters[i].slipping
           /\ v.upper[v.monsters[i].pos] \in Monsters
           /\ v.monsters[i].tile = v.upper[v.monsters[i].pos]
           /\ \E j \in 1..(k + 1) : cells[j] = v.monsters[i].pos
    <3>1. ASSUME NEW i \in 1..len
          PROVE  /\ ~v.monsters[i].slipping
                 /\ v.upper[v.monsters[i].pos] \in Monsters
                 /\ v.monsters[i].tile = v.upper[v.monsters[i].pos]
                 /\ \E j \in 1..(k + 1) : cells[j] = v.monsters[i].pos
      BY <2>4, <2>6, <2>11, <2>12
    <3>2. /\ ~v.monsters[len + 1].slipping
          /\ v.upper[v.monsters[len + 1].pos] \in Monsters
          /\ v.monsters[len + 1].tile = v.upper[v.monsters[len + 1].pos]
      BY <1>5, <2>4, <2>6, <2>7
    <3>3. cells[k + 1] = v.monsters[len + 1].pos /\ k + 1 \in 1..(k + 1)
      BY <2>6, <2>7
    <3> QED
      BY <2>8, <3>1, <3>2, <3>3
  <2>14. \A i, j \in 1..len : w.monsters[i].pos = w.monsters[j].pos => i = j
    BY DEF ListedUpTo
  <2>15. \A i, j \in 1..(len + 1) : v.monsters[i].pos = v.monsters[j].pos => i = j
    <3>1. SUFFICES ASSUME NEW i \in 1..(len + 1), NEW j \in 1..(len + 1),
                          v.monsters[i].pos = v.monsters[j].pos
                   PROVE  i = j
      OBVIOUS
    <3>2. v.monsters[len + 1].pos = p
      BY <2>6, <2>7
    <3>3. CASE i \in 1..len /\ j \in 1..len
      BY <2>6, <2>14, <3>1, <3>3
    <3>4. CASE i = len + 1 /\ j = len + 1
      BY <3>4
    <3>5. CASE i \in 1..len /\ j = len + 1
      BY <2>6, <2>10, <3>1, <3>2, <3>5
    <3>6. CASE i = len + 1 /\ j \in 1..len
      BY <2>6, <2>10, <3>1, <3>2, <3>6
    <3> QED
      BY <2>8, <3>3, <3>4, <3>5, <3>6
  <2>16. \A j \in 1..(k + 1) : v.upper[cells[j]] \in Monsters =>
           \/ v.lower[cells[j]] = CloneMachine
           \/ \E i \in 1..(len + 1) : v.monsters[i].pos = cells[j]
    <3>1. ASSUME NEW j \in 1..k, v.upper[cells[j]] \in Monsters
          PROVE  \/ v.lower[cells[j]] = CloneMachine
                 \/ \E i \in 1..(len + 1) : v.monsters[i].pos = cells[j]
      <4>1. \/ w.lower[cells[j]] = CloneMachine
            \/ \E i \in 1..len : w.monsters[i].pos = cells[j]
        BY <2>4, <3>1 DEF ListedUpTo
      <4>2. \A i \in 1..len : i \in 1..(len + 1)
        BY <1>2
      <4> QED
        BY <2>4, <2>6, <4>1, <4>2
    <3>2. len + 1 \in 1..(len + 1) /\ v.monsters[len + 1].pos = cells[k + 1]
      BY <1>2, <2>6, <2>7
    <3> QED
      BY <2>9, <3>1, <3>2
  <2>17. len + 1 <= k + 1
    BY <1>1, <1>2
  <2>18. Alive(v)
    BY <1>1, <2>4 DEF Alive
  <2> HIDE DEF len, p, t
  <2>19. ListedUpTo(v, n, k + 1)
    BY <1>1, <2>4, <2>6, <2>13, <2>15, <2>16, <2>17, <2>18 DEF ListedUpTo
  <2> QED
    BY <2>19 DEF v, p
<1> QED
  BY <1>4, <1>5

\* InitBoard, as a run through the level's list.
LEMMA InitBoardRuns ==
  ASSUME NEW n \in 1..Len(Levels)
  PROVE  \E f : /\ f[0] = ReadBoard(n) /\ InitBoard(n) = f[Len(Levels[n].monsters)]
                /\ \A k \in 1..Len(Levels[n].monsters) :
                     f[k] = ListMonster(f[k - 1], Levels[n].monsters[k])
<1> DEFINE V == {w \in WorldType : w.level = n}
           cells == Levels[n].monsters
           len == Len(cells)
           base == ReadBoard(n)
           step == [k \in 1..len |-> [w \in V |-> ListMonster(w, cells[k])]]
           listed == CHOOSE f : f = [k \in 0..len |-> IF k = 0 THEN base
                                                    ELSE ListMonster(f[k - 1], cells[k])]
<1>1. len \in Nat /\ \A k \in 1..len : cells[k] \in Cell
  BY LevelParts
<1>2. base \in V
  BY ReadBoardType
<1>3. \A w \in V, k \in 1..len : ListMonster(w, cells[k]) \in V
  BY <1>1, ListMonsterFollows DEF Follows
<1>4. InitBoard(n) = listed[len]
  BY DEF InitBoard, Looped
<1> HIDE DEF V, cells, len, base
<1>5. step \in Steps(V, len)
  BY <1>3 DEF Steps
<1>6. \A w \in V, k \in 1..len : step[k][w] = ListMonster(w, cells[k])
  OBVIOUS
<1> HIDE DEF step
<1>7. PICK f : IsRun(f, V, len, base, step)
  BY <1>1, <1>2, <1>5, RunExists
<1>8. f = [k \in 0..len |-> IF k = 0 THEN base ELSE ListMonster(f[k - 1], cells[k])]
  <2>1. \A k \in 1..len : f[k - 1] \in V
    BY <1>1, <1>7 DEF IsRun
  <2> QED
    BY <1>1, <1>6, <1>7, <2>1 DEF IsRun
<1>9. listed = [k \in 0..len |-> IF k = 0 THEN base ELSE ListMonster(listed[k - 1], cells[k])]
  BY <1>8
<1> HIDE DEF listed
<1>10. listed[0] = base /\ \A k \in 1..len : listed[k] = ListMonster(listed[k - 1], cells[k])
  BY <1>1, <1>9
<1> QED
  BY <1>4, <1>10 DEF base, len, cells

LEMMA ReadsAll ==
  ASSUME LevelsWellFormed, NEW n \in 1..Len(Levels)
  PROVE  ListedUpTo(InitBoard(n), n, Len(Levels[n].monsters))
<1> DEFINE cells == Levels[n].monsters
           len == Len(cells)
<1>1. PICK f : /\ f[0] = ReadBoard(n) /\ InitBoard(n) = f[len]
               /\ \A k \in 1..len : f[k] = ListMonster(f[k - 1], cells[k])
  BY InitBoardRuns
<1>2. len \in Nat
  BY LevelParts
<1>3. ListedUpTo(f[0], n, 0)
  <2>1. f[0] \in WorldType
    BY <1>1, ReadBoardType
  <2>2. /\ f[0].level = n /\ f[0].upper = Levels[n].upper /\ f[0].lower = Levels[n].lower
        /\ f[0].slips = <<>> /\ f[0].monsters = <<>> /\ f[0].autopsy = "NotDeadYet"
    BY <1>1 DEF ReadBoard
  <2>3. Len(f[0].monsters) = 0
    BY <2>2
  <2> QED
    BY <2>1, <2>2, <2>3 DEF ListedUpTo, Alive
<1> DEFINE S == {k \in Nat : k <= len => ListedUpTo(f[k], n, k)}
<1>4. 0 \in S
  BY <1>3
<1>5. \A k \in Nat : k \in S => k + 1 \in S
  <2>1. SUFFICES ASSUME NEW k \in Nat, k \in S, k + 1 <= len
                 PROVE  ListedUpTo(f[k + 1], n, k + 1)
    OBVIOUS
  <2>2. k < len /\ k + 1 \in 1..len /\ (k + 1) - 1 = k
    BY <1>2, <2>1
  <2>3. ListedUpTo(f[k], n, k)
    BY <1>2, <2>1, <2>2
  <2>4. f[k + 1] = ListMonster(f[k], cells[k + 1])
    BY <1>1, <2>2
  <2> QED
    BY <2>2, <2>3, <2>4, ListsOneMore
<1> HIDE DEF S
<1>6. len \in S
  BY <1>2, <1>4, <1>5, NatInd
<1> QED
  BY <1>1, <1>2, <1>6 DEF S

\* A level that has been read is sound.
LEMMA InitBoardWell ==
  ASSUME LevelsWellFormed, NEW n \in 1..Len(Levels)
  PROVE  Board(InitBoard(n), 0, NoCell, Levels[n].chip,
               ChipsOn(Levels[n].upper, Levels[n].lower))
<1> DEFINE l == Levels[n]
           w == InitBoard(n)
           ic == ChipsOn(l.upper, l.lower)
           cells == l.monsters
           len == Len(cells)
<1>0. ListedUpTo(w, n, len)
  BY ReadsAll
<1> HIDE DEF w
<1>1. /\ w \in WorldType /\ w.level = n /\ w.upper = l.upper /\ w.lower = l.lower
      /\ w.slips = <<>>
  BY <1>0 DEF ListedUpTo
<1>2. LevelOK(l) /\ WellFormed(l)
  BY LevelParts DEF LevelsWellFormed
<1>3. ASSUME NEW x \in Cell PROVE GoodCell(n, l.upper[x], l.lower[x], x, l.chip, FALSE, ic)
  <2> DEFINE u == l.upper[x]
             t == l.lower[x]
  <2>1. u \in ChipTiles <=> x = l.chip
    BY <1>2 DEF LevelOK
  <2>2. t \notin ChipTiles \cup Bearers
    BY <1>2 DEF LevelOK, WellFormed, HidesNothing, Bearers
  <2>3. (t = Bomb => u \in Bearers) /\ (t = ICChip => u \in Bearers \cup ChipTiles)
    BY <1>2 DEF WellFormed, HidesNothing
  <2>4. (u = ICChip \/ t = ICChip) <=> x \in ic
    BY DEF ChipsOn
  <2>5. \A s \in {TankButton, Teleport} : u = s \/ t = s => Has(Levels[n], x, s)
    BY DEF Has
  <2>6. x \in Machines(n) => /\ t = CloneMachine
                             /\ u \in Monsters \/ (u \in CloneBlocks /\ u = l.upper[x])
    BY <1>2 DEF Machines, LevelOK
  <2>7. x \in ToggleCells[n] =>
          u = Shown(n, x, FALSE) \/ (u \in Bearers \cup ChipTiles /\ t = Shown(n, x, FALSE))
    <3>1. SUFFICES ASSUME x \in ToggleCells[n]
                   PROVE  u = Shown(n, x, FALSE) \/ (u \in Bearers /\ t = Shown(n, x, FALSE))
      OBVIOUS
    <3>2. Shown(n, x, FALSE) = InitialTile(n, x)
      BY DEF Shown
    <3> QED
      BY <3>2 DEF InitialTile, Bearers
  <2> HIDE DEF u, t, ic
  <2>8. GoodCell(n, u, t, x, l.chip, FALSE, ic)
    BY <2>1, <2>2, <2>3, <2>4, <2>5, <2>6, <2>7 DEF GoodCell
  <2> QED
    BY <2>8 DEF u, t
<1>4. Cells(w, l.chip, FALSE, ic)
  BY <1>1, <1>3 DEF Cells
<1>5. \A i : At(w, 0, NoCell, i) = IF i = 0 THEN NoCell ELSE w.monsters[i].pos
  BY DEF At
<1>6. \A i \in 1..Len(w.monsters) : At(w, 0, NoCell, i) = w.monsters[i].pos
  BY <1>5
<1>7. Listed(w, 0, NoCell)
  <2>1. \A i \in 1..Len(w.monsters) :
          /\ w.upper[w.monsters[i].pos] \in Monsters
          /\ w.monsters[i].tile = w.upper[w.monsters[i].pos]
    BY <1>0 DEF ListedUpTo
  <2>2. \A i, j \in 1..Len(w.monsters) : w.monsters[i].pos = w.monsters[j].pos => i = j
    BY <1>0 DEF ListedUpTo
  <2>3. \A x \in Cell : w.upper[x] \in Monsters =>
          w.lower[x] = CloneMachine \/ \E i \in 1..Len(w.monsters) : w.monsters[i].pos = x
    <3>1. SUFFICES ASSUME NEW x \in Cell, w.upper[x] \in Monsters, w.lower[x] # CloneMachine
                   PROVE  \E i \in 1..Len(w.monsters) : w.monsters[i].pos = x
      OBVIOUS
    <3>2. PICK j \in 1..len : cells[j] = x
      BY <1>1, <1>2, <3>1 DEF WellFormed, ListsItsMonsters
    <3> QED
      BY <1>0, <3>1, <3>2 DEF ListedUpTo
  <2>4. NoCell \notin Cell
    BY NoCellIsNone
  <2>5. \A i \in 1..Len(w.monsters) :
          /\ w.upper[At(w, 0, NoCell, i)] \in Monsters
          /\ Kind(w.upper[At(w, 0, NoCell, i)]) = Kind(w.monsters[i].tile)
    BY <1>6, <2>1
  <2>6. \A i, j \in 1..Len(w.monsters) : At(w, 0, NoCell, i) = At(w, 0, NoCell, j) => i = j
    BY <1>6, <2>2
  <2>7. \A x \in Cell : w.upper[x] \in Monsters =>
          w.lower[x] = CloneMachine \/ \E i \in 1..Len(w.monsters) : At(w, 0, NoCell, i) = x
    BY <1>6, <2>3
  <2> QED
    BY <2>4, <2>5, <2>6, <2>7 DEF Listed
<1>8. Slid(w, 0, NoCell)
  <2>1. Len(w.slips) = 0
    BY <1>1
  <2>2. \A i \in 1..Len(w.monsters) : ~w.monsters[i].slipping
    BY <1>0 DEF ListedUpTo
  <2> QED
    BY <2>1, <2>2 DEF Slid
<1>9. 0 \in 0..Len(w.monsters)
  BY <1>1, WorldParts
<1> HIDE DEF ic
<1>10. Board(w, 0, NoCell, l.chip, ic)
  BY <1>1, <1>4, <1>7, <1>8, <1>9 DEF Board, Roster
<1> QED
  BY <1>10 DEF w, ic

LEMMA LoadWell ==
  ASSUME LevelsWellFormed, NEW n \in 1..Len(Levels)
  PROVE  Well(LoadLevel(n))
<1> DEFINE l == Levels[n]
           ic == ChipsOn(l.upper, l.lower)
           g == LoadLevel(n)
<1>1. g.w = InitBoard(n) /\ g.chip.pos = l.chip /\ g.bag.chips = l.chips /\ g.w.level = n
  BY InitBoardType DEF LoadLevel
<1> HIDE DEF g
<1>2. Board(g.w, 0, NoCell, g.chip.pos, ic)
  BY <1>1, InitBoardWell
<1>3. ic \subseteq Cell
  BY DEF ChipsOn
<1>4. l.chips = Owed(n, ic)
  <2>1. Cardinality(ic) \in Nat
    BY <1>3, CellsFinite, FS_Subset, FS_CardinalityType
  <2>2. Owed(n, ic) = IF Cardinality(ic) - Cardinality(ic) < l.chips
                      THEN l.chips - (Cardinality(ic) - Cardinality(ic)) ELSE 0
    BY DEF Owed
  <2>3. l.chips \in Nat
    BY LevelParts
  <2> QED
    BY <2>1, <2>2, <2>3
<1> HIDE DEF ic
<1>5. Plays(g, g.chip.pos, ic)
  BY <1>1, <1>2, <1>3, <1>4 DEF Plays
<1> QED
  BY <1>5 DEF Well, g

-----------------------------------------------------------------------------
(***************************************************************************)
(* Chip's ways through MoveChip.                                           *)
(***************************************************************************)

LEMMA RestartWell ==
  ASSUME LevelsWellFormed, NEW g \in GameType
  PROVE  Well(Restart(g)) /\ Well(EndLevel(g))
<1>1. g.w.level \in 1..Len(Levels) /\ Len(Levels) \in Nat
  BY GameParts, WorldAssumption
<1>2. Well(Restart(g))
  BY <1>1, LoadWell DEF Restart
<1>3. CASE g.w.level < Len(Levels)
  <2>1. g.w.level + 1 \in 1..Len(Levels)
    BY <1>1, <1>3
  <2>2. Well(LoadLevel(g.w.level + 1))
    BY <2>1, LoadWell
  <2> QED
    BY <1>2, <1>3, <2>2 DEF EndLevel
<1>4. CASE ~(g.w.level < Len(Levels))
  <2>1. EndLevel(g).ending
    BY <1>4, GameParts DEF EndLevel
  <2> QED
    BY <1>2, <2>1 DEF Well, Lost
<1> QED
  BY <1>3, <1>4

\* The game goes on with Chip where he was and the same chips to find.
LEMMA WellKept ==
  ASSUME NEW g, Well(g), NEW h, Onward(g, h), h.chip.pos = g.chip.pos,
         h.bag.chips = g.bag.chips,
         ASSUME NEW ic, Board(g.w, 0, NoCell, g.chip.pos, ic), Alive(h.w)
         PROVE  Board(h.w, 0, NoCell, g.chip.pos, ic)
  PROVE  Well(h)
<1>1. CASE Lost(g)
  BY <1>1, LostStays
<1>2. CASE ~Lost(g) /\ Alive(h.w)
  <2>1. PICK ic : Plays(g, g.chip.pos, ic)
    BY <1>2 DEF Well
  <2>2. Board(h.w, 0, NoCell, h.chip.pos, ic)
    BY <1>2, <2>1 DEF Plays
  <2>3. Plays(h, h.chip.pos, ic)
    BY <2>1, <2>2 DEF Plays, Onward
  <2> QED
    BY <2>3 DEF Well
<1>3. CASE ~Alive(h.w)
  BY <1>3 DEF Well, Lost
<1> QED
  BY <1>1, <1>2, <1>3

\* A change of what waits for Chip, or of his slide.
LEMMA ChipWell ==
  ASSUME NEW g \in GameType, Well(g), NEW c \in ChipType, c.pos = g.chip.pos
  PROVE  Well([g EXCEPT !.chip = c]) /\ [g EXCEPT !.chip = c] \in GameType
<1> DEFINE h == [g EXCEPT !.chip = c]
<1>1. Onward(g, h) /\ h.w = g.w /\ h.chip = c /\ h.bag = g.bag
  BY ChipChange
<1> HIDE DEF h
<1>2. Well(h) /\ h \in GameType
  BY <1>1, WellKept DEF Onward
<1> QED
  BY <1>2 DEF h

\* A change of the world that keeps the board sound.
LEMMA WorldWell ==
  ASSUME NEW g \in GameType, Well(g), NEW v, v \in WorldType, v.level = g.w.level,
         g.w.autopsy # "NotDeadYet" => v.autopsy # "NotDeadYet",
         ASSUME NEW ic, Board(g.w, 0, NoCell, g.chip.pos, ic), Alive(v)
         PROVE  Board(v, 0, NoCell, g.chip.pos, ic)
  PROVE  Well([g EXCEPT !.w = v]) /\ [g EXCEPT !.w = v] \in GameType
<1> DEFINE h == [g EXCEPT !.w = v]
<1>1. Onward(g, h) /\ h.w = v /\ h.chip = g.chip /\ h.bag = g.bag
  BY WorldChange
<1> HIDE DEF h
<1>2. Well(h) /\ h \in GameType
  BY <1>1, WellKept DEF Onward
<1> QED
  BY <1>2 DEF h

LEMMA TurnedWell ==
  ASSUME NEW g \in GameType, Well(g)
  PROVE  LET v == SetUpper(g.w, g.chip.pos, ChipTile(Under(g)))
         IN  Well([g EXCEPT !.w = v]) /\ [g EXCEPT !.w = v] \in GameType
<1> DEFINE t == ChipTile(Under(g))
           v == SetUpper(g.w, g.chip.pos, t)
<1>1. t \in ChipTiles
  BY ChipTileIs
<1>2. Follows(g.w, v)
  BY GameParts, ShowChipFollows
<1> HIDE DEF t
<1>3. g.chip.pos \in Cell
  BY GameParts
<1>4. ASSUME NEW ic, Board(g.w, 0, NoCell, g.chip.pos, ic)
      PROVE  Board(v, 0, NoCell, g.chip.pos, ic)
  BY <1>1, <1>3, <1>4, ChipTurned
<1> HIDE DEF v
<1>5. Well([g EXCEPT !.w = v]) /\ [g EXCEPT !.w = v] \in GameType
  BY <1>2, <1>4, WorldWell DEF Follows
<1> QED
  BY <1>5 DEF v, t

LEMMA BlockedWell ==
  ASSUME NEW g \in GameType, Well(g)
  PROVE  Well(Blocked(g).g)
BY TurnedWell DEF Blocked

LEMMA AskedWell ==
  ASSUME NEW g \in GameType, Well(g), NEW dst \in Cell
  PROVE  Well(AskedAt(g, dst))
<1> DEFINE v == ChipOpens(g.w, dst)
           h == AskedAt(g, dst)
<1>1. Onward(g, h)
  BY AskedAtOnward
<1>2. h.w = v /\ h.chip = g.chip /\ h.bag = g.bag
  BY GameParts DEF AskedAt
<1>3. ASSUME NEW ic, Board(g.w, 0, NoCell, g.chip.pos, ic)
      PROVE  Board(v, 0, NoCell, g.chip.pos, ic)
  BY <1>3, OpensWell
<1> HIDE DEF v, h
<1>4. Well(h)
  BY <1>1, <1>2, <1>3, WellKept
<1> QED
  BY <1>4 DEF h

LEMMA PaidWell ==
  ASSUME NEW g \in GameType, Well(g), NEW t
  PROVE  Well(PaidFor(g, t))
<1> DEFINE h == PaidFor(g, t)
<1>1. Onward(g, h)
  BY PaidForOnward
<1>2. h.w = g.w /\ h.chip = g.chip /\ h.bag = ChipPays(g.bag, t)
  BY GameParts DEF PaidFor
<1>3. h.bag.chips = g.bag.chips
  BY <1>2, GameParts, BagsChips
<1> HIDE DEF h
<1>4. Well(h)
  BY <1>1, <1>2, <1>3, WellKept
<1> QED
  BY <1>4 DEF h

LEMMA FinishWell ==
  ASSUME LevelsWellFormed, NEW a, a.g \in GameType, a.at \in Cell, Landing(a), NEW act,
         NEW hit, NEW rnd \in Floors
  PROVE  Well(Finish(a, act, hit, rnd).g)
<1> DEFINE g == a.g
           p == a.at
           v1 == ShowChip(g.w, p)
           v2 == OwnButton(v1, p, act, rnd[2])
           v3 == PushedButton(v2, hit, rnd[2])
           on == g.chip.sliding /\ act \in {5, 7}
           c == [g.chip EXCEPT !.pos = p, !.sliding = on]
           h == [g EXCEPT !.w = v3, !.chip = c]
<1>1. Finish(a, act, hit, rnd).g = LeaveBy(h, p)
  BY GameParts DEF Finish
<1>2. Follows(g.w, v1) /\ v1 \in WorldType
  BY GameParts, ShowChipFollows, LaterWorld DEF ShowChip
<1>3. rnd[2] \in Dir
  BY DEF Floors
<1>4. Lost(g) \/ \E ic : /\ Board(v1, 0, NoCell, p, ic)
                         /\ ic \subseteq Cell /\ g.bag.chips = Owed(g.w.level, ic)
  BY DEF Landing
<1> HIDE DEF v1
<1>5. Follows(v1, v2) /\ v2 \in WorldType
  <2>1. Follows(v1, OwnButton(v1, p, act, rnd[2]))
    BY <1>2, <1>3, ButtonsFollow
  <2> QED
    BY <2>1, LaterWorld
<1>6. ASSUME NEW ic, Board(v1, 0, NoCell, p, ic), Alive(v2)
      PROVE  Board(v2, 0, NoCell, p, ic)
  BY <1>3, <1>6, PressButtonWell DEF OwnButton, Fine
<1> HIDE DEF v2
<1>7. Follows(v2, v3)
  BY <1>3, <1>5, ButtonsFollow
<1>8. ASSUME NEW ic, Board(v2, 0, NoCell, p, ic), Alive(v3)
      PROVE  Board(v3, 0, NoCell, p, ic)
  BY <1>3, <1>8, PressButtonWell DEF PushedButton, Fine
<1> HIDE DEF v3
<1>9. Follows(g.w, v3)
  <2>1. Follows(g.w, v2)
    BY <1>2, <1>5, FollowsTwice, GameParts
  <2> QED
    BY <2>1, <1>7, FollowsTwice, GameParts
<1>10. on \in BOOLEAN
  OBVIOUS
<1> HIDE DEF on
<1>11. c \in ChipType /\ c.pos = p
  <2>1. c \in ChipType
    BY <1>10, GameParts, ChipAtType
  <2> QED
    BY <2>1, ChipTyped DEF ChipType
<1> HIDE DEF c
<1>12. Onward(g, h) /\ h \in GameType /\ h.w = v3 /\ h.chip = c /\ h.bag = g.bag
  <2> DEFINE g1 == [g EXCEPT !.w = v3]
  <2>1. Onward(g, g1) /\ g1 \in GameType /\ g1.w = v3 /\ g1.bag = g.bag
    BY <1>9, FollowsChange DEF Onward
  <2>2. h = [g1 EXCEPT !.chip = c]
    BY GameParts
  <2> HIDE DEF g1, h
  <2>3. Onward(g1, h) /\ h.w = g1.w /\ h.chip = c /\ h.bag = g1.bag
    BY <1>11, <2>1, <2>2, ChipChange
  <2> QED
    BY <2>1, <2>3, OnwardTwice DEF Onward
<1> HIDE DEF h
<1>13. Well(h)
  <2>1. CASE Lost(g)
    BY <1>12, <2>1, LostStays
  <2>2. CASE ~Lost(g) /\ Alive(v3)
    <3>1. PICK ic : /\ Board(v1, 0, NoCell, p, ic)
                    /\ ic \subseteq Cell /\ g.bag.chips = Owed(g.w.level, ic)
      BY <1>4, <2>2
    <3>2. Alive(v2)
      BY <1>7, <2>2 DEF Follows, Alive
    <3>3. Board(v3, 0, NoCell, p, ic)
      BY <1>6, <1>8, <2>2, <3>1, <3>2
    <3>4. Plays(h, p, ic)
      BY <1>12, <3>1, <3>3 DEF Plays, Onward
    <3> QED
      BY <1>11, <1>12, <3>4 DEF Well
  <2>3. CASE ~Alive(v3)
    BY <1>12, <2>3 DEF Well, Lost
  <2> QED
    BY <2>1, <2>2, <2>3
<1> QED
  BY <1>1, <1>12, <1>13, RestartWell DEF LeaveBy

LEMMA EnterAsWell ==
  ASSUME LevelsWellFormed, NEW g \in GameType, Well(g), NEW dst \in Cell, NEW act,
         act = Refused \/ act = 2 \/ Lost(g) \/ Finds(ChipOpens(g.w, dst), dst, act),
         NEW d \in Dir, NEW hit, NEW rnd \in Floors
  PROVE  Well(EnterAs(g, dst, act, d, hit, rnd).g)
<1> DEFINE g1 == AskedAt(g, dst)
           g2 == PaidFor(g1, g.w.upper[dst])
           a == Arrive(g2, dst, act, d, rnd)
           f == Finish(a, act, hit, rnd).g
           b == Blocked(g1).g
<1>1. EnterAs(g, dst, act, d, hit, rnd).g =
        IF act = Refused THEN b ELSE IF act = 2 THEN Restart(g) ELSE f
  BY DEF EnterAs
<1>2. /\ Onward(g, g1) /\ g1 \in GameType /\ Well(g1)
      /\ g1.w = ChipOpens(g.w, dst)
  <2>1. Onward(g, g1) /\ g1 \in GameType
    BY AskedAtOnward
  <2>2. Well(g1)
    BY AskedWell
  <2>3. g1.w = ChipOpens(g.w, dst)
    BY GameParts DEF AskedAt
  <2> QED
    BY <2>1, <2>2, <2>3
<1> HIDE DEF g1
<1>3. Well(b)
  BY <1>2, BlockedWell
<1> HIDE DEF b
<1>4. Well(Restart(g))
  BY RestartWell
<1>5. Onward(g1, g2) /\ g2 \in GameType /\ Well(g2) /\ g2.w = g1.w
  BY <1>2, PaidForOnward, PaidWell, GameParts DEF PaidFor
<1> HIDE DEF g2
<1>6. Lost(g) => Lost(g2)
  BY <1>2, <1>5, LostStays
<1>7. a.at \in Cell /\ a.g \in GameType
  BY <1>5, ArriveOnward DEF Onward
<1>8. CASE act # Refused /\ act # 2
  <2>1. Lost(g2) \/ Finds(g2.w, dst, act)
    BY <1>2, <1>5, <1>6, <1>8
  <2>2. Landing(a)
    BY <1>5, <2>1, ArriveWell
  <2> HIDE DEF a
  <2>3. Well(f)
    BY <1>7, <2>2, FinishWell
  <2> QED
    BY <1>1, <1>8, <2>3
<1> HIDE DEF f, a
<1> QED
  BY <1>1, <1>3, <1>4, <1>8

\* No block is in Chip's way that he could push.
Clear(w, p) == w.upper[p] = Block => w.lower[p] = CloneMachine

Passed(r, p) == r.ok => Lost(r.g) \/ Clear(r.g.w, p)

LEMMA EnterWell ==
  ASSUME LevelsWellFormed, NEW g \in GameType, Well(g), NEW d \in Dir,
         NEW dst \in Cell, dst = Step(g.chip.pos, d),
         Lost(g) \/ Clear(g.w, dst),
         NEW hit, NEW rnd \in Floors
  PROVE  Well(Enter(g, d, hit, rnd).g)
<1>1. CASE EndlessLook(g.w, dst)
  <2> DEFINE v == Crash(g.w, "recursion")
  <2>1. Enter(g, d, hit, rnd).g = [g EXCEPT !.w = v]
    BY <1>1 DEF Enter
  <2>2. Follows(g.w, v)
    BY GameParts, CrashFollows DEF Fault
  <2>3. SameBoard(g.w, v)
    BY GameParts DEF Crash, SameBoard, WorldType
  <2> HIDE DEF v
  <2>4. ASSUME NEW ic, Board(g.w, 0, NoCell, g.chip.pos, ic)
        PROVE  Board(v, 0, NoCell, g.chip.pos, ic)
    BY <2>2, <2>3, <2>4, BoardAlike DEF Follows
  <2>5. Well([g EXCEPT !.w = v])
    BY <2>2, <2>4, WorldWell DEF Follows
  <2> QED
    BY <2>1, <2>5
<1>2. CASE ~EndlessLook(g.w, dst)
  <2> DEFINE act == ChipCanEnter(g.w, g.bag, dst, d)
             v == ChipOpens(g.w, dst)
  <2>1. Enter(g, d, hit, rnd).g = EnterAs(g, dst, act, d, hit, rnd).g
    BY <1>2 DEF Enter
  <2>2. act = Refused \/ act = 2 \/ Lost(g) \/ Finds(v, dst, act)
    <3>1. SUFFICES ASSUME act # Refused, act # 2, ~Lost(g) PROVE Finds(v, dst, act)
      OBVIOUS
    <3>2. g.w \in WorldType
      BY GameParts
    <3> HIDE DEF act, v
    <3>3. g.w.upper[dst] = Block => g.w.lower[dst] = CloneMachine
      BY <3>1 DEF Clear
    <3> QED
      BY <3>1, <3>2, <3>3, ChipFinds DEF act, v
  <2> HIDE DEF act
  <2>3. Well(EnterAs(g, dst, act, d, hit, rnd).g)
    BY <2>2, EnterAsWell
  <2> QED
    BY <2>1, <2>3
<1> QED
  BY <1>1, <1>2

LEMMA PushAsideWell ==
  ASSUME LevelsWellFormed, NEW g \in GameType, Well(g), NEW d \in Dir,
         NEW dst \in Cell, dst = Step(g.chip.pos, d), NEW rnd \in Floors,
         NEW r, r = PushAside(g, d, rnd)
  PROVE  Well(r.g) /\ Passed(r, dst)
<1> DEFINE push == PushBlock(g.w, dst, d, rnd)
           h == [g EXCEPT !.w = push.w]
<1>1. CASE g.w.upper[dst] = Block /\ ~SlidesAlong(g.w, dst, d)
  <2>1. r.g = h /\ (r.ok <=> push.ok)
    BY <1>1 DEF PushAside
  <2>2. Follows(g.w, push.w)
    BY GameParts, PushBlockType
  <2>3. ASSUME NEW ic, Board(g.w, 0, NoCell, g.chip.pos, ic), Alive(push.w)
        PROVE  /\ Board(push.w, 0, NoCell, g.chip.pos, ic)
               /\ push.ok => Clear(push.w, dst)
    BY <1>1, <2>3, PushBlockWell DEF Clear
  <2> HIDE DEF push
  <2>4. ASSUME NEW ic, Board(g.w, 0, NoCell, g.chip.pos, ic), Alive(push.w)
        PROVE  Board(push.w, 0, NoCell, g.chip.pos, ic)
    BY <2>3, <2>4
  <2>5. Well(h)
    BY <2>2, <2>4, WorldWell DEF Follows
  <2>6. Onward(g, h) /\ h.w = push.w /\ h.chip = g.chip
    BY <2>2, FollowsChange
  <2> HIDE DEF h
  <2>7. CASE Lost(g)
    BY <2>1, <2>5, <2>6, <2>7, LostStays DEF Passed
  <2>8. CASE ~Lost(g) /\ Alive(push.w)
    <3>1. PICK ic : Board(g.w, 0, NoCell, g.chip.pos, ic)
      BY <2>8 DEF Well, Plays
    <3> QED
      BY <2>1, <2>3, <2>5, <2>6, <2>8, <3>1 DEF Passed
  <2>9. CASE ~Alive(push.w)
    BY <2>1, <2>5, <2>6, <2>9 DEF Lost, Passed
  <2> QED
    BY <2>7, <2>8, <2>9
<1>2. CASE ~(g.w.upper[dst] = Block /\ ~SlidesAlong(g.w, dst, d))
  <2> DEFINE free == g.w.upper[dst] # Block
             still == FALSE
  <2>1. r = [g |-> g, ok |-> free, hit |-> NoCell, died |-> still]
    BY <1>2 DEF PushAside
  <2> HIDE DEF free, still
  <2>2. r.g = g /\ r.ok = free
    BY <2>1
  <2>3. r.ok => g.w.upper[dst] # Block
    BY <2>2 DEF free
  <2> QED
    BY <2>2, <2>3 DEF Clear, Passed
<1> QED
  BY <1>1, <1>2

LEMMA PushAndEnterWell ==
  ASSUME LevelsWellFormed, NEW g \in GameType, Well(g), NEW d \in Dir,
         Step(g.chip.pos, d) \in Cell, NEW rnd \in Floors
  PROVE  Well(PushAndEnter(g, d, rnd).g)
<1> DEFINE r == PushAside(g, d, rnd)
           h == PushAndEnter(g, d, rnd).g
           dst == Step(g.chip.pos, d)
<1>1. Onward(g, r.g) /\ r.g.chip = g.chip /\ r.g \in GameType
  BY PushAsideOnward DEF Onward
<1>2. h = IF r.died THEN Restart(r.g) ELSE IF ~r.ok THEN Blocked(r.g).g
          ELSE Enter(r.g, d, r.hit, rnd).g
  BY DEF PushAndEnter, EnterAfterPush
<1>3. Well(r.g) /\ Passed(r, dst)
  <2>1. dst \in Cell /\ dst = Step(g.chip.pos, d) /\ r = PushAside(g, d, rnd)
    OBVIOUS
  <2> HIDE DEF r, dst
  <2> QED
    BY <2>1, PushAsideWell
<1>4. dst \in Cell /\ dst = Step(r.g.chip.pos, d)
  BY <1>1
<1> HIDE DEF r, h, dst
<1>5. Well(Restart(r.g)) /\ Well(Blocked(r.g).g)
  BY <1>1, <1>3, RestartWell, BlockedWell
<1>6. r.ok => Well(Enter(r.g, d, r.hit, rnd).g)
  BY <1>1, <1>3, <1>4, EnterWell DEF Passed
<1>7. Well(h)
  BY <1>2, <1>5, <1>6
<1> QED
  BY <1>7 DEF h

LEMMA WalkWell ==
  ASSUME LevelsWellFormed, NEW g \in GameType, Well(g), NEW d \in Dir,
         NEW voluntary \in BOOLEAN, NEW rnd \in Floors
  PROVE  Well(Walk(g, d, voluntary, rnd).g)
<1> DEFINE kept == g.chip.buffered /\ ~voluntary
           moved == g.chip.moved \/ voluntary
           c == [g.chip EXCEPT !.idle = 0, !.buffered = kept, !.moved = moved]
           g1 == [g EXCEPT !.chip = c]
           h == Walk(g, d, voluntary, rnd).g
           walked == [g EXCEPT !.chip.idle = 0, !.chip.buffered = @ /\ ~voluntary,
                               !.chip.moved = @ \/ voluntary]
<1>0. walked = g1
  BY GameParts
<1>1. h = IF voluntary /\ Carried(g, d) /\ Step(g.chip.pos, d) \in Cell THEN g1
          ELSE IF ~CanLeave(g.w, g.chip.pos, d) THEN Blocked(g1).g
          ELSE PushAndEnter(g1, d, rnd).g
  <2>1. h = IF voluntary /\ Carried(g, d) /\ Step(g.chip.pos, d) \in Cell THEN walked
            ELSE IF ~CanLeave(g.w, g.chip.pos, d) THEN Blocked(walked).g
            ELSE PushAndEnter(walked, d, rnd).g
    BY DEF Walk
  <2> QED
    BY <1>0, <2>1
<1>2. kept \in BOOLEAN /\ moved \in BOOLEAN
  OBVIOUS
<1> HIDE DEF kept, moved
<1>3. c \in ChipType /\ c.pos = g.chip.pos
  BY <1>2, GameParts, ChipWalksType
<1> HIDE DEF c
<1>4. g1 \in GameType /\ Well(g1) /\ g1.chip = c
  BY <1>3, ChipWell, ChipChange
<1> HIDE DEF g1, h
<1>5. Well(Blocked(g1).g)
  BY <1>4, BlockedWell
<1>6. CanLeave(g.w, g.chip.pos, d) => Well(PushAndEnter(g1, d, rnd).g)
  BY <1>3, <1>4, PushAndEnterWell DEF CanLeave
<1>7. Well(h)
  BY <1>1, <1>4, <1>5, <1>6
<1> QED
  BY <1>7 DEF h

LEMMA MoveChipWell ==
  ASSUME LevelsWellFormed, NEW g \in GameType, Well(g), NEW d \in Dir,
         NEW voluntary \in BOOLEAN, NEW rnd \in Floors
  PROVE  Well(MoveChip(g, d, voluntary, rnd).g)
<1>1. CASE g.placard
  BY <1>1 DEF MoveChip, Frozen
<1>2. CASE ~g.placard /\ voluntary /\ g.chip.moved
  <2> DEFINE c == [g.chip EXCEPT !.buffered = TRUE, !.buf = d]
  <2>1. c \in ChipType /\ c.pos = g.chip.pos
    BY ChipTyped DEF ChipType
  <2>2. Keeps(g, d) = IF g.chip.buffered THEN g ELSE [g EXCEPT !.chip = c]
    BY GameParts DEF Keeps
  <2> HIDE DEF c
  <2>3. Well([g EXCEPT !.chip = c])
    BY <2>1, ChipWell
  <2> QED
    BY <1>2, <2>2, <2>3 DEF MoveChip, Frozen
<1>3. CASE ~g.placard /\ ~(voluntary /\ g.chip.moved)
  BY <1>3, WalkWell DEF MoveChip, Frozen
<1> QED
  BY <1>1, <1>2, <1>3

-----------------------------------------------------------------------------
(***************************************************************************)
(* The keys, the mouse and the parts of a tick.                            *)
(***************************************************************************)

\* A game that is typed and goes well.
Sound(g) == g \in GameType /\ Well(g)

LEMMA MoveChipSound ==
  ASSUME LevelsWellFormed, NEW g, Sound(g), NEW d \in Dir, NEW voluntary \in BOOLEAN,
         NEW rnd \in Floors
  PROVE  Sound(MoveChip(g, d, voluntary, rnd).g)
<1> DEFINE h == MoveChip(g, d, voluntary, rnd).g
<1>1. h \in GameType
  BY MoveChipGoes, GoesType DEF Sound
<1>2. Well(h)
  BY MoveChipWell DEF Sound
<1> QED
  BY <1>1, <1>2 DEF Sound

LEMMA ChipSound ==
  ASSUME NEW g, Sound(g), NEW c \in ChipType, c.pos = g.chip.pos
  PROVE  Sound([g EXCEPT !.chip = c])
BY ChipWell DEF Sound

LEMMA ForgetSound ==
  ASSUME NEW g, Sound(g)
  PROVE  Sound(Forget(g)) /\ Sound(AtTarget(g))
<1> DEFINE c == [g.chip EXCEPT !.mouse = FALSE]
<1>1. c \in ChipType /\ c.pos = g.chip.pos
  BY ChipTyped DEF ChipType, Sound
<1>2. Forget(g) = [g EXCEPT !.chip = c]
  BY DEF Forget
<1> HIDE DEF c
<1>3. Sound(Forget(g))
  BY <1>1, <1>2, ChipSound
<1> QED
  BY <1>3 DEF AtTarget

LEMMA KeyDoneSound ==
  ASSUME NEW g, Sound(g)
  PROVE  Sound(KeyDone(g))
<1> DEFINE c == [g.chip EXCEPT !.buffered = FALSE, !.mouse = FALSE]
<1>1. c \in ChipType /\ c.pos = g.chip.pos
  BY ChipTyped DEF ChipType, Sound
<1>2. KeyDone(g) = [g EXCEPT !.chip = c]
  BY GameParts DEF KeyDone, Sound
<1> HIDE DEF c
<1> QED
  BY <1>1, <1>2, ChipSound

LEMMA MovedClearedSound ==
  ASSUME NEW g, Sound(g)
  PROVE  Sound([g EXCEPT !.chip.moved = FALSE])
<1> DEFINE c == [g.chip EXCEPT !.moved = FALSE]
<1>1. c \in ChipType /\ c.pos = g.chip.pos
  BY ChipTyped DEF ChipType, Sound
<1>2. [g EXCEPT !.chip.moved = FALSE] = [g EXCEPT !.chip = c]
  OBVIOUS
<1> HIDE DEF c
<1> QED
  BY <1>1, <1>2, ChipSound

LEMMA SecondMouseStepSound ==
  ASSUME LevelsWellFormed, NEW r, Sound(r.g), NEW d \in Dir, NEW afterSlide,
         NEW rnd \in Floors
  PROVE  Sound(SecondMouseStep(r, d, afterSlide, rnd))
<1> DEFINE g == IF afterSlide THEN r.g ELSE [r.g EXCEPT !.chip.moved = FALSE]
           s == IF d = Still THEN [g |-> g, ok |-> FALSE] ELSE MoveChip(g, d, TRUE, rnd)
           k == IF s.ok THEN s.g ELSE Forget(s.g)
<1>1. SecondMouseStep(r, d, afterSlide, rnd) =
        IF r.ok \/ ~r.g.chip.mouse \/ GivesUp(r.g, d, afterSlide)
        THEN AtTarget(r.g) ELSE AtTarget(k)
  BY DEF SecondMouseStep
<1>2. Sound(g)
  BY MovedClearedSound
<1> HIDE DEF g
<1>3. Sound(s.g)
  BY <1>2, MoveChipSound
<1> HIDE DEF s
<1>4. Sound(k)
  BY <1>3, ForgetSound
<1> HIDE DEF k
<1> QED
  BY <1>1, <1>4, ForgetSound

LEMMA MouseStepSound ==
  ASSUME LevelsWellFormed, NEW g, Sound(g), NEW afterSlide, NEW rnd \in Floors
  PROVE  Sound(MouseStep(g, afterSlide, rnd))
<1> DEFINE r == MoveChip(g, MouseFirst(g), TRUE, rnd)
           h == SecondMouseStep(r, MouseSecond(g), afterSlide, rnd)
<1>1. MouseStep(g, afterSlide, rnd) =
        IF GivesUp(g, MouseFirst(g), afterSlide) THEN AtTarget(g) ELSE h
  BY DEF MouseStep
<1>2. Sound(r.g)
  BY MouseDirections, MoveChipSound
<1> HIDE DEF r
<1>3. Sound(h)
  BY <1>2, MouseDirections, SecondMouseStepSound
<1> HIDE DEF h
<1> QED
  BY <1>1, <1>3, ForgetSound

LEMMA KeySound ==
  ASSUME LevelsWellFormed, NEW g, Sound(g), NEW rnd \in Floors
  PROVE  Sound(UseBuffered(g, rnd)) /\ Sound(KeyAfterSlide(g, rnd))
<1> DEFINE h == MoveChip(g, g.chip.buf, TRUE, rnd).g
<1>1. Sound(h)
  BY GameParts, MoveChipSound DEF Sound
<1> HIDE DEF h
<1>2. Sound(KeyDone(h)) /\ Sound(KeyDone(g))
  BY <1>1, KeyDoneSound
<1> QED
  BY <1>2 DEF UseBuffered, KeyAfterSlide, h

LEMMA StandAroundSound ==
  ASSUME NEW g, Sound(g)
  PROVE  Sound(StandAround(g))
<1> DEFINE n == IF g.chip.idle < 3 THEN g.chip.idle + 1 ELSE 3
           c == [g.chip EXCEPT !.idle = n]
           g1 == [g EXCEPT !.chip = c]
           v == SetUpper(g.w, g.chip.pos, ChipTile(Under(g)))
           g2 == [g1 EXCEPT !.w = v]
           u == SetUpper(g1.w, g1.chip.pos, ChipTile(Under(g1)))
<1>0. g \in GameType
  BY DEF Sound
<1>1. g.chip.idle \in 0..3
  BY <1>0, GameParts
<1>2. n \in 0..3
  BY <1>1
<1>3. StandAround(g) = IF g.chip.idle < 2 THEN g1 ELSE g2
  BY DEF StandAround
<1> HIDE DEF n
<1>4. c \in ChipType /\ c.pos = g.chip.pos
  BY <1>0, <1>2, ChipTyped DEF ChipType
<1> HIDE DEF c
<1>5. Sound(g1) /\ g1.w = g.w /\ g1.chip = c
  BY <1>0, <1>4, ChipSound, ChipChange
<1>6. u = v
  BY <1>4, <1>5 DEF Under
<1> HIDE DEF g1, v
<1>7. Sound([g1 EXCEPT !.w = u])
  BY <1>5, TurnedWell DEF Sound
<1> HIDE DEF u
<1>8. Sound(g2)
  BY <1>6, <1>7
<1> QED
  BY <1>3, <1>5, <1>8

LEMMA InputSound ==
  ASSUME LevelsWellFormed, NEW g, Sound(g), NEW rnd \in Floors
  PROVE  Sound(EvenInput(g, rnd)) /\ Sound(OddInput(g, rnd))
<1> DEFINE h == IF g.chip.pos = g.chip.target THEN Forget(g) ELSE MouseStep(g, FALSE, rnd)
<1>1. Sound(h)
  BY ForgetSound, MouseStepSound
<1>2. ToMouse(g, rnd) = [h EXCEPT !.chip.moved = FALSE]
  BY DEF ToMouse
<1> HIDE DEF h
<1>3. Sound(ToMouse(g, rnd))
  BY <1>1, <1>2, MovedClearedSound
<1>4. Sound(EvenInput(g, rnd))
  BY <1>3, MovedClearedSound, KeySound, StandAroundSound DEF EvenInput
<1>5. Sound(OddInput(g, rnd))
  BY KeySound DEF OddInput
<1> QED
  BY <1>4, <1>5

LEMMA MouseAfterSlideSound ==
  ASSUME LevelsWellFormed, NEW g, Sound(g), NEW rnd \in Floors
  PROVE  Sound(MouseAfterSlide(g, rnd))
BY ForgetSound, MouseStepSound DEF MouseAfterSlide

LEMMA TurnSlideSound ==
  ASSUME NEW g, Sound(g), NEW rnd \in Dir
  PROVE  Sound(TurnSlide(g, rnd))
<1> DEFINE d == TurnAround(g.chip.slide)
           c == [g.chip EXCEPT !.slide = d]
           g1 == [g EXCEPT !.chip = c]
           nd == SlideDir(SlideTile(g1.w, g1.chip.pos, g.chip.pos), d, g1.chip.slide, rnd)
           e == [g1.chip EXCEPT !.sliding = TRUE, !.slide = nd]
           h == SlideChip(g1, g.chip.pos, d, rnd)
<1>0. g \in GameType
  BY DEF Sound
<1>1. d \in Dir
  BY <1>0, GameParts, TurnsAreDirections
<1>2. TurnSlide(g, rnd) = h
  BY DEF TurnSlide
<1> HIDE DEF d
<1>3. c \in ChipType /\ c.pos = g.chip.pos
  BY <1>0, <1>1, ChipTyped DEF ChipType
<1> HIDE DEF c
<1>4. Sound(g1) /\ g1 \in GameType
  BY <1>3, ChipSound DEF Sound
<1> HIDE DEF g1
<1>5. nd \in Dir
  BY <1>1, <1>4, GameParts, SlideDirType
<1>6. h = [g1 EXCEPT !.chip = e]
  BY <1>4, GameParts DEF SlideChip
<1> HIDE DEF nd
<1>7. e \in ChipType /\ e.pos = g1.chip.pos
  BY <1>4, <1>5, ChipTyped DEF ChipType
<1> HIDE DEF e
<1>8. Sound(h)
  BY <1>4, <1>6, <1>7, ChipSound
<1> QED
  BY <1>2, <1>8

LEMMA SlideTrySound ==
  ASSUME LevelsWellFormed, NEW g, Sound(g), NEW k \in Draws
  PROVE  LET t == SlideTry(g, k)
         IN  Sound(t.r.g) /\ Sound(TurnSlide(t.r.g, t.floor))
<1> DEFINE h == MoveChip(g, g.chip.slide, FALSE, k.floor).g
<1>1. Sound(h)
  BY GameParts, DrawParts, MoveChipSound DEF Sound
<1>2. SlideTry(g, k).r.g = h /\ SlideTry(g, k).floor = k.floor[2]
  BY DEF SlideTry
<1> HIDE DEF h
<1>3. Sound(TurnSlide(h, k.floor[2]))
  BY <1>1, DrawParts, TurnSlideSound
<1> QED
  BY <1>1, <1>2, <1>3

LEMMA AutopsiedSound ==
  ASSUME LevelsWellFormed, NEW g, Sound(g)
  PROVE  Sound(Autopsied(g)) /\ Sound(Restart(g))
<1>1. Sound(Restart(g))
  BY RestartGoes, RestartWell DEF Sound, Fresh
<1> QED
  BY <1>1 DEF Autopsied

LEMMA SameWell ==
  ASSUME NEW g, Sound(g), NEW h \in GameType, h.w = g.w, h.chip = g.chip, h.bag = g.bag,
         h.ending = g.ending
  PROVE  Sound(h)
<1>1. Well(h)
  BY DEF Sound, Well, Lost, Plays
<1> QED
  BY <1>1 DEF Sound

LEMMA OpenedSound ==
  ASSUME GameInv, Well(game)
  PROVE  Sound(game) /\ Sound(Opened(game))
<1>1. Sound(game)
  BY DEF Sound, GameInv, GoodGame
<1>2. Opened(game).bag = game.bag
  BY GameParts DEF Opened, GameInv, GoodGame
<1> QED
  BY <1>1, <1>2, OpenedGood, SameWell DEF GameInv

LEMMA InputWell ==
  ASSUME LevelsWellFormed, GameInv, Well(game), Input
  PROVE  Sound(game')
<1> DEFINE g == Opened(game)
<1>0. Sound(game) /\ Sound(g)
  BY OpenedSound
<1>1. CASE \E d \in Compass : Arrow(d)
  <2>1. PICK d \in Compass : Arrow(d)
    BY <1>1
  <2>2. PICK k \in Draws : game' = MoveChip(g, d, TRUE, k.floor).g
    BY <2>1 DEF Arrow, Opened
  <2>3. k.floor \in Floors /\ d \in Dir
    BY DrawParts DEF Dir
  <2> HIDE DEF g
  <2> QED
    BY <1>0, <2>2, <2>3, MoveChipSound
<1>2. CASE OtherKey
  BY <1>0, <1>2 DEF OtherKey, Opened
<1>3. CASE \E p \in Targets : Click(p)
  <2>1. PICK p \in Targets : Click(p)
    BY <1>3
  <2> DEFINE c == [game.chip EXCEPT !.mouse = TRUE, !.target = p, !.buffered = FALSE]
  <2>2. p \in Cell /\ game \in GameType
    BY GameAssumption DEF GameInv, GoodGame
  <2>3. g.chip = game.chip
    BY OpenedGood DEF GameInv
  <2>4. game' = [g EXCEPT !.chip = c]
    BY <2>1, <2>2, GameParts DEF Click, Opened
  <2>5. c \in ChipType /\ c.pos = game.chip.pos
    BY <2>2, ChipTyped DEF ChipType
  <2> HIDE DEF c, g
  <2> QED
    BY <1>0, <2>3, <2>4, <2>5, ChipSound
<1>4. CASE RestartLevel
  BY <1>0, <1>4, AutopsiedSound DEF RestartLevel
<1> QED
  BY <1>1, <1>2, <1>3, <1>4 DEF Input

LEMMA TickSound ==
  ASSUME LevelsWellFormed, GameInv, Well(game), EvenTick \/ OddTick
  PROVE  Sound(game')
BY OpenedSound, InputSound, DrawParts DEF EvenTick, OddTick

LEMMA LoopsDoneSound ==
  ASSUME LevelsWellFormed, GameInv, Well(game), MonstersDone \/ SlipsDone
  PROVE  Sound(game')
BY OpenedSound, AutopsiedSound DEF MonstersDone, SlipsDone

LEMMA SlideSound ==
  ASSUME LevelsWellFormed, GameInv, Well(game), SlideOn \/ Bounce
  PROVE  Sound(game')
<1> DEFINE c == [game.chip EXCEPT !.idle = 0]
           g == [game EXCEPT !.chip.idle = 0]
<1>1. Sound(game) /\ game \in GameType
  BY OpenedSound DEF Sound
<1>2. c \in ChipType /\ c.pos = game.chip.pos
  BY <1>1, ChipTyped DEF ChipType
<1>3. g = [game EXCEPT !.chip = c]
  OBVIOUS
<1> HIDE DEF c
<1>4. Sound(g)
  BY <1>1, <1>2, <1>3, ChipSound
<1>5. CASE SlideOn
  <2>1. PICK k \in Draws : \/ game' = SlideTry(g, k).r.g
                           \/ game' = TurnSlide(SlideTry(g, k).r.g, SlideTry(g, k).floor)
    BY <1>5 DEF SlideOn
  <2> HIDE DEF g
  <2> QED
    BY <1>4, <2>1, SlideTrySound
<1>6. CASE Bounce
  <2>1. PICK k \in Draws : \/ game' = SlideTry(game, k).r.g
                           \/ game' = TurnSlide(SlideTry(game, k).r.g, SlideTry(game, k).floor)
    BY <1>6 DEF Bounce
  <2> QED
    BY <1>1, <2>1, SlideTrySound
<1> QED
  BY <1>5, <1>6

LEMMA AfterSlideSound ==
  ASSUME LevelsWellFormed, GameInv, Well(game), AfterSlide
  PROVE  Sound(game')
<1>1. Sound(game)
  BY OpenedSound
<1>2. PICK k \in Draws :
        game' \in {[game EXCEPT !.chip.moved = FALSE], KeyAfterSlide(game, k.floor),
                   MouseAfterSlide(game, k.floor), game}
  BY DEF AfterSlide
<1> QED
  BY <1>1, <1>2, DrawParts, MovedClearedSound, KeySound, MouseAfterSlideSound

LEMMA ClockSound ==
  ASSUME LevelsWellFormed, GameInv, Well(game), Clock
  PROVE  Sound(game')
<1>1. Sound(game) /\ game \in GameType /\ game.time \in Nat
  BY OpenedSound, GameParts DEF Sound
<1>2. CASE game.time = 0 \/ tick = 0 \/ tick % 10 # 0
  BY <1>1, <1>2 DEF Clock
<1>3. CASE ~(game.time = 0 \/ tick = 0 \/ tick % 10 # 0) /\ game.time = 1
  BY <1>1, <1>3, AutopsiedSound DEF Clock
<1>4. CASE ~(game.time = 0 \/ tick = 0 \/ tick % 10 # 0) /\ game.time # 1
  <2>1. game' = [game EXCEPT !.time = game.time - 1] /\ game.time - 1 \in Nat
    BY <1>1, <1>4 DEF Clock
  <2>2. /\ game'.w = game.w /\ game'.chip = game.chip /\ game'.bag = game.bag
        /\ game'.ending = game.ending /\ game' \in GameType
    BY <1>1, <2>1, GameParts DEF GameType
  <2> QED
    BY <1>1, <2>2, SameWell
<1> QED
  BY <1>2, <1>3, <1>4

LEMMA SlipMovesSound ==
  ASSUME LevelsWellFormed, GameInv, Well(game), SlipMoves
  PROVE  Sound(game')
<1>1. /\ game \in GameType /\ game.w \in WorldType /\ loop.i \in Nat
      /\ Len(game.w.slips) \in Nat
  BY GameParts, WorldParts DEF GameInv, GoodGame, LoopType
<1>2. PICK k \in Draws : game' = [game EXCEPT !.w = SlipTurn(game.w, loop.i + 1, k.floor)]
  BY DEF SlipMoves
<1> DEFINE i == loop.i + 1
           v == SlipTurn(game.w, i, k.floor)
<1>3. i \in 1..Len(game.w.slips)
  BY <1>1 DEF SlipMoves
<1>4. k.floor \in Floors
  BY DrawParts
<1> HIDE DEF i
<1>5. Outlives(game.w, v)
  BY <1>1, <1>3, <1>4, SlipTurnOutlives
<1>6. ASSUME NEW ic, Board(game.w, 0, NoCell, game.chip.pos, ic), Alive(v)
      PROVE  Board(v, 0, NoCell, game.chip.pos, ic)
  BY <1>3, <1>4, <1>6, SlipTurnWell
<1>7. game' = [game EXCEPT !.w = v]
  BY <1>2 DEF i
<1> HIDE DEF v
<1>8. Well([game EXCEPT !.w = v]) /\ [game EXCEPT !.w = v] \in GameType
  BY <1>1, <1>5, <1>6, WorldWell DEF Outlives
<1> QED
  BY <1>7, <1>8 DEF Sound

LEMMA MonsterMovesSound ==
  ASSUME LevelsWellFormed, GameInv, Well(game), MonsterMoves
  PROVE  Sound(game')
<1>1. /\ game \in GameType /\ game.w \in WorldType /\ Len(game.w.monsters) \in Nat
      /\ loop.i \in Nat /\ loop.n \in Nat /\ loop.ndir \in StackDirs
  BY GameParts, WorldParts DEF GameInv, GoodGame, LoopType
<1>2. loop.i >= 1 /\ loop.i <= loop.n /\ loop.n <= Len(game.w.monsters)
  BY DEF MonsterMoves, Runs, GameInv, LoopInRange, world
<1>3. loop.i \in 1..Len(game.w.monsters)
  BY <1>1, <1>2
<1>4. PICK k \in Draws : game' = [game EXCEPT !.w = MonsterIteration(k).w]
  BY DEF MonsterMoves
<1> DEFINE r == MonsterIteration(k)
<1>5. k.floor \in Floors /\ k.dir \in Dir
  BY DrawParts
<1>6. TurnResult(game.w, r)
  BY <1>1, <1>3, DrawParts, MonsterTurnType DEF MonsterIteration
<1>7. ASSUME NEW ic, Board(game.w, 0, NoCell, game.chip.pos, ic), Alive(r.w)
      PROVE  Board(r.w, 0, NoCell, game.chip.pos, ic)
  BY <1>1, <1>3, <1>5, <1>7, MonsterTurnWell DEF MonsterIteration
<1> HIDE DEF r
<1>8. Outlives(game.w, r.w)
  BY <1>1, <1>6, FollowsOutlives DEF TurnResult
<1> DEFINE v == r.w
<1>9. game' = [game EXCEPT !.w = v] /\ Outlives(game.w, v)
  BY <1>4, <1>8 DEF r
<1>10. ASSUME NEW ic, Board(game.w, 0, NoCell, game.chip.pos, ic), Alive(v)
       PROVE  Board(v, 0, NoCell, game.chip.pos, ic)
  BY <1>7, <1>10
<1> HIDE DEF v
<1>11. Well([game EXCEPT !.w = v]) /\ [game EXCEPT !.w = v] \in GameType
  BY <1>1, <1>9, <1>10, WorldWell DEF Outlives
<1> QED
  BY <1>9, <1>11 DEF Sound

\* Well is inductive, given the types.
LEMMA StepWell ==
  ASSUME LevelsWellFormed, GameInv, Well(game), [Next]_vars
  PROVE  Well(game')
<1>1. CASE Next
  <2>1. Sound(game')
    BY <1>1, InputWell, TickSound, LoopsDoneSound, SlideSound, AfterSlideSound, ClockSound,
       SlipMovesSound, MonsterMovesSound DEF Next, InTick
  <2> QED
    BY <2>1 DEF Sound
<1>2. CASE UNCHANGED vars
  BY <1>2 DEF vars
<1> QED
  BY <1>1, <1>2

LEMMA InitWell ==
  ASSUME LevelsWellFormed, Init
  PROVE  Well(game)
BY LoadWell DEF Init

-----------------------------------------------------------------------------
(***************************************************************************)
(* The invariant and what follows from it.                                 *)
(***************************************************************************)

LEMMA BoardInvAlways ==
  ASSUME LevelsWellFormed
  PROVE  Spec => []BoardInv
<1>1. Init => BoardInv
  BY InitGameInv, InitWell DEF BoardInv
<1>2. BoardInv /\ [Next]_vars => BoardInv'
  <2>1. ASSUME BoardInv, [Next]_vars PROVE BoardInv'
    <3>1. GameInv'
      BY <2>1, NextGameInv DEF BoardInv
    <3>2. Well(game')
      BY <2>1, StepWell DEF BoardInv
    <3> QED
      BY <3>1, <3>2 DEF BoardInv
  <2> QED
    BY <2>1
<1> QED
  BY <1>1, <1>2, PTL DEF Spec

\* What it says of a game that is played.
LEMMA InPlayBoard ==
  ASSUME BoardInv, InPlay
  PROVE  /\ world \in WorldType /\ world.level \in 1..Len(Levels) /\ game.chip.pos \in Cell
         /\ Listed(world, 0, NoCell) /\ Slid(world, 0, NoCell)
         /\ \E ic : Plays(game, game.chip.pos, ic)
<1>1. ~Lost(game) /\ game \in GameType
  BY DEF BoardInv, InPlay, Lost, Dead, Alive, GameInv, GoodGame
<1>2. PICK ic : Plays(game, game.chip.pos, ic)
  BY <1>1 DEF BoardInv, Well
<1>3. Roster(world, 0, NoCell)
  BY <1>2, BoardParts DEF Plays, world
<1> QED
  BY <1>1, <1>2, <1>3, GameParts DEF world, Roster

LEMMA EntriesAreThere ==
  ASSUME NEW w \in WorldType
  PROVE  \A i \in 1..Len(w.monsters) : /\ At(w, 0, NoCell, i) = w.monsters[i].pos
                                       /\ w.monsters[i].pos \in Cell
<1>1. \A i \in 1..Len(w.monsters) : i # 0
  BY WorldParts
<1> QED
  BY <1>1, SlipCells DEF At

LEMMA ListsAgree ==
  ASSUME BoardInv, InPlay
  PROVE  /\ \A i \in 1..Len(world.monsters) :
              /\ Kind(world.upper[world.monsters[i].pos]) = Kind(world.monsters[i].tile)
              /\ FindMonster(world, world.monsters[i].pos) = i
         /\ \A x \in Cell : world.upper[x] \in Monsters
                              => FindMonster(world, x) # 0 \/ world.lower[x] = CloneMachine
<1> DEFINE w == world
<1>1. w \in WorldType /\ Listed(w, 0, NoCell)
  BY InPlayBoard
<1> HIDE DEF w
<1>2. \A i \in 1..Len(w.monsters) : /\ At(w, 0, NoCell, i) = w.monsters[i].pos
                                    /\ w.monsters[i].pos \in Cell
  BY <1>1, EntriesAreThere
<1>3. ASSUME NEW i \in 1..Len(w.monsters)
      PROVE  /\ Kind(w.upper[w.monsters[i].pos]) = Kind(w.monsters[i].tile)
             /\ FindMonster(w, w.monsters[i].pos) = i
  <2>1. Kind(w.upper[w.monsters[i].pos]) = Kind(w.monsters[i].tile)
    BY <1>1, <1>2 DEF Listed
  <2>2. \A j \in 1..Len(w.monsters) : w.monsters[j].pos = w.monsters[i].pos => j = i
    BY <1>1, <1>2 DEF Listed
  <2> QED
    BY <1>1, <2>1, <2>2, FoundOne
<1>4. ASSUME NEW x \in Cell, w.upper[x] \in Monsters, w.lower[x] # CloneMachine
      PROVE  FindMonster(w, x) # 0
  <2>1. PICK i \in 1..Len(w.monsters) : w.monsters[i].pos = x
    BY <1>1, <1>2, <1>4 DEF Listed
  <2> QED
    BY <1>1, <2>1, Found
<1>5. \A x \in Cell : w.upper[x] \in Monsters => FindMonster(w, x) # 0 \/ w.lower[x] = CloneMachine
  BY <1>4
<1> QED
  BY <1>3, <1>5 DEF w

LEMMA SlipsAgree ==
  ASSUME BoardInv, InPlay
  PROVE  /\ \A i \in 1..Len(world.monsters) :
              world.monsters[i].slipping <=>
                \E k \in 1..Len(world.slips) :
                  world.slips[k].pos = world.monsters[i].pos /\ world.slips[k].isblock
         /\ \A k \in 1..Len(world.slips) :
              /\ FindSlipper(world, world.slips[k].pos) = k
              /\ IF world.slips[k].isblock THEN FindMonster(world, world.slips[k].pos) # 0
                 ELSE world.upper[world.slips[k].pos] = Block
<1> DEFINE w == world
<1>1. w \in WorldType /\ Listed(w, 0, NoCell) /\ Slid(w, 0, NoCell)
  BY InPlayBoard
<1> HIDE DEF w
<1>2. \A i \in 1..Len(w.monsters) : /\ At(w, 0, NoCell, i) = w.monsters[i].pos
                                    /\ w.monsters[i].pos \in Cell
  BY <1>1, EntriesAreThere
<1>3. ASSUME NEW i \in 1..Len(w.monsters)
      PROVE  w.monsters[i].slipping <=>
               \E k \in 1..Len(w.slips) :
                 w.slips[k].pos = w.monsters[i].pos /\ w.slips[k].isblock
  <2>1. ASSUME w.monsters[i].slipping
        PROVE  \E k \in 1..Len(w.slips) :
                 w.slips[k].pos = w.monsters[i].pos /\ w.slips[k].isblock
    BY <1>1, <1>2, <2>1 DEF Slid
  <2>2. ASSUME NEW k \in 1..Len(w.slips), w.slips[k].pos = w.monsters[i].pos,
               w.slips[k].isblock
        PROVE  w.monsters[i].slipping
    <3>1. PICK j \in 1..Len(w.monsters) :
            At(w, 0, NoCell, j) = w.slips[k].pos /\ w.monsters[j].slipping
      BY <1>1, <2>2 DEF Slid
    <3>2. At(w, 0, NoCell, j) = At(w, 0, NoCell, i)
      BY <1>2, <2>2, <3>1
    <3>3. i = j
      BY <1>1, <3>2 DEF Listed
    <3> QED
      BY <3>1, <3>3
  <2> QED
    BY <2>1, <2>2
<1>4. ASSUME NEW k \in 1..Len(w.slips)
      PROVE  /\ FindSlipper(w, w.slips[k].pos) = k
             /\ IF w.slips[k].isblock THEN FindMonster(w, w.slips[k].pos) # 0
                ELSE w.upper[w.slips[k].pos] = Block
  <2>1. FindSlipper(w, w.slips[k].pos) = k
    BY <1>1, FoundOne DEF Slid, Apart
  <2>2. CASE w.slips[k].isblock
    <3>1. PICK j \in 1..Len(w.monsters) : At(w, 0, NoCell, j) = w.slips[k].pos
      BY <1>1, <2>2 DEF Slid
    <3>2. w.monsters[j].pos = w.slips[k].pos
      BY <1>2, <3>1
    <3> QED
      BY <1>1, <2>1, <2>2, <3>2, Found
  <2>3. CASE ~w.slips[k].isblock
    BY <1>1, <2>1, <2>3 DEF Slid
  <2> QED
    BY <2>2, <2>3
<1> QED
  BY <1>3, <1>4 DEF w

LEMMA CellsAgree ==
  ASSUME BoardInv, InPlay
  PROVE  OneChip /\ TogglesTogether /\ ChipsAddUp
<1> DEFINE w == world
           p == game.chip.pos
           n == w.level
<1>1. w \in WorldType /\ n \in 1..Len(Levels) /\ p \in Cell
  BY InPlayBoard
<1>2. PICK ic : Plays(game, p, ic)
  BY InPlayBoard
<1>3. Board(w, 0, NoCell, p, ic) /\ ic \subseteq Cell /\ game.bag.chips = Owed(n, ic)
  BY <1>2 DEF Plays, world
<1>4. PICK ph \in BOOLEAN : Cells(w, p, ph, ic)
  BY <1>3 DEF Board
<1> HIDE DEF w
<1>5. \A x \in Cell : GoodCell(n, w.upper[x], w.lower[x], x, p, ph, ic)
  BY <1>4 DEF Cells
<1>6. OneChip
  <2>1. \A x \in Cell : (w.upper[x] \in ChipTiles <=> x = p) /\ w.lower[x] \notin ChipTiles
    BY <1>5 DEF GoodCell
  <2> QED
    BY <1>1, <2>1 DEF OneChip, w
<1>7. TogglesTogether
  <2>1. ASSUME NEW x \in ToggleCells[n]
        PROVE  ToggleAt(w, x) = Shown(n, x, ph)
    <3>1. x \in Cell /\ IsToggle(Shown(n, x, ph))
      BY <1>1, ToggleShown
    <3>2. \/ w.upper[x] = Shown(n, x, ph)
          \/ w.upper[x] \in Bearers \cup ChipTiles /\ w.lower[x] = Shown(n, x, ph)
      BY <1>5, <3>1 DEF GoodCell
    <3>3. w.upper[x] \in Bearers \cup ChipTiles => ~IsToggle(w.upper[x])
      BY TileFacts
    <3> QED
      BY <3>1, <3>2, <3>3 DEF ToggleAt
  <2>2. \/ \A x \in ToggleCells[n] : ToggleAt(w, x) = InitialTile(n, x)
        \/ \A x \in ToggleCells[n] : ToggleAt(w, x) = Toggled(InitialTile(n, x))
    BY <2>1 DEF Shown
  <2> QED
    BY <2>2 DEF TogglesTogether, w
<1>8. ChipsAddUp
  <2>1. ic = ChipsOn(w.upper, w.lower)
    BY <1>3, <1>5 DEF GoodCell, ChipsOn
  <2>2. game.bag.chips = Owed(n, ChipsOn(w.upper, w.lower))
    BY <1>3, <2>1
  <2> QED
    BY <2>2 DEF ChipsAddUp, Owed, w
<1> QED
  BY <1>6, <1>7, <1>8

\* In every state of play, with well-formed levels, each entry of the monster
\* list has a monster of its kind on top of its cell and no two share one; and
\* each monster on top is listed or a clone machine's.  (MonsterLoop, SlipLoop,
\* CloneMonster, DeleteMonster and every way a monster moves or dies.)
THEOREM MonstersStayListed ==
  ASSUME LevelsWellFormed
  PROVE  Spec => []MonstersListed
<1>1. BoardInv => MonstersListed
  BY ListsAgree DEF MonstersListed
<1> QED
  BY <1>1, BoardInvAlways, PTL

\* With well-formed levels a monster's slipping flag is set in play exactly when
\* the slip list has an entry of a monster on its cell: MonsterLoop and SlipLoop
\* share the monsters out between them, none to both and none to neither.
THEOREM SlippingStaysListed ==
  ASSUME LevelsWellFormed
  PROVE  Spec => []SlippingListed
<1>1. BoardInv => SlippingListed
  BY SlipsAgree DEF SlippingListed
<1> QED
  BY <1>1, BoardInvAlways, PTL

\* With well-formed levels each slip entry has its slider where it says, a block
\* on top or a listed monster, and no two are of one cell: what FindSlipper and
\* DeleteSlipperAt find by the cell alone is the slider that is meant.
THEOREM SlidersStayOnBoard ==
  ASSUME LevelsWellFormed
  PROVE  Spec => []SlidersOnBoard
<1>1. BoardInv => SlidersOnBoard
  BY SlipsAgree DEF SlidersOnBoard
<1> QED
  BY <1>1, BoardInvAlways, PTL

\* With well-formed levels Chip is on top of the board where ChipX and ChipY
\* say, nowhere else and beneath nothing, through pushes, slides, teleports and
\* clone blocks alike.
THEOREM ChipStaysOne ==
  ASSUME LevelsWellFormed
  PROVE  Spec => []OneChip
<1>1. BoardInv => OneChip
  BY CellsAgree DEF OneChip
<1> QED
  BY <1>1, BoardInvAlways, PTL

\* With well-formed levels all toggle walls of a level show the same phase, also
\* beneath blocks and monsters: no move uncovers one that missed a button.
THEOREM TogglesStayTogether ==
  ASSUME LevelsWellFormed
  PROVE  Spec => []TogglesTogether
<1>1. BoardInv => TogglesTogether
  BY CellsAgree DEF TogglesTogether
<1> QED
  BY <1>1, BoardInvAlways, PTL

\* With well-formed levels the chips still needed are those that the level asks
\* for less those gone from the board, and never below 0: none is counted
\* twice, lost beneath a block or left after it was taken.
THEOREM ChipsStayInStep ==
  ASSUME LevelsWellFormed
  PROVE  Spec => []ChipsAddUp
<1>1. BoardInv => ChipsAddUp
  BY CellsAgree DEF ChipsAddUp
<1> QED
  BY <1>1, BoardInvAlways, PTL
=============================================================================

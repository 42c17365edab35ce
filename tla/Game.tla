-------------------------------- MODULE Game --------------------------------
(***************************************************************************)
(* The game as the message loop runs it.  DoTick is one call of the        *)
(* program but many steps here: Chip's input, every iteration of           *)
(* MonsterLoop, the two tries of Chip's slide, the input he is granted     *)
(* after a slide, every iteration of SlipLoop, the clock.  pc says which   *)
(* step is next, and "idle" that the message loop waits: only then are     *)
(* there keys, clicks and menu commands.                                   *)
(*                                                                         *)
(* Chip may die, and the level with all its lists be read again, in the    *)
(* middle of a tick; the rest of the tick then runs on the new level.      *)
(***************************************************************************)
EXTENDS Chip

CONSTANTS
  Draws,       (* the random draws tried: see DrawType                     *)
  Leftovers,   (* what MonsterLoop's xnewdir and ynewdir may start as      *)
  TickCycle,   (* ticks are counted modulo this: 65536 in the program      *)
  Targets      (* the cells that are clicked on                            *)

\* All that one step may draw: the first direction a blob tries, the order of
\* a walker's or blob's other turns, and where up to two random floors push.
DrawType == [dir: Compass, order: TurnOrders, floor: Compass \X Compass]

ASSUME GameAssumption ==
  /\ Draws \subseteq DrawType /\ Draws # {}
  /\ Leftovers \subseteq StackDirs /\ Leftovers # {}
  /\ TickCycle \in Nat /\ TickCycle > 0 /\ TickCycle % 4 = 0
  /\ Targets \subseteq Cell

VARIABLES
  game,    \* the game state: see GameType
  tick,    \* CurrentTick
  pc,      \* what DoTick does next
  loop     \* MonsterLoop's and SlipLoop's locals

vars == <<game, tick, pc, loop>>

\* i is the list index, n MonsterLoop's len, ndir its xnewdir and ynewdir.
NoLoop == [i |-> 0, n |-> 0, ndir |-> Still]

\* The program starts with the level its ini file names.
Init ==
  /\ \E n \in 1..Len(Levels) : game = LoadLevel(n)
  /\ tick = 0
  /\ pc = "idle"
  /\ loop = NoLoop

\* A program that has written through index -1 has no next step.
Runs(at) == pc = at /\ game.w.fault = "none"
Slides(g) == g.chip.sliding
-----------------------------------------------------------------------------
(***************************************************************************)
(* The message loop.                                                       *)
(***************************************************************************)

\* WM_KEYDOWN in the main window.  An arrow key that takes the placard away
\* is a move as well.
Arrow(d) ==
  /\ Runs("idle")
  /\ \E k \in Draws : game' = MoveChip([game EXCEPT !.placard = FALSE], d,
                                       TRUE, k.floor).g
  /\ UNCHANGED <<tick, pc, loop>>

OtherKey ==
  /\ Runs("idle")
  /\ game' = [game EXCEPT !.placard = FALSE]
  /\ UNCHANGED <<tick, pc, loop>>

\* WM_LBUTTONDOWN in the board window.
Click(p) ==
  /\ Runs("idle")
  /\ game' = [game EXCEPT !.placard = FALSE, !.chip.mouse = TRUE,
                          !.chip.target = p, !.chip.buffered = FALSE]
  /\ UNCHANGED <<tick, pc, loop>>

\* The menu's Restart.
RestartLevel ==
  /\ Runs("idle")
  /\ game' = Restart(game)
  /\ UNCHANGED <<tick, pc, loop>>
-----------------------------------------------------------------------------
(***************************************************************************)
(* DoTick, phase 1: on even ticks Chip may move, or may move again; on odd *)
(* ticks only a key kept from before is used.                              *)
(***************************************************************************)
ToMouse(g, rnd) ==
  [(IF g.chip.pos = g.chip.target THEN Forget(g) ELSE MouseStep(g, FALSE, rnd))
     EXCEPT !.chip.moved = FALSE]

\* Fault: nothing clears ChipHasMoved but a slide.
EvenInputStuck(g, rnd) ==
  IF Slides(g) \/ g.chip.moved THEN g
  ELSE IF g.chip.buffered THEN UseBuffered(g, rnd)
  ELSE IF g.chip.mouse THEN ToMouse(g, rnd)
  ELSE StandAround(g)

EvenInput(g, rnd) ==
  IF Slides(g) THEN g
  ELSE IF g.chip.moved THEN [g EXCEPT !.chip.moved = FALSE]
  ELSE IF g.chip.buffered THEN UseBuffered(g, rnd)
  ELSE IF g.chip.mouse THEN ToMouse(g, rnd)
  ELSE StandAround(g)

OddInput(g, rnd) ==
  IF g.chip.buffered /\ ~Slides(g) /\ ~g.chip.moved
  THEN UseBuffered(g, rnd) ELSE g

GoTo(next) == pc' = next /\ loop' = NoLoop

AfterMonsters(g) == IF Slides(g) THEN "slide" ELSE "slips"

\* WM_TIMER.  The timer is paused while the placard is up, and during the
\* ending it drives the animation instead (see Pause).
TickNow == (tick + 1) % TickCycle

EvenTick ==
  /\ Runs("idle") /\ ~game.placard /\ ~game.ending
  /\ TickNow % 2 = 0
  /\ tick' = TickNow
  /\ \E k \in Draws : game' = EvenInput(game, k.floor)
  /\ IF game'.w.monsters = <<>> THEN GoTo(AfterMonsters(game'))
     ELSE /\ pc' = "monsters"
          /\ \E d \in Leftovers :
               loop' = [i |-> 1, n |-> Len(game'.w.monsters), ndir |-> d]

OddTick ==
  /\ Runs("idle") /\ ~game.placard /\ ~game.ending
  /\ TickNow % 2 = 1
  /\ tick' = TickNow
  /\ \E k \in Draws : game' = OddInput(game, k.floor)
  /\ GoTo(AfterMonsters(game'))
-----------------------------------------------------------------------------
(***************************************************************************)
(* Phase 2: MonsterLoop.  It goes through the monsters there were when it  *)
(* began, keeping count of those that die.                                 *)
(***************************************************************************)
MonsterIteration(k) ==
  MonsterTurn(game.w, loop.i, loop.ndir, game.chip.pos, tick % 4 = 0, k, k.floor)

\* Fault: a monster that dies does not shorten the loop.
MonsterMovesPastEnd ==
  /\ Runs("monsters") /\ loop.i <= loop.n
  /\ \E r \in {MonsterIteration(k) : k \in Draws} :
       /\ game' = [game EXCEPT !.w = r.w]
       /\ loop' = [loop EXCEPT !.i = IF r.gone THEN @ ELSE @ + 1, !.ndir = r.ndir]
  /\ UNCHANGED <<tick, pc>>

MonsterMoves ==
  /\ Runs("monsters") /\ loop.i <= loop.n
  /\ \E r \in {MonsterIteration(k) : k \in Draws} :
       /\ game' = [game EXCEPT !.w = r.w]
       /\ loop' = IF r.gone THEN [loop EXCEPT !.n = @ - 1, !.ndir = r.ndir]
                  ELSE [loop EXCEPT !.i = @ + 1, !.ndir = r.ndir]
  /\ UNCHANGED <<tick, pc>>

\* Fault: the loops do not look whether Chip is dead.
AutopsiedNever(g) == g

\* The end of either loop: a dead Chip starts the level again.
Autopsied(g) == IF Dead(g) THEN Restart(g) ELSE g

MonstersDone ==
  /\ Runs("monsters") /\ loop.i > loop.n
  /\ game' = Autopsied(game)
  /\ GoTo(AfterMonsters(game'))
  /\ UNCHANGED tick
-----------------------------------------------------------------------------
(***************************************************************************)
(* Phase 3: Chip slides; stopped, he tries once to go back the other way,  *)
(* and else is left as he was.  Whether he died in the second try is not   *)
(* asked: what is turned round then is the slide of the level just loaded. *)
(***************************************************************************)
TurnSlide(g, rnd) ==
  LET d == TurnAround(g.chip.slide)
  IN  SlideChip([g EXCEPT !.chip.slide = d], g.chip.pos, d, rnd)

\* One try: r is what MoveChip made of it, floor where a random floor pushes.
SlideTry(g, k) == [r |-> MoveChip(g, g.chip.slide, FALSE, k.floor),
                   floor |-> k.floor[2]]

SlideOn ==
  /\ Runs("slide")
  /\ \E t \in {SlideTry([game EXCEPT !.chip.idle = 0], k) : k \in Draws} :
       IF t.r.ok \/ ~Slides(t.r.g)
       THEN game' = t.r.g /\ pc' = "afterSlide"
       ELSE game' = TurnSlide(t.r.g, t.floor) /\ pc' = "bounce"
  /\ UNCHANGED <<tick, loop>>

Bounce ==
  /\ Runs("bounce")
  /\ \E t \in {SlideTry(game, k) : k \in Draws} :
       game' = IF t.r.ok THEN t.r.g ELSE TurnSlide(t.r.g, t.floor)
  /\ pc' = "afterSlide"
  /\ UNCHANGED <<tick, loop>>

\* Having slid, Chip gets a move of his own.
KeyAfterSlide(g, rnd) ==
  KeyDone(IF Dead(g) \/ AlongSlide(g, g.chip.buf) THEN g
          ELSE MoveChip(g, g.chip.buf, TRUE, rnd).g)

MouseAfterSlide(g, rnd) ==
  IF g.chip.pos = g.chip.target THEN Forget(g) ELSE MouseStep(g, TRUE, rnd)

AfterSlide ==
  /\ Runs("afterSlide")
  /\ \E k \in Draws :
       game' = IF game.chip.moved THEN [game EXCEPT !.chip.moved = FALSE]
               ELSE IF game.chip.buffered THEN KeyAfterSlide(game, k.floor)
               ELSE IF game.chip.mouse THEN MouseAfterSlide(game, k.floor)
               ELSE game
  /\ GoTo("slips")
  /\ UNCHANGED tick
-----------------------------------------------------------------------------
(***************************************************************************)
(* Phase 4: SlipLoop.  After a turn that changed the length of the list    *)
(* the same index is taken again.                                          *)
(***************************************************************************)
\* Fault: a list of the same length is taken for a changed one.
SlipMovesAgain ==
  /\ Runs("slips") /\ loop.i < Len(game.w.slips)
  /\ \E k \in Draws :
       game' = [game EXCEPT !.w = SlipTurn(@, loop.i + 1, k.floor)]
  /\ UNCHANGED <<tick, pc, loop>>

SlipMoves ==
  /\ Runs("slips") /\ loop.i < Len(game.w.slips)
  /\ \E k \in Draws :
       game' = [game EXCEPT !.w = SlipTurn(@, loop.i + 1, k.floor)]
  /\ loop' = IF Len(game'.w.slips) = Len(game.w.slips)
             THEN [loop EXCEPT !.i = @ + 1] ELSE loop
  /\ UNCHANGED <<tick, pc>>

SlipsDone ==
  /\ Runs("slips") /\ loop.i >= Len(game.w.slips)
  /\ game' = Autopsied(game)
  /\ GoTo("clock")
  /\ UNCHANGED tick

(***************************************************************************)
(* Phase 5: the clock, of whatever level there is by now.  A tick that     *)
(* wraps to 0 is no second.                                                *)
(***************************************************************************)
Clock ==
  /\ Runs("clock")
  /\ game' = IF game.time = 0 \/ tick = 0 \/ tick % 10 # 0 THEN game
             ELSE IF game.time = 1 THEN Restart(game)
             ELSE [game EXCEPT !.time = @ - 1]
  /\ GoTo("idle")
  /\ UNCHANGED tick
-----------------------------------------------------------------------------
InTick == \/ MonsterMoves \/ MonstersDone \/ SlideOn \/ Bounce \/ AfterSlide
          \/ SlipMoves \/ SlipsDone \/ Clock

Input == \/ \E d \in Compass : Arrow(d)
         \/ OtherKey
         \/ \E p \in Targets : Click(p)
         \/ RestartLevel

Next == EvenTick \/ OddTick \/ InTick \/ Input

(***************************************************************************)
(* Fairness: DoTick runs to its end, and while the timer is set it keeps   *)
(* sending messages.  These are WF_vars(InTick) and                        *)
(* WF_vars(EvenTick \/ OddTick), with ENABLED written out: some InTick     *)
(* step is enabled exactly when the program is inside a tick, and every    *)
(* step taken there is one; only the two ticks lead out of "idle".         *)
(***************************************************************************)
InsideTick == pc # "idle" /\ game.w.fault = "none"
TimerSet == Runs("idle") /\ ~game.placard /\ ~game.ending

TickGoesOn == []<>~InsideTick \/ []<><<InsideTick>>_vars
TimerFires == []<>~TimerSet \/ []<><<TimerSet /\ pc' # "idle">>_vars

Spec == Init /\ [][Next]_vars

FairSpec == Spec /\ TickGoesOn /\ TimerFires
=============================================================================

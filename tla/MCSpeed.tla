------------------------------ MODULE MCSpeed ------------------------------
(* The game with history variables that count Chip's own steps, to check    *)
(* what ChipHasMoved is for: he goes at one speed however fast the keys are.*)
EXTENDS MCGame

VARIABLES
  own,      \* steps of his own since the last even tick began
  moused    \* in that time there was a mouse target

Own == pc \in {"idle", "afterSlide"} /\ game'.chip.pos # game.chip.pos
EvenTickBegins == tick' # tick /\ tick' % 2 = 0

CountOwn ==
  LET fresh == game'.placard
      from == IF EvenTickBegins THEN 0 ELSE own
  IN  /\ own' = IF fresh THEN 0 ELSE from + (IF Own THEN 1 ELSE 0)
      /\ moused' = /\ ~fresh
                   /\ \/ game.chip.mouse \/ game'.chip.mouse
                      \/ moused /\ ~EvenTickBegins

SpeedSpec == /\ Init /\ own = 0 /\ moused = FALSE
             /\ [][Next /\ CountOwn]_<<vars, own, moused>>
             /\ TickGoesOn /\ TimerFires

\* Between one even tick and the next Chip takes one step of his own: a key
\* hit sooner is kept (MoveChip), and ChipHasMoved is cleared only by an even
\* tick that does not also move him (DoTick).  With the mouse he gains one and
\* no more: DoTick clears ChipHasMoved in the very tick that moved him.
SpeedLimit == own <= IF moused THEN 2 ELSE 1

\* To start from: a wall to run against and a block to push, with nothing
\* slippery; or the ring of ice.
WalkLevels ==
  <<PlainLevel(<< <<Chip, Block, Floor, Floor>>,
                  <<Floor, Gravel, Wall, Floor>> >>)>> \o RingLevels

Corner == {<<3, 1>>, <<0, 0>>}
=============================================================================

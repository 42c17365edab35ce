----------------------------- MODULE LevelFlow -----------------------------
(***************************************************************************)
(* What a player sees of the course of a level set, whatever happens on    *)
(* the boards: a level waits behind its placard, is played, ends with Chip *)
(* dead (and then waits again from the beginning) or done (and then the    *)
(* next one waits, or after the last one the ending runs).                 *)
(***************************************************************************)
EXTENDS Naturals

CONSTANT LastLevel        \* the number of levels

VARIABLES
  level,   \* the level loaded
  mode     \* "placard", "play", "dead" or "ending"

flow == <<level, mode>>

FlowInit == level \in 1..LastLevel /\ mode = "placard"

\* A key or a click takes the placard away.  The same key may move Chip, so
\* that whatever may end the play may also end the waiting.
Start == mode = "placard" /\ mode' = "play" /\ UNCHANGED level

\* Chip is dead, but the loop that finds out has not ended.
Die == mode # "dead" /\ mode' = "dead" /\ UNCHANGED level

\* Read the same level again: after a death, out of time, or on command.
Again == mode' = "placard" /\ UNCHANGED level

\* Chip reached the exit; even a dead one may.
Advance == level < LastLevel /\ level' = level + 1 /\ mode' = "placard"

Finish == level = LastLevel /\ mode' = "ending" /\ UNCHANGED level

FlowNext == Start \/ Die \/ Again \/ Advance \/ Finish

FlowSpec == FlowInit /\ [][FlowNext]_flow
=============================================================================

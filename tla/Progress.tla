------------------------------ MODULE Progress ------------------------------
(***************************************************************************)
(* What a player's record promises: a level opens, is done better and      *)
(* better, and stays open; the total is what its levels have earned; all of*)
(* it is forgotten only together.  A crash in the middle of writing may    *)
(* cost the agreement between the levels and the total, for ever, but not  *)
(* a level.                                                                *)
(***************************************************************************)
EXTENDS Integers

CONSTANT LastLevel

VARIABLES
  best,    \* of each level: closed, open, or done in some time for some points
  total,
  intact   \* no crash has hit the record while it was written

progress == <<best, total, intact>>

LevelNumbers == 1..LastLevel

Closed == [open |-> FALSE, time |-> -1, points |-> -1]
Reached == [open |-> TRUE, time |-> -1, points |-> -1]
Done(t, p) == [open |-> TRUE, time |-> t, points |-> p]
IsDone(e) == e.time >= 0 /\ e.points >= 0

Earned(e) == IF IsDone(e) THEN e.points ELSE 0

ProgressInit == /\ best = [l \in LevelNumbers |-> Closed]
                /\ total = 0 /\ intact = TRUE

Open(l) == /\ best[l] = Closed
           /\ best' = [best EXCEPT ![l] = Reached] /\ UNCHANGED <<total, intact>>

\* Of the old and the new time and points the better ones stay.
Improve(l) ==
  /\ intact /\ best[l].open /\ best'[l].open /\ IsDone(best'[l])
  /\ best'[l].time >= best[l].time /\ best'[l].points >= best[l].points
  /\ best' = [best EXCEPT ![l] = best'[l]]
  /\ total' = total + Earned(best'[l]) - Earned(best[l])
  /\ UNCHANGED intact

NothingClosed == \A l \in LevelNumbers : best[l].open => best'[l].open

Forget == /\ best' = [l \in LevelNumbers |-> IF l = 1 THEN Reached ELSE Closed]
          /\ total' = 0 /\ UNCHANGED intact

\* What may happen to a record that is not intact, or ceases to be: forgetting
\* may have got as far as level n, or knew no further one.
ForgottenTo(n, first) ==
  [l \in LevelNumbers |-> IF l = 1 THEN first ELSE IF l <= n THEN Closed ELSE best[l]]
Torn == /\ ~intact'
        /\ \/ NothingClosed
           \/ \E n \in LevelNumbers, first \in {Closed, Reached} : best' = ForgottenTo(n, first)

ProgressNext == (\E l \in LevelNumbers : Open(l) \/ Improve(l)) \/ Forget \/ Torn
ProgressSpec == ProgressInit /\ [][ProgressNext]_progress
=============================================================================

----------------------------- MODULE MCSession -----------------------------
(* The session with three levels, of which the second is taken for the last *)
(* and the third is the secret one, and the points that levels bring.       *)
EXTENDS Session

\* 500 points per level, a fifth less for every restart until they are few.
Bonus(l, restarts) ==
  LET bonus[n \in Nat] ==
        IF n = 0 THEN 500 * l
        ELSE IF bonus[n - 1] < 500 THEN bonus[n - 1] ELSE (4 * bonus[n - 1]) \div 5
  IN  bonus[restarts]
=============================================================================

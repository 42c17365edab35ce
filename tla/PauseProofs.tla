---------------------------- MODULE PauseProofs ----------------------------
(***************************************************************************)
(* Pause's invariants for every length of the ending animation.            *)
(*                                                                         *)
(* PauseBalance is not inductive alone: closing a box gives back what the  *)
(* box held only if the count is known to hold it, and a dialog gives back *)
(* what PauseGame took only if GamePaused still has it.  The invariant     *)
(* therefore carries both balances together, with the fact (Shape) that a  *)
(* box or dialog always belongs to a running handler; from these a modal   *)
(* loop has Var22 > 0, so WM_TIMER in it does nothing.                     *)
(***************************************************************************)
EXTENDS Pause, TLAPS

\* TypeOK in parts; nothing is said of the suspended handlers, because there
\* are none.
Flags == /\ IsLevelPlacardVisible \in BOOLEAN /\ away \in BOOLEAN
         /\ wasPaused \in BOOLEAN
Counts ==
  /\ Var22 \in Nat /\ GamePaused \in Nat /\ EndingTick \in 0..(EndingFrames + 1)
  /\ handler \in Handlers /\ dialogs \in Nat /\ box \in Boxes

\* A dialog belongs to a menu handler, a box to some handler; only Go To's
\* complaints open over a dialog, and EndGame's boxes are open only at the
\* frame that opens them.  What FUN_4_0356 read of the placard before it asks
\* about skipping the level is still so when the question is answered.
Shape ==
  /\ dialogs > 0 => handler = "menu"
  /\ box # "none" => handler # "none"
  /\ box \notin {"none", "error"} => dialogs = 0
  /\ box = "ending" => EndingTick = EndingFrames
  /\ box = "melinda" => wasPaused = IsLevelPlacardVisible

Balance == Counts /\ Shape /\ PauseBalance /\ GamePausedBalance /\ NoReentry
IInv == Flags /\ Balance

\* With nothing suspended a handler returns to the main loop.
LEMMA ReturnToMainLoop ==
  suspended = <<>> /\ Return =>
    /\ handler' = "none" /\ dialogs' = 0 /\ box' = "none"
    /\ wasPaused' = wasPaused /\ suspended' = <<>>
  BY DEF Return

\* The initial state is balanced whether or not the game starts minimised.
LEMMA InitIInv == Init => IInv
<1> SUFFICES ASSUME Init PROVE IInv
  OBVIOUS
<1>1. Flags
  BY Zenon DEF Init, Flags
<1>2. Balance
  BY EndingFramesAssumption DEF Init, Balance, Counts, Shape, PauseBalance,
     GamePausedBalance, NoReentry, Bit, Holds, Paused, Handlers, Boxes
<1> QED
  BY <1>1, <1>2 DEF IInv

\* The handlers' steps that move a flag set it to a constant, to another flag
\* or by Return, which with nothing suspended leaves wasPaused alone.
LEMMA NextFlags == IInv /\ [Next]_vars => Flags'
<1> SUFFICES ASSUME Flags, suspended = <<>>, [Next]_vars PROVE Flags'
  BY DEF IInv, Balance, NoReentry
<1> USE DEF Flags
<1>1. CASE TimerTick
  BY <1>1, Zenon DEF TimerTick
<1>2. CASE EndGameTick \/ PaintEnding
  BY <1>2, Zenon DEF EndGameTick, PaintEnding, OpenBox, Return, stack
<1>3. CASE Die \/ FinishLevel \/ HandlerReturns
  BY <1>3, Zenon DEF Die, FinishLevel, HandlerReturns, OpenBox, Return
<1>4. CASE CloseDeath \/ CloseMelinda \/ CloseComplete \/ CloseDecade
  BY <1>4, Zenon DEF CloseDeath, CloseMelinda, CloseComplete, CloseDecade,
     LoadLevel, KeepRunning, AfterLoad, Return
<1>5. CASE CloseEnding \/ CloseNewGame \/ CloseError
  BY <1>5, Zenon DEF CloseEnding, CloseNewGame, CloseError, LoadLevel, Return
<1>6. CASE KeyDown \/ Click \/ MenuPause \/ MenuLoad \/ MenuNewGame
  BY <1>6, Zenon DEF KeyDown, Click, MenuPause, MenuLoad, MenuNewGame,
     PauseGame, UnpauseGame, LoadLevel, OpenBox, stack
<1>7. CASE OpenDialog \/ DialogError \/ CloseDialog
  BY <1>7, Zenon DEF OpenDialog, DialogError, CloseDialog, OpenBox, Return
<1>8. CASE Leave \/ ComeBack \/ UNCHANGED vars
  BY <1>8, Zenon DEF Leave, ComeBack, stack, vars
<1> QED
  BY <1>1, <1>2, <1>3, <1>4, <1>5, <1>6, <1>7, <1>8 DEF Next, CloseBox

\* Every handler, box and message keeps the balances.
LEMMA NextBalance == IInv /\ [Next]_vars => Balance'
<1> SUFFICES ASSUME Flags, Balance, [Next]_vars PROVE Balance'
  BY DEF IInv
<1> USE EndingFramesAssumption
    DEF Flags, Balance, Counts, Shape, PauseBalance, GamePausedBalance,
        NoReentry, Bit, Holds, Paused, Resumed, Handlers, Boxes
<1>1. CASE TimerTick
  BY <1>1 DEF TimerTick, InLoop
<1>2. CASE EndGameTick
  BY <1>2 DEF EndGameTick, InCode, OpenBox, Return
<1>3. CASE PaintEnding
  BY <1>3 DEF PaintEnding, InLoop, stack
<1>4. CASE Die
  BY <1>4 DEF Die, Playing, InCode, OpenBox
<1>5. CASE FinishLevel
  BY <1>5 DEF FinishLevel, Playing, InCode, OpenBox
<1>6. CASE HandlerReturns
  BY <1>6 DEF HandlerReturns, Playing, InCode, Return
<1>7. CASE CloseDeath
  BY <1>7 DEF CloseDeath, LoadLevel, KeepRunning
<1>8. CASE CloseMelinda
  <2>1. /\ dialogs' = 0 /\ suspended' = <<>> /\ box' = "none"
        /\ handler' \in Handlers
    BY <1>8, ReturnToMainLoop DEF CloseMelinda, AfterLoad, KeepRunning
  <2>2. CASE IsLevelPlacardVisible
    BY <1>8, <2>1, <2>2 DEF CloseMelinda, LoadLevel
  <2>3. CASE ~IsLevelPlacardVisible
    BY <1>8, <2>1, <2>3 DEF CloseMelinda, LoadLevel
  <2> QED
    BY <2>2, <2>3
<1>9. CASE CloseComplete
  BY <1>9 DEF CloseComplete, LoadLevel, KeepRunning
<1>10. CASE CloseDecade
  BY <1>10 DEF CloseDecade, LoadLevel, KeepRunning
<1>11. CASE CloseEnding
  BY <1>11, ReturnToMainLoop DEF CloseEnding
<1>12. CASE CloseNewGame
  BY <1>12, ReturnToMainLoop DEF CloseNewGame, LoadLevel
<1>13. CASE CloseError
  BY <1>13 DEF CloseError
<1>14. CASE KeyDown
  BY <1>14 DEF KeyDown, MainLoop
<1>15. CASE Click
  BY <1>15 DEF Click, MainLoop, stack
<1>16. CASE MenuPause
  <2>1. UNCHANGED <<IsLevelPlacardVisible, EndingTick, away, handler, dialogs,
                    box, wasPaused, suspended>>
    BY <1>16 DEF MenuPause, stack
  <2>2. handler = "none" /\ dialogs = 0 /\ box = "none" /\ ~away
    BY <1>16 DEF MenuPause, MainLoop
  <2>3. CASE GamePaused # 0
    BY <1>16, <2>1, <2>2, <2>3 DEF MenuPause, UnpauseGame
  <2>4. CASE GamePaused = 0
    BY <1>16, <2>1, <2>2, <2>4 DEF MenuPause, PauseGame
  <2> QED
    BY <2>3, <2>4
<1>17. CASE MenuLoad
  <2>0. handler = "none" /\ dialogs = 0 /\ box = "none" /\ ~away
    BY <1>17 DEF MenuLoad, MainLoop
  <2>1. CASE LoadLevel(Var22, IsLevelPlacardVisible) /\ UNCHANGED stack
    <3>1. CASE IsLevelPlacardVisible
      BY <2>0, <2>1, <3>1 DEF LoadLevel, stack
    <3>2. CASE ~IsLevelPlacardVisible
      BY <2>0, <2>1, <3>2 DEF LoadLevel, stack
    <3> QED
      BY <3>1, <3>2
  <2>2. CASE /\ OpenBox("melinda") /\ handler' = "menu"
             /\ wasPaused' = IsLevelPlacardVisible
             /\ UNCHANGED <<IsLevelPlacardVisible, EndingTick, dialogs,
                            suspended>>
    <3>1. wasPaused' = IsLevelPlacardVisible'
      BY <2>2, Zenon
    <3>2. /\ Var22' = Var22 + 1 /\ GamePaused' = GamePaused /\ away' = away
          /\ EndingTick' = EndingTick /\ box' = "melinda"
          /\ handler' = "menu" /\ dialogs' = 0 /\ suspended' = <<>>
          /\ handler = "none" /\ box = "none"
          /\ IsLevelPlacardVisible' = IsLevelPlacardVisible
      BY <1>17, <2>2 DEF MenuLoad, MainLoop, OpenBox
    <3> QED
      BY <3>1, <3>2
  <2> QED
    BY <1>17, <2>1, <2>2 DEF MenuLoad
<1>18. CASE MenuNewGame
  BY <1>18 DEF MenuNewGame, MainLoop, OpenBox
<1>19. CASE OpenDialog
  BY <1>19 DEF OpenDialog, MainLoop, PauseGame
<1>20. CASE DialogError
  BY <1>20 DEF DialogError, OpenBox
<1>21. CASE CloseDialog
  BY <1>21 DEF CloseDialog, Return
<1>22. CASE Leave
  BY <1>22 DEF Leave, PauseGame, stack
<1>23. CASE ComeBack
  BY <1>23 DEF ComeBack, UnpauseGame, stack
<1>24. CASE UNCHANGED vars
  BY <1>24 DEF vars
<1> QED
  BY <1>1, <1>2, <1>3, <1>4, <1>5, <1>6, <1>7, <1>8, <1>9, <1>10, <1>11,
     <1>12, <1>13, <1>14, <1>15, <1>16, <1>17, <1>18, <1>19, <1>20, <1>21,
     <1>22, <1>23, <1>24 DEF Next, CloseBox

\* The invariant holds in every reachable state.
LEMMA IInvAlways == Spec => []IInv
<1>1. IInv /\ [Next]_vars => IInv'
  BY NextFlags, NextBalance DEF IInv
<1> QED
  BY InitIInv, <1>1, PTL DEF Spec

\* The state stays well typed.
THEOREM TypeCorrect == Spec => []TypeOK
<1>1. IInv => TypeOK
  <2> SUFFICES ASSUME IInv PROVE TypeOK
    OBVIOUS
  <2>1. suspended \in Seq(Frame)
    BY DEF IInv, Balance, NoReentry
  <2> QED
    BY <2>1, Zenon DEF IInv, Flags, Balance, Counts, TypeOK
<1> QED
  BY IInvAlways, <1>1, PTL

\* The pause count is exactly what there is to resume: PauseGame's count, the
\* placard and the open box; so UnpauseTimer never stops short at 0.
THEOREM PauseBalanced == Spec => []PauseBalance
<1>1. IInv => PauseBalance
  BY DEF IInv, Balance
<1> QED
  BY IInvAlways, <1>1, PTL

\* PauseGame and UnpauseGame balance out but for the player's own pause.
THEOREM GamePausedBalanced == Spec => []GamePausedBalance
<1>1. IInv => GamePausedBalance
  BY DEF IInv, Balance
<1> QED
  BY IInvAlways, <1>1, PTL

\* DoTick never runs inside the message loop of a box or a dialog.
THEOREM NeverReentered == Spec => []NoReentry
<1>1. IInv => NoReentry
  BY DEF IInv, Balance
<1> QED
  BY IInvAlways, <1>1, PTL

\* A tick begins only in play: no placard, no pause, window on the screen.
THEOREM TicksOnlyInPlay == Spec => TickOnlyInPlay
<1>1. IInv /\ [Next]_vars =>
        [ handler = "none" /\ handler' \in {"tick", "ending"} =>
            ~IsLevelPlacardVisible /\ ~away /\ GamePaused = 0 ]_vars
  <2> SUFFICES ASSUME IInv, Next, handler = "none",
                      handler' \in {"tick", "ending"}
               PROVE ~IsLevelPlacardVisible /\ ~away /\ GamePaused = 0
    BY DEF vars
  <2>1. TimerTick
    BY DEF Next, CloseBox, IInv, Balance, Shape, Counts, EndGameTick, InCode,
       PaintEnding, stack, Die, FinishLevel, HandlerReturns, Playing,
       CloseDeath, CloseMelinda, CloseComplete, CloseDecade, CloseEnding,
       CloseNewGame, CloseError, KeyDown, Click, MenuPause, MenuLoad,
       MenuNewGame, OpenDialog, DialogError, CloseDialog, Leave, ComeBack
  <2>2. Var22 = 0
    BY <2>1 DEF TimerTick
  <2> QED
    BY <2>2 DEF IInv, Flags, Balance, Counts, PauseBalance,
       GamePausedBalance, Bit, Holds
<1> QED
  BY IInvAlways, <1>1, PTL DEF Spec, TickOnlyInPlay

=============================================================================

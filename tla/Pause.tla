------------------------------- MODULE Pause -------------------------------
(***************************************************************************)
(* Who may run the game clock.  The window procedures of seg2.asm deliver  *)
(* WM_TIMER from whatever message loop is running: the program's own, or   *)
(* the loop inside a message box or a dialog that a handler has opened.    *)
(* Nothing but the pause count Var22 keeps DoTick from being entered while *)
(* an earlier DoTick (or a key or menu handler) is still waiting for its   *)
(* box to be closed.                                                       *)
(*                                                                         *)
(* What DoTick and MoveChip do to the board is the business of Game; here  *)
(* they are only code that may kill Chip or finish the level.              *)
(***************************************************************************)
EXTENDS Integers, Sequences

CONSTANT EndingFrames   \* EndingTick at which EndGame opens its boxes: 0x68

ASSUME EndingFramesAssumption == EndingFrames \in Nat \ {0}

VARIABLES
  Var22,                  \* the pause count; WM_TIMER is ignored unless 0
  GamePaused,             \* how many of those come from PauseGame
  IsLevelPlacardVisible,  \* the level's title is up, waiting for a key
  EndingTick,             \* frame of the ending animation, 0 when not ending
  away,                   \* the main window is minimised or hidden
  handler,                \* the handler the message loop is running
  dialogs,                \* its open dialogs that use PauseGame (they nest)
  box,                    \* its open message box, or EndLevel's dialog
  wasPaused,              \* the local of that name in FUN_4_0356
  suspended               \* handlers interrupted by DoTick inside a box

vars == <<Var22, GamePaused, IsLevelPlacardVisible, EndingTick, away,
          handler, dialogs, box, wasPaused, suspended>>
stack == <<handler, dialogs, box, wasPaused, suspended>>

\* DoTick, EndGame, MoveChip from a key, MenuItemCallback.
Handlers == {"none", "tick", "ending", "key", "menu"}
Boxes == {"none", "death", "complete", "decade", "melinda", "newGame",
          "error", "ending"}

Frame == [handler: Handlers, dialogs: Nat, box: Boxes, wasPaused: BOOLEAN]

TypeOK ==
  /\ Var22 \in Nat /\ GamePaused \in Nat /\ EndingTick \in 0..(EndingFrames + 1)
  /\ IsLevelPlacardVisible \in BOOLEAN /\ away \in BOOLEAN
  /\ handler \in Handlers /\ dialogs \in Nat /\ box \in Boxes
  /\ wasPaused \in BOOLEAN /\ suspended \in Seq(Frame)
-----------------------------------------------------------------------------
\* PauseTimer and UnpauseTimer, whose count stops at 0.
Paused(n) == n + 1
Resumed(n) == IF n = 0 THEN 0 ELSE n - 1

PauseGame ==
  /\ Var22' = Paused(Var22)
  /\ GamePaused' = GamePaused + 1

UnpauseGame ==
  /\ Var22' = Resumed(Var22)
  /\ GamePaused' = Resumed(GamePaused)

\* Fault: the level is loaded without holding the timer for its placard.
LoadLevelRunning(count, was) ==
  /\ Var22' = count
  /\ IsLevelPlacardVisible' = TRUE
  /\ EndingTick' = 0
  /\ UNCHANGED <<GamePaused, away>>

\* Fault: a second pause for a placard that already holds one.
LoadLevelTwice(count, was) ==
  /\ Var22' = Paused(count)
  /\ IsLevelPlacardVisible' = TRUE
  /\ EndingTick' = 0
  /\ UNCHANGED <<GamePaused, away>>

\* FUN_4_0356 from ClearGameState on: the placard goes up, and holds the
\* timer unless the placard found on entry already does.  The caller has
\* left count on the timer.
LoadLevel(count, was) ==
  /\ Var22' = IF was THEN count ELSE Paused(count)
  /\ IsLevelPlacardVisible' = TRUE
  /\ EndingTick' = 0
  /\ UNCHANGED <<GamePaused, away>>

\* Code runs while no modal loop does; messages arrive while one does.
InLoop == handler = "none" \/ box # "none" \/ dialogs > 0
InCode(hs) == handler \in hs /\ box = "none" /\ dialogs = 0

\* The handler returns to whoever called it.
Return ==
  IF suspended = <<>>
  THEN /\ handler' = "none" /\ dialogs' = 0 /\ box' = "none"
       /\ UNCHANGED <<wasPaused, suspended>>
  ELSE LET f == suspended[Len(suspended)]
       IN  /\ handler' = f.handler /\ dialogs' = f.dialogs /\ box' = f.box
           /\ wasPaused' = f.wasPaused
           /\ suspended' = SubSeq(suspended, 1, Len(suspended) - 1)

\* Fault: a message box that leaves the timer running.
OpenBoxRunning(b) ==
  /\ box' = b
  /\ UNCHANGED <<Var22, GamePaused, away>>

\* ShowMessageBox up to its modal loop; b says what follows the loop.
OpenBox(b) ==
  /\ box' = b
  /\ Var22' = Paused(Var22)
  /\ UNCHANGED <<GamePaused, away>>
-----------------------------------------------------------------------------
(***************************************************************************)
(* WM_TIMER.  A tick inside a modal loop would suspend that loop's handler.*)
(***************************************************************************)
TimerTick ==
  /\ InLoop /\ Var22 = 0
  /\ suspended' = IF handler = "none" THEN suspended
                  ELSE Append(suspended, [handler |-> handler, box |-> box,
                                dialogs |-> dialogs, wasPaused |-> wasPaused])
  /\ handler' = IF EndingTick = 0 THEN "tick" ELSE "ending"
  /\ box' = "none" /\ dialogs' = 0 /\ wasPaused' = FALSE
  /\ UNCHANGED <<Var22, GamePaused, IsLevelPlacardVisible, EndingTick, away>>

\* Fault: EndGame counts on after its boxes.
EndGameTickOn ==
  /\ InCode({"ending"})
  /\ IF EndingTick = EndingFrames
     THEN /\ OpenBox("ending")
          /\ UNCHANGED <<IsLevelPlacardVisible, EndingTick, handler, dialogs,
                         wasPaused, suspended>>
     ELSE /\ EndingTick' = EndingTick + 1
          /\ Return
          /\ UNCHANGED <<Var22, GamePaused, IsLevelPlacardVisible, away>>

\* EndGame(0): a frame of the animation, its boxes at the last frame.
EndGameTick ==
  /\ InCode({"ending"})
  /\ IF EndingTick = EndingFrames
     THEN /\ OpenBox("ending")
          /\ UNCHANGED <<IsLevelPlacardVisible, EndingTick, handler, dialogs,
                         wasPaused, suspended>>
     ELSE /\ EndingTick' = IF EndingTick < EndingFrames THEN EndingTick + 1
                           ELSE EndingTick
          /\ Return
          /\ UNCHANGED <<Var22, GamePaused, IsLevelPlacardVisible, away>>

\* WM_PAINT runs EndGame(1), which counts a frame too until the last.
PaintEnding ==
  /\ InLoop /\ GamePaused = 0 /\ EndingTick \in 1..(EndingFrames - 1)
  /\ EndingTick' = EndingTick + 1
  /\ UNCHANGED <<Var22, GamePaused, IsLevelPlacardVisible, away, stack>>

\* Code that can move Chip: MoveChip refuses while the timer is paused.
Playing == InCode({"key", "tick"})

\* ShowDeathMessage.  MonsterLoop and SlipLoop reach it even when this tick
\* has already loaded a level and paused the timer.
Die ==
  /\ Playing /\ (handler = "tick" \/ Var22 = 0)
  /\ OpenBox("death")
  /\ UNCHANGED <<IsLevelPlacardVisible, EndingTick, handler, dialogs,
                 wasPaused, suspended>>

\* EndLevel up to the loop of its own dialog.
FinishLevel ==
  /\ Playing /\ Var22 = 0
  /\ OpenBox("complete")
  /\ UNCHANGED <<IsLevelPlacardVisible, EndingTick, handler, dialogs,
                 wasPaused, suspended>>

HandlerReturns ==
  /\ Playing
  /\ Return
  /\ UNCHANGED <<Var22, GamePaused, IsLevelPlacardVisible, EndingTick, away>>
-----------------------------------------------------------------------------
(***************************************************************************)
(* What follows a message box once the player closes it.                   *)
(***************************************************************************)

\* The program goes on inside a handler whose code still has to return.
KeepRunning == box' = "none" /\ UNCHANGED <<handler, dialogs, suspended>>

\* A menu handler that loads a level has nothing left to do but return.
AfterLoad == IF handler = "menu" /\ dialogs = 0
             THEN Return
             ELSE KeepRunning /\ UNCHANGED wasPaused

\* Back from ShowDeathMessage: FUN_4_0356(level, 1), which notes the placard
\* and may ask whether to skip the level before it loads it.
CloseDeath ==
  /\ box = "death"
  /\ \/ /\ LoadLevel(Resumed(Var22), IsLevelPlacardVisible)
        /\ KeepRunning /\ UNCHANGED wasPaused
     \/ /\ wasPaused' = IsLevelPlacardVisible
        /\ box' = "melinda" /\ Var22' = Paused(Resumed(Var22))
        /\ UNCHANGED <<GamePaused, IsLevelPlacardVisible, EndingTick, away,
                       handler, dialogs, suspended>>

CloseMelinda ==
  /\ box = "melinda"
  /\ LoadLevel(Resumed(Var22), wasPaused)
  /\ AfterLoad

\* EndLevel after its dialog: a message on some levels, then the next level,
\* or the ending animation after the last.
CloseComplete ==
  /\ box = "complete"
  /\ \/ /\ box' = "decade" /\ Var22' = Paused(Var22)
        /\ UNCHANGED <<GamePaused, IsLevelPlacardVisible, EndingTick, away,
                       handler, dialogs, wasPaused, suspended>>
     \/ /\ LoadLevel(Resumed(Var22), IsLevelPlacardVisible)
        /\ KeepRunning /\ UNCHANGED wasPaused
     \/ /\ EndingTick' = 1 /\ Var22' = Resumed(Var22)
        /\ KeepRunning
        /\ UNCHANGED <<GamePaused, IsLevelPlacardVisible, away, wasPaused>>

CloseDecade ==
  /\ box = "decade"
  /\ LoadLevel(Resumed(Resumed(Var22)), IsLevelPlacardVisible)
  /\ KeepRunning /\ UNCHANGED wasPaused

\* The three boxes of EndGame follow one another with no loop in between.
CloseEnding ==
  /\ box = "ending"
  /\ Var22' = Resumed(Var22)
  /\ EndingTick' = IF EndingTick > 0 THEN EndingTick + 1 ELSE 0
  /\ Return
  /\ UNCHANGED <<GamePaused, IsLevelPlacardVisible, away>>

\* New Game's question: yes loads the first level.
CloseNewGame ==
  /\ box = "newGame"
  /\ \/ LoadLevel(Resumed(Var22), IsLevelPlacardVisible)
     \/ /\ Var22' = Resumed(Var22)
        /\ UNCHANGED <<GamePaused, IsLevelPlacardVisible, EndingTick, away>>
  /\ Return

\* A complaint of the Go To dialog, which stays open.
CloseError ==
  /\ box = "error"
  /\ Var22' = Resumed(Var22) /\ box' = "none"
  /\ UNCHANGED <<GamePaused, IsLevelPlacardVisible, EndingTick, away, handler,
                 dialogs, wasPaused, suspended>>
-----------------------------------------------------------------------------
(***************************************************************************)
(* The main window's own messages: only the main loop delivers them, since *)
(* a modal box disables the window that owns it.                           *)
(***************************************************************************)
MainLoop == handler = "none" /\ ~away

\* WM_KEYDOWN takes the placard down, then lets MoveChip run.
KeyDown ==
  /\ MainLoop
  /\ IsLevelPlacardVisible' = FALSE
  /\ Var22' = IF IsLevelPlacardVisible THEN Resumed(Var22) ELSE Var22
  /\ handler' = "key"
  /\ UNCHANGED <<GamePaused, EndingTick, away, dialogs, box, wasPaused,
                 suspended>>

\* So does a mouse click on the board, which only sets a target.
Click ==
  /\ MainLoop /\ IsLevelPlacardVisible
  /\ IsLevelPlacardVisible' = FALSE /\ Var22' = Resumed(Var22)
  /\ UNCHANGED <<GamePaused, EndingTick, away, stack>>

\* Fault: the menu item pauses whether or not the game is paused.
MenuPauseAlways ==
  /\ MainLoop /\ GamePaused < 2
  /\ PauseGame
  /\ UNCHANGED <<IsLevelPlacardVisible, EndingTick, away, stack>>

MenuPause ==
  /\ MainLoop
  /\ IF GamePaused # 0 THEN UnpauseGame ELSE PauseGame
  /\ UNCHANGED <<IsLevelPlacardVisible, EndingTick, away, stack>>

\* Restart, Next, Previous when no password is needed: FUN_4_0356.
MenuLoad ==
  /\ MainLoop
  /\ \/ /\ LoadLevel(Var22, IsLevelPlacardVisible)
        /\ UNCHANGED stack
     \/ /\ OpenBox("melinda") /\ handler' = "menu"
        /\ wasPaused' = IsLevelPlacardVisible
        /\ UNCHANGED <<IsLevelPlacardVisible, EndingTick, dialogs, suspended>>

MenuNewGame ==
  /\ MainLoop
  /\ OpenBox("newGame") /\ handler' = "menu"
  /\ UNCHANGED <<IsLevelPlacardVisible, EndingTick, dialogs, wasPaused,
                 suspended>>

\* About, Best Times, Go To, and the password FUN_4_115c asks for: PauseGame
\* and a dialog.  Best Times may open the password dialog over itself.
OpenDialog ==
  /\ MainLoop \/ (handler = "menu" /\ box = "none" /\ dialogs = 1)
  /\ PauseGame
  /\ handler' = "menu" /\ dialogs' = dialogs + 1
  /\ UNCHANGED <<IsLevelPlacardVisible, EndingTick, away, box, wasPaused,
                 suspended>>

DialogError ==
  /\ handler = "menu" /\ box = "none" /\ dialogs = 1
  /\ OpenBox("error")
  /\ UNCHANGED <<IsLevelPlacardVisible, EndingTick, handler, dialogs,
                 wasPaused, suspended>>

\* The dialog ends; its caller resumes the game and may load a level.  (Best
\* Times loads first and resumes last; the count comes out the same.)
CloseDialog ==
  /\ handler = "menu" /\ box = "none" /\ dialogs > 0
  /\ GamePaused' = Resumed(GamePaused)
  /\ \/ /\ Var22' = Resumed(Var22)
        /\ UNCHANGED <<IsLevelPlacardVisible, EndingTick>>
     \/ /\ dialogs = 1
        /\ Var22' = IF IsLevelPlacardVisible THEN Resumed(Var22)
                    ELSE Paused(Resumed(Var22))
        /\ IsLevelPlacardVisible' = TRUE /\ EndingTick' = 0
  /\ IF dialogs = 1 THEN Return
     ELSE /\ dialogs' = dialogs - 1
          /\ UNCHANGED <<handler, box, wasPaused, suspended>>
  /\ UNCHANGED away

\* The boss key, the system menu, Windows hiding the window: PauseGame.  They
\* may reach a main window that waits for a box.
Leave ==
  /\ InLoop /\ ~away
  /\ away' = TRUE /\ PauseGame
  /\ UNCHANGED <<IsLevelPlacardVisible, EndingTick, stack>>

ComeBack ==
  /\ InLoop /\ away
  /\ away' = FALSE /\ UnpauseGame
  /\ UNCHANGED <<IsLevelPlacardVisible, EndingTick, stack>>
-----------------------------------------------------------------------------
\* CreateWindowsAndInitGame: started minimised or not, then the first level.
Init ==
  /\ away \in BOOLEAN
  /\ GamePaused = IF away THEN 1 ELSE 0
  /\ Var22 = Paused(GamePaused) /\ IsLevelPlacardVisible = TRUE
  /\ EndingTick = 0 /\ handler = "none" /\ dialogs = 0 /\ box = "none"
  /\ wasPaused = FALSE /\ suspended = <<>>

CloseBox == \/ CloseDeath \/ CloseMelinda \/ CloseComplete \/ CloseDecade
            \/ CloseEnding \/ CloseNewGame \/ CloseError

Next ==
  \/ TimerTick \/ EndGameTick \/ PaintEnding
  \/ Die \/ FinishLevel \/ HandlerReturns \/ CloseBox
  \/ KeyDown \/ Click \/ MenuPause \/ MenuLoad \/ MenuNewGame
  \/ OpenDialog \/ DialogError \/ CloseDialog
  \/ Leave \/ ComeBack

Spec == Init /\ [][Next]_vars
-----------------------------------------------------------------------------
Bit(b) == IF b THEN 1 ELSE 0

\* What an open box keeps on the count: EndLevel holds the timer itself while
\* it shows a decade message.
Holds(b) == IF b = "none" THEN 0 ELSE IF b = "decade" THEN 2 ELSE 1

\* The timer is paused exactly as often as something is there to resume it:
\* PauseGame's count, the placard, and the open box (PauseTimer,
\* UnpauseTimer, ShowMessageBox, FUN_4_0356, EndLevel).  Were UnpauseTimer
\* ever to stop at 0 with something still paused, this would fail.
PauseBalance == Var22 = GamePaused + Bit(IsLevelPlacardVisible) + Holds(box)

\* PauseGame and UnpauseGame are balanced across dialogs that nest and a
\* window that comes and goes: what is left is the player's own pause, which
\* the menu turns on once and off again.
GamePausedBalance == GamePaused - dialogs - Bit(away) \in {0, 1}

\* DoTick is never entered while another handler waits for its box: the loop
\* counters, list lengths and board copies it holds stay its own.
NoReentry == suspended = <<>>

\* No tick begins under the level's placard, in a paused game or behind a
\* minimised window (BOARDWNDPROC's test of Var22 covers them all).
TickOnlyInPlay ==
  [][ handler = "none" /\ handler' \in {"tick", "ending"} =>
        ~IsLevelPlacardVisible /\ ~away /\ GamePaused = 0 ]_vars
=============================================================================

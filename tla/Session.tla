------------------------------- MODULE Session -------------------------------
(***************************************************************************)
(* From one start of the program to the next: which level is played, what  *)
(* the ini file keeps of it, and what becomes of that when the program is  *)
(* killed or the machine stops between two writes.                         *)
(*                                                                         *)
(* A level's line in the ini file holds its password; that it is there is  *)
(* all that is kept of it here, because the passwords of the level file do *)
(* not change.  Boxes that ask a question are answered in the step that    *)
(* puts it: nothing is written while they are up.                          *)
(***************************************************************************)
EXTENDS Integers, Sequences, FiniteSets, SequencesExt

CONSTANTS
  FakeLastLevel, LastLevel,  \* 144 and 149; the level file holds LastLevel levels
  MelindaThreshold,          \* 10
  Times,                     \* what the clock may show when a level is done
  LevelBonus(_, _),          \* the points for a level after so many restarts
  MaxRestarts                \* bound: how often a level is restarted

ASSUME SessionAssumption ==
  /\ FakeLastLevel \in Nat /\ LastLevel \in Nat /\ 1 <= FakeLastLevel
  /\ FakeLastLevel < LastLevel
  /\ MelindaThreshold \in Nat /\ Times \subseteq Nat /\ MaxRestarts \in Nat
  /\ \A l \in 1..LastLevel, r \in 0..MaxRestarts : LevelBonus(l, r) \in Nat

VARIABLES
  ini,    \* the ini file: HighestLevel, CurrentLevel, CurrentScore, level lines
  game,   \* what the program has of it in memory
  at,     \* "off", "play", "complete" (its dialog is up), "ending"
  torn    \* history: the program was stopped between two writes

vars == <<ini, game, at, torn>>

LevelNumbers == 1..LastLevel
P == INSTANCE Progress WITH best <- ini.level, total <- ini.score, intact <- ~torn

NewIni == [highest |-> 1, current |-> 1, score |-> 0,
           level |-> [l \in LevelNumbers |-> P!Closed]]
NoGame == [level |-> 1, total |-> 0, restarts |-> 0, melinda |-> 0,
           walked |-> FALSE, cheat |-> FALSE]

Init == ini = NewIni /\ game = NoGame /\ at = "off" /\ torn = FALSE

Larger(a, b) == IF a < b THEN b ELSE a
-----------------------------------------------------------------------------
(***************************************************************************)
(* A handler writes the ini file a line at a time: it is given as the file *)
(* after each of its writes.                                               *)
(***************************************************************************)
FileAfter(files) == IF files = <<>> THEN ini ELSE Last(files)

Finish(files, g, where) ==
  ini' = FileAfter(files) /\ game' = g /\ at' = where /\ UNCHANGED torn

\* The machine stops after some write that is not the last.  From then on the total
\* may be any: it is not followed, nothing depends on it.
StopsMidway(files) ==
  /\ \E k \in 1..(Len(files) - 1) : ini' = [files[k] EXCEPT !.score = 0]
  /\ game' = NoGame /\ at' = "off" /\ torn' = TRUE

Handle(files, g, where) == Finish(files, g, where) \/ StopsMidway(files)

\* TryIniPassword, for a password from the same level file.
TryIniPassword(l) == l <= 1 \/ (l \in LevelNumbers /\ ini.level[l].open)

\* Fault: the highest level is not kept up.
NotRaised(file, l) == file

\* A level that the ini file does not know yet is written down.
Raised(file, l) == [file EXCEPT !.highest = Larger(@, l)]
LevelFiles(file, l) ==
  IF file.level[l].open THEN <<>>
  ELSE LET saved == [file EXCEPT !.level[l] = P!Reached]
       IN  IF file.highest < l THEN <<saved, Raised(saved, l)>> ELSE <<saved>>

\* FUN_4_0356, after the offer to skip a level; and when it is told that the level
\* is being restarted.
Fresh(l) == [game EXCEPT !.level = l, !.restarts = 0, !.melinda = 0, !.walked = FALSE]
StartLevel(l) == Handle(LevelFiles(ini, l), Fresh(l), "play")
RestartLevel(melinda) ==
  /\ game.restarts < MaxRestarts
  /\ Finish(<<>>, [game EXCEPT !.restarts = @ + 1, !.melinda = melinda, !.walked = FALSE],
            "play")
-----------------------------------------------------------------------------
(***************************************************************************)
(* Start and end of the program.                                           *)
(***************************************************************************)
Start ==
  /\ at = "off"
  /\ LET saved == Larger(ini.current, 1)
         l == IF TryIniPassword(saved) THEN saved ELSE 1
     IN  Handle(LevelFiles(ini, l), [Fresh(l) EXCEPT !.total = ini.score], "play")

Waits == at \in {"play", "ending"}    \* the main window takes menu items

Quit == Waits /\ Finish(<<[ini EXCEPT !.current = game.level]>>, NoGame, "off")
Killed == at # "off" /\ Finish(<<>>, NoGame, "off")
-----------------------------------------------------------------------------
(***************************************************************************)
(* Playing.                                                                *)
(***************************************************************************)
\* StepCount passes MelindaStepRequirement.
Walk ==
  /\ at = "play" /\ ~game.walked
  /\ game' = [game EXCEPT !.walked = TRUE] /\ UNCHANGED <<ini, at, torn>>

LastOfSet(l) == l \in {FakeLastLevel, LastLevel}

\* Fault: whoever skips a level is still restarting one.
SkipAsRestart == Finish(<<>>, [game EXCEPT !.level = @ + 1], "play")

\* Chip died, or the menu's Restart was chosen.  After many tries that got
\* somewhere the player is offered the next level.
Skip == StartLevel(game.level + 1)
Restart ==
  /\ Waits
  /\ LET counts == game.walked /\ ~LastOfSet(game.level)
         melinda == game.melinda + (IF counts THEN 1 ELSE 0)
     IN  IF counts /\ melinda >= MelindaThreshold
         THEN Skip \/ RestartLevel(0)
         ELSE RestartLevel(melinda)

Gain(old, new) == IF P!IsDone(old) THEN new.points - old.points ELSE new.points

\* COMPLETEMSGPROC: a level that it takes for one not done before is entered
\* as it was done now, and otherwise the better time and points are.
KnownDone(l) == l <= ini.highest /\ P!IsDone(ini.level[l])
Complete ==
  /\ at = "play"
  /\ \E time \in Times :
       LET l == game.level
           old == IF KnownDone(l) THEN ini.level[l] ELSE P!Closed
           points == 10 * time + LevelBonus(l, game.restarts)
           new == P!Done(Larger(time, old.time), Larger(points, old.points))
           total == IF torn THEN 0 ELSE game.total + Gain(old, new)
           current == [ini EXCEPT !.current = l]
           entered == [current EXCEPT !.level[l] = new]
       IN  Handle(<<current, entered, [entered EXCEPT !.score = total]>>,
                  [game EXCEPT !.total = total], "complete")

\* EndLevel, when the dialog has been closed.
Onward ==
  /\ at = "complete"
  /\ IF LastOfSet(game.level) THEN Finish(<<>>, game, "ending")
     ELSE StartLevel(game.level + 1)
-----------------------------------------------------------------------------
(***************************************************************************)
(* The menu.                                                               *)
(***************************************************************************)
ToggleCheat == Waits /\ Finish(<<>>, [game EXCEPT !.cheat = ~@], at)

\* FUN_4_115c: knows is whether the player types the right password if asked.
\* Who ignores passwords is asked for one at level 145, not on the way to it.
MayGo(l, knows) ==
  \/ l = game.level
  \/ game.cheat /\ game.level # FakeLastLevel + 1
  \/ TryIniPassword(l)
  \/ knows

NextLevel(knows) ==
  /\ Waits /\ game.level < LastLevel      \* the item is greyed at the last
  /\ MayGo(game.level + 1, knows) /\ StartLevel(game.level + 1)
PreviousLevel(knows) ==
  /\ Waits /\ game.level > 1
  /\ MayGo(game.level - 1, knows) /\ StartLevel(game.level - 1)

\* GOTOLEVELMSGPROC, with a level number, a password or both.
GotoAccepts(l, knows) ==
  \/ game.cheat /\ l # FakeLastLevel + 1
  \/ TryIniPassword(l)
  \/ knows
GotoLevel(knows) ==
  /\ Waits
  /\ \E l \in LevelNumbers \ {game.level} : GotoAccepts(l, knows) /\ StartLevel(l)

\* With both fields empty and passwords ignored, level 0 is tried: there is
\* none, the level file is called corrupt, and the program quits.  (The line for
\* level 0 that it has written is never read.)
GotoNothing ==
  /\ Waits /\ game.cheat
  /\ Finish(<<[ini EXCEPT !.current = 0]>>, NoGame, "off")

\* Fault: only the lines below the highest are deleted.
ForgottenBelow(n) == [ini EXCEPT !.level = [l \in LevelNumbers |->
                                              IF l < n THEN P!Closed ELSE @[l]]]

\* The lines of levels 1 to n are deleted.
Forgotten(n) == [ini EXCEPT !.level = [l \in LevelNumbers |->
                                         IF l <= n THEN P!Closed ELSE @[l]]]
NewGame ==
  /\ Waits
  /\ LET deleted == [n \in 1..ini.highest |-> Forgotten(n)]
         lowest == [Forgotten(ini.highest) EXCEPT !.highest = 1]
         none == [lowest EXCEPT !.score = 0]
     IN  Handle(deleted \o <<lowest, none>> \o LevelFiles(none, 1),
                [Fresh(1) EXCEPT !.total = 0], "play")

Menu == \/ ToggleCheat \/ GotoNothing \/ NewGame
        \/ \E knows \in BOOLEAN : NextLevel(knows) \/ PreviousLevel(knows) \/ GotoLevel(knows)
Next == Start \/ Quit \/ Killed \/ Walk \/ Restart \/ Complete \/ Onward \/ Menu

Spec == Init /\ [][Next]_vars
-----------------------------------------------------------------------------
\* The sum of what the levels give.
Sum(gives) ==
  LET sum[l \in 0..LastLevel] == IF l = 0 THEN 0 ELSE sum[l - 1] + gives[l]
  IN  sum[LastLevel]

\* The total in the ini file is the sum of what its levels have earned, and
\* the one in memory is the same, unless the machine stopped between two
\* writes.  (COMPLETEMSGPROC adds differences to a total that is read only at
\* the start, and does so or not depending on HighestLevel, which
\* another handler keeps.)
ScoresAddUp ==
  ~torn => /\ ini.score = Sum([l \in LevelNumbers |-> P!Earned(ini.level[l])])
           /\ at # "off" => game.total = ini.score

\* The level that is played can be come back to: the ini file knows it, whichever
\* way led to it and whatever was lost before.  (FUN_4_0356 writes it down unless it
\* was told that the level is being restarted.)
PlayedIsOpen == at # "off" => ini.level[game.level].open

\* Nothing that the ini file has of a level is lost or becomes worse but by New
\* Game; a machine that stops between two writes loses nothing but the
\* agreement with the total.
KeepsRecord == P!ProgressSpec

\* "exception: always need a password for level 145" (seg4.asm): Next does not
\* take the player there without it.
SecretNeedsPassword ==
  [][NextLevel(FALSE) => \/ game'.level # FakeLastLevel + 1
                         \/ ini.level[FakeLastLevel + 1].open]_vars
=============================================================================

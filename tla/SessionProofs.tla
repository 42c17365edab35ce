--------------------------- MODULE SessionProofs ---------------------------
(***************************************************************************)
(* For every number of levels, every bonus and every clock: the level that *)
(* is played is known to the ini file, and the ini file keeps its record   *)
(* as Progress promises.                                                   *)
(***************************************************************************)
EXTENDS Session, NaturalFacts

\* A level's line: none, a password, or a password with a time and points.
Entry == {P!Closed, P!Reached} \cup {P!Done(t, p) : t \in Nat, p \in Nat}

IniType == [highest: LevelNumbers, current: 0..LastLevel, score: Nat,
            level: [LevelNumbers -> Entry]]
GameType == [level: LevelNumbers, total: Nat, restarts: 0..MaxRestarts,
             melinda: Nat, walked: BOOLEAN, cheat: BOOLEAN]

TypeOK == /\ ini \in IniType /\ game \in GameType
          /\ at \in {"off", "play", "complete", "ending"} /\ torn \in BOOLEAN

\* HighestLevel bounds what New Game has to delete, and tells COMPLETEMSGPROC
\* which levels may have been done.
HighestBounds == ~torn => \A l \in LevelNumbers : ini.level[l].open => l <= ini.highest

\* The total in memory is the one in the file.
SameTotal == ~torn /\ at # "off" => game.total = ini.score

IInv == TypeOK /\ PlayedIsOpen /\ HighestBounds /\ SameTotal

\* What a handler has to be shown to do.
Keeps == IInv' /\ [P!ProgressNext]_(P!progress)
-----------------------------------------------------------------------------
\* A line is one of three kinds.
LEMMA EntryKinds ==
  /\ P!Closed \in Entry /\ P!Reached \in Entry
  /\ \A t, p \in Nat : P!Done(t, p) \in Entry
  /\ ~P!Closed.open /\ P!Reached.open
  /\ \A e \in Entry : /\ e.open \in BOOLEAN /\ (~e.open => e = P!Closed)
                      /\ e.time \in Int /\ e.points \in Int
                      /\ e.time >= -1 /\ e.points >= -1
                      /\ P!IsDone(e) => e.open /\ e.time \in Nat /\ e.points \in Nat
                      /\ ~P!IsDone(e) => e.time = -1 /\ e.points = -1
<1>1. P!Closed \in Entry /\ P!Reached \in Entry /\ \A t, p \in Nat : P!Done(t, p) \in Entry
  BY DEF Entry
<1> USE DEF P!Closed, P!Reached, P!Done, P!IsDone
<1>2. ASSUME NEW e \in Entry
      PROVE  /\ e.open \in BOOLEAN /\ (~e.open => e = P!Closed)
             /\ e.time \in Int /\ e.points \in Int
             /\ e.time >= -1 /\ e.points >= -1
             /\ P!IsDone(e) => e.open /\ e.time \in Nat /\ e.points \in Nat
             /\ ~P!IsDone(e) => e.time = -1 /\ e.points = -1
  <2>1. CASE e = P!Closed
    BY <2>1
  <2>2. CASE e = P!Reached
    BY <2>2
  <2>3. CASE \E t, p \in Nat : e = P!Done(t, p)
    BY <2>3
  <2> QED
    BY <2>1, <2>2, <2>3 DEF Entry
<1> QED
  BY <1>1, <1>2

LEMMA SomeLevels == 1 \in LevelNumbers /\ LevelNumbers \subseteq Nat /\ LastLevel \in Nat
BY SessionAssumption DEF LevelNumbers

\* What FUN_4_0356 writes: nothing, the level's line, or the line and then the
\* highest level.
Opened(file, l) == [file EXCEPT !.level[l] = P!Reached]
LEMMA FilesOfLevel ==
  ASSUME NEW file \in IniType, NEW l \in LevelNumbers
  PROVE  \/ file.level[l].open /\ LevelFiles(file, l) = <<>>
         \/ /\ file.level[l] = P!Closed /\ l <= file.highest
            /\ LevelFiles(file, l) = <<Opened(file, l)>>
         \/ /\ file.level[l] = P!Closed /\ file.highest < l
            /\ LevelFiles(file, l) =
                 <<Opened(file, l), [Opened(file, l) EXCEPT !.highest = l]>>
<1>1. file.highest \in Nat /\ l \in Nat /\ file.level[l] \in Entry
  BY SomeLevels DEF IniType
<1>2. ~file.level[l].open => file.level[l] = P!Closed
  BY <1>1, EntryKinds
<1>3. file.highest < l => Raised(Opened(file, l), l) = [Opened(file, l) EXCEPT !.highest = l]
  BY <1>1 DEF Raised, Larger, Opened, IniType
<1>4. LevelFiles(file, l) =
        IF file.level[l].open THEN <<>>
        ELSE IF file.highest < l THEN <<Opened(file, l), Raised(Opened(file, l), l)>>
        ELSE <<Opened(file, l)>>
  BY Zenon DEF LevelFiles, Opened
<1> QED
  BY <1>1, <1>2, <1>3, <1>4

\* The level's line of a file that has just been given one.
LEMMA OpenedFile ==
  ASSUME NEW file \in IniType, NEW l \in LevelNumbers
  PROVE  /\ Opened(file, l) \in IniType
         /\ [Opened(file, l) EXCEPT !.highest = l] \in IniType
         /\ Opened(file, l).level = [file.level EXCEPT ![l] = P!Reached]
         /\ Opened(file, l).highest = file.highest
         /\ Opened(file, l).score = file.score
BY EntryKinds DEF Opened, IniType
-----------------------------------------------------------------------------
LEMMA NoGameType == NoGame \in GameType
BY SessionAssumption, SomeLevels DEF NoGame, GameType

\* The machine stops with a file that has lost nothing, or what New Game was
\* about to delete.
LEMMA Stops ==
  ASSUME IInv, NEW file \in IniType,
         ini' = [file EXCEPT !.score = 0], game' = NoGame, at' = "off", torn' = TRUE,
         \/ \A l \in LevelNumbers : ini.level[l].open => file.level[l].open
         \/ \E n \in LevelNumbers, first \in {P!Closed, P!Reached} :
              file.level = P!ForgottenTo(n, first)
  PROVE  Keeps
<1>1. ini' \in IniType /\ ini'.level = file.level
  BY DEF IniType
<1>2. IInv'
  BY <1>1, NoGameType DEF IInv, TypeOK, PlayedIsOpen, HighestBounds, SameTotal
<1>3. P!Torn
  <2>1. CASE \A l \in LevelNumbers : ini.level[l].open => file.level[l].open
    <3>1. P!NothingClosed
      BY <1>1, <2>1 DEF P!NothingClosed, P!LevelNumbers, LevelNumbers
    <3> QED
      BY <3>1 DEF P!Torn
  <2>2. CASE \E n \in LevelNumbers, first \in {P!Closed, P!Reached} :
               file.level = P!ForgottenTo(n, first)
    BY <1>1, <2>2 DEF P!Torn, P!LevelNumbers, LevelNumbers
  <2> QED
    BY <2>1, <2>2
<1> QED
  BY <1>2, <1>3 DEF Keeps, P!ProgressNext

\* A handler that starts level l keeps the record, stopped or not.
LEMMA StartsLevel ==
  ASSUME IInv, NEW l \in LevelNumbers, NEW g \in GameType, g.level = l,
         ~torn => g.total = ini.score, Handle(LevelFiles(ini, l), g, "play")
  PROVE  Keeps
<1> DEFINE opened == Opened(ini, l)
           raised == [opened EXCEPT !.highest = l]
<1>1. /\ ini \in IniType /\ ini.level \in [LevelNumbers -> Entry] /\ torn \in BOOLEAN
      /\ ini.highest \in Nat /\ l \in Nat
  BY SomeLevels DEF IInv, TypeOK, IniType
<1>2. /\ opened \in IniType /\ raised \in IniType
      /\ opened.level = [ini.level EXCEPT ![l] = P!Reached] /\ raised.level = opened.level
      /\ opened.score = ini.score /\ raised.score = ini.score
      /\ opened.highest = ini.highest /\ raised.highest = l
  <2>1. /\ opened \in IniType /\ raised \in IniType
        /\ opened.level = [ini.level EXCEPT ![l] = P!Reached]
        /\ opened.score = ini.score /\ opened.highest = ini.highest
    BY <1>1, OpenedFile
  <2>2. raised.level = opened.level /\ raised.score = opened.score /\ raised.highest = l
    BY <2>1 DEF IniType
  <2> QED
    BY <2>1, <2>2
<1>3. /\ opened.level[l].open
      /\ \A k \in LevelNumbers : /\ ini.level[k].open => opened.level[k].open
                                 /\ opened.level[k].open => k = l \/ ini.level[k].open
  BY <1>1, <1>2, EntryKinds
<1> HIDE DEF opened, raised
<1>4. ASSUME ini' = ini, game' = g, at' = "play", torn' = torn, ini.level[l].open
      PROVE  Keeps
  <2>1. IInv'
    BY <1>4 DEF IInv, TypeOK, PlayedIsOpen, HighestBounds, SameTotal
  <2> QED
    BY <1>4, <2>1 DEF Keeps, P!progress
<1>5. ASSUME ini.level[l] = P!Closed, NEW file \in {opened, raised},
             ini' = file, game' = g, at' = "play", torn' = torn,
             l <= file.highest, ini.highest <= file.highest
      PROVE  Keeps
  <2>1. file \in IniType /\ file.level = opened.level /\ file.score = ini.score
    BY <1>2
  <2>2. HighestBounds'
    <3> SUFFICES ASSUME ~torn, NEW k \in LevelNumbers, opened.level[k].open
                 PROVE  k <= file.highest
      BY <1>5, <2>1 DEF HighestBounds
    <3>1. k = l \/ k <= ini.highest
      BY <1>3 DEF IInv, HighestBounds
    <3>2. k \in Nat /\ file.highest \in Nat
      BY <2>1, SomeLevels DEF IniType
    <3> QED
      BY <1>1, <1>5, <3>1, <3>2
  <2>3. IInv'
    BY <1>3, <1>5, <2>1, <2>2 DEF IInv, TypeOK, PlayedIsOpen, SameTotal
  <2>4. P!Open(l)
    BY <1>2, <1>5, <2>1 DEF P!Open
  <2> QED
    BY <2>3, <2>4 DEF Keeps, P!ProgressNext, P!LevelNumbers, LevelNumbers
<1>6. CASE ini.level[l].open /\ LevelFiles(ini, l) = <<>>
  BY <1>4, <1>6 DEF Handle, Finish, StopsMidway, FileAfter
<1>7. CASE /\ ini.level[l] = P!Closed /\ l <= ini.highest
           /\ LevelFiles(ini, l) = <<opened>>
  BY <1>1, <1>2, <1>5, <1>7 DEF Handle, Finish, StopsMidway, FileAfter, Last
<1>8. CASE /\ ini.level[l] = P!Closed /\ ini.highest < l
           /\ LevelFiles(ini, l) = <<opened, raised>>
  <2>1. CASE Finish(<<opened, raised>>, g, "play")
    BY <1>1, <1>2, <1>5, <1>8, <2>1 DEF Finish, FileAfter, Last
  <2>2. CASE StopsMidway(<<opened, raised>>)
    <3>1. /\ ini' = [opened EXCEPT !.score = 0]
          /\ game' = NoGame /\ at' = "off" /\ torn' = TRUE
      BY <2>2 DEF StopsMidway
    <3> QED
      BY <1>2, <1>3, <3>1, Stops
  <2> QED
    BY <1>8, <2>1, <2>2 DEF Handle
<1> QED
  BY <1>1, <1>6, <1>7, <1>8, FilesOfLevel DEF opened, raised
-----------------------------------------------------------------------------
\* A handler that writes nothing about levels keeps the record.
LEMMA WritesNoLevel ==
  ASSUME IInv, NEW current \in 0..LastLevel, NEW g \in GameType,
         NEW where \in {"off", "play", "complete", "ending"},
         ini' = [ini EXCEPT !.current = current], game' = g, at' = where, torn' = torn,
         where # "off" => g.level = game.level /\ g.total = game.total /\ at # "off"
  PROVE  Keeps
<1>1. ini' \in IniType /\ ini'.level = ini.level /\ ini'.score = ini.score
      /\ ini'.highest = ini.highest
  BY DEF IInv, TypeOK, IniType
<1>2. IInv'
  BY <1>1 DEF IInv, TypeOK, PlayedIsOpen, HighestBounds, SameTotal
<1> QED
  BY <1>1, <1>2 DEF Keeps, P!progress

LEMMA WritesNothing ==
  ASSUME IInv, NEW g \in GameType, NEW where \in {"off", "play", "complete", "ending"},
         Finish(<<>>, g, where),
         where # "off" => g.level = game.level /\ g.total = game.total /\ at # "off"
  PROVE  Keeps
<1>1. ini' = ini /\ game' = g /\ at' = where /\ torn' = torn
  BY DEF Finish, FileAfter
<1>2. ini = [ini EXCEPT !.current = ini.current] /\ ini.current \in 0..LastLevel
  BY DEF IInv, TypeOK, IniType
<1> QED
  BY <1>1, <1>2, WritesNoLevel

\* Counters that start or go on keep their types.
LEMMA Recounted ==
  ASSUME NEW g \in GameType, NEW r \in 0..MaxRestarts, NEW m \in Nat
  PROVE  LET h == [g EXCEPT !.restarts = r, !.melinda = m, !.walked = FALSE]
         IN  h \in GameType /\ h.level = g.level /\ h.total = g.total
<1> DEFINE g1 == [g EXCEPT !.restarts = r]
           g2 == [g1 EXCEPT !.melinda = m]
           h == [g2 EXCEPT !.walked = FALSE]
<1>1. g1 \in GameType /\ g1.level = g.level /\ g1.total = g.total
  BY DEF GameType
<1> HIDE DEF g1
<1>2. g2 \in GameType /\ g2.level = g.level /\ g2.total = g.total
  BY <1>1 DEF GameType
<1> HIDE DEF g2
<1>3. h \in GameType /\ h.level = g.level /\ h.total = g.total
  BY <1>2 DEF GameType
<1> QED
  BY <1>3, Zenon DEF g1, g2

LEMMA FreshGame ==
  ASSUME game \in GameType, NEW l \in LevelNumbers
  PROVE  Fresh(l) \in GameType /\ Fresh(l).level = l /\ Fresh(l).total = game.total
<1> DEFINE g == [game EXCEPT !.level = l]
<1>1. g \in GameType /\ g.level = l /\ g.total = game.total
  BY DEF GameType
<1>2. 0 \in 0..MaxRestarts
  BY SessionAssumption
<1> DEFINE h == [g EXCEPT !.restarts = 0, !.melinda = 0, !.walked = FALSE]
<1>3. Fresh(l) = h
  BY Zenon DEF Fresh
<1> HIDE DEF g
<1>4. h \in GameType /\ h.level = g.level /\ h.total = g.total
  BY <1>1, <1>2, Recounted
<1> HIDE DEF h
<1> QED
  BY <1>1, <1>3, <1>4

\* Going to a level from one that is played, or from its dialog.
LEMMA GoesTo ==
  ASSUME IInv, at # "off", NEW l \in LevelNumbers, StartLevel(l)
  PROVE  Keeps
<1>1. game \in GameType
  BY DEF IInv, TypeOK
<1>2. ~torn => Fresh(l).total = ini.score
  BY <1>1, FreshGame DEF IInv, SameTotal
<1> QED
  BY <1>1, <1>2, FreshGame, StartsLevel DEF StartLevel

LEMMA InitIInv == Init => IInv
<1> SUFFICES ASSUME Init PROVE IInv
  OBVIOUS
<1>1. ini \in IniType
  BY EntryKinds, SomeLevels, SessionAssumption DEF Init, NewIni, IniType, LevelNumbers
<1>2. HighestBounds
  BY EntryKinds DEF Init, NewIni, HighestBounds
<1> QED
  BY <1>1, <1>2, NoGameType DEF Init, IInv, TypeOK, PlayedIsOpen, SameTotal

LEMMA StartKeeps == IInv /\ Start => Keeps
<1> SUFFICES ASSUME IInv, Start PROVE Keeps
  OBVIOUS
<1> DEFINE saved == Larger(ini.current, 1)
           l == IF TryIniPassword(saved) THEN saved ELSE 1
           g == [Fresh(l) EXCEPT !.total = ini.score]
<1>1. l \in LevelNumbers
  BY SessionAssumption DEF IInv, TypeOK, IniType, Larger, LevelNumbers
<1>2. g \in GameType /\ g.level = l /\ g.total = ini.score
  <2> HIDE DEF l
  <2>1. game \in GameType /\ ini.score \in Nat
    BY DEF IInv, TypeOK, IniType
  <2>2. Fresh(l) \in GameType /\ Fresh(l).level = l
    BY <1>1, <2>1, FreshGame
  <2> QED
    BY <2>1, <2>2 DEF GameType
<1>3. Handle(LevelFiles(ini, l), g, "play")
  BY Zenon DEF Start
<1> HIDE DEF l, g
<1> QED
  BY <1>1, <1>2, <1>3, StartsLevel

LEMMA OffKeeps == IInv /\ (Quit \/ Killed \/ GotoNothing) => Keeps
<1>1. IInv /\ Quit => Keeps
  <2> SUFFICES ASSUME IInv, Quit PROVE Keeps
    OBVIOUS
  <2>1. game.level \in 0..LastLevel
    BY SomeLevels DEF IInv, TypeOK, GameType, LevelNumbers
  <2>2. ini' = [ini EXCEPT !.current = game.level] /\ game' = NoGame /\ at' = "off"
        /\ torn' = torn
    BY DEF Quit, Finish, FileAfter, Last
  <2> QED
    BY <2>1, <2>2, NoGameType, WritesNoLevel
<1>2. IInv /\ GotoNothing => Keeps
  <2> SUFFICES ASSUME IInv, GotoNothing PROVE Keeps
    OBVIOUS
  <2>1. ini' = [ini EXCEPT !.current = 0] /\ game' = NoGame /\ at' = "off"
        /\ torn' = torn
    BY DEF GotoNothing, Finish, FileAfter, Last
  <2>2. 0 \in 0..LastLevel
    BY SomeLevels
  <2> QED
    BY <2>1, <2>2, NoGameType, WritesNoLevel
<1>3. IInv /\ Killed => Keeps
  BY NoGameType, WritesNothing DEF Killed
<1> QED
  BY <1>1, <1>2, <1>3

\* The offer to skip is made below the last level only.
LEMMA NextIsLevel ==
  ASSUME game \in GameType, game.level # LastLevel
  PROVE  game.level + 1 \in LevelNumbers
BY SessionAssumption DEF GameType, LevelNumbers

LEMMA RestartKeeps == IInv /\ Restart => Keeps
<1> SUFFICES ASSUME IInv, Restart PROVE Keeps
  OBVIOUS
<1>1. game \in GameType /\ at # "off"
  BY DEF IInv, TypeOK, Restart, Waits
<1>2. ASSUME NEW m \in Nat, RestartLevel(m) PROVE Keeps
  <2> DEFINE g == [game EXCEPT !.restarts = @ + 1, !.melinda = m, !.walked = FALSE]
  <2>1. g \in GameType /\ g.level = game.level /\ g.total = game.total
    <3>1. game.restarts + 1 \in 0..MaxRestarts
      BY <1>1, <1>2, SessionAssumption DEF RestartLevel, GameType
    <3> QED
      BY <1>1, <3>1, Recounted
  <2>2. Finish(<<>>, g, "play")
    BY <1>2 DEF RestartLevel
  <2> HIDE DEF g
  <2> QED
    BY <1>1, <2>1, <2>2, WritesNothing
<1>3. CASE Skip /\ game.level # LastLevel
  BY <1>1, <1>3, NextIsLevel, GoesTo DEF Skip
<1>4. game.melinda \in Nat
  BY <1>1 DEF GameType
<1>5. \/ Skip /\ game.level # LastLevel
      \/ \E m \in Nat : RestartLevel(m)
  <2>1. game.melinda + 1 \in Nat /\ game.melinda + 0 \in Nat /\ 0 \in Nat
    BY <1>4
  <2> QED
    BY <2>1 DEF Restart, LastOfSet
<1> QED
  BY <1>2, <1>3, <1>5

LEMMA MoveOnKeeps == IInv /\ (Walk \/ Onward) => Keeps
<1>1. IInv /\ Walk => Keeps
  <2> SUFFICES ASSUME IInv, Walk PROVE Keeps
    OBVIOUS
  <2>1. [game EXCEPT !.walked = TRUE] \in GameType
    BY DEF IInv, TypeOK, GameType
  <2>2. /\ [game EXCEPT !.walked = TRUE].level = game.level
        /\ [game EXCEPT !.walked = TRUE].total = game.total
    BY DEF IInv, TypeOK, GameType
  <2>3. Finish(<<>>, [game EXCEPT !.walked = TRUE], "play") /\ at # "off"
    BY DEF Walk, Finish, FileAfter
  <2> QED
    BY <2>1, <2>2, <2>3, WritesNothing
<1>2. IInv /\ Onward => Keeps
  <2> SUFFICES ASSUME IInv, Onward PROVE Keeps
    OBVIOUS
  <2>1. game \in GameType /\ at = "complete"
    BY DEF IInv, TypeOK, Onward
  <2>2. CASE Finish(<<>>, game, "ending")
    BY <2>1, <2>2, WritesNothing
  <2>3. CASE StartLevel(game.level + 1) /\ game.level # LastLevel
    BY <2>1, <2>3, NextIsLevel, GoesTo
  <2> QED
    BY <2>2, <2>3 DEF Onward, LastOfSet
<1> QED
  BY <1>1, <1>2

LEMMA MenuKeeps == IInv /\ (Menu /\ ~NewGame) => Keeps
<1> SUFFICES ASSUME IInv, Menu, ~NewGame PROVE Keeps
  OBVIOUS
<1>1. game \in GameType
  BY DEF IInv, TypeOK
<1>2. CASE ToggleCheat
  <2>1. /\ [game EXCEPT !.cheat = ~@] \in GameType
        /\ [game EXCEPT !.cheat = ~@].level = game.level
        /\ [game EXCEPT !.cheat = ~@].total = game.total
    BY <1>1 DEF GameType
  <2>2. Finish(<<>>, [game EXCEPT !.cheat = ~@], at) /\ at # "off"
        /\ at \in {"off", "play", "complete", "ending"}
    BY <1>2 DEF ToggleCheat, Waits
  <2> QED
    BY <2>1, <2>2, WritesNothing
<1>3. CASE GotoNothing
  BY <1>3, OffKeeps
<1>4. ASSUME NEW knows \in BOOLEAN, NextLevel(knows) PROVE Keeps
  <2>1. at # "off" /\ game.level # LastLevel /\ StartLevel(game.level + 1)
    BY <1>1, <1>4, SomeLevels DEF NextLevel, Waits
  <2> QED
    BY <1>1, <2>1, NextIsLevel, GoesTo
<1>5. ASSUME NEW knows \in BOOLEAN, PreviousLevel(knows) PROVE Keeps
  <2>1. at # "off" /\ game.level > 1 /\ StartLevel(game.level - 1)
    BY <1>5 DEF PreviousLevel, Waits
  <2>2. game.level - 1 \in LevelNumbers
    BY <1>1, <2>1, SessionAssumption DEF GameType, LevelNumbers
  <2> QED
    BY <2>1, <2>2, GoesTo
<1>6. ASSUME NEW knows \in BOOLEAN, GotoLevel(knows) PROVE Keeps
  BY <1>6, GoesTo DEF GotoLevel, Waits
<1> QED
  BY <1>2, <1>3, <1>4, <1>5, <1>6 DEF Menu

\* What a level that is done is worth against what was known of it.
LEMMA Improvement ==
  ASSUME IInv, at = "play", NEW time \in Times
  PROVE  LET l == game.level
             e == ini.level[l]
             old == IF KnownDone(l) THEN e ELSE P!Closed
             points == 10 * time + LevelBonus(l, game.restarts)
             new == P!Done(Larger(time, old.time), Larger(points, old.points))
         IN  /\ new \in Entry /\ new.open /\ P!IsDone(new) /\ Gain(old, new) \in Nat
             /\ ~torn => /\ new.time >= e.time /\ new.points >= e.points
                         /\ Gain(old, new) = P!Earned(new) - P!Earned(e)
<1> DEFINE l == game.level
           e == ini.level[l]
           old == IF KnownDone(l) THEN e ELSE P!Closed
           points == 10 * time + LevelBonus(l, game.restarts)
           t == Larger(time, old.time)
           n == Larger(points, old.points)
           new == P!Done(t, n)
<1>1. /\ l \in LevelNumbers /\ game.restarts \in 0..MaxRestarts
      /\ e \in Entry /\ time \in Nat
  BY SessionAssumption DEF IInv, TypeOK, IniType, GameType
<1>2. points \in Nat
  <2>1. LevelBonus(l, game.restarts) \in Nat
    BY <1>1, SessionAssumption DEF LevelNumbers
  <2> HIDE DEF l
  <2> QED
    BY <1>1, <2>1
<1>3. e.open
  BY DEF IInv, PlayedIsOpen
<1>4. ~torn => old = e \/ (~P!IsDone(e) /\ ~P!IsDone(old))
  <2>1. ~torn => l <= ini.highest
    BY <1>1, <1>3 DEF IInv, HighestBounds
  <2>2. ~P!IsDone(P!Closed)
    BY DEF P!IsDone, P!Closed
  <2> QED
    BY <2>1, <2>2 DEF KnownDone
<1>5. old \in Entry
  BY <1>1, EntryKinds
<1> HIDE DEF l, e, old, points
<1>6. /\ old.time \in Int /\ old.points \in Int /\ e.time \in Int /\ e.points \in Int
      /\ P!IsDone(old) => old.points \in Nat
      /\ ~P!IsDone(e) => e.time = -1 /\ e.points = -1
      /\ P!IsDone(e) => e.points \in Nat
  BY <1>1, <1>5, EntryKinds
<1>7. /\ t \in Nat /\ n \in Nat /\ t >= old.time /\ n >= old.points
  BY <1>1, <1>2, <1>6 DEF Larger
<1>8. /\ new \in Entry /\ new.open /\ new.time = t /\ new.points = n /\ P!IsDone(new)
  <2>1. new \in Entry
    BY <1>7, EntryKinds
  <2> QED
    BY <1>7, <2>1 DEF P!Done, P!IsDone
<1> HIDE DEF t, n, new
<1>9. /\ Gain(old, new) \in Nat
      /\ ~torn => Gain(old, new) = P!Earned(new) - P!Earned(e)
  BY <1>4, <1>6, <1>7, <1>8 DEF Gain, P!Earned
<1>10. ~torn => new.time >= e.time /\ new.points >= e.points
  BY <1>4, <1>6, <1>7, <1>8
<1> QED
  BY <1>8, <1>9, <1>10, Zenon DEF l, e, old, points, t, n, new

LEMMA CompleteKeeps == IInv /\ Complete => Keeps
<1> SUFFICES ASSUME IInv, Complete PROVE Keeps
  OBVIOUS
<1> DEFINE l == game.level
           e == ini.level[l]
           old == IF KnownDone(l) THEN e ELSE P!Closed
           points(time) == 10 * time + LevelBonus(l, game.restarts)
           new(time) == P!Done(Larger(time, old.time), Larger(points(time), old.points))
           total(time) == IF torn THEN 0 ELSE game.total + Gain(old, new(time))
           current == [ini EXCEPT !.current = l]
           entered(time) == [current EXCEPT !.level[l] = new(time)]
           scored(time) == [entered(time) EXCEPT !.score = total(time)]
<1>1. at = "play"
  BY DEF Complete
<1>2. PICK time \in Times :
        Handle(<<current, entered(time), scored(time)>>,
               [game EXCEPT !.total = total(time)], "complete")
  BY Zenon DEF Complete
<1> DEFINE done == new(time)
           sum == total(time)
<1>3. /\ done \in Entry /\ done.open /\ P!IsDone(done) /\ Gain(old, done) \in Nat
      /\ ~torn => /\ done.time >= e.time /\ done.points >= e.points
                  /\ Gain(old, done) = P!Earned(done) - P!Earned(e)
  BY <1>1, Improvement, Zenon
<1>4. /\ l \in LevelNumbers /\ l \in 0..LastLevel /\ game.total \in Nat /\ game \in GameType
      /\ ini \in IniType /\ e.open
      /\ ~torn => game.total = ini.score
  BY <1>1, SomeLevels DEF IInv, TypeOK, IniType, GameType, LevelNumbers, SameTotal,
                          PlayedIsOpen
<1>5. sum = (IF torn THEN 0 ELSE game.total + Gain(old, done)) /\ sum \in Nat
  <2>1. sum = (IF torn THEN 0 ELSE game.total + Gain(old, done))
    BY Zenon
  <2> HIDE DEF old, done, sum
  <2> QED
    BY <1>3, <1>4, <2>1
<1> HIDE DEF l, e, done, sum, old
<1> DEFINE file == [current EXCEPT !.level[l] = done]
           last == [file EXCEPT !.score = sum]
<1>6. /\ current \in IniType /\ current.level = ini.level /\ current.highest = ini.highest
  BY <1>4 DEF IniType
<1> HIDE DEF current
<1>7. /\ file \in IniType /\ file.level = [ini.level EXCEPT ![l] = done]
      /\ file.highest = ini.highest
  BY <1>3, <1>4, <1>6 DEF IniType
<1> HIDE DEF file
<1>8. /\ last \in IniType /\ last.level = file.level /\ last.highest = ini.highest
      /\ last.score = sum
  BY <1>5, <1>7 DEF IniType
<1> DEFINE g == [game EXCEPT !.total = sum]
<1>9. /\ g \in GameType /\ g.level = l /\ g.total = sum
  BY <1>4, <1>5 DEF GameType, l
<1>10. Handle(<<current, file, last>>, g, "complete")
  BY <1>2 DEF current, file, done, sum, l
<1> HIDE DEF last, g
<1>11. \A k \in LevelNumbers : /\ ini.level[k].open => file.level[k].open
                               /\ file.level[k].open => ini.level[k].open
  BY <1>3, <1>4, <1>7 DEF IniType, e
<1>12. CASE Finish(<<current, file, last>>, g, "complete")
  <2>1. ini' = last /\ game' = g /\ at' = "complete" /\ torn' = torn
    BY <1>12 DEF Finish, FileAfter, Last
  <2>2. IInv'
    <3>1. TypeOK' /\ SameTotal'
      BY <1>8, <1>9, <2>1 DEF IInv, TypeOK, SameTotal
    <3>2. HighestBounds'
      BY <1>8, <1>11, <2>1 DEF IInv, HighestBounds
    <3>3. PlayedIsOpen'
      BY <1>4, <1>8, <1>9, <1>11, <2>1 DEF PlayedIsOpen, e
    <3> QED
      BY <3>1, <3>2, <3>3 DEF IInv
  <2>3. CASE torn
    BY <1>8, <1>11, <2>1, <2>3, <2>2
       DEF Keeps, P!ProgressNext, P!Torn, P!NothingClosed, P!LevelNumbers, LevelNumbers
  <2>4. CASE ~torn
    <3>1. ini'.level[l] = done /\ ini'.level = [ini.level EXCEPT ![l] = done]
          /\ ini'.score = ini.score + P!Earned(done) - P!Earned(e)
      <4>1. P!Earned(done) \in Int /\ P!Earned(e) \in Int /\ ini.score \in Int
        BY <1>3, <1>4, EntryKinds DEF P!Earned, IniType, e
      <4> QED
        BY <1>3, <1>4, <1>5, <1>7, <1>8, <2>1, <2>4, <4>1 DEF IniType
    <3>2. P!Improve(l)
      BY <1>3, <1>4, <2>1, <2>4, <3>1 DEF P!Improve, e
    <3> QED
      BY <1>4, <2>2, <3>2 DEF Keeps, P!ProgressNext, P!LevelNumbers, LevelNumbers
  <2> QED
    BY <2>3, <2>4
<1>13. CASE StopsMidway(<<current, file, last>>)
  <2>1. /\ \/ ini' = [current EXCEPT !.score = 0]
           \/ ini' = [file EXCEPT !.score = 0]
        /\ game' = NoGame /\ at' = "off" /\ torn' = TRUE
    BY <1>13 DEF StopsMidway
  <2> QED
    BY <1>6, <1>7, <1>11, <2>1, Stops
<1> QED
  BY <1>10, <1>12, <1>13 DEF Handle

\* A file whose levels up to n have been deleted.
LEMMA ForgottenFile ==
  ASSUME IInv, NEW n \in LevelNumbers
  PROVE  /\ Forgotten(n) \in IniType /\ Forgotten(n).level = P!ForgottenTo(n, P!Closed)
         /\ Forgotten(n).level[1] = P!Closed
<1> DEFINE f == [l \in LevelNumbers |-> IF l <= n THEN P!Closed ELSE ini.level[l]]
<1>1. /\ ini \in IniType /\ ini.level \in [LevelNumbers -> Entry] /\ n >= 1 /\ 1 <= n
      /\ 1 \in LevelNumbers
  BY SomeLevels DEF IInv, TypeOK, IniType, LevelNumbers
<1>2. f = P!ForgottenTo(n, P!Closed) /\ f[1] = P!Closed
  BY <1>1 DEF P!ForgottenTo, P!LevelNumbers, LevelNumbers
<1>3. f \in [LevelNumbers -> Entry]
  BY <1>1, EntryKinds
<1>4. Forgotten(n) = [ini EXCEPT !.level = f]
  BY <1>1 DEF Forgotten, IniType
<1> HIDE DEF f
<1> QED
  BY <1>1, <1>2, <1>3, <1>4 DEF IniType

LEMMA NewGameKeeps == IInv /\ NewGame => Keeps
<1> SUFFICES ASSUME IInv, NewGame PROVE Keeps
  OBVIOUS
<1> DEFINE N == ini.highest
           deleted == [n \in 1..N |-> Forgotten(n)]
           lowest == [Forgotten(N) EXCEPT !.highest = 1]
           none == [lowest EXCEPT !.score = 0]
           g == [Fresh(1) EXCEPT !.total = 0]
           last == Opened(none, 1)
           files == deleted \o <<lowest, none>> \o <<last>>
<1>1. Handle(deleted \o <<lowest, none>> \o LevelFiles(none, 1), g, "play")
  BY Zenon DEF NewGame
<1>2. /\ ini \in IniType /\ game \in GameType /\ torn \in BOOLEAN
      /\ N \in LevelNumbers /\ 1..N \subseteq LevelNumbers /\ N \in Nat
      /\ 1 \in LevelNumbers
  BY SomeLevels DEF IInv, TypeOK, IniType, LevelNumbers
<1>3. g \in GameType /\ g.level = 1 /\ g.total = 0
  <2>1. Fresh(1) \in GameType /\ Fresh(1).level = 1
    BY <1>2, FreshGame
  <2> QED
    BY <2>1 DEF GameType
<1>4. /\ lowest \in IniType /\ lowest.level = P!ForgottenTo(N, P!Closed)
      /\ lowest.level[1] = P!Closed /\ lowest.highest = 1
  BY <1>2, ForgottenFile DEF IniType
<1> HIDE DEF N, lowest
<1>5. /\ none \in IniType /\ none.level = P!ForgottenTo(N, P!Closed)
      /\ none.level[1] = P!Closed /\ none.highest = 1 /\ none.score = 0
  BY <1>4 DEF IniType
<1> HIDE DEF none, g
<1>6. LevelFiles(none, 1) = <<last>>
  BY <1>2, <1>5, EntryKinds, FilesOfLevel
<1>7. /\ last \in IniType /\ last.score = 0 /\ last.highest = 1
      /\ last.level = [none.level EXCEPT ![1] = P!Reached]
  BY <1>2, <1>5, OpenedFile
<1> HIDE DEF last
<1>8. last.level = P!ForgottenTo(N, P!Reached)
  BY <1>5, <1>7 DEF P!ForgottenTo
<1>9. last.level[1].open
  BY <1>2, <1>5, <1>7, EntryKinds DEF IniType
<1>10. CASE Finish(files, g, "play")
  <2>1. ini' = last /\ game' = g /\ at' = "play" /\ torn' = torn
    <3>1. files # <<>> /\ Last(files) = last
      BY <1>2 DEF Last
    <3> HIDE DEF files
    <3> QED
      BY <1>10, <3>1 DEF Finish, FileAfter
  <2>2. ASSUME ~torn, NEW l \in LevelNumbers, l # 1
        PROVE  last.level[l] = P!Closed
    <3>1. last.level[l] = IF l <= N THEN P!Closed ELSE ini.level[l]
      BY <1>8, <2>2 DEF P!ForgottenTo, P!LevelNumbers, LevelNumbers
    <3>2. ~(l <= N) => ~ini.level[l].open
      BY <2>2 DEF IInv, HighestBounds, N
    <3> QED
      BY <1>2, <3>1, <3>2, EntryKinds DEF IniType
  <2>3. IInv'
    <3>1. TypeOK' /\ SameTotal' /\ PlayedIsOpen'
      BY <1>2, <1>3, <1>7, <1>9, <2>1 DEF TypeOK, SameTotal, PlayedIsOpen
    <3>2. ASSUME ~torn, NEW l \in LevelNumbers, last.level[l].open PROVE l <= 1
      <4>1. l = 1
        BY <2>2, <3>2, EntryKinds
      <4> QED
        BY <4>1
    <3>3. HighestBounds'
      BY <1>7, <2>1, <3>2 DEF HighestBounds
    <3> QED
      BY <3>1, <3>3 DEF IInv
  <2>4. CASE torn
    BY <1>2, <1>8, <2>1, <2>3, <2>4
       DEF Keeps, P!ProgressNext, P!Torn, P!LevelNumbers, LevelNumbers
  <2>5. CASE ~torn
    <3>1. last.level = [l \in LevelNumbers |-> IF l = 1 THEN P!Reached ELSE P!Closed]
      BY <1>8, <2>2, <2>5 DEF P!ForgottenTo, P!LevelNumbers, LevelNumbers
    <3>2. P!Forget
      BY <1>7, <2>1, <3>1 DEF P!Forget, P!LevelNumbers, LevelNumbers
    <3> QED
      BY <2>3, <3>2 DEF Keeps, P!ProgressNext
  <2> QED
    BY <2>4, <2>5
<1>11. CASE StopsMidway(files)
  <2>1. PICK k \in 1..(N + 2) : ini' = [files[k] EXCEPT !.score = 0]
    BY <1>2, <1>11 DEF StopsMidway
  <2>2. \/ k \in 1..N /\ files[k] = Forgotten(k)
        \/ files[k] \in {lowest, none}
    BY <1>2, <2>1
  <2> DEFINE file == files[k]
  <2>3. /\ file \in IniType
        /\ \E n \in LevelNumbers : file.level = P!ForgottenTo(n, P!Closed)
    <3> HIDE DEF file
    <3>1. CASE k \in 1..N /\ file = Forgotten(k)
      BY <1>2, <3>1, ForgottenFile
    <3>2. CASE file \in {lowest, none}
      BY <1>2, <1>4, <1>5, <3>2
    <3> QED
      BY <2>2, <3>1, <3>2 DEF file
  <2>4. game' = NoGame /\ at' = "off" /\ torn' = TRUE
    BY <1>11 DEF StopsMidway
  <2>5. ini' = [file EXCEPT !.score = 0]
    BY <2>1
  <2> HIDE DEF file
  <2> QED
    BY <2>3, <2>4, <2>5, Stops
<1> QED
  BY <1>1, <1>6, <1>10, <1>11 DEF Handle
-----------------------------------------------------------------------------
\* Every handler keeps the invariant and takes the record one step of Progress.
LEMMA NextKeeps == IInv /\ [Next]_vars => Keeps
<1> SUFFICES ASSUME IInv, [Next]_vars PROVE Keeps
  OBVIOUS
<1>1. CASE UNCHANGED vars
  BY <1>1 DEF vars, Keeps, IInv, TypeOK, PlayedIsOpen, HighestBounds, SameTotal, P!progress
<1>2. CASE Next
  BY <1>2, StartKeeps, OffKeeps, RestartKeeps, MoveOnKeeps, CompleteKeeps, MenuKeeps,
     NewGameKeeps DEF Next
<1> QED
  BY <1>1, <1>2

\* What the file and the program have of the levels always agrees as far as the
\* handlers need it (HighestLevel, the total, the level that is played).
THEOREM InvariantHolds == Spec => []IInv
<1>1. IInv /\ [Next]_vars => IInv'
  BY NextKeeps DEF Keeps
<1> QED
  BY InitIInv, <1>1, PTL DEF Spec

\* The ini file, the game in memory and the place of the program keep their types;
\* HighestLevel and CurrentLevel always name a level (or the none of an empty Go To).
THEOREM TypesKept == Spec => []TypeOK
<1>1. IInv => TypeOK
  BY DEF IInv
<1> QED
  BY InvariantHolds, <1>1, PTL

\* Whichever way led to a level, and whatever was lost before, the ini file has its
\* password while it is played (FUN_4_0356).
THEOREM PlayedCanBeComeBackTo == Spec => []PlayedIsOpen
<1>1. IInv => PlayedIsOpen
  BY DEF IInv
<1> QED
  BY InvariantHolds, <1>1, PTL

\* The session implements the record that Progress promises: no level is lost or
\* becomes worse but by New Game, and the total moves by what a level has gained.
THEOREM RecordKept == Spec => KeepsRecord
<1>1. Init => P!ProgressInit
  BY DEF Init, NewIni, P!ProgressInit, P!LevelNumbers, LevelNumbers
<1>2. IInv /\ [Next]_vars => [P!ProgressNext]_(P!progress)
  BY NextKeeps DEF Keeps
<1> QED
  BY InvariantHolds, <1>1, <1>2, PTL DEF Spec, KeepsRecord, P!ProgressSpec
-----------------------------------------------------------------------------
(***************************************************************************)
(* The total is the sum of what the levels give.                           *)
(***************************************************************************)
Gifts == [LevelNumbers -> Nat]

\* The sums of the first levels, which end in Sum.
IsSums(s, gives) ==
  /\ s[LastLevel] = Sum(gives) /\ s[0] = 0
  /\ \A l \in LevelNumbers : s[l] = s[l - 1] + gives[l]
  /\ \A l \in 0..LastLevel : s[l] \in Nat

LEMMA SumsExist ==
  ASSUME NEW gives \in Gifts
  PROVE  \E s : IsSums(s, gives)
<1> DEFINE step == [l \in 1..LastLevel |-> [n \in Nat |-> n + gives[l]]]
           sum == CHOOSE s : s = [l \in 0..LastLevel |-> IF l = 0 THEN 0
                                                         ELSE s[l - 1] + gives[l]]
<1>1. LastLevel \in Nat
  BY SomeLevels
<1>2. \A l \in 1..LastLevel : gives[l] \in Nat
  BY DEF Gifts, LevelNumbers
<1>3. step \in Steps(Nat, LastLevel)
  BY <1>2 DEF Steps
<1>4. \A l \in 1..LastLevel, n \in Nat : step[l][n] = n + gives[l]
  OBVIOUS
<1> HIDE DEF step
<1>5. PICK s : IsRun(s, Nat, LastLevel, 0, step)
  BY <1>1, <1>3, RunExists
<1>6. /\ s \in [0..LastLevel -> Nat] /\ s[0] = 0
      /\ \A l \in 1..LastLevel : s[l - 1] \in Nat /\ s[l] = s[l - 1] + gives[l]
  BY <1>1, <1>4, <1>5 DEF IsRun
<1>7. s = [l \in 0..LastLevel |-> IF l = 0 THEN 0 ELSE s[l - 1] + gives[l]]
  BY <1>1, <1>6
<1>8. sum = [l \in 0..LastLevel |-> IF l = 0 THEN 0 ELSE sum[l - 1] + gives[l]]
  BY <1>7
<1>9. Sum(gives) = sum[LastLevel]
  BY DEF Sum
<1> HIDE DEF sum
<1>10. sum[0] = 0 /\ \A l \in 1..LastLevel : sum[l] = sum[l - 1] + gives[l]
  BY <1>1, <1>8
<1>11. \A l \in 0..LastLevel : sum[l] \in Nat
  <2> DEFINE S == {l \in Nat : l <= LastLevel => sum[l] \in Nat}
  <2>1. 0 \in S
    BY <1>10
  <2>2. ASSUME NEW l \in Nat, l \in S PROVE l + 1 \in S
    BY <1>1, <1>2, <1>10, <2>2
  <2> HIDE DEF S
  <2>3. Nat \subseteq S
    BY <2>1, <2>2, NatInd
  <2> QED
    BY <1>1, <2>3 DEF S
<1> QED
  BY <1>9, <1>10, <1>11 DEF IsSums, LevelNumbers

LEMMA SumOfNothing ==
  ASSUME NEW gives \in Gifts, \A l \in LevelNumbers : gives[l] = 0
  PROVE  Sum(gives) = 0
<1>1. PICK s : IsSums(s, gives)
  BY SumsExist
<1>2. LastLevel \in Nat
  BY SomeLevels
<1> DEFINE S == {l \in Nat : l <= LastLevel => s[l] = 0}
<1>3. 0 \in S
  BY <1>1 DEF IsSums
<1>4. ASSUME NEW l \in Nat, l \in S PROVE l + 1 \in S
  BY <1>1, <1>2, <1>4 DEF IsSums, LevelNumbers
<1> HIDE DEF S
<1>5. Nat \subseteq S
  BY <1>3, <1>4, NatInd
<1> QED
  BY <1>1, <1>2, <1>5 DEF S, IsSums

\* One level gives something else.
LEMMA SumOfOneMore ==
  ASSUME NEW old \in Gifts, NEW k \in LevelNumbers, NEW n \in Nat
  PROVE  LET new == [old EXCEPT ![k] = n]
         IN  /\ new \in Gifts /\ Sum(old) \in Nat
             /\ Sum(new) = Sum(old) + n - old[k]
<1> DEFINE new == [old EXCEPT ![k] = n]
<1>1. /\ LastLevel \in Nat /\ k \in 1..LastLevel /\ new \in Gifts
      /\ old[k] \in Nat /\ new[k] = n
      /\ \A l \in 1..LastLevel : l # k => new[l] = old[l]
      /\ \A l \in 1..LastLevel : old[l] \in Nat
  BY SomeLevels DEF Gifts, LevelNumbers
<1> HIDE DEF new
<1>2. PICK s : IsSums(s, old)
  BY SumsExist
<1>3. PICK t : IsSums(t, new)
  BY <1>1, SumsExist
<1>4. /\ s[0] = 0 /\ t[0] = 0
      /\ \A l \in 1..LastLevel : s[l] = s[l - 1] + old[l] /\ t[l] = t[l - 1] + new[l]
      /\ \A l \in 0..LastLevel : s[l] \in Nat /\ t[l] \in Nat
  BY <1>2, <1>3 DEF IsSums, LevelNumbers
<1> DEFINE S == {l \in Nat : l <= LastLevel =>
                               t[l] = IF l < k THEN s[l] ELSE s[l] + n - old[k]}
<1>5. 0 \in S
  BY <1>1, <1>4
<1>6. ASSUME NEW l \in Nat, l \in S PROVE l + 1 \in S
  <2> SUFFICES ASSUME l + 1 <= LastLevel
               PROVE  t[l + 1] = IF l + 1 < k THEN s[l + 1] ELSE s[l + 1] + n - old[k]
    OBVIOUS
  <2>1. /\ l \in 0..LastLevel /\ l + 1 \in 1..LastLevel /\ (l + 1) - 1 = l
        /\ t[l] = IF l < k THEN s[l] ELSE s[l] + n - old[k]
    BY <1>1, <1>6
  <2>2. s[l + 1] = s[l] + old[l + 1] /\ t[l + 1] = t[l] + new[l + 1]
    BY <1>4, <2>1
  <2>3. s[l] \in Nat /\ t[l] \in Nat /\ old[l + 1] \in Nat
    BY <1>1, <1>4, <2>1
  <2>4. CASE l + 1 = k
    BY <1>1, <2>1, <2>2, <2>3, <2>4
  <2>5. CASE l + 1 # k
    <3>1. new[l + 1] = old[l + 1] /\ (l + 1 < k <=> l < k)
      BY <1>1, <2>1, <2>5
    <3> QED
      BY <1>1, <2>1, <2>2, <2>3, <3>1
  <2> QED
    BY <2>4, <2>5
<1> HIDE DEF S
<1>7. Nat \subseteq S
  BY <1>5, <1>6, NatInd
<1>8. t[LastLevel] = s[LastLevel] + n - old[k] /\ s[LastLevel] \in Nat
  BY <1>1, <1>4, <1>7 DEF S
<1> QED
  BY <1>1, <1>2, <1>3, <1>8 DEF IsSums, new

\* What the levels have earned, and what a step of Progress makes of it.
Earnings(levels) == [l \in LevelNumbers |-> P!Earned(levels[l])]

LEMMA EarningsType ==
  ASSUME NEW levels \in [LevelNumbers -> Entry]
  PROVE  Earnings(levels) \in Gifts
<1>1. \A l \in LevelNumbers : P!Earned(levels[l]) \in Nat
  BY EntryKinds DEF P!Earned
<1> QED
  BY <1>1 DEF Earnings, Gifts

LEMMA EarningsChange ==
  ASSUME NEW levels \in [LevelNumbers -> Entry], NEW l \in LevelNumbers, NEW e \in Entry
  PROVE  /\ Earnings([levels EXCEPT ![l] = e])
              = [Earnings(levels) EXCEPT ![l] = P!Earned(e)]
         /\ Earnings(levels)[l] = P!Earned(levels[l])
         /\ P!Earned(e) \in Nat /\ P!Earned(levels[l]) \in Nat
<1>1. P!Earned(e) \in Nat /\ P!Earned(levels[l]) \in Nat
  BY EntryKinds DEF P!Earned
<1> QED
  BY <1>1 DEF Earnings

TotalIsSum == ~torn => ini.score = Sum(Earnings(ini.level))

LEMMA SumChange ==
  ASSUME TypeOK, TypeOK', NEW l \in LevelNumbers, NEW e \in Entry,
         ini'.level = [ini.level EXCEPT ![l] = e]
  PROVE  Sum(Earnings(ini'.level))
           = Sum(Earnings(ini.level)) + P!Earned(e) - P!Earned(ini.level[l])
<1> DEFINE levels == ini.level
           old == Earnings(levels)
<1>1. levels \in [LevelNumbers -> Entry]
  BY DEF TypeOK, IniType
<1>2. old \in Gifts
  BY <1>1, EarningsType
<1>3. Earnings(ini'.level) = [old EXCEPT ![l] = P!Earned(e)]
  BY <1>1, EarningsChange
<1>4. old[l] = P!Earned(ini.level[l]) /\ P!Earned(e) \in Nat
  BY <1>1, EarningsChange
<1>5. Sum(Earnings(ini.level)) = Sum(old)
  OBVIOUS
<1> HIDE DEF old
<1>6. Sum([old EXCEPT ![l] = P!Earned(e)]) = Sum(old) + P!Earned(e) - old[l]
  BY <1>2, <1>4, SumOfOneMore
<1> QED
  BY <1>3, <1>4, <1>5, <1>6

LEMMA ForgottenEarnNothing ==
  ASSUME NEW levels \in [LevelNumbers -> {P!Closed, P!Reached}]
  PROVE  Sum(Earnings(levels)) = 0
<1>1. \A l \in LevelNumbers : P!Earned(levels[l]) = 0
  BY DEF P!Earned, P!IsDone, P!Closed, P!Reached
<1>2. Earnings(levels) \in Gifts /\ \A l \in LevelNumbers : Earnings(levels)[l] = 0
  BY <1>1 DEF Earnings, Gifts
<1> QED
  BY <1>2, SumOfNothing

LEMMA SumKept == TypeOK /\ TypeOK' /\ TotalIsSum /\ [P!ProgressNext]_(P!progress) => TotalIsSum'
<1> SUFFICES ASSUME TypeOK, TypeOK', TotalIsSum, [P!ProgressNext]_(P!progress), ~torn'
             PROVE  ini'.score = Sum(Earnings(ini'.level))
  BY DEF TotalIsSum
<1>1. /\ ini.level \in [LevelNumbers -> Entry] /\ ini'.level \in [LevelNumbers -> Entry]
      /\ P!LevelNumbers = LevelNumbers
  BY DEF TypeOK, IniType, P!LevelNumbers, LevelNumbers
<1>2. CASE UNCHANGED P!progress
  <2>1. ini'.level = ini.level /\ ini'.score = ini.score /\ ~torn
    BY <1>2 DEF P!progress
  <2> QED
    BY <2>1 DEF TotalIsSum
<1>3. ASSUME NEW l \in LevelNumbers, P!Open(l)
      PROVE  ini'.score = Sum(Earnings(ini'.level))
  <2>1. /\ ini.level[l] = P!Closed /\ ini'.level = [ini.level EXCEPT ![l] = P!Reached]
        /\ ini'.score = ini.score /\ ~torn
    BY <1>3 DEF P!Open
  <2>2. Sum(Earnings(ini'.level))
          = Sum(Earnings(ini.level)) + P!Earned(P!Reached) - P!Earned(P!Closed)
    BY <2>1, EntryKinds, SumChange
  <2>3. P!Earned(P!Reached) = 0 /\ P!Earned(P!Closed) = 0
    BY DEF P!Earned, P!IsDone, P!Closed, P!Reached
  <2>4. Sum(Earnings(ini.level)) = ini.score /\ ini.score \in Nat
    BY <2>1 DEF TotalIsSum, TypeOK, IniType
  <2> QED
    BY <2>1, <2>2, <2>3, <2>4
<1>4. ASSUME NEW l \in LevelNumbers, P!Improve(l)
      PROVE  ini'.score = Sum(Earnings(ini'.level))
  <2> DEFINE e == ini'.level[l]
  <2>1. /\ ini'.level = [ini.level EXCEPT ![l] = e]
        /\ ini'.score = ini.score + P!Earned(e) - P!Earned(ini.level[l]) /\ ~torn
    BY <1>4 DEF P!Improve
  <2>2. e \in Entry
    BY <1>1
  <2> HIDE DEF e
  <2>3. Sum(Earnings(ini'.level))
          = Sum(Earnings(ini.level)) + P!Earned(e) - P!Earned(ini.level[l])
    BY <2>1, <2>2, SumChange
  <2>4. Sum(Earnings(ini.level)) = ini.score
    BY <2>1 DEF TotalIsSum
  <2> QED
    BY <2>1, <2>3, <2>4
<1>5. CASE P!Forget
  <2>1. ini'.level \in [LevelNumbers -> {P!Closed, P!Reached}] /\ ini'.score = 0
    BY <1>1, <1>5 DEF P!Forget
  <2> QED
    BY <2>1, ForgottenEarnNothing
<1>6. ~P!Torn
  BY DEF P!Torn
<1> QED
  BY <1>1, <1>2, <1>3, <1>4, <1>5, <1>6 DEF P!ProgressNext

\* ScoresAddUp: the total is the sum of the levels' points, in the file and in
\* memory, however often levels are done again, skipped, forgotten or gone back
\* to, unless the machine stopped between two writes.
THEOREM TotalsAddUp == Spec => []ScoresAddUp
<1>1. Init => TotalIsSum
  <2> SUFFICES ASSUME Init PROVE TotalIsSum
    OBVIOUS
  <2>1. ini.score = 0 /\ ini.level = [l \in LevelNumbers |-> P!Closed]
    BY DEF Init, NewIni
  <2>2. ini.level \in [LevelNumbers -> {P!Closed, P!Reached}]
    BY <2>1
  <2> QED
    BY <2>1, <2>2, ForgottenEarnNothing DEF TotalIsSum
<1>2. IInv /\ IInv' /\ TotalIsSum /\ [Next]_vars => TotalIsSum'
  BY NextKeeps, SumKept DEF Keeps, IInv
<1>3. IInv /\ TotalIsSum => ScoresAddUp
  BY DEF IInv, SameTotal, TotalIsSum, ScoresAddUp, Earnings
<1> QED
  BY InvariantHolds, <1>1, <1>2, <1>3, PTL DEF Spec
=============================================================================

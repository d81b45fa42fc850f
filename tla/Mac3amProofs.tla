---------------------------- MODULE Mac3amProofs -----------------------------
(***************************************************************************)
(* The application implements its player and its skip records, so what is  *)
(* proved of Playback and SkipStore holds in the application, for every    *)
(* number of files and every bound.  On top of it: what only the whole has *)
(* - the login window first, silence in the middle of a skip, and that the *)
(* skips a process has pressed are those its rows have gained.             *)
(***************************************************************************)
EXTENDS Mac3am, TLAPS

PlayingOrNot == isPlaying \in BOOLEAN

\* The variables of the player are those of the instance.
LEMMA PlayerVars == UNCHANGED playerVars => UNCHANGED Player!vars
BY DEF playerVars, Player!vars, Player!playerVars, Player!buttonVars, Player!progressVars

\* A load leaves isPlaying a Boolean.
LEMMA LoadPlayingOrNot ==
    ASSUME PlayingOrNot, NEW i, NEW sel, NEW enabled, Player!LoadPlayMusic(i, sel, enabled)
    PROVE  PlayingOrNot'
BY DEF PlayingOrNot, Player!LoadPlayMusic, Player!OpenFails, Player!OpenSucceeds,
       Player!SelectRow, Player!Trap, Player!playerVars

LEMMA PlayerStepPlayingOrNot == PlayingOrNot /\ [Player!Next]_(Player!vars) => PlayingOrNot'
<1> SUFFICES ASSUME PlayingOrNot, [Player!Next]_(Player!vars) PROVE PlayingOrNot'
  OBVIOUS
<1>1. ASSUME NEW r \in Player!Rows \cup {Player!NoRow}, Player!TableViewSelectionDidChange(r)
      PROVE  PlayingOrNot'
  BY <1>1, LoadPlayingOrNot DEF Player!TableViewSelectionDidChange
<1>2. CASE Player!PlayBtnTouched
  BY <1>2 DEF PlayingOrNot, Player!PlayBtnTouched, Player!PauseOrPlay
<1>3. CASE Player!PreviousBtnTouched
  BY <1>3, LoadPlayingOrNot DEF Player!PreviousBtnTouched
<1>4. CASE Player!SkipBtnTouched
  BY <1>4, LoadPlayingOrNot DEF Player!SkipBtnTouched, Player!Trap, Player!playerVars, PlayingOrNot
<1>5. CASE Player!SongEnds \/ Player!ProgressPost \/ Player!Relaunch
  BY <1>5 DEF PlayingOrNot, Player!SongEnds, Player!ProgressPost, Player!Relaunch, Player!playerVars
<1>6. CASE Player!ProgressTick \/ Player!Terminate
  BY <1>6 DEF PlayingOrNot, Player!ProgressTick, Player!TakeSample, Player!Terminate,
              Player!Trap, Player!playerVars
<1>7. CASE UNCHANGED Player!vars
  BY <1>7 DEF PlayingOrNot, Player!vars, Player!playerVars
<1> QED BY <1>1, <1>2, <1>3, <1>4, <1>5, <1>6, <1>7 DEF Player!Next

\* Every step of the application is a step of the player or leaves it alone; to
\* the player, a skip that stops the song looks like the end of the song.
LEMMA StepOfPlayer == PlayingOrNot /\ [Next]_vars => [Player!Next]_(Player!vars)
<1> SUFFICES ASSUME PlayingOrNot, [Next]_vars PROVE [Player!Next]_(Player!vars)
  OBVIOUS
<1>1. CASE Login
  BY <1>1, PlayerVars DEF Login
<1>2. CASE Mouse
  BY <1>2 DEF Mouse, Player!Next
<1>3. CASE SkipBegins
  <2>1. CASE currentMusicIndex \in Player!Rows
    <3>1. /\ alive /\ isPlaying' = FALSE
          /\ UNCHANGED <<alive, currentMusicIndex, selectedRow, player, currentMusicPlayer,
                         playBtnEnabled, playBtnImage, maxValue, shown, progressRunning, ticks>>
      BY <1>3, <2>1 DEF SkipBegins, SkipToSave, Record
    <3>2. CASE isPlaying
      BY <3>1, <3>2 DEF Player!SongEnds, Player!Next, Player!buttonVars, Player!progressVars
    <3>3. CASE ~isPlaying
      BY <3>1, <3>3, PlayerVars DEF PlayingOrNot, playerVars
    <3> QED BY <3>2, <3>3
  <2>2. CASE currentMusicIndex \notin Player!Rows
    BY <1>3, <2>2 DEF SkipBegins, SkipToSave, Player!Next
  <2> QED BY <2>1, <2>2
<1>4. CASE SkipMoves
  BY <1>4 DEF SkipMoves, Player!Next
<1>5. CASE Background
  BY <1>5 DEF Background, Player!Next
<1>6. CASE Quit
  BY <1>6, PlayerVars DEF Quit, Player!Next
<1>7. CASE Kill
  BY <1>7 DEF Kill, Player!Next
<1>8. CASE Launch
  BY <1>8 DEF Launch, Player!Next
<1>9. CASE UNCHANGED vars
  BY <1>9, PlayerVars DEF vars
<1> QED BY <1>1, <1>2, <1>3, <1>4, <1>5, <1>6, <1>7, <1>8, <1>9 DEF Next

\* The application implements its player.
THEOREM PlaybackImplemented == Spec => ImplementsPlayback
<1>1. Init => Player!Init /\ PlayingOrNot
  BY DEF Init, Player!Init, PlayingOrNot
<1>2. PlayingOrNot /\ [Next]_vars => PlayingOrNot'
  BY StepOfPlayer, PlayerStepPlayingOrNot
<1> QED BY <1>1, <1>2, StepOfPlayer, PTL DEF Spec, ImplementsPlayback, Player!Spec

-----------------------------------------------------------------------------
LEMMA StoreVars == UNCHANGED storeVars => UNCHANGED Store!vars
BY DEF storeVars, Store!vars

LEMMA FollowingIsStoreStep == StoreFollows => [Store!Next]_(Store!vars)
BY StoreVars DEF StoreFollows, Store!Next

\* Every step of the application is a step of the skip records or leaves them.
LEMMA StepOfStore == [Next]_vars => [Store!Next]_(Store!vars)
<1> SUFFICES ASSUME [Next]_vars PROVE [Store!Next]_(Store!vars)
  OBVIOUS
<1>1. CASE Login
  BY <1>1, StoreVars DEF Login
<1>2. CASE Mouse
  BY <1>2, FollowingIsStoreStep DEF Mouse
<1>3. CASE SkipBegins
  <2>1. CASE currentMusicIndex \in Player!Rows
    <3>1. Store!RecordSkip(currentMusicIndex)
      BY <1>3, <2>1 DEF SkipBegins, SkipToSave, Record
    <3> QED BY <2>1, <3>1 DEF Store!Next, Player!Rows
  <2>2. CASE currentMusicIndex \notin Player!Rows
    BY <1>3, <2>2 DEF SkipBegins, SkipToSave, Store!Next
  <2> QED BY <2>1, <2>2
<1>4. CASE SkipMoves
  BY <1>4, FollowingIsStoreStep DEF SkipMoves
<1>5. CASE Background
  BY <1>5, FollowingIsStoreStep DEF Background
<1>6. CASE Quit
  BY <1>6 DEF Quit, Store!Next
<1>7. CASE Kill
  BY <1>7 DEF Kill, Store!Next
<1>8. CASE Launch
  BY <1>8 DEF Launch, Store!Next
<1>9. CASE UNCHANGED vars
  BY <1>9, StoreVars DEF vars
<1> QED BY <1>1, <1>2, <1>3, <1>4, <1>5, <1>6, <1>7, <1>8, <1>9 DEF Next

\* The application implements the skip records: splitting a skip, and a process
\* that ends in the middle of one, add no behaviour to them.
THEOREM SkipStoreImplemented == Spec => ImplementsSkipStore
<1>1. Init => Store!Init
  BY DEF Init
<1> QED BY <1>1, StepOfStore, PTL DEF Spec, ImplementsSkipStore, Store!Spec

-----------------------------------------------------------------------------
(***************************************************************************)
(* What is proved of the skip records holds in the application.            *)
(***************************************************************************)

StoreProofs == INSTANCE SkipStoreProofs WITH Songs <- 0 .. Count - 1

\* The instance of the proofs has the steps of the instance of the specification.
LEMMA SameSteps ==
    /\ Store!Init => StoreProofs!Init
    /\ [Store!Next]_(Store!vars) => [StoreProofs!Next]_(StoreProofs!vars)
BY DEF Store!Init, StoreProofs!Init, Store!Next, StoreProofs!Next, Store!vars, StoreProofs!vars,
       Store!RecordSkip, StoreProofs!RecordSkip, Store!CountSkip, StoreProofs!CountSkip,
       Store!SaveAttempt, StoreProofs!SaveAttempt, Store!InsertRow, StoreProofs!InsertRow,
       Store!RaiseRow, StoreProofs!RaiseRow, Store!RowsOf, StoreProofs!RowsOf,
       Store!ShouldTerminate, StoreProofs!ShouldTerminate,
       Store!HasChanges, StoreProofs!HasChanges,
       Store!ErrorPresented, StoreProofs!ErrorPresented,
       Store!CancelChosen, StoreProofs!CancelChosen,
       Store!QuitAnywayChosen, StoreProofs!QuitAnywayChosen,
       Store!Crash, StoreProofs!Crash, Store!Launch, StoreProofs!Launch,
       Store!Alive, StoreProofs!Alive

\* No song has two rows in the application, whatever is skipped, quit, killed and
\* launched again, as long as no fetch throws.
THEOREM UniqueRows == Spec => []OneRowPerSong
<1>1. StoreProofs!Spec => []StoreProofs!OneRowPerSong
  BY StoreProofs!UniqueRows, StoreAssumption
     DEF StoreProofs!FetchAssumption, StoreProofs!BoundAssumption
<1>2. StoreProofs!OneRowPerSong => OneRowPerSong
  BY DEF OneRowPerSong, Store!OneRowPerSong, StoreProofs!OneRowPerSong
<1> QED
  BY <1>1, <1>2, SameSteps, SkipStoreImplemented, PTL
     DEF ImplementsSkipStore, Store!Spec, StoreProofs!Spec

-----------------------------------------------------------------------------
\* What is pending is gone with its process.  A launch needs it: the login window
\* of the next process has nothing to save.
NothingPendingAfterwards == ~alive => context = store

AppInv ==
    /\ alive \in BOOLEAN
    /\ LoginComesFirst
    /\ NothingPendingAfterwards
    /\ SilentWhileSkipping

\* A handler of the player that changes neither screen nor skipping, in a process
\* that shows the player or did not touch the player.
LEMMA FollowingKeepsAppInv ==
    ASSUME AppInv, alive, alive' \in BOOLEAN, StoreFollows, UNCHANGED screen,
           screen = "login" => UNCHANGED <<player, skipping>>,
           skipping' => skipping /\ (alive' => ~isPlaying')
    PROVE  AppInv'
<1>1. CASE alive'
  BY <1>1 DEF AppInv, LoginComesFirst, NothingPendingAfterwards, SilentWhileSkipping,
              StoreFollows, storeVars, Store!Alive, Store!HasChanges
<1>2. CASE ~alive'
  BY <1>2 DEF AppInv, LoginComesFirst, NothingPendingAfterwards, SilentWhileSkipping,
              StoreFollows, Store!Crash, Store!Alive, Store!HasChanges
<1> QED BY <1>1, <1>2

\* A load leaves alive a Boolean.
LEMMA LoadAliveOrNot ==
    ASSUME alive, NEW i, NEW sel, NEW enabled, Player!LoadPlayMusic(i, sel, enabled)
    PROVE  alive' \in BOOLEAN
BY DEF Player!LoadPlayMusic, Player!OpenFails, Player!OpenSucceeds, Player!NewPlayer, Player!Trap

LEMMA NextAppInv == AppInv /\ [Next]_vars => AppInv'
<1> SUFFICES ASSUME AppInv, [Next]_vars PROVE AppInv'
  OBVIOUS
<1>1. CASE Login
  BY <1>1 DEF Login, AppInv, LoginComesFirst, NothingPendingAfterwards, SilentWhileSkipping,
              playerVars, storeVars, Store!Alive, Store!HasChanges
<1>2. CASE Mouse
  <2>1. alive /\ alive' \in BOOLEAN
    BY <1>2, LoadAliveOrNot
       DEF Mouse, Player!TableViewSelectionDidChange, Player!PlayBtnTouched, Player!PauseOrPlay,
           Player!PreviousBtnTouched
  <2> QED BY <1>2, <2>1, FollowingKeepsAppInv DEF Mouse, appVars
<1>3. CASE SkipBegins
  <2>1. CASE currentMusicIndex \in Player!Rows
    BY <1>3, <2>1 DEF SkipBegins, SkipToSave, Record, Store!RecordSkip, AppInv, LoginComesFirst,
                      NothingPendingAfterwards, SilentWhileSkipping
  <2>2. CASE currentMusicIndex \notin Player!Rows
    <3>1. alive' = FALSE /\ Store!Crash
      BY <1>3, <2>2 DEF SkipBegins, SkipToSave, Player!SkipBtnTouched, Player!Trap
    <3> QED BY <3>1 DEF AppInv, LoginComesFirst, NothingPendingAfterwards, SilentWhileSkipping,
                        Store!Crash, Store!Alive
  <2> QED BY <2>1, <2>2
<1>4. CASE SkipMoves
  <2>1. alive /\ alive' \in BOOLEAN
    BY <1>4, LoadAliveOrNot DEF SkipMoves, Player!SkipBtnTouched, Player!Trap
  <2>2. screen # "login"
    BY <1>4, <2>1 DEF SkipMoves, AppInv, LoginComesFirst
  <2> QED BY <1>4, <2>1, <2>2, FollowingKeepsAppInv DEF SkipMoves
<1>5. CASE Background
  <2>1. alive /\ alive' \in BOOLEAN
    BY <1>5 DEF Background, Player!ProgressPost, Player!ProgressTick, Player!TakeSample,
                Player!SongEnds, Player!Trap
  <2>2. player' = player
    BY <1>5 DEF Background, Player!ProgressPost, Player!ProgressTick, Player!TakeSample,
                Player!SongEnds, Player!Trap, Player!playerVars
  <2>3. skipping' => skipping /\ ~isPlaying'
    BY <1>5, <2>1 DEF Background, Player!ProgressPost, Player!SongEnds, Player!playerVars,
                      appVars, AppInv, SilentWhileSkipping
  <2> QED BY <1>5, <2>1, <2>2, <2>3, FollowingKeepsAppInv DEF Background, appVars
<1>6. CASE Quit
  <2>1. alive
    BY <1>6 DEF Quit, AppInv, LoginComesFirst, Store!Alive, Store!ShouldTerminate,
                Store!ErrorPresented, Store!CancelChosen, Store!QuitAnywayChosen
  <2>2. CASE phase' = "quit"
    <3>1. alive' = FALSE
      BY <1>6, <2>2 DEF Quit, Player!Terminate, Player!Trap
    <3>2. context' = store'
      BY <1>6, <2>2 DEF Quit, Store!ShouldTerminate, Store!HasChanges, Store!ErrorPresented,
                        Store!CancelChosen, Store!QuitAnywayChosen
    <3> QED BY <2>2, <3>1, <3>2 DEF AppInv, LoginComesFirst, NothingPendingAfterwards,
                                    SilentWhileSkipping, Store!Alive
  <2>3. CASE phase' # "quit"
    <3>1. UNCHANGED <<alive, player, isPlaying, context, store, screen, skipping>>
      BY <1>6, <2>3 DEF Quit, playerVars, appVars, Store!ShouldTerminate, Store!ErrorPresented,
                        Store!CancelChosen, Store!QuitAnywayChosen
    <3>2. phase' \in Store!Alive
      BY <1>6, <2>3 DEF Quit, Store!ShouldTerminate, Store!ErrorPresented,
                        Store!CancelChosen, Store!QuitAnywayChosen, Store!Alive
    <3> QED BY <2>1, <3>1, <3>2 DEF AppInv, LoginComesFirst, NothingPendingAfterwards,
                                    SilentWhileSkipping, Store!HasChanges
  <2> QED BY <2>2, <2>3
<1>7. CASE Kill
  BY <1>7 DEF Kill, Player!Terminate, Player!Trap, Store!Crash, Store!Alive, AppInv,
              LoginComesFirst, NothingPendingAfterwards, SilentWhileSkipping
<1>8. CASE Launch
  BY <1>8 DEF Launch, Player!Relaunch, Store!Launch, Store!Alive, Store!HasChanges, AppInv,
              LoginComesFirst, NothingPendingAfterwards, SilentWhileSkipping
<1>9. CASE UNCHANGED vars
  BY <1>9 DEF vars, playerVars, storeVars, appVars, AppInv, LoginComesFirst,
              NothingPendingAfterwards, SilentWhileSkipping, Store!HasChanges
<1> QED BY <1>1, <1>2, <1>3, <1>4, <1>5, <1>6, <1>7, <1>8, <1>9 DEF Next

\* The login window comes first in every process, with nothing played and nothing
\* to save, and no song sounds in the middle of a skip.
THEOREM AppInvariant == Spec => [](LoginComesFirst /\ SilentWhileSkipping)
<1>1. Init => AppInv
  BY DEF Init, Player!Init, Store!Init, AppInv, LoginComesFirst, NothingPendingAfterwards,
         SilentWhileSkipping, Store!Alive, Store!HasChanges
<1>2. AppInv => LoginComesFirst /\ SilentWhileSkipping
  BY DEF AppInv
<1> QED BY <1>1, <1>2, NextAppInv, PTL DEF Spec
-----------------------------------------------------------------------------
(***************************************************************************)
(* The skips a process knows of: those stored when it started and those    *)
(* pressed since.  Totals over rows change as SkipStoreProofs says.        *)
(***************************************************************************)

\* The rows of the instance.
StoreRow == [name : Player!Rows, skip : Nat \ {0}]

\* The two instances of SkipStore count the same skips.
LEMMA SameTotal == \A rows, s : Store!Total(rows, s) = StoreProofs!Total(rows, s)
BY DEF Store!Total, Store!Share, StoreProofs!Total, StoreProofs!Share

\* A total is a natural number.
LEMMA TotalsType ==
    ASSUME NEW rows \in Seq(StoreRow)
    PROVE  Totals(rows) \in [Player!Rows -> Nat]
<1>1. \A s : StoreProofs!Total(rows, s) \in Nat
  BY StoreProofs!TotalType, StoreAssumption
     DEF StoreProofs!FetchAssumption, StoreProofs!BoundAssumption, StoreProofs!Row,
         StoreRow, Player!Rows
<1> QED
  BY <1>1, SameTotal DEF Totals

\* Recording a skip raises the total of its song by one.
LEMMA RecordTotals ==
    ASSUME NEW i \in Player!Rows, context \in Seq(StoreRow), Store!RecordSkip(i)
    PROVE  Totals(context') = [Totals(context) EXCEPT ![i] = @ + 1]
<1>1. StoreProofs!CountSkip(i)
  BY DEF Store!RecordSkip, Store!CountSkip, StoreProofs!CountSkip,
         Store!InsertRow, StoreProofs!InsertRow, Store!RaiseRow, StoreProofs!RaiseRow,
         Store!RowsOf, StoreProofs!RowsOf
<1>2. \A t : StoreProofs!Total(context', t)
                = StoreProofs!Total(context, t) + (IF t = i THEN 1 ELSE 0)
  BY <1>1, StoreProofs!CountSkipTotal, StoreAssumption
     DEF StoreProofs!FetchAssumption, StoreProofs!BoundAssumption, StoreProofs!Row,
         StoreRow, Player!Rows
<1>3. Totals(context) \in [Player!Rows -> Nat]
  BY TotalsType
<1> DEFINE old == Totals(context)
           new == Totals(context')
<1>4. \A t \in Player!Rows : new[t] = old[t] + (IF t = i THEN 1 ELSE 0)
  BY <1>2, SameTotal DEF Totals
<1>5. old \in [Player!Rows -> Nat] /\ new = [t \in Player!Rows |-> new[t]]
  BY <1>3 DEF Totals
<1> HIDE DEF old, new
<1>6. new = [old EXCEPT ![i] = @ + 1]
  <2>1. \A t \in Player!Rows : new[t] = [old EXCEPT ![i] = @ + 1][t]
    BY <1>4, <1>5
  <2> QED BY ONLY <1>5, <2>1
<1> QED
  BY <1>6 DEF old, new

\* What the two properties need besides AppInv: what the rows and counts are.
CountsOK ==
    /\ context \in Seq(StoreRow)
    /\ store \in Seq(StoreRow)
    /\ atLaunch \in [Player!Rows -> Nat]
    /\ pressed \in [Player!Rows -> Nat]

\* The inductive invariant of the two properties.
SkipsInv ==
    /\ AppInv
    /\ CountsOK
    /\ SkipsGoToTheSkippedSong

\* The rows are rows in the application as they are in the skip records.
LEMMA RowsAlways == Spec => [](context \in Seq(StoreRow) /\ store \in Seq(StoreRow))
<1>1. StoreProofs!Spec => []StoreProofs!TypeOK
  BY StoreProofs!TypeCorrect, StoreAssumption
     DEF StoreProofs!FetchAssumption, StoreProofs!BoundAssumption
<1>2. StoreProofs!TypeOK => context \in Seq(StoreRow) /\ store \in Seq(StoreRow)
  BY DEF StoreProofs!TypeOK, StoreProofs!Row, StoreRow, Player!Rows
<1> QED
  BY <1>1, <1>2, SameSteps, SkipStoreImplemented, PTL
     DEF ImplementsSkipStore, Store!Spec, StoreProofs!Spec

\* What a step does to what a process knows of its skips: it presses one and
\* records it, starts a process, ends one, or does none of the three.
LEMMA StepOfSkips ==
    ASSUME AppInv, [Next]_vars
    PROVE  \/ /\ alive' = alive
              /\ \E i \in Player!Rows :
                    /\ Store!RecordSkip(i)
                    /\ pressed' = [pressed EXCEPT ![i] = @ + 1]
                    /\ UNCHANGED atLaunch
           \/ /\ Launch
              /\ context = store
           \/ alive' = FALSE /\ UNCHANGED auxVars
           \/ alive' = alive /\ UNCHANGED <<context, auxVars>>
<1>1. ASSUME StoreFollows, UNCHANGED auxVars, alive, alive' \in BOOLEAN
      PROVE  \/ alive' = FALSE /\ UNCHANGED auxVars
             \/ alive' = alive /\ UNCHANGED <<context, auxVars>>
  BY <1>1 DEF StoreFollows, storeVars, AppInv
<1>2. CASE Login
  BY <1>2 DEF Login, playerVars, storeVars
<1>3. CASE Mouse
  <2>1. alive /\ alive' \in BOOLEAN
    BY <1>3, LoadAliveOrNot
       DEF Mouse, Player!TableViewSelectionDidChange, Player!PlayBtnTouched, Player!PauseOrPlay,
           Player!PreviousBtnTouched
  <2> QED BY <1>1, <1>3, <2>1 DEF Mouse
<1>4. CASE SkipBegins
  <2>1. CASE currentMusicIndex \in Player!Rows
    BY <1>4, <2>1 DEF SkipBegins, SkipToSave, Record
  <2>2. CASE currentMusicIndex \notin Player!Rows
    BY <1>4, <2>2 DEF SkipBegins, SkipToSave, Player!SkipBtnTouched, Player!Trap
  <2> QED BY <2>1, <2>2
<1>5. CASE SkipMoves
  <2>1. alive /\ alive' \in BOOLEAN
    BY <1>5, LoadAliveOrNot DEF SkipMoves, Player!SkipBtnTouched, Player!Trap
  <2> QED BY <1>1, <1>5, <2>1 DEF SkipMoves
<1>6. CASE Background
  <2>1. alive /\ alive' \in BOOLEAN
    BY <1>6 DEF Background, Player!ProgressPost, Player!ProgressTick, Player!TakeSample,
                Player!SongEnds, Player!Trap
  <2> QED BY <1>1, <1>6, <2>1 DEF Background
<1>7. CASE Quit
  <2>1. CASE phase' = "quit"
    BY <1>7, <2>1 DEF Quit, Player!Terminate, Player!Trap
  <2>2. CASE phase' # "quit"
    BY <1>7, <2>2 DEF Quit, playerVars, Store!ShouldTerminate, Store!ErrorPresented,
                      Store!CancelChosen, Store!QuitAnywayChosen
  <2> QED BY <1>7, <2>1, <2>2 DEF Quit
<1>8. CASE Kill
  BY <1>8 DEF Kill, Player!Terminate, Player!Trap
<1>9. CASE Launch
  BY <1>9 DEF Launch, Player!Relaunch, AppInv, NothingPendingAfterwards
<1>10. CASE UNCHANGED vars
  BY <1>10 DEF vars, playerVars, storeVars
<1> QED
  BY <1>2, <1>3, <1>4, <1>5, <1>6, <1>7, <1>8, <1>9, <1>10 DEF Next

\* Every step keeps what the process knows of its skips equal to the totals.
LEMMA NextSkipsInv ==
    ASSUME SkipsInv, (context \in Seq(StoreRow) /\ store \in Seq(StoreRow))', [Next]_vars
    PROVE  SkipsInv'
<1>1. AppInv'
  BY NextAppInv DEF SkipsInv
<1>2. /\ context \in Seq(StoreRow) /\ store \in Seq(StoreRow)
      /\ atLaunch \in [Player!Rows -> Nat] /\ pressed \in [Player!Rows -> Nat]
      /\ AppInv
  BY DEF SkipsInv, CountsOK
<1>3. Totals(context) \in [Player!Rows -> Nat] /\ Totals(store) \in [Player!Rows -> Nat]
  BY <1>2, TotalsType
<1>4. ASSUME NEW i \in Player!Rows, Store!RecordSkip(i), alive' = alive,
             pressed' = [pressed EXCEPT ![i] = @ + 1], UNCHANGED atLaunch
      PROVE  CountsOK' /\ SkipsGoToTheSkippedSong'
  <2>1. CountsOK'
    BY <1>2, <1>4 DEF CountsOK
  <2>2. Totals(context') = [Totals(context) EXCEPT ![i] = @ + 1]
    BY <1>2, <1>4, RecordTotals
  <2>3. ASSUME alive', NEW s \in Player!Rows
        PROVE  Totals(context')[s] = atLaunch'[s] + pressed'[s]
    <3>1. Totals(context)[s] = atLaunch[s] + pressed[s]
      BY <1>4, <2>3 DEF SkipsInv, SkipsGoToTheSkippedSong
    <3>2. atLaunch[s] \in Nat /\ pressed[s] \in Nat
      BY <1>2
    <3>3. CASE s = i
      <4>1. Totals(context')[s] = Totals(context)[s] + 1 /\ pressed'[s] = pressed[s] + 1
        BY <1>2, <1>3, <1>4, <2>2, <3>3
      <4> QED BY <1>4, <3>1, <3>2, <4>1
    <3>4. CASE s # i
      <4>1. Totals(context')[s] = Totals(context)[s] /\ pressed'[s] = pressed[s]
        BY <1>2, <1>3, <1>4, <2>2, <3>4
      <4> QED BY <1>4, <3>1, <4>1
    <3> QED BY <3>3, <3>4
  <2> QED
    BY <2>1, <2>3 DEF SkipsGoToTheSkippedSong
<1>5. ASSUME Launch /\ context = store
      PROVE  CountsOK' /\ SkipsGoToTheSkippedSong'
  <2>1. /\ context' = store /\ store' = store /\ atLaunch' = Totals(store)
        /\ pressed' = [s \in Player!Rows |-> 0]
    BY <1>5 DEF Launch, Store!Launch
  <2>2. CountsOK'
    BY <1>2, <1>3, <2>1 DEF CountsOK
  <2>3. \A s \in Player!Rows : Totals(context')[s] = atLaunch'[s] + pressed'[s]
    BY <1>3, <2>1
  <2> QED
    BY <2>2, <2>3 DEF SkipsGoToTheSkippedSong
<1>6. ASSUME alive' = FALSE /\ UNCHANGED auxVars
      PROVE  CountsOK' /\ SkipsGoToTheSkippedSong'
  <2>1. CountsOK'
    BY <1>2, <1>6 DEF CountsOK, auxVars
  <2> QED
    BY <1>6, <2>1 DEF SkipsGoToTheSkippedSong
<1>7. ASSUME alive' = alive /\ UNCHANGED <<context, auxVars>>
      PROVE  CountsOK' /\ SkipsGoToTheSkippedSong'
  <2>1. CountsOK'
    BY <1>2, <1>7 DEF CountsOK, auxVars
  <2> QED
    <3>1. Totals(context') = Totals(context) /\ atLaunch' = atLaunch /\ pressed' = pressed
      BY <1>7 DEF auxVars
    <3> QED BY <1>7, <2>1, <3>1 DEF SkipsInv, SkipsGoToTheSkippedSong
<1>8. CountsOK' /\ SkipsGoToTheSkippedSong'
  <2>1. CASE /\ alive' = alive
             /\ \E i \in Player!Rows :
                   /\ Store!RecordSkip(i)
                   /\ pressed' = [pressed EXCEPT ![i] = @ + 1]
                   /\ UNCHANGED atLaunch
    BY <1>4, <2>1
  <2> QED
    BY <1>2, <1>5, <1>6, <1>7, <2>1, StepOfSkips DEF SkipsInv
<1> QED
  BY <1>1, <1>8 DEF SkipsInv

\* It holds in every reachable state.
LEMMA SkipsInvAlways == Spec => []SkipsInv
<1>1. Init => SkipsInv
  <2> SUFFICES ASSUME Init PROVE SkipsInv
    OBVIOUS
  <2>1. AppInv
    BY DEF Init, Player!Init, Store!Init, AppInv, LoginComesFirst, NothingPendingAfterwards,
           SilentWhileSkipping, Store!Alive, Store!HasChanges
  <2>2. CountsOK
    BY DEF Init, Store!Init, CountsOK
  <2>3. \A s \in Player!Rows : Totals(context)[s] = 0
    <3>0. <<>> \in Seq(StoreProofs!Row)
      OBVIOUS
    <3>1. \A s : StoreProofs!Total(<<>>, s) = 0
      BY <3>0, StoreProofs!TotalType, StoreAssumption
         DEF StoreProofs!FetchAssumption, StoreProofs!BoundAssumption
    <3> QED
      BY <3>1, SameTotal DEF Init, Store!Init, Totals
  <2>4. SkipsGoToTheSkippedSong
    BY <2>3 DEF Init, SkipsGoToTheSkippedSong
  <2> QED
    BY <2>1, <2>2, <2>4 DEF SkipsInv
<1>2. SkipsInv /\ (context \in Seq(StoreRow) /\ store \in Seq(StoreRow))' /\ [Next]_vars
          => SkipsInv'
  BY NextSkipsInv
<1> QED
  BY <1>1, <1>2, RowsAlways, PTL DEF Spec

\* Each skip is on the account of the song that was current when it was pressed.
THEOREM SkipsCounted == Spec => []SkipsGoToTheSkippedSong
<1>1. SkipsInv => SkipsGoToTheSkippedSong
  BY DEF SkipsInv
<1> QED
  BY <1>1, SkipsInvAlways, PTL

\* A quit without question has stored every skip pressed in the process.
THEOREM QuitStores == Spec => QuitStoresAllPressed
<1>1. ASSUME SkipsInv, [Next]_vars
      PROVE  [phase' = "quit" /\ phase # "asking" =>
                 \A s \in Player!Rows : Totals(store')[s] = atLaunch[s] + pressed[s]]_vars
  <2> SUFFICES ASSUME Next, phase' = "quit", phase # "asking"
               PROVE  \A s \in Player!Rows : Totals(store')[s] = atLaunch[s] + pressed[s]
    BY <1>1
  <2>1. AppInv /\ (alive => phase \in Store!Alive)
    BY <1>1 DEF SkipsInv, AppInv, LoginComesFirst
  <2>2. ASSUME alive, StoreFollows
        PROVE  FALSE
    BY <2>1, <2>2 DEF StoreFollows, storeVars, Store!Crash, Store!Alive
  <2>3. CASE Login \/ SkipMoves \/ Background
    <3>1. alive
      BY <2>3 DEF Login, SkipMoves, Background, Player!SkipBtnTouched, Player!ProgressPost,
                  Player!ProgressTick, Player!TakeSample, Player!SongEnds
    <3> QED BY <2>2, <2>3, <3>1 DEF Login, storeVars, SkipMoves, Background
  <2>4. CASE Mouse
    <3>1. alive
      BY <2>4 DEF Mouse, Player!TableViewSelectionDidChange, Player!PlayBtnTouched,
                  Player!PauseOrPlay, Player!PreviousBtnTouched
    <3> QED BY <2>2, <2>4, <3>1 DEF Mouse
  <2>5. CASE SkipBegins
    BY <2>1, <2>5 DEF SkipBegins, SkipToSave, Record, Store!RecordSkip, Store!Crash, Store!Alive
  <2>6. CASE Quit
    <3>1. alive /\ store' = context
      BY <2>1, <2>6 DEF Quit, Player!Terminate, Store!ShouldTerminate, Store!HasChanges,
                        Store!ErrorPresented, Store!CancelChosen, Store!QuitAnywayChosen
    <3>2. Totals(store') = Totals(context)
      BY <3>1
    <3> QED BY <1>1, <3>1, <3>2 DEF SkipsInv, SkipsGoToTheSkippedSong
  <2>7. CASE Kill \/ Launch
    BY <2>7 DEF Kill, Launch, Store!Crash, Store!Launch
  <2> QED
    BY <2>3, <2>4, <2>5, <2>6, <2>7 DEF Next
<1> QED
  BY <1>1, SkipsInvAlways, PTL DEF Spec, QuitStoresAllPressed
=============================================================================

----------------------------- MODULE SkipStore ------------------------------
(***************************************************************************)
(* The record of skipped songs: the Core Data part of skipBtnTouched, and  *)
(* what the application delegate does with unsaved changes when the user   *)
(* quits.                                                                  *)
(*                                                                         *)
(* An Entity is a row [name, skip] (its emotion attribute is a literal).   *)
(* A row's position in the sequence stands for its object identity; a      *)
(* fetch has no sort descriptor and may return the rows in any order.      *)
(* viewContext holds the rows with the pending changes, the persistent     *)
(* store the rows of the last successful save.                             *)
(*                                                                         *)
(* applicationShouldTerminate runs dialogs.  The local event monitor sees  *)
(* the keys pressed in them too, so a skip can be recorded in the middle   *)
(* of quitting.                                                            *)
(***************************************************************************)
EXTENDS Integers, Sequences

CONSTANTS
    Songs,         \* file names in musicList
    FetchMayFail,  \* whether context.fetch can throw
    MaxRows,       \* bound on the rows of the context
    MaxSkip        \* bound on the skip attribute of a row

ASSUME FetchAssumption == FetchMayFail \in BOOLEAN
ASSUME BoundAssumption == MaxRows \in Nat /\ MaxSkip \in Nat

VARIABLES
    context,  \* rows of viewContext, pending changes included
    store,    \* rows of the persistent store
    phase     \* where the process is

vars == <<context, store, phase>>

Row   == [name : Songs, skip : Nat \ {0}]
Alive == {"running", "presenting error", "asking"}

TypeOK ==
    /\ context \in Seq(Row)
    /\ store \in Seq(Row)
    /\ phase \in Alive \cup {"quit", "crashed"}

\* The first launch, after persistentContainer has loaded an empty store.
Init ==
    /\ context = <<>>
    /\ store = <<>>
    /\ phase = "running"

HasChanges == context # store

-----------------------------------------------------------------------------
(***************************************************************************)
(* skipBtnTouched.                                                         *)
(***************************************************************************)

\* The rows the loop over the fetch result takes for song s.
RowsOf(s) == {i \in DOMAIN context : context[i].name = s}

\* Bug variant: skip keeps the default value the data model gives it.
InsertRowWithDefault(s) ==
    /\ Len(context) < MaxRows
    /\ context' = Append(context, [name |-> s, skip |-> 0])

\* thisIsNewSong: a new managed object with skip 1.
InsertRow(s) ==
    /\ Len(context) < MaxRows
    /\ context' = Append(context, [name |-> s, skip |-> 1])

\* Bug variant: skipTime is read outside the if, so it is the count of the last
\* row of any song.
RaiseRowFromLastFetched(s) ==
    \E i \in RowsOf(s), j \in DOMAIN context :
        /\ context[j].skip < MaxSkip
        /\ context' = [context EXCEPT ![i].skip = context[j].skip + 1]

\* The last row of s the loop meets is raised by one; which row is last is up
\* to the fetch.
RaiseRow(s) ==
    \E i \in RowsOf(s) :
        /\ context[i].skip < MaxSkip
        /\ context' = [context EXCEPT ![i].skip = @ + 1]

\* Bug variant: every skip inserts a row.
CountSkipInserting(s) == InsertRow(s)

\* After a fetch that throws, thisIsNewSong is still true.
CountSkip(s) ==
    \/ FetchMayFail /\ InsertRow(s)
    \/ RowsOf(s) = {} /\ InsertRow(s)
    \/ RaiseRow(s)

\* context.save() writes all pending changes or none; its error is printed and
\* the changes stay pending.
SaveAttempt == store' \in {store, context'}

RecordSkip(s) ==
    /\ phase \in Alive
    /\ CountSkip(s)
    /\ SaveAttempt
    /\ UNCHANGED phase

-----------------------------------------------------------------------------
(***************************************************************************)
(* applicationShouldTerminate.  When the process ends, the context is gone *)
(* and what a later process reads is the store.                            *)
(***************************************************************************)

\* Bug variant: a save that fails is only reported.
ShouldTerminateIgnoringError ==
    /\ phase = "running"
    /\ phase' = "quit"
    /\ store' \in {store, context}
    /\ context' = store'

\* .terminateNow when nothing is pending or the save succeeds; a save that
\* fails presents its error.  (An edit that cannot be committed cancels.)
ShouldTerminate ==
    /\ phase = "running"
    /\ \/ /\ ~HasChanges
          /\ phase' = "quit"
          /\ UNCHANGED <<context, store>>
       \/ /\ HasChanges
          /\ store' = context
          /\ phase' = "quit"
          /\ UNCHANGED context
       \/ /\ HasChanges
          /\ phase' = "presenting error"
          /\ UNCHANGED <<context, store>>

\* presentError returned: a recovered error cancels, any other one leads to the
\* question whether to quit anyway.
ErrorPresented ==
    /\ phase = "presenting error"
    /\ phase' \in {"running", "asking"}
    /\ UNCHANGED <<context, store>>

CancelChosen ==
    /\ phase = "asking"
    /\ phase' = "running"
    /\ UNCHANGED <<context, store>>

QuitAnywayChosen ==
    /\ phase = "asking"
    /\ phase' = "quit"
    /\ context' = store
    /\ UNCHANGED store

-----------------------------------------------------------------------------
\* A trap in any handler, or a kill.
Crash ==
    /\ phase \in Alive
    /\ phase' = "crashed"
    /\ context' = store
    /\ UNCHANGED store

\* The next process opens the store of the last one.
Launch ==
    /\ phase \in {"quit", "crashed"}
    /\ phase' = "running"
    /\ UNCHANGED <<context, store>>

Next ==
    \/ \E s \in Songs : RecordSkip(s)
    \/ ShouldTerminate
    \/ ErrorPresented
    \/ CancelChosen
    \/ QuitAnywayChosen
    \/ Crash
    \/ Launch

Spec == Init /\ [][Next]_vars

-----------------------------------------------------------------------------
(***************************************************************************)
(* Properties.                                                             *)
(***************************************************************************)

\* A song has one row, so the count a skip reads is the song's whole count -
\* as long as no fetch throws; a fetch that does makes a second row.
OneRowPerSong ==
    ~FetchMayFail =>
        \A i, j \in DOMAIN context : context[i].name = context[j].name => i = j

\* Rows b continue rows a: no row is gone or renamed, no skip count is smaller.
Continues(a, b) ==
    /\ Len(a) <= Len(b)
    /\ \A i \in DOMAIN a : b[i].name = a[i].name /\ b[i].skip >= a[i].skip

\* The changes pending in the context only ever add to what is saved, so a save
\* - whenever it first succeeds - never takes a skip back.
ContextContinuesStore == Continues(store, context)

\* No step, not even a crash or a quit with unsaved changes followed by a new
\* launch, lowers a skip count that was once saved.
SavedSkipsSurvive == [][Continues(store, store')]_vars

\* "Save changes in the application's managed object context before the
\* application terminates" (AppDelegate.swift line 77): the delegate ends the
\* process with changes unsaved only after the user answered the question.
QuitSavesOrAsks == [][phase' = "quit" /\ phase # "asking" => store' = context]_vars

\* What row i adds to the skips of song s.
Share(rows, s, i) == IF rows[i].name = s THEN rows[i].skip ELSE 0

\* The skips of song s over all its rows in rows.
Total(rows, s) ==
    LET sum[n \in 0 .. Len(rows)] == IF n = 0 THEN 0 ELSE sum[n - 1] + Share(rows, s, n)
    IN  sum[Len(rows)]

Ledger ==
    INSTANCE SkipLedger WITH
        count   <- [s \in Songs |-> Total(context, s)],
        durable <- [s \in Songs |-> Total(store, s)]

\* The rows implement the ledger: even when fetches fail and a song has several
\* rows, its total only ever grows by one skip at a time, what is saved is all of
\* the totals at once, and the end of a process takes back just what was pending.
ImplementsLedger == Ledger!Spec
=============================================================================

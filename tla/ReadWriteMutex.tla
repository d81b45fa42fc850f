--------------------------- MODULE ReadWriteMutex ---------------------------
(***************************************************************************)
(* dLib's read_write_mutex (threads/read_write_mutex_extension.h).  Every  *)
(* reader takes one of max_locks locks, a writer takes all of them, as     *)
(* they become free; all sleepers share the one signaler s.                *)
(*                                                                         *)
(* A member function holds the mutex m except in s.wait(), so the code     *)
(* from a call, or from a return of wait(), to the next wait() or to the   *)
(* end of the function is one action.                                      *)
(***************************************************************************)
EXTENDS Integers, FiniteSets

CONSTANTS
    Threads,   \* the threads that use the mutex
    MaxLocks   \* max_locks

ASSUME ThreadsAssumption  == IsFiniteSet(Threads)
ASSUME MaxLocksAssumption == MaxLocks \in Nat \ {0}

VARIABLES
    pc,       \* what each thread has or waits for
    asleep,   \* the threads in s.wait() that have not been woken
    available_locks,
    write_lock_in_progress,
    write_lock_active,
    locks_obtained   \* the local variable of lock(), for each thread

vars == <<pc, asleep, available_locks, write_lock_in_progress, write_lock_active, locks_obtained>>

\* "queued" and "grabbing" wait in the first and second loop of lock(), "reading"
\* waits in lock_readonly().
Waiting == {"queued", "grabbing", "reading"}

TypeOK ==
    /\ pc \in [Threads -> {"idle", "reader", "writer"} \cup Waiting]
    /\ asleep \subseteq Threads
    /\ available_locks \in 0 .. MaxLocks
    /\ write_lock_in_progress \in BOOLEAN
    /\ write_lock_active \in BOOLEAN
    /\ locks_obtained \in [Threads -> 0 .. MaxLocks]

Init ==
    /\ pc = [t \in Threads |-> "idle"]
    /\ asleep = {}
    /\ available_locks = MaxLocks
    /\ write_lock_in_progress = FALSE
    /\ write_lock_active = FALSE
    /\ locks_obtained = [t \in Threads |-> 0]

\* Thread t goes to sleep in s.wait(), or does not.
Sleep(t, point) ==
    /\ pc' = [pc EXCEPT ![t] = point]
    /\ asleep' = asleep \cup {t}

Goes(t, point) ==
    /\ pc' = [pc EXCEPT ![t] = point]
    /\ UNCHANGED asleep

Broadcast == asleep' = {}

-----------------------------------------------------------------------------
(***************************************************************************)
(* lock and unlock.                                                        *)
(***************************************************************************)

\* The test of the second loop, once t obtained n locks.
Grab(t, n) ==
    /\ locks_obtained' = [locks_obtained EXCEPT ![t] = n]
    /\ available_locks' = 0
    /\ IF n = MaxLocks
       THEN /\ write_lock_in_progress' = FALSE
            /\ write_lock_active' = TRUE
            /\ Goes(t, "writer")
       ELSE /\ write_lock_in_progress' = TRUE
            /\ UNCHANGED write_lock_active
            /\ Sleep(t, "grabbing")

\* Bug variant: a writer does not wait for the one that is grabbing.
ContendNotQueueing(t) == Grab(t, available_locks)

\* The first loop and, past it, the first grab.
Contend(t) ==
    IF write_lock_in_progress
    THEN /\ Sleep(t, "queued")
         /\ UNCHANGED <<available_locks, write_lock_in_progress, write_lock_active,
                        locks_obtained>>
    ELSE Grab(t, available_locks)

Lock(t) ==
    /\ pc[t] = "idle"
    /\ Contend(t)

LockAwake(t) ==
    /\ pc[t] = "queued"
    /\ t \notin asleep
    /\ Contend(t)

GrabAwake(t) ==
    /\ pc[t] = "grabbing"
    /\ t \notin asleep
    /\ Grab(t, locks_obtained[t] + available_locks)

\* unlock by the thread that has the write lock.
Unlock(t) ==
    /\ pc[t] = "writer"
    /\ pc' = [pc EXCEPT ![t] = "idle"]
    /\ IF write_lock_active
       THEN available_locks' = MaxLocks /\ write_lock_active' = FALSE /\ Broadcast
       ELSE UNCHANGED <<available_locks, write_lock_active, asleep>>
    /\ UNCHANGED <<write_lock_in_progress, locks_obtained>>

-----------------------------------------------------------------------------
(***************************************************************************)
(* lock_readonly and unlock_readonly.                                      *)
(***************************************************************************)

\* The loop of lock_readonly.
TakeOne(t) ==
    /\ IF available_locks = 0
       THEN Sleep(t, "reading") /\ UNCHANGED available_locks
       ELSE Goes(t, "reader") /\ available_locks' = available_locks - 1
    /\ UNCHANGED <<write_lock_in_progress, write_lock_active, locks_obtained>>

LockReadonly(t) ==
    /\ pc[t] = "idle"
    /\ TakeOne(t)

\* Bug variant: an `if` in place of the `while`.
LockReadonlyWoken(t) ==
    /\ pc[t] = "reading"
    /\ t \notin asleep
    /\ Goes(t, "reader")
    /\ available_locks' = IF available_locks = 0 THEN 0 ELSE available_locks - 1
    /\ UNCHANGED <<write_lock_in_progress, write_lock_active, locks_obtained>>

LockReadonlyAwake(t) ==
    /\ pc[t] = "reading"
    /\ t \notin asleep
    /\ TakeOne(t)

\* The body of unlock_readonly, whoever calls it; it wakes the sleepers if wakes.
GiveBack(wakes) ==
    /\ IF available_locks # MaxLocks /\ ~write_lock_active
       THEN /\ available_locks' = available_locks + 1
            /\ asleep' = IF wakes THEN {} ELSE asleep
       ELSE UNCHANGED <<available_locks, asleep>>
    /\ UNCHANGED <<write_lock_in_progress, write_lock_active, locks_obtained>>

\* Bug variant: the sleepers wake when all locks are free.
ReleaseOneWakingLate == GiveBack(available_locks' = MaxLocks)

\* The sleepers wake if there may be one that listens.
ReleaseOne == GiveBack(available_locks' = 1 \/ write_lock_in_progress)

UnlockReadonly(t) ==
    /\ pc[t] = "reader"
    /\ pc' = [pc EXCEPT ![t] = "idle"]
    /\ ReleaseOne

\* A thread calls unlock_readonly when nobody has a readonly lock, which the
\* contract allows.
StrayUnlockReadonly(t) ==
    /\ pc[t] = "idle"
    /\ \A u \in Threads : pc[u] # "reader"
    /\ ReleaseOne
    /\ UNCHANGED pc

\* The contract of signaler allows wait() to return unasked.
SpuriousWakeup(t) ==
    /\ t \in asleep
    /\ asleep' = asleep \ {t}
    /\ UNCHANGED <<pc, available_locks, write_lock_in_progress, write_lock_active, locks_obtained>>

-----------------------------------------------------------------------------
\* A woken thread goes on.
Awake(t) == LockAwake(t) \/ GrabAwake(t) \/ LockReadonlyAwake(t)

\* A thread gives its lock back.
Release(t) == Unlock(t) \/ UnlockReadonly(t)

Next ==
    \E t \in Threads :
        \/ Lock(t)
        \/ LockReadonly(t)
        \/ Awake(t)
        \/ Release(t)
        \/ SpuriousWakeup(t)

Spec == Init /\ [][Next]_vars

\* The same threads, and calls of unlock_readonly that give back nothing.
StraySpec == Init /\ [][Next \/ \E t \in Threads : StrayUnlockReadonly(t)]_vars

\* A woken thread gets the mutex m some day, and nobody keeps a lock for ever.
\* No thread has to ask for one.
FairSpec ==
    /\ Spec
    /\ \A t \in Threads : WF_vars(Awake(t)) /\ WF_vars(Release(t))

-----------------------------------------------------------------------------
(***************************************************************************)
(* Properties.                                                             *)
(***************************************************************************)

At(point) == {t \in Threads : pc[t] = point}

\* The mutual exclusion of the class comment, as an implementation of RWLock.
Abstract == INSTANCE RWLock WITH
    readers <- At("reader"),
    writers <- At("writer"),
    free    <- MaxLocks - Cardinality(At("reader"))
ImplementsRWLock == Abstract!Spec

\* unlock_readonly wakes the sleepers only sometimes, and they share one signaler.
\* Still a thread in lock_readonly, or collecting locks, sleeps only while no lock
\* is available, and a writer in the first loop only while another one collects or
\* writes: the end of the collecting (line 96) wakes nobody, so that it sleeps on
\* until unlock.  And while anybody sleeps, there is a thread that has a lock to
\* give back, or a collecting writer is awake.
NobodySleepsInVain ==
    /\ \A t \in asleep :
          /\ pc[t] \in {"reading", "grabbing"} => available_locks = 0
          /\ pc[t] = "queued" => write_lock_in_progress \/ write_lock_active
    /\ asleep # {} =>
          \/ At("reader") \cup At("writer") # {}
          \/ \E t \in At("grabbing") : t \notin asleep

\* No lock is lost or made up while a writer, one at a time, collects them: each is
\* available, or some reader's, or the collecting writer's, or all are a writer's.
LocksConserved ==
    /\ \A t, u \in At("grabbing") : t = u
    /\ write_lock_active => available_locks = 0 /\ At("reader") = {}
    /\ ~write_lock_active /\ At("grabbing") = {} =>
          available_locks + Cardinality(At("reader")) = MaxLocks
    /\ \A t \in At("grabbing") :
          ~write_lock_active =>
              available_locks + Cardinality(At("reader")) + locks_obtained[t] = MaxLocks

\* Readers may overtake a writer that collects locks again and again, but once
\* they stop taking locks the writer gets through: no wakeup is lost.
ReadersStop == <>[][\A t \in Threads : pc'[t] = "reader" => pc[t] = "reader"]_vars
WriterGetsThrough ==
    ReadersStop => \A t \in Threads : pc[t] = "grabbing" ~> pc[t] = "writer"

\* "if (there is a readonly lock on *this) then one readonly lock is removed, else
\* the call to unlock_readonly() has no effect"
\* (read_write_mutex_extension_abstract.h:127-131).
StrayUnlockHasNoEffect ==
    [][\A t \in Threads : StrayUnlockReadonly(t) => UNCHANGED available_locks]_vars
=============================================================================

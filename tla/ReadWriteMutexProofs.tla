------------------------ MODULE ReadWriteMutexProofs ------------------------
(***************************************************************************)
(* read_write_mutex implements a readers-writer lock, for every finite set *)
(* of threads and every max_locks, as long as nobody unlocks what is not   *)
(* locked; and nobody sleeps in vain.                                      *)
(***************************************************************************)
EXTENDS ReadWriteMutex, FiniteSetTheorems, TLAPS

\* The flags tell who writes and who collects locks; a collector lacks some.
Roles ==
    /\ write_lock_in_progress <=> \E t \in Threads : pc[t] = "grabbing"
    /\ write_lock_active <=> \E t \in Threads : pc[t] = "writer"
    /\ \A t, u \in Threads : pc[t] = "writer" /\ pc[u] = "writer" => t = u
    /\ \A t \in Threads : pc[t] = "grabbing" =>
          /\ locks_obtained[t] < MaxLocks
          /\ write_lock_active => locks_obtained[t] = 0

\* What a sleeper waits for has not happened yet.
Sleepers ==
    \A t \in asleep :
        /\ pc[t] \in Waiting
        /\ pc[t] \in {"reading", "grabbing"} => available_locks = 0
        /\ pc[t] = "queued" => write_lock_in_progress \/ write_lock_active

\* The invariant: the flags, the locks and the sleepers depend on each other.
IInv == TypeOK /\ Roles /\ LocksConserved /\ Sleepers

Readers == Cardinality(At("reader"))

LEMMA ReadersFinite ==
    /\ IsFiniteSet(At("reader"))
    /\ Readers \in Nat
    /\ Readers = 0 <=> At("reader") = {}
<1>1. At("reader") \in SUBSET Threads BY DEF At
<1>2. IsFiniteSet(At("reader")) BY <1>1, ThreadsAssumption, FS_Subset
<1> QED BY <1>2, FS_CardinalityType, FS_EmptySet DEF Readers

\* A step of thread t from a point that is no reader's to another keeps the readers.
LEMMA ReadersKept ==
    ASSUME pc \in [Threads -> {"idle", "reader", "writer"} \cup Waiting],
           NEW t \in Threads, NEW point, point # "reader", pc[t] # "reader",
           pc' = [pc EXCEPT ![t] = point]
    PROVE  At("reader")' = At("reader")
BY DEF At

LEMMA InitInv == Init => IInv
<1> SUFFICES ASSUME Init PROVE IInv
    OBVIOUS
<1>1. At("reader") = {} /\ At("grabbing") = {}
    BY DEF Init, At
<1>2. available_locks + Cardinality(At("reader")) = MaxLocks
    BY <1>1, FS_EmptySet, MaxLocksAssumption DEF Init
<1>3. TypeOK
    <2>1. 0 \in 0 .. MaxLocks /\ MaxLocks \in 0 .. MaxLocks BY MaxLocksAssumption
    <2> QED BY <2>1 DEF Init, TypeOK
<1>4. Roles /\ Sleepers
    BY DEF Init, Roles, Sleepers
<1>5. LocksConserved
    BY <1>1, <1>2 DEF Init, LocksConserved
<1> QED BY <1>3, <1>4, <1>5 DEF IInv

\* The thread that comes to Grab is the only one that collects, and n counts
\* all locks that are not a reader's.
LEMMA CountGrabbed ==
    ASSUME IInv, NEW t \in Threads, NEW n,
           \/ pc[t] \in {"idle", "queued"} /\ ~write_lock_in_progress /\ n = available_locks
           \/ pc[t] = "grabbing" /\ n = locks_obtained[t] + available_locks
    PROVE  /\ \A u \in Threads : pc[u] = "grabbing" => u = t
           /\ n \in Nat
           /\ ~write_lock_active => n + Readers = MaxLocks
           /\ write_lock_active => n = 0
<1> USE DEF IInv, TypeOK, Waiting
<1>3. Readers \in Nat /\ (Readers = 0 <=> At("reader") = {}) BY ReadersFinite
<1>4. \A u \in Threads : pc[u] = "grabbing" => u = t
    <2>1. CASE ~write_lock_in_progress BY <2>1 DEF Roles
    <2>2. CASE pc[t] = "grabbing" BY <2>2 DEF LocksConserved, At
    <2> QED BY <2>1, <2>2
<1>5. n \in Nat /\ (~write_lock_active => n + Readers = MaxLocks) /\ (write_lock_active => n = 0)
    <2>1. CASE pc[t] = "grabbing"
        <3>1. t \in At("grabbing") BY <2>1 DEF At
        <3>2. locks_obtained[t] \in 0 .. MaxLocks OBVIOUS
        <3>3. ~write_lock_active => available_locks + Readers + locks_obtained[t] = MaxLocks
            BY <3>1 DEF LocksConserved, Readers
        <3>4. write_lock_active => available_locks = 0 /\ locks_obtained[t] = 0
            BY <2>1 DEF LocksConserved, Roles
        <3> QED BY <2>1, <3>2, <3>3, <3>4, <1>3
    <2>2. CASE pc[t] # "grabbing"
        <3>1. At("grabbing") = {} BY <2>2, <1>4 DEF At
        <3>2. n = available_locks BY <2>2
        <3> QED BY <3>1, <3>2, <1>3 DEF LocksConserved, Readers
    <2> QED BY <2>1, <2>2
<1> QED BY <1>4, <1>5

\* The two loops of lock() meet in Grab.
LEMMA GrabInv ==
    ASSUME IInv, NEW t \in Threads, t \notin asleep, NEW n,
           \/ pc[t] \in {"idle", "queued"} /\ ~write_lock_in_progress /\ n = available_locks
           \/ pc[t] = "grabbing" /\ n = locks_obtained[t] + available_locks,
           Grab(t, n)
    PROVE  IInv'
<1> USE DEF IInv, TypeOK, Waiting
<1>1. At("reader")' = At("reader")
    BY ReadersKept DEF Grab, Goes, Sleep
<1>2. Readers' = Readers BY <1>1 DEF Readers
<1>3. Readers \in Nat /\ (Readers = 0 <=> At("reader") = {}) BY ReadersFinite
<1>4. \A u \in Threads : pc[u] = "grabbing" => u = t
    BY CountGrabbed
<1>5. n \in Nat /\ (~write_lock_active => n + Readers = MaxLocks) /\ (write_lock_active => n = 0)
    BY CountGrabbed
<1>6. n \in 0 .. MaxLocks
    BY <1>3, <1>5, MaxLocksAssumption
<1>7. CASE n = MaxLocks
    <2>1. ~write_lock_active /\ At("reader") = {}
        BY <1>3, <1>5, <1>7, MaxLocksAssumption
    <2>2. /\ pc' = [pc EXCEPT ![t] = "writer"]
          /\ asleep' = asleep
          /\ available_locks' = 0
          /\ write_lock_in_progress' = FALSE
          /\ write_lock_active' = TRUE
          /\ locks_obtained' = [locks_obtained EXCEPT ![t] = n]
        BY <1>7 DEF Grab, Goes
    <2>3. At("grabbing")' = {}
        BY <1>4, <2>2 DEF At
    <2>4. TypeOK'
        <3>1. 0 \in 0 .. MaxLocks BY MaxLocksAssumption
        <3> QED BY <1>6, <2>2, <3>1
    <2>5. Roles'
        BY <2>1, <2>2, <2>3 DEF Roles, At
    <2>6. LocksConserved'
        BY <1>1, <2>1, <2>2, <2>3 DEF LocksConserved
    <2>7. Sleepers'
        BY <2>2 DEF Sleepers
    <2> QED BY <2>4, <2>5, <2>6, <2>7
<1>8. CASE n # MaxLocks
    <2>2. /\ pc' = [pc EXCEPT ![t] = "grabbing"]
          /\ asleep' = asleep \cup {t}
          /\ available_locks' = 0
          /\ write_lock_in_progress' = TRUE
          /\ write_lock_active' = write_lock_active
          /\ locks_obtained' = [locks_obtained EXCEPT ![t] = n]
        BY <1>8 DEF Grab, Sleep
    <2>3. At("grabbing")' = {t}
        BY <1>4, <2>2 DEF At
    <2>4. TypeOK'
        <3>1. 0 \in 0 .. MaxLocks BY MaxLocksAssumption
        <3> QED BY <1>6, <2>2, <3>1
    <2>5. Roles'
        <3>1. n < MaxLocks BY <1>6, <1>8, MaxLocksAssumption
        <3>2. pc[t] # "writer" OBVIOUS
        <3> QED BY <1>4, <1>5, <2>2, <3>1, <3>2 DEF Roles
    <2>6. LocksConserved'
        <3>1. ~write_lock_active => 0 + Readers + n = MaxLocks
            BY <1>3, <1>5, MaxLocksAssumption
        <3>2. locks_obtained'[t] = n BY <2>2
        <3> QED BY <1>1, <1>2, <2>2, <2>3, <3>1, <3>2 DEF LocksConserved, Readers
    <2>7. Sleepers'
        BY <2>2 DEF Sleepers
    <2> QED BY <2>4, <2>5, <2>6, <2>7
<1> QED BY <1>7, <1>8

\* The loop of lock_readonly.
LEMMA TakeOneInv ==
    ASSUME IInv, NEW t \in Threads, t \notin asleep, pc[t] \in {"idle", "reading"}, TakeOne(t)
    PROVE  IInv'
<1> USE DEF IInv, TypeOK, Waiting
<1>1. At("grabbing")' = At("grabbing")
    BY DEF TakeOne, Sleep, Goes, At
<1>2. CASE available_locks = 0
    <2>1. /\ pc' = [pc EXCEPT ![t] = "reading"]
          /\ asleep' = asleep \cup {t}
          /\ UNCHANGED <<available_locks, write_lock_in_progress, write_lock_active,
                         locks_obtained>>
        BY <1>2 DEF TakeOne, Sleep
    <2>2. At("reader")' = At("reader") BY <2>1, ReadersKept
    <2>3. TypeOK' BY <2>1
    <2>4. Roles' BY <2>1 DEF Roles
    <2>5. LocksConserved' BY <1>1, <2>1, <2>2 DEF LocksConserved
    <2>6. Sleepers' BY <1>2, <2>1 DEF Sleepers
    <2> QED BY <2>3, <2>4, <2>5, <2>6
<1>3. CASE available_locks # 0
    <2>1. /\ pc' = [pc EXCEPT ![t] = "reader"]
          /\ asleep' = asleep
          /\ available_locks' = available_locks - 1
          /\ UNCHANGED <<write_lock_in_progress, write_lock_active, locks_obtained>>
        BY <1>3 DEF TakeOne, Goes
    <2>2. At("reader")' = At("reader") \cup {t} /\ t \notin At("reader")
        BY <2>1 DEF At
    <2>3. Readers' = Readers + 1 /\ Readers \in Nat
        BY <2>2, ReadersFinite, FS_AddElement DEF Readers
    <2>4. available_locks \in 0 .. MaxLocks /\ available_locks - 1 \in 0 .. MaxLocks
        BY <1>3, MaxLocksAssumption
    <2>5. TypeOK' BY <2>1, <2>4
    <2>6. Roles' BY <2>1 DEF Roles
    <2>7. ~write_lock_active BY <1>3 DEF LocksConserved
    <2>8. LocksConserved'
        <3>1. \A k \in 0 .. MaxLocks :
                  available_locks + Readers + k = MaxLocks
                      => available_locks - 1 + (Readers + 1) + k = MaxLocks
            BY <2>3, <2>4, MaxLocksAssumption
        <3>2. available_locks + Readers = MaxLocks
                  => available_locks - 1 + (Readers + 1) = MaxLocks
            BY <2>3, <2>4, MaxLocksAssumption
        <3>3. ~write_lock_active' /\ (At("grabbing")' = {} <=> At("grabbing") = {})
            BY <1>1, <2>1, <2>7
        <3>4. At("grabbing") = {} => available_locks' + Readers' = MaxLocks
            BY <2>1, <2>3, <2>7, <3>2 DEF LocksConserved, Readers
        <3>5. ASSUME NEW u \in At("grabbing")
              PROVE  available_locks' + Readers' + locks_obtained'[u] = MaxLocks
            <4>1. locks_obtained[u] \in 0 .. MaxLocks BY DEF At
            <4>2. available_locks + Readers + locks_obtained[u] = MaxLocks
                BY <2>7 DEF LocksConserved, Readers
            <4>3. available_locks - 1 + (Readers + 1) + locks_obtained[u] = MaxLocks
                BY <3>1, <4>1, <4>2
            <4> QED BY <2>1, <2>3, <4>3
        <3> QED BY <1>1, <3>3, <3>4, <3>5 DEF LocksConserved, Readers
    <2>9. Sleepers' BY <1>3, <2>1 DEF Sleepers
    <2> QED BY <2>5, <2>6, <2>8, <2>9
<1> QED BY <1>2, <1>3

LEMMA UnlockReadonlyInv ==
    ASSUME IInv, NEW t \in Threads, UnlockReadonly(t)
    PROVE  IInv'
<1> USE DEF IInv, TypeOK, Waiting
<1>1. /\ pc' = [pc EXCEPT ![t] = "idle"] /\ pc[t] = "reader"
      /\ UNCHANGED <<write_lock_in_progress, write_lock_active, locks_obtained>>
    BY DEF UnlockReadonly, ReleaseOne, GiveBack
<1>2. At("grabbing")' = At("grabbing")
    BY <1>1 DEF At
<1>3. At("reader")' = At("reader") \ {t} /\ t \in At("reader")
    BY <1>1 DEF At
<1>4. Readers' = Readers - 1 /\ Readers \in Nat /\ Readers # 0
    BY <1>3, ReadersFinite, FS_RemoveElement DEF Readers
<1>5. ~write_lock_active
    BY <1>3 DEF LocksConserved
<1>6. available_locks \in 0 .. MaxLocks /\ available_locks < MaxLocks
    <2>1. CASE At("grabbing") = {}
        <3>1. available_locks + Readers = MaxLocks
            BY <1>5, <2>1 DEF LocksConserved, Readers
        <3> QED BY <1>4, <3>1, MaxLocksAssumption
    <2>2. ASSUME NEW u \in At("grabbing") PROVE available_locks < MaxLocks
        <3>1. available_locks + Readers + locks_obtained[u] = MaxLocks
            BY <1>5 DEF LocksConserved, Readers
        <3>2. locks_obtained[u] \in 0 .. MaxLocks BY DEF At
        <3> QED BY <1>4, <3>1, <3>2, MaxLocksAssumption
    <2> QED BY <2>1, <2>2
<1>7. /\ available_locks' = available_locks + 1
      /\ asleep' = {} \/ (asleep' = asleep /\ available_locks' # 1)
    BY <1>5, <1>6, MaxLocksAssumption DEF UnlockReadonly, ReleaseOne, GiveBack
<1>8. TypeOK'
    <2>1. available_locks + 1 \in 0 .. MaxLocks BY <1>6, MaxLocksAssumption
    <2> QED BY <1>1, <1>7, <2>1
<1>9. Roles' BY <1>1 DEF Roles
<1>10. LocksConserved'
    <2>1. \A k \in 0 .. MaxLocks :
              available_locks + Readers + k = MaxLocks
                  => available_locks + 1 + (Readers - 1) + k = MaxLocks
        BY <1>4, <1>6, MaxLocksAssumption
    <2>2. available_locks + Readers = MaxLocks
              => available_locks + 1 + (Readers - 1) = MaxLocks
        BY <1>4, <1>6, MaxLocksAssumption
    <2>3. At("grabbing") = {} => available_locks' + Readers' = MaxLocks
        BY <1>4, <1>5, <1>7, <2>2 DEF LocksConserved, Readers
    <2>4. ASSUME NEW u \in At("grabbing")
          PROVE  available_locks' + Readers' + locks_obtained'[u] = MaxLocks
        <3>1. locks_obtained[u] \in 0 .. MaxLocks BY DEF At
        <3>2. available_locks + Readers + locks_obtained[u] = MaxLocks
            BY <1>5 DEF LocksConserved, Readers
        <3>3. available_locks + 1 + (Readers - 1) + locks_obtained[u] = MaxLocks
            BY <2>1, <3>1, <3>2
        <3> QED BY <1>1, <1>4, <1>7, <3>3
    <2> QED BY <1>1, <1>2, <1>5, <2>3, <2>4 DEF LocksConserved, Readers
<1>11. Sleepers'
    <2>1. CASE asleep' = {} BY <2>1 DEF Sleepers
    <2>2. CASE asleep' = asleep /\ available_locks' # 1
        <3>1. \A u \in asleep : u # t /\ pc[u] \notin {"reading", "grabbing"}
            BY <1>1, <1>6, <1>7, <2>2, MaxLocksAssumption DEF Sleepers
        <3> QED BY <1>1, <2>2, <3>1 DEF Sleepers
    <2> QED BY <1>7, <2>1, <2>2
<1> QED BY <1>8, <1>9, <1>10, <1>11

LEMMA UnlockInv ==
    ASSUME IInv, NEW t \in Threads, Unlock(t)
    PROVE  IInv'
<1> USE DEF IInv, TypeOK, Waiting
<1>1. write_lock_active /\ pc[t] = "writer"
    BY DEF Unlock, Roles
<1>2. /\ pc' = [pc EXCEPT ![t] = "idle"]
      /\ asleep' = {}
      /\ available_locks' = MaxLocks
      /\ write_lock_active' = FALSE
      /\ UNCHANGED <<write_lock_in_progress, locks_obtained>>
    BY <1>1 DEF Unlock, Broadcast
<1>3. At("grabbing")' = At("grabbing") /\ At("reader")' = {} /\ Readers' = 0
    BY <1>1, <1>2, FS_EmptySet DEF At, LocksConserved, Readers
<1>4. \A u \in At("grabbing") : locks_obtained'[u] = 0
    BY <1>1, <1>2 DEF Roles, At
<1>5. TypeOK'
    <2>1. MaxLocks \in 0 .. MaxLocks BY MaxLocksAssumption
    <2> QED BY <1>2, <2>1
<1>6. Roles'
    BY <1>1, <1>2, MaxLocksAssumption DEF Roles
<1>7. LocksConserved'
    <2>1. MaxLocks + 0 = MaxLocks /\ MaxLocks + 0 + 0 = MaxLocks BY MaxLocksAssumption
    <2> QED BY <1>2, <1>3, <1>4, <2>1 DEF LocksConserved, Readers
<1>8. Sleepers' BY <1>2 DEF Sleepers
<1> QED BY <1>5, <1>6, <1>7, <1>8

LEMMA InvKept ==
    ASSUME IInv, [Next]_vars
    PROVE  IInv'
<1>0. \A t \in Threads : pc[t] \notin Waiting => t \notin asleep
    BY DEF IInv, Sleepers
<1>1. ASSUME NEW t \in Threads, t \notin asleep, pc[t] \in {"idle", "queued"}, Contend(t)
      PROVE  IInv'
    <2>1. CASE write_lock_in_progress
        <3>1. /\ pc' = [pc EXCEPT ![t] = "queued"]
              /\ asleep' = asleep \cup {t}
              /\ UNCHANGED <<available_locks, write_lock_in_progress, write_lock_active,
                             locks_obtained>>
            BY <1>1, <2>1 DEF Contend, Sleep
        <3>2. At("reader")' = At("reader") /\ At("grabbing")' = At("grabbing")
            BY <1>1, <3>1 DEF At, IInv, TypeOK
        <3>3. TypeOK' BY <3>1 DEF IInv, TypeOK, Waiting
        <3>4. Roles' BY <1>1, <3>1 DEF IInv, TypeOK, Roles
        <3>5. LocksConserved' BY <3>1, <3>2 DEF IInv, LocksConserved
        <3>6. Sleepers' BY <2>1, <3>1 DEF IInv, TypeOK, Sleepers, Waiting
        <3> QED BY <3>3, <3>4, <3>5, <3>6 DEF IInv
    <2>2. CASE ~write_lock_in_progress
        <3>1. Grab(t, available_locks) BY <1>1, <2>2 DEF Contend
        <3> QED BY <1>1, <2>2, <3>1, GrabInv
    <2> QED BY <2>1, <2>2
<1>2. ASSUME NEW t \in Threads, Lock(t) \/ LockAwake(t) PROVE IInv'
    BY <1>0, <1>1, <1>2 DEF Lock, LockAwake, Waiting
<1>3. ASSUME NEW t \in Threads, GrabAwake(t) PROVE IInv'
    BY <1>3, GrabInv DEF GrabAwake
<1>4. ASSUME NEW t \in Threads, LockReadonly(t) \/ LockReadonlyAwake(t) PROVE IInv'
    BY <1>0, <1>4, TakeOneInv DEF LockReadonly, LockReadonlyAwake, Waiting
<1>5. ASSUME NEW t \in Threads, SpuriousWakeup(t) PROVE IInv'
    BY <1>5 DEF SpuriousWakeup, IInv, TypeOK, Roles, LocksConserved, Sleepers, At
<1>6. CASE UNCHANGED vars
    BY <1>6 DEF vars, IInv, TypeOK, Roles, LocksConserved, Sleepers, At
<1> QED BY <1>2, <1>3, <1>4, <1>5, <1>6, UnlockInv, UnlockReadonlyInv
        DEF Next, Awake, Release

-----------------------------------------------------------------------------
(***************************************************************************)
(* The theorems.                                                           *)
(***************************************************************************)

\* Every variable keeps its type: no lock count leaves 0 .. max_locks.
THEOREM TypeCorrect ==
    Spec => []TypeOK
<1>1. IInv /\ [Next]_vars => IInv' BY InvKept
<1>2. IInv => TypeOK BY DEF IInv
<1> QED BY <1>1, <1>2, InitInv, PTL DEF Spec

\* Every lock is available, a reader's, or a writer's.
THEOREM Conservation ==
    Spec => []LocksConserved
<1>1. IInv /\ [Next]_vars => IInv' BY InvKept
<1>2. IInv => LocksConserved BY DEF IInv
<1> QED BY <1>1, <1>2, InitInv, PTL DEF Spec

\* What a sleeper waits for has not come, and a thread with a lock or a collecting
\* writer that is awake is there to bring it.
THEOREM NoVainSleep ==
    Spec => []NobodySleepsInVain
<1>1. IInv /\ [Next]_vars => IInv' BY InvKept
<1>2. IInv => NobodySleepsInVain
    <2> SUFFICES ASSUME IInv, NEW t \in asleep,
                        At("reader") = {}, At("writer") = {},
                        \A u \in At("grabbing") : u \in asleep
                 PROVE  FALSE
        BY DEF NobodySleepsInVain, IInv, Sleepers
    <2>1. t \in Threads /\ pc[t] \in Waiting /\ ~write_lock_active
        BY DEF IInv, TypeOK, Sleepers, Roles, At
    <2>2. Readers = 0 BY ReadersFinite
    <2>3. ASSUME NEW g \in Threads, pc[g] = "grabbing" PROVE FALSE
        <3>1. g \in At("grabbing") /\ g \in asleep BY <2>3 DEF At, Waiting
        <3>2. available_locks = 0 BY <2>3, <3>1 DEF IInv, Sleepers
        <3>3. available_locks + Readers + locks_obtained[g] = MaxLocks
            BY <2>1, <3>1 DEF IInv, LocksConserved, Readers
        <3>4. locks_obtained[g] < MaxLocks /\ locks_obtained[g] \in 0 .. MaxLocks
            BY <2>3 DEF IInv, Roles, TypeOK
        <3> QED BY <2>2, <3>2, <3>3, <3>4, MaxLocksAssumption
    <2>4. CASE pc[t] = "queued"
        <3>1. write_lock_in_progress BY <2>1, <2>4 DEF IInv, Sleepers
        <3> QED BY <2>3, <3>1 DEF IInv, Roles
    <2>5. CASE pc[t] = "reading"
        <3>1. available_locks = 0 BY <2>5 DEF IInv, Sleepers
        <3>2. At("grabbing") = {} BY <2>3 DEF At
        <3>3. available_locks + Readers = MaxLocks
            BY <2>1, <3>2 DEF IInv, LocksConserved, Readers
        <3> QED BY <2>2, <3>1, <3>3, MaxLocksAssumption
    <2> QED BY <2>1, <2>3, <2>4, <2>5 DEF Waiting
<1> QED BY <1>1, <1>2, InitInv, PTL DEF Spec

AbstractVars == <<At("reader"), At("writer"), MaxLocks - Cardinality(At("reader"))>>

\* In RWLock's eyes, Grab takes the write lock or nothing.
LEMMA GrabImplements ==
    ASSUME IInv, NEW t \in Threads, NEW n,
           \/ pc[t] \in {"idle", "queued"} /\ ~write_lock_in_progress /\ n = available_locks
           \/ pc[t] = "grabbing" /\ n = locks_obtained[t] + available_locks,
           Grab(t, n)
    PROVE  Abstract!AcquireWrite(t) \/ UNCHANGED AbstractVars
<1> USE DEF IInv, TypeOK, Waiting
<1>1. At("reader")' = At("reader")
    BY ReadersKept DEF Grab, Goes, Sleep
<1>2. n \in Nat /\ (~write_lock_active => n + Readers = MaxLocks) /\ (write_lock_active => n = 0)
    BY CountGrabbed
<1>3. CASE n = MaxLocks
    <2>1. ~write_lock_active /\ Readers = 0
        BY <1>2, <1>3, ReadersFinite, MaxLocksAssumption
    <2>2. At("reader") = {} /\ At("writer") = {}
        BY <2>1, ReadersFinite DEF At, Roles
    <2>3. At("writer")' = {t}
        BY <1>3, <2>2 DEF Grab, Goes, At
    <2> QED BY <1>1, <2>2, <2>3 DEF Abstract!AcquireWrite
<1>4. CASE n # MaxLocks
    <2>1. At("writer")' = At("writer")
        BY <1>4 DEF Grab, Sleep, At
    <2> QED BY <1>1, <2>1 DEF AbstractVars
<1> QED BY <1>3, <1>4

LEMMA TakeOneImplements ==
    ASSUME IInv, NEW t \in Threads, pc[t] \in {"idle", "reading"}, TakeOne(t)
    PROVE  Abstract!AcquireRead(t) \/ UNCHANGED AbstractVars
<1> USE DEF IInv, TypeOK, Waiting
<1>1. At("writer")' = At("writer")
    BY DEF TakeOne, Sleep, Goes, At
<1>2. CASE available_locks = 0
    <2>1. At("reader")' = At("reader") BY <1>2, ReadersKept DEF TakeOne, Sleep
    <2> QED BY <1>1, <2>1 DEF AbstractVars
<1>3. CASE available_locks # 0
    <2>1. At("reader")' = At("reader") \cup {t} /\ t \notin At("reader")
        BY <1>3 DEF TakeOne, Goes, At
    <2>2. ~write_lock_active /\ At("writer") = {}
        BY <1>3 DEF LocksConserved, Roles, At
    <2>3. Readers < MaxLocks
        <3>1. available_locks \in 0 .. MaxLocks /\ Readers \in Nat BY ReadersFinite
        <3>2. CASE At("grabbing") = {}
            <4>1. available_locks + Readers = MaxLocks
                BY <2>2, <3>2 DEF LocksConserved, Readers
            <4> QED BY <1>3, <3>1, <4>1, MaxLocksAssumption
        <3>3. ASSUME NEW u \in At("grabbing") PROVE Readers < MaxLocks
            <4>1. available_locks + Readers + locks_obtained[u] = MaxLocks
                BY <2>2 DEF LocksConserved, Readers
            <4>2. locks_obtained[u] \in 0 .. MaxLocks BY DEF At
            <4> QED BY <1>3, <3>1, <4>1, <4>2, MaxLocksAssumption
        <3> QED BY <3>2, <3>3
    <2>4. MaxLocks - Readers > 0 /\ MaxLocks - Readers' = MaxLocks - Readers - 1
        <3>1. Readers' = Readers + 1 /\ Readers \in Nat
            BY <2>1, ReadersFinite, FS_AddElement DEF Readers
        <3> QED BY <2>3, <3>1, MaxLocksAssumption
    <2> HIDE DEF IInv, TypeOK, Waiting
    <2> QED BY <1>1, <2>1, <2>2, <2>4 DEF Abstract!AcquireRead, Readers
<1> QED BY <1>2, <1>3

LEMMA StepImplements ==
    ASSUME IInv, [Next]_vars
    PROVE  [Abstract!Next]_AbstractVars
<1> USE DEF IInv, TypeOK, Waiting
<1>1. ASSUME NEW t \in Threads, pc[t] \in {"idle", "queued"}, Contend(t)
      PROVE  Abstract!AcquireWrite(t) \/ UNCHANGED AbstractVars
    <2>1. CASE write_lock_in_progress
        BY <1>1, <2>1 DEF Contend, Sleep, At, AbstractVars
    <2>2. CASE ~write_lock_in_progress
        BY <1>1, <2>2, GrabImplements DEF Contend
    <2> QED BY <2>1, <2>2
<1>2. ASSUME NEW t \in Threads, Lock(t) \/ LockAwake(t)
      PROVE  [Abstract!Next]_AbstractVars
    BY <1>1, <1>2 DEF Lock, LockAwake, Abstract!Next
<1>3. ASSUME NEW t \in Threads, GrabAwake(t)
      PROVE  [Abstract!Next]_AbstractVars
    BY <1>3, GrabImplements DEF GrabAwake, Abstract!Next
<1>4. ASSUME NEW t \in Threads, LockReadonly(t) \/ LockReadonlyAwake(t)
      PROVE  [Abstract!Next]_AbstractVars
    BY <1>4, TakeOneImplements DEF LockReadonly, LockReadonlyAwake, Abstract!Next
<1>5. ASSUME NEW t \in Threads, Unlock(t)
      PROVE  [Abstract!Next]_AbstractVars
    <2>1. /\ pc[t] = "writer"
          /\ pc' = [pc EXCEPT ![t] = "idle"]
        BY <1>5 DEF Unlock
    <2>2. At("writer") = {t} BY <2>1 DEF Roles, At
    <2>3. At("writer")' = {} /\ At("reader")' = At("reader")
        BY <2>1, <2>2 DEF At
    <2>4. Abstract!ReleaseWrite(t) BY <2>2, <2>3 DEF Abstract!ReleaseWrite
    <2> QED BY <2>4 DEF Abstract!Next
<1>6. ASSUME NEW t \in Threads, UnlockReadonly(t)
      PROVE  [Abstract!Next]_AbstractVars
    <2>1. /\ pc[t] = "reader"
          /\ pc' = [pc EXCEPT ![t] = "idle"]
        BY <1>6 DEF UnlockReadonly
    <2>2. t \in At("reader") /\ At("reader")' = At("reader") \ {t} /\ At("writer")' = At("writer")
        BY <2>1 DEF At
    <2>3. MaxLocks - Readers' = MaxLocks - Readers + 1
        <3>1. Readers' = Readers - 1 /\ Readers \in Nat
            BY <2>2, ReadersFinite, FS_RemoveElement DEF Readers
        <3> QED BY <3>1, MaxLocksAssumption
    <2>4. Abstract!ReleaseRead(t) BY <2>2, <2>3 DEF Abstract!ReleaseRead, Readers
    <2> QED BY <2>4 DEF Abstract!Next
<1>7. ASSUME UNCHANGED pc PROVE UNCHANGED AbstractVars
    BY <1>7 DEF At, AbstractVars
<1> QED BY <1>2, <1>3, <1>4, <1>5, <1>6, <1>7
        DEF Next, Awake, Release, SpuriousWakeup, vars

\* Many readers or one writer, never more than max_locks readers.
THEOREM Implemented ==
    Spec => ImplementsRWLock
<1>1. Init => Abstract!Init
    <2>1. ASSUME Init PROVE At("reader") = {} /\ At("writer") = {} BY <2>1 DEF Init, At
    <2>2. MaxLocks - 0 = MaxLocks BY MaxLocksAssumption
    <2> QED BY <2>1, <2>2, FS_EmptySet DEF Abstract!Init
<1>2. IInv /\ [Next]_vars => IInv' BY InvKept
<1>3. IInv /\ [Next]_vars => [Abstract!Next]_AbstractVars
    BY StepImplements
<1> QED BY <1>1, <1>2, <1>3, InitInv, PTL DEF Spec, ImplementsRWLock, Abstract!Spec, AbstractVars

=============================================================================

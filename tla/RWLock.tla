------------------------------- MODULE RWLock -------------------------------
(***************************************************************************)
(* What read_write_mutex promises its callers: many readers or one writer, *)
(* and no more readers than there are readonly locks.                      *)
(***************************************************************************)
EXTENDS Integers

CONSTANTS Threads, MaxLocks

VARIABLES
    readers,   \* the threads with a readonly lock
    writers,   \* the threads with the write lock
    free       \* readonly locks no reader has

Init == readers = {} /\ writers = {} /\ free = MaxLocks

\* lock_readonly returns to t.
AcquireRead(t) ==
    /\ writers = {}
    /\ free > 0
    /\ t \notin readers
    /\ readers' = readers \cup {t}
    /\ free' = free - 1
    /\ UNCHANGED writers

\* unlock_readonly.
ReleaseRead(t) ==
    /\ t \in readers
    /\ readers' = readers \ {t}
    /\ free' = free + 1
    /\ UNCHANGED writers

\* lock returns to t.
AcquireWrite(t) ==
    /\ readers = {}
    /\ writers = {}
    /\ writers' = {t}
    /\ UNCHANGED <<readers, free>>

\* unlock.
ReleaseWrite(t) ==
    /\ writers = {t}
    /\ writers' = {}
    /\ UNCHANGED <<readers, free>>

Next == \E t \in Threads : \/ AcquireRead(t)
                           \/ ReleaseRead(t)
                           \/ AcquireWrite(t)
                           \/ ReleaseWrite(t)

Spec == Init /\ [][Next]_<<readers, writers, free>>
=============================================================================

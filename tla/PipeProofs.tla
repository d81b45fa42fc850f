----------------------------- MODULE PipeProofs ------------------------------
(***************************************************************************)
(* Proofs about Pipe for every number of threads, every item and every     *)
(* size: the ring's indices stay inside it, the counters count, the        *)
(* destructor deletes the ring when nobody is inside, nobody sleeps in     *)
(* vain, items have their takers, and the whole is the queue of Fifo.      *)
(*                                                                         *)
(* All of it rests on the counters.  The destructor looks at them only, so *)
(* they must be right however a call came to its end; and from the moment  *)
(* it was called no call may begin, or a counter that is 0 would say       *)
(* nothing.  The members broadcast only if a counter is not 0, so a right  *)
(* counter is what keeps a wakeup from being lost.                         *)
(***************************************************************************)
EXTENDS Pipe, FiniteSetTheorems, TLAPS

\* Where the oldest item is, if there is one.
FirstOK == pipe_size > 0 => first \in Slots

\* A destructor is called once, when no call is on its way, and at its end nobody
\* waits any more.  Only in a pipe of size 0 calls wait for a taker.
CallsOK ==
    /\ \A t, u \in Threads : pc[t] \in {"closing", "gone"} => pc[u] \notin Called
    /\ \A t, u \in Threads : pc[t] = "gone" => pc[u] \notin Waits
    /\ \A t \in Threads : pc[t] = "taker" => pipe_max_size = 0

IInv == TypeOK /\ FirstOK /\ WaitersCounted /\ CallsOK

Point == {"out", "gone"} \cup Called \cup Returned \cup Waits

-----------------------------------------------------------------------------
(***************************************************************************)
(* Counting.                                                               *)
(***************************************************************************)

Inside(f, sig) == {u \in Threads : f[u] \in sig}
One(point, sig) == IF point \in sig THEN 1 ELSE 0

\* A thread that moves leaves one set and enters another.
LEMMA MoveCounts ==
    ASSUME NEW f \in [Threads -> Point], NEW t \in Threads, NEW point, NEW sig
    PROVE  /\ Cardinality(Inside(f, sig)) \in Nat
           /\ Cardinality(Inside([f EXCEPT ![t] = point], sig))
                 = Cardinality(Inside(f, sig)) + One(point, sig) - One(f[t], sig)
<1> DEFINE S == Inside(f, sig)
           T == Inside([f EXCEPT ![t] = point], sig)
<1>1. IsFiniteSet(S) /\ IsFiniteSet(T)
    <2>1. S \subseteq Threads /\ T \subseteq Threads BY DEF Inside
    <2> QED BY <2>1, ThreadsAssumption, FS_Subset DEF Threads
<1>2. Cardinality(S) \in Nat /\ Cardinality(T) \in Nat BY <1>1, FS_CardinalityType
<1>3. CASE point \in sig /\ f[t] \notin sig
    <2>1. T = S \cup {t} /\ t \notin S BY <1>3 DEF Inside
    <2>2. Cardinality(T) = Cardinality(S) + 1 BY <1>1, <2>1, FS_AddElement
    <2>3. One(point, sig) = 1 /\ One(f[t], sig) = 0 BY <1>3 DEF One
    <2> HIDE DEF S, T
    <2>4. Cardinality(T) = Cardinality(S) + One(point, sig) - One(f[t], sig)
        BY <1>2, <2>2, <2>3
    <2> QED BY <1>2, <2>4 DEF S, T
<1>4. CASE point \notin sig /\ f[t] \in sig
    <2>1. T = S \ {t} /\ t \in S BY <1>4 DEF Inside
    <2>2. Cardinality(T) = Cardinality(S) - 1 BY <1>1, <2>1, FS_RemoveElement
    <2>3. One(point, sig) = 0 /\ One(f[t], sig) = 1 BY <1>4 DEF One
    <2> HIDE DEF S, T
    <2>4. Cardinality(T) = Cardinality(S) + One(point, sig) - One(f[t], sig)
        BY <1>2, <2>2, <2>3
    <2> QED BY <1>2, <2>4 DEF S, T
<1>5. CASE point \in sig <=> f[t] \in sig
    <2>1. T = S BY <1>5 DEF Inside
    <2>2. One(point, sig) = One(f[t], sig) /\ One(f[t], sig) \in Nat BY <1>5 DEF One
    <2> HIDE DEF S, T
    <2>4. Cardinality(T) = Cardinality(S) + One(point, sig) - One(f[t], sig)
        BY <1>2, <2>1, <2>2
    <2> QED BY <1>2, <2>4 DEF S, T
<1> QED BY <1>3, <1>4, <1>5

\* The counters stay right if each goes up and down with the thread that moves.
LEMMA WaitersFollow ==
    ASSUME IInv, NEW t \in Threads, NEW point, pc' = [pc EXCEPT ![t] = point],
           enqueue_waiters' = enqueue_waiters + One(point, enqueue_sig) - One(pc[t], enqueue_sig),
           dequeue_waiters' = dequeue_waiters + One(point, dequeue_sig) - One(pc[t], dequeue_sig),
           unblock_sig_waiters' = unblock_sig_waiters + One(point, unblock_sig)
                                     - One(pc[t], unblock_sig)
    PROVE  WaitersCounted'
<1>1. pc \in [Threads -> Point] BY DEF IInv, TypeOK, Point
<1>2. /\ Enqueueing = Inside(pc, enqueue_sig) /\ Enqueueing' = Inside(pc', enqueue_sig)
      /\ Dequeueing = Inside(pc, dequeue_sig) /\ Dequeueing' = Inside(pc', dequeue_sig)
      /\ Unblocking = Inside(pc, unblock_sig) /\ Unblocking' = Inside(pc', unblock_sig)
    BY DEF Enqueueing, Dequeueing, Unblocking, Inside, enqueue_sig, dequeue_sig, unblock_sig
<1>3. enqueue_waiters' = Cardinality(Enqueueing)'
    BY <1>1, <1>2, MoveCounts DEF IInv, WaitersCounted
<1>4. dequeue_waiters' = Cardinality(Dequeueing)'
    BY <1>1, <1>2, MoveCounts DEF IInv, WaitersCounted
<1>5. unblock_sig_waiters' = Cardinality(Unblocking)'
    BY <1>1, <1>2, MoveCounts DEF IInv, WaitersCounted
<1> QED BY <1>3, <1>4, <1>5 DEF WaitersCounted

\* Whatever the state, right counters are numbers.
LEMMA WaitersNat ==
    ASSUME WaitersCounted, pc \in [Threads -> Point]
    PROVE  enqueue_waiters \in Nat /\ dequeue_waiters \in Nat /\ unblock_sig_waiters \in Nat
<1>1. /\ Enqueueing \subseteq Threads
      /\ Dequeueing \subseteq Threads
      /\ Unblocking \subseteq Threads
    BY DEF Enqueueing, Dequeueing, Unblocking
<1>2. IsFiniteSet(Threads) BY ThreadsAssumption DEF Threads
<1> QED BY <1>1, <1>2, FS_Subset, FS_CardinalityType DEF WaitersCounted

-----------------------------------------------------------------------------
(***************************************************************************)
(* The parts of the invariant.                                             *)
(***************************************************************************)

ThreadsOK ==
    /\ pc \in [Threads -> Point]
    /\ timeout \in [Threads -> use.timeouts \cup {"none"}]
    /\ item \in [Threads -> Items \cup {Blank}]
    /\ asleep \subseteq {t \in Threads : pc[t] \in Waits}
    /\ expired \subseteq {t \in Threads : pc[t] \in {"room", "item"}}
    /\ asleep \cap expired = {}

RingOK ==
    /\ data \in [Slots -> Items \cup {Blank}]
    /\ first \in Slots \cup {1}
    /\ last \in Slots \cup {1}
    /\ pipe_size \in 0 .. pipe_max_size
    /\ FirstOK

FlagsOK == enabled \in BOOLEAN /\ enqueue_enabled \in BOOLEAN /\ dequeue_enabled \in BOOLEAN

LEMMA Parts ==
    IInv <=> /\ use \in Uses
             /\ ThreadsOK /\ RingOK /\ FlagsOK /\ WaitersCounted /\ CallsOK
<1>1. ASSUME IInv PROVE use \in Uses /\ ThreadsOK /\ RingOK /\ FlagsOK /\ WaitersCounted /\ CallsOK
    BY <1>1 DEF IInv, TypeOK, ThreadsOK, RingOK, FlagsOK, Point
<1>2. ASSUME use \in Uses, ThreadsOK, RingOK, FlagsOK, WaitersCounted, CallsOK PROVE IInv
    <2>1. enqueue_waiters \in Nat /\ dequeue_waiters \in Nat /\ unblock_sig_waiters \in Nat
        BY <1>2, WaitersNat DEF ThreadsOK
    <2> QED BY <1>2, <2>1 DEF IInv, TypeOK, ThreadsOK, RingOK, FlagsOK, Point
<1> QED BY <1>1, <1>2

LEMMA PartsNext ==
    (use \in Uses /\ ThreadsOK /\ RingOK /\ FlagsOK /\ WaitersCounted /\ CallsOK)' => IInv'
BY Parts, PTL

\* Sizes are numbers, and Slots the indices of the ring.
LEMMA Sizes ==
    ASSUME use \in Uses
    PROVE  /\ pipe_max_size \in Nat
           /\ 0 \in Slots
           /\ \A n \in Nat : pipe_max_size > 0 => n % pipe_max_size \in Slots
           /\ Slots \subseteq Nat
<1>1. pipe_max_size \in Nat BY UsesAssumption DEF pipe_max_size
<1>2. ASSUME NEW n \in Nat, NEW k \in Nat, k > 0 PROVE n % k \in 0 .. k - 1 BY <1>2
<1>3. CASE pipe_max_size > 0
    <2>1. Slots = 0 .. pipe_max_size - 1 BY <1>3 DEF Slots
    <2> QED BY <1>1, <1>2, <1>3, <2>1
<1>4. CASE ~(pipe_max_size > 0)
    <2>1. Slots = 0 .. 0 BY <1>4 DEF Slots
    <2> QED BY <1>1, <1>4, <2>1
<1> QED BY <1>3, <1>4

\* A call that is on its way neither sleeps nor has timed out asleep.
LEMMA Fresh ==
    ASSUME ThreadsOK, NEW t \in Threads, pc[t] \in Called
    PROVE  t \notin asleep /\ t \notin expired
BY DEF ThreadsOK, Called, Waits, enqueue_sig, dequeue_sig, unblock_sig

LEMMA SleepThreads ==
    ASSUME ThreadsOK, NEW t \in Threads, t \notin expired, NEW point \in Waits, NEW woken,
           Sleep(t, point, woken), UNCHANGED timeout, item' \in [Threads -> Items \cup {Blank}]
    PROVE  ThreadsOK'
BY DEF ThreadsOK, Sleep, Point

LEMMA LeaveThreads ==
    ASSUME ThreadsOK, NEW t \in Threads, t \notin asleep, NEW result \in Point, NEW woken,
           Leave(t, result, woken), UNCHANGED timeout, item' \in [Threads -> Items \cup {Blank}]
    PROVE  ThreadsOK'
BY DEF ThreadsOK, Leave, Point

\* Nobody moves on behind a destructor that has ended.
LEMMA MoveCalls ==
    ASSUME ThreadsOK, CallsOK, NEW t \in Threads, pc[t] \in Called \cup Waits,
           NEW point \in (Waits \ {"closing"}) \cup Returned \cup {"out"},
           pc' = [pc EXCEPT ![t] = point], use' = use,
           point = "taker" => pipe_max_size = 0
    PROVE  CallsOK'
<1>1. \A u \in Threads : pc[u] # "gone"
    BY DEF CallsOK
<1>2. point \notin Called /\ point \notin {"closing", "gone"}
    BY DEF Called, Returned, Waits, enqueue_sig, dequeue_sig, unblock_sig
<1>3. \A u \in Threads : pc'[u] = IF u = t THEN point ELSE pc[u]
    BY DEF ThreadsOK
<1> QED BY <1>1, <1>2, <1>3 DEF CallsOK, pipe_max_size

-----------------------------------------------------------------------------
(***************************************************************************)
(* enqueue.                                                                *)
(***************************************************************************)

LEMMA EnqueueInv ==
    ASSUME IInv, NEW t \in Threads, NEW inside,
           \/ pc[t] = "enqueue" /\ inside = enqueue_waiters + 1
           \/ pc[t] = "room" /\ t \notin asleep /\ inside = enqueue_waiters,
           TryEnqueue(t, inside)
    PROVE  IInv'
<1>0. use \in Uses /\ ThreadsOK /\ RingOK /\ FlagsOK /\ WaitersCounted /\ CallsOK
    BY Parts
<1>1. pc[t] \in Called \cup Waits /\ t \notin asleep
    BY <1>0, Fresh DEF Called, Waits, enqueue_sig
<1>2. /\ inside = enqueue_waiters + 1 - One(pc[t], enqueue_sig)
      /\ One(pc[t], dequeue_sig) = 0 /\ One(pc[t], unblock_sig) = 0
      /\ One(pc[t], enqueue_sig) \in {0, 1}
    BY <1>0, WaitersNat DEF One, enqueue_sig, dequeue_sig, unblock_sig, ThreadsOK
<1>3. enqueue_waiters \in Nat /\ dequeue_waiters \in Nat /\ unblock_sig_waiters \in Nat
    BY <1>0, WaitersNat DEF ThreadsOK
<1>4. \A point \in {"room", "taker"} :
          /\ One(point, enqueue_sig) = 1
          /\ One(point, dequeue_sig) = 0 /\ One(point, unblock_sig) = 0
          /\ point \in Waits \ {"closing"}
    BY DEF One, enqueue_sig, dequeue_sig, unblock_sig, Waits
<1>5. \A point \in {"true", "false"} :
          /\ One(point, enqueue_sig) = 0
          /\ One(point, dequeue_sig) = 0 /\ One(point, unblock_sig) = 0
          /\ point \in Returned /\ point \in Point
    BY DEF One, enqueue_sig, dequeue_sig, unblock_sig, Returned, Point
<1>6. ASSUME NEW point \in {"room", "taker", "true", "false"}, pc' = [pc EXCEPT ![t] = point],
             enqueue_waiters' = IF point \in {"room", "taker"} THEN inside ELSE inside - 1,
             dequeue_waiters' = dequeue_waiters, unblock_sig_waiters' = unblock_sig_waiters,
             use' = use, point = "taker" => pipe_max_size = 0
      PROVE  WaitersCounted' /\ CallsOK'
    <2>1. enqueue_waiters' = enqueue_waiters + One(point, enqueue_sig) - One(pc[t], enqueue_sig)
        BY <1>2, <1>3, <1>4, <1>5, <1>6
    <2>2. dequeue_waiters' = dequeue_waiters + One(point, dequeue_sig) - One(pc[t], dequeue_sig)
        BY <1>2, <1>3, <1>4, <1>5, <1>6
    <2>3. unblock_sig_waiters'
             = unblock_sig_waiters + One(point, unblock_sig) - One(pc[t], unblock_sig)
        BY <1>2, <1>3, <1>4, <1>5, <1>6
    <2>4. WaitersCounted' BY <1>6, <2>1, <2>2, <2>3, WaitersFollow
    <2>5. CallsOK' BY <1>0, <1>1, <1>4, <1>5, <1>6, MoveCalls
    <2> QED BY <2>4, <2>5
<1>7. CASE EnqueueFails(t, inside)
    <2>1. /\ Leave(t, "false", Sleepers(unblock_sig))
          /\ enqueue_waiters' = inside - 1
          /\ UNCHANGED <<timeout, item, ring, flags, dequeue_waiters, unblock_sig_waiters>>
        BY <1>7 DEF EnqueueFails
    <2>2. ThreadsOK' BY <1>0, <1>1, <1>5, <2>1, LeaveThreads DEF ThreadsOK
    <2>3. RingOK' /\ FlagsOK' /\ use' \in Uses
        BY <1>0, <2>1 DEF Leave, RingOK, FirstOK, FlagsOK, ring, flags, pipe_max_size, Slots
    <2>4. WaitersCounted' /\ CallsOK' BY <1>6, <2>1 DEF Leave
    <2> QED BY <2>2, <2>3, <2>4, PartsNext
<1>8. CASE EnqueueWaits(t, inside)
    <2>1. /\ Sleep(t, "room", {})
          /\ t \notin expired
          /\ enqueue_waiters' = inside
          /\ UNCHANGED <<timeout, item, ring, flags, dequeue_waiters, unblock_sig_waiters>>
        BY <1>8 DEF EnqueueWaits, EnqueueGivesUp
    <2>2. ThreadsOK' BY <1>0, <1>4, <2>1, SleepThreads DEF ThreadsOK
    <2>3. RingOK' /\ FlagsOK' /\ use' \in Uses
        BY <1>0, <2>1 DEF Sleep, RingOK, FirstOK, FlagsOK, ring, flags, pipe_max_size, Slots
    <2>4. WaitersCounted' /\ CallsOK' BY <1>6, <2>1 DEF Sleep
    <2> QED BY <2>2, <2>3, <2>4, PartsNext
<1>9. CASE EnqueueStores(t, inside)
    <2>1. /\ ~NoRoom(t) /\ t \notin expired /\ enabled /\ enqueue_enabled
          /\ first' = IF pipe_size = 0 THEN 0 ELSE first
          /\ last' = NewLast
          /\ data' = [data EXCEPT ![NewLast] = item[t]]
          /\ item' = [item EXCEPT ![t] = data[NewLast]]
          /\ pipe_size' = IF pipe_max_size > 0 THEN pipe_size + 1 ELSE pipe_size
          /\ UNCHANGED <<timeout, flags, dequeue_waiters, unblock_sig_waiters>>
        BY <1>9 DEF EnqueueStores, EnqueueGivesUp
    <2>2. NewLast \in Slots
        <3>1. CASE pipe_size = 0 BY <1>0, <3>1, Sizes DEF NewLast
        <3>2. CASE pipe_size # 0
            <4>1. pipe_max_size > 0 /\ last + 1 \in Nat
                BY <1>0, <3>2, Sizes DEF RingOK
            <4> QED BY <1>0, <3>2, <4>1, Sizes DEF NewLast
        <3> QED BY <3>1, <3>2
    <2>3. item' \in [Threads -> Items \cup {Blank}] /\ data' \in [Slots -> Items \cup {Blank}]
        BY <1>0, <2>1, <2>2 DEF ThreadsOK, RingOK
    <2>4. pipe_size' \in 0 .. pipe_max_size
        <3>1. pipe_max_size > 0 => pipe_size # pipe_max_size BY <2>1 DEF NoRoom
        <3> QED BY <1>0, <2>1, <3>1, Sizes DEF RingOK
    <2>5. first' \in Slots \cup {1} /\ (pipe_size' > 0 => first' \in Slots)
        BY <1>0, <2>1, Sizes DEF RingOK, FirstOK
    <2>6. PICK woken : IF pipe_max_size > 0
                       THEN Leave(t, "true", woken)  /\ enqueue_waiters' = inside - 1
                       ELSE Sleep(t, "taker", woken) /\ enqueue_waiters' = inside
        BY <1>9 DEF EnqueueStores
    <2>7. use' = use /\ Slots' = Slots /\ pipe_max_size' = pipe_max_size
        BY <2>6 DEF Leave, Sleep, Slots, pipe_max_size
    <2>8. RingOK' /\ FlagsOK' /\ use' \in Uses
        BY <1>0, <2>1, <2>2, <2>3, <2>4, <2>5, <2>7 DEF RingOK, FirstOK, FlagsOK, flags
    <2>9. CASE pipe_max_size > 0
        <3>1. ThreadsOK' BY <1>0, <1>1, <1>5, <2>1, <2>3, <2>6, <2>9, LeaveThreads
        <3>2. WaitersCounted' /\ CallsOK' BY <1>6, <2>1, <2>6, <2>9 DEF Leave
        <3> QED BY <2>8, <3>1, <3>2, PartsNext
    <2>10. CASE ~(pipe_max_size > 0)
        <3>1. ThreadsOK' BY <1>0, <1>4, <2>1, <2>3, <2>6, <2>10, SleepThreads
        <3>2. WaitersCounted' /\ CallsOK' BY <1>6, <2>1, <2>6, <2>7, <2>10, Sizes, <1>0 DEF Sleep
        <3> QED BY <2>8, <3>1, <3>2, PartsNext
    <2> QED BY <2>9, <2>10
<1> QED BY <1>7, <1>8, <1>9 DEF TryEnqueue

\* The wait for the taker, and what ends it.
LEMMA TakerInv ==
    ASSUME IInv, NEW t \in Threads, TakerAwake(t)
    PROVE  IInv'
<1>0. use \in Uses /\ ThreadsOK /\ RingOK /\ FlagsOK /\ WaitersCounted /\ CallsOK
    BY Parts
<1>1. pc[t] = "taker" /\ t \notin asleep /\ t \notin expired /\ pc[t] \in Waits
    BY <1>0 DEF TakerAwake, ThreadsOK, Waits, enqueue_sig
<1>2. One("taker", enqueue_sig) = 1 /\ One("taker", dequeue_sig) = 0 /\ One("taker", unblock_sig) = 0
    BY DEF One, enqueue_sig, dequeue_sig, unblock_sig
<1>3. enqueue_waiters \in Nat /\ dequeue_waiters \in Nat /\ unblock_sig_waiters \in Nat
    BY <1>0, WaitersNat DEF ThreadsOK
<1>4. "taker" \in Waits \ {"closing"} BY DEF Waits, enqueue_sig
<1>5. pipe_max_size = 0 /\ pipe_size = 0 /\ 0 \in Slots
    BY <1>0, <1>1, Sizes DEF CallsOK, RingOK
<1>6. CASE TakerAwaited(t)
    <2>1. Sleep(t, "taker", {}) /\ UNCHANGED <<timeout, item, ring, flags, waiters>>
        BY <1>6 DEF TakerAwaited
    <2>2. ThreadsOK' BY <1>0, <1>1, <1>4, <2>1, SleepThreads DEF ThreadsOK
    <2>3. RingOK' /\ FlagsOK' /\ use' \in Uses
        BY <1>0, <2>1 DEF Sleep, RingOK, FirstOK, FlagsOK, ring, flags, pipe_max_size, Slots
    <2>4. WaitersCounted'
        <3>1. pc' = pc BY <1>0, <1>1, <2>1 DEF Sleep, ThreadsOK
        <3> QED BY <1>0, <2>1, <3>1
                DEF WaitersCounted, waiters, Enqueueing, Dequeueing, Unblocking
    <2>5. CallsOK' BY <1>0, <1>1, <1>4, <1>5, <2>1, MoveCalls DEF Sleep
    <2> QED BY <2>2, <2>3, <2>4, <2>5, PartsNext
<1>7. ASSUME NEW result \in {"true", "false"}, NEW woken, Leave(t, result, woken),
             item' \in [Threads -> Items \cup {Blank}], data' \in [Slots -> Items \cup {Blank}],
             first' = 1, last' = 1, enqueue_waiters' = enqueue_waiters - 1,
             UNCHANGED <<timeout, pipe_size, flags, dequeue_waiters, unblock_sig_waiters>>
      PROVE  IInv'
    <2>1. /\ One(result, enqueue_sig) = 0
          /\ One(result, dequeue_sig) = 0 /\ One(result, unblock_sig) = 0
          /\ result \in Returned /\ result \in Point
        BY DEF One, enqueue_sig, dequeue_sig, unblock_sig, Returned, Point
    <2>2. ThreadsOK' BY <1>0, <1>1, <1>7, <2>1, LeaveThreads
    <2>3. RingOK' /\ FlagsOK' /\ use' \in Uses
        BY <1>0, <1>5, <1>7 DEF Leave, RingOK, FirstOK, FlagsOK, flags, pipe_max_size, Slots
    <2>4. WaitersCounted'
        <3>1. pc' = [pc EXCEPT ![t] = result] BY <1>7 DEF Leave
        <3>2. enqueue_waiters' = enqueue_waiters + One(result, enqueue_sig) - One(pc[t], enqueue_sig)
            BY <1>1, <1>2, <1>3, <1>7, <2>1
        <3>3. dequeue_waiters' = dequeue_waiters + One(result, dequeue_sig) - One(pc[t], dequeue_sig)
            BY <1>1, <1>2, <1>3, <1>7, <2>1
        <3>4. unblock_sig_waiters'
                 = unblock_sig_waiters + One(result, unblock_sig) - One(pc[t], unblock_sig)
            BY <1>1, <1>2, <1>3, <1>7, <2>1
        <3> QED BY <3>1, <3>2, <3>3, <3>4, WaitersFollow
    <2>5. CallsOK' BY <1>0, <1>1, <1>7, <2>1, MoveCalls DEF Leave, Returned
    <2> QED BY <2>2, <2>3, <2>4, <2>5, PartsNext
<1>8. CASE Withdraw(t)
    <2>1. /\ item' \in [Threads -> Items \cup {Blank}]
          /\ data' \in [Slots -> Items \cup {Blank}]
        BY <1>0, <1>5, <1>8 DEF Withdraw, ThreadsOK, RingOK
    <2> QED BY <1>7, <1>8, <2>1 DEF Withdraw
<1>9. CASE HandedOver(t)
    <2>1. /\ item' \in [Threads -> Items \cup {Blank}]
          /\ data' \in [Slots -> Items \cup {Blank}]
        BY <1>0, <1>9 DEF HandedOver, ThreadsOK, RingOK
    <2> QED BY <1>7, <1>9, <2>1 DEF HandedOver
<1> QED BY <1>6, <1>8, <1>9 DEF TakerAwake

-----------------------------------------------------------------------------
(***************************************************************************)
(* dequeue.                                                                *)
(***************************************************************************)

LEMMA DequeueInv ==
    ASSUME IInv, NEW t \in Threads, NEW inside, NEW woken,
           \/ pc[t] = "dequeue" /\ inside = dequeue_waiters + 1
           \/ pc[t] = "item" /\ t \notin asleep /\ inside = dequeue_waiters,
           TryDequeue(t, inside, woken)
    PROVE  IInv'
<1>0. use \in Uses /\ ThreadsOK /\ RingOK /\ FlagsOK /\ WaitersCounted /\ CallsOK
    BY Parts
<1>1. pc[t] \in Called \cup Waits /\ t \notin asleep
    BY <1>0, Fresh DEF Called, Waits, dequeue_sig
<1>2. /\ inside = dequeue_waiters + 1 - One(pc[t], dequeue_sig)
      /\ One(pc[t], enqueue_sig) = 0 /\ One(pc[t], unblock_sig) = 0
      /\ One(pc[t], dequeue_sig) \in {0, 1}
    BY <1>0, WaitersNat DEF One, enqueue_sig, dequeue_sig, unblock_sig, ThreadsOK
<1>3. enqueue_waiters \in Nat /\ dequeue_waiters \in Nat /\ unblock_sig_waiters \in Nat
    BY <1>0, WaitersNat DEF ThreadsOK
<1>4. /\ One("item", dequeue_sig) = 1
      /\ One("item", enqueue_sig) = 0 /\ One("item", unblock_sig) = 0
      /\ "item" \in Waits \ {"closing"}
    BY DEF One, enqueue_sig, dequeue_sig, unblock_sig, Waits
<1>5. \A point \in {"true", "false"} :
          /\ One(point, enqueue_sig) = 0
          /\ One(point, dequeue_sig) = 0 /\ One(point, unblock_sig) = 0
          /\ point \in Returned /\ point \in Point
    BY DEF One, enqueue_sig, dequeue_sig, unblock_sig, Returned, Point
<1>6. ASSUME NEW point \in {"item", "true", "false"}, pc' = [pc EXCEPT ![t] = point],
             dequeue_waiters' = IF point = "item" THEN inside ELSE inside - 1,
             enqueue_waiters' = enqueue_waiters, unblock_sig_waiters' = unblock_sig_waiters,
             use' = use
      PROVE  WaitersCounted' /\ CallsOK'
    <2>1. enqueue_waiters' = enqueue_waiters + One(point, enqueue_sig) - One(pc[t], enqueue_sig)
        BY <1>2, <1>3, <1>4, <1>5, <1>6
    <2>2. dequeue_waiters' = dequeue_waiters + One(point, dequeue_sig) - One(pc[t], dequeue_sig)
        BY <1>2, <1>3, <1>4, <1>5, <1>6
    <2>3. unblock_sig_waiters'
             = unblock_sig_waiters + One(point, unblock_sig) - One(pc[t], unblock_sig)
        BY <1>2, <1>3, <1>4, <1>5, <1>6
    <2>4. WaitersCounted' BY <1>6, <2>1, <2>2, <2>3, WaitersFollow
    <2>5. CallsOK' BY <1>0, <1>1, <1>4, <1>5, <1>6, MoveCalls
    <2> QED BY <2>4, <2>5
<1>7. CASE DequeueFails(t, inside, woken)
    <2>1. /\ Leave(t, "false", woken \cup Sleepers(unblock_sig))
          /\ dequeue_waiters' = inside - 1
          /\ UNCHANGED <<timeout, item, ring, flags, enqueue_waiters, unblock_sig_waiters>>
        BY <1>7 DEF DequeueFails
    <2>2. ThreadsOK' BY <1>0, <1>1, <1>5, <2>1, LeaveThreads DEF ThreadsOK
    <2>3. RingOK' /\ FlagsOK' /\ use' \in Uses
        BY <1>0, <2>1 DEF Leave, RingOK, FirstOK, FlagsOK, ring, flags, pipe_max_size, Slots
    <2>4. WaitersCounted' /\ CallsOK' BY <1>6, <2>1 DEF Leave
    <2> QED BY <2>2, <2>3, <2>4, PartsNext
<1>8. CASE DequeueWaits(t, inside, woken)
    <2>1. /\ Sleep(t, "item", woken)
          /\ t \notin expired
          /\ dequeue_waiters' = inside
          /\ UNCHANGED <<timeout, item, ring, flags, enqueue_waiters, unblock_sig_waiters>>
        BY <1>8 DEF DequeueWaits, DequeueGivesUp
    <2>2. ThreadsOK' BY <1>0, <1>4, <2>1, SleepThreads DEF ThreadsOK
    <2>3. RingOK' /\ FlagsOK' /\ use' \in Uses
        BY <1>0, <2>1 DEF Sleep, RingOK, FirstOK, FlagsOK, ring, flags, pipe_max_size, Slots
    <2>4. WaitersCounted' /\ CallsOK' BY <1>6, <2>1 DEF Sleep
    <2> QED BY <2>2, <2>3, <2>4, PartsNext
<1>9. CASE DequeueTakes(t, inside, woken)
    <2>1. /\ ~NoItem
          /\ item' = [item EXCEPT ![t] = data[first]]
          /\ data' = [data EXCEPT ![first] = item[t]]
          /\ IF pipe_max_size > 0
             THEN first' = (first + 1) % pipe_max_size /\ pipe_size' = pipe_size - 1 /\ last' = last
             ELSE last' = 1 /\ first' = first /\ pipe_size' = pipe_size
          /\ dequeue_waiters' = inside - 1
          /\ Leave(t, "true", woken \cup Broadcast(enqueue_sig, enqueue_waiters > 0))
          /\ UNCHANGED <<timeout, flags, enqueue_waiters, unblock_sig_waiters>>
        BY <1>9 DEF DequeueTakes
    <2>2. pipe_max_size \in Nat /\ 0 \in Slots /\ Slots \subseteq Nat BY <1>0, Sizes
    <2>3. first \in Slots /\ (pipe_max_size > 0 => pipe_size > 0)
        BY <1>0, <2>1, <2>2 DEF NoItem, RingOK, FirstOK
    <2>4. item' \in [Threads -> Items \cup {Blank}] /\ data' \in [Slots -> Items \cup {Blank}]
        BY <1>0, <2>1, <2>3 DEF ThreadsOK, RingOK
    <2>5. ThreadsOK' BY <1>0, <1>1, <1>5, <2>1, <2>4, LeaveThreads
    <2>6. first' \in Slots
        <3>1. first + 1 \in Nat BY <2>2, <2>3
        <3> QED BY <1>0, <2>1, <2>3, <3>1, Sizes
    <2>7. pipe_size' \in 0 .. pipe_max_size BY <1>0, <2>1, <2>2, <2>3 DEF RingOK
    <2>8. last' \in Slots \cup {1} BY <1>0, <2>1 DEF RingOK
    <2>9. use' = use /\ Slots' = Slots /\ pipe_max_size' = pipe_max_size
        BY <2>1 DEF Leave, Slots, pipe_max_size
    <2>10. RingOK' /\ FlagsOK' /\ use' \in Uses
        BY <1>0, <2>1, <2>4, <2>6, <2>7, <2>8, <2>9 DEF RingOK, FirstOK, FlagsOK, flags
    <2>11. WaitersCounted' /\ CallsOK' BY <1>6, <2>1 DEF Leave
    <2> QED BY <2>5, <2>10, <2>11, PartsNext
<1> QED BY <1>7, <1>8, <1>9 DEF TryDequeue

-----------------------------------------------------------------------------
(***************************************************************************)
(* The waiting members.                                                    *)
(***************************************************************************)

LEMMA UntilEmptyInv ==
    ASSUME IInv, NEW t \in Threads, NEW inside,
           \/ pc[t] = "wait_until_empty" /\ inside = enqueue_waiters + 1
           \/ pc[t] = "drained" /\ t \notin asleep /\ inside = enqueue_waiters,
           UntilEmpty(t, inside)
    PROVE  IInv'
<1>0. use \in Uses /\ ThreadsOK /\ RingOK /\ FlagsOK /\ WaitersCounted /\ CallsOK
    BY Parts
<1>1. pc[t] \in Called \cup Waits /\ t \notin asleep /\ t \notin expired
    BY <1>0, Fresh DEF Called, Waits, enqueue_sig, ThreadsOK
<1>2. /\ inside = enqueue_waiters + 1 - One(pc[t], enqueue_sig)
      /\ One(pc[t], dequeue_sig) = 0 /\ One(pc[t], unblock_sig) = 0
      /\ One(pc[t], enqueue_sig) \in {0, 1}
    BY <1>0, WaitersNat DEF One, enqueue_sig, dequeue_sig, unblock_sig, ThreadsOK
<1>3. enqueue_waiters \in Nat /\ dequeue_waiters \in Nat /\ unblock_sig_waiters \in Nat
    BY <1>0, WaitersNat DEF ThreadsOK
<1>4. /\ One("drained", enqueue_sig) = 1 /\ One("out", enqueue_sig) = 0
      /\ \A point \in {"drained", "out"} : One(point, dequeue_sig) = 0 /\ One(point, unblock_sig) = 0
      /\ "drained" \in Waits \ {"closing"} /\ "out" \in Point
    BY DEF One, enqueue_sig, dequeue_sig, unblock_sig, Waits, Point
<1>5. PICK point \in {"drained", "out"} :
          /\ pc' = [pc EXCEPT ![t] = point]
          /\ enqueue_waiters' = IF point = "drained" THEN inside ELSE inside - 1
          /\ \E woken : IF point = "drained" THEN Sleep(t, point, woken) ELSE Leave(t, point, woken)
    BY DEF UntilEmpty, Sleep, Leave
<1>6. /\ use' = use
      /\ UNCHANGED <<timeout, item, ring, flags, dequeue_waiters, unblock_sig_waiters>>
    BY <1>5 DEF UntilEmpty, Sleep, Leave
<1>7. ThreadsOK'
    <2>1. item' \in [Threads -> Items \cup {Blank}] BY <1>0, <1>6 DEF ThreadsOK
    <2>2. CASE point = "drained" BY <1>0, <1>1, <1>4, <1>5, <1>6, <2>1, <2>2, SleepThreads
    <2>3. CASE point = "out" BY <1>0, <1>1, <1>4, <1>5, <1>6, <2>1, <2>3, LeaveThreads
    <2> QED BY <2>2, <2>3
<1>8. RingOK' /\ FlagsOK' /\ use' \in Uses
    BY <1>0, <1>6 DEF RingOK, FirstOK, FlagsOK, ring, flags, pipe_max_size, Slots
<1>9. WaitersCounted'
    <2>1. enqueue_waiters' = enqueue_waiters + One(point, enqueue_sig) - One(pc[t], enqueue_sig)
        BY <1>2, <1>3, <1>4, <1>5
    <2>2. dequeue_waiters' = dequeue_waiters + One(point, dequeue_sig) - One(pc[t], dequeue_sig)
        BY <1>2, <1>3, <1>4, <1>6
    <2>3. unblock_sig_waiters'
             = unblock_sig_waiters + One(point, unblock_sig) - One(pc[t], unblock_sig)
        BY <1>2, <1>3, <1>4, <1>6
    <2> QED BY <1>5, <2>1, <2>2, <2>3, WaitersFollow
<1>10. CallsOK' BY <1>0, <1>1, <1>4, <1>5, <1>6, MoveCalls
<1> QED BY <1>7, <1>8, <1>9, <1>10, PartsNext

LEMMA ForDequeuesInv ==
    ASSUME IInv, NEW t \in Threads, NEW inside,
           \/ pc[t] = "wait_for_num_blocked_dequeues" /\ inside = unblock_sig_waiters + 1
           \/ pc[t] = "dequeues" /\ t \notin asleep /\ inside = unblock_sig_waiters,
           ForDequeues(t, inside)
    PROVE  IInv'
<1>0. use \in Uses /\ ThreadsOK /\ RingOK /\ FlagsOK /\ WaitersCounted /\ CallsOK
    BY Parts
<1>1. pc[t] \in Called \cup Waits /\ t \notin asleep /\ t \notin expired
    BY <1>0, Fresh DEF Called, Waits, unblock_sig, ThreadsOK
<1>2. /\ inside = unblock_sig_waiters + 1 - One(pc[t], unblock_sig)
      /\ One(pc[t], dequeue_sig) = 0 /\ One(pc[t], enqueue_sig) = 0
      /\ One(pc[t], unblock_sig) \in {0, 1}
    BY <1>0, WaitersNat DEF One, enqueue_sig, dequeue_sig, unblock_sig, ThreadsOK
<1>3. enqueue_waiters \in Nat /\ dequeue_waiters \in Nat /\ unblock_sig_waiters \in Nat
    BY <1>0, WaitersNat DEF ThreadsOK
<1>4. /\ One("dequeues", unblock_sig) = 1 /\ One("out", unblock_sig) = 0
      /\ \A point \in {"dequeues", "out"} : One(point, dequeue_sig) = 0 /\ One(point, enqueue_sig) = 0
      /\ "dequeues" \in Waits \ {"closing"} /\ "out" \in Point
    BY DEF One, enqueue_sig, dequeue_sig, unblock_sig, Waits, Point
<1>5. PICK point \in {"dequeues", "out"} :
          /\ pc' = [pc EXCEPT ![t] = point]
          /\ unblock_sig_waiters' = IF point = "dequeues" THEN inside ELSE inside - 1
          /\ \E woken : IF point = "dequeues" THEN Sleep(t, point, woken) ELSE Leave(t, point, woken)
    BY DEF ForDequeues, Sleep, Leave
<1>6. /\ use' = use
      /\ UNCHANGED <<timeout, item, ring, flags, dequeue_waiters, enqueue_waiters>>
    BY <1>5 DEF ForDequeues, Sleep, Leave
<1>7. ThreadsOK'
    <2>1. item' \in [Threads -> Items \cup {Blank}] BY <1>0, <1>6 DEF ThreadsOK
    <2>2. CASE point = "dequeues" BY <1>0, <1>1, <1>4, <1>5, <1>6, <2>1, <2>2, SleepThreads
    <2>3. CASE point = "out" BY <1>0, <1>1, <1>4, <1>5, <1>6, <2>1, <2>3, LeaveThreads
    <2> QED BY <2>2, <2>3
<1>8. RingOK' /\ FlagsOK' /\ use' \in Uses
    BY <1>0, <1>6 DEF RingOK, FirstOK, FlagsOK, ring, flags, pipe_max_size, Slots
<1>9. WaitersCounted'
    <2>1. enqueue_waiters' = enqueue_waiters + One(point, enqueue_sig) - One(pc[t], enqueue_sig)
        BY <1>2, <1>3, <1>4, <1>6
    <2>2. dequeue_waiters' = dequeue_waiters + One(point, dequeue_sig) - One(pc[t], dequeue_sig)
        BY <1>2, <1>3, <1>4, <1>6
    <2>3. unblock_sig_waiters'
             = unblock_sig_waiters + One(point, unblock_sig) - One(pc[t], unblock_sig)
        BY <1>2, <1>3, <1>4, <1>5
    <2> QED BY <1>5, <2>1, <2>2, <2>3, WaitersFollow
<1>10. CallsOK' BY <1>0, <1>1, <1>4, <1>5, <1>6, MoveCalls
<1> QED BY <1>7, <1>8, <1>9, <1>10, PartsNext

-----------------------------------------------------------------------------
(***************************************************************************)
(* The destructor.  It ends with all counters at 0 but its own at 1, so    *)
(* whoever waits inside is the destructor.                                 *)
(***************************************************************************)

LEMMA UnblockingFinite == IsFiniteSet(Unblocking)
<1>1. Unblocking \subseteq Threads BY DEF Unblocking
<1> QED BY <1>1, ThreadsAssumption, FS_Subset DEF Threads

\* A set whose cardinality is 0 is empty, and one of cardinality 1 has no two members.
LEMMA NobodyLeft ==
    ASSUME IInv, NEW t \in Threads, pc[t] \notin Waits \/ pc[t] = "closing",
           dequeue_waiters = 0, enqueue_waiters = 0,
           unblock_sig_waiters = One(pc[t], unblock_sig)
    PROVE  \A u \in Threads \ {t} : pc[u] \notin Waits
<1>0. ThreadsOK /\ WaitersCounted BY Parts
<1>1. IsFiniteSet(Enqueueing) /\ IsFiniteSet(Dequeueing) /\ IsFiniteSet(Unblocking)
    <2>1. /\ Enqueueing \subseteq Threads
          /\ Dequeueing \subseteq Threads
          /\ Unblocking \subseteq Threads
        BY DEF Enqueueing, Dequeueing, Unblocking
    <2> QED BY <2>1, ThreadsAssumption, FS_Subset DEF Threads
<1>2. Enqueueing = {} /\ Dequeueing = {}
    BY <1>0, <1>1, FS_EmptySet DEF WaitersCounted
<1>3. Unblocking \ {t} = {}
    <2>1. IsFiniteSet(Unblocking \ {t}) /\ Cardinality(Unblocking \ {t}) = 0
        <3>1. CASE pc[t] = "closing"
            <4>1. t \in Unblocking /\ One(pc[t], unblock_sig) = 1
                BY <3>1 DEF Unblocking, One, unblock_sig
            <4>2. Cardinality(Unblocking) = 1 BY <1>0, <4>1 DEF WaitersCounted
            <4> QED BY <1>1, <4>1, <4>2, FS_RemoveElement
        <3>2. CASE pc[t] \notin Waits
            <4>1. t \notin Unblocking /\ One(pc[t], unblock_sig) = 0
                BY <3>2 DEF Unblocking, One, Waits
            <4>2. Cardinality(Unblocking) = 0 BY <1>0, <4>1 DEF WaitersCounted
            <4> QED BY <1>1, <4>1, <4>2, FS_RemoveElement
        <3> QED BY <3>1, <3>2
    <2> QED BY <2>1, FS_EmptySet
<1> QED BY <1>2, <1>3 DEF Enqueueing, Dequeueing, Unblocking, Waits

LEMMA CloseInv ==
    ASSUME IInv, NEW t \in Threads, NEW inside, NEW woken,
           \/ pc[t] = "out" /\ inside = unblock_sig_waiters + 1
           \/ pc[t] = "closing" /\ t \notin asleep /\ inside = unblock_sig_waiters,
           \A u \in Threads : pc[u] \notin Called /\ pc[u] # "gone",
           enabled' \in BOOLEAN, Close(t, inside, woken)
    PROVE  IInv'
<1>0. use \in Uses /\ ThreadsOK /\ RingOK /\ FlagsOK /\ WaitersCounted /\ CallsOK
    BY Parts
<1>1. t \notin asleep /\ t \notin expired
    BY <1>0 DEF ThreadsOK, Waits, enqueue_sig, dequeue_sig, unblock_sig
<1>2. /\ inside = unblock_sig_waiters + 1 - One(pc[t], unblock_sig)
      /\ One(pc[t], dequeue_sig) = 0 /\ One(pc[t], enqueue_sig) = 0
      /\ One(pc[t], unblock_sig) \in {0, 1}
    BY <1>0, WaitersNat DEF One, enqueue_sig, dequeue_sig, unblock_sig, ThreadsOK
<1>3. enqueue_waiters \in Nat /\ dequeue_waiters \in Nat /\ unblock_sig_waiters \in Nat
    BY <1>0, WaitersNat DEF ThreadsOK
<1>4. /\ One("closing", unblock_sig) = 1 /\ One("gone", unblock_sig) = 0
      /\ \A point \in {"closing", "gone"} : One(point, dequeue_sig) = 0 /\ One(point, enqueue_sig) = 0
      /\ "closing" \in Waits /\ "gone" \in Point /\ "gone" \notin Waits \cup Called
      /\ "closing" \notin Called
    BY DEF One, enqueue_sig, dequeue_sig, unblock_sig, Waits, Point, Called
<1>5. PICK point \in {"closing", "gone"} :
          /\ pc' = [pc EXCEPT ![t] = point]
          /\ unblock_sig_waiters' = IF point = "closing" THEN inside ELSE inside - 1
          /\ IF point = "closing" THEN Sleep(t, point, woken) ELSE Leave(t, point, woken)
          /\ point = "gone" => ~(dequeue_waiters > 0 \/ enqueue_waiters > 0 \/ inside > 1)
    BY DEF Close, Sleep, Leave
<1>6. /\ use' = use
      /\ UNCHANGED <<timeout, item, ring, enqueue_enabled, dequeue_enabled, dequeue_waiters,
                     enqueue_waiters>>
    BY <1>5 DEF Close, Sleep, Leave
<1>7. ThreadsOK'
    <2>1. item' \in [Threads -> Items \cup {Blank}] BY <1>0, <1>6 DEF ThreadsOK
    <2>2. CASE point = "closing" BY <1>0, <1>1, <1>4, <1>5, <1>6, <2>1, <2>2, SleepThreads
    <2>3. CASE point = "gone" BY <1>0, <1>1, <1>4, <1>5, <1>6, <2>1, <2>3, LeaveThreads
    <2> QED BY <2>2, <2>3
<1>8. RingOK' /\ FlagsOK' /\ use' \in Uses
    BY <1>0, <1>6 DEF RingOK, FirstOK, FlagsOK, ring, pipe_max_size, Slots
<1>9. WaitersCounted'
    <2>1. enqueue_waiters' = enqueue_waiters + One(point, enqueue_sig) - One(pc[t], enqueue_sig)
        BY <1>2, <1>3, <1>4, <1>6
    <2>2. dequeue_waiters' = dequeue_waiters + One(point, dequeue_sig) - One(pc[t], dequeue_sig)
        BY <1>2, <1>3, <1>4, <1>6
    <2>3. unblock_sig_waiters'
             = unblock_sig_waiters + One(point, unblock_sig) - One(pc[t], unblock_sig)
        BY <1>2, <1>3, <1>4, <1>5
    <2> QED BY <1>5, <2>1, <2>2, <2>3, WaitersFollow
<1>10. CallsOK'
    <2>1. \A u \in Threads : pc'[u] = IF u = t THEN point ELSE pc[u]
        BY <1>0, <1>5 DEF ThreadsOK
    <2>2. point = "gone" => \A u \in Threads : pc'[u] \notin Waits
        <3> SUFFICES ASSUME point = "gone" PROVE \A u \in Threads : pc'[u] \notin Waits
            OBVIOUS
        <3>1. dequeue_waiters = 0 /\ enqueue_waiters = 0 BY <1>3, <1>5
        <3>2. unblock_sig_waiters = One(pc[t], unblock_sig)
            <4>1. ~(inside > 1) BY <1>5
            <4>2. CASE pc[t] = "out"
                BY <1>2, <1>3, <4>1, <4>2 DEF One, unblock_sig
            <4>3. CASE pc[t] = "closing"
                <5>1. One(pc[t], unblock_sig) = 1 BY <1>4, <4>3
                <5>2. Unblocking # {} BY <4>3 DEF Unblocking, unblock_sig
                <5>3. unblock_sig_waiters # 0
                    BY <1>0, <5>2, UnblockingFinite, FS_EmptySet DEF WaitersCounted
                <5> QED BY <1>2, <1>3, <4>1, <5>1, <5>3
            <4> QED BY <4>2, <4>3
        <3>3. pc[t] \notin Waits \/ pc[t] = "closing"
            BY DEF Waits, enqueue_sig, dequeue_sig, unblock_sig
        <3>4. \A u \in Threads \ {t} : pc[u] \notin Waits BY <3>1, <3>2, <3>3, NobodyLeft
        <3> QED BY <1>4, <2>1, <3>4
    <2>3. \A u \in Threads : pc'[u] \notin Called BY <1>4, <2>1
    <2>4. \A u \in Threads : pc'[u] = "gone" => u = t /\ point = "gone" BY <2>1
    <2>5. \A u \in Threads : pc'[u] = "taker" => pc[u] = "taker" BY <2>1
    <2>6. pipe_max_size' = pipe_max_size BY <1>6 DEF pipe_max_size
    <2> QED BY <1>0, <2>2, <2>3, <2>4, <2>5, <2>6 DEF CallsOK
<1> QED BY <1>7, <1>8, <1>9, <1>10, PartsNext

-----------------------------------------------------------------------------
(***************************************************************************)
(* The actions that move no counter.                                       *)
(***************************************************************************)

\* A thread that waits in no member before or after leaves the counters right.
LEMMA OutsideCounted ==
    ASSUME IInv, NEW t \in Threads, NEW point, pc' = [pc EXCEPT ![t] = point],
           pc[t] \notin Waits, point \notin Waits, UNCHANGED waiters
    PROVE  WaitersCounted'
<1>1. \A sig \in {enqueue_sig, dequeue_sig, unblock_sig} :
         One(point, sig) = 0 /\ One(pc[t], sig) = 0
    BY DEF One, Waits
<1>2. enqueue_waiters \in Nat /\ dequeue_waiters \in Nat /\ unblock_sig_waiters \in Nat
    BY DEF IInv, TypeOK
<1>3. enqueue_waiters' = enqueue_waiters + One(point, enqueue_sig) - One(pc[t], enqueue_sig)
    BY <1>1, <1>2 DEF waiters
<1>4. dequeue_waiters' = dequeue_waiters + One(point, dequeue_sig) - One(pc[t], dequeue_sig)
    BY <1>1, <1>2 DEF waiters
<1>5. unblock_sig_waiters'
         = unblock_sig_waiters + One(point, unblock_sig) - One(pc[t], unblock_sig)
    BY <1>1, <1>2 DEF waiters
<1> QED BY <1>3, <1>4, <1>5, WaitersFollow

LEMMA MovesInv ==
    ASSUME IInv, NEW t \in Threads, NEW point \in {"out"} \cup Called,
           NEW time \in use.timeouts \cup {"none"}, NEW x \in Items \cup {Blank},
           pc[t] \notin Waits, point \in Called => Open,
           pc' = [pc EXCEPT ![t] = point],
           timeout' = [timeout EXCEPT ![t] = time],
           item' = [item EXCEPT ![t] = x],
           UNCHANGED <<use, asleep, expired, ring, flags, waiters>>
    PROVE  IInv'
<1>0. use \in Uses /\ ThreadsOK /\ RingOK /\ FlagsOK /\ WaitersCounted /\ CallsOK
    BY Parts
<1>1. point \notin Waits /\ point \in Point /\ point \notin {"closing", "gone", "taker"}
    BY DEF Called, Waits, enqueue_sig, dequeue_sig, unblock_sig, Point
<1>2. \A u \in Threads : pc'[u] = IF u = t THEN point ELSE pc[u] BY <1>0 DEF ThreadsOK
<1>3. ThreadsOK'
    <2>1. pc' \in [Threads -> Point] BY <1>0, <1>1 DEF ThreadsOK
    <2>2. timeout' \in [Threads -> use'.timeouts \cup {"none"}] BY <1>0 DEF ThreadsOK
    <2>3. item' \in [Threads -> Items \cup {Blank}] BY <1>0 DEF ThreadsOK
    <2>4. t \notin asleep /\ t \notin expired
        BY <1>0 DEF ThreadsOK, Waits, enqueue_sig, dequeue_sig
    <2>5. asleep' \subseteq {u \in Threads : pc'[u] \in Waits}
        BY <1>0, <1>2, <2>4 DEF ThreadsOK
    <2>6. expired' \subseteq {u \in Threads : pc'[u] \in {"room", "item"}}
        BY <1>0, <1>2, <2>4 DEF ThreadsOK
    <2> QED BY <1>0, <2>1, <2>2, <2>3, <2>5, <2>6 DEF ThreadsOK
<1>4. RingOK' /\ FlagsOK' /\ use' \in Uses
    BY <1>0 DEF RingOK, FirstOK, FlagsOK, ring, flags, pipe_max_size, Slots
<1>5. WaitersCounted' BY <1>1, OutsideCounted
<1>6. CallsOK'
    <2>1. \A u \in Threads : pc'[u] \in {"closing", "gone", "taker"} \cup Waits => pc'[u] = pc[u]
        BY <1>1, <1>2
    <2>2. point \in Called => \A u \in Threads : pc[u] \notin {"closing", "gone"} BY DEF Open
    <2> QED BY <1>0, <1>1, <1>2, <2>1, <2>2 DEF CallsOK, pipe_max_size
<1> QED BY <1>3, <1>4, <1>5, <1>6, PartsNext

LEMMA CallsInv ==
    ASSUME IInv, NEW t \in Threads, CallEnqueue(t) \/ CallDequeue(t) \/ CallWait(t)
    PROVE  IInv'
<1>1. PICK member \in Called, time \in use.timeouts \cup {"none"}, x \in Items \cup {Blank} :
         Calls(t, member, time, x)
    BY DEF CallEnqueue, CallDequeue, CallWait, Called
<1>2. pc[t] \notin Waits BY <1>1 DEF Calls, Waits, enqueue_sig, dequeue_sig, unblock_sig
<1> QED BY <1>1, <1>2, MovesInv DEF Calls

LEMMA GoOnInv == ASSUME IInv, NEW t \in Threads, GoOn(t) PROVE IInv'
<1>1. pc[t] \notin Waits /\ "out" \notin Called
    BY DEF GoOn, Returned, Called, Waits, enqueue_sig, dequeue_sig, unblock_sig
<1> QED BY <1>1, MovesInv DEF GoOn

\* Wakeups only take threads out of asleep.
LEMMA StillInv ==
    ASSUME IInv, UNCHANGED <<use, pc, timeout, item, data, first, last, waiters>>,
           asleep' \subseteq asleep,
           expired' \subseteq {t \in Threads : pc[t] \in {"room", "item"}},
           asleep' \cap expired' = {},
           FlagsOK', pipe_size' \in {pipe_size, 0}
    PROVE  IInv'
<1>0. use \in Uses /\ ThreadsOK /\ RingOK /\ FlagsOK /\ WaitersCounted /\ CallsOK
    BY Parts
<1>1. ThreadsOK' BY <1>0 DEF ThreadsOK
<1>2. pipe_size' \in 0 .. pipe_max_size /\ (pipe_size' > 0 => pipe_size' = pipe_size)
    BY <1>0, Sizes DEF RingOK
<1>3. pipe_max_size' = pipe_max_size /\ Slots' = Slots BY DEF pipe_max_size, Slots
<1>4. RingOK' BY <1>0, <1>2, <1>3 DEF RingOK, FirstOK
<1>5. WaitersCounted'
    BY <1>0 DEF WaitersCounted, waiters, Enqueueing, Dequeueing, Unblocking
<1>6. CallsOK' BY <1>0, <1>3 DEF CallsOK
<1> QED BY <1>0, <1>1, <1>4, <1>5, <1>6, PartsNext

LEMMA QuietInv ==
    ASSUME IInv,
           \/ Empty
           \/ \E b \in BOOLEAN : SetEnabled(b) \/ SetEnqueueEnabled(b) \/ SetDequeueEnabled(b)
           \/ \E t \in Threads : TimeOut(t) \/ SpuriousWakeup(t)
           \/ UNCHANGED vars
    PROVE  IInv'
<1>0. ThreadsOK /\ FlagsOK BY Parts
<1>1. CASE Empty BY <1>0, <1>1, StillInv DEF Empty, ThreadsOK, FlagsOK, flags
<1>2. ASSUME NEW b \in BOOLEAN, SetEnabled(b) \/ SetEnqueueEnabled(b) \/ SetDequeueEnabled(b)
      PROVE  IInv'
    <2>1. UNCHANGED <<use, pc, timeout, item, expired, ring, waiters>> /\ asleep' \subseteq asleep
        BY <1>2 DEF SetEnabled, SetEnqueueEnabled, SetDequeueEnabled, Sets
    <2>2. FlagsOK'
        BY <1>0, <1>2 DEF SetEnabled, SetEnqueueEnabled, SetDequeueEnabled, FlagsOK
    <2> QED BY <1>0, <2>1, <2>2, StillInv DEF ThreadsOK, ring
<1>3. ASSUME NEW t \in Threads, TimeOut(t) PROVE IInv'
    BY <1>0, <1>3, StillInv DEF TimeOut, ThreadsOK, FlagsOK, flags, ring
<1>4. ASSUME NEW t \in Threads, SpuriousWakeup(t) PROVE IInv'
    BY <1>0, <1>4, StillInv DEF SpuriousWakeup, ThreadsOK, FlagsOK, flags, ring
<1>5. CASE UNCHANGED vars
    BY <1>0, <1>5, StillInv DEF vars, ThreadsOK, FlagsOK, flags, ring
<1> QED BY <1>1, <1>2, <1>3, <1>4, <1>5

-----------------------------------------------------------------------------
(***************************************************************************)
(* The invariant.                                                          *)
(***************************************************************************)

LEMMA InitInv == Init => IInv
<1> SUFFICES ASSUME Init PROVE IInv OBVIOUS
<1>1. use \in Uses BY DEF Init
<1>2. ThreadsOK BY DEF Init, ThreadsOK, Point
<1>3. RingOK BY <1>1, Sizes DEF Init, RingOK, FirstOK
<1>4. FlagsOK BY DEF Init, FlagsOK
<1>5. WaitersCounted
    <2>1. Enqueueing = {} /\ Dequeueing = {} /\ Unblocking = {}
        BY DEF Init, Enqueueing, Dequeueing, Unblocking, enqueue_sig, dequeue_sig, unblock_sig
    <2> QED BY <2>1, FS_EmptySet DEF Init, WaitersCounted
<1>6. CallsOK BY DEF Init, CallsOK
<1> QED BY <1>1, <1>2, <1>3, <1>4, <1>5, <1>6, Parts

LEMMA DestroyInv == ASSUME IInv, NEW t \in Threads, Destroy(t) PROVE IInv'
<1>1. /\ pc[t] = "out"
      /\ \A u \in Threads : pc[u] \notin Called /\ pc[u] # "gone"
      /\ enabled' \in BOOLEAN
      /\ Close(t, unblock_sig_waiters + 1, asleep)
    BY DEF Destroy, Open
<1> QED BY <1>1, CloseInv

LEMMA CloseAwakeInv == ASSUME IInv, NEW t \in Threads, CloseAwake(t) PROVE IInv'
<1>1. pc[t] = "closing" /\ t \notin asleep /\ enabled' = enabled /\ Close(t, unblock_sig_waiters, {})
    BY DEF CloseAwake
<1>2. CallsOK /\ FlagsOK BY Parts
<1>3. \A u \in Threads : pc[u] \notin Called /\ pc[u] # "gone"
    BY <1>1, <1>2 DEF CallsOK, Waits, unblock_sig
<1>4. enabled' \in BOOLEAN BY <1>1, <1>2 DEF FlagsOK
<1> QED BY <1>1, <1>3, <1>4, CloseInv

LEMMA InvKept == IInv /\ [Next]_vars => IInv'
<1> SUFFICES ASSUME IInv, [Next]_vars PROVE IInv' OBVIOUS
<1>1. ASSUME NEW t \in Threads, Begins(t) PROVE IInv'
    <2>1. CASE Enqueue(t) BY <2>1, EnqueueInv DEF Enqueue
    <2>2. CASE Dequeue(t) BY <2>2, DequeueInv DEF Dequeue
    <2>3. CASE WaitUntilEmpty(t) BY <2>3, UntilEmptyInv DEF WaitUntilEmpty
    <2>4. CASE WaitForNumBlockedDequeues(t)
        BY <2>4, ForDequeuesInv DEF WaitForNumBlockedDequeues
    <2> QED BY <1>1, <2>1, <2>2, <2>3, <2>4 DEF Begins
<1>2. ASSUME NEW t \in Threads, Awake(t) PROVE IInv'
    <2>1. CASE EnqueueAwake(t) BY <2>1, EnqueueInv DEF EnqueueAwake
    <2>2. CASE TakerAwake(t) BY <2>2, TakerInv
    <2>3. CASE DequeueAwake(t) BY <2>3, DequeueInv DEF DequeueAwake
    <2>4. CASE DrainedAwake(t) BY <2>4, UntilEmptyInv DEF DrainedAwake
    <2>5. CASE DequeuesAwake(t) BY <2>5, ForDequeuesInv DEF DequeuesAwake
    <2>6. CASE CloseAwake(t) BY <2>6, CloseAwakeInv
    <2> QED BY <1>2, <2>1, <2>2, <2>3, <2>4, <2>5, <2>6 DEF Awake
<1>3. ASSUME NEW t \in Threads, CallEnqueue(t) \/ CallDequeue(t) \/ CallWait(t) PROVE IInv'
    BY <1>3, CallsInv
<1>4. ASSUME NEW t \in Threads, GoOn(t) PROVE IInv' BY <1>4, GoOnInv
<1>5. ASSUME NEW t \in Threads, Destroy(t) PROVE IInv' BY <1>5, DestroyInv
<1>6. CASE \/ Empty
           \/ \E b \in BOOLEAN : SetEnabled(b) \/ SetEnqueueEnabled(b) \/ SetDequeueEnabled(b)
           \/ \E t \in Threads : TimeOut(t) \/ SpuriousWakeup(t)
           \/ UNCHANGED vars
    BY <1>6, QuietInv
<1> QED BY <1>1, <1>2, <1>3, <1>4, <1>5, <1>6 DEF Next

LEMMA Invariant == Spec => []IInv
BY InitInv, InvKept, PTL DEF Spec

\* The ring's indices and size stay inside the ring, and only who waits inside a
\* member sleeps, whatever the pipe's size.
THEOREM TypeCorrect == Spec => []TypeOK
<1>1. IInv => TypeOK BY DEF IInv
<1> QED BY <1>1, Invariant, PTL

\* Each of the three counters is the number of the calls inside that it stands for,
\* though a call leaves a member in many places.
THEOREM Counted == Spec => []WaitersCounted
<1>1. IInv => WaitersCounted BY DEF IInv
<1> QED BY <1>1, Invariant, PTL

\* The destructor deletes the ring only when no call is inside any more.
THEOREM NobodyInside == Spec => []NobodyInsideAtDelete
<1>1. IInv => NobodyInsideAtDelete BY DEF IInv, CallsOK, NobodyInsideAtDelete
<1> QED BY <1>1, Invariant, PTL

-----------------------------------------------------------------------------
(***************************************************************************)
(* Wakeups.                                                                *)
(*                                                                         *)
(* A member broadcasts a signaler if its counter of waiters is not 0.      *)
(* Because the counters count, that is as good as always.                  *)
(***************************************************************************)

\* Who sleeps, sleeps for a reason.
SleepOK ==
    \A t \in asleep :
        /\ pc[t] = "room" => NoRoom(t)
        /\ pc[t] = "taker" => last = 0 /\ enabled /\ enqueue_enabled
        /\ pc[t] = "drained" => pipe_size > 0 /\ enabled
        /\ pc[t] = "item" => enabled /\ dequeue_enabled

\* There is one destructor, it has woken everybody else, and no member sleeps any
\* more in a pipe that is not enabled.
ClosingOK ==
    \A t \in Threads : pc[t] = "closing" =>
        /\ ~enabled
        /\ \A u \in Threads : pc[u] = "closing" \/ u \in asleep => u = t
        /\ t \in asleep => \E u \in Threads \ asleep : pc[u] \in Waits

WakeInv == SleepOK /\ ClosingOK /\ EveryItemHasATaker

\* The callers of dequeue who are awake and will look for an item.
Takers == (Dequeueing \ asleep) \ expired

AllFinite ==
    /\ IsFiniteSet(Enqueueing) /\ IsFiniteSet(Dequeueing) /\ IsFiniteSet(Unblocking)
    /\ IsFiniteSet(Takers)

LEMMA SetsFinite == AllFinite
<1>1. /\ Enqueueing \subseteq Threads
      /\ Dequeueing \subseteq Threads
      /\ Unblocking \subseteq Threads
      /\ Takers \subseteq Threads
    BY DEF Enqueueing, Dequeueing, Unblocking, Takers
<1> QED BY <1>1, ThreadsAssumption, FS_Subset DEF Threads, AllFinite

LEMMA SetsFiniteNext == AllFinite'
BY SetsFinite, PTL

LEMMA Wakes ==
    ASSUME IInv
    PROVE  /\ Broadcast(enqueue_sig, enqueue_waiters > 0) = Sleepers(enqueue_sig)
           /\ Broadcast(unblock_sig, unblock_sig_waiters > 0) = Sleepers(unblock_sig)
           /\ Sleepers(dequeue_sig) # {} => dequeue_waiters > 0
           /\ \A t \in Enqueueing \ asleep :
                 Broadcast(enqueue_sig, enqueue_waiters > 1) = Sleepers(enqueue_sig)
<1>0. ThreadsOK /\ WaitersCounted BY Parts
<1>1. enqueue_waiters \in Nat /\ dequeue_waiters \in Nat /\ unblock_sig_waiters \in Nat
    BY <1>0, WaitersNat DEF ThreadsOK
<1>2. /\ Sleepers(enqueue_sig) \subseteq Enqueueing
      /\ Sleepers(dequeue_sig) \subseteq Dequeueing
      /\ Sleepers(unblock_sig) \subseteq Unblocking
    BY <1>0 DEF Sleepers, Enqueueing, Dequeueing, Unblocking, ThreadsOK
<1>3. /\ Sleepers(enqueue_sig) # {} => enqueue_waiters > 0
      /\ Sleepers(dequeue_sig) # {} => dequeue_waiters > 0
      /\ Sleepers(unblock_sig) # {} => unblock_sig_waiters > 0
    <2>1. /\ Sleepers(enqueue_sig) # {} => enqueue_waiters # 0
          /\ Sleepers(dequeue_sig) # {} => dequeue_waiters # 0
          /\ Sleepers(unblock_sig) # {} => unblock_sig_waiters # 0
        BY <1>0, <1>2, SetsFinite, FS_EmptySet DEF WaitersCounted, AllFinite
    <2> QED BY <1>1, <2>1
<1>4. ASSUME NEW t \in Enqueueing \ asleep, Sleepers(enqueue_sig) # {}
      PROVE  enqueue_waiters > 1
    <2>1. Enqueueing \ {t} # {} BY <1>2, <1>4 DEF Sleepers
    <2>2. /\ IsFiniteSet(Enqueueing \ {t})
          /\ Cardinality(Enqueueing \ {t}) = Cardinality(Enqueueing) - 1
        BY <1>4, SetsFinite, FS_RemoveElement DEF AllFinite
    <2>3. Cardinality(Enqueueing \ {t}) # 0 BY <2>1, <2>2, FS_EmptySet
    <2>4. enqueue_waiters - 1 # 0 BY <1>0, <2>2, <2>3 DEF WaitersCounted
    <2> QED BY <1>1, <1>3, <1>4, <2>4
<1> QED BY <1>3, <1>4 DEF Broadcast

\* Who leaves a pipe that is not enabled wakes the destructor.
LEMMA ClosingKept ==
    ASSUME IInv, ClosingOK, NEW t \in Threads, NEW point, pc' = [pc EXCEPT ![t] = point],
           t \notin asleep, pc[t] # "closing", point # "closing",
           enabled' = enabled, asleep' \subseteq asleep \cup {t},
           enabled \/ asleep' \subseteq asleep \ Sleepers(unblock_sig)
    PROVE  ClosingOK'
<1>0. pc \in [Threads -> Point] BY Parts DEF ThreadsOK
<1> SUFFICES ASSUME NEW c \in Threads, pc'[c] = "closing"
             PROVE  /\ ~enabled'
                    /\ \A u \in Threads : pc'[u] = "closing" \/ u \in asleep' => u = c
                    /\ c \notin asleep'
    BY DEF ClosingOK
<1>1. c # t /\ pc[c] = "closing" BY <1>0
<1>2. ~enabled /\ \A u \in Threads : pc[u] = "closing" \/ u \in asleep => u = c
    BY <1>1 DEF ClosingOK
<1>3. c \in asleep => c \in Sleepers(unblock_sig) BY <1>1 DEF Sleepers, unblock_sig
<1>4. c \notin asleep' BY <1>2, <1>3
<1>5. \A u \in Threads : pc'[u] = "closing" => u = c BY <1>0, <1>2
<1>6. \A u \in Threads : u \in asleep' => u = c BY <1>2
<1> QED BY <1>2, <1>4, <1>5, <1>6

LEMMA ItemsNat == IInv => ItemsThere \in Nat
<1> SUFFICES ASSUME IInv PROVE ItemsThere \in Nat OBVIOUS
<1>1. RingOK /\ use \in Uses BY Parts
<1> QED BY <1>1, Sizes DEF ItemsThere, RingOK

LEMMA ItemsNatNext == (IInv => ItemsThere \in Nat)'
BY ItemsNat, PTL

\* Items have their takers if there are no more items and no fewer takers than before.
LEMMA TakersMore ==
    ASSUME IInv, IInv', EveryItemHasATaker,
           Takers \subseteq Takers', Sleepers(dequeue_sig)' # {} => Sleepers(dequeue_sig) # {},
           ItemsThere' <= ItemsThere
    PROVE  EveryItemHasATaker'
<1>1. IsFiniteSet(Takers) /\ IsFiniteSet(Takers') BY SetsFinite, SetsFiniteNext DEF AllFinite
<1>2. /\ Cardinality(Takers) \in Nat /\ Cardinality(Takers') \in Nat
      /\ Cardinality(Takers) <= Cardinality(Takers')
    BY <1>1, FS_CardinalityType, FS_Subset
<1>3. ItemsThere \in Nat /\ ItemsThere' \in Nat BY ItemsNat, ItemsNatNext
<1>4. ASSUME Sleepers(dequeue_sig)' # {} PROVE ItemsThere' <= Cardinality(Takers')
    <2>1. ItemsThere <= Cardinality(Takers) BY <1>4 DEF EveryItemHasATaker, Takers
    <2> QED BY <1>2, <1>3, <2>1
<1> QED BY <1>4 DEF EveryItemHasATaker, Takers

\* No items need no takers.
LEMMA NoItems ==
    ASSUME IInv', ItemsThere' = 0
    PROVE  EveryItemHasATaker'
<1>1. IsFiniteSet(Takers') BY SetsFiniteNext DEF AllFinite
<1>2. Cardinality(Takers') \in Nat BY <1>1, FS_CardinalityType
<1> QED BY <1>2 DEF EveryItemHasATaker, Takers

\* A thread that moves elsewhere leaves the other takers as they are.
LEMMA TakersStay ==
    ASSUME IInv, NEW t \in Threads, NEW point, pc' = [pc EXCEPT ![t] = point],
           asleep' \subseteq asleep \cup {t}, expired' \subseteq expired
    PROVE  /\ Takers \ {t} \subseteq Takers'
           /\ point # "item" /\ t \notin asleep =>
                 (Sleepers(dequeue_sig)' # {} => Sleepers(dequeue_sig) # {})
<1>0. ThreadsOK BY Parts
<1>1. \A u \in Threads \ {t} : pc'[u] = pc[u] BY <1>0 DEF ThreadsOK
<1>2. Takers \ {t} \subseteq Takers' BY <1>1 DEF Takers, Dequeueing
<1>3. ASSUME point # "item", t \notin asleep
      PROVE  Sleepers(dequeue_sig)' \subseteq Sleepers(dequeue_sig)
    <2>1. pc'[t] # "item" BY <1>0, <1>3 DEF ThreadsOK
    <2>2. asleep \subseteq Threads BY <1>0 DEF ThreadsOK
    <2> QED BY <1>1, <2>1, <2>2 DEF Sleepers, dequeue_sig
<1> QED BY <1>2, <1>3

\* What the wakeups need to know of a state.
LEMMA Facts ==
    ASSUME IInv
    PROVE  /\ pipe_max_size \in Nat /\ pipe_size \in 0 .. pipe_max_size
           /\ asleep \subseteq Threads /\ pc \in [Threads -> Point]
           /\ asleep \cap expired = {}
           /\ \A t \in Threads : pc[t] = "taker" => pipe_max_size = 0
BY Parts, Sizes DEF ThreadsOK, RingOK, CallsOK

LEMMA EnqueueWakes ==
    ASSUME IInv, IInv', WakeInv, NEW t \in Threads, NEW inside,
           pc[t] \in {"enqueue", "room"}, t \notin asleep, TryEnqueue(t, inside)
    PROVE  WakeInv'
<1>0. /\ pipe_max_size \in Nat /\ pipe_size \in 0 .. pipe_max_size
      /\ asleep \subseteq Threads /\ pc \in [Threads -> Point]
      /\ asleep \cap expired = {}
      /\ \A u \in Threads : pc[u] = "taker" => pipe_max_size = 0
    BY Facts
<1>1. t \notin Takers BY DEF Takers, Dequeueing, dequeue_sig
<1>2. CASE EnqueueFails(t, inside)
    <2>1. /\ pc' = [pc EXCEPT ![t] = "false"]
          /\ asleep' = asleep \ Sleepers(unblock_sig)
          /\ expired' \subseteq expired /\ use' = use
          /\ UNCHANGED <<timeout, ring, flags, dequeue_waiters>>
        BY <1>2 DEF EnqueueFails, Leave
    <2>2. \A u \in asleep' : u \in asleep /\ pc'[u] = pc[u] BY <1>0, <2>1
    <2>3. SleepOK'
        BY <2>1, <2>2 DEF WakeInv, SleepOK, NoRoom, ring, flags, pipe_max_size
    <2>4. ClosingOK' BY <2>1, ClosingKept DEF WakeInv, flags
    <2>5. Takers \subseteq Takers' /\ (Sleepers(dequeue_sig)' # {} => Sleepers(dequeue_sig) # {})
        <3>1. asleep' \subseteq asleep \cup {t} BY <2>1
        <3>2. /\ Takers \ {t} \subseteq Takers'
              /\ "false" # "item" /\ t \notin asleep =>
                    (Sleepers(dequeue_sig)' # {} => Sleepers(dequeue_sig) # {})
            BY ONLY IInv, t \in Threads, <2>1, <3>1, TakersStay
        <3> QED BY <1>1, <3>2
    <2>6. ItemsThere' <= ItemsThere
        BY <2>1, ItemsNat DEF ItemsThere, NoItem, ring, pipe_max_size
    <2> QED BY <2>3, <2>4, <2>5, <2>6, TakersMore DEF WakeInv
<1>3. CASE EnqueueWaits(t, inside)
    <2>1. /\ pc' = [pc EXCEPT ![t] = "room"]
          /\ asleep' = asleep \cup {t}
          /\ expired' = expired /\ use' = use
          /\ NoRoom(t)
          /\ UNCHANGED <<timeout, ring, flags, dequeue_waiters>>
        BY <1>3 DEF EnqueueWaits, Sleep
    <2>2. \A u \in asleep' : (u \in asleep /\ pc'[u] = pc[u]) \/ (u = t /\ pc'[u] = "room")
        BY <1>0, <2>1
    <2>3. SleepOK'
        BY <2>1, <2>2 DEF WakeInv, SleepOK, NoRoom, ring, flags, pipe_max_size
    <2>4. ClosingOK' BY <2>1, ClosingKept DEF WakeInv, flags, NoRoom
    <2>5. Takers \subseteq Takers' /\ (Sleepers(dequeue_sig)' # {} => Sleepers(dequeue_sig) # {})
        BY <1>1, <2>1, TakersStay
    <2>6. ItemsThere' <= ItemsThere
        BY <2>1, ItemsNat DEF ItemsThere, NoItem, ring, pipe_max_size
    <2> QED BY <2>3, <2>4, <2>5, <2>6, TakersMore DEF WakeInv
<1>4. CASE EnqueueStores(t, inside)
    <2>1. /\ enabled /\ enqueue_enabled /\ ~NoRoom(t)
          /\ first' = IF pipe_size = 0 THEN 0 ELSE first
          /\ last' = NewLast
          /\ pipe_size' = IF pipe_max_size > 0 THEN pipe_size + 1 ELSE pipe_size
          /\ UNCHANGED <<timeout, flags, dequeue_waiters>>
        BY <1>4 DEF EnqueueStores, EnqueueGivesUp
    <2>2. PICK woken \in IF dequeue_waiters > 0 THEN Signal(dequeue_sig) ELSE {{}} :
                 IF pipe_max_size > 0 THEN Leave(t, "true", woken) ELSE Sleep(t, "taker", woken)
        BY <1>4 DEF EnqueueStores
    <2>3. PICK point \in {"true", "taker"} :
                 /\ pc' = [pc EXCEPT ![t] = point]
                 /\ point = "taker" => pipe_max_size = 0
                 /\ asleep' = IF point = "taker" THEN (asleep \ woken) \cup {t} ELSE asleep \ woken
                 /\ expired' = IF point = "taker" THEN expired ELSE expired \ {t}
                 /\ use' = use /\ pipe_max_size' = pipe_max_size
        BY <1>0, <2>2 DEF Leave, Sleep, pipe_max_size
    <2>4. \A u \in asleep' : (u \in asleep \ woken /\ u # t /\ pc'[u] = pc[u])
                         \/ (u = t /\ pc'[u] = "taker")
        BY <1>0, <2>3
    <2>5. pipe_max_size = 0 => last' = 0 /\ first' = 0 /\ pipe_size' = 0
        BY <1>0, <2>1 DEF NewLast
    <2>6. SleepOK'
        <3> SUFFICES ASSUME NEW u \in asleep'
                     PROVE  /\ pc'[u] = "room" => NoRoom(u)'
                            /\ pc'[u] = "taker" => last' = 0 /\ enabled' /\ enqueue_enabled'
                            /\ pc'[u] = "drained" => pipe_size' > 0 /\ enabled'
                            /\ pc'[u] = "item" => enabled' /\ dequeue_enabled'
            BY DEF SleepOK
        <3>1. CASE u = t
            BY <1>0, <2>1, <2>3, <2>4, <2>5, <3>1 DEF flags
        <3>2. CASE u # t
            <4>1. u \in asleep /\ pc'[u] = pc[u] /\ u \in Threads BY <1>0, <2>4, <3>2
            <4>2. pc[u] = "room" => pipe_max_size = 0
                <5>1. pc[u] = "room" => pipe_size = pipe_max_size
                    BY <4>1 DEF WakeInv, SleepOK, NoRoom
                <5>2. pipe_size = pipe_max_size => pipe_max_size = 0
                    BY <1>0, <2>1 DEF NoRoom
                <5> QED BY <5>1, <5>2
            <4>3. pc[u] = "room" => NoRoom(u)'
                BY <2>1, <2>3, <2>5, <4>2 DEF NoRoom, flags
            <4>4. pc[u] = "taker" => last' = 0 BY <1>0, <2>5, <4>1
            <4>5. pc[u] = "drained" => pipe_size' > 0
                BY <1>0, <2>1, <4>1 DEF WakeInv, SleepOK
            <4>6. pc[u] = "item" => dequeue_enabled BY <4>1 DEF WakeInv, SleepOK
            <4> QED BY <2>1, <4>1, <4>3, <4>4, <4>5, <4>6 DEF flags
        <3> QED BY <3>1, <3>2
    <2>7. ClosingOK' BY <2>1, <2>3, ClosingKept DEF WakeInv, flags
    <2>8. EveryItemHasATaker'
        <3> SUFFICES ASSUME Sleepers(dequeue_sig)' # {}
                     PROVE  ItemsThere' <= Cardinality(Takers')
            BY DEF EveryItemHasATaker, Takers
        <3>1. Takers \subseteq Takers' /\ Sleepers(dequeue_sig) # {}
            BY <1>1, <2>3, TakersStay
        <3>2. PICK u \in Sleepers(dequeue_sig) : woken = {u}
            BY <2>2, <3>1, Wakes DEF Signal
        <3>3. u \in Takers' /\ u \notin Takers
            <4>1. u \in asleep /\ u \in Threads /\ u # t /\ pc[u] = "item" /\ u \notin expired
                BY <1>0, <3>2 DEF Sleepers, dequeue_sig
            <4>2. pc'[u] = "item" /\ u \notin asleep' /\ u \notin expired'
                BY <1>0, <2>3, <3>2, <4>1
            <4> QED BY <4>1, <4>2 DEF Takers, Dequeueing, dequeue_sig
        <3>4. IsFiniteSet(Takers) /\ IsFiniteSet(Takers') BY SetsFinite, SetsFiniteNext DEF AllFinite
        <3>5. Cardinality(Takers \cup {u}) = Cardinality(Takers) + 1 /\ IsFiniteSet(Takers \cup {u})
            BY <3>3, <3>4, FS_AddElement
        <3>6. Cardinality(Takers \cup {u}) <= Cardinality(Takers')
            BY <3>1, <3>3, <3>4, FS_Subset
        <3>7. Cardinality(Takers) \in Nat /\ Cardinality(Takers') \in Nat
            BY <3>4, FS_CardinalityType
        <3>8. ItemsThere <= Cardinality(Takers) BY <3>1 DEF WakeInv, EveryItemHasATaker, Takers
        <3>9. ItemsThere' <= ItemsThere + 1
            <4>1. CASE pipe_max_size > 0
                BY <1>0, <2>1, <2>3, <4>1 DEF ItemsThere
            <4>2. CASE ~(pipe_max_size > 0)
                <5>1. ItemsThere' \in {0, 1} BY <2>3, <4>2 DEF ItemsThere
                <5>2. ItemsThere \in Nat BY ItemsNat
                <5> QED BY <5>1, <5>2
            <4> QED BY <4>1, <4>2
        <3>10. ItemsThere \in Nat /\ ItemsThere' \in Nat BY ItemsNat, ItemsNatNext
        <3> QED BY <3>5, <3>6, <3>7, <3>8, <3>9, <3>10
    <2> QED BY <2>6, <2>7, <2>8 DEF WakeInv
<1> QED BY <1>2, <1>3, <1>4 DEF TryEnqueue

LEMMA TakerWakes ==
    ASSUME IInv, IInv', WakeInv, NEW t \in Threads, TakerAwake(t)
    PROVE  WakeInv'
<1>0. /\ pipe_max_size \in Nat /\ pipe_size \in 0 .. pipe_max_size
      /\ asleep \subseteq Threads /\ pc \in [Threads -> Point]
      /\ asleep \cap expired = {}
      /\ \A u \in Threads : pc[u] = "taker" => pipe_max_size = 0
    BY Facts
<1>1. pc[t] = "taker" /\ t \notin asleep /\ t \notin Takers /\ pipe_max_size = 0
    BY <1>0 DEF TakerAwake, Takers, Dequeueing, dequeue_sig
<1>2. CASE TakerAwaited(t)
    <2>1. /\ pc' = [pc EXCEPT ![t] = "taker"]
          /\ asleep' = asleep \cup {t}
          /\ expired' = expired /\ use' = use
          /\ last = 0 /\ enabled /\ enqueue_enabled
          /\ UNCHANGED <<timeout, ring, flags, waiters>>
        BY <1>2 DEF TakerAwaited, Sleep
    <2>2. \A u \in asleep' : (u \in asleep /\ pc'[u] = pc[u]) \/ (u = t /\ pc'[u] = "taker")
        BY <1>0, <2>1
    <2>3. SleepOK'
        BY <2>1, <2>2 DEF WakeInv, SleepOK, NoRoom, ring, flags, waiters, pipe_max_size
    <2>4. ClosingOK' BY <1>1, <2>1, ClosingKept DEF WakeInv, flags
    <2>5. Takers \subseteq Takers' /\ (Sleepers(dequeue_sig)' # {} => Sleepers(dequeue_sig) # {})
        BY <1>1, <2>1, TakersStay
    <2>6. ItemsThere' <= ItemsThere
        BY <2>1, ItemsNat DEF ItemsThere, NoItem, ring, pipe_max_size
    <2> QED BY <2>3, <2>4, <2>5, <2>6, TakersMore DEF WakeInv
<1>3. CASE Withdraw(t)
    <2>1. /\ pc' = [pc EXCEPT ![t] = "false"]
          /\ asleep' = asleep \ Sleepers(unblock_sig)
          /\ expired' = expired \ {t} /\ use' = use
          /\ ~(enabled /\ enqueue_enabled) /\ first' = 1 /\ last' = 1
          /\ UNCHANGED <<timeout, pipe_size, flags, dequeue_waiters>>
        BY <1>3, Wakes DEF Withdraw, Leave
    <2>2. \A u \in asleep' : u \in asleep /\ pc'[u] = pc[u] BY <1>0, <1>1, <2>1
    <2>3. SleepOK'
        BY <2>1, <2>2 DEF WakeInv, SleepOK, NoRoom, flags, pipe_max_size
    <2>4. ClosingOK' BY <1>1, <2>1, ClosingKept DEF WakeInv, flags
    <2>5. ItemsThere' = 0
        BY <1>0, <1>1, <2>1 DEF ItemsThere, NoItem, pipe_max_size
    <2> QED BY <2>3, <2>4, <2>5, NoItems DEF WakeInv
<1>4. CASE HandedOver(t)
    <2>1. t \in Enqueueing \ asleep BY <1>1 DEF Enqueueing, enqueue_sig
    <2>2. /\ pc' = [pc EXCEPT ![t] = "true"]
          /\ asleep' = asleep \ (Sleepers(enqueue_sig)
                                   \cup Broadcast(unblock_sig, ~enabled /\ unblock_sig_waiters > 0))
          /\ expired' = expired \ {t} /\ use' = use
          /\ first' = 1 /\ last' = 1
          /\ UNCHANGED <<timeout, pipe_size, flags, dequeue_waiters>>
        BY <1>4, <2>1, Wakes DEF HandedOver, Leave
    <2>3. enabled \/ asleep' \subseteq asleep \ Sleepers(unblock_sig)
        <3>1. ~enabled => Broadcast(unblock_sig, ~enabled /\ unblock_sig_waiters > 0)
                             = Sleepers(unblock_sig)
            BY Wakes DEF Broadcast
        <3> QED BY <2>2, <3>1
    <2>4. \A u \in asleep' : u \in asleep /\ pc'[u] = pc[u] /\ pc[u] \notin enqueue_sig
        BY <1>0, <1>1, <2>2 DEF Sleepers
    <2>5. SleepOK'
        BY <2>2, <2>4 DEF WakeInv, SleepOK, flags, enqueue_sig
    <2>6. ClosingOK' BY <1>1, <2>2, <2>3, ClosingKept DEF WakeInv, flags
    <2>7. ItemsThere' = 0
        BY <1>0, <1>1, <2>2 DEF ItemsThere, NoItem, pipe_max_size
    <2> QED BY <2>5, <2>6, <2>7, NoItems DEF WakeInv
<1> QED BY <1>2, <1>3, <1>4 DEF TakerAwake

LEMMA DequeueWakes ==
    ASSUME IInv, IInv', WakeInv, NEW t \in Threads, NEW inside, NEW woken,
           pc[t] \in {"dequeue", "item"}, t \notin asleep,
           \/ inside = dequeue_waiters
           \/ inside = dequeue_waiters + 1 /\ (pipe_size = 0 => Sleepers(enqueue_sig) \subseteq woken),
           TryDequeue(t, inside, woken)
    PROVE  WakeInv'
<1>0. /\ pipe_max_size \in Nat /\ pipe_size \in 0 .. pipe_max_size
      /\ asleep \subseteq Threads /\ pc \in [Threads -> Point]
      /\ asleep \cap expired = {}
      /\ \A u \in Threads : pc[u] = "taker" => pipe_max_size = 0
    BY Facts
<1>1. dequeue_waiters \in Nat BY DEF IInv, TypeOK
<1>2. CASE DequeueFails(t, inside, woken)
    <2>1. /\ pc' = [pc EXCEPT ![t] = "false"]
          /\ asleep' \subseteq asleep \ Sleepers(unblock_sig)
          /\ asleep' \subseteq asleep
          /\ expired' \subseteq expired /\ use' = use
          /\ dequeue_waiters' = inside - 1
          /\ UNCHANGED <<timeout, ring, flags>>
        BY <1>2 DEF DequeueFails, Leave
    <2>2. \A u \in asleep' : u \in asleep /\ pc'[u] = pc[u] BY <1>0, <2>1
    <2>3. dequeue_waiters' > 0 => dequeue_waiters > 0 BY <1>1, <2>1
    <2>4. SleepOK'
        BY <2>1, <2>2, <2>3 DEF WakeInv, SleepOK, NoRoom, ring, flags, pipe_max_size
    <2>5. ClosingOK' BY <2>1, ClosingKept DEF WakeInv, flags
    <2>6. /\ Takers \ {t} \subseteq Takers'
          /\ "false" # "item" /\ t \notin asleep =>
                (Sleepers(dequeue_sig)' # {} => Sleepers(dequeue_sig) # {})
        <3>1. asleep' \subseteq asleep \cup {t} BY <2>1
        <3> QED BY ONLY IInv, t \in Threads, <2>1, <3>1, TakersStay
    <2>7. ItemsThere' = ItemsThere
        BY <2>1 DEF ItemsThere, NoItem, ring, pipe_max_size
    <2>8. EveryItemHasATaker'
        <3>1. CASE ~enabled \/ ~dequeue_enabled
            <4>1. Sleepers(dequeue_sig) = {}
                BY <3>1 DEF WakeInv, SleepOK, Sleepers, dequeue_sig
            <4> QED BY <2>6, <4>1 DEF EveryItemHasATaker
        <3>2. CASE t \in expired
            <4>1. Takers \subseteq Takers' BY <2>6, <3>2 DEF Takers
            <4>2. ItemsThere' <= ItemsThere BY <2>7, ItemsNat
            <4> QED BY <2>6, <4>1, <4>2, TakersMore DEF WakeInv
        <3>3. CASE NoItem
            <4>1. ItemsThere = 0 BY <3>3 DEF ItemsThere, NoItem
            <4> QED BY <2>7, <4>1, NoItems
        <3> QED BY <1>2, <3>1, <3>2, <3>3 DEF DequeueFails, DequeueGivesUp
    <2> QED BY <2>4, <2>5, <2>8 DEF WakeInv
<1>3. CASE DequeueWaits(t, inside, woken)
    <2>1. /\ pc' = [pc EXCEPT ![t] = "item"]
          /\ asleep' = (asleep \ woken) \cup {t}
          /\ expired' = expired /\ use' = use
          /\ enabled /\ dequeue_enabled /\ NoItem
          /\ dequeue_waiters' = inside
          /\ UNCHANGED <<timeout, ring, flags>>
        BY <1>3 DEF DequeueWaits, Sleep, DequeueGivesUp
    <2>2. \A u \in asleep' : (u \in asleep \ woken /\ pc'[u] = pc[u]) \/ (u = t /\ pc'[u] = "item")
        BY <1>0, <2>1
    <2>3. ASSUME NEW u \in asleep \ woken, pc[u] = "room" PROVE NoRoom(u)'
        <3>1. pipe_max_size = 0 => inside = dequeue_waiters
            BY <1>0, <2>3 DEF Sleepers, enqueue_sig
        <3>2. NoRoom(u) BY <2>3 DEF WakeInv, SleepOK
        <3> QED BY <2>1, <3>1, <3>2 DEF NoRoom, ring, flags, pipe_max_size
    <2>4. SleepOK'
        BY <2>1, <2>2, <2>3 DEF WakeInv, SleepOK, ring, flags
    <2>5. ClosingOK' BY <2>1, ClosingKept DEF WakeInv, flags
    <2>6. ItemsThere' = 0
        BY <2>1 DEF ItemsThere, NoItem, ring, pipe_max_size
    <2> QED BY <2>4, <2>5, <2>6, NoItems DEF WakeInv
<1>4. CASE DequeueTakes(t, inside, woken)
    <2>1. /\ pc' = [pc EXCEPT ![t] = "true"]
          /\ asleep' \subseteq asleep \ Sleepers(enqueue_sig)
          /\ asleep' \subseteq asleep \cup {t}
          /\ expired' \subseteq expired /\ use' = use
          /\ enabled /\ ~NoItem
          /\ IF pipe_max_size > 0
             THEN pipe_size' = pipe_size - 1
             ELSE last' = 1 /\ pipe_size' = pipe_size
          /\ UNCHANGED <<timeout, flags>>
        BY <1>4, Wakes DEF DequeueTakes, Leave, DequeueGivesUp
    <2>2. \A u \in asleep' : u \in asleep /\ pc'[u] = pc[u] /\ pc[u] \notin enqueue_sig
        BY <1>0, <2>1 DEF Sleepers
    <2>3. SleepOK'
        BY <2>1, <2>2 DEF WakeInv, SleepOK, flags, enqueue_sig
    <2>4. ClosingOK' BY <2>1, ClosingKept DEF WakeInv, flags
    <2>5. /\ Takers \ {t} \subseteq Takers'
          /\ "true" # "item" /\ t \notin asleep =>
                (Sleepers(dequeue_sig)' # {} => Sleepers(dequeue_sig) # {})
        BY ONLY IInv, t \in Threads, <2>1, TakersStay
    <2>6. ItemsThere' = ItemsThere - 1
        BY <1>0, <2>1 DEF ItemsThere, NoItem, pipe_max_size
    <2>7. EveryItemHasATaker'
        <3> SUFFICES ASSUME Sleepers(dequeue_sig)' # {}
                     PROVE  ItemsThere' <= Cardinality(Takers')
            BY DEF EveryItemHasATaker, Takers
        <3>1. IsFiniteSet(Takers) /\ IsFiniteSet(Takers') BY SetsFinite, SetsFiniteNext DEF AllFinite
        <3>2. /\ IsFiniteSet(Takers \ {t})
              /\ Cardinality(Takers \ {t})
                    = IF t \in Takers THEN Cardinality(Takers) - 1 ELSE Cardinality(Takers)
            BY <3>1, FS_RemoveElement
        <3>3. Cardinality(Takers \ {t}) <= Cardinality(Takers') BY <2>5, <3>1, FS_Subset
        <3>4. /\ Cardinality(Takers) \in Nat /\ Cardinality(Takers') \in Nat
              /\ Cardinality(Takers \ {t}) \in Nat
            BY <3>1, <3>2, FS_CardinalityType
        <3>5. ItemsThere <= Cardinality(Takers) BY <2>5 DEF WakeInv, EveryItemHasATaker, Takers
        <3>6. ItemsThere \in Nat /\ ItemsThere' \in Nat BY ItemsNat, ItemsNatNext
        <3> QED BY <2>6, <3>2, <3>3, <3>4, <3>5, <3>6
    <2> QED BY <2>3, <2>4, <2>7 DEF WakeInv
<1> QED BY <1>2, <1>3, <1>4 DEF TryDequeue

\* The two members that wait for others' progress.
LEMMA WatcherWakes ==
    ASSUME IInv, IInv', WakeInv, NEW t \in Threads, NEW inside,
           pc[t] \notin {"item", "closing"}, t \notin asleep,
           UntilEmpty(t, inside) \/ ForDequeues(t, inside)
    PROVE  WakeInv'
<1>0. /\ pipe_max_size \in Nat /\ pipe_size \in 0 .. pipe_max_size
      /\ asleep \subseteq Threads /\ pc \in [Threads -> Point]
      /\ asleep \cap expired = {}
      /\ \A u \in Threads : pc[u] = "taker" => pipe_max_size = 0
    BY Facts
<1>1. PICK point \in {"drained", "dequeues", "out"} :
          /\ pc' = [pc EXCEPT ![t] = point]
          /\ point = "drained" => pipe_size > 0
          /\ point # "out" => enabled /\ asleep' = asleep \cup {t} /\ expired' = expired
          /\ point = "out" => /\ asleep' = asleep \ Broadcast(unblock_sig, ~enabled)
                              /\ expired' = expired \ {t}
          /\ use' = use
    BY DEF UntilEmpty, ForDequeues, Sleep, Leave
<1>2. UNCHANGED <<timeout, ring, flags, dequeue_waiters>> BY DEF UntilEmpty, ForDequeues
<1>3. \A u \in asleep' : (u \in asleep /\ pc'[u] = pc[u])
                         \/ (u = t /\ point # "out" /\ pc'[u] = point)
    BY <1>0, <1>1
<1>4. SleepOK'
    BY <1>1, <1>2, <1>3 DEF WakeInv, SleepOK, NoRoom, ring, flags, pipe_max_size
<1>5. asleep' \subseteq asleep \cup {t} /\ expired' \subseteq expired BY <1>1
<1>6. ClosingOK'
    <2>1. enabled \/ asleep' \subseteq asleep \ Sleepers(unblock_sig)
        BY <1>1 DEF Broadcast
    <2> QED BY <1>1, <1>2, <1>5, <2>1, ClosingKept DEF WakeInv, flags
<1>7. Takers \subseteq Takers' /\ (Sleepers(dequeue_sig)' # {} => Sleepers(dequeue_sig) # {})
    <2>1. t \notin Takers /\ point # "item" BY DEF Takers, Dequeueing, dequeue_sig
    <2>2. /\ Takers \ {t} \subseteq Takers'
          /\ point # "item" /\ t \notin asleep =>
                (Sleepers(dequeue_sig)' # {} => Sleepers(dequeue_sig) # {})
        BY ONLY IInv, t \in Threads, <1>1, <1>5, TakersStay
    <2> QED BY <2>1, <2>2
<1>8. ItemsThere' <= ItemsThere
    BY <1>1, <1>2, ItemsNat DEF ItemsThere, NoItem, ring, pipe_max_size
<1> QED BY <1>4, <1>6, <1>7, <1>8, TakersMore DEF WakeInv

\* A counter that is not 0, or above what the destructor itself counts, is somebody.
LEMMA SomebodyLeft ==
    ASSUME IInv, NEW t \in Threads, pc[t] \notin Waits \/ pc[t] = "closing",
           \A u \in Threads \ {t} : pc[u] \notin Waits
    PROVE  /\ dequeue_waiters = 0 /\ enqueue_waiters = 0
           /\ unblock_sig_waiters = One(pc[t], unblock_sig)
<1>0. WaitersCounted BY Parts
<1>1. Enqueueing = {} /\ Dequeueing = {} /\ Unblocking = IF pc[t] = "closing" THEN {t} ELSE {}
    BY DEF Enqueueing, Dequeueing, Unblocking, Waits, enqueue_sig, dequeue_sig, unblock_sig
<1>2. Cardinality({}) = 0 /\ Cardinality({t}) = 1 BY FS_EmptySet, FS_Singleton
<1>3. One(pc[t], unblock_sig) = IF pc[t] = "closing" THEN 1 ELSE 0
    BY DEF One, Waits, unblock_sig
<1> QED BY <1>0, <1>1, <1>2, <1>3 DEF WaitersCounted

LEMMA CloseWakes ==
    ASSUME IInv, IInv', NEW t \in Threads, NEW inside, NEW woken,
           \/ pc[t] = "out" /\ inside = unblock_sig_waiters + 1
           \/ pc[t] = "closing" /\ inside = unblock_sig_waiters,
           \A u \in Threads \ {t} : pc[u] # "closing",
           asleep \ woken = {}, ~enabled', Close(t, inside, woken)
    PROVE  WakeInv'
<1>0. pc \in [Threads -> Point] /\ unblock_sig_waiters \in Nat BY Facts DEF IInv, TypeOK
<1>1. PICK point \in {"closing", "gone"} :
          /\ pc' = [pc EXCEPT ![t] = point]
          /\ asleep' = IF point = "closing" THEN {t} ELSE {}
          /\ point = "closing" => dequeue_waiters > 0 \/ enqueue_waiters > 0 \/ inside > 1
    BY DEF Close, Sleep, Leave
<1>2. pc'[t] = point /\ \A u \in Threads \ {t} : pc'[u] = pc[u] BY <1>0, <1>1
<1>3. SleepOK' BY <1>1, <1>2 DEF SleepOK
<1>4. EveryItemHasATaker'
    <2>1. Sleepers(dequeue_sig)' = {} BY <1>1, <1>2 DEF Sleepers, dequeue_sig
    <2> QED BY <2>1 DEF EveryItemHasATaker
<1>5. ASSUME point = "closing"
      PROVE  \E u \in Threads \ asleep' : pc'[u] \in Waits
    <2>1. ~(dequeue_waiters = 0 /\ enqueue_waiters = 0
              /\ unblock_sig_waiters = One(pc[t], unblock_sig))
        <3>1. pc[t] = "out" => One(pc[t], unblock_sig) = 0 BY DEF One, unblock_sig
        <3>2. pc[t] = "closing" => One(pc[t], unblock_sig) = 1 BY DEF One, unblock_sig
        <3> QED BY <1>0, <1>1, <1>5, <3>1, <3>2
    <2>2. pc[t] \notin Waits \/ pc[t] = "closing"
        BY DEF Waits, enqueue_sig, dequeue_sig, unblock_sig
    <2>3. PICK u \in Threads \ {t} : pc[u] \in Waits BY <2>1, <2>2, SomebodyLeft
    <2> QED BY <1>1, <1>2, <1>5, <2>3
<1>6. ClosingOK' BY <1>1, <1>2, <1>5 DEF ClosingOK
<1> QED BY <1>3, <1>4, <1>6 DEF WakeInv

\* Who goes in or out does not sleep, and takes nothing.
LEMMA MovesWake ==
    ASSUME IInv, IInv', WakeInv, NEW t \in Threads, NEW point, NEW time,
           pc[t] \notin Waits, point \notin Waits,
           pc' = [pc EXCEPT ![t] = point], timeout' = [timeout EXCEPT ![t] = time],
           UNCHANGED <<use, asleep, expired, ring, flags, waiters>>
    PROVE  WakeInv'
<1>0. ThreadsOK BY Parts
<1>1. t \notin asleep /\ t \notin Takers
    BY <1>0 DEF ThreadsOK, Takers, Dequeueing, Waits
<1>2. \A u \in Threads \ {t} : pc'[u] = pc[u] /\ timeout'[u] = timeout[u]
    BY <1>0 DEF ThreadsOK
<1>3. SleepOK'
    <2>1. \A u \in asleep : pc'[u] = pc[u] /\ timeout'[u] = timeout[u]
        BY <1>0, <1>1, <1>2 DEF ThreadsOK
    <2> QED BY <2>1 DEF WakeInv, SleepOK, NoRoom, ring, flags, waiters, pipe_max_size
<1>4. ClosingOK'
    <2>1. pc[t] # "closing" /\ point # "closing" BY DEF Waits, unblock_sig
    <2>2. \A u \in Threads : pc'[u] = "closing" => pc[u] = "closing" /\ u # t
        BY <1>0, <1>2, <2>1 DEF ThreadsOK
    <2>3. \A u \in Threads \ asleep : pc[u] \in Waits => pc'[u] \in Waits BY <1>2
    <2> QED BY <2>2, <2>3 DEF WakeInv, ClosingOK, flags
<1>5. Takers \subseteq Takers' /\ (Sleepers(dequeue_sig)' # {} => Sleepers(dequeue_sig) # {})
    <2>1. point # "item" BY DEF Waits, dequeue_sig
    <2>2. asleep' \subseteq asleep \cup {t} /\ expired' \subseteq expired OBVIOUS
    <2>3. /\ Takers \ {t} \subseteq Takers'
          /\ point # "item" /\ t \notin asleep =>
                (Sleepers(dequeue_sig)' # {} => Sleepers(dequeue_sig) # {})
        BY ONLY IInv, t \in Threads, pc' = [pc EXCEPT ![t] = point], <2>2, TakersStay
    <2> QED BY <1>1, <2>1, <2>3
<1>6. ItemsThere' <= ItemsThere
    BY ItemsNat DEF ItemsThere, NoItem, ring, pipe_max_size
<1> QED BY <1>3, <1>4, <1>5, <1>6, TakersMore DEF WakeInv

\* Wakeups wake nobody in vain, and flags change only before the destructor is called.
LEMMA StillWakes ==
    ASSUME IInv, IInv', WakeInv, UNCHANGED <<use, pc>>, asleep' \subseteq asleep,
           expired' \subseteq expired \cup (asleep \ asleep'),
           SleepOK', ItemsThere' <= ItemsThere, enabled' = enabled \/ Open
    PROVE  WakeInv'
<1>1. ClosingOK'
    <2>1. CASE enabled' = enabled BY <2>1 DEF WakeInv, ClosingOK
    <2>2. CASE Open BY <2>2 DEF Open, ClosingOK
    <2> QED BY <2>1, <2>2
<1>2. Takers \subseteq Takers' BY DEF Takers, Dequeueing
<1>3. Sleepers(dequeue_sig)' \subseteq Sleepers(dequeue_sig) BY DEF Sleepers
<1> QED BY <1>1, <1>2, <1>3, TakersMore DEF WakeInv

LEMMA QuietWakes ==
    ASSUME IInv, IInv', WakeInv,
           \/ Empty
           \/ \E b \in BOOLEAN : SetEnabled(b) \/ SetEnqueueEnabled(b) \/ SetDequeueEnabled(b)
           \/ \E t \in Threads : TimeOut(t) \/ SpuriousWakeup(t)
           \/ UNCHANGED vars
    PROVE  WakeInv'
<1>0. /\ pipe_max_size \in Nat /\ pipe_size \in 0 .. pipe_max_size
      /\ asleep \subseteq Threads
    BY Facts
<1>1. CASE Empty
    <2>1. /\ UNCHANGED <<use, pc, timeout, expired, first, last, flags, waiters>>
          /\ pipe_size' = 0 /\ asleep' = asleep \ Sleepers(enqueue_sig)
        BY <1>1, Wakes DEF Empty
    <2>2. SleepOK'
        <3>1. \A t \in asleep' : t \in asleep /\ pc[t] \notin enqueue_sig
            BY <2>1 DEF Sleepers
        <3> QED BY <2>1, <3>1 DEF WakeInv, SleepOK, enqueue_sig, flags
    <2>3. ItemsThere' <= ItemsThere
        BY <1>0, <2>1, ItemsNat DEF ItemsThere, NoItem, pipe_max_size
    <2> QED BY <2>1, <2>2, <2>3, StillWakes DEF flags
<1>2. ASSUME NEW b \in BOOLEAN, SetEnabled(b) \/ SetEnqueueEnabled(b) \/ SetDequeueEnabled(b)
      PROVE  WakeInv'
    <2>1. UNCHANGED <<use, pc, timeout, expired, ring, waiters>> /\ Open
        BY <1>2 DEF SetEnabled, SetEnqueueEnabled, SetDequeueEnabled, Sets
    <2>2. asleep' \subseteq asleep
        BY <1>2 DEF SetEnabled, SetEnqueueEnabled, SetDequeueEnabled
    <2>3. ASSUME NEW t \in asleep' PROVE
             /\ enabled => enabled'
             /\ pc[t] \in enqueue_sig => (enqueue_enabled => enqueue_enabled')
             /\ pc[t] \in dequeue_sig => (dequeue_enabled => dequeue_enabled')
        BY <1>2, <2>3 DEF SetEnabled, SetEnqueueEnabled, SetDequeueEnabled, Broadcast, Sleepers
    <2>4. SleepOK'
        BY <2>1, <2>2, <2>3
        DEF WakeInv, SleepOK, NoRoom, ring, waiters, pipe_max_size, enqueue_sig, dequeue_sig
    <2>5. ItemsThere' <= ItemsThere
        BY <2>1, ItemsNat DEF ItemsThere, NoItem, ring, pipe_max_size
    <2> QED BY <2>1, <2>2, <2>4, <2>5, StillWakes
<1>3. CASE \/ \E t \in Threads : TimeOut(t) \/ SpuriousWakeup(t)
           \/ UNCHANGED vars
    <2>1. /\ UNCHANGED <<use, pc, timeout, ring, flags, waiters>>
          /\ asleep' \subseteq asleep
          /\ expired' \subseteq expired \cup (asleep \ asleep')
        BY <1>3 DEF TimeOut, SpuriousWakeup, vars
    <2>2. SleepOK'
        BY <2>1 DEF WakeInv, SleepOK, NoRoom, ring, flags, waiters, pipe_max_size
    <2>3. ItemsThere' <= ItemsThere
        BY <2>1, ItemsNat DEF ItemsThere, NoItem, ring, pipe_max_size
    <2> QED BY <2>1, <2>2, <2>3, StillWakes DEF flags
<1> QED BY <1>1, <1>2, <1>3

-----------------------------------------------------------------------------
(***************************************************************************)
(* The invariant of wakeups.                                               *)
(***************************************************************************)

LEMMA BeginsWake == ASSUME IInv, IInv', WakeInv, NEW t \in Threads, Begins(t) PROVE WakeInv'
<1>0. ThreadsOK BY Parts
<1>1. CASE Enqueue(t)
    <2>1. pc[t] = "enqueue" /\ t \notin asleep
        BY <1>0, <1>1, Fresh DEF Enqueue, Called
    <2> QED BY <1>1, <2>1, EnqueueWakes DEF Enqueue
<1>2. CASE Dequeue(t)
    <2> DEFINE woken == Broadcast(unblock_sig, pipe_size = 0 /\ unblock_sig_waiters > 0)
                           \cup Broadcast(enqueue_sig, pipe_size = 0 /\ enqueue_waiters > 0)
    <2>1. pc[t] = "dequeue" /\ t \notin asleep
        BY <1>0, <1>2, Fresh DEF Dequeue, Called
    <2>2. pipe_size = 0 => Sleepers(enqueue_sig) \subseteq woken
        BY Wakes DEF Broadcast
    <2>3. TryDequeue(t, dequeue_waiters + 1, woken) BY <1>2 DEF Dequeue
    <2> HIDE DEF woken
    <2> QED BY <2>1, <2>2, <2>3, DequeueWakes
<1>3. CASE WaitUntilEmpty(t)
    <2>1. pc[t] = "wait_until_empty" /\ t \notin asleep
        BY <1>0, <1>3, Fresh DEF WaitUntilEmpty, Called
    <2> QED BY <1>3, <2>1, WatcherWakes DEF WaitUntilEmpty
<1>4. CASE WaitForNumBlockedDequeues(t)
    <2>1. pc[t] = "wait_for_num_blocked_dequeues" /\ t \notin asleep
        BY <1>0, <1>4, Fresh DEF WaitForNumBlockedDequeues, Called
    <2> QED BY <1>4, <2>1, WatcherWakes DEF WaitForNumBlockedDequeues
<1> QED BY <1>1, <1>2, <1>3, <1>4 DEF Begins

LEMMA AwakeWakes == ASSUME IInv, IInv', WakeInv, NEW t \in Threads, Awake(t) PROVE WakeInv'
<1>1. CASE EnqueueAwake(t) BY <1>1, EnqueueWakes DEF EnqueueAwake
<1>2. CASE TakerAwake(t) BY <1>2, TakerWakes
<1>3. CASE DequeueAwake(t) BY <1>3, DequeueWakes DEF DequeueAwake
<1>4. CASE DrainedAwake(t) BY <1>4, WatcherWakes DEF DrainedAwake
<1>5. CASE DequeuesAwake(t) BY <1>5, WatcherWakes DEF DequeuesAwake
<1>6. CASE CloseAwake(t)
    <2>1. pc[t] = "closing" /\ t \notin asleep /\ enabled' = enabled
             /\ Close(t, unblock_sig_waiters, {})
        BY <1>6 DEF CloseAwake
    <2>2. ~enabled /\ \A u \in Threads : pc[u] = "closing" \/ u \in asleep => u = t
        BY <2>1 DEF WakeInv, ClosingOK
    <2>3. asleep \ {} = {} BY <2>1, <2>2, Facts
    <2> QED BY <2>1, <2>2, <2>3, CloseWakes
<1> QED BY <1>1, <1>2, <1>3, <1>4, <1>5, <1>6 DEF Awake

LEMMA WakeKept == IInv /\ WakeInv /\ [Next]_vars => WakeInv'
<1> SUFFICES ASSUME IInv, WakeInv, [Next]_vars PROVE WakeInv' OBVIOUS
<1>0. IInv' BY InvKept
<1>1. ASSUME NEW t \in Threads, Begins(t) PROVE WakeInv' BY <1>0, <1>1, BeginsWake
<1>2. ASSUME NEW t \in Threads, Awake(t) PROVE WakeInv' BY <1>0, <1>2, AwakeWakes
<1>3. ASSUME NEW t \in Threads, CallEnqueue(t) \/ CallDequeue(t) \/ CallWait(t) PROVE WakeInv'
    <2>1. PICK member \in Called, time \in use.timeouts \cup {"none"}, x \in Items \cup {Blank} :
             Calls(t, member, time, x)
        BY <1>3 DEF CallEnqueue, CallDequeue, CallWait, Called
    <2>2. pc[t] \notin Waits /\ member \notin Waits
        BY <2>1 DEF Calls, Called, Waits, enqueue_sig, dequeue_sig, unblock_sig
    <2> QED BY <1>0, <2>1, <2>2, MovesWake DEF Calls
<1>4. ASSUME NEW t \in Threads, GoOn(t) PROVE WakeInv'
    <2>1. pc[t] \notin Waits /\ "out" \notin Waits
        BY <1>4 DEF GoOn, Returned, Waits, enqueue_sig, dequeue_sig, unblock_sig
    <2> QED BY <1>0, <1>4, <2>1, MovesWake DEF GoOn
<1>5. ASSUME NEW t \in Threads, Destroy(t) PROVE WakeInv'
    <2>1. /\ pc[t] = "out" /\ \A u \in Threads : pc[u] # "closing"
          /\ ~enabled' /\ Close(t, unblock_sig_waiters + 1, asleep)
        BY <1>5 DEF Destroy, Open
    <2> QED BY <1>0, <2>1, CloseWakes
<1>6. CASE \/ Empty
           \/ \E b \in BOOLEAN : SetEnabled(b) \/ SetEnqueueEnabled(b) \/ SetDequeueEnabled(b)
           \/ \E t \in Threads : TimeOut(t) \/ SpuriousWakeup(t)
           \/ UNCHANGED vars
    BY <1>0, <1>6, QuietWakes
<1> QED BY <1>1, <1>2, <1>3, <1>4, <1>5, <1>6 DEF Next

LEMMA WakeInvariant == Spec => []WakeInv
<1>1. Init => WakeInv
    BY DEF Init, WakeInv, SleepOK, ClosingOK, EveryItemHasATaker, Sleepers
<1> QED BY <1>1, Invariant, WakeKept, PTL DEF Spec

\* Callers of enqueue, of wait_until_empty and the destructor sleep on only while
\* there is no room, the item is not taken, the pipe is enabled and not empty, or
\* a call that is awake is inside, though each wakeup is sent by one who saw a
\* reason to, to the sleepers of one signaler.  That wait_until_empty also ends
\* when dequeue is disabled, and wait_for_num_blocked_dequeues, are no part of it:
\* those sleepers may be forgotten.
THEOREM NobodySleeps == Spec => []NobodySleepsInVain
<1>1. ASSUME IInv, WakeInv PROVE NobodySleepsInVain
    <2>1. asleep \subseteq Threads BY <1>1, Facts
    <2> QED BY <1>1, <2>1 DEF WakeInv, SleepOK, ClosingOK, NobodySleepsInVain, Sleepers
<1> QED BY <1>1, Invariant, WakeInvariant, PTL

\* While callers of dequeue sleep beside items, as many others as there are items
\* are awake to take them, although enqueue signals only one.
THEOREM ItemsHaveTakers == Spec => []EveryItemHasATaker
<1>1. WakeInv => EveryItemHasATaker BY DEF WakeInv
<1> QED BY <1>1, WakeInvariant, PTL

-----------------------------------------------------------------------------
(***************************************************************************)
(* The pipe is a first in first out queue.                                 *)
(*                                                                         *)
(* The refinement needs to know where the ring ends, that a pipe of size 0 *)
(* holds the item of one call at a time, the one that waits for its taker, *)
(* and that who is outside holds no item.                                  *)
(***************************************************************************)

InOrder == pipe_size > 0 => last = (first + pipe_size - 1) % pipe_max_size

HandOK ==
    pipe_max_size = 0 =>
       /\ \A t, u \in Threads : pc[t] = "taker" /\ pc[u] = "taker" => t = u
       /\ first \in {0, 1} /\ last \in {0, 1}
       /\ first = 0 <=> \E t \in Threads : pc[t] = "taker"
       /\ last = 0 => first = 0

AtItem    == {"enqueue", "room", "taker", "dequeue", "item"} \cup Returned
BlankOK   == \A t \in Threads : pc[t] \notin AtItem => item[t] = Blank
OrderInv  == InOrder /\ HandOK /\ BlankOK

\* The refinement mapping of held, call, and their parts.
HeldBy(t)    == IF Handing(t) THEN data[0] ELSE item[t]
AbstractHeld == [t \in Threads |-> HeldBy(t)]
AbstractCalls == [t \in Threads |-> AbstractCall(t)]

\* Remainders of what is less than twice the divisor.
LEMMA Remainder ==
    ASSUME NEW m \in Nat, m > 0, NEW a \in 0 .. m - 1
    PROVE  a % m = a /\ (a + m) % m = a
<1>1. a % m = a OBVIOUS
<1>2. (a + m) % m = a OBVIOUS
<1> QED BY <1>1, <1>2

\* The remainder goes on by one, and round.
LEMMA RemainderNext ==
    ASSUME NEW m \in Nat, m > 0, NEW a \in Nat, a < 2 * m
    PROVE  ((a % m) + 1) % m = (a + 1) % m
<1>1. CASE a < m
    <2>1. a \in 0 .. m - 1 BY <1>1
    <2> QED BY <2>1, Remainder
<1>2. CASE a >= m
    <2> DEFINE b == a - m
    <2>1. b \in 0 .. m - 1 /\ b + m = a /\ b + 1 + m = a + 1 BY <1>2
    <2>2. a % m = b
        <3>1. (b + m) % m = b BY <2>1, Remainder
        <3> QED BY <2>1, <3>1
    <2>3. (b + 1) % m = (b + 1 + m) % m
        <3>1. CASE b + 1 < m
            <4> DEFINE c == b + 1
            <4>1. c \in 0 .. m - 1 BY <2>1, <3>1
            <4> HIDE DEF c
            <4>2. c % m = c /\ (c + m) % m = c BY <4>1, Remainder
            <4> QED BY <4>2 DEF c
        <3>2. CASE b + 1 = m
            <4>1. m % m = 0 OBVIOUS
            <4>2. (m + m) % m = 0 OBVIOUS
            <4> QED BY <3>2, <4>1, <4>2
        <3> QED BY <2>1, <3>1, <3>2
    <2> QED BY <2>1, <2>2, <2>3
<1> QED BY <1>1, <1>2


\* What a call is in the queue's terms.
CallsAre ==
    \A t \in Threads :
       /\ pc[t] \in {"enqueue", "room"} => AbstractCall(t) = "enqueue"
       /\ pc[t] = "taker" /\ last = 0 => AbstractCall(t) = "enqueue"
       /\ pc[t] = "taker" /\ last # 0 => AbstractCall(t) = "passed"
       /\ pc[t] \in {"dequeue", "item"} => AbstractCall(t) = "dequeue"
       /\ pc[t] \in Returned => AbstractCall(t) = pc[t]
       /\ pc[t] \notin AtItem => AbstractCall(t) = "out"

LEMMA CallIs == CallsAre
<1> SUFFICES ASSUME NEW t \in Threads
             PROVE  /\ pc[t] \in {"enqueue", "room"} => AbstractCall(t) = "enqueue"
                    /\ pc[t] = "taker" /\ last = 0 => AbstractCall(t) = "enqueue"
                    /\ pc[t] = "taker" /\ last # 0 => AbstractCall(t) = "passed"
                    /\ pc[t] \in {"dequeue", "item"} => AbstractCall(t) = "dequeue"
                    /\ pc[t] \in Returned => AbstractCall(t) = pc[t]
                    /\ pc[t] \notin AtItem => AbstractCall(t) = "out"
    BY DEF CallsAre
<1>1. ASSUME pc[t] \in {"enqueue", "room"} PROVE AbstractCall(t) = "enqueue"
    BY <1>1 DEF AbstractCall, Handing, Returned
<1>2. ASSUME pc[t] = "taker", last = 0 PROVE AbstractCall(t) = "enqueue"
    BY <1>2 DEF AbstractCall, Handing, Returned
<1>3. ASSUME pc[t] = "taker", last # 0 PROVE AbstractCall(t) = "passed"
    BY <1>3 DEF AbstractCall, Handing, Returned
<1>4. ASSUME pc[t] \in {"dequeue", "item"} PROVE AbstractCall(t) = "dequeue"
    BY <1>4 DEF AbstractCall, Handing, Returned
<1>5. ASSUME pc[t] \in Returned PROVE AbstractCall(t) = pc[t]
    BY <1>5 DEF AbstractCall, Handing, Returned
<1>6. ASSUME pc[t] \notin AtItem PROVE AbstractCall(t) = "out"
    BY <1>6 DEF AbstractCall, Handing, Returned, AtItem
<1> QED BY <1>1, <1>2, <1>3, <1>4, <1>5, <1>6

LEMMA CallIsNext == CallsAre'
BY CallIs, PTL

\* A step of thread t that leaves the place of a size 0 pipe to whoever has it.
LEMMA OneMoves ==
    ASSUME NEW t \in Threads, NEW point, NEW x,
           pc \in [Threads -> Point], pc' = [pc EXCEPT ![t] = point],
           item \in [Threads -> Items \cup {Blank}], item' = [item EXCEPT ![t] = x],
           \A u \in Threads \ {t} : pc[u] = "taker" => UNCHANGED <<data[0], last>>
    PROVE  /\ AbstractCalls' = [AbstractCalls EXCEPT ![t] = AbstractCall(t)']
           /\ AbstractHeld' = [AbstractHeld EXCEPT ![t] = HeldBy(t)']
<1>1. ASSUME NEW u \in Threads, u # t
      PROVE  AbstractCall(u)' = AbstractCall(u) /\ HeldBy(u)' = HeldBy(u)
    <2>1. pc'[u] = pc[u] /\ item'[u] = item[u] BY <1>1
    <2>2. CASE pc[u] = "taker"
        <3>1. UNCHANGED <<data[0], last>> BY <1>1, <2>2
        <3> QED BY <2>1, <2>2, <3>1 DEF AbstractCall, Handing, HeldBy
    <2>3. CASE pc[u] # "taker"
        BY <2>1, <2>3 DEF AbstractCall, Handing, HeldBy
    <2> QED BY <2>2, <2>3
<1>2. AbstractCalls' = [u \in Threads |-> AbstractCall(u)'] BY DEF AbstractCalls
<1>3. AbstractHeld' = [u \in Threads |-> HeldBy(u)'] BY DEF AbstractHeld
<1> QED BY <1>1, <1>2, <1>3 DEF AbstractCalls, AbstractHeld

-----------------------------------------------------------------------------
\* The queue of a ring d of m places whose first n items from f on are taken.
Queue(d, f, m, n) == [i \in 1 .. n |-> d[(f + i - 1) % m]]

LEMMA QueueType ==
    ASSUME NEW m \in Nat, NEW S, NEW d \in [0 .. m - 1 -> S], NEW f \in 0 .. m - 1,
           NEW n \in 0 .. m
    PROVE  /\ Queue(d, f, m, n) \in Seq(S)
           /\ Len(Queue(d, f, m, n)) = n
           /\ \A i \in 1 .. n : Queue(d, f, m, n)[i] = d[(f + i - 1) % m]
<1>1. m > 0 BY DEF Queue
<1>2. ASSUME NEW i \in 1 .. n PROVE (f + i - 1) % m \in 0 .. m - 1
    <2>1. f + i - 1 \in Nat OBVIOUS
    <2> QED BY <1>1, <2>1
<1>3. Queue(d, f, m, n) \in [1 .. n -> S] BY <1>2 DEF Queue
<1> QED BY <1>3 DEF Queue

\* e is such a ring d, with item x stored behind the last one.
Stored(e, d, f, m, n, x, S) ==
    /\ m \in Nat /\ f \in 0 .. m - 1 /\ n \in 0 .. m - 1 /\ x \in S
    /\ d \in [0 .. m - 1 -> S] /\ e \in [0 .. m - 1 -> S]
    /\ e[(f + n) % m] = x
    /\ \A i \in (0 .. m - 1) \ {(f + n) % m} : e[i] = d[i]

\* An item stored behind the last one is appended.
LEMMA QueuePut ==
    ASSUME NEW e, NEW d, NEW f, NEW m, NEW n, NEW x, NEW S, Stored(e, d, f, m, n, x, S)
    PROVE  Queue(e, f, m, n + 1) = Append(Queue(d, f, m, n), x)
<1> DEFINE q == Queue(d, f, m, n)
           r == Queue(e, f, m, n + 1)
<1> USE DEF Stored
<1>0. m > 0 OBVIOUS
<1>1. (f + n) % m \in 0 .. m - 1 BY <1>0
<1>2. e \in [0 .. m - 1 -> S] BY <1>1
<1>3. /\ q \in Seq(S) /\ Len(q) = n /\ \A i \in 1 .. n : q[i] = d[(f + i - 1) % m]
    <2>1. n \in 0 .. m OBVIOUS
    <2>2. /\ Queue(d, f, m, n) \in Seq(S)
          /\ Len(Queue(d, f, m, n)) = n
          /\ \A i \in 1 .. n : Queue(d, f, m, n)[i] = d[(f + i - 1) % m]
        BY <2>1, QueueType
    <2> QED BY <2>2
<1>4. /\ r \in Seq(S) /\ Len(r) = n + 1 /\ \A i \in 1 .. n + 1 : r[i] = e[(f + i - 1) % m]
    <2> DEFINE k == n + 1
    <2>1. k \in 0 .. m OBVIOUS
    <2> HIDE DEF k
    <2>2. /\ Queue(e, f, m, k) \in Seq(S)
          /\ Len(Queue(e, f, m, k)) = k
          /\ \A i \in 1 .. k : Queue(e, f, m, k)[i] = e[(f + i - 1) % m]
        BY <1>2, <2>1, QueueType
    <2> QED BY <2>2 DEF k
<1>5. r[n + 1] = x
    <2>1. n + 1 \in 1 .. n + 1 /\ f + (n + 1) - 1 = f + n OBVIOUS
    <2> HIDE DEF r
    <2> QED BY <1>1, <1>4, <2>1
<1>6. ASSUME NEW i \in 1 .. n PROVE r[i] = q[i]
    <2>1. (f + i - 1) % m \in 0 .. m - 1
        <3>1. f + i - 1 \in Nat OBVIOUS
        <3> QED BY <1>0, <3>1
    <2>2. (f + i - 1) % m # (f + n) % m
        <3>1. CASE f + n < m
            <4>1. f + i - 1 \in 0 .. m - 1 /\ f + n \in 0 .. m - 1 BY <3>1
            <4> QED BY <1>0, <4>1, Remainder
        <3>2. CASE f + n >= m /\ f + i - 1 < m
            <4>1. f + i - 1 \in 0 .. m - 1 /\ f + n - m \in 0 .. m - 1 BY <3>2
            <4>2. (f + n - m) + m = f + n /\ f + n - m # f + i - 1 BY <3>2
            <4>3. (f + n) % m = f + n - m BY <1>0, <4>1, <4>2, Remainder
            <4>4. (f + i - 1) % m = f + i - 1 BY <1>0, <4>1, Remainder
            <4> QED BY <4>2, <4>3, <4>4
        <3>3. CASE f + i - 1 >= m
            <4>1. f + i - 1 - m \in 0 .. m - 1 /\ f + n - m \in 0 .. m - 1 BY <3>3
            <4>2. /\ (f + n - m) + m = f + n /\ (f + i - 1 - m) + m = f + i - 1
                  /\ f + n - m # f + i - 1 - m
                BY <3>3
            <4>3. (f + n) % m = f + n - m BY <1>0, <4>1, <4>2, Remainder
            <4>4. (f + i - 1) % m = f + i - 1 - m BY <1>0, <4>1, <4>2, Remainder
            <4> QED BY <4>2, <4>3, <4>4
        <3> QED BY <3>1, <3>2, <3>3
    <2>3. i \in 1 .. n + 1 OBVIOUS
    <2> HIDE DEF q, r
    <2> QED BY <1>1, <1>3, <1>4, <2>1, <2>2, <2>3
<1> HIDE DEF q, r
<1>7. r = Append(q, x) BY <1>3, <1>4, <1>5, <1>6
<1> QED BY <1>7 DEF q, r

\* e is such a ring d, but for the place of the first item.
Taken(e, d, f, m, n, S) ==
    /\ m \in Nat /\ f \in 0 .. m - 1 /\ n \in 1 .. m
    /\ d \in [0 .. m - 1 -> S] /\ e \in [0 .. m - 1 -> S]
    /\ \A i \in (0 .. m - 1) \ {f} : e[i] = d[i]

\* Without the item at f, whatever is stored in its place, the queue is its tail.
LEMMA QueueTake ==
    ASSUME NEW e, NEW d, NEW f, NEW m, NEW n, NEW S, Taken(e, d, f, m, n, S)
    PROVE  /\ Queue(d, f, m, n) # <<>>
           /\ Head(Queue(d, f, m, n)) = d[f]
           /\ Queue(e, (f + 1) % m, m, n - 1) = Tail(Queue(d, f, m, n))
<1> USE DEF Taken
<1> DEFINE g == (f + 1) % m
           q == Queue(d, f, m, n)
           r == Queue(e, g, m, n - 1)
<1>0. m > 0 /\ n - 1 \in 0 .. m /\ n \in 0 .. m OBVIOUS
<1>1. g \in 0 .. m - 1 /\ e \in [0 .. m - 1 -> S] BY <1>0
<1>2. /\ q \in Seq(S) /\ Len(q) = n /\ \A i \in 1 .. n : q[i] = d[(f + i - 1) % m]
    <2>1. n \in 0 .. m BY <1>0
    <2> HIDE DEF g
    <2>2. /\ Queue(d, f, m, n) \in Seq(S)
          /\ Len(Queue(d, f, m, n)) = n
          /\ \A i \in 1 .. n : Queue(d, f, m, n)[i] = d[(f + i - 1) % m]
        BY <2>1, QueueType
    <2> QED BY <2>2
<1>3. /\ r \in Seq(S) /\ Len(r) = n - 1 /\ \A i \in 1 .. n - 1 : r[i] = e[(g + i - 1) % m]
    <2> DEFINE k == n - 1
    <2>1. k \in 0 .. m BY <1>0
    <2> HIDE DEF g, k
    <2>2. /\ Queue(e, g, m, k) \in Seq(S)
          /\ Len(Queue(e, g, m, k)) = k
          /\ \A i \in 1 .. k : Queue(e, g, m, k)[i] = e[(g + i - 1) % m]
        BY <1>1, <2>1, QueueType
    <2> QED BY <2>2 DEF k
<1>4. q[1] = d[f]
    <2>1. f + 1 - 1 = f /\ f % m = f /\ 1 \in 1 .. n BY <1>0, Remainder
    <2> HIDE DEF q
    <2> QED BY <1>2, <2>1
<1>5. g = IF f + 1 < m THEN f + 1 ELSE 0
    <2>1. CASE f + 1 < m
        <3>1. f + 1 \in 0 .. m - 1 BY <2>1
        <3> QED BY <1>0, <2>1, <3>1, Remainder
    <2>2. CASE ~(f + 1 < m)
        <3>1. f + 1 = 0 + m /\ 0 \in 0 .. m - 1 BY <2>2
        <3>2. (0 + m) % m = 0 BY ONLY m \in Nat, <1>0, <3>1, Remainder
        <3> QED BY <2>2, <3>1, <3>2
    <2> QED BY <2>1, <2>2
<1>6. ASSUME NEW i \in 1 .. n - 1 PROVE r[i] = q[i + 1]
    <2>1. (g + i - 1) % m = (f + (i + 1) - 1) % m /\ (g + i - 1) % m # f
          /\ (g + i - 1) % m \in 0 .. m - 1
        <3>1. CASE f + 1 < m
            <4>1. g + i - 1 = f + i /\ f + (i + 1) - 1 = f + i BY <1>5, <3>1
            <4>2. CASE f + i < m
                <5>1. f + i \in 0 .. m - 1 /\ f + i # f BY <4>2
                <5>2. (f + i) % m = f + i BY <1>0, <5>1, Remainder
                <5> QED BY <4>1, <5>1, <5>2
            <4>3. CASE ~(f + i < m)
                <5>1. /\ f + i - m \in 0 .. m - 1 /\ (f + i - m) + m = f + i
                      /\ f + i - m # f
                    BY <4>3
                <5>2. (f + i) % m = f + i - m BY <1>0, <5>1, Remainder
                <5> QED BY <4>1, <5>1, <5>2
            <4> QED BY <4>2, <4>3
        <3>2. CASE ~(f + 1 < m)
            <4>1. /\ g + i - 1 = i - 1 /\ f + (i + 1) - 1 = (i - 1) + m
                  /\ i - 1 \in 0 .. m - 1 /\ i - 1 # f
                BY <1>5, <3>2
            <4>2. (i - 1) % m = i - 1 /\ ((i - 1) + m) % m = i - 1 BY <1>0, <4>1, Remainder
            <4> QED BY <4>1, <4>2
        <3> QED BY <3>1, <3>2
    <2>2. i + 1 \in 1 .. n OBVIOUS
    <2> HIDE DEF q, r, g
    <2>3. r[i] = e[(g + i - 1) % m] BY <1>3
    <2>4. q[i + 1] = d[(f + (i + 1) - 1) % m] BY <1>2, <2>2
    <2> QED BY <1>1, <2>1, <2>3, <2>4
<1> HIDE DEF q, r
<1>7. r = Tail(q) /\ Head(q) = q[1] /\ q # <<>> BY <1>2, <1>3, <1>6
<1> QED BY <1>4, <1>7 DEF q, r
-----------------------------------------------------------------------------
(***************************************************************************)
(* Each step is one of the queue, or none.                                 *)
(***************************************************************************)

LEMMA ContentsIs == Contents = Queue(data, first, pipe_max_size, pipe_size)
BY DEF Contents, Queue

LEMMA ContentsIsNext == (Contents = Queue(data, first, pipe_max_size, pipe_size))'
BY ContentsIs, PTL

\* A pipe without items is an empty queue.
LEMMA NoContents == pipe_size = 0 => Contents = <<>>
BY DEF Contents

LEMMA NoContentsNext == (pipe_size = 0 => Contents = <<>>)'
BY NoContents, PTL

FifoVars == <<pipe_max_size, Contents, AbstractHeld, AbstractCalls>>

LEMMA FifoVarsAre == UNCHANGED FifoVars => UNCHANGED Abstract!vars
BY DEF FifoVars, Abstract!vars, AbstractHeld, AbstractCalls, HeldBy

\* The facts every step uses.
LEMMA OrderFacts ==
    ASSUME IInv, OrderInv
    PROVE  /\ use \in Uses /\ ThreadsOK /\ RingOK /\ FlagsOK
           /\ pc \in [Threads -> Point] /\ item \in [Threads -> Items \cup {Blank}]
           /\ pipe_max_size \in Nat /\ pipe_size \in 0 .. pipe_max_size /\ 0 \in Slots
           /\ pipe_max_size > 0 => Slots = 0 .. pipe_max_size - 1
           /\ pipe_max_size = 0 => Slots = {0}
           /\ data \in [Slots -> Items \cup {Blank}]
           /\ \A t \in Threads : pc[t] = "taker" => pipe_max_size = 0
<1>1. use \in Uses /\ ThreadsOK /\ RingOK /\ FlagsOK /\ CallsOK BY Parts
<1>2. pipe_max_size \in Nat /\ 0 \in Slots BY <1>1, Sizes
<1>3. pipe_max_size = 0 => Slots = {0} BY DEF Slots
<1>4. pipe_max_size > 0 => Slots = 0 .. pipe_max_size - 1 BY DEF Slots
<1> QED BY <1>1, <1>2, <1>3, <1>4 DEF ThreadsOK, RingOK, CallsOK

\* A step that moves no item and leaves the ring alone: t's call is a call, a result
\* or none, as before or after a failure.
LEMMA StepAside ==
    ASSUME IInv, OrderInv, NEW t \in Threads, NEW point \in Point,
           pc' = [pc EXCEPT ![t] = point], UNCHANGED <<use, item, ring>>,
           (pc[t] = "taker") <=> (point = "taker"),
           point \notin AtItem => pc[t] \notin AtItem
    PROVE  /\ OrderInv'
           /\ Contents' = Contents /\ pipe_max_size' = pipe_max_size
           /\ AbstractHeld' = AbstractHeld
           /\ AbstractCalls' = [AbstractCalls EXCEPT ![t] = AbstractCall(t)']
<1>0. /\ pc \in [Threads -> Point] /\ item \in [Threads -> Items \cup {Blank}]
    BY OrderFacts
<1>1. UNCHANGED <<data, first, last, pipe_size, pipe_max_size>>
    BY DEF ring, pipe_max_size
<1>2. \A u \in Threads : (pc'[u] = "taker") <=> (pc[u] = "taker")
    BY <1>0
<1>3. InOrder' BY <1>1 DEF OrderInv, InOrder
<1>4. HandOK' BY <1>1, <1>2 DEF OrderInv, HandOK
<1>5. BlankOK'
    <2>1. \A u \in Threads : pc'[u] \notin AtItem => pc[u] \notin AtItem BY <1>0
    <2> QED BY <2>1 DEF OrderInv, BlankOK
<1>6. item' = [item EXCEPT ![t] = item[t]] BY <1>0
<1>7. /\ AbstractCalls' = [AbstractCalls EXCEPT ![t] = AbstractCall(t)']
      /\ AbstractHeld' = [AbstractHeld EXCEPT ![t] = HeldBy(t)']
    BY <1>0, <1>1, <1>6, OneMoves
<1>8. HeldBy(t)' = HeldBy(t) BY <1>1, <1>2 DEF HeldBy, Handing
<1>9. AbstractHeld' = AbstractHeld BY <1>7, <1>8 DEF AbstractHeld
<1>10. Contents' = Contents BY <1>1 DEF Contents
<1> QED BY <1>1, <1>3, <1>4, <1>5, <1>7, <1>9, <1>10 DEF OrderInv

\* A call of enqueue or dequeue gives up.
LEMMA FailureIsFail ==
    ASSUME IInv, OrderInv, NEW t \in Threads, pc[t] \in {"enqueue", "room", "dequeue", "item"},
           pc' = [pc EXCEPT ![t] = "false"], UNCHANGED <<use, item, ring>>
    PROVE  OrderInv' /\ Abstract!Fail(t)
<1>1. "false" \in Point /\ "false" \in AtItem /\ "false" \in Returned
    BY DEF Point, AtItem, Returned
<1>2. /\ OrderInv'
      /\ Contents' = Contents /\ pipe_max_size' = pipe_max_size
      /\ AbstractHeld' = AbstractHeld
      /\ AbstractCalls' = [AbstractCalls EXCEPT ![t] = AbstractCall(t)']
    BY <1>1, StepAside
<1>3. AbstractCall(t)' = "false"
    <2>1. pc'[t] = "false" BY OrderFacts
    <2> QED BY <1>1, <2>1, CallIsNext DEF CallsAre
<1>4. AbstractCall(t) \in {"enqueue", "dequeue"} BY CallIs DEF CallsAre
<1> QED BY <1>2, <1>3, <1>4 DEF Abstract!Fail, Abstract!Becomes, AbstractHeld, AbstractCalls, HeldBy

\* Nothing of the queue moves: a thread goes to sleep, or is not at an item.
LEMMA AsideIsStutter ==
    ASSUME IInv, OrderInv, NEW t \in Threads, NEW point \in Point,
           pc' = [pc EXCEPT ![t] = point], UNCHANGED <<use, item, ring>>,
           \/ pc[t] \in {"enqueue", "room"} /\ point = "room"
           \/ pc[t] = "taker" /\ point = "taker"
           \/ pc[t] \in {"dequeue", "item"} /\ point = "item"
           \/ pc[t] \notin AtItem /\ point \notin AtItem
    PROVE  OrderInv' /\ UNCHANGED FifoVars
<1>0. "taker" \in AtItem /\ "room" \in AtItem /\ "item" \in AtItem BY DEF AtItem
<1>1. /\ OrderInv'
      /\ Contents' = Contents /\ pipe_max_size' = pipe_max_size
      /\ AbstractHeld' = AbstractHeld
      /\ AbstractCalls' = [AbstractCalls EXCEPT ![t] = AbstractCall(t)']
    BY <1>0, StepAside DEF AtItem
<1>2. AbstractCall(t)' = AbstractCall(t)
    <2>1. pc'[t] = point /\ last' = last BY OrderFacts DEF ring
    <2>2. CASE pc[t] \in {"enqueue", "room"} /\ point = "room"
        BY <2>1, <2>2, CallIs, CallIsNext DEF CallsAre
    <2>3. CASE pc[t] = "taker" /\ point = "taker"
        BY <2>1, <2>3, CallIs, CallIsNext DEF CallsAre
    <2>4. CASE pc[t] \in {"dequeue", "item"} /\ point = "item"
        BY <2>1, <2>4, CallIs, CallIsNext DEF CallsAre
    <2>5. CASE pc[t] \notin AtItem /\ point \notin AtItem
        BY <2>1, <2>5, CallIs, CallIsNext DEF CallsAre
    <2> QED BY <2>2, <2>3, <2>4, <2>5
<1>3. AbstractCalls' = AbstractCalls BY <1>1, <1>2 DEF AbstractCalls
<1> QED BY <1>1, <1>3 DEF FifoVars

\* A thread calls a member, or is done with what it got.
LEMMA CallersStep ==
    ASSUME IInv, OrderInv, NEW t \in Threads, NEW point \in Point, NEW x \in Items \cup {Blank},
           pc' = [pc EXCEPT ![t] = point], item' = [item EXCEPT ![t] = x],
           UNCHANGED <<use, ring>>,
           \/ pc[t] \in Returned /\ point = "out" /\ x = Blank
           \/ pc[t] = "out" /\ point \in {"enqueue", "dequeue"}
           \/ pc[t] = "out" /\ point \notin AtItem /\ x = Blank
    PROVE  OrderInv' /\ [Abstract!Next]_(Abstract!vars)
<1>0. /\ pc \in [Threads -> Point] /\ item \in [Threads -> Items \cup {Blank}]
    BY OrderFacts
<1>1. UNCHANGED <<data, first, last, pipe_size, pipe_max_size>>
    BY DEF ring, pipe_max_size
<1>2. /\ "taker" \notin Returned /\ "out" \notin AtItem /\ "taker" \in AtItem
      /\ pc[t] # "taker" /\ point # "taker" /\ pc'[t] = point /\ item'[t] = x
    BY <1>0 DEF Returned, AtItem
<1>3. \A u \in Threads : (pc'[u] = "taker") <=> (pc[u] = "taker")
    BY <1>0, <1>2
<1>4. InOrder' /\ HandOK' BY <1>1, <1>3 DEF OrderInv, InOrder, HandOK
<1>5. BlankOK'
    <2>1. ASSUME NEW u \in Threads, pc'[u] \notin AtItem PROVE item'[u] = Blank
        <3>1. CASE u = t
            <4>1. "enqueue" \in AtItem /\ "dequeue" \in AtItem BY DEF AtItem
            <4> QED BY <1>2, <2>1, <3>1, <4>1
        <3>2. CASE u # t BY <1>0, <2>1, <3>2 DEF OrderInv, BlankOK
        <3> QED BY <3>1, <3>2
    <2> QED BY <2>1 DEF BlankOK
<1>6. /\ AbstractCalls' = [AbstractCalls EXCEPT ![t] = AbstractCall(t)']
      /\ AbstractHeld' = [AbstractHeld EXCEPT ![t] = HeldBy(t)']
    BY <1>0, <1>1, OneMoves
<1>7. HeldBy(t)' = x BY <1>1, <1>2 DEF HeldBy, Handing
<1>8. Contents' = Contents BY <1>1 DEF Contents
<1>9. CASE pc[t] \in Returned /\ point = "out" /\ x = Blank
    <2>1. AbstractCall(t) \in {"true", "false"} BY <1>9, CallIs DEF CallsAre, Returned
    <2>2. AbstractCall(t)' = "out" BY <1>2, <1>9, CallIsNext DEF CallsAre
    <2>3. Abstract!Leave(t)
        BY <1>1, <1>6, <1>7, <1>8, <2>1, <2>2
           DEF Abstract!Leave, Abstract!Becomes, AbstractHeld, AbstractCalls, HeldBy
    <2> QED BY <1>4, <1>5, <2>3 DEF OrderInv, Abstract!Next
<1>10. CASE pc[t] = "out" /\ point \in {"enqueue", "dequeue"}
    <2>1. AbstractCall(t) = "out" BY <1>2, <1>10, CallIs DEF CallsAre
    <2>2. AbstractCall(t)' \in {"enqueue", "dequeue"} BY <1>2, <1>10, CallIsNext DEF CallsAre
    <2>3. Abstract!Call(t)
        BY <1>1, <1>6, <1>7, <1>8, <2>1, <2>2
           DEF Abstract!Call, Abstract!Becomes, AbstractHeld, AbstractCalls, HeldBy
    <2> QED BY <1>4, <1>5, <2>3 DEF OrderInv, Abstract!Next
<1>11. CASE pc[t] = "out" /\ point \notin AtItem /\ x = Blank
    <2>1. AbstractCall(t)' = AbstractCall(t) BY <1>2, <1>11, CallIs, CallIsNext DEF CallsAre
    <2>2. HeldBy(t) = Blank BY <1>2, <1>11 DEF HeldBy, Handing, OrderInv, BlankOK
    <2>3. AbstractCalls' = AbstractCalls /\ AbstractHeld' = AbstractHeld
        BY <1>6, <1>7, <1>11, <2>1, <2>2 DEF AbstractCalls, AbstractHeld
    <2>4. UNCHANGED FifoVars BY <1>1, <1>8, <2>3 DEF FifoVars
    <2> QED BY <1>4, <1>5, <2>4, FifoVarsAre DEF OrderInv
<1> QED BY <1>9, <1>10, <1>11

\* An item is stored.  In a pipe of size 0 it lies where its taker finds it.
LEMMA StoresStep ==
    ASSUME IInv, OrderInv, NEW t \in Threads, NEW inside, pc[t] \in {"enqueue", "room"},
           EnqueueStores(t, inside)
    PROVE  OrderInv' /\ [Abstract!Next]_(Abstract!vars)
<1>0. /\ use \in Uses /\ pc \in [Threads -> Point] /\ item \in [Threads -> Items \cup {Blank}]
      /\ pipe_max_size \in Nat /\ pipe_size \in 0 .. pipe_max_size /\ 0 \in Slots
      /\ pipe_max_size > 0 => Slots = 0 .. pipe_max_size - 1
      /\ pipe_max_size = 0 => Slots = {0}
      /\ data \in [Slots -> Items \cup {Blank}]
      /\ \A u \in Threads : pc[u] = "taker" => pipe_max_size = 0
    BY OrderFacts
<1>1. /\ ~NoRoom(t) /\ enabled /\ enqueue_enabled
      /\ first' = IF pipe_size = 0 THEN 0 ELSE first
      /\ last' = NewLast
      /\ data' = [data EXCEPT ![NewLast] = item[t]]
      /\ item' = [item EXCEPT ![t] = data[NewLast]]
      /\ pipe_size' = IF pipe_max_size > 0 THEN pipe_size + 1 ELSE pipe_size
    BY DEF EnqueueStores, EnqueueGivesUp
<1>2. pc' = [pc EXCEPT ![t] = IF pipe_max_size > 0 THEN "true" ELSE "taker"] /\ use' = use
    BY DEF EnqueueStores, Leave, Sleep
<1>3. pipe_max_size' = pipe_max_size BY <1>2 DEF pipe_max_size
<1>4. BlankOK'
    <2>1. "true" \in AtItem /\ "taker" \in AtItem BY DEF AtItem, Returned
    <2> QED BY <1>0, <1>1, <1>2, <2>1 DEF OrderInv, BlankOK
<1>5. CASE pipe_max_size > 0
    <2> DEFINE f == IF pipe_size = 0 THEN 0 ELSE first
    <2>0. first \in Slots \/ pipe_size = 0 BY Parts DEF RingOK, FirstOK
    <2>1. f \in 0 .. pipe_max_size - 1 BY <1>0, <1>5, <2>0
    <2>2. NewLast = (f + pipe_size) % pipe_max_size
        <3>1. CASE pipe_size = 0
            <4>1. 0 \in 0 .. pipe_max_size - 1 /\ f + pipe_size = 0 BY <1>0, <1>5, <3>1
            <4> QED BY <1>0, <1>5, <3>1, <4>1, Remainder DEF NewLast
        <3>2. CASE pipe_size # 0
            <4>1. pipe_size > 0 /\ last = (f + pipe_size - 1) % pipe_max_size
                BY <1>0, <3>2 DEF OrderInv, InOrder
            <4>2. NewLast = (last + 1) % pipe_max_size BY <3>2 DEF NewLast
            <4> DEFINE a == f + pipe_size - 1
            <4>3. a \in Nat /\ a < 2 * pipe_max_size /\ a + 1 = f + pipe_size
                <5> HIDE DEF f
                <5> QED BY <1>0, <2>1, <4>1
            <4> HIDE DEF a
            <4>4. ((a % pipe_max_size) + 1) % pipe_max_size = (a + 1) % pipe_max_size
                BY <1>0, <1>5, <4>3, RemainderNext
            <4> QED BY <4>1, <4>2, <4>3, <4>4 DEF a
        <3> QED BY <3>1, <3>2
    <2>3. pipe_size \in 0 .. pipe_max_size - 1
        BY <1>0, <1>1, <1>5 DEF NoRoom
    <2>4. first' = f /\ pipe_size' = pipe_size + 1 BY <1>1, <1>5
    <2>5. InOrder'
        <3>1. f + (pipe_size + 1) - 1 = f + pipe_size BY <2>1, <2>3
        <3> QED BY <1>1, <1>3, <2>2, <2>4, <3>1 DEF InOrder
    <2>6. HandOK' BY <1>3, <1>5 DEF HandOK
    <2>7. Contents = Queue(data, f, pipe_max_size, pipe_size)
        <3>1. CASE pipe_size = 0 BY <3>1 DEF Contents, Queue
        <3>2. CASE pipe_size # 0 BY <3>2, ContentsIs
        <3> QED BY <3>1, <3>2
    <2>8. Contents' = Append(Contents, item[t])
        <3>1. item[t] \in Items \cup {Blank} BY <1>0
        <3>2. data \in [0 .. pipe_max_size - 1 -> Items \cup {Blank}] BY <1>0, <1>5
        <3> DEFINE d == data
                   m == pipe_max_size
                   n == pipe_size
                   x == item[t]
                   S == Items \cup {Blank}
                   e == data'
        <3>5. /\ m \in Nat /\ d \in [0 .. m - 1 -> S] /\ f \in 0 .. m - 1
              /\ n \in 0 .. m - 1 /\ x \in S
            BY <1>0, <2>1, <2>3, <3>1, <3>2
        <3> HIDE DEF d, f, m, n, x, S, e
        <3>6. /\ e \in [0 .. m - 1 -> S] /\ e[(f + n) % m] = x
              /\ \A i \in (0 .. m - 1) \ {(f + n) % m} : e[i] = d[i]
            <4>1. (f + n) % m \in 0 .. m - 1 BY <1>0, <1>5, <2>2, <3>5, Sizes DEF m
            <4>2. e = [d EXCEPT ![(f + n) % m] = x] BY <1>1, <2>2 DEF d, m, n, x, e
            <4> QED BY <3>5, <4>1, <4>2
        <3>7. Queue(e, f, m, n + 1) = Append(Queue(d, f, m, n), x)
            <4>1. Stored(e, d, f, m, n, x, S) BY <3>5, <3>6 DEF Stored
            <4> QED BY <4>1, QueuePut
        <3>3. Queue(data', f, pipe_max_size, pipe_size + 1)
                 = Append(Queue(data, f, pipe_max_size, pipe_size), item[t])
            BY <3>7 DEF d, m, n, x, e
        <3>4. Contents' = Queue(data', f, pipe_max_size, pipe_size + 1)
            BY <1>3, <2>4, ContentsIsNext
        <3> QED BY <2>7, <3>3, <3>4
    <2>9. Len(Contents) < pipe_max_size
        <3>1. Len(Contents) = pipe_size BY <1>0 DEF Contents
        <3> QED BY <1>0, <2>3, <3>1
    <2>10. \A u \in Threads : pc[u] # "taker" /\ pc'[u] # "taker"
        BY <1>0, <1>2, <1>5
    <2>11. /\ AbstractCalls' = [AbstractCalls EXCEPT ![t] = AbstractCall(t)']
           /\ AbstractHeld' = [AbstractHeld EXCEPT ![t] = HeldBy(t)']
        BY <1>0, <1>1, <1>2, <2>10, OneMoves
    <2>12. AbstractCall(t) = "enqueue" BY CallIs DEF CallsAre
    <2>13. AbstractCall(t)' = "true" BY <1>0, <1>2, <1>5, CallIsNext DEF CallsAre, Returned
    <2>14. HeldBy(t) = item[t] BY <2>10 DEF HeldBy, Handing
    <2>15. HeldBy(t)' \in Items \cup {Blank}
        <3>1. item' \in [Threads -> Items \cup {Blank}]
            <4>1. NewLast \in Slots BY <1>0, <1>5, <2>1, <2>2, <2>3, Sizes
            <4> QED BY <1>0, <1>1, <4>1
        <3> QED BY <2>10, <3>1 DEF HeldBy, Handing
    <2>16. AbstractHeld[t] = item[t] BY <2>14 DEF AbstractHeld
    <2>17. Abstract!Put(t)
        BY <1>3, <2>8, <2>9, <2>11, <2>12, <2>13, <2>15, <2>16
           DEF Abstract!Put, Abstract!Becomes, AbstractHeld, AbstractCalls, HeldBy
    <2> QED BY <1>4, <2>5, <2>6, <2>17 DEF OrderInv, Abstract!Next
<1>6. CASE ~(pipe_max_size > 0)
    <2>1. pipe_max_size = 0 /\ pipe_size = 0 /\ NewLast = 0 BY <1>0, <1>6 DEF NewLast
    <2>2. first = 1 BY <1>1, <2>1 DEF NoRoom
    <2>3. \A u \in Threads : pc[u] # "taker" BY <2>1, <2>2 DEF OrderInv, HandOK
    <2>4. first' = 0 /\ last' = 0 /\ pipe_size' = 0 BY <1>1, <2>1
    <2>5. \A u \in Threads : pc'[u] = "taker" <=> u = t BY <1>0, <1>2, <1>6, <2>3
    <2>6. HandOK' BY <2>4, <2>5 DEF HandOK
    <2>7. InOrder' BY <2>4 DEF InOrder
    <2>8. Contents = <<>> /\ Contents' = <<>> BY <2>1, <2>4, NoContents, NoContentsNext
    <2>9. /\ AbstractCalls' = [AbstractCalls EXCEPT ![t] = AbstractCall(t)']
          /\ AbstractHeld' = [AbstractHeld EXCEPT ![t] = HeldBy(t)']
        BY <1>0, <1>1, <1>2, <2>3, OneMoves
    <2>10. AbstractCall(t)' = AbstractCall(t)
        BY <2>4, <2>5, CallIs, CallIsNext DEF CallsAre
    <2>11. HeldBy(t)' = HeldBy(t)
        <3>1. HeldBy(t) = item[t] BY <2>3 DEF HeldBy, Handing
        <3>2. HeldBy(t)' = data'[0] BY <2>4, <2>5 DEF HeldBy, Handing
        <3> QED BY <1>0, <1>1, <2>1, <3>1, <3>2
    <2>12. UNCHANGED FifoVars
        <3>1. AbstractCalls' = AbstractCalls /\ AbstractHeld' = AbstractHeld
            BY <2>9, <2>10, <2>11 DEF AbstractCalls, AbstractHeld
        <3> QED BY <1>3, <2>8, <3>1 DEF FifoVars
    <2> QED BY <1>4, <2>6, <2>7, <2>12, FifoVarsAre DEF OrderInv
<1> QED BY <1>5, <1>6

\* An item is taken: from the front of the ring, or from the call that waits for its
\* taker.
LEMMA TakesStep ==
    ASSUME IInv, OrderInv, NEW t \in Threads, NEW inside, NEW woken, pc[t] \in {"dequeue", "item"},
           DequeueTakes(t, inside, woken)
    PROVE  OrderInv' /\ [Abstract!Next]_(Abstract!vars)
<1>0. /\ use \in Uses /\ pc \in [Threads -> Point] /\ item \in [Threads -> Items \cup {Blank}]
      /\ pipe_max_size \in Nat /\ pipe_size \in 0 .. pipe_max_size /\ 0 \in Slots
      /\ pipe_max_size > 0 => Slots = 0 .. pipe_max_size - 1
      /\ pipe_max_size = 0 => Slots = {0}
      /\ data \in [Slots -> Items \cup {Blank}]
      /\ \A u \in Threads : pc[u] = "taker" => pipe_max_size = 0
    BY OrderFacts
<1>1. /\ ~NoItem
      /\ item' = [item EXCEPT ![t] = data[first]]
      /\ data' = [data EXCEPT ![first] = item[t]]
      /\ IF pipe_max_size > 0
         THEN first' = (first + 1) % pipe_max_size /\ pipe_size' = pipe_size - 1 /\ last' = last
         ELSE last' = 1 /\ first' = first /\ pipe_size' = pipe_size
    BY DEF DequeueTakes
<1>2. pc' = [pc EXCEPT ![t] = "true"] /\ use' = use
    BY DEF DequeueTakes, Leave
<1>3. pipe_max_size' = pipe_max_size BY <1>2 DEF pipe_max_size
<1>4. "true" \in AtItem /\ "true" \in Returned BY DEF AtItem, Returned
<1>5. BlankOK' BY <1>0, <1>1, <1>2, <1>4 DEF OrderInv, BlankOK
<1>6. AbstractCall(t) = "dequeue" BY CallIs DEF CallsAre
<1>7. AbstractCall(t)' = "true" BY <1>0, <1>2, <1>4, CallIsNext DEF CallsAre
<1>8. CASE pipe_max_size > 0
    <2>1. pipe_size \in 1 .. pipe_max_size BY <1>0, <1>1, <1>8 DEF NoItem
    <2>2. first \in 0 .. pipe_max_size - 1 BY <1>0, <1>8, <2>1, Parts DEF RingOK, FirstOK
    <2> DEFINE d == data
               e == data'
               f == first
               m == pipe_max_size
               n == pipe_size
               S == Items \cup {Blank}
    <2>3. Taken(e, d, f, m, n, S)
        <3>1. d \in [0 .. m - 1 -> S] /\ item[t] \in S BY <1>0, <1>8
        <3>2. e = [d EXCEPT ![f] = item[t]] BY <1>1
        <3> HIDE DEF d, e, f, S
        <3>3. f \in 0 .. m - 1 /\ n \in 1 .. m /\ m \in Nat BY <1>0, <2>1, <2>2 DEF f
        <3> QED BY <3>1, <3>2, <3>3 DEF Taken
    <2>4. /\ Queue(d, f, m, n) # <<>>
          /\ Head(Queue(d, f, m, n)) = d[f]
          /\ Queue(e, (f + 1) % m, m, n - 1) = Tail(Queue(d, f, m, n))
        <3> HIDE DEF d, e, f, m, n, S
        <3> QED BY <2>3, QueueTake
    <2>5. Contents # <<>> /\ Head(Contents) = data[first] /\ Contents' = Tail(Contents)
        BY <1>1, <1>3, <1>8, <2>4, ContentsIs, ContentsIsNext
    <2>6. \A u \in Threads : pc[u] # "taker" /\ pc'[u] # "taker"
        BY <1>0, <1>2, <1>8
    <2>7. /\ AbstractCalls' = [AbstractCalls EXCEPT ![t] = AbstractCall(t)']
          /\ AbstractHeld' = [AbstractHeld EXCEPT ![t] = HeldBy(t)']
        BY <1>0, <1>1, <1>2, <2>6, OneMoves
    <2>8. HeldBy(t)' = data[first] BY <1>0, <1>1, <2>6 DEF HeldBy, Handing
    <2>9. Abstract!Take(t)
        BY <1>3, <1>6, <1>7, <2>5, <2>7, <2>8
           DEF Abstract!Take, Abstract!Becomes, AbstractHeld, AbstractCalls, HeldBy
    <2>10. HandOK' BY <1>3, <1>8 DEF HandOK
    <2>11. InOrder'
        <3> SUFFICES ASSUME pipe_size - 1 > 0
                     PROVE  last = (((first + 1) % pipe_max_size) + pipe_size - 1 - 1) % pipe_max_size
            BY <1>1, <1>3, <1>8 DEF InOrder
        <3>1. last = (first + pipe_size - 1) % pipe_max_size
            BY <2>1 DEF OrderInv, InOrder
        <3>2. CASE first + 1 < pipe_max_size
            <4> HIDE DEF d, e, f, m, n, S
            <4>1. first + 1 \in 0 .. pipe_max_size - 1 BY <1>0, <1>8, <2>2, <3>2
            <4>2. (first + 1) % pipe_max_size = first + 1 BY <1>0, <1>8, <4>1, Remainder
            <4>3. (first + 1) + pipe_size - 1 - 1 = first + pipe_size - 1 BY <1>0, <2>2
            <4> QED BY <3>1, <4>2, <4>3
        <3>3. CASE ~(first + 1 < pipe_max_size)
            <4>1. first + 1 = pipe_max_size BY <1>0, <2>2, <3>3
            <4>2. (first + 1) % pipe_max_size = 0
                <5>1. 0 \in 0 .. pipe_max_size - 1 BY <1>0, <1>8
                <5>2. (0 + pipe_max_size) % pipe_max_size = 0 BY <1>0, <1>8, <5>1, Remainder
                <5> QED BY <1>0, <4>1, <5>2
            <4> DEFINE a == pipe_size - 2
            <4>3. a \in 0 .. pipe_max_size - 1 BY <1>0, <2>1
            <4>4. 0 + pipe_size - 1 - 1 = a /\ first + pipe_size - 1 = a + pipe_max_size
                BY <1>0, <2>1, <2>2, <4>1
            <4> HIDE DEF a
            <4>5. a % pipe_max_size = (a + pipe_max_size) % pipe_max_size
                BY <1>0, <1>8, <4>3, Remainder
            <4> QED BY <3>1, <4>2, <4>4, <4>5
        <3> QED BY <3>2, <3>3
    <2> QED BY <1>5, <2>9, <2>10, <2>11 DEF OrderInv, Abstract!Next
<1>9. CASE ~(pipe_max_size > 0)
    <2>1. /\ pipe_max_size = 0 /\ pipe_size = 0 /\ first = 0 /\ last = 0
          /\ last' = 1 /\ first' = 0 /\ pipe_size' = 0
        BY <1>0, <1>1, <1>9 DEF NoItem
    <2>2. PICK e \in Threads : pc[e] = "taker" BY <2>1 DEF OrderInv, HandOK
    <2>3. /\ e # t
          /\ \A u \in Threads : pc[u] = "taker" <=> u = e
          /\ \A u \in Threads : pc'[u] = "taker" <=> u = e
        BY <1>0, <1>2, <2>1, <2>2 DEF OrderInv, HandOK
    <2>4. HandOK' BY <2>1, <2>3 DEF HandOK
    <2>5. InOrder' BY <2>1 DEF InOrder
    <2>6. Contents = <<>> /\ Contents' = <<>> BY <2>1, NoContents, NoContentsNext
    <2>7. ASSUME NEW u \in Threads, u # e, u # t
          PROVE  AbstractCall(u)' = AbstractCall(u) /\ HeldBy(u)' = HeldBy(u)
        <3>1. pc'[u] = pc[u] /\ pc[u] # "taker" /\ item'[u] = item[u] BY <1>0, <1>1, <1>2, <2>3, <2>7
        <3> QED BY <3>1 DEF AbstractCall, Handing, HeldBy
    <2>8. AbstractCall(e) = "enqueue" BY <2>1, <2>2, CallIs DEF CallsAre
    <2>9. AbstractCall(e)' = "passed" BY <2>1, <2>3, CallIsNext DEF CallsAre
    <2>10. HeldBy(e) = data[0] BY <2>1, <2>2 DEF HeldBy, Handing
    <2>11. HeldBy(e)' = item[e]
        <3>1. item'[e] = item[e] BY <1>0, <1>1, <2>3
        <3> QED BY <2>1, <3>1 DEF HeldBy, Handing
    <2>12. HeldBy(t)' = data[0]
        <3>1. item'[t] = data[0] BY <1>0, <1>1, <2>1
        <3> QED BY <2>3, <3>1 DEF HeldBy, Handing
    <2>13. AbstractCalls' = [AbstractCalls EXCEPT ![t] = "true", ![e] = "passed"]
        <3>1. AbstractCalls' = [u \in Threads |-> AbstractCall(u)'] BY DEF AbstractCalls
        <3>2. \A u \in Threads :
                 AbstractCall(u)' = IF u = e THEN "passed" ELSE IF u = t THEN "true" ELSE AbstractCall(u)
            BY <1>7, <2>7, <2>9
        <3> QED BY <2>3, <3>1, <3>2 DEF AbstractCalls
    <2>14. AbstractHeld' = [AbstractHeld EXCEPT ![t] = data[0], ![e] = item[e]]
        <3>1. AbstractHeld' = [u \in Threads |-> HeldBy(u)'] BY DEF AbstractHeld
        <3>2. \A u \in Threads :
                 HeldBy(u)' = IF u = e THEN item[e] ELSE IF u = t THEN data[0] ELSE HeldBy(u)
            BY <2>3, <2>7, <2>11, <2>12
        <3> QED BY <2>3, <3>1, <3>2 DEF AbstractHeld
    <2>15. AbstractHeld[e] = data[0] /\ item[e] \in Items \cup {Blank}
        BY <1>0, <2>10 DEF AbstractHeld
    <2>16. Abstract!Pass(e, t)
        BY <1>3, <1>6, <2>1, <2>6, <2>8, <2>13, <2>14, <2>15
           DEF Abstract!Pass, AbstractHeld, AbstractCalls, HeldBy
    <2>17. Abstract!Next BY <2>3, <2>16 DEF Abstract!Next
    <2> QED BY <1>5, <2>4, <2>5, <2>17 DEF OrderInv
<1> QED BY <1>8, <1>9

\* The wait for the taker goes on, or ends.
LEMMA TakerStep ==
    ASSUME IInv, OrderInv, NEW t \in Threads, TakerAwake(t)
    PROVE  OrderInv' /\ [Abstract!Next]_(Abstract!vars)
<1>0. /\ use \in Uses /\ pc \in [Threads -> Point] /\ item \in [Threads -> Items \cup {Blank}]
      /\ pipe_max_size \in Nat /\ pipe_size \in 0 .. pipe_max_size /\ 0 \in Slots
      /\ pipe_max_size = 0 => Slots = {0}
      /\ data \in [Slots -> Items \cup {Blank}]
      /\ \A u \in Threads : pc[u] = "taker" => pipe_max_size = 0
    BY OrderFacts
<1>1. pc[t] = "taker" BY DEF TakerAwake
<1>2. /\ pipe_max_size = 0 /\ pipe_size = 0 /\ first = 0 /\ last \in {0, 1}
      /\ \A u \in Threads : pc[u] = "taker" <=> u = t
    BY <1>0, <1>1 DEF OrderInv, HandOK
<1>3. CASE TakerAwaited(t)
    <2>1. pc' = [pc EXCEPT ![t] = "taker"] /\ UNCHANGED <<use, item, ring>>
        BY <1>3 DEF TakerAwaited, Sleep
    <2>2. "taker" \in Point BY DEF Point, Waits, enqueue_sig
    <2> QED BY <1>1, <2>1, <2>2, AsideIsStutter, FifoVarsAre
<1>4. ASSUME NEW result \in {"true", "false"}, pc' = [pc EXCEPT ![t] = result], use' = use,
             first' = 1, last' = 1, pipe_size' = pipe_size,
             NEW x \in Items \cup {Blank}, item' = [item EXCEPT ![t] = x]
      PROVE  /\ OrderInv' /\ UNCHANGED <<pipe_max_size, Contents>>
             /\ AbstractCalls' = [AbstractCalls EXCEPT ![t] = result]
             /\ AbstractHeld' = [AbstractHeld EXCEPT ![t] = x]
    <2>1. pipe_max_size' = pipe_max_size BY <1>4 DEF pipe_max_size
    <2>2. \A u \in Threads : pc'[u] # "taker" BY <1>0, <1>2, <1>4
    <2>3. HandOK' BY <1>4, <2>2 DEF HandOK
    <2>4. InOrder' BY <1>2, <1>4 DEF InOrder
    <2>5. result \in AtItem /\ result \in Returned BY DEF AtItem, Returned
    <2>6. BlankOK' BY <1>0, <1>4, <2>5 DEF OrderInv, BlankOK
    <2>7. Contents' = Contents BY <1>2, <1>4, NoContents, NoContentsNext
    <2>8. /\ AbstractCalls' = [AbstractCalls EXCEPT ![t] = AbstractCall(t)']
          /\ AbstractHeld' = [AbstractHeld EXCEPT ![t] = HeldBy(t)']
        BY <1>0, <1>2, <1>4, OneMoves
    <2>9. AbstractCall(t)' = result BY <1>0, <1>4, <2>5, CallIsNext DEF CallsAre
    <2>10. HeldBy(t)' = x BY <1>0, <1>4, <2>2 DEF HeldBy, Handing
    <2> QED BY <2>1, <2>3, <2>4, <2>6, <2>7, <2>8, <2>9, <2>10 DEF OrderInv
<1>5. CASE Withdraw(t)
    <2>1. /\ pc' = [pc EXCEPT ![t] = "false"] /\ use' = use /\ first' = 1 /\ last' = 1 /\ last = 0
          /\ pipe_size' = pipe_size /\ item' = [item EXCEPT ![t] = data[0]]
          /\ data[0] \in Items \cup {Blank}
        BY <1>0, <1>5 DEF Withdraw, Leave
    <2>2. /\ OrderInv' /\ UNCHANGED <<pipe_max_size, Contents>>
          /\ AbstractCalls' = [AbstractCalls EXCEPT ![t] = "false"]
          /\ AbstractHeld' = [AbstractHeld EXCEPT ![t] = data[0]]
        BY <1>4, <2>1
    <2>3. HeldBy(t) = data[0] BY <1>1, <2>1 DEF HeldBy, Handing
    <2>4. AbstractHeld' = AbstractHeld BY <2>2, <2>3 DEF AbstractHeld
    <2>5. AbstractCall(t) = "enqueue" BY <1>1, <2>1, CallIs DEF CallsAre
    <2>6. Abstract!Fail(t)
        BY <2>2, <2>4, <2>5 DEF Abstract!Fail, Abstract!Becomes, AbstractHeld, AbstractCalls, HeldBy
    <2> QED BY <2>2, <2>6 DEF Abstract!Next
<1>6. CASE HandedOver(t)
    <2>1. /\ pc' = [pc EXCEPT ![t] = "true"] /\ use' = use /\ first' = 1 /\ last' = 1 /\ last # 0
          /\ pipe_size' = pipe_size /\ item' = [item EXCEPT ![t] = item[t]]
          /\ item[t] \in Items \cup {Blank}
        BY <1>0, <1>6 DEF HandedOver, Leave
    <2>2. /\ OrderInv' /\ UNCHANGED <<pipe_max_size, Contents>>
          /\ AbstractCalls' = [AbstractCalls EXCEPT ![t] = "true"]
          /\ AbstractHeld' = [AbstractHeld EXCEPT ![t] = item[t]]
        BY <1>4, <2>1
    <2>3. HeldBy(t) = item[t] BY <2>1 DEF HeldBy, Handing
    <2>4. AbstractHeld' = AbstractHeld BY <2>2, <2>3 DEF AbstractHeld
    <2>5. AbstractCall(t) = "passed" BY <1>1, <2>1, CallIs DEF CallsAre
    <2>6. Abstract!Passed(t)
        BY <2>2, <2>4, <2>5 DEF Abstract!Passed, Abstract!Becomes, AbstractHeld, AbstractCalls, HeldBy
    <2> QED BY <2>2, <2>6 DEF Abstract!Next
<1> QED BY <1>3, <1>5, <1>6 DEF TakerAwake

-----------------------------------------------------------------------------
LEMMA NextFifo ==
    IInv /\ OrderInv /\ [Next]_vars => OrderInv' /\ [Abstract!Next]_(Abstract!vars)
<1> SUFFICES ASSUME IInv, OrderInv, [Next]_vars
             PROVE  OrderInv' /\ [Abstract!Next]_(Abstract!vars)
    OBVIOUS
<1>0. /\ pc \in [Threads -> Point] /\ item \in [Threads -> Items \cup {Blank}]
    BY OrderFacts
<1>1. ASSUME NEW t \in Threads, NEW inside, pc[t] \in {"enqueue", "room"}, TryEnqueue(t, inside)
      PROVE  OrderInv' /\ [Abstract!Next]_(Abstract!vars)
    <2>1. CASE EnqueueFails(t, inside)
        <3>1. pc' = [pc EXCEPT ![t] = "false"] /\ UNCHANGED <<use, item, ring>>
            BY <2>1 DEF EnqueueFails, Leave
        <3> QED BY <1>1, <3>1, FailureIsFail DEF Abstract!Next
    <2>2. CASE EnqueueWaits(t, inside)
        <3>1. pc' = [pc EXCEPT ![t] = "room"] /\ UNCHANGED <<use, item, ring>>
            BY <2>2 DEF EnqueueWaits, Sleep
        <3>2. "room" \in Point BY DEF Point, Waits, enqueue_sig
        <3> QED BY <1>1, <3>1, <3>2, AsideIsStutter, FifoVarsAre
    <2>3. CASE EnqueueStores(t, inside) BY <1>1, <2>3, StoresStep
    <2> QED BY <1>1, <2>1, <2>2, <2>3 DEF TryEnqueue
<1>2. ASSUME NEW t \in Threads, NEW inside, NEW woken, pc[t] \in {"dequeue", "item"},
             TryDequeue(t, inside, woken)
      PROVE  OrderInv' /\ [Abstract!Next]_(Abstract!vars)
    <2>1. CASE DequeueFails(t, inside, woken)
        <3>1. pc' = [pc EXCEPT ![t] = "false"] /\ UNCHANGED <<use, item, ring>>
            BY <2>1 DEF DequeueFails, Leave
        <3> QED BY <1>2, <3>1, FailureIsFail DEF Abstract!Next
    <2>2. CASE DequeueWaits(t, inside, woken)
        <3>1. pc' = [pc EXCEPT ![t] = "item"] /\ UNCHANGED <<use, item, ring>>
            BY <2>2 DEF DequeueWaits, Sleep
        <3>2. "item" \in Point BY DEF Point, Waits, dequeue_sig
        <3> QED BY <1>2, <3>1, <3>2, AsideIsStutter, FifoVarsAre
    <2>3. CASE DequeueTakes(t, inside, woken) BY <1>2, <2>3, TakesStep
    <2> QED BY <1>2, <2>1, <2>2, <2>3 DEF TryDequeue
<1>3. ASSUME NEW t \in Threads, NEW point \in {"out", "drained", "dequeues", "closing", "gone"},
             pc[t] \notin AtItem, pc' = [pc EXCEPT ![t] = point], UNCHANGED <<use, item, ring>>
      PROVE  OrderInv' /\ [Abstract!Next]_(Abstract!vars)
    <2>1. point \in Point /\ point \notin AtItem
        BY DEF Point, AtItem, Returned, Waits, enqueue_sig, unblock_sig
    <2> QED BY <1>3, <2>1, AsideIsStutter, FifoVarsAre
<1>4. ASSUME NEW t \in Threads, Begins(t)
      PROVE  OrderInv' /\ [Abstract!Next]_(Abstract!vars)
    <2>1. CASE Enqueue(t) BY <1>1, <2>1 DEF Enqueue
    <2>2. CASE Dequeue(t) BY <1>2, <2>2 DEF Dequeue
    <2>3. CASE WaitUntilEmpty(t)
        <3>1. PICK point \in {"out", "drained"} : pc' = [pc EXCEPT ![t] = point]
            BY <2>3 DEF WaitUntilEmpty, UntilEmpty, Sleep, Leave
        <3>2. UNCHANGED <<use, item, ring>> /\ pc[t] \notin AtItem
            BY <2>3 DEF WaitUntilEmpty, UntilEmpty, Sleep, Leave, AtItem, Returned
        <3> QED BY <1>3, <3>1, <3>2
    <2>4. CASE WaitForNumBlockedDequeues(t)
        <3>1. PICK point \in {"out", "dequeues"} : pc' = [pc EXCEPT ![t] = point]
            BY <2>4 DEF WaitForNumBlockedDequeues, ForDequeues, Sleep, Leave
        <3>2. UNCHANGED <<use, item, ring>> /\ pc[t] \notin AtItem
            BY <2>4 DEF WaitForNumBlockedDequeues, ForDequeues, Sleep, Leave, AtItem, Returned
        <3> QED BY <1>3, <3>1, <3>2
    <2> QED BY <1>4, <2>1, <2>2, <2>3, <2>4 DEF Begins
<1>5. ASSUME NEW t \in Threads, Awake(t)
      PROVE  OrderInv' /\ [Abstract!Next]_(Abstract!vars)
    <2>1. CASE EnqueueAwake(t) BY <1>1, <2>1 DEF EnqueueAwake
    <2>2. CASE TakerAwake(t) BY <2>2, TakerStep
    <2>3. CASE DequeueAwake(t) BY <1>2, <2>3 DEF DequeueAwake
    <2>4. CASE DrainedAwake(t)
        <3>1. PICK point \in {"out", "drained"} : pc' = [pc EXCEPT ![t] = point]
            BY <2>4 DEF DrainedAwake, UntilEmpty, Sleep, Leave
        <3>2. UNCHANGED <<use, item, ring>> /\ pc[t] \notin AtItem
            BY <2>4 DEF DrainedAwake, UntilEmpty, Sleep, Leave, AtItem, Returned
        <3> QED BY <1>3, <3>1, <3>2
    <2>5. CASE DequeuesAwake(t)
        <3>1. PICK point \in {"out", "dequeues"} : pc' = [pc EXCEPT ![t] = point]
            BY <2>5 DEF DequeuesAwake, ForDequeues, Sleep, Leave
        <3>2. UNCHANGED <<use, item, ring>> /\ pc[t] \notin AtItem
            BY <2>5 DEF DequeuesAwake, ForDequeues, Sleep, Leave, AtItem, Returned
        <3> QED BY <1>3, <3>1, <3>2
    <2>6. CASE CloseAwake(t)
        <3>1. PICK point \in {"closing", "gone"} : pc' = [pc EXCEPT ![t] = point]
            BY <2>6 DEF CloseAwake, Close, Sleep, Leave
        <3>2. UNCHANGED <<use, item, ring>> /\ pc[t] \notin AtItem
            BY <2>6 DEF CloseAwake, Close, Sleep, Leave, AtItem, Returned
        <3> QED BY <1>3, <3>1, <3>2
    <2> QED BY <1>5, <2>1, <2>2, <2>3, <2>4, <2>5, <2>6 DEF Awake
<1>6. ASSUME NEW t \in Threads, Destroy(t)
      PROVE  OrderInv' /\ [Abstract!Next]_(Abstract!vars)
    <2>1. PICK point \in {"closing", "gone"} : pc' = [pc EXCEPT ![t] = point]
        BY <1>6 DEF Destroy, Close, Sleep, Leave
    <2>2. UNCHANGED <<use, item, ring>> /\ pc[t] \notin AtItem
        BY <1>6 DEF Destroy, Close, Sleep, Leave, AtItem, Returned
    <2> QED BY <1>3, <2>1, <2>2
<1>7. ASSUME NEW t \in Threads, CallEnqueue(t) \/ CallDequeue(t) \/ CallWait(t)
      PROVE  OrderInv' /\ [Abstract!Next]_(Abstract!vars)
    <2>1. PICK member \in Called, x \in Items \cup {Blank} :
             /\ \E time : Calls(t, member, time, x)
             /\ member \in {"enqueue", "dequeue"} \/ x = Blank
        BY <1>7 DEF CallEnqueue, CallDequeue, CallWait, Called
    <2>2. /\ pc[t] = "out" /\ pc' = [pc EXCEPT ![t] = member] /\ item' = [item EXCEPT ![t] = x]
          /\ UNCHANGED <<use, ring>>
        BY <2>1 DEF Calls
    <2>3. member \in Point /\ (member \notin {"enqueue", "dequeue"} => member \notin AtItem)
        BY DEF Point, Called, AtItem, Returned
    <2> QED BY <2>1, <2>2, <2>3, CallersStep
<1>8. ASSUME NEW t \in Threads, GoOn(t)
      PROVE  OrderInv' /\ [Abstract!Next]_(Abstract!vars)
    <2>1. /\ pc[t] \in Returned /\ pc' = [pc EXCEPT ![t] = "out"]
          /\ item' = [item EXCEPT ![t] = Blank] /\ UNCHANGED <<use, ring>>
        BY <1>8 DEF GoOn
    <2>2. "out" \in Point BY DEF Point
    <2> QED BY <2>1, <2>2, CallersStep
<1>9. ASSUME UNCHANGED <<use, pc, item, ring>>
      PROVE  OrderInv' /\ [Abstract!Next]_(Abstract!vars)
    <2>1. OrderInv'
        BY <1>9 DEF OrderInv, InOrder, HandOK, BlankOK, ring, pipe_max_size
    <2>2. UNCHANGED FifoVars
        BY <1>9 DEF FifoVars, ring, pipe_max_size, Contents, AbstractHeld, AbstractCalls, HeldBy,
                    AbstractCall, Handing
    <2> QED BY <2>1, <2>2, FifoVarsAre
<1>10. CASE Empty
    <2>1. pipe_size' = 0 /\ UNCHANGED <<use, pc, item, data, first, last>> BY <1>10 DEF Empty
    <2>2. OrderInv'
        BY <2>1 DEF OrderInv, InOrder, HandOK, BlankOK, pipe_max_size
    <2>3. Contents' = <<>> BY <2>1, NoContentsNext
    <2>4. UNCHANGED <<pipe_max_size, AbstractHeld, AbstractCalls>>
        BY <2>1 DEF pipe_max_size, AbstractHeld, AbstractCalls, HeldBy, AbstractCall, Handing
    <2>5. Abstract!Clear BY <2>3, <2>4 DEF Abstract!Clear, AbstractHeld, AbstractCalls, HeldBy
    <2> QED BY <2>2, <2>5 DEF Abstract!Next
<1>11. CASE \E b \in BOOLEAN : SetEnabled(b) \/ SetEnqueueEnabled(b) \/ SetDequeueEnabled(b)
    BY <1>9, <1>11 DEF SetEnabled, SetEnqueueEnabled, SetDequeueEnabled, Sets
<1>12. CASE \E t \in Threads : TimeOut(t) \/ SpuriousWakeup(t)
    BY <1>9, <1>12 DEF TimeOut, SpuriousWakeup
<1>13. CASE UNCHANGED vars BY <1>9, <1>13 DEF vars
<1> QED
    BY <1>4, <1>5, <1>6, <1>7, <1>8, <1>10, <1>11, <1>12, <1>13 DEF Next

\* The pipe implements a first in first out queue, or a place where items pass from
\* call to call: whatever times out, is disabled or is emptied, no item is lost, doubled
\* or overtaken, and a call that fails has moved nothing.
THEOREM FifoImplemented == Spec => ImplementsFifo
<1>1. Init => OrderInv /\ Abstract!Init
    <2> SUFFICES ASSUME Init PROVE OrderInv /\ Abstract!Init OBVIOUS
    <2>1. /\ \A t \in Threads : pc[t] = "out" /\ item[t] = Blank
          /\ first = 1 /\ last = 1 /\ pipe_size = 0 /\ use \in Uses
        BY DEF Init
    <2>2. OrderInv BY <2>1 DEF OrderInv, InOrder, HandOK, BlankOK
    <2>3. Contents = <<>> BY <2>1, NoContents
    <2>4. \A t \in Threads : AbstractCall(t) = "out" /\ HeldBy(t) = Blank
        <3>1. "out" \notin AtItem BY DEF AtItem, Returned
        <3> QED BY <2>1, <3>1, CallIs DEF CallsAre, HeldBy, Handing
    <2>5. pipe_max_size \in Nat BY <2>1, Sizes
    <2> QED BY <2>2, <2>3, <2>4, <2>5 DEF Abstract!Init, HeldBy
<1> QED BY <1>1, Invariant, NextFifo, PTL DEF Spec, ImplementsFifo, Abstract!Spec

=============================================================================

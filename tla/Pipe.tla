-------------------------------- MODULE Pipe --------------------------------
(***************************************************************************)
(* dLib's pipe (pipe/pipe_kernel_1.h): a ring of items that threads wait   *)
(* on with three signalers, one mutex m, and counters of the calls that    *)
(* are inside.                                                             *)
(*                                                                         *)
(* A member function holds m except in a wait, so the code from m's lock   *)
(* or a wait's return to the next wait or the end is one action.  A call   *)
(* and its lock of m are two.                                              *)
(***************************************************************************)
EXTENDS Integers, Sequences, FiniteSets

CONSTANTS
    Producers,  \* the threads that enqueue
    Consumers,  \* the threads that dequeue
    Watchers,   \* the threads that wait for the pipe, or destroy it
    Items,
    Blank,      \* the value of an item its caller has not set
    Num,        \* the argument of wait_for_num_blocked_dequeues
    Uses        \* how pipes are used: their size, the timeouts of enqueue and
                \* dequeue, and the other members that are called

ASSUME ThreadsAssumption  == IsFiniteSet(Producers \cup Consumers \cup Watchers)
ASSUME ItemsAssumption    == Blank \notin Items
ASSUME NumAssumption      == Num \in Nat
ASSUME UsesAssumption     ==
    Uses \subseteq [size : Nat, timeouts : SUBSET {"none", "zero", "some"},
                    members : SUBSET {"wait", "enabled", "enqueue", "dequeue", "empty", "close"}]

VARIABLES
    use,       \* how this pipe is used
    pc,        \* where each thread is
    timeout,   \* the timeout of its call, and "none" for the members that have none
    item,      \* its call's item
    asleep,    \* the threads in a wait that have not been woken
    expired,   \* the threads whose wait_or_timeout timed out
    data, first, last, pipe_size,
    enabled, enqueue_enabled, dequeue_enabled,
    dequeue_waiters, enqueue_waiters, unblock_sig_waiters

ring    == <<data, first, last, pipe_size>>
flags   == <<enabled, enqueue_enabled, dequeue_enabled>>
waiters == <<dequeue_waiters, enqueue_waiters, unblock_sig_waiters>>
vars    == <<use, pc, timeout, item, asleep, expired, ring, flags, waiters>>

Threads == Producers \cup Consumers \cup Watchers

\* A thread in Called has called the member and waits for m.  It waits for room,
\* and then for a taker, in enqueue; for an item in dequeue; for the pipe to be
\* drained in wait_until_empty; for dequeues in wait_for_num_blocked_dequeues; and
\* for all of them in the destructor, when it is closing.
Called      == {"enqueue", "dequeue", "wait_until_empty", "wait_for_num_blocked_dequeues"}
Returned    == {"true", "false"}
enqueue_sig == {"room", "taker", "drained"}
dequeue_sig == {"item"}
unblock_sig == {"dequeues", "closing"}
Waits       == enqueue_sig \cup dequeue_sig \cup unblock_sig

pipe_max_size == use.size

Slots == 0 .. IF pipe_max_size > 0 THEN pipe_max_size - 1 ELSE 0

\* The threads with a call that has m or waits inside, by the counter they are in.
Enqueueing == {t \in Threads : pc[t] \in enqueue_sig}
Dequeueing == {t \in Threads : pc[t] \in dequeue_sig}
Unblocking == {t \in Threads : pc[t] \in unblock_sig}

Init ==
    /\ use \in Uses
    /\ pc = [t \in Threads |-> "out"]
    /\ timeout = [t \in Threads |-> "none"]
    /\ item = [t \in Threads |-> Blank]
    /\ asleep = {}
    /\ expired = {}
    /\ data = [i \in Slots |-> Blank]
    /\ first = 1
    /\ last = 1
    /\ pipe_size = 0
    /\ enabled = TRUE
    /\ enqueue_enabled = TRUE
    /\ dequeue_enabled = TRUE
    /\ dequeue_waiters = 0
    /\ enqueue_waiters = 0
    /\ unblock_sig_waiters = 0

\* The threads that sleep on a signaler, and whom a broadcast made if b wakes.
Sleepers(sig) == {t \in asleep : pc[t] \in sig}
Broadcast(sig, b) == IF b THEN Sleepers(sig) ELSE {}

\* signal() wakes one of them.
Signal(sig) == IF Sleepers(sig) = {} THEN {{}} ELSE {{t} : t \in Sleepers(sig)}

\* Thread t goes to sleep at the given point once it has woken the others, or
\* leaves the member with the given result.
Sleep(t, point, woken) ==
    /\ pc' = [pc EXCEPT ![t] = point]
    /\ asleep' = (asleep \ woken) \cup {t}
    /\ UNCHANGED <<use, expired>>

Leave(t, result, woken) ==
    /\ pc' = [pc EXCEPT ![t] = result]
    /\ asleep' = asleep \ woken
    /\ expired' = expired \ {t}
    /\ UNCHANGED use

\* No member is called any more once the destructor was.
Open == \A t \in Threads : pc[t] \notin {"closing", "gone"}

-----------------------------------------------------------------------------
(***************************************************************************)
(* The callers.                                                            *)
(***************************************************************************)

Calls(t, member, time, x) ==
    /\ Open
    /\ pc[t] = "out"
    /\ pc' = [pc EXCEPT ![t] = member]
    /\ timeout' = [timeout EXCEPT ![t] = time]
    /\ item' = [item EXCEPT ![t] = x]
    /\ UNCHANGED <<use, asleep, expired, ring, flags, waiters>>

CallEnqueue(t) == t \in Producers /\ \E time \in use.timeouts, x \in Items : Calls(t, "enqueue", time, x)
CallDequeue(t) == t \in Consumers /\ \E time \in use.timeouts : Calls(t, "dequeue", time, Blank)
CallWait(t) ==
    /\ t \in Watchers
    /\ "wait" \in use.members
    /\ \E member \in {"wait_until_empty", "wait_for_num_blocked_dequeues"} :
          Calls(t, member, "none", Blank)

\* The caller of enqueue or dequeue is done with the item.
GoOn(t) ==
    /\ pc[t] \in Returned
    /\ pc' = [pc EXCEPT ![t] = "out"]
    /\ timeout' = [timeout EXCEPT ![t] = "none"]
    /\ item' = [item EXCEPT ![t] = Blank]
    /\ UNCHANGED <<use, asleep, expired, ring, flags, waiters>>

-----------------------------------------------------------------------------
(***************************************************************************)
(* enqueue and enqueue_or_timeout.  Each part gets the value enqueue_waiters *)
(* has while t is inside.                                                  *)
(***************************************************************************)

\* The condition of the first loop.
NoRoom(t) ==
    /\ pipe_size = pipe_max_size
    /\ enabled /\ enqueue_enabled
    /\ ~(pipe_max_size = 0 /\ first = 1 /\ (timeout[t] # "none" => dequeue_waiters > 0))

EnqueueGivesUp(t) ==
    \/ ~enabled \/ ~enqueue_enabled
    \/ t \in expired
    \/ NoRoom(t) /\ timeout[t] = "zero"

EnqueueFails(t, inside) ==
    /\ EnqueueGivesUp(t)
    /\ enqueue_waiters' = inside - 1
    /\ Leave(t, "false", Sleepers(unblock_sig))
    /\ UNCHANGED <<timeout, item, ring, flags, dequeue_waiters, unblock_sig_waiters>>

EnqueueWaits(t, inside) ==
    /\ ~EnqueueGivesUp(t)
    /\ NoRoom(t)
    /\ enqueue_waiters' = inside
    /\ Sleep(t, "room", {})
    /\ UNCHANGED <<timeout, item, ring, flags, dequeue_waiters, unblock_sig_waiters>>

\* Bug variant: the newest item is overwritten.
NewLastUnmoved == IF pipe_size = 0 THEN 0 ELSE last

\* Where the item goes.
NewLast == IF pipe_size = 0 THEN 0 ELSE (last + 1) % pipe_max_size

\* Bug variant: only the item that ends the emptiness is signalled.
EnqueueStoresSignallingFirst(t, inside) ==
    /\ ~EnqueueGivesUp(t)
    /\ ~NoRoom(t)
    /\ first' = IF pipe_size = 0 THEN 0 ELSE first
    /\ last' = NewLast
    /\ data' = [data EXCEPT ![NewLast] = item[t]]
    /\ item' = [item EXCEPT ![t] = data[NewLast]]
    /\ \E woken \in IF pipe_size = 0 THEN Signal(dequeue_sig) ELSE {{}} :
          IF pipe_max_size > 0
          THEN Leave(t, "true", woken)  /\ enqueue_waiters' = inside - 1
          ELSE Sleep(t, "taker", woken) /\ enqueue_waiters' = inside
    /\ pipe_size' = IF pipe_max_size > 0 THEN pipe_size + 1 ELSE pipe_size
    /\ UNCHANGED <<timeout, flags, dequeue_waiters, unblock_sig_waiters>>

\* The item goes into the ring; a pipe of size 0 then waits for its taker.
EnqueueStores(t, inside) ==
    /\ ~EnqueueGivesUp(t)
    /\ ~NoRoom(t)
    /\ first' = IF pipe_size = 0 THEN 0 ELSE first
    /\ last' = NewLast
    /\ data' = [data EXCEPT ![NewLast] = item[t]]
    /\ item' = [item EXCEPT ![t] = data[NewLast]]
    /\ \E woken \in IF dequeue_waiters > 0 THEN Signal(dequeue_sig) ELSE {{}} :
          IF pipe_max_size > 0
          THEN Leave(t, "true", woken)  /\ enqueue_waiters' = inside - 1
          ELSE Sleep(t, "taker", woken) /\ enqueue_waiters' = inside
    /\ pipe_size' = IF pipe_max_size > 0 THEN pipe_size + 1 ELSE pipe_size
    /\ UNCHANGED <<timeout, flags, dequeue_waiters, unblock_sig_waiters>>

TryEnqueue(t, inside) ==
    EnqueueFails(t, inside) \/ EnqueueWaits(t, inside) \/ EnqueueStores(t, inside)

Enqueue(t) == pc[t] = "enqueue" /\ TryEnqueue(t, enqueue_waiters + 1)

EnqueueAwake(t) ==
    /\ pc[t] = "room"
    /\ t \notin asleep
    /\ TryEnqueue(t, enqueue_waiters)

\* The second loop, and the ends of the member after it.
TakerAwaited(t) ==
    /\ last = 0 /\ enabled /\ enqueue_enabled
    /\ Sleep(t, "taker", {})
    /\ UNCHANGED <<timeout, item, ring, flags, waiters>>

Withdraw(t) ==
    /\ last = 0 /\ ~(enabled /\ enqueue_enabled)
    /\ first' = 1
    /\ last' = 1
    /\ data' = [data EXCEPT ![0] = item[t]]
    /\ item' = [item EXCEPT ![t] = data[0]]
    /\ enqueue_waiters' = enqueue_waiters - 1
    /\ Leave(t, "false", Broadcast(unblock_sig, unblock_sig_waiters > 0))
    /\ UNCHANGED <<timeout, pipe_size, flags, dequeue_waiters, unblock_sig_waiters>>

HandedOver(t) ==
    /\ last # 0
    /\ first' = 1
    /\ last' = 1
    /\ enqueue_waiters' = enqueue_waiters - 1
    /\ Leave(t, "true", Broadcast(enqueue_sig, enqueue_waiters > 1)
                           \cup Broadcast(unblock_sig, ~enabled /\ unblock_sig_waiters > 0))
    /\ UNCHANGED <<timeout, item, data, pipe_size, flags, dequeue_waiters, unblock_sig_waiters>>

TakerAwake(t) ==
    /\ pc[t] = "taker"
    /\ t \notin asleep
    /\ TakerAwaited(t) \/ Withdraw(t) \/ HandedOver(t)

-----------------------------------------------------------------------------
(***************************************************************************)
(* dequeue and dequeue_or_timeout.  Each part gets the value of             *)
(* dequeue_waiters, and whom the beginning of the member has woken.        *)
(***************************************************************************)

NoItem == pipe_size = 0 /\ ~(pipe_max_size = 0 /\ first = 0 /\ last = 0)

DequeueGivesUp(t) ==
    \/ ~enabled \/ ~dequeue_enabled
    \/ t \in expired
    \/ NoItem /\ timeout[t] = "zero"

DequeueFails(t, inside, woken) ==
    /\ DequeueGivesUp(t)
    /\ dequeue_waiters' = inside - 1
    /\ Leave(t, "false", woken \cup Sleepers(unblock_sig))
    /\ UNCHANGED <<timeout, item, ring, flags, enqueue_waiters, unblock_sig_waiters>>

DequeueWaits(t, inside, woken) ==
    /\ ~DequeueGivesUp(t)
    /\ NoItem
    /\ dequeue_waiters' = inside
    /\ Sleep(t, "item", woken)
    /\ UNCHANGED <<timeout, item, ring, flags, enqueue_waiters, unblock_sig_waiters>>

DequeueTakes(t, inside, woken) ==
    /\ ~DequeueGivesUp(t)
    /\ ~NoItem
    /\ item' = [item EXCEPT ![t] = data[first]]
    /\ data' = [data EXCEPT ![first] = item[t]]
    /\ IF pipe_max_size > 0
       THEN first' = (first + 1) % pipe_max_size /\ pipe_size' = pipe_size - 1 /\ UNCHANGED last
       ELSE last' = 1 /\ UNCHANGED <<first, pipe_size>>
    /\ dequeue_waiters' = inside - 1
    /\ Leave(t, "true", woken \cup Broadcast(enqueue_sig, enqueue_waiters > 0))
    /\ UNCHANGED <<timeout, flags, enqueue_waiters, unblock_sig_waiters>>

TryDequeue(t, inside, woken) ==
    \/ DequeueFails(t, inside, woken)
    \/ DequeueWaits(t, inside, woken)
    \/ DequeueTakes(t, inside, woken)

Dequeue(t) ==
    /\ pc[t] = "dequeue"
    /\ TryDequeue(t, dequeue_waiters + 1,
                  Broadcast(unblock_sig, pipe_size = 0 /\ unblock_sig_waiters > 0)
                     \cup Broadcast(enqueue_sig, pipe_size = 0 /\ enqueue_waiters > 0))

DequeueAwake(t) ==
    /\ pc[t] = "item"
    /\ t \notin asleep
    /\ TryDequeue(t, dequeue_waiters, {})

-----------------------------------------------------------------------------
(***************************************************************************)
(* wait_until_empty and wait_for_num_blocked_dequeues.                     *)
(***************************************************************************)

UntilEmpty(t, inside) ==
    /\ IF pipe_size > 0 /\ enabled /\ dequeue_enabled
       THEN Sleep(t, "drained", {}) /\ enqueue_waiters' = inside
       ELSE Leave(t, "out", Broadcast(unblock_sig, ~enabled)) /\ enqueue_waiters' = inside - 1
    /\ UNCHANGED <<timeout, item, ring, flags, dequeue_waiters, unblock_sig_waiters>>

WaitUntilEmpty(t) == pc[t] = "wait_until_empty" /\ UntilEmpty(t, enqueue_waiters + 1)

DrainedAwake(t) ==
    /\ pc[t] = "drained"
    /\ t \notin asleep
    /\ UntilEmpty(t, enqueue_waiters)

ForDequeues(t, inside) ==
    /\ IF (dequeue_waiters < Num \/ pipe_size # 0) /\ enabled /\ dequeue_enabled
       THEN Sleep(t, "dequeues", {}) /\ unblock_sig_waiters' = inside
       ELSE Leave(t, "out", Broadcast(unblock_sig, ~enabled)) /\ unblock_sig_waiters' = inside - 1
    /\ UNCHANGED <<timeout, item, ring, flags, dequeue_waiters, enqueue_waiters>>

WaitForNumBlockedDequeues(t) ==
    /\ pc[t] = "wait_for_num_blocked_dequeues"
    /\ ForDequeues(t, unblock_sig_waiters + 1)

DequeuesAwake(t) ==
    /\ pc[t] = "dequeues"
    /\ t \notin asleep
    /\ ForDequeues(t, unblock_sig_waiters)

-----------------------------------------------------------------------------
(***************************************************************************)
(* The members that do not wait, and the destructor.                       *)
(***************************************************************************)

\* enable and disable and their kin set the flag and wake those who listen.
Sets(control) == Open /\ control \in use.members /\ UNCHANGED <<use, pc, timeout, item, expired, ring, waiters>>

SetEnabled(b) ==
    /\ Sets("enabled")
    /\ enabled' = b
    /\ asleep' = IF b THEN asleep ELSE {}
    /\ UNCHANGED <<enqueue_enabled, dequeue_enabled>>

SetEnqueueEnabled(b) ==
    /\ Sets("enqueue")
    /\ enqueue_enabled' = b
    /\ asleep' = asleep \ Broadcast(enqueue_sig, ~b)
    /\ UNCHANGED <<enabled, dequeue_enabled>>

SetDequeueEnabled(b) ==
    /\ Sets("dequeue")
    /\ dequeue_enabled' = b
    /\ asleep' = asleep \ Broadcast(dequeue_sig, ~b)
    /\ UNCHANGED <<enabled, enqueue_enabled>>

\* Bug variant: who waits for room is not told.
EmptySilently ==
    /\ Open
    /\ "empty" \in use.members
    /\ pipe_size' = 0
    /\ UNCHANGED <<use, pc, timeout, item, asleep, expired, data, first, last, flags, waiters>>

Empty ==
    /\ Open
    /\ "empty" \in use.members
    /\ pipe_size' = 0
    /\ asleep' = asleep \ Broadcast(enqueue_sig, enqueue_waiters > 0)
    /\ UNCHANGED <<use, pc, timeout, item, expired, data, first, last, flags, waiters>>

\* Bug variant: the callers of enqueue are not waited for.
CloseOnDequeues(t, inside, woken) ==
    /\ IF dequeue_waiters > 0 \/ inside > 1
       THEN Sleep(t, "closing", woken) /\ unblock_sig_waiters' = inside
       ELSE Leave(t, "gone", woken)    /\ unblock_sig_waiters' = inside - 1
    /\ UNCHANGED <<timeout, item, ring, enqueue_enabled, dequeue_enabled, dequeue_waiters,
                   enqueue_waiters>>

\* The loop of the destructor, and the delete.
Close(t, inside, woken) ==
    /\ IF dequeue_waiters > 0 \/ enqueue_waiters > 0 \/ inside > 1
       THEN Sleep(t, "closing", woken) /\ unblock_sig_waiters' = inside
       ELSE Leave(t, "gone", woken)    /\ unblock_sig_waiters' = inside - 1
    /\ UNCHANGED <<timeout, item, ring, enqueue_enabled, dequeue_enabled, dequeue_waiters,
                   enqueue_waiters>>

\* The owner destroys the pipe when no call is still waiting for m, which the
\* destructor could not know of.
Destroy(t) ==
    /\ "close" \in use.members
    /\ t \in Watchers
    /\ Open
    /\ pc[t] = "out"
    /\ \A u \in Threads : pc[u] \notin Called
    /\ enabled' = FALSE
    /\ Close(t, unblock_sig_waiters + 1, asleep)

CloseAwake(t) ==
    /\ pc[t] = "closing"
    /\ t \notin asleep
    /\ UNCHANGED enabled
    /\ Close(t, unblock_sig_waiters, {})

-----------------------------------------------------------------------------
(***************************************************************************)
(* What the signalers may do by themselves.                                *)
(***************************************************************************)

\* wait_or_timeout returns false.
TimeOut(t) ==
    /\ t \in asleep
    /\ timeout[t] = "some"
    /\ pc[t] \in {"room", "item"}
    /\ asleep' = asleep \ {t}
    /\ expired' = expired \cup {t}
    /\ UNCHANGED <<use, pc, timeout, item, ring, flags, waiters>>

\* The contract of signaler allows wait() to return unasked.
SpuriousWakeup(t) ==
    /\ t \in asleep
    /\ asleep' = asleep \ {t}
    /\ UNCHANGED <<use, pc, timeout, item, expired, ring, flags, waiters>>

-----------------------------------------------------------------------------

Begins(t) == Enqueue(t) \/ Dequeue(t) \/ WaitUntilEmpty(t) \/ WaitForNumBlockedDequeues(t)

Awake(t) ==
    EnqueueAwake(t) \/ TakerAwake(t) \/ DequeueAwake(t) \/ DrainedAwake(t) \/ DequeuesAwake(t)
       \/ CloseAwake(t)

Next ==
    \/ Empty
    \/ \E b \in BOOLEAN : SetEnabled(b) \/ SetEnqueueEnabled(b) \/ SetDequeueEnabled(b)
    \/ \E t \in Threads :
          \/ CallEnqueue(t) \/ CallDequeue(t) \/ CallWait(t) \/ GoOn(t)
          \/ Begins(t) \/ Awake(t)
          \/ Destroy(t)
          \/ TimeOut(t) \/ SpuriousWakeup(t)

Spec == Init /\ [][Next]_vars

\* The mutex lets everybody in, and time passes.
FairSpec ==
    /\ Spec
    /\ \A t \in Threads : WF_vars(Begins(t)) /\ WF_vars(Awake(t)) /\ WF_vars(TimeOut(t))

-----------------------------------------------------------------------------
(***************************************************************************)
(* Properties.                                                             *)
(***************************************************************************)

\* The state is well formed: the ring's indices stay inside it, and only who waits
\* inside a member sleeps.
TypeOK ==
    /\ use \in Uses
    /\ pc \in [Threads -> {"out", "gone"} \cup Called \cup Returned \cup Waits]
    /\ timeout \in [Threads -> use.timeouts \cup {"none"}]
    /\ item \in [Threads -> Items \cup {Blank}]
    /\ asleep \subseteq {t \in Threads : pc[t] \in Waits}
    /\ expired \subseteq {t \in Threads : pc[t] \in {"room", "item"}}
    /\ asleep \cap expired = {}
    /\ data \in [Slots -> Items \cup {Blank}]
    /\ first \in Slots \cup {1}
    /\ last \in Slots \cup {1}
    /\ pipe_size \in 0 .. pipe_max_size
    /\ enabled \in BOOLEAN /\ enqueue_enabled \in BOOLEAN /\ dequeue_enabled \in BOOLEAN
    /\ dequeue_waiters \in Nat /\ enqueue_waiters \in Nat /\ unblock_sig_waiters \in Nat

\* The counters say how many calls are inside: the members decide by them whom to
\* wake and when the ring may be deleted.
WaitersCounted ==
    /\ enqueue_waiters = Cardinality(Enqueueing)
    /\ dequeue_waiters = Cardinality(Dequeueing)
    /\ unblock_sig_waiters = Cardinality(Unblocking)

\* When the destructor deletes the ring nobody is inside any more.
NobodyInsideAtDelete ==
    (\E t \in Threads : pc[t] = "gone") => \A t \in Threads : pc[t] \notin Waits

\* Although enqueue signals only one caller of dequeue, whoever that is and
\* whatever times out or overtakes it: callers sleep beside items only if as many
\* others as there are items are awake.
ItemsThere == IF pipe_max_size > 0 THEN pipe_size ELSE IF NoItem THEN 0 ELSE 1
EveryItemHasATaker ==
    Sleepers(dequeue_sig) # {} => ItemsThere <= Cardinality((Dequeueing \ asleep) \ expired)

\* Each wakeup is sent only to some sleepers, and only by who sees a reason to.
\* Still no caller of enqueue sleeps on while there is room, a taker, or the pipe is
\* disabled; nobody sleeps in wait_until_empty while the pipe is empty or disabled;
\* and the destructor sleeps only while a call is inside that will wake it.
NobodySleepsInVain ==
    /\ \A t \in Sleepers({"room"}) : NoRoom(t)
    /\ Sleepers({"taker"}) # {} => last = 0 /\ enabled /\ enqueue_enabled
    /\ Sleepers({"drained"}) # {} => pipe_size > 0 /\ enabled
    /\ Sleepers({"closing"}) # {} =>
          \E t \in Threads \ asleep : pc[t] \in Waits

\* The pipe is a first in first out queue, or a place where items pass.
Contents == [i \in 1 .. pipe_size |-> data[(first + i - 1) % pipe_max_size]]
Handing(t) == pc[t] = "taker" /\ last = 0
AbstractCall(t) ==
    CASE pc[t] \in {"enqueue", "room"} \/ Handing(t) -> "enqueue"
      [] pc[t] = "taker" /\ last # 0                 -> "passed"
      [] pc[t] \in {"dequeue", "item"}               -> "dequeue"
      [] pc[t] \in Returned                          -> pc[t]
      [] OTHER                                       -> "out"
Abstract == INSTANCE Fifo WITH
    maximum_size <- pipe_max_size,
    Items <- Items \cup {Blank},
    queue <- Contents,
    held  <- [t \in Threads |-> IF Handing(t) THEN data[0] ELSE item[t]],
    call  <- [t \in Threads |-> AbstractCall(t)]
ImplementsFifo == Abstract!Spec

\* What the contract says beyond that (pipe_kernel_abstract.h).  wait_until_empty
\* returns when dequeue is disabled.
DrainEndsWithDequeue == Sleepers({"drained"}) # {} => dequeue_enabled

\* wait_for_num_blocked_dequeues returns when that many calls wait on an empty pipe.
EnoughDequeuesAreNoticed ==
    Sleepers({"dequeues"}) # {} =>
       pipe_size # 0 \/ Cardinality(Sleepers(dequeue_sig)) < Num

\* enqueue_or_timeout blocks no longer than its timeout.
TimedEnqueueReturns ==
    \A t \in Threads : (pc[t] \in {"room", "taker"} /\ timeout[t] # "none") ~> pc[t] \in Returned

=============================================================================

-------------------------------- MODULE Fifo --------------------------------
(***************************************************************************)
(* What dLib's pipe promises (pipe/pipe_kernel_abstract.h): a first in     *)
(* first out queue of at most maximum_size items, or, when that is 0, a    *)
(* place where an item passes from one call to another.  A call that       *)
(* returns false has moved nothing, and its item is as it was.             *)
(***************************************************************************)
EXTENDS Integers, Sequences

CONSTANTS
    Threads,
    Items   \* the values an item can have

VARIABLES
    maximum_size,   \* the argument of the constructor
    queue,   \* the items in the pipe, the oldest first
    held,    \* the item each thread passed, by reference, to its call
    call     \* what each thread calls, or what its call returned

vars == <<maximum_size, queue, held, call>>

Init ==
    /\ maximum_size \in Nat
    /\ queue = <<>>
    /\ held \in [Threads -> Items]
    /\ call = [t \in Threads |-> "out"]

Becomes(t, c) == call' = [call EXCEPT ![t] = c]

\* Thread t calls enqueue or dequeue with an item of its own.
Call(t) ==
    /\ call[t] = "out"
    /\ \E op \in {"enqueue", "dequeue"} : Becomes(t, op)
    /\ \E x \in Items : held' = [held EXCEPT ![t] = x]
    /\ UNCHANGED <<maximum_size, queue>>

\* What the item is after it was enqueued is not said.
Put(t) ==
    /\ call[t] = "enqueue"
    /\ Len(queue) < maximum_size
    /\ queue' = Append(queue, held[t])
    /\ \E x \in Items : held' = [held EXCEPT ![t] = x]
    /\ Becomes(t, "true")
    /\ UNCHANGED maximum_size

Take(t) ==
    /\ call[t] = "dequeue"
    /\ queue # <<>>
    /\ held' = [held EXCEPT ![t] = Head(queue)]
    /\ queue' = Tail(queue)
    /\ Becomes(t, "true")
    /\ UNCHANGED maximum_size

\* An item goes from the caller of enqueue to the caller of dequeue.
Pass(e, d) ==
    /\ maximum_size = 0
    /\ call[e] = "enqueue"
    /\ call[d] = "dequeue"
    /\ \E x \in Items : held' = [held EXCEPT ![d] = held[e], ![e] = x]
    /\ call' = [call EXCEPT ![d] = "true", ![e] = "passed"]
    /\ UNCHANGED <<maximum_size, queue>>

Passed(t) ==
    /\ call[t] = "passed"
    /\ Becomes(t, "true")
    /\ UNCHANGED <<maximum_size, queue, held>>

Fail(t) ==
    /\ call[t] \in {"enqueue", "dequeue"}
    /\ Becomes(t, "false")
    /\ UNCHANGED <<maximum_size, queue, held>>

\* The caller has looked at what it got, and goes on.
Leave(t) ==
    /\ call[t] \in {"true", "false"}
    /\ Becomes(t, "out")
    /\ \E x \in Items : held' = [held EXCEPT ![t] = x]
    /\ UNCHANGED <<maximum_size, queue>>

Clear ==
    /\ queue' = <<>>
    /\ UNCHANGED <<maximum_size, held, call>>

Next ==
    \/ Clear
    \/ \E t \in Threads : \/ Call(t) \/ Put(t) \/ Take(t) \/ Passed(t) \/ Fail(t) \/ Leave(t)
                          \/ \E d \in Threads \ {t} : Pass(t, d)

Spec == Init /\ [][Next]_vars

=============================================================================

---------------------------- MODULE ParallelFor ----------------------------
(***************************************************************************)
(* dLib's parallel_for (threads/parallel_for_extension.h): a loop over     *)
(* 0 .. num - 1 that adds its blocks to a thread pool and waits for all    *)
(* tasks of its thread.  The tasks get a pointer to a helper on the        *)
(* stack of the loop.  A task may run such a loop too, on the same pool,   *)
(* as all loops over default_thread_pool() do.                             *)
(***************************************************************************)
EXTENDS ThreadPool

CONSTANTS
    Nums,               \* the lengths of the ranges, end - begin
    chunks_per_thread

ASSUME RangesAssumption == Nums \subseteq Nat /\ chunks_per_thread \in Nat \ {0}
ASSUME WorkersAssumption == Workers # {}

\* A code is named after its client or its task: no thread is the number of a task.
ASSUME CodesAssumption == Threads \cap Job = {}

VARIABLES
    loop,    \* how far the loop of each code is
    length   \* end - begin, of its range

loops   == <<loop, length>>
allVars == <<vars, loops>>

\* The codes that run a loop: the clients and the tasks, as Code names them.
Codes == {<<c>> : c \in Clients} \cup {<<j>> : j \in Job}

-----------------------------------------------------------------------------
(***************************************************************************)
(* How the range is split.                                                 *)
(***************************************************************************)

Smaller(a, b) == IF a < b THEN a ELSE b

\* Bug variant: a remainder is lost.
BlocksTruncated(num) ==
    LET size == IF num \div (Size * chunks_per_thread) > 1
                THEN num \div (Size * chunks_per_thread) ELSE 1
    IN  [k \in 1 .. num \div size |-> (k - 1) * size .. Smaller(k * size, num) - 1]

\* The k-th task gets the k-th block.
Blocks(num) ==
    LET size == IF num \div (Size * chunks_per_thread) > 1
                THEN num \div (Size * chunks_per_thread) ELSE 1
    IN  [k \in 1 .. (num + size - 1) \div size |-> (k - 1) * size .. Smaller(k * size, num) - 1]

\* The tasks a code added, in the order of its blocks.
Children(code) == {j \in DOMAIN jobs : jobs[j].code = code}
BlockOf(j)     == Blocks(length[jobs[j].code])[Cardinality({k \in Children(jobs[j].code) : k <= j})]

\* How many tasks there will be once all loops have added theirs.
Planned == Cardinality({p \in Codes \X Job :
                           loop[p[1]] # "none" /\ p[2] \in DOMAIN Blocks(length[p[1]])})

-----------------------------------------------------------------------------
(***************************************************************************)
(* parallel_for_blocked, in the code t runs.                               *)
(***************************************************************************)

LoopInit ==
    /\ Init
    /\ loop = [c \in Codes |-> "none"]
    /\ length = [c \in Codes |-> 0]

\* The thread t is in its own code, whose loop is in the given state.
At(t, state) == pc[t] = "user" /\ loop[Code(t)] = state
Goes(t, state) == loop' = [loop EXCEPT ![Code(t)] = state] /\ UNCHANGED length

Begin(t, num) ==
    /\ At(t, "none")
    /\ Planned + Len(Blocks(num)) <= MaxJobs
    /\ loop' = [loop EXCEPT ![Code(t)] = "adding"]
    /\ length' = [length EXCEPT ![Code(t)] = num]
    /\ threw' = [threw EXCEPT ![t] = FALSE]
    /\ UNCHANGED <<pool, pc, asleep, stack, bucket, awaited, history>>

BlocksLeft(t) == Cardinality(Children(Code(t))) < Len(Blocks(length[Code(t)]))

Add(t) ==
    /\ At(t, "adding")
    /\ ~threw[t]
    /\ BlocksLeft(t)
    /\ CallAddTask(t)
    /\ UNCHANGED loops

\* Bug variant: wait_for_all_tasks was forgotten.
CollectNotWaiting(t) ==
    /\ At(t, "adding")
    /\ ~threw[t]
    /\ ~BlocksLeft(t)
    /\ Goes(t, "collecting")
    /\ UNCHANGED vars

Collect(t) ==
    /\ At(t, "adding")
    /\ ~threw[t]
    /\ ~BlocksLeft(t)
    /\ CallWaitForAllTasks(t)
    /\ Goes(t, "collecting")

Return(t) ==
    /\ At(t, "collecting")
    /\ ~threw[t]
    /\ Goes(t, "returned")
    /\ UNCHANGED vars

\* The pool has thrown, and the exception leaves the loop too.
Escape(t) ==
    /\ At(t, "adding") \/ At(t, "collecting")
    /\ threw[t]
    /\ Goes(t, "threw")
    /\ UNCHANGED vars

\* The task t runs ends when its loop, if any, is over.
TaskReturns(t) ==
    /\ At(t, "none") \/ At(t, "returned") \/ At(t, "threw")
    /\ TaskEnds(t)
    /\ UNCHANGED loops

PoolRuns(t) == (PoolStep(t) \/ SpuriousWakeup(t)) /\ UNCHANGED loops

LoopRuns(t) == Add(t) \/ Collect(t) \/ Return(t) \/ Escape(t)

LoopNext ==
    \E t \in Threads :
       \/ \E num \in Nums : (t \in Clients \/ stack[t] # <<>>) /\ Begin(t, num)
       \/ LoopRuns(t)
       \/ TaskReturns(t)
       \/ PoolRuns(t)

LoopSpec == LoopInit /\ [][LoopNext]_allVars

\* The mutex lets everybody in; a task that runs no loop ends.
LoopFairness ==
    \A t \in Threads : /\ WF_allVars(PoolStep(t) /\ UNCHANGED loops)
                       /\ WF_allVars(LoopRuns(t))
                       /\ WF_allVars(TaskReturns(t))

LoopFairSpec == LoopSpec /\ LoopFairness

-----------------------------------------------------------------------------
(***************************************************************************)
(* Properties.                                                             *)
(***************************************************************************)

\* When the loop has returned, each index was in the block of one task, which is
\* done.
EveryIndexOnce ==
    \A c \in Codes : loop[c] = "returned" =>
       \A i \in 0 .. length[c] - 1 :
          Cardinality({j \in Children(c) \cap done : i \in BlockOf(j)}) = 1

\* A loop that is over before its tasks leaves them a pointer to a helper that is
\* gone.  Only an exception does that, and one exception to one loop: it is given
\* to a single caller, and an adder that runs a throwing task itself gets it alone.
Abandoned(c) == loop[c] \in {"returned", "threw"} /\ ~(Children(c) \subseteq done)
OneHelperPerException ==
    Cardinality({c \in Codes : Abandoned(c)}) <= Cardinality(caught)

\* However the loops are nested, each that has begun comes to an end, unless a task
\* throws: the exception may leave a loop whose tasks have not ended.
LoopsEnd ==
    \A c \in Codes : loop[c] = "adding" ~> loop[c] \in {"returned", "threw"} \/ raised # {}

\* The same whatever the tasks throw.
LoopsAlwaysEnd == \A c \in Codes : loop[c] = "adding" ~> loop[c] \in {"returned", "threw"}

\* The helper, which the tasks get by reference, "will not go out of scope until
\* after the task has completed" (thread_pool_extension_abstract.h).
HelperOutlivesTasks ==
    \A c \in Codes : loop[c] \in {"returned", "threw"} => Children(c) \subseteq done

=============================================================================

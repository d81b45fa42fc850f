----------------------------- MODULE ThreadPool -----------------------------
(***************************************************************************)
(* dLib's thread_pool (threads/thread_pool_extension.h and .cpp): one task *)
(* bucket for each worker thread, two signalers, and a task that throws    *)
(* leaves its exception in its bucket, for whoever calls the pool next.    *)
(*                                                                         *)
(* A member holds the mutex m except in a wait and while it runs a task,   *)
(* so the code from m's lock or a wait's return to the next wait or the    *)
(* end is one action.  A task is a piece of user code like a client's: it  *)
(* may call the pool, and it ends, with an exception or without.           *)
(***************************************************************************)
EXTENDS Integers, Sequences, FiniteSets

CONSTANTS
    Workers,    \* the threads of the pool
    Clients,    \* the other threads that use it
    MaxJobs,    \* how many tasks are added at most
    MayThrow,   \* whether a task may throw
    TaskCalls,  \* what a task may call: "add", "for_task" and "for_all"
    StrayIds    \* the ids one may wait for although no task got them

ASSUME ThreadsAssumption == IsFiniteSet(Workers \cup Clients) /\ Workers \cap Clients = {}
ASSUME JobsAssumption    == MaxJobs \in Nat /\ StrayIds \subseteq Nat
ASSUME UseAssumption     == MayThrow \in BOOLEAN /\ TaskCalls \subseteq {"add", "for_task", "for_all"}

VARIABLES
    tasks,              \* the buckets
    worker_thread_ids,
    we_are_destructing,
    pc,                 \* where each thread is
    asleep,             \* the threads in a wait that have not been woken
    stack,              \* the tasks each thread runs, the innermost last
    bucket,             \* idx, the bucket of the task a worker runs
    awaited,            \* the argument of wait_for_task
    threw,              \* whether the last call a thread made of the pool threw
    jobs,               \* who added each task, from which code, and the id it got
    done,               \* the tasks that have ended
    raised, caught      \* those whose exception left them, and those whose reached a caller

pool    == <<tasks, worker_thread_ids, we_are_destructing>>
history == <<jobs, done, raised, caught>>
vars    == <<pool, pc, asleep, stack, bucket, awaited, threw, history>>

Threads == Workers \cup Clients
Size    == Cardinality(Workers)
Slots   == 0 .. Size - 1
Job     == 1 .. MaxJobs

\* A worker is starting, seeks a task, runs one as "user" code, or is gone.  User
\* code wants to add a task ("add"), and waits to do so ("adding"); it waits for
\* one task or for all of its thread.  The owner of the pool is closing it, and
\* joining the workers.
Added    == {"add", "adding"}
Waiting  == {"for_task", "for_all"}
Closing  == {"closing", "joining"}
Position == {"starting", "seeking", "user", "gone", "aborted"} \cup Added \cup Waiting \cup Closing

\* task_ready_signaler and task_done_signaler.
task_ready == {"seeking"}
task_done  == {"adding", "closing"} \cup Waiting
Sleepers(sig) == {t \in asleep : pc[t] \in sig}

is_empty(i) == tasks[i].task_id = 0

is_ready(i) == ~tasks[i].is_being_processed /\ ~is_empty(i)

\* A task without a job has no function to call, an eptr of 0 is null.
Init ==
    /\ tasks = [i \in Slots |-> [is_being_processed |-> FALSE, task_id |-> 0, thread_id |-> {},
                                 next_task_id |-> 2, job |-> 0, eptr |-> 0]]
    /\ worker_thread_ids = {}
    /\ we_are_destructing = FALSE
    /\ pc = [t \in Threads |-> IF t \in Workers THEN "starting" ELSE "user"]
    /\ asleep = {}
    /\ stack = [t \in Threads |-> <<>>]
    /\ bucket = [t \in Workers |-> 0]
    /\ awaited = [t \in Threads |-> 0]
    /\ threw = [t \in Threads |-> FALSE]
    /\ jobs = <<>>
    /\ done = {}
    /\ raised = {}
    /\ caught = {}

First(S) == CHOOSE i \in S : \A k \in S : i <= k
Empty    == {i \in Slots : is_empty(i)}
Ready    == {i \in Slots : is_ready(i)}
Failed   == {i \in Slots : tasks[i].eptr # 0}

\* Whose code a thread runs: that of the innermost task, or a client's own.
Code(t) == IF stack[t] = <<>> THEN <<t>> ELSE <<stack[t][Len(stack[t])]>>

Moves(t, point) == pc' = [pc EXCEPT ![t] = point]

\* propagate_exception for all buckets: the first exception leaves the member t is in.
Propagates(t) ==
    LET i == First(Failed)
    IN  /\ Failed # {}
        /\ tasks' = [tasks EXCEPT ![i].eptr = 0]
        /\ caught' = caught \cup {tasks[i].eptr}
        /\ threw' = [threw EXCEPT ![t] = TRUE]
        /\ Moves(t, "user")
        /\ UNCHANGED <<worker_thread_ids, we_are_destructing, asleep, stack, bucket, awaited,
                       jobs, done, raised>>

Sleeps(t, point) ==
    /\ Moves(t, point)
    /\ asleep' = asleep \cup {t}
    /\ UNCHANGED <<pool, stack, bucket, awaited, threw, history>>

-----------------------------------------------------------------------------
(***************************************************************************)
(* The calls user code makes.                                              *)
(***************************************************************************)

\* No client calls the pool any more once its owner destroys it; tasks may.
Open(t) == t \in Workers \/ \A c \in Clients : pc[c] \notin Closing \cup {"gone", "aborted"}

Calls(t, member, id) ==
    /\ pc[t] = "user"
    /\ Open(t)
    /\ stack[t] # <<>> => member \in TaskCalls
    /\ Moves(t, member)
    /\ awaited' = [awaited EXCEPT ![t] = id]
    /\ threw' = [threw EXCEPT ![t] = FALSE]
    /\ UNCHANGED <<pool, asleep, stack, bucket, history>>

\* The tasks that will be there once everybody is done who adds one now.
Coming == Len(jobs) + Cardinality({t \in Threads : pc[t] \in Added})

CallAddTask(t) == Coming < MaxJobs /\ Calls(t, "add", 0)

\* The code waits for a task it added.
CallWaitForTask(t) ==
    \E id \in StrayIds \cup {jobs[j].id : j \in {k \in DOMAIN jobs : jobs[k].code = Code(t)}} :
       Calls(t, "for_task", id)

CallWaitForAllTasks(t) == Calls(t, "for_all", 0)

-----------------------------------------------------------------------------
(***************************************************************************)
(* add_task.                                                               *)
(***************************************************************************)

NewJob(t, id) == Append(jobs, [thread |-> t, code |-> Code(t), id |-> id])

make_next_task_id(i) == tasks[i].next_task_id * Size + i

\* signal() wakes one of the sleeping workers.
Signalled == IF Sleepers(task_ready) = {} THEN {{}} ELSE {{w} : w \in Sleepers(task_ready)}

\* Bug variant: the bucket is filled before the exceptions were looked for.
PlacesUnasked(t) ==
    LET i == First(Empty) IN
    /\ Empty # {}
    /\ tasks' = [tasks EXCEPT ![i].thread_id = t, ![i].task_id = make_next_task_id(i),
                              ![i].next_task_id = @ + 1, ![i].job = Len(jobs) + 1, ![i].eptr = 0]
    /\ jobs' = NewJob(t, make_next_task_id(i))
    /\ \E woken \in Signalled : asleep' = asleep \ woken
    /\ Moves(t, "user")
    /\ UNCHANGED <<worker_thread_ids, we_are_destructing, stack, bucket, awaited, threw, done,
                   raised, caught>>

\* Bug variant: a worker is signalled only if no other task is ready.
PlacesSignallingFirst(t) ==
    LET i == First(Empty) IN
    /\ Failed = {}
    /\ Empty # {}
    /\ tasks' = [tasks EXCEPT ![i].thread_id = t, ![i].task_id = make_next_task_id(i),
                              ![i].next_task_id = @ + 1, ![i].job = Len(jobs) + 1]
    /\ jobs' = NewJob(t, make_next_task_id(i))
    /\ \E woken \in IF Ready = {} THEN Signalled ELSE {{}} : asleep' = asleep \ woken
    /\ Moves(t, "user")
    /\ UNCHANGED <<worker_thread_ids, we_are_destructing, stack, bucket, awaited, threw, done,
                   raised, caught>>

\* The task goes into the first empty bucket.
Places(t) ==
    LET i == First(Empty) IN
    /\ Failed = {}
    /\ Empty # {}
    /\ tasks' = [tasks EXCEPT ![i].thread_id = t, ![i].task_id = make_next_task_id(i),
                              ![i].next_task_id = @ + 1, ![i].job = Len(jobs) + 1]
    /\ jobs' = NewJob(t, make_next_task_id(i))
    /\ \E woken \in Signalled : asleep' = asleep \ woken
    /\ Moves(t, "user")
    /\ UNCHANGED <<worker_thread_ids, we_are_destructing, stack, bucket, awaited, threw, done,
                   raised, caught>>

is_worker_thread(t) == t \in worker_thread_ids \/ Size = 0

\* A worker runs the task itself; its id is 1, for which nobody ever waits.
RunsItself(t) ==
    /\ Failed = {}
    /\ Empty = {}
    /\ is_worker_thread(t)
    /\ jobs' = NewJob(t, 1)
    /\ stack' = [stack EXCEPT ![t] = Append(@, Len(jobs) + 1)]
    /\ Moves(t, "user")
    /\ UNCHANGED <<pool, asleep, bucket, awaited, threw, done, raised, caught>>

AddTask(t) ==
    /\ pc[t] = "add"
    /\ \/ Propagates(t)
       \/ Places(t)
       \/ RunsItself(t)
       \/ Failed = {} /\ Empty = {} /\ ~is_worker_thread(t) /\ Sleeps(t, "adding")

AddingAwake(t) ==
    /\ pc[t] = "adding"
    /\ t \notin asleep
    /\ \/ Propagates(t)
       \/ Places(t)
       \/ Failed = {} /\ Empty = {} /\ Sleeps(t, "adding")

-----------------------------------------------------------------------------
(***************************************************************************)
(* wait_for_task and wait_for_all_tasks.                                   *)
(***************************************************************************)

Returns(t) ==
    /\ Failed = {}
    /\ Moves(t, "user")
    /\ UNCHANGED <<pool, asleep, stack, bucket, awaited, threw, history>>

\* The condition of the loop of wait_for_task, whose bucket is the one of that id.
TaskThere(t) == Size # 0 /\ tasks[awaited[t] % Size].task_id = awaited[t]

WaitForTask(t) ==
    /\ pc[t] = "for_task"
    /\ t \notin asleep
    /\ IF TaskThere(t) THEN Sleeps(t, "for_task") ELSE Propagates(t) \/ Returns(t)

\* Bug variant: only tasks that nobody has begun count.
TasksOfReady(t) == {i \in Ready : tasks[i].thread_id = t}

TasksOf(t) == {i \in Slots \ Empty : tasks[i].thread_id = t}

WaitForAllTasks(t) ==
    /\ pc[t] = "for_all"
    /\ t \notin asleep
    /\ IF TasksOf(t) # {} THEN Sleeps(t, "for_all") ELSE Propagates(t) \/ Returns(t)

-----------------------------------------------------------------------------
(***************************************************************************)
(* The worker threads.                                                     *)
(***************************************************************************)

\* Bug variant: the worker is not registered.
StartUnregistered(t) ==
    /\ pc[t] = "starting"
    /\ Moves(t, "seeking")
    /\ UNCHANGED <<tasks, worker_thread_ids, we_are_destructing, asleep, stack, bucket, awaited,
                   threw, history>>

Start(t) ==
    /\ pc[t] = "starting"
    /\ worker_thread_ids' = worker_thread_ids \cup {t}
    /\ Moves(t, "seeking")
    /\ UNCHANGED <<tasks, we_are_destructing, asleep, stack, bucket, awaited, threw, history>>

\* Bug variant: the bucket is not marked.
BeginsUnmarked(t, i) ==
    /\ bucket' = [bucket EXCEPT ![t] = i]
    /\ stack' = [stack EXCEPT ![t] = <<tasks[i].job>>]
    /\ Moves(t, "user")
    /\ UNCHANGED <<pool, asleep, awaited, threw, history>>

Begins(t, i) ==
    /\ tasks' = [tasks EXCEPT ![i].is_being_processed = TRUE]
    /\ bucket' = [bucket EXCEPT ![t] = i]
    /\ stack' = [stack EXCEPT ![t] = <<tasks[i].job>>]
    /\ Moves(t, "user")
    /\ UNCHANGED <<worker_thread_ids, we_are_destructing, asleep, awaited, threw, history>>

Seek(t) ==
    /\ pc[t] = "seeking"
    /\ t \notin asleep
    /\ \/ /\ we_are_destructing
          /\ Moves(t, "gone")
          /\ UNCHANGED <<pool, asleep, stack, bucket, awaited, threw, history>>
       \/ ~we_are_destructing /\ Ready # {} /\ Begins(t, First(Ready))
       \/ ~we_are_destructing /\ Ready = {} /\ Sleeps(t, "seeking")

\* The task ends, with an exception or without; what it did is known at once.
Ends(t, throws) ==
    /\ pc[t] = "user"
    /\ stack[t] # <<>>
    /\ throws => MayThrow
    /\ done' = done \cup {stack[t][Len(stack[t])]}
    /\ raised' = IF throws THEN raised \cup {stack[t][Len(stack[t])]} ELSE raised
    /\ stack' = [stack EXCEPT ![t] = SubSeq(@, 1, Len(@) - 1)]
    /\ UNCHANGED <<worker_thread_ids, we_are_destructing, bucket, awaited, jobs>>

\* The worker that took the task from its bucket clears it.
EndTask(t, throws) ==
    /\ Ends(t, throws)
    /\ t \in Workers /\ Len(stack[t]) = 1
    /\ tasks' = [tasks EXCEPT ![bucket[t]].is_being_processed = FALSE, ![bucket[t]].task_id = 0,
                              ![bucket[t]].job = 0,
                              ![bucket[t]].eptr = IF throws THEN stack[t][1] ELSE 0]
    /\ asleep' = asleep \ Sleepers(task_done)
    /\ Moves(t, "seeking")
    /\ UNCHANGED <<threw, caught>>

\* A task that add_task ran itself ends: add_task returns, or throws on.
EndOwnTask(t, throws) ==
    /\ Ends(t, throws)
    /\ t \in Workers => Len(stack[t]) > 1
    /\ threw' = [threw EXCEPT ![t] = throws]
    /\ caught' = caught \cup (raised' \ raised)
    /\ UNCHANGED <<tasks, asleep, pc>>

-----------------------------------------------------------------------------
(***************************************************************************)
(* shutdown_pool, by the destructor.                                       *)
(***************************************************************************)

\* The owner destroys the pool when the other clients do not call it.
CallShutdown(t) ==
    /\ t \in Clients
    /\ \A c \in Clients : pc[c] = "user" /\ stack[c] = <<>>
    /\ Moves(t, "closing")
    /\ UNCHANGED <<pool, asleep, stack, bucket, awaited, threw, history>>

Shutdown(t) ==
    /\ pc[t] = "closing"
    /\ t \notin asleep
    /\ IF Empty # Slots
       THEN Sleeps(t, "closing")
       ELSE /\ we_are_destructing' = TRUE
            /\ asleep' = asleep \ Sleepers(task_ready)
            /\ Moves(t, "joining")
            /\ UNCHANGED <<tasks, worker_thread_ids, stack, bucket, awaited, threw, history>>

\* An exception nobody was given ends the program.
Join(t) ==
    /\ pc[t] = "joining"
    /\ \A w \in Workers : pc[w] = "gone"
    /\ Moves(t, IF Failed = {} THEN "gone" ELSE "aborted")
    /\ UNCHANGED <<pool, asleep, stack, bucket, awaited, threw, history>>

-----------------------------------------------------------------------------

\* The contract of signaler allows wait() to return unasked.
SpuriousWakeup(t) ==
    /\ t \in asleep
    /\ asleep' = asleep \ {t}
    /\ UNCHANGED <<pool, pc, stack, bucket, awaited, threw, history>>

\* What the pool does by itself.
PoolStep(t) ==
    \/ AddTask(t) \/ AddingAwake(t) \/ WaitForTask(t) \/ WaitForAllTasks(t)
    \/ Start(t) \/ Seek(t)
    \/ Shutdown(t) \/ Join(t)

TaskEnds(t) == \E throws \in BOOLEAN : EndTask(t, throws) \/ EndOwnTask(t, throws)

Next ==
    \E t \in Threads :
       \/ CallAddTask(t)
       \/ CallWaitForTask(t)
       \/ CallWaitForAllTasks(t)
       \/ CallShutdown(t)
       \/ PoolStep(t)
       \/ TaskEnds(t)
       \/ SpuriousWakeup(t)

Spec == Init /\ [][Next]_vars

-----------------------------------------------------------------------------
(***************************************************************************)
(* Properties.                                                             *)
(***************************************************************************)

\* The state is well formed.
TypeOK ==
    /\ tasks \in [Slots -> [is_being_processed : BOOLEAN, task_id : Nat, thread_id : Threads \cup {{}},
                            next_task_id : Nat, job : 0 .. MaxJobs, eptr : 0 .. MaxJobs]]
    /\ worker_thread_ids \subseteq Workers
    /\ we_are_destructing \in BOOLEAN
    /\ pc \in [Threads -> Position]
    /\ asleep \subseteq {t \in Threads : pc[t] \in task_ready \cup task_done}
    /\ stack \in [Threads -> Seq(Job)]
    /\ awaited \in [Threads -> Nat]
    /\ threw \in [Threads -> BOOLEAN]
    /\ Len(jobs) <= MaxJobs
    /\ caught \subseteq raised /\ raised \subseteq done /\ done \subseteq DOMAIN jobs

\* Each wakeup goes to some sleepers only, and add_task's to a single worker.  Still,
\* however the tasks are nested and wait for each other, there are as many workers
\* without a task as there are tasks nobody has begun, as many of them are awake,
\* and nobody sleeps whose wait is over.
Seekers == {w \in Workers : pc[w] \in {"starting", "seeking"}}
NobodySleepsInVain ==
    /\ ~we_are_destructing =>
          /\ Cardinality(Ready) <= Cardinality(Seekers)
          /\ Sleepers(task_ready) # {} => Cardinality(Ready) <= Cardinality(Seekers \ asleep)
    /\ \A t \in asleep :
          /\ pc[t] = "for_task" => TaskThere(t)
          /\ pc[t] = "for_all"  => TasksOf(t) # {}
          /\ pc[t] = "adding"   => Empty = {}
          /\ pc[t] = "closing"  => Empty # Slots

\* Every task that was added is in one place: in a bucket and not begun, run by one
\* thread, or done.
TasksRunOnce ==
    \A j \in DOMAIN jobs :
       Cardinality({i \in Ready : tasks[i].job = j}) + Cardinality({t \in Threads : j \in {stack[t][k] : k \in DOMAIN stack[t]}})
          = IF j \in done THEN 0 ELSE 1

\* An exception that left a task lies in its bucket until one caller gets it.
ExceptionsReachOneCaller ==
    /\ raised \ caught = {tasks[i].eptr : i \in Failed}
    /\ \A i, k \in Failed : tasks[i].eptr = tasks[k].eptr => i = k

\* A wait ends when what it waits for is done, with an exception or without, and the
\* destructor joins the workers when everything that was added is.
WaitsEndInTime ==
    [][/\ \A t \in Threads : pc'[t] = "user" =>
             /\ pc[t] = "for_task" => \A j \in DOMAIN jobs : jobs[j].id = awaited[t] /\ awaited[t] # 1
                                                                 => j \in done
             /\ pc[t] = "for_all"  => \A j \in DOMAIN jobs : jobs[j].thread = t /\ jobs[j].id # 1
                                                                 => j \in done
       /\ (\E t \in Clients : pc[t] = "closing" /\ pc'[t] = "joining") => done = DOMAIN jobs]_vars

\* wait_for_task with an id that no task has returns at once
\* (thread_pool_extension_abstract.h).
UnknownIdsReturn ==
    \A t \in asleep : pc[t] = "for_task" => \E j \in DOMAIN jobs : jobs[j].id = awaited[t]

=============================================================================

-------------------------- MODULE ThreadPoolProofs ---------------------------
(***************************************************************************)
(* Proofs about ThreadPool for every number of workers, clients and tasks: *)
(* the state is well formed, each task is run once, each exception reaches *)
(* one caller, waits end in time, and no wakeup is lost; and about the     *)
(* loops of ParallelFor over it, for every range: each index is in the     *)
(* block of one task, which is done when the loop returns, and a loop      *)
(* leaves its helper behind only for an exception of its own.              *)
(*                                                                         *)
(* A task that is not done is in one bucket nobody has begun, or on one    *)
(* stack.  A worker takes a task by marking its bucket; as long as it runs *)
(* the task and what that task adds, the bucket is its own, so that it     *)
(* clears the right one.  A bucket whose exception nobody got is empty,    *)
(* and add_task fills none before it looked for exceptions: that is why an *)
(* exception is not lost under the next one.                               *)
(*                                                                         *)
(* On this invariant rest the others: that an id leads to the bucket of    *)
(* its task as long as that is not done, so that a wait sees its end; that *)
(* busy workers and begun buckets correspond, so that the tasks to be      *)
(* begun are no more than the workers without one; and that the tasks of a *)
(* loop are those of its thread.                                           *)
(***************************************************************************)
EXTENDS ParallelFor, FiniteSetTheorems, SequenceTheorems, WellFoundedInduction, TLAPS

Bucket == [is_being_processed : BOOLEAN, task_id : Nat, thread_id : Threads \cup {{}},
           next_task_id : Nat \ {0, 1}, job : 0 .. MaxJobs, eptr : 0 .. MaxJobs]
JobRecord == [thread : Threads, code : {<<x>> : x \in Threads \cup Job}, id : Nat]

\* The state is well formed, and the bound on the tasks is kept.
TypesOK ==
    /\ TypeOK
    /\ tasks \in [Slots -> Bucket]
    /\ bucket \in [Workers -> Nat]
    /\ jobs \in Seq(JobRecord)
    /\ Coming <= MaxJobs

\* The tasks on a stack, and a stack without a repetition.
Elements(s) == {s[k] : k \in DOMAIN s}
NoRepeat(s) == \A k, l \in DOMAIN s : s[k] = s[l] => k = l
Runs(t)     == Elements(stack[t])

\* The workers that run a task, each of them the one of its own bucket, which nobody
\* else looks at until it is cleared.
Idle == {"starting", "seeking", "gone"}
Looking == {"starting", "seeking"}
Busy == {w \in Workers : stack[w] # <<>>}
WorkersOK ==
    /\ \A w \in Workers :
          /\ stack[w] = <<>> <=> pc[w] \in Idle
          /\ pc[w] = "gone" => we_are_destructing
          /\ pc[w] \notin Closing
    /\ \A t \in Threads : pc[t] \in Looking => t \in Workers
    /\ \A w \in Busy :
          /\ bucket[w] \in Slots \ Empty
          /\ tasks[bucket[w]].is_being_processed
          /\ tasks[bucket[w]].job = stack[w][1]
    /\ \A w, v \in Busy : bucket[w] = bucket[v] => w = v
    /\ \A i \in Slots : tasks[i].is_being_processed => \E w \in Busy : bucket[w] = i

\* Every task that is not done is in one bucket that nobody has begun, or on one stack.
Undone == (DOMAIN jobs) \ done
StacksOK ==
    /\ \A t \in Threads : NoRepeat(stack[t]) /\ Runs(t) \subseteq Undone
    /\ \A t, u \in Threads : Runs(t) \cap Runs(u) # {} => t = u
PlacesOK ==
    /\ \A i \in Ready :
          /\ tasks[i].job \in Undone
          /\ \A t \in Threads : tasks[i].job \notin Runs(t)
          /\ \A k \in Ready : tasks[i].job = tasks[k].job => i = k
    /\ \A j \in Undone :
          (\E i \in Ready : tasks[i].job = j) \/ (\E t \in Threads : j \in Runs(t))

\* A bucket whose exception nobody has got yet is empty, and stays so until somebody
\* has: add_task looks for exceptions first.
EptrsOK == Failed \subseteq Empty /\ ExceptionsReachOneCaller

IInv == TypesOK /\ WorkersOK /\ StacksOK /\ PlacesOK /\ EptrsOK

-----------------------------------------------------------------------------
(***************************************************************************)
(* Buckets and stacks.                                                     *)
(***************************************************************************)

LEMMA FirstIn ==
    ASSUME NEW S \in SUBSET Nat, S # {}
    PROVE  First(S) \in S
<1> DEFINE R == OpToRel(<, Nat)
<1>1. IsWellFoundedOn(R, Nat) BY NatLessThanWellFounded
<1>2. \A x, y \in Nat : <<y, x>> \in R <=> y < x BY DEF OpToRel
<1> HIDE DEF R
<1>3. PICK x \in S : \A y \in S : ~(<<y, x>> \in R) BY <1>1, WFMin
<1>4. \A y \in S : x <= y
    <2> TAKE y \in S
    <2>1. x \in Nat /\ y \in Nat OBVIOUS
    <2>2. ~(y < x) BY <1>2, <1>3
    <2> QED BY <2>1, <2>2
<1> QED BY <1>3, <1>4 DEF First

LEMMA SizeNat == Size \in Nat /\ Slots \subseteq Nat
<1>1. IsFiniteSet(Workers) BY ThreadsAssumption, FS_Subset
<1> QED BY <1>1, FS_CardinalityType DEF Size, Slots

LEMMA FirstSlots ==
    /\ Empty # {} => First(Empty) \in Empty
    /\ Ready # {} => First(Ready) \in Ready
    /\ Failed # {} => First(Failed) \in Failed
<1>1. Empty \subseteq Nat /\ Ready \subseteq Nat /\ Failed \subseteq Nat
    BY SizeNat DEF Empty, Ready, Failed
<1> QED BY <1>1, FirstIn

\* The ids of a bucket are the numbers that leave its index when divided by their
\* count, and none of them is 0 or 1.
LEMMA Ids ==
    ASSUME NEW n \in Nat \ {0, 1}, NEW s \in Nat, NEW i \in 0 .. s - 1
    PROVE  n * s + i \in Nat /\ n * s + i > 1 /\ (n * s + i) % s = i
<1>1. s > 0 /\ i \in Nat /\ i < s OBVIOUS
<1>2. n * s \in Nat /\ n * s >= 2 * s BY <1>1
<1>3. n * s + i \in Nat /\ n * s + i > 1 BY <1>1, <1>2
<1> DEFINE m == n * s + i
           q == m \div s
           d == n - q
<1>4. q \in Int /\ m % s \in 0 .. s - 1 /\ m = q * s + (m % s) BY <1>1, <1>3
<1>5. d * s = (m % s) - i
    <2>1. d * s = n * s - q * s BY <1>1, <1>4
    <2> QED BY <1>1, <1>2, <1>4, <2>1
<1>6. d \in Int BY <1>4
<1> HIDE DEF d
<1>7. ~(d >= 1)
    <2>1. d >= 1 => d * s >= s BY <1>1, <1>6
    <2> QED BY <1>1, <1>4, <1>5, <2>1
<1>8. ~(d <= -1)
    <2>1. d <= -1 => d * s <= -s BY <1>1, <1>6
    <2> QED BY <1>1, <1>4, <1>5, <2>1
<1>9. d = 0 BY <1>6, <1>7, <1>8
<1>10. m % s = i BY <1>1, <1>4, <1>5, <1>9
<1> QED BY <1>3, <1>10

\* A task goes onto a stack, or off it.
LEMMA Push ==
    ASSUME NEW s \in Seq(Job), NEW j \in Job
    PROVE  LET r == Append(s, j)
           IN  /\ r \in Seq(Job) /\ r # <<>>
               /\ Elements(r) = Elements(s) \cup {j}
               /\ NoRepeat(s) /\ j \notin Elements(s) => NoRepeat(r)
               /\ s # <<>> => r[1] = s[1]
               /\ s = <<>> => r = <<j>> /\ r[1] = j
<1> DEFINE r == Append(s, j)
<1>1. /\ r \in Seq(Job) /\ r # <<>> /\ DOMAIN r = 1 .. Len(s) + 1 /\ DOMAIN s = 1 .. Len(s)
      /\ Len(s) \in Nat
      /\ \A k \in 1 .. Len(s) : r[k] = s[k]
      /\ r[Len(s) + 1] = j
    OBVIOUS
<1>2. s # <<>> => Len(s) > 0 OBVIOUS
<1>3. s = <<>> => r = <<j>> OBVIOUS
<1> HIDE DEF r
<1>4. Elements(r) = Elements(s) \cup {j}
    <2>1. \A k \in DOMAIN r : r[k] \in Elements(s) \cup {j}
        BY <1>1 DEF Elements
    <2>2. \A k \in DOMAIN s : s[k] \in Elements(r)
        BY <1>1 DEF Elements
    <2>3. j \in Elements(r) BY <1>1 DEF Elements
    <2> QED BY <2>1, <2>2, <2>3 DEF Elements
<1>5. ASSUME NoRepeat(s), j \notin Elements(s) PROVE NoRepeat(r)
    BY <1>1, <1>5 DEF NoRepeat, Elements
<1>6. s # <<>> => r[1] = s[1] BY <1>1, <1>2
<1>7. s = <<>> => r[1] = j BY <1>1, <1>3
<1> QED BY <1>1, <1>3, <1>4, <1>5, <1>6, <1>7 DEF r

LEMMA Pop ==
    ASSUME NEW s \in Seq(Job), s # <<>>, NoRepeat(s)
    PROVE  LET r == SubSeq(s, 1, Len(s) - 1)
           IN  /\ s[Len(s)] \in Elements(s)
               /\ r \in Seq(Job)
               /\ Elements(r) = Elements(s) \ {s[Len(s)]}
               /\ NoRepeat(r)
               /\ r = <<>> <=> Len(s) = 1
               /\ r # <<>> => r[1] = s[1]
<1> DEFINE r == SubSeq(s, 1, Len(s) - 1)
<1>1. Len(s) \in Nat /\ Len(s) > 0 /\ DOMAIN s = 1 .. Len(s) BY EmptySeq, LenProperties
<1>2. /\ r \in Seq(Job) /\ DOMAIN r = 1 .. Len(s) - 1 /\ Len(r) = Len(s) - 1
      /\ \A k \in 1 .. Len(s) - 1 : r[k] = s[k]
    <2>1. \A k \in 1 .. Len(s) - 1 : s[k] \in Job BY <1>1
    <2>2. /\ r \in Seq(Job)
          /\ Len(r) = IF 1 <= Len(s) - 1 THEN Len(s) - 1 - 1 + 1 ELSE 0
          /\ \A k \in 1 .. Len(s) - 1 - 1 + 1 : r[k] = s[1 + k - 1]
        BY <1>1, <2>1, SubSeqProperties
    <2>3. Len(r) = Len(s) - 1 BY <1>1, <2>2
    <2>4. DOMAIN r = 1 .. Len(s) - 1 BY <2>2, <2>3, LenProperties
    <2>5. \A k \in 1 .. Len(s) - 1 : 1 + k - 1 = k BY <1>1
    <2> QED BY <1>1, <2>2, <2>3, <2>4, <2>5
<1>3. r = <<>> <=> Len(r) = 0 BY <1>2, EmptySeq
<1> HIDE DEF r
<1>4. s[Len(s)] \in Elements(s) BY <1>1 DEF Elements
<1>5. Elements(r) = Elements(s) \ {s[Len(s)]}
    <2>1. \A k \in DOMAIN r : r[k] \in Elements(s) /\ r[k] # s[Len(s)]
        BY <1>1, <1>2 DEF Elements, NoRepeat
    <2>2. \A k \in DOMAIN s : s[k] # s[Len(s)] => s[k] \in Elements(r)
        BY <1>1, <1>2 DEF Elements
    <2> QED BY <2>1, <2>2 DEF Elements
<1>6. NoRepeat(r) BY <1>1, <1>2 DEF NoRepeat
<1>7. r = <<>> <=> Len(s) = 1 BY <1>1, <1>2, <1>3
<1>8. r # <<>> => r[1] = s[1] BY <1>1, <1>2, <1>7
<1> QED BY <1>2, <1>4, <1>5, <1>6, <1>7, <1>8 DEF r

LEMMA StackPushed ==
    ASSUME stack \in [Threads -> Seq(Job)], StacksOK, NEW t \in Threads, NEW j \in Job,
           \A u \in Threads : j \notin Runs(u),
           stack' = [stack EXCEPT ![t] = Append(stack[t], j)],
           Undone \subseteq Undone', j \in Undone'
    PROVE  /\ StacksOK' /\ stack' \in [Threads -> Seq(Job)]
           /\ \A u \in Threads : Runs(u)' = IF u = t THEN Runs(u) \cup {j} ELSE Runs(u)
<1> DEFINE r == Append(stack[t], j)
<1>1. stack[t] \in Seq(Job) OBVIOUS
<1>2. r \in Seq(Job) /\ Elements(r) = Runs(t) \cup {j} /\ NoRepeat(r)
    BY <1>1, Push DEF StacksOK, Runs
<1>3. stack'[t] = r /\ \A u \in Threads \ {t} : stack'[u] = stack[u] OBVIOUS
<1>4. stack' \in [Threads -> Seq(Job)] BY <1>2
<1> HIDE DEF r
<1>5. \A u \in Threads : Runs(u)' = IF u = t THEN Runs(u) \cup {j} ELSE Runs(u)
    BY <1>2, <1>3 DEF Runs
<1>6. \A u \in Threads : NoRepeat(stack'[u]) BY <1>2, <1>3 DEF StacksOK
<1>7. \A u \in Threads : Runs(u)' \subseteq Undone' BY <1>5 DEF StacksOK
<1>8. \A u, v \in Threads : Runs(u)' \cap Runs(v)' # {} => u = v BY <1>5 DEF StacksOK
<1> QED BY <1>4, <1>5, <1>6, <1>7, <1>8 DEF StacksOK

LEMMA StackPopped ==
    ASSUME stack \in [Threads -> Seq(Job)], StacksOK, NEW t \in Threads, stack[t] # <<>>,
           stack' = [stack EXCEPT ![t] = SubSeq(stack[t], 1, Len(stack[t]) - 1)],
           Undone' = Undone \ {stack[t][Len(stack[t])]}
    PROVE  LET j == stack[t][Len(stack[t])]
           IN  /\ StacksOK' /\ stack' \in [Threads -> Seq(Job)]
               /\ j \in Runs(t) /\ j \in Undone
               /\ \A u \in Threads : Runs(u)' = Runs(u) \ {j}
<1> DEFINE r == SubSeq(stack[t], 1, Len(stack[t]) - 1)
           j == stack[t][Len(stack[t])]
<1>1. stack[t] \in Seq(Job) /\ NoRepeat(stack[t]) BY DEF StacksOK
<1>2. r \in Seq(Job) /\ Elements(r) = Runs(t) \ {j} /\ NoRepeat(r) /\ j \in Runs(t)
    BY <1>1, Pop DEF Runs
<1>3. stack'[t] = r /\ \A u \in Threads \ {t} : stack'[u] = stack[u] OBVIOUS
<1>4. stack' \in [Threads -> Seq(Job)] BY <1>2
<1> HIDE DEF r, j
<1>5. \A u \in Threads : Runs(u)' = Runs(u) \ {j}
    <2>1. \A u \in Threads \ {t} : j \notin Runs(u) BY <1>2 DEF StacksOK
    <2> QED BY <1>2, <1>3, <2>1 DEF Runs
<1>6. \A u \in Threads : NoRepeat(stack'[u]) BY <1>2, <1>3 DEF StacksOK
<1>7. \A u \in Threads : Runs(u)' \subseteq Undone' BY <1>5 DEF StacksOK, j
<1>8. \A u, v \in Threads : Runs(u)' \cap Runs(v)' # {} => u = v BY <1>5 DEF StacksOK
<1> QED BY <1>2, <1>4, <1>5, <1>6, <1>7, <1>8 DEF StacksOK, j

-----------------------------------------------------------------------------
(***************************************************************************)
(* What the steps leave as it is.                                          *)
(***************************************************************************)

\* The buckets nobody has begun, and the stacks.
LEMMA PlacesFrame ==
    ASSUME PlacesOK, Ready' = Ready, \A i \in Ready : tasks'[i].job = tasks[i].job,
           \A t \in Threads : Runs(t)' = Runs(t), Undone' = Undone
    PROVE  PlacesOK'
BY DEF PlacesOK

\* The buckets that are not empty, whose task the worker below all others runs.
LEMMA WorkersFrame ==
    ASSUME WorkersOK, NEW t \in Threads, NEW point, pc \in [Threads -> Position],
           pc' = [pc EXCEPT ![t] = point], bucket' = bucket,
           t \in Workers => /\ point \in Idle <=> pc[t] \in Idle
                            /\ point = "gone" => we_are_destructing'
                            /\ point \notin Closing,
           point \in Looking => t \in Workers,
           we_are_destructing => we_are_destructing',
           \A w \in Workers : /\ stack'[w] = <<>> <=> stack[w] = <<>>
                              /\ stack[w] # <<>> => stack'[w][1] = stack[w][1],
           \A i \in Slots : tasks'[i].is_being_processed = tasks[i].is_being_processed,
           \A i \in Slots \ Empty : /\ tasks'[i].task_id = tasks[i].task_id
                                    /\ tasks'[i].job = tasks[i].job
    PROVE  WorkersOK'
<1>1. Workers \subseteq Threads /\ Slots' = Slots BY DEF Threads, Slots, Size
<1>2. \A w \in Workers : w # t => pc'[w] = pc[w] BY <1>1
<1>3. t \in Workers => pc'[t] = point BY <1>1
<1>4. Busy' = Busy BY DEF Busy
<1>5. \A i \in Slots \ Empty : i \notin Empty' BY <1>1 DEF Empty, is_empty
<1>6. \A w \in Workers : /\ stack'[w] = <<>> <=> pc'[w] \in Idle
                         /\ pc'[w] = "gone" => we_are_destructing'
                         /\ pc'[w] \notin Closing
    BY <1>2, <1>3 DEF WorkersOK
<1>9. \A u \in Threads : pc'[u] \in Looking => u \in Workers BY DEF WorkersOK
<1>7. \A w \in Busy' : /\ bucket'[w] \in Slots' \ Empty'
                       /\ tasks'[bucket'[w]].is_being_processed
                       /\ tasks'[bucket'[w]].job = stack'[w][1]
    BY <1>1, <1>4, <1>5 DEF WorkersOK, Busy
<1>8. /\ \A w, v \in Busy' : bucket'[w] = bucket'[v] => w = v
      /\ \A i \in Slots' : tasks'[i].is_being_processed => \E w \in Busy' : bucket'[w] = i
    BY <1>1, <1>4 DEF WorkersOK
<1> QED BY <1>6, <1>7, <1>8, <1>9 DEF WorkersOK

\* The number of tasks that are added or will be.
LEMMA ComingFrame ==
    ASSUME TypesOK, NEW t \in Threads, NEW point, pc' = [pc EXCEPT ![t] = point],
           \/ jobs' = jobs /\ (point \in Added => pc[t] \in Added \/ Coming < MaxJobs)
           \/ Len(jobs') = Len(jobs) + 1 /\ pc[t] \in Added /\ point \notin Added
    PROVE  Coming' <= MaxJobs /\ (pc[t] \in Added => Len(jobs) + 1 <= MaxJobs)
<1> DEFINE Adding == {u \in Threads : pc[u] \in Added}
<1>1. IsFiniteSet(Adding)
    <2>1. Adding \subseteq Threads OBVIOUS
    <2> QED BY <2>1, ThreadsAssumption, FS_Subset DEF Threads
<1>2. /\ Coming = Len(jobs) + Cardinality(Adding) /\ Coming' = Len(jobs') + Cardinality(Adding')
      /\ Adding' = IF point \in Added THEN Adding \cup {t} ELSE Adding \ {t}
      /\ t \in Adding <=> pc[t] \in Added
    BY DEF Coming, Added, TypesOK, TypeOK
<1>3. /\ Cardinality(Adding \cup {t})
            = IF pc[t] \in Added THEN Cardinality(Adding) ELSE Cardinality(Adding) + 1
      /\ Cardinality(Adding \ {t})
            = IF pc[t] \in Added THEN Cardinality(Adding) - 1 ELSE Cardinality(Adding)
    BY <1>1, <1>2, FS_AddElement, FS_RemoveElement
<1>4. /\ Cardinality(Adding) \in Nat /\ Len(jobs) \in Nat /\ MaxJobs \in Nat
      /\ Len(jobs) + Cardinality(Adding) <= MaxJobs
    BY <1>1, <1>2, FS_CardinalityType, JobsAssumption DEF TypesOK
<1>5. pc[t] \in Added => Cardinality(Adding) # 0 BY <1>1, <1>2, FS_EmptySet
<1> HIDE DEF Adding
<1> QED BY <1>2, <1>3, <1>4, <1>5

LEMMA AsleepFrame ==
    ASSUME TypesOK, NEW t \in Threads, NEW point \in Position, pc' = [pc EXCEPT ![t] = point],
           asleep' \subseteq asleep \cup {t}, t \in asleep' => point \in task_ready \cup task_done
    PROVE  /\ pc' \in [Threads -> Position]
           /\ asleep' \subseteq {u \in Threads : pc'[u] \in task_ready \cup task_done}
BY DEF TypesOK, TypeOK

-----------------------------------------------------------------------------
(***************************************************************************)
(* Steps that change no bucket and no stack.                               *)
(***************************************************************************)

LEMMA QuietKept ==
    ASSUME IInv, NEW t \in Threads, NEW point \in Position, pc' = [pc EXCEPT ![t] = point],
           UNCHANGED <<tasks, stack, bucket, history>>,
           worker_thread_ids' \subseteq Workers,
           we_are_destructing' \in BOOLEAN, we_are_destructing => we_are_destructing',
           awaited' \in [Threads -> Nat], threw' \in [Threads -> BOOLEAN],
           point \in Added => pc[t] \in Added \/ Coming < MaxJobs,
           t \in Workers => /\ point \in Idle <=> pc[t] \in Idle
                            /\ point = "gone" => we_are_destructing'
                            /\ point \notin Closing,
           point \in Looking => t \in Workers,
           asleep' \subseteq asleep \cup {t}, t \in asleep' => point \in task_ready \cup task_done
    PROVE  IInv'
<1>1. TypesOK'
    <2>1. Slots' = Slots /\ Threads' = Threads BY DEF Slots, Size, Threads
    <2>2. Coming' <= MaxJobs BY ComingFrame DEF IInv, history
    <2> QED BY <2>1, <2>2, AsleepFrame DEF IInv, TypesOK, TypeOK, history
<1>2. WorkersOK' BY WorkersFrame DEF IInv, TypesOK, TypeOK
<1>3. StacksOK' BY DEF IInv, StacksOK, Runs, Undone, history
<1>4. PlacesOK' BY DEF IInv, PlacesOK, Ready, is_ready, is_empty, Slots, Size, Runs, Undone, history
<1>5. EptrsOK'
    BY DEF IInv, EptrsOK, ExceptionsReachOneCaller, Failed, Empty, is_empty, Slots, Size, history
<1> QED BY <1>1, <1>2, <1>3, <1>4, <1>5 DEF IInv

\* A thread that goes to sleep, or on sleeping, stays in the member it is in.
LEMMA SleepsKept ==
    ASSUME IInv, NEW t \in Threads, NEW point, Sleeps(t, point),
           \/ pc[t] \in Added /\ point = "adding"
           \/ pc[t] \in {"for_task", "for_all", "seeking", "closing"} /\ point = pc[t]
    PROVE  IInv'
<1>1. /\ pc' = [pc EXCEPT ![t] = point] /\ asleep' = asleep \cup {t}
      /\ UNCHANGED <<pool, stack, bucket, awaited, threw, history>>
    BY DEF Sleeps, Moves
<1>2. /\ point \in Position /\ point \in task_ready \cup task_done
      /\ point \in Added => pc[t] \in Added
      /\ point \in Idle <=> pc[t] \in Idle
      /\ point # "gone"
    BY DEF Position, Added, Waiting, Closing, Idle, task_ready, task_done
<1>3. (t \in Workers => point \notin Closing) /\ (point \in Looking => t \in Workers)
    BY DEF IInv, WorkersOK, Looking, Closing
<1> QED BY <1>1, <1>2, <1>3, QuietKept DEF IInv, TypesOK, TypeOK, pool

\* A thread that goes to another point.
LEMMA MovesKept ==
    ASSUME IInv, NEW t \in Threads, NEW point, Moves(t, point), t \notin asleep,
           UNCHANGED <<tasks, stack, bucket, history>>, asleep' \subseteq asleep,
           worker_thread_ids' \subseteq Workers,
           we_are_destructing' = we_are_destructing \/ we_are_destructing' = TRUE,
           awaited' \in [Threads -> Nat], threw' \in [Threads -> BOOLEAN],
           \/ /\ pc[t] \notin Idle
              /\ \/ point \in {"user", "for_task", "for_all"}
                 \/ point = "add" /\ Coming < MaxJobs
                 \/ point \in {"closing", "joining", "gone", "aborted"} /\ t \in Clients
           \/ pc[t] = "starting" /\ point = "seeking"
           \/ pc[t] = "seeking" /\ point = "gone" /\ we_are_destructing
    PROVE  IInv'
<1>1. pc' = [pc EXCEPT ![t] = point] BY DEF Moves
<1>2. t \in Workers => t \notin Clients BY ThreadsAssumption
<1>3. /\ point \in Position
      /\ point \in Added => Coming < MaxJobs
      /\ t \in Workers => /\ point \in Idle <=> pc[t] \in Idle
                          /\ point = "gone" => we_are_destructing'
                          /\ point \notin Closing
    BY <1>2 DEF Position, Added, Waiting, Closing, Idle
<1>5. point \in Looking => t \in Workers BY DEF IInv, WorkersOK, Looking
<1>4. we_are_destructing' \in BOOLEAN /\ (we_are_destructing => we_are_destructing')
    BY DEF IInv, TypesOK, TypeOK
<1> QED BY <1>1, <1>3, <1>4, <1>5, QuietKept

LEMMA CallsKept ==
    ASSUME IInv, NEW t \in Threads,
           CallAddTask(t) \/ CallWaitForTask(t) \/ CallWaitForAllTasks(t) \/ CallShutdown(t)
    PROVE  IInv'
<1>0. /\ awaited \in [Threads -> Nat] /\ threw \in [Threads -> BOOLEAN]
      /\ worker_thread_ids \subseteq Workers
      /\ \A u \in asleep : pc[u] # "user"
    BY DEF IInv, TypesOK, TypeOK, task_ready, task_done, Waiting
<1>1. ASSUME NEW member, NEW id \in Nat, Calls(t, member, id),
             member \in {"for_task", "for_all"} \/ (member = "add" /\ Coming < MaxJobs)
      PROVE  IInv'
    <2>1. /\ Moves(t, member) /\ pc[t] = "user" /\ UNCHANGED <<pool, asleep, stack, bucket, history>>
          /\ awaited' \in [Threads -> Nat] /\ threw' \in [Threads -> BOOLEAN]
        BY <1>0, <1>1 DEF Calls
    <2>2. pc[t] \notin Idle /\ t \notin asleep BY <1>0, <2>1 DEF Idle
    <2>3. /\ UNCHANGED <<tasks, stack, bucket, history>> /\ asleep' \subseteq asleep
          /\ worker_thread_ids' \subseteq Workers /\ we_are_destructing' = we_are_destructing
        BY <1>0, <2>1 DEF pool
    <2> QED BY <1>1, <2>1, <2>2, <2>3, MovesKept
<1>2. CASE CallAddTask(t) BY <1>1, <1>2 DEF CallAddTask
<1>3. CASE CallWaitForTask(t)
    <2>0. jobs \in Seq(JobRecord) BY DEF IInv, TypesOK
    <2>1. \A j \in DOMAIN jobs : jobs[j].id \in Nat
        <3> TAKE j \in DOMAIN jobs
        <3>1. jobs[j] \in JobRecord BY <2>0
        <3> QED BY <3>1 DEF JobRecord
    <2>2. PICK id \in Nat : Calls(t, "for_task", id)
        BY <1>3, <2>1, JobsAssumption DEF CallWaitForTask
    <2> QED BY <1>1, <2>2
<1>4. CASE CallWaitForAllTasks(t) BY <1>1, <1>4 DEF CallWaitForAllTasks
<1>5. CASE CallShutdown(t)
    <2>1. /\ Moves(t, "closing") /\ t \in Clients /\ pc[t] = "user"
          /\ UNCHANGED <<pool, asleep, stack, bucket, awaited, threw, history>>
        BY <1>5 DEF CallShutdown
    <2>2. pc[t] \notin Idle /\ t \notin asleep BY <1>0, <2>1 DEF Idle
    <2>3. /\ UNCHANGED <<tasks, stack, bucket, history>> /\ asleep' \subseteq asleep
          /\ worker_thread_ids' \subseteq Workers /\ we_are_destructing' = we_are_destructing
          /\ awaited' \in [Threads -> Nat] /\ threw' \in [Threads -> BOOLEAN]
        BY <1>0, <2>1 DEF pool
    <2> QED BY <2>1, <2>2, <2>3, MovesKept
<1> QED BY <1>2, <1>3, <1>4, <1>5

LEMMA ReturnsKept ==
    ASSUME IInv, NEW t \in Threads, pc[t] \in Waiting, t \notin asleep, Returns(t)
    PROVE  IInv'
<1>1. /\ Moves(t, "user") /\ UNCHANGED <<pool, asleep, stack, bucket, awaited, threw, history>>
      /\ pc[t] \notin Idle
    BY DEF Returns, Waiting, Idle
<1>2. /\ awaited \in [Threads -> Nat] /\ threw \in [Threads -> BOOLEAN]
      /\ worker_thread_ids \subseteq Workers
    BY DEF IInv, TypesOK, TypeOK
<1> QED BY <1>1, <1>2, MovesKept DEF pool

LEMMA StillKept ==
    ASSUME IInv, NEW t \in Threads, Start(t) \/ Shutdown(t) \/ Join(t) \/ SpuriousWakeup(t)
    PROVE  IInv'
<1>0. /\ awaited \in [Threads -> Nat] /\ threw \in [Threads -> BOOLEAN]
      /\ worker_thread_ids \subseteq Workers /\ we_are_destructing \in BOOLEAN
      /\ pc \in [Threads -> Position]
      /\ \A u \in asleep : pc[u] \in task_ready \cup task_done
    BY DEF IInv, TypesOK, TypeOK
<1>6. (pc[t] \in Closing => t \in Clients) /\ (pc[t] \in Looking => t \in Workers)
    BY DEF IInv, WorkersOK, Threads
<1>1. CASE Start(t)
    <2>1. t \notin asleep BY <1>0, <1>1 DEF Start, task_ready, task_done, Waiting
    <2>2. t \in Workers /\ worker_thread_ids' = worker_thread_ids \cup {t}
             /\ UNCHANGED <<tasks, we_are_destructing, asleep, stack, bucket, awaited, threw, history>>
             /\ Moves(t, "seeking") /\ pc[t] = "starting"
        BY <1>1, <1>6 DEF Start, Looking
    <2>3. worker_thread_ids' \subseteq Workers BY <1>0, <2>2
    <2> QED BY <1>0, <2>1, <2>2, <2>3, MovesKept
<1>2. CASE Shutdown(t) /\ Empty # Slots
    <2>1. Sleeps(t, "closing") /\ pc[t] = "closing" BY <1>2 DEF Shutdown
    <2> QED BY <2>1, SleepsKept
<1>3. CASE Shutdown(t) /\ Empty = Slots
    <2>1. /\ Moves(t, "joining") /\ t \notin asleep /\ pc[t] = "closing" /\ asleep' \subseteq asleep
          /\ we_are_destructing' = TRUE
          /\ UNCHANGED <<tasks, worker_thread_ids, stack, bucket, awaited, threw, history>>
        BY <1>3 DEF Shutdown
    <2>2. pc[t] \notin Idle /\ t \in Clients BY <1>6, <2>1 DEF Idle, Closing
    <2> QED BY <1>0, <2>1, <2>2, MovesKept
<1>4. CASE Join(t)
    <2>1. PICK point \in {"gone", "aborted"} : Moves(t, point) BY <1>4 DEF Join
    <2>2. pc[t] = "joining" /\ UNCHANGED <<pool, asleep, stack, bucket, awaited, threw, history>>
        BY <1>4 DEF Join
    <2>3. t \in Clients /\ t \notin asleep /\ pc[t] \notin Idle
        BY <1>0, <1>6, <2>2 DEF Closing, task_ready, task_done, Waiting, Idle
    <2> QED BY <1>0, <2>1, <2>2, <2>3, MovesKept DEF pool
<1>5. CASE SpuriousWakeup(t)
    <2>1. /\ pc' = [pc EXCEPT ![t] = pc[t]] /\ asleep' \subseteq asleep /\ t \notin asleep'
          /\ UNCHANGED <<pool, stack, bucket, awaited, threw, history>>
        BY <1>0, <1>5 DEF SpuriousWakeup
    <2>2. /\ pc[t] \in Position /\ (pc[t] \in Looking => t \in Workers)
          /\ t \in Workers => (pc[t] = "gone" => we_are_destructing') /\ pc[t] \notin Closing
        BY <1>0, <2>1 DEF IInv, WorkersOK, pool
    <2> QED BY <1>0, <2>1, <2>2, QuietKept DEF pool
<1> QED BY <1>1, <1>2, <1>3, <1>4, <1>5

-----------------------------------------------------------------------------
(***************************************************************************)
(* An exception reaches a caller.                                          *)
(***************************************************************************)

LEMMA BucketTypes == TypesOK => tasks \in [Slots -> Bucket] /\ Slots \subseteq Nat
BY SizeNat DEF TypesOK

LEMMA PropagatesKept ==
    ASSUME IInv, NEW t \in Threads, pc[t] \in Added \cup Waiting, t \notin asleep, Propagates(t)
    PROVE  IInv'
<1> DEFINE i == First(Failed)
           e == tasks[i].eptr
<1>0. TypesOK /\ WorkersOK /\ StacksOK /\ PlacesOK /\ EptrsOK BY DEF IInv
<1>1. /\ tasks \in [Slots -> Bucket] /\ i \in Failed /\ i \in Slots /\ e # 0
      /\ tasks' = [tasks EXCEPT ![i].eptr = 0]
      /\ caught' = caught \cup {e}
      /\ pc' = [pc EXCEPT ![t] = "user"] /\ threw' = [threw EXCEPT ![t] = TRUE]
      /\ UNCHANGED <<worker_thread_ids, we_are_destructing, asleep, stack, bucket, awaited, jobs,
                     done, raised>>
    BY <1>0, BucketTypes, FirstSlots DEF Propagates, Moves, Failed
<1> HIDE DEF i
<1>2. /\ tasks' \in [Slots -> Bucket]
      /\ \A k \in Slots : /\ tasks'[k].eptr = IF k = i THEN 0 ELSE tasks[k].eptr
                          /\ tasks'[k].task_id = tasks[k].task_id
                          /\ tasks'[k].job = tasks[k].job
                          /\ tasks'[k].is_being_processed = tasks[k].is_being_processed
    BY <1>1, JobsAssumption DEF Bucket
<1>3. Slots' = Slots /\ Empty' = Empty /\ Ready' = Ready
    BY <1>2 DEF Slots, Size, Empty, Ready, is_ready, is_empty
<1>4. Failed' = Failed \ {i} BY <1>1, <1>2, <1>3 DEF Failed
<1> HIDE DEF e
<1>5. raised \ caught = {tasks[k].eptr : k \in Failed}
         /\ \A k, l \in Failed : tasks[k].eptr = tasks[l].eptr => k = l
    BY <1>0 DEF EptrsOK, ExceptionsReachOneCaller
<1>6. e \in raised \ caught BY <1>1, <1>5 DEF e
<1>7. EptrsOK'
    <2>1. raised' \ caught' = {tasks'[k].eptr : k \in Failed'}
        <3>1. \A k \in Failed' : tasks'[k].eptr = tasks[k].eptr /\ tasks[k].eptr # e
            BY <1>1, <1>2, <1>4, <1>5 DEF e, Failed
        <3>2. \A k \in Failed : tasks[k].eptr # e => k \in Failed' BY <1>4 DEF e
        <3> QED BY <1>1, <1>5, <3>1, <3>2, <1>4
    <2>2. \A k, l \in Failed' : tasks'[k].eptr = tasks'[l].eptr => k = l
        BY <1>2, <1>4, <1>5 DEF Failed
    <2>3. Failed' \subseteq Empty' BY <1>0, <1>3, <1>4 DEF EptrsOK
    <2> QED BY <2>1, <2>2, <2>3 DEF EptrsOK, ExceptionsReachOneCaller
<1>8. t \notin asleep' /\ pc[t] \notin Idle /\ "user" \notin Idle /\ "user" \in Position
         /\ "user" \notin Closing /\ "user" \notin Looking /\ "user" \notin Added
    BY <1>1 DEF Added, Waiting, Idle, Position, Closing, Looking
<1>9. TypesOK'
    <2>1. Coming' <= MaxJobs BY <1>0, <1>1, <1>8, ComingFrame
    <2>2. /\ pc' \in [Threads -> Position]
          /\ asleep' \subseteq {u \in Threads : pc'[u] \in task_ready \cup task_done}
        BY <1>0, <1>1, <1>8, AsleepFrame
    <2>3. caught' \subseteq raised' BY <1>0, <1>1, <1>6 DEF TypesOK, TypeOK
    <2>4. threw' \in [Threads -> BOOLEAN] BY <1>0, <1>1 DEF TypesOK, TypeOK
    <2> QED BY <1>0, <1>1, <1>2, <1>3, <2>1, <2>2, <2>3, <2>4
            DEF TypesOK, TypeOK, Bucket, Threads
<1>10. WorkersOK' BY <1>0, <1>1, <1>2, <1>8, WorkersFrame DEF TypesOK, TypeOK
<1>11. StacksOK' BY <1>0, <1>1 DEF StacksOK, Runs, Undone
<1>12. PlacesOK'
    <2>1. \A u \in Threads : Runs(u)' = Runs(u) BY <1>1 DEF Runs
    <2> QED BY <1>0, <1>1, <1>2, <1>3, <2>1, PlacesFrame DEF Undone, Ready
<1> QED BY <1>7, <1>9, <1>10, <1>11, <1>12 DEF IInv

-----------------------------------------------------------------------------
(***************************************************************************)
(* A task is added.                                                        *)
(***************************************************************************)

LEMMA NewJobFacts ==
    ASSUME TypesOK, NEW t \in Threads, NEW id \in Nat, jobs' = NewJob(t, id), done' = done,
           Len(jobs) + 1 <= MaxJobs
    PROVE  LET j == Len(jobs) + 1
           IN  /\ j \in Job /\ j \notin DOMAIN jobs
               /\ jobs' \in Seq(JobRecord) /\ Len(jobs') = j /\ DOMAIN jobs' = (DOMAIN jobs) \cup {j}
               /\ Undone' = Undone \cup {j}
               /\ \A k \in DOMAIN jobs : jobs'[k] = jobs[k]
               /\ jobs'[j].id = id /\ jobs'[j].thread = t
<1> DEFINE j == Len(jobs) + 1
           r == [thread |-> t, code |-> Code(t), id |-> id]
<1>1. jobs \in Seq(JobRecord) /\ Len(jobs) \in Nat /\ DOMAIN jobs = 1 .. Len(jobs)
    BY LenProperties DEF TypesOK
<1>2. j \in Job /\ j \notin DOMAIN jobs BY <1>1, JobsAssumption DEF Job
<1>3. Code(t) \in {<<x>> : x \in Threads \cup Job}
    <2>1. stack[t] \in Seq(Job) BY DEF TypesOK, TypeOK
    <2>2. stack[t] # <<>> => stack[t][Len(stack[t])] \in Job
        BY <2>1, EmptySeq, ElementOfSeq
    <2> QED BY <2>2 DEF Code
<1>4. r \in JobRecord BY <1>3 DEF JobRecord
<1>5. jobs' = Append(jobs, r) BY DEF NewJob
<1>6. r.id = id /\ r.thread = t OBVIOUS
<1> HIDE DEF r
<1>7. /\ jobs' \in Seq(JobRecord) /\ Len(jobs') = j /\ DOMAIN jobs' = 1 .. j
      /\ \A k \in DOMAIN jobs : jobs'[k] = jobs[k]
      /\ jobs'[j] = r
    BY <1>1, <1>4, <1>5
<1>8. DOMAIN jobs' = (DOMAIN jobs) \cup {j} BY <1>1, <1>7
<1>9. j \notin done BY <1>2 DEF TypesOK, TypeOK
<1>10. Undone' = Undone \cup {j} BY <1>8, <1>9 DEF Undone
<1> QED BY <1>2, <1>6, <1>7, <1>8, <1>10

LEMMA NewJobUnknown ==
    ASSUME IInv, NEW j, j \notin DOMAIN jobs
    PROVE  /\ \A u \in Threads : j \notin Runs(u)
           /\ \A i \in Ready : tasks[i].job # j
BY DEF IInv, StacksOK, PlacesOK, Undone

LEMMA PlacesKept ==
    ASSUME IInv, NEW t \in Threads, pc[t] \in Added, t \notin asleep, Places(t)
    PROVE  IInv'
<1> DEFINE i  == First(Empty)
           id == make_next_task_id(i)
           j  == Len(jobs) + 1
<1>0. TypesOK /\ WorkersOK /\ StacksOK /\ PlacesOK /\ EptrsOK BY DEF IInv
<1>1. /\ tasks \in [Slots -> Bucket] /\ i \in Empty /\ i \in Slots /\ i \in Nat /\ Failed = {}
      /\ tasks' = [tasks EXCEPT ![i].thread_id = t, ![i].task_id = id,
                                ![i].next_task_id = @ + 1, ![i].job = j]
      /\ jobs' = NewJob(t, id)
      /\ asleep' \subseteq asleep
      /\ pc' = [pc EXCEPT ![t] = "user"]
      /\ UNCHANGED <<worker_thread_ids, we_are_destructing, stack, bucket, awaited, threw, done,
                     raised, caught>>
    BY <1>0, BucketTypes, FirstSlots DEF Places, Moves, Empty
<1> HIDE DEF i
<1>2. id \in Nat /\ id > 1
    <2>1. tasks[i].next_task_id \in Nat \ {0, 1} BY <1>1 DEF Bucket
    <2>2. i \in 0 .. Size - 1 BY <1>1 DEF Slots
    <2> QED BY <2>1, <2>2, SizeNat, Ids DEF make_next_task_id
<1> HIDE DEF id
<1>3. t \notin asleep' /\ pc[t] \notin Idle /\ "user" \notin Idle /\ "user" \in Position
         /\ "user" \notin Closing /\ "user" \notin Looking /\ "user" \notin Added
    BY <1>1 DEF Added, Idle, Position, Closing, Looking
<1>4. j <= MaxJobs
    <2>1. pc' = [pc EXCEPT ![t] = "user"] /\ Len(jobs') = Len(jobs) + 1
        BY <1>0, <1>1 DEF NewJob, TypesOK
    <2> QED BY <1>0, <1>3, <2>1, ComingFrame
<1>5. /\ j \in Job /\ j \notin DOMAIN jobs
      /\ jobs' \in Seq(JobRecord) /\ Len(jobs') = j /\ DOMAIN jobs' = (DOMAIN jobs) \cup {j}
      /\ Undone' = Undone \cup {j}
    BY <1>0, <1>1, <1>2, <1>4, NewJobFacts
<1> HIDE DEF j
<1>6. /\ tasks' \in [Slots -> Bucket]
      /\ \A k \in Slots \ {i} : tasks'[k] = tasks[k]
      /\ tasks'[i].job = j /\ tasks'[i].task_id = id
      /\ tasks'[i].is_being_processed = tasks[i].is_being_processed
      /\ tasks'[i].eptr = tasks[i].eptr
    <2>1. j \in 0 .. MaxJobs BY <1>5, JobsAssumption DEF Job
    <2>2. tasks[i] \in Bucket BY <1>1
    <2>3. tasks[i].next_task_id + 1 \in Nat \ {0, 1} BY <2>2 DEF Bucket
    <2>4. tasks'[i] = [tasks[i] EXCEPT !.thread_id = t, !.task_id = id,
                                       !.next_task_id = @ + 1, !.job = j]
        BY <1>1, <2>2 DEF Bucket
    <2>5. tasks'[i] \in Bucket BY <1>2, <2>1, <2>2, <2>3, <2>4 DEF Bucket
    <2>6. \A k \in Slots \ {i} : tasks'[k] = tasks[k] BY <1>1
    <2>7. tasks' \in [Slots -> Bucket] BY <1>1, <2>5, <2>6
    <2> QED BY <2>2, <2>4, <2>6, <2>7 DEF Bucket
<1>7. ~tasks[i].is_being_processed
    BY <1>0, <1>1 DEF WorkersOK
<1>8. Slots' = Slots BY DEF Slots, Size
<1>9. Ready' = Ready \cup {i} /\ i \notin Ready
    <2>1. i \notin Ready BY <1>1 DEF Ready, is_ready, Empty, is_empty
    <2>2. Ready' = Ready \cup {i}
        BY <1>1, <1>2, <1>6, <1>7, <1>8 DEF Ready, is_ready, is_empty
    <2> QED BY <2>1, <2>2
<1>10. TypesOK'
    <2>1. Coming' <= MaxJobs BY <1>0, <1>1, <1>3, <1>5, ComingFrame DEF j
    <2>2. /\ pc' \in [Threads -> Position]
          /\ asleep' \subseteq {u \in Threads : pc'[u] \in task_ready \cup task_done}
        BY <1>0, <1>1, <1>3, AsleepFrame
    <2>3. tasks' \in [Slots -> Bucket]' BY <1>6, <1>8 DEF Bucket, Threads
    <2>4. TypeOK' BY <1>0, <1>1, <1>4, <1>5, <2>2, <2>3 DEF TypesOK, TypeOK, Bucket, Threads
    <2>5. bucket' \in [Workers -> Nat] BY <1>0, <1>1 DEF TypesOK
    <2>6. jobs' \in Seq(JobRecord)' BY <1>5 DEF JobRecord, Threads, Job
    <2> QED BY <2>1, <2>3, <2>4, <2>5, <2>6 DEF TypesOK
<1>11. WorkersOK'
    <2>1. /\ \A k \in Slots : tasks'[k].is_being_processed = tasks[k].is_being_processed
          /\ \A k \in Slots \ Empty : tasks'[k] = tasks[k]
        BY <1>1, <1>6
    <2> QED BY <1>0, <1>1, <1>3, <2>1, WorkersFrame DEF TypesOK, TypeOK
<1>12. StacksOK' BY <1>0, <1>1, <1>5 DEF StacksOK, Runs
<1>13. PlacesOK'
    <2>1. \A u \in Threads : j \notin Runs(u) BY <1>5, NewJobUnknown
    <2>2. \A k \in Ready : tasks[k].job # j BY <1>5, NewJobUnknown
    <2>3. \A u \in Threads : Runs(u)' = Runs(u) BY <1>1 DEF Runs
    <2>4. \A k \in Ready : tasks'[k].job = tasks[k].job BY <1>6, <1>9 DEF Ready
    <2>5. /\ \A k \in Ready' : /\ tasks'[k].job \in Undone'
                               /\ \A u \in Threads : tasks'[k].job \notin Runs(u)'
          /\ \A k, l \in Ready' : tasks'[k].job = tasks'[l].job => k = l
        BY <1>0, <1>5, <1>6, <1>9, <2>1, <2>2, <2>3, <2>4 DEF PlacesOK
    <2>6. \A k \in Undone' : \/ \E l \in Ready' : tasks'[l].job = k
                             \/ \E u \in Threads : k \in Runs(u)'
        BY <1>0, <1>5, <1>6, <1>9, <2>3, <2>4 DEF PlacesOK
    <2> QED BY <2>5, <2>6 DEF PlacesOK
<1>14. EptrsOK'
    <2>1. Failed' = {} BY <1>1, <1>6, <1>8 DEF Failed
    <2>2. raised' \ caught' = {} BY <1>0, <1>1 DEF EptrsOK, ExceptionsReachOneCaller
    <2> QED BY <2>1, <2>2 DEF EptrsOK, ExceptionsReachOneCaller
<1> QED BY <1>10, <1>11, <1>12, <1>13, <1>14 DEF IInv

\* The buckets stay as they are while a stack changes above its first task.
LEMMA SameBuckets ==
    ASSUME tasks' = tasks
    PROVE  /\ Slots' = Slots /\ Ready' = Ready /\ Empty' = Empty /\ Failed' = Failed
           /\ Threads' = Threads /\ Job' = Job /\ Bucket' = Bucket /\ JobRecord' = JobRecord
BY DEF Slots, Size, Ready, Empty, Failed, is_ready, is_empty, Threads, Job, Bucket, JobRecord

LEMMA RunsItselfKept ==
    ASSUME IInv, NEW t \in Threads, pc[t] = "add", RunsItself(t)
    PROVE  IInv'
<1> DEFINE j == Len(jobs) + 1
<1>0. TypesOK /\ WorkersOK /\ StacksOK /\ PlacesOK /\ EptrsOK BY DEF IInv
<1>1. /\ jobs' = NewJob(t, 1)
      /\ stack' = [stack EXCEPT ![t] = Append(stack[t], j)]
      /\ pc' = [pc EXCEPT ![t] = "user"]
      /\ UNCHANGED <<pool, asleep, bucket, awaited, threw, done, raised, caught>>
    BY DEF RunsItself, Moves
<1>2. t \notin asleep
    BY <1>0 DEF TypesOK, TypeOK, task_ready, task_done, Waiting
<1>3. pc[t] \in Added /\ pc[t] \notin Idle /\ "user" \notin Idle /\ "user" \in Position
         /\ "user" \notin Closing /\ "user" \notin Looking /\ "user" \notin Added
    BY DEF Added, Idle, Position, Closing, Looking
<1>4. j <= MaxJobs
    <2>1. Len(jobs') = Len(jobs) + 1 BY <1>0, <1>1 DEF NewJob, TypesOK
    <2> QED BY <1>0, <1>1, <1>3, <2>1, ComingFrame
<1>5. /\ j \in Job /\ j \notin DOMAIN jobs
      /\ jobs' \in Seq(JobRecord) /\ Len(jobs') = j /\ DOMAIN jobs' = (DOMAIN jobs) \cup {j}
      /\ Undone' = Undone \cup {j}
    BY <1>0, <1>1, <1>4, NewJobFacts
<1>6. \A u \in Threads : j \notin Runs(u) BY <1>5, NewJobUnknown
<1>7. \A k \in Ready : tasks[k].job # j BY <1>5, NewJobUnknown
<1>8. stack \in [Threads -> Seq(Job)] BY <1>0 DEF TypesOK, TypeOK
<1>9. /\ StacksOK' /\ stack' \in [Threads -> Seq(Job)]
      /\ \A u \in Threads : Runs(u)' = IF u = t THEN Runs(u) \cup {j} ELSE Runs(u)
    BY <1>0, <1>1, <1>5, <1>6, <1>8, StackPushed
<1>10. /\ Append(stack[t], j) # <<>>
       /\ stack[t] # <<>> => Append(stack[t], j)[1] = stack[t][1]
    <2>1. stack[t] \in Seq(Job) BY <1>8
    <2> QED BY <1>5, <2>1, Push
<1> HIDE DEF j
<1>11. TypesOK'
    <2>1. Coming' <= MaxJobs BY <1>0, <1>1, <1>3, <1>5, ComingFrame DEF j
    <2>2. /\ pc' \in [Threads -> Position]
          /\ asleep' \subseteq {u \in Threads : pc'[u] \in task_ready \cup task_done}
        BY <1>0, <1>1, <1>2, <1>3, AsleepFrame
    <2> QED BY <1>0, <1>1, <1>4, <1>5, <1>9, <2>1, <2>2, SameBuckets DEF TypesOK, TypeOK, pool
<1>12. WorkersOK'
    <2>1. t \in Workers => stack[t] # <<>> BY <1>0, <1>3 DEF WorkersOK
    <2>2. \A w \in Workers : /\ stack'[w] = <<>> <=> stack[w] = <<>>
                             /\ stack[w] # <<>> => stack'[w][1] = stack[w][1]
        <3> TAKE w \in Workers
        <3>1. w \in Threads BY DEF Threads
        <3>2. CASE w = t BY <1>1, <1>8, <1>10, <2>1, <3>1, <3>2
        <3>3. CASE w # t BY <1>1, <1>8, <3>1, <3>3
        <3> QED BY <3>2, <3>3
    <2> QED BY <1>0, <1>1, <1>3, <2>2, WorkersFrame DEF TypesOK, TypeOK, pool
<1>13. PlacesOK'
    <2>1. Ready' = Ready /\ tasks' = tasks BY <1>1, SameBuckets DEF pool
    <2>2. /\ \A k \in Ready : /\ tasks[k].job \in Undone'
                              /\ \A u \in Threads : tasks[k].job \notin Runs(u)'
          /\ \A k, l \in Ready : tasks[k].job = tasks[l].job => k = l
        BY <1>0, <1>5, <1>7, <1>9 DEF PlacesOK
    <2>3. \A k \in Undone' : \/ \E l \in Ready : tasks[l].job = k
                             \/ \E u \in Threads : k \in Runs(u)'
        <3> TAKE k \in Undone'
        <3>1. CASE k = j BY <1>9, <3>1
        <3>2. CASE k # j
            <4>1. k \in Undone BY <1>5, <3>2
            <4>2. \A u \in Threads : Runs(u) \subseteq Runs(u)' BY <1>9
            <4> QED BY <1>0, <4>1, <4>2 DEF PlacesOK
        <3> QED BY <3>1, <3>2
    <2> QED BY <2>1, <2>2, <2>3 DEF PlacesOK
<1>14. EptrsOK'
    BY <1>0, <1>1, SameBuckets DEF EptrsOK, ExceptionsReachOneCaller, pool
<1> QED BY <1>9, <1>11, <1>12, <1>13, <1>14 DEF IInv

\* add_task, before and after a wait.
LEMMA AddsKept ==
    ASSUME IInv, NEW t \in Threads, AddTask(t) \/ AddingAwake(t)
    PROVE  IInv'
<1>1. pc[t] \in Added /\ t \notin asleep
    <2>1. pc[t] = "add" => t \notin asleep
        BY DEF IInv, TypesOK, TypeOK, task_ready, task_done, Waiting
    <2> QED BY <2>1 DEF AddTask, AddingAwake, Added
<1>2. CASE Propagates(t) BY <1>1, <1>2, PropagatesKept
<1>3. CASE Places(t) BY <1>1, <1>3, PlacesKept
<1>4. CASE pc[t] = "add" /\ RunsItself(t) BY <1>4, RunsItselfKept
<1>5. CASE Sleeps(t, "adding") BY <1>1, <1>5, SleepsKept
<1> QED BY <1>2, <1>3, <1>4, <1>5 DEF AddTask, AddingAwake

LEMMA WaitsKept ==
    ASSUME IInv, NEW t \in Threads, WaitForTask(t) \/ WaitForAllTasks(t)
    PROVE  IInv'
<1>1. pc[t] \in Waiting /\ t \notin asleep BY DEF WaitForTask, WaitForAllTasks, Waiting
<1>2. CASE Propagates(t) BY <1>1, <1>2, PropagatesKept
<1>3. CASE Returns(t) BY <1>1, <1>3, ReturnsKept
<1>4. CASE Sleeps(t, pc[t]) BY <1>1, <1>4, SleepsKept DEF Waiting
<1> QED BY <1>2, <1>3, <1>4 DEF WaitForTask, WaitForAllTasks

-----------------------------------------------------------------------------
(***************************************************************************)
(* A worker takes a task.                                                  *)
(***************************************************************************)

LEMMA BeginsKept ==
    ASSUME IInv, NEW t \in Threads, pc[t] = "seeking", t \notin asleep, Ready # {},
           Begins(t, First(Ready))
    PROVE  IInv'
<1> DEFINE i == First(Ready)
           j == tasks[i].job
<1>0. TypesOK /\ WorkersOK /\ StacksOK /\ PlacesOK /\ EptrsOK BY DEF IInv
<1>1. /\ tasks \in [Slots -> Bucket] /\ i \in Ready /\ i \in Slots /\ i \in Nat
      /\ tasks' = [tasks EXCEPT ![i].is_being_processed = TRUE]
      /\ bucket' = [bucket EXCEPT ![t] = i]
      /\ stack' = [stack EXCEPT ![t] = <<j>>]
      /\ pc' = [pc EXCEPT ![t] = "user"]
      /\ UNCHANGED <<worker_thread_ids, we_are_destructing, asleep, awaited, threw, history>>
    BY <1>0, BucketTypes, FirstSlots DEF Begins, Moves, Ready
<1> HIDE DEF i
<1>2. /\ tasks' \in [Slots -> Bucket]
      /\ \A k \in Slots \ {i} : tasks'[k] = tasks[k]
      /\ tasks'[i].is_being_processed
      /\ \A k \in Slots : /\ tasks'[k].task_id = tasks[k].task_id
                          /\ tasks'[k].job = tasks[k].job
                          /\ tasks'[k].eptr = tasks[k].eptr
    BY <1>1 DEF Bucket
<1>3. Slots' = Slots /\ Threads' = Threads BY DEF Slots, Size, Threads
<1>4. i \notin Empty /\ ~tasks[i].is_being_processed
    BY <1>1 DEF Ready, is_ready, Empty, is_empty
<1>5. Ready' = Ready \ {i} /\ Empty' = Empty /\ Failed' = Failed
    <2>1. Empty' = Empty BY <1>2, <1>3 DEF Empty, is_empty
    <2>2. Failed' = Failed BY <1>2, <1>3 DEF Failed
    <2>3. Ready' = Ready \ {i} BY <1>2, <1>3, <1>4 DEF Ready, is_ready, is_empty
    <2> QED BY <2>1, <2>2, <2>3
<1>6. t \in Workers /\ stack[t] = <<>> /\ t \notin Busy
    BY <1>0 DEF WorkersOK, Looking, Idle, Busy
<1>7. j \in Undone /\ (\A u \in Threads : j \notin Runs(u)) /\ j \in Job
    <2>1. j \in Undone /\ \A u \in Threads : j \notin Runs(u) BY <1>0, <1>1 DEF PlacesOK
    <2>2. DOMAIN jobs = 1 .. Len(jobs) /\ Len(jobs) \in Nat /\ Len(jobs) <= MaxJobs
        BY <1>0, LenProperties DEF TypesOK, TypeOK
    <2> QED BY <2>1, <2>2, JobsAssumption DEF Job, Undone
<1> HIDE DEF j
<1>8. stack \in [Threads -> Seq(Job)] /\ Undone' = Undone
    BY <1>0, <1>1 DEF TypesOK, TypeOK, Undone, history
<1>9. stack' = [stack EXCEPT ![t] = Append(stack[t], j)]
    <2>1. stack[t] \in Seq(Job) BY <1>8
    <2>2. Append(stack[t], j) = <<j>> BY <1>6, <1>7, <2>1, Push
    <2> QED BY <1>1, <2>2
<1>10. /\ StacksOK' /\ stack' \in [Threads -> Seq(Job)]
       /\ \A u \in Threads : Runs(u)' = IF u = t THEN Runs(u) \cup {j} ELSE Runs(u)
    BY <1>0, <1>7, <1>8, <1>9, StackPushed
<1>11. "user" \notin Idle /\ "user" \in Position
         /\ "user" \notin Closing /\ "user" \notin Looking /\ "user" \notin Added
    BY DEF Added, Idle, Position, Closing, Looking
<1>12. TypesOK'
    <2>1. Coming' <= MaxJobs BY <1>0, <1>1, <1>11, ComingFrame DEF history
    <2>2. /\ pc' \in [Threads -> Position]
          /\ asleep' \subseteq {u \in Threads : pc'[u] \in task_ready \cup task_done}
        BY <1>0, <1>1, <1>11, AsleepFrame
    <2>3. tasks' \in [Slots -> Bucket]' BY <1>2, <1>3 DEF Bucket
    <2>4. TypeOK'
        BY <1>0, <1>1, <1>3, <1>10, <2>2, <2>3 DEF TypesOK, TypeOK, Bucket, history, Job
    <2>5. bucket' \in [Workers -> Nat] BY <1>0, <1>1 DEF TypesOK
    <2>6. (jobs \in Seq(JobRecord))' BY <1>0, <1>1, <1>3 DEF TypesOK, JobRecord, history, Job
    <2> QED BY <2>1, <2>3, <2>4, <2>5, <2>6 DEF TypesOK
<1>13. WorkersOK'
    <2>1. stack'[t] = <<j>> /\ <<j>> # <<>> /\ <<j>>[1] = j BY <1>1, <1>8
    <2>2. \A u \in Threads \ {t} : stack'[u] = stack[u] /\ pc'[u] = pc[u]
        BY <1>0, <1>1, <1>8 DEF TypesOK, TypeOK
    <2>3. pc'[t] = "user" BY <1>0, <1>1 DEF TypesOK, TypeOK
    <2>4. Workers \subseteq Threads BY DEF Threads
    <2>5. Busy' = Busy \cup {t} BY <1>6, <2>1, <2>2, <2>4 DEF Busy
    <2>6. bucket'[t] = i /\ \A w \in Workers \ {t} : bucket'[w] = bucket[w]
        BY <1>0, <1>1, <1>6 DEF TypesOK
    <2>7. \A w \in Busy : bucket[w] # i BY <1>0, <1>4 DEF WorkersOK
    <2>8. \A w \in Workers : /\ stack'[w] = <<>> <=> pc'[w] \in Idle
                             /\ pc'[w] = "gone" => we_are_destructing'
                             /\ pc'[w] \notin Closing
        BY <1>0, <1>1, <1>11, <2>1, <2>2, <2>3, <2>4 DEF WorkersOK, Idle
    <2>9. \A u \in Threads : pc'[u] \in Looking => u \in Workers
        BY <1>0, <1>6, <2>2 DEF WorkersOK
    <2>10. \A w \in Busy' : /\ bucket'[w] \in Slots' \ Empty'
                            /\ tasks'[bucket'[w]].is_being_processed
                            /\ tasks'[bucket'[w]].job = stack'[w][1]
        <3>1. ASSUME NEW w \in Busy
              PROVE  /\ bucket'[w] = bucket[w] /\ bucket[w] \in Slots \ {i} /\ stack'[w] = stack[w]
            BY <1>0, <1>6, <2>2, <2>4, <2>6, <2>7, <3>1 DEF WorkersOK, Busy
        <3>2. ASSUME NEW w \in Busy
              PROVE  /\ bucket'[w] \in Slots' \ Empty'
                     /\ tasks'[bucket'[w]].is_being_processed
                     /\ tasks'[bucket'[w]].job = stack'[w][1]
            BY <1>0, <1>2, <1>3, <1>5, <3>1, <3>2 DEF WorkersOK
        <3>3. /\ bucket'[t] \in Slots' \ Empty'
              /\ tasks'[bucket'[t]].is_being_processed
              /\ tasks'[bucket'[t]].job = stack'[t][1]
            BY <1>1, <1>2, <1>3, <1>4, <1>5, <2>1, <2>6 DEF j
        <3> QED BY <2>5, <3>2, <3>3
    <2>11. \A w, v \in Busy' : bucket'[w] = bucket'[v] => w = v
        BY <1>0, <1>6, <2>5, <2>6, <2>7 DEF WorkersOK, Busy
    <2>12. \A k \in Slots' : tasks'[k].is_being_processed => \E w \in Busy' : bucket'[w] = k
        <3> SUFFICES ASSUME NEW k \in Slots, tasks'[k].is_being_processed
                     PROVE  \E w \in Busy' : bucket'[w] = k
            BY <1>3
        <3>1. CASE k = i BY <2>5, <2>6, <3>1
        <3>2. CASE k # i
            <4>1. PICK w \in Busy : bucket[w] = k BY <1>0, <1>2, <3>2 DEF WorkersOK
            <4> QED BY <1>6, <2>5, <2>6, <4>1 DEF Busy
        <3> QED BY <3>1, <3>2
    <2> QED BY <2>8, <2>9, <2>10, <2>11, <2>12 DEF WorkersOK
<1>14. PlacesOK'
    <2>1. /\ \A k \in Ready' : /\ tasks'[k].job \in Undone'
                               /\ \A u \in Threads : tasks'[k].job \notin Runs(u)'
          /\ \A k, l \in Ready' : tasks'[k].job = tasks'[l].job => k = l
        <3>1. \A k \in Ready \ {i} : tasks'[k].job = tasks[k].job /\ tasks[k].job # j
            BY <1>0, <1>1, <1>2 DEF PlacesOK, Ready, j
        <3>2. ASSUME NEW k \in Ready'
              PROVE  /\ tasks'[k].job = tasks[k].job /\ tasks[k].job # j
                     /\ tasks[k].job \in Undone /\ \A u \in Threads : tasks[k].job \notin Runs(u)
            BY <1>0, <1>5, <3>1, <3>2 DEF PlacesOK
        <3>3. \A k \in Ready' : /\ tasks'[k].job \in Undone'
                                /\ \A u \in Threads : tasks'[k].job \notin Runs(u)'
            BY <1>8, <1>10, <3>2
        <3>4. \A k, l \in Ready' : tasks'[k].job = tasks'[l].job => k = l
            BY <1>0, <1>5, <3>1 DEF PlacesOK
        <3> QED BY <3>3, <3>4
    <2>2. \A k \in Undone' : \/ \E l \in Ready' : tasks'[l].job = k
                             \/ \E u \in Threads : k \in Runs(u)'
        <3> TAKE k \in Undone'
        <3>1. CASE k = j BY <1>10, <3>1
        <3>2. CASE k # j
            <4>1. k \in Undone BY <1>8
            <4>2. \A u \in Threads : Runs(u) \subseteq Runs(u)' BY <1>10
            <4>3. \A l \in Ready : tasks[l].job = k => l \in Ready' /\ tasks'[l].job = k
                BY <1>2, <1>5, <3>2 DEF j, Ready
            <4> QED BY <1>0, <4>1, <4>2, <4>3 DEF PlacesOK
        <3> QED BY <3>1, <3>2
    <2> QED BY <1>3, <2>1, <2>2 DEF PlacesOK
<1>15. EptrsOK'
    <2>1. \A k \in Failed : tasks'[k].eptr = tasks[k].eptr BY <1>2 DEF Failed
    <2>2. raised' \ caught' = {tasks'[k].eptr : k \in Failed'}
        BY <1>0, <1>1, <1>5, <2>1 DEF EptrsOK, ExceptionsReachOneCaller, history
    <2> QED BY <1>0, <1>5, <2>1, <2>2 DEF EptrsOK, ExceptionsReachOneCaller
<1> QED BY <1>10, <1>12, <1>13, <1>14, <1>15 DEF IInv

LEMMA SeekKept == ASSUME IInv, NEW t \in Threads, Seek(t) PROVE IInv'
<1>0. /\ awaited \in [Threads -> Nat] /\ threw \in [Threads -> BOOLEAN]
      /\ worker_thread_ids \subseteq Workers
    BY DEF IInv, TypesOK, TypeOK
<1>1. pc[t] = "seeking" /\ t \notin asleep BY DEF Seek
<1>2. CASE we_are_destructing
    <2>1. /\ Moves(t, "gone")
          /\ UNCHANGED <<pool, asleep, stack, bucket, awaited, threw, history>>
        BY <1>2 DEF Seek
    <2> QED BY <1>0, <1>1, <1>2, <2>1, MovesKept DEF pool
<1>3. CASE Ready # {} /\ Begins(t, First(Ready)) BY <1>1, <1>3, BeginsKept
<1>4. CASE Sleeps(t, "seeking") BY <1>1, <1>4, SleepsKept
<1> QED BY <1>2, <1>3, <1>4 DEF Seek

-----------------------------------------------------------------------------
(***************************************************************************)
(* A task ends.                                                            *)
(***************************************************************************)

\* What ends is the innermost task of one stack.
LEMMA EndsFacts ==
    ASSUME IInv, NEW t \in Threads, NEW throws \in BOOLEAN, Ends(t, throws)
    PROVE  LET j == stack[t][Len(stack[t])]
           IN  /\ StacksOK' /\ stack' \in [Threads -> Seq(Job)]
               /\ stack'[t] = SubSeq(stack[t], 1, Len(stack[t]) - 1)
               /\ \A u \in Threads \ {t} : stack'[u] = stack[u]
               /\ j \in Runs(t) /\ j \in Undone /\ Undone' = Undone \ {j}
               /\ \A u \in Threads : Runs(u)' = Runs(u) \ {j}
               /\ stack[t] \in Seq(Job) /\ stack[t] # <<>> /\ NoRepeat(stack[t])
               /\ raised' = IF throws THEN raised \cup {j} ELSE raised
               /\ done' = done \cup {j}
               /\ j \notin raised /\ j \notin caught
               /\ raised' \subseteq done' /\ done' \subseteq DOMAIN jobs
<1> DEFINE j == stack[t][Len(stack[t])]
<1>0. TypesOK /\ StacksOK BY DEF IInv
<1>1. /\ stack[t] # <<>> /\ done' = done \cup {j}
      /\ raised' = IF throws THEN raised \cup {j} ELSE raised
      /\ stack' = [stack EXCEPT ![t] = SubSeq(stack[t], 1, Len(stack[t]) - 1)]
      /\ jobs' = jobs
    BY DEF Ends
<1>2. stack \in [Threads -> Seq(Job)] BY <1>0 DEF TypesOK, TypeOK
<1>3. Undone' = Undone \ {j} BY <1>1 DEF Undone
<1>4. /\ StacksOK' /\ stack' \in [Threads -> Seq(Job)]
      /\ j \in Runs(t) /\ j \in Undone
      /\ \A u \in Threads : Runs(u)' = Runs(u) \ {j}
    BY <1>0, <1>1, <1>2, <1>3, StackPopped
<1>5. /\ stack'[t] = SubSeq(stack[t], 1, Len(stack[t]) - 1)
      /\ \A u \in Threads \ {t} : stack'[u] = stack[u]
      /\ stack[t] \in Seq(Job)
    BY <1>1, <1>2
<1>6. NoRepeat(stack[t]) BY <1>0 DEF StacksOK
<1> HIDE DEF j
<1>7. j \notin raised /\ j \notin caught /\ raised' \subseteq done' /\ done' \subseteq DOMAIN jobs
    BY <1>0, <1>1, <1>4 DEF TypesOK, TypeOK, Undone
<1> QED BY <1>1, <1>3, <1>4, <1>5, <1>6, <1>7 DEF j

\* The places of the other tasks.
LEMMA EndsPlaces ==
    ASSUME PlacesOK, NEW t \in Threads, NEW j, j \in Runs(t), Undone' = Undone \ {j},
           \A u \in Threads : Runs(u)' = Runs(u) \ {j},
           Ready' = Ready, \A k \in Ready : tasks'[k].job = tasks[k].job
    PROVE  PlacesOK'
<1>1. \A k \in Ready : tasks[k].job # j BY DEF PlacesOK
<1>2. \A k \in Ready' : /\ tasks'[k].job \in Undone'
                        /\ \A u \in Threads : tasks'[k].job \notin Runs(u)'
                        /\ \A l \in Ready' : tasks'[k].job = tasks'[l].job => k = l
    BY <1>1 DEF PlacesOK
<1>3. \A k \in Undone' : \/ \E l \in Ready' : tasks'[l].job = k
                         \/ \E u \in Threads : k \in Runs(u)'
    BY DEF PlacesOK
<1> QED BY <1>2, <1>3 DEF PlacesOK

LEMMA EndTaskKept ==
    ASSUME IInv, NEW t \in Threads, NEW throws \in BOOLEAN, EndTask(t, throws)
    PROVE  IInv'
<1> DEFINE j == stack[t][Len(stack[t])]
           i == bucket[t]
<1>0. TypesOK /\ WorkersOK /\ StacksOK /\ PlacesOK /\ EptrsOK BY DEF IInv
<1>1. /\ Ends(t, throws) /\ pc[t] = "user" /\ t \in Workers /\ Len(stack[t]) = 1
      /\ j = stack[t][1]
      /\ tasks' = [tasks EXCEPT ![i].is_being_processed = FALSE, ![i].task_id = 0,
                                ![i].job = 0, ![i].eptr = IF throws THEN j ELSE 0]
      /\ asleep' \subseteq asleep
      /\ pc' = [pc EXCEPT ![t] = "seeking"]
      /\ UNCHANGED <<threw, caught, worker_thread_ids, we_are_destructing, bucket, awaited, jobs>>
    BY DEF EndTask, Ends, Moves
<1>2. /\ StacksOK' /\ stack' \in [Threads -> Seq(Job)]
      /\ stack'[t] = SubSeq(stack[t], 1, Len(stack[t]) - 1)
      /\ \A u \in Threads \ {t} : stack'[u] = stack[u]
      /\ j \in Runs(t) /\ j \in Undone /\ Undone' = Undone \ {j}
      /\ \A u \in Threads : Runs(u)' = Runs(u) \ {j}
      /\ stack[t] \in Seq(Job) /\ stack[t] # <<>> /\ NoRepeat(stack[t])
      /\ raised' = IF throws THEN raised \cup {j} ELSE raised
      /\ j \notin raised /\ j \notin caught
      /\ raised' \subseteq done' /\ done' \subseteq DOMAIN jobs
    BY <1>1, EndsFacts
<1>3. stack'[t] = <<>> BY <1>1, <1>2, Pop
<1>4. t \in Busy /\ i \in Slots \ Empty /\ tasks[i].is_being_processed
    BY <1>0, <1>1, <1>2 DEF WorkersOK, Busy
<1>5. Slots' = Slots /\ Threads' = Threads BY DEF Slots, Size, Threads
<1>6. j \in Job /\ j # 0 /\ j \in 0 .. MaxJobs
    <2>1. j \in Job BY <1>1, <1>2, ElementOfSeq
    <2> QED BY <2>1, JobsAssumption DEF Job
<1> HIDE DEF j, i
<1>7. /\ tasks' \in [Slots -> Bucket]
      /\ \A k \in Slots \ {i} : tasks'[k] = tasks[k]
      /\ ~tasks'[i].is_being_processed /\ tasks'[i].task_id = 0
      /\ tasks'[i].eptr = IF throws THEN j ELSE 0
    <2> DEFINE e == IF throws THEN j ELSE 0
    <2>1. tasks \in [Slots -> Bucket] /\ tasks[i] \in Bucket /\ 0 \in 0 .. MaxJobs
        BY <1>0, <1>4, JobsAssumption DEF TypesOK
    <2>6. e \in 0 .. MaxJobs BY <1>6, <2>1
    <2>2. tasks'[i] = [tasks[i] EXCEPT !.is_being_processed = FALSE, !.task_id = 0,
                                       !.job = 0, !.eptr = e]
        BY <1>1, <1>4, <2>1 DEF Bucket
    <2> HIDE DEF e
    <2>3. tasks'[i] \in Bucket
        <3> DEFINE x == tasks[i].thread_id
                   n == tasks[i].next_task_id
        <3>1. x \in Threads \cup {{}} /\ n \in Nat \ {0, 1} BY <2>1 DEF Bucket
        <3>2. tasks'[i] = [is_being_processed |-> FALSE, task_id |-> 0, thread_id |-> x,
                           next_task_id |-> n, job |-> 0, eptr |-> e]
            BY <2>1, <2>2 DEF Bucket
        <3> HIDE DEF x, n
        <3> QED BY <2>1, <2>6, <3>1, <3>2 DEF Bucket
    <2>4. \A k \in Slots \ {i} : tasks'[k] = tasks[k] BY <1>1, <2>1
    <2>5. tasks' \in [Slots -> Bucket] BY <1>1, <2>1, <2>3, <2>4
    <2> QED BY <2>1, <2>2, <2>4, <2>5 DEF Bucket, e
<1>8. Ready' = Ready /\ i \notin Ready
    <2>1. i \notin Ready BY <1>4 DEF Ready, is_ready
    <2> QED BY <1>4, <1>5, <1>7, <2>1 DEF Ready, is_ready, is_empty
<1>9. Empty' = Empty \cup {i} BY <1>4, <1>5, <1>7 DEF Empty, is_empty
<1>10. i \notin Failed BY <1>0, <1>4 DEF EptrsOK
<1>11. Failed' = IF throws THEN Failed \cup {i} ELSE Failed
    BY <1>4, <1>5, <1>6, <1>7, <1>10 DEF Failed
<1>12. "seeking" \in Idle /\ "seeking" \in Position /\ "seeking" \notin Closing
          /\ "seeking" \notin Added /\ "seeking" # "gone"
          /\ "seeking" \in task_ready \cup task_done
    BY DEF Added, Idle, Position, Closing, task_ready
<1>13. TypesOK'
    <2>1. Coming' <= MaxJobs BY <1>0, <1>1, <1>12, ComingFrame
    <2>2. /\ pc' \in [Threads -> Position]
          /\ asleep' \subseteq {u \in Threads : pc'[u] \in task_ready \cup task_done}
        BY <1>0, <1>1, <1>12, AsleepFrame
    <2>3. tasks' \in [Slots -> Bucket]' BY <1>5, <1>7 DEF Bucket
    <2>4. caught' \subseteq raised' BY <1>0, <1>1, <1>2 DEF TypesOK, TypeOK
    <2>5. TypeOK'
        BY <1>0, <1>1, <1>2, <1>5, <2>2, <2>3, <2>4 DEF TypesOK, TypeOK, Bucket, Job
    <2>6. bucket' \in [Workers -> Nat] BY <1>0, <1>1 DEF TypesOK
    <2>7. (jobs \in Seq(JobRecord))' BY <1>0, <1>1, <1>5 DEF TypesOK, JobRecord, Job
    <2> QED BY <2>1, <2>3, <2>5, <2>6, <2>7 DEF TypesOK
<1>14. WorkersOK'
    <2>1. Workers \subseteq Threads BY DEF Threads
    <2>2. \A u \in Threads \ {t} : pc'[u] = pc[u] /\ stack'[u] = stack[u]
        BY <1>0, <1>1, <1>2 DEF TypesOK, TypeOK
    <2>3. pc'[t] = "seeking" BY <1>0, <1>1 DEF TypesOK, TypeOK
    <2>4. Busy' = Busy \ {t} BY <1>3, <2>1, <2>2 DEF Busy
    <2>5. \A w \in Workers : /\ stack'[w] = <<>> <=> pc'[w] \in Idle
                             /\ pc'[w] = "gone" => we_are_destructing'
                             /\ pc'[w] \notin Closing
        BY <1>0, <1>1, <1>3, <1>12, <2>1, <2>2, <2>3 DEF WorkersOK
    <2>6. \A u \in Threads : pc'[u] \in Looking => u \in Workers
        BY <1>0, <1>1, <2>2 DEF WorkersOK
    <2>7. \A w \in Busy' : /\ w \in Busy /\ bucket[w] # i /\ bucket[w] \in Slots
                           /\ stack'[w] = stack[w]
        BY <1>0, <1>4, <2>1, <2>2, <2>4 DEF WorkersOK, Busy, i
    <2>8. \A w \in Busy' : /\ bucket'[w] \in Slots' \ Empty'
                           /\ tasks'[bucket'[w]].is_being_processed
                           /\ tasks'[bucket'[w]].job = stack'[w][1]
        BY <1>0, <1>1, <1>5, <1>7, <1>9, <2>7 DEF WorkersOK
    <2>9. \A w, v \in Busy' : bucket'[w] = bucket'[v] => w = v
        BY <1>0, <1>1, <2>4 DEF WorkersOK
    <2>10. \A k \in Slots' : tasks'[k].is_being_processed => \E w \in Busy' : bucket'[w] = k
        <3> SUFFICES ASSUME NEW k \in Slots, tasks'[k].is_being_processed
                     PROVE  \E w \in Busy' : bucket'[w] = k
            BY <1>5
        <3>1. k # i BY <1>7
        <3>2. PICK w \in Busy : bucket[w] = k BY <1>0, <1>7, <3>1 DEF WorkersOK
        <3> QED BY <1>1, <2>4, <3>1, <3>2 DEF i
    <2> QED BY <2>5, <2>6, <2>8, <2>9, <2>10 DEF WorkersOK
<1>15. PlacesOK'
    <2>1. \A k \in Ready : tasks'[k].job = tasks[k].job BY <1>7, <1>8 DEF Ready
    <2> QED BY <1>0, <1>2, <1>8, <2>1, EndsPlaces
<1>16. EptrsOK'
    <2>1. raised \ caught = {tasks[k].eptr : k \in Failed}
             /\ \A k, l \in Failed : tasks[k].eptr = tasks[l].eptr => k = l
        BY <1>0 DEF EptrsOK, ExceptionsReachOneCaller
    <2>2. \A k \in Failed : tasks'[k].eptr = tasks[k].eptr /\ tasks[k].eptr # j
        BY <1>2, <1>7, <1>10, <2>1 DEF Failed
    <2>3. raised' \ caught' = IF throws THEN (raised \ caught) \cup {j} ELSE raised \ caught
        BY <1>1, <1>2
    <2>4. raised' \ caught' = {tasks'[k].eptr : k \in Failed'}
        <3>1. CASE throws BY <1>7, <1>11, <2>1, <2>2, <2>3, <3>1
        <3>2. CASE ~throws BY <1>11, <2>1, <2>2, <2>3, <3>2
        <3> QED BY <3>1, <3>2
    <2>5. \A k, l \in Failed' : tasks'[k].eptr = tasks'[l].eptr => k = l
        BY <1>7, <1>11, <2>1, <2>2
    <2>6. Failed' \subseteq Empty' BY <1>0, <1>9, <1>11 DEF EptrsOK
    <2> QED BY <2>4, <2>5, <2>6 DEF EptrsOK, ExceptionsReachOneCaller
<1> QED BY <1>2, <1>13, <1>14, <1>15, <1>16 DEF IInv

LEMMA EndOwnTaskKept ==
    ASSUME IInv, NEW t \in Threads, NEW throws \in BOOLEAN, EndOwnTask(t, throws)
    PROVE  IInv'
<1> DEFINE j == stack[t][Len(stack[t])]
<1>0. TypesOK /\ WorkersOK /\ StacksOK /\ PlacesOK /\ EptrsOK BY DEF IInv
<1>1. /\ Ends(t, throws) /\ (t \in Workers => Len(stack[t]) > 1)
      /\ threw' = [threw EXCEPT ![t] = throws]
      /\ caught' = caught \cup (raised' \ raised)
      /\ UNCHANGED <<tasks, asleep, pc, worker_thread_ids, we_are_destructing, bucket, awaited, jobs>>
    BY DEF EndOwnTask, Ends
<1>2. /\ StacksOK' /\ stack' \in [Threads -> Seq(Job)]
      /\ stack'[t] = SubSeq(stack[t], 1, Len(stack[t]) - 1)
      /\ \A u \in Threads \ {t} : stack'[u] = stack[u]
      /\ j \in Runs(t) /\ Undone' = Undone \ {j}
      /\ \A u \in Threads : Runs(u)' = Runs(u) \ {j}
      /\ stack[t] \in Seq(Job) /\ stack[t] # <<>> /\ NoRepeat(stack[t])
      /\ raised' = IF throws THEN raised \cup {j} ELSE raised
      /\ j \notin raised /\ j \notin caught
      /\ raised' \subseteq done' /\ done' \subseteq DOMAIN jobs
    BY <1>1, EndsFacts
<1>3. t \in Workers => /\ stack'[t] # <<>> /\ stack'[t][1] = stack[t][1]
    <2>1. Len(stack[t]) # 1 => stack'[t] # <<>> /\ stack'[t][1] = stack[t][1]
        BY <1>2, Pop
    <2>2. Len(stack[t]) > 1 => Len(stack[t]) # 1 BY <1>2, LenProperties
    <2> QED BY <1>1, <2>1, <2>2
<1> HIDE DEF j
<1>4. /\ Slots' = Slots /\ Ready' = Ready /\ Empty' = Empty /\ Failed' = Failed
      /\ Threads' = Threads /\ Job' = Job /\ Bucket' = Bucket /\ JobRecord' = JobRecord
    BY <1>1, SameBuckets
<1>5. TypesOK'
    <2>1. Coming' = Coming BY <1>1, <1>4 DEF Coming
    <2>2. caught' \subseteq raised' BY <1>0, <1>1, <1>2 DEF TypesOK, TypeOK
    <2>3. threw' \in [Threads -> BOOLEAN] BY <1>0, <1>1 DEF TypesOK, TypeOK
    <2> QED BY <1>0, <1>1, <1>2, <1>4, <2>1, <2>2, <2>3 DEF TypesOK, TypeOK
<1>6. WorkersOK'
    <2>1. \A w \in Workers : /\ stack'[w] = <<>> <=> stack[w] = <<>>
                             /\ stack[w] # <<>> => stack'[w][1] = stack[w][1]
        BY <1>2, <1>3 DEF Threads
    <2>2. Busy' = Busy BY <2>1 DEF Busy
    <2>3. \A w \in Busy : stack'[w][1] = stack[w][1] BY <2>1 DEF Busy
    <2> QED BY <1>0, <1>1, <1>4, <2>1, <2>2, <2>3 DEF WorkersOK
<1>7. PlacesOK' BY <1>0, <1>1, <1>2, <1>4, EndsPlaces
<1>8. EptrsOK'
    <2>1. raised' \ caught' = raised \ caught BY <1>1, <1>2
    <2> QED BY <1>0, <1>1, <1>4, <2>1 DEF EptrsOK, ExceptionsReachOneCaller
<1> QED BY <1>2, <1>5, <1>6, <1>7, <1>8 DEF IInv

-----------------------------------------------------------------------------
(***************************************************************************)
(* The invariant.                                                          *)
(***************************************************************************)

LEMMA InitInv == Init => IInv
<1> SUFFICES ASSUME Init PROVE IInv OBVIOUS
<1>0. /\ Undone = {} /\ Failed = {} /\ Ready = {}
      /\ \A t \in Threads : stack[t] = <<>> /\ Runs(t) = {}
      /\ Busy = {}
    BY DEF Init, Undone, Failed, Ready, is_ready, is_empty, Runs, Elements, Busy, Threads
<1>1. \A t \in Threads : pc[t] = IF t \in Workers THEN "starting" ELSE "user" BY DEF Init
<1>2. TypesOK
    <2>1. pc \in [Threads -> Position] BY DEF Init, Position
    <2>2. tasks \in [Slots -> Bucket] /\ TypeOK
        <3>1. MaxJobs \in Nat /\ 0 \in 0 .. MaxJobs BY JobsAssumption
        <3>2. tasks \in [Slots -> Bucket] BY <3>1 DEF Init, Bucket
        <3>3. <<>> \in Seq(Job) /\ Len(jobs) <= MaxJobs BY <3>1 DEF Init
        <3> QED BY <2>1, <3>1, <3>2, <3>3 DEF Init, TypeOK, Bucket
    <2>3. Coming <= MaxJobs
        <3>1. {t \in Threads : pc[t] \in Added} = {} BY <1>1 DEF Added
        <3>2. Cardinality({t \in Threads : pc[t] \in Added}) = 0 BY <3>1, FS_EmptySet, Zenon
        <3>3. Len(jobs) = 0 BY DEF Init
        <3>4. Coming = 0 + 0 BY <3>2, <3>3 DEF Coming
        <3> QED BY <3>4, JobsAssumption
    <2> QED BY <2>2, <2>3 DEF Init, TypesOK
<1>3. WorkersOK
    BY <1>0, <1>1 DEF Init, WorkersOK, Threads, Idle, Closing, Looking
<1>4. StacksOK BY <1>0 DEF StacksOK, NoRepeat
<1>5. PlacesOK BY <1>0 DEF PlacesOK
<1>6. EptrsOK BY <1>0 DEF Init, EptrsOK, ExceptionsReachOneCaller
<1> QED BY <1>2, <1>3, <1>4, <1>5, <1>6 DEF IInv

LEMMA InvKept == IInv /\ [Next]_vars => IInv'
<1> SUFFICES ASSUME IInv, [Next]_vars PROVE IInv' OBVIOUS
<1>1. ASSUME NEW t \in Threads,
             CallAddTask(t) \/ CallWaitForTask(t) \/ CallWaitForAllTasks(t) \/ CallShutdown(t)
      PROVE  IInv'
    BY <1>1, CallsKept
<1>2. ASSUME NEW t \in Threads, PoolStep(t) PROVE IInv'
    <2>1. CASE AddTask(t) \/ AddingAwake(t) BY <2>1, AddsKept
    <2>2. CASE WaitForTask(t) \/ WaitForAllTasks(t) BY <2>2, WaitsKept
    <2>3. CASE Seek(t) BY <2>3, SeekKept
    <2>4. CASE Start(t) \/ Shutdown(t) \/ Join(t) BY <2>4, StillKept
    <2> QED BY <1>2, <2>1, <2>2, <2>3, <2>4 DEF PoolStep
<1>3. ASSUME NEW t \in Threads, TaskEnds(t) PROVE IInv'
    BY <1>3, EndTaskKept, EndOwnTaskKept DEF TaskEnds
<1>4. ASSUME NEW t \in Threads, SpuriousWakeup(t) PROVE IInv' BY <1>4, StillKept
<1>5. CASE UNCHANGED vars
    <2>1. UNCHANGED <<tasks, worker_thread_ids, we_are_destructing, pc, asleep, stack, bucket,
                      awaited, threw, jobs, done, raised, caught>>
        BY <1>5 DEF vars, pool, history
    <2>2. TypesOK' BY <2>1, SameBuckets DEF IInv, TypesOK, TypeOK, Coming
    <2>3. WorkersOK' BY <2>1, SameBuckets DEF IInv, WorkersOK, Busy
    <2>4. StacksOK' /\ PlacesOK'
        BY <2>1, SameBuckets DEF IInv, StacksOK, PlacesOK, Runs, Undone
    <2>5. EptrsOK' BY <2>1, SameBuckets DEF IInv, EptrsOK, ExceptionsReachOneCaller
    <2> QED BY <2>2, <2>3, <2>4, <2>5 DEF IInv
<1> QED BY <1>1, <1>2, <1>3, <1>4, <1>5 DEF Next

LEMMA Invariant == Spec => []IInv
BY InitInv, InvKept, PTL DEF Spec

\* The state stays well formed: buckets hold tasks and exceptions of tasks that were
\* added, and only who waits in a member sleeps.
THEOREM TypeCorrect == Spec => []TypeOK
<1>1. IInv => TypeOK BY DEF IInv, TypesOK
<1> QED BY <1>1, Invariant, PTL

\* Every task that was added is run once, by one thread, however the tasks are nested
\* and whichever worker or caller runs them.
THEOREM TasksOnce == Spec => []TasksRunOnce
<1>1. ASSUME IInv PROVE TasksRunOnce
    <2> SUFFICES ASSUME NEW j \in DOMAIN jobs
                 PROVE  Cardinality({i \in Ready : tasks[i].job = j})
                           + Cardinality({t \in Threads : j \in Runs(t)})
                              = IF j \in done THEN 0 ELSE 1
        BY DEF TasksRunOnce, Runs, Elements
    <2> DEFINE A == {i \in Ready : tasks[i].job = j}
               B == {t \in Threads : j \in Runs(t)}
    <2>1. CASE j \in done
        <3>1. A = {} /\ B = {} BY <1>1, <2>1 DEF IInv, PlacesOK, StacksOK, Undone
        <3>2. Cardinality(A) = 0 /\ Cardinality(B) = 0 BY <3>1, FS_EmptySet
        <3> HIDE DEF A, B
        <3>3. Cardinality(A) + Cardinality(B) = 0 BY <3>2
        <3> QED BY <2>1, <3>3 DEF A, B
    <2>2. CASE j \notin done
        <3>1. j \in Undone BY <2>2 DEF Undone
        <3>2. CASE \E i \in Ready : tasks[i].job = j
            <4>1. PICK i \in Ready : tasks[i].job = j BY <3>2
            <4>2. A = {i} /\ B = {} BY <1>1, <4>1 DEF IInv, PlacesOK
            <4>3. Cardinality(A) = 1 /\ Cardinality(B) = 0 BY <4>2, FS_EmptySet, FS_Singleton
            <4> HIDE DEF A, B
            <4>4. Cardinality(A) + Cardinality(B) = 1 BY <4>3
            <4> QED BY <2>2, <4>4 DEF A, B
        <3>3. CASE \E t \in Threads : j \in Runs(t)
            <4>1. PICK t \in Threads : j \in Runs(t) BY <3>3
            <4>2. A = {} BY <1>1, <4>1 DEF IInv, PlacesOK
            <4>3. B = {t} BY <1>1, <4>1 DEF IInv, StacksOK
            <4>4. Cardinality(A) = 0 /\ Cardinality(B) = 1
                BY <4>2, <4>3, FS_EmptySet, FS_Singleton
            <4> HIDE DEF A, B
            <4>5. Cardinality(A) + Cardinality(B) = 1 BY <4>4
            <4> QED BY <2>2, <4>5 DEF A, B
        <3> QED BY <1>1, <3>1, <3>2, <3>3 DEF IInv, PlacesOK
    <2> QED BY <2>1, <2>2
<1> QED BY <1>1, Invariant, PTL

\* An exception that left a task lies in one bucket until one caller of the pool gets
\* it: it is neither lost under the next task's nor thrown twice.
THEOREM ExceptionsOnce == Spec => []ExceptionsReachOneCaller
<1>1. IInv => ExceptionsReachOneCaller BY DEF IInv, EptrsOK
<1> QED BY <1>1, Invariant, PTL

-----------------------------------------------------------------------------
(***************************************************************************)
(* Waits end in time: a task that is not done and was not run by add_task  *)
(* itself is in the bucket its id leads to, as the thread's that added it. *)
(***************************************************************************)

Holds(i, j) == /\ tasks[i].job = j
               /\ tasks[i].task_id = jobs[j].id
               /\ tasks[i].thread_id = jobs[j].thread
IdsOK ==
    /\ \A i \in Slots \ Empty : tasks[i].task_id % Size = i
    /\ \A j \in Undone : jobs[j].id # 1 => \E i \in Slots \ Empty : Holds(i, j)

\* While the owner is closing the pool no client uses it.
ClosingOK ==
    \A c, d \in Clients :
       pc[c] \in Closing => stack[d] = <<>> /\ pc[d] \in {"user", "gone", "aborted"} \cup Closing

TimeInv == IdsOK /\ ClosingOK

\* A step that leaves the tasks in their buckets.
LEMMA IdsFrame ==
    ASSUME IdsOK, jobs' = jobs, Undone' \subseteq Undone,
           \A i \in Slots : /\ tasks'[i].task_id = tasks[i].task_id
                            /\ tasks'[i].job = tasks[i].job
                            /\ tasks'[i].thread_id = tasks[i].thread_id
    PROVE  IdsOK'
<1>1. Slots' = Slots /\ Size' = Size BY DEF Slots, Size
<1>2. Empty' = Empty BY <1>1 DEF Empty, is_empty
<1>3. \A i \in Slots' \ Empty' : tasks'[i].task_id % Size' = i BY <1>1, <1>2 DEF IdsOK
<1>4. \A j \in Undone' : jobs'[j].id # 1 => \E i \in Slots' \ Empty' : Holds(i, j)'
    <2> SUFFICES ASSUME NEW j \in Undone', jobs'[j].id # 1
                 PROVE  \E i \in Slots' \ Empty' : Holds(i, j)'
        OBVIOUS
    <2>1. PICK i \in Slots \ Empty : Holds(i, j) BY DEF IdsOK
    <2> QED BY <1>1, <1>2, <2>1 DEF Holds
<1> QED BY <1>3, <1>4 DEF IdsOK

LEMMA IdsPlaced ==
    ASSUME IInv, IdsOK, NEW t \in Threads, pc[t] \in Added, Places(t)
    PROVE  IdsOK'
<1> DEFINE i  == First(Empty)
           id == make_next_task_id(i)
           j  == Len(jobs) + 1
<1>0. TypesOK BY DEF IInv
<1>1. /\ tasks \in [Slots -> Bucket] /\ i \in Empty /\ i \in Slots /\ i \in Nat
      /\ tasks' = [tasks EXCEPT ![i].thread_id = t, ![i].task_id = id,
                                ![i].next_task_id = @ + 1, ![i].job = j]
      /\ jobs' = NewJob(t, id)
      /\ pc' = [pc EXCEPT ![t] = "user"]
      /\ done' = done
    BY <1>0, BucketTypes, FirstSlots DEF Places, Moves, Empty
<1> HIDE DEF i
<1>2. id \in Nat /\ id > 1 /\ id % Size = i
    <2>1. tasks[i].next_task_id \in Nat \ {0, 1} BY <1>1 DEF Bucket
    <2>2. i \in 0 .. Size - 1 BY <1>1 DEF Slots
    <2> QED BY <2>1, <2>2, SizeNat, Ids DEF make_next_task_id
<1> HIDE DEF id
<1>3. j <= MaxJobs
    <2>1. Len(jobs') = Len(jobs) + 1 BY <1>0, <1>1 DEF NewJob, TypesOK
    <2>2. "user" \notin Added BY DEF Added
    <2> QED BY <1>0, <1>1, <2>1, <2>2, ComingFrame
<1>4. /\ j \notin DOMAIN jobs /\ Undone' = Undone \cup {j}
      /\ \A k \in DOMAIN jobs : jobs'[k] = jobs[k]
      /\ jobs'[j].id = id /\ jobs'[j].thread = t
    BY <1>0, <1>1, <1>2, <1>3, NewJobFacts
<1> HIDE DEF j
<1>5. /\ \A k \in Slots \ {i} : tasks'[k] = tasks[k]
      /\ tasks'[i].job = j /\ tasks'[i].task_id = id /\ tasks'[i].thread_id = t
    BY <1>1 DEF Bucket
<1>6. Slots' = Slots /\ Size' = Size BY DEF Slots, Size
<1>7. Empty' = Empty \ {i} BY <1>1, <1>2, <1>5, <1>6 DEF Empty, is_empty
<1>8. \A k \in Slots' \ Empty' : tasks'[k].task_id % Size' = k
    BY <1>2, <1>5, <1>6, <1>7 DEF IdsOK
<1>9. \A k \in Undone' : jobs'[k].id # 1 => \E l \in Slots' \ Empty' : Holds(l, k)'
    <2> SUFFICES ASSUME NEW k \in Undone', jobs'[k].id # 1
                 PROVE  \E l \in Slots' \ Empty' : Holds(l, k)'
        OBVIOUS
    <2>1. CASE k = j BY <1>1, <1>4, <1>5, <1>6, <1>7, <2>1 DEF Holds
    <2>2. CASE k # j
        <3>1. k \in Undone /\ jobs'[k] = jobs[k] BY <1>4, <2>2 DEF Undone
        <3>2. PICK l \in Slots \ Empty : Holds(l, k) BY <3>1 DEF IdsOK
        <3>3. l # i BY <1>1, <3>2
        <3>4. tasks'[l] = tasks[l] BY <1>5, <3>2, <3>3
        <3> QED BY <1>6, <1>7, <3>1, <3>2, <3>4 DEF Holds
    <2> QED BY <2>1, <2>2
<1> QED BY <1>8, <1>9 DEF IdsOK

LEMMA IdsOfOwn ==
    ASSUME IInv, IdsOK, NEW t \in Threads, pc[t] \in Added, RunsItself(t)
    PROVE  IdsOK'
<1> DEFINE j == Len(jobs) + 1
<1>0. TypesOK BY DEF IInv
<1>1. /\ tasks' = tasks /\ jobs' = NewJob(t, 1) /\ done' = done
      /\ pc' = [pc EXCEPT ![t] = "user"]
    BY DEF RunsItself, Moves, pool
<1>2. j <= MaxJobs
    <2>1. Len(jobs') = Len(jobs) + 1 BY <1>0, <1>1 DEF NewJob, TypesOK
    <2>2. "user" \notin Added BY DEF Added
    <2> QED BY <1>0, <1>1, <2>1, <2>2, ComingFrame
<1>3. /\ j \notin DOMAIN jobs /\ Undone' = Undone \cup {j} /\ jobs'[j].id = 1
      /\ \A k \in DOMAIN jobs : jobs'[k] = jobs[k]
    BY <1>0, <1>1, <1>2, NewJobFacts
<1> HIDE DEF j
<1>4. Slots' = Slots /\ Empty' = Empty /\ Size' = Size BY <1>1, SameBuckets DEF Size
<1>5. \A k \in Undone' : jobs'[k].id # 1 => \E l \in Slots' \ Empty' : Holds(l, k)'
    <2> SUFFICES ASSUME NEW k \in Undone', jobs'[k].id # 1
                 PROVE  \E l \in Slots' \ Empty' : Holds(l, k)'
        OBVIOUS
    <2>1. k \in Undone /\ jobs'[k] = jobs[k] BY <1>3 DEF Undone
    <2>2. PICK l \in Slots \ Empty : Holds(l, k) BY <2>1 DEF IdsOK
    <2> QED BY <1>1, <1>4, <2>1, <2>2 DEF Holds
<1> QED BY <1>1, <1>4, <1>5 DEF IdsOK

\* The worker clears the bucket of the task that ended and of no other.
LEMMA IdsEnd ==
    ASSUME IInv, IdsOK, NEW t \in Threads, NEW throws \in BOOLEAN, EndTask(t, throws)
    PROVE  IdsOK'
<1> DEFINE j == stack[t][Len(stack[t])]
           i == bucket[t]
<1>0. TypesOK /\ WorkersOK BY DEF IInv
<1>1. Ends(t, throws) /\ t \in Workers /\ Len(stack[t]) = 1 /\ jobs' = jobs
    BY DEF EndTask, Ends
<1>2. Undone' = Undone \ {j} /\ stack[t] # <<>> BY <1>1, EndsFacts
<1>3. i \in Slots \ Empty /\ tasks[i].job = j BY <1>0, <1>1, <1>2 DEF WorkersOK, Busy
<1>4. /\ \A k \in Slots \ {i} : tasks'[k] = tasks[k]
      /\ tasks'[i].task_id = 0
    BY <1>0, <1>3 DEF EndTask, TypesOK, Bucket
<1> HIDE DEF i, j
<1>5. Slots' = Slots /\ Size' = Size BY DEF Slots, Size
<1>6. Empty' = Empty \cup {i} BY <1>3, <1>4, <1>5 DEF Empty, is_empty
<1>7. \A k \in Slots' \ Empty' : tasks'[k].task_id % Size' = k
    BY <1>4, <1>5, <1>6 DEF IdsOK
<1>8. \A k \in Undone' : jobs'[k].id # 1 => \E l \in Slots' \ Empty' : Holds(l, k)'
    <2> SUFFICES ASSUME NEW k \in Undone', jobs'[k].id # 1
                 PROVE  \E l \in Slots' \ Empty' : Holds(l, k)'
        OBVIOUS
    <2>1. k \in Undone /\ k # j BY <1>2
    <2>2. PICK l \in Slots \ Empty : Holds(l, k) BY <1>1, <2>1 DEF IdsOK
    <2>3. l # i BY <1>3, <2>1, <2>2 DEF Holds
    <2> QED BY <1>1, <1>4, <1>5, <1>6, <2>2, <2>3 DEF Holds
<1> QED BY <1>7, <1>8 DEF IdsOK

LEMMA IdsKept ==
    ASSUME IInv, IdsOK, [Next]_vars
    PROVE  IdsOK'
<1>0. tasks \in [Slots -> Bucket] /\ Slots \subseteq Nat BY BucketTypes DEF IInv
<1>1. ASSUME UNCHANGED <<tasks, jobs, done>> PROVE IdsOK'
    BY <1>1, IdsFrame DEF Undone
<1>2. ASSUME NEW t \in Threads, Propagates(t), done' = done, jobs' = jobs PROVE IdsOK'
    <2>1. First(Failed) \in Slots BY FirstSlots, <1>2 DEF Propagates, Failed
    <2>2. \A k \in Slots : /\ tasks'[k].task_id = tasks[k].task_id
                           /\ tasks'[k].job = tasks[k].job
                           /\ tasks'[k].thread_id = tasks[k].thread_id
        BY <1>0, <1>2, <2>1 DEF Propagates, Bucket
    <2> QED BY <1>2, <2>2, IdsFrame DEF Undone
<1>3. ASSUME NEW t \in Threads, AddTask(t) \/ AddingAwake(t) PROVE IdsOK'
    <2>1. pc[t] \in Added BY <1>3 DEF AddTask, AddingAwake, Added
    <2>2. CASE Propagates(t) BY <1>2, <2>2 DEF Propagates
    <2>3. CASE Places(t) BY <2>1, <2>3, IdsPlaced
    <2>4. CASE RunsItself(t) BY <2>1, <2>4, IdsOfOwn
    <2>5. CASE Sleeps(t, "adding") BY <1>1, <2>5 DEF Sleeps, pool, history
    <2> QED BY <1>3, <2>2, <2>3, <2>4, <2>5 DEF AddTask, AddingAwake
<1>4. ASSUME NEW t \in Threads, WaitForTask(t) \/ WaitForAllTasks(t) PROVE IdsOK'
    <2>1. CASE Propagates(t) BY <1>2, <2>1 DEF Propagates
    <2>2. CASE Returns(t) BY <1>1, <2>2 DEF Returns, pool, history
    <2>3. CASE Sleeps(t, "for_task") \/ Sleeps(t, "for_all")
        BY <1>1, <2>3 DEF Sleeps, pool, history
    <2> QED BY <1>4, <2>1, <2>2, <2>3 DEF WaitForTask, WaitForAllTasks
<1>5. ASSUME NEW t \in Threads, Seek(t) PROVE IdsOK'
    <2>1. CASE Ready # {} /\ Begins(t, First(Ready))
        <3>1. First(Ready) \in Slots BY <2>1, FirstSlots DEF Ready
        <3>2. \A k \in Slots : /\ tasks'[k].task_id = tasks[k].task_id
                               /\ tasks'[k].job = tasks[k].job
                               /\ tasks'[k].thread_id = tasks[k].thread_id
            BY <1>0, <2>1, <3>1 DEF Begins, Bucket
        <3>3. jobs' = jobs /\ done' = done BY <2>1 DEF Begins, history
        <3> QED BY <3>2, <3>3, IdsFrame DEF Undone
    <2>2. CASE Sleeps(t, "seeking") BY <1>1, <2>2 DEF Sleeps, pool, history
    <2>3. CASE UNCHANGED <<pool, history>> BY <1>1, <2>3 DEF pool, history
    <2> QED BY <1>5, <2>1, <2>2, <2>3 DEF Seek
<1>6. ASSUME NEW t \in Threads, NEW throws \in BOOLEAN,
             EndTask(t, throws) \/ EndOwnTask(t, throws)
      PROVE  IdsOK'
    <2>1. CASE EndTask(t, throws) BY <2>1, IdsEnd
    <2>2. CASE EndOwnTask(t, throws)
        <3>1. tasks' = tasks /\ jobs' = jobs /\ Undone' \subseteq Undone
            BY <2>2 DEF EndOwnTask, Ends, Undone
        <3> QED BY <3>1, IdsFrame
    <2> QED BY <1>6, <2>1, <2>2
<1>7. ASSUME NEW t \in Threads,
             CallAddTask(t) \/ CallWaitForTask(t) \/ CallWaitForAllTasks(t) \/ CallShutdown(t)
      PROVE  IdsOK'
    BY <1>1, <1>7
    DEF CallAddTask, CallWaitForTask, CallWaitForAllTasks, CallShutdown, Calls, pool, history
<1>8. ASSUME NEW t \in Threads,
             Start(t) \/ Shutdown(t) \/ Join(t) \/ SpuriousWakeup(t)
      PROVE  IdsOK'
    BY <1>1, <1>8 DEF Start, Shutdown, Join, SpuriousWakeup, Sleeps, pool, history
<1>9. CASE UNCHANGED vars BY <1>1, <1>9 DEF vars, pool, history
<1> QED BY <1>3, <1>4, <1>5, <1>6, <1>7, <1>8, <1>9 DEF Next, PoolStep, TaskEnds

\* A worker moves, or somebody who cannot be there while the pool is being closed.
LEMMA ClosingFrame ==
    ASSUME TypesOK, ClosingOK, NEW t \in Threads, NEW p,
           pc' = [pc EXCEPT ![t] = p], p \notin Closing,
           \A d \in Threads \ {t} : stack'[d] = stack[d],
           t \in Clients => \/ pc[t] \notin {"user", "gone", "aborted"} \cup Closing
                            \/ \A c \in Clients : pc[c] \notin Closing
    PROVE  ClosingOK'
<1>1. pc \in [Threads -> Position] BY DEF TypesOK, TypeOK
<1> SUFFICES ASSUME NEW c \in Clients, NEW d \in Clients, pc'[c] \in Closing
             PROVE  stack'[d] = <<>> /\ pc'[d] \in {"user", "gone", "aborted"} \cup Closing
    BY DEF ClosingOK
<1>2. c \in Threads /\ d \in Threads BY DEF Threads
<1>3. c # t /\ pc[c] \in Closing BY <1>1, <1>2
<1>4. t \notin Clients BY <1>3 DEF ClosingOK
<1>5. d # t BY <1>4
<1> QED BY <1>1, <1>2, <1>3, <1>5 DEF ClosingOK

LEMMA ClosingSame ==
    ASSUME ClosingOK, pc' = pc, stack' = stack PROVE ClosingOK'
BY DEF ClosingOK

LEMMA ClosingKept ==
    ASSUME IInv, ClosingOK, [Next]_vars
    PROVE  ClosingOK'
<1>0. /\ TypesOK /\ WorkersOK /\ pc \in [Threads -> Position] /\ stack \in [Threads -> Seq(Job)]
      /\ Threads' = Threads
    BY DEF IInv, TypesOK, TypeOK, Threads
<1> DEFINE Quiet == {"user", "gone", "aborted"} \cup Closing
<1>1. ASSUME NEW t \in Threads,
             AddTask(t) \/ AddingAwake(t) \/ WaitForTask(t) \/ WaitForAllTasks(t)
      PROVE  ClosingOK'
    <2>1. pc[t] \notin Quiet
        BY <1>1 DEF AddTask, AddingAwake, WaitForTask, WaitForAllTasks, Closing
    <2>2. PICK p \in {"user"} \cup Added \cup Waiting : pc' = [pc EXCEPT ![t] = p]
        BY <1>1 DEF AddTask, AddingAwake, WaitForTask, WaitForAllTasks, Propagates, Places,
                    RunsItself, Sleeps, Returns, Moves, Added, Waiting
    <2>3. p \notin Closing BY DEF Added, Waiting, Closing
    <2>4. \A d \in Threads \ {t} : stack'[d] = stack[d]
        BY <1>0, <1>1 DEF AddTask, AddingAwake, WaitForTask, WaitForAllTasks, Propagates, Places,
                    RunsItself, Sleeps, Returns
    <2> QED BY <1>0, <2>1, <2>2, <2>3, <2>4, ClosingFrame
<1>2. ASSUME NEW t \in Threads, Start(t) \/ Seek(t) PROVE ClosingOK'
    <2>1. pc[t] \notin Quiet BY <1>2 DEF Start, Seek, Closing
    <2>2. PICK p \in {"seeking", "gone", "user"} : pc' = [pc EXCEPT ![t] = p]
        BY <1>2 DEF Start, Seek, Begins, Sleeps, Moves
    <2>3. p \notin Closing BY DEF Closing
    <2>4. \A d \in Threads \ {t} : stack'[d] = stack[d]
        BY <1>0, <1>2 DEF Start, Seek, Begins, Sleeps
    <2> QED BY <1>0, <2>1, <2>2, <2>3, <2>4, ClosingFrame
<1>3. ASSUME NEW t \in Threads, CallAddTask(t) \/ CallWaitForTask(t) \/ CallWaitForAllTasks(t)
      PROVE  ClosingOK'
    <2>1. PICK p \in {"add"} \cup Waiting : pc' = [pc EXCEPT ![t] = p]
        BY <1>3 DEF CallAddTask, CallWaitForTask, CallWaitForAllTasks, Calls, Moves, Waiting
    <2>2. p \notin Closing BY DEF Waiting, Closing
    <2>3. stack' = stack /\ Open(t)
        BY <1>3 DEF CallAddTask, CallWaitForTask, CallWaitForAllTasks, Calls
    <2>4. t \in Clients => \A c \in Clients : pc[c] \notin Closing
        BY <2>3, ThreadsAssumption DEF Open
    <2> QED BY <1>0, <2>1, <2>2, <2>3, <2>4, ClosingFrame
<1>4. ASSUME NEW t \in Threads, NEW throws \in BOOLEAN,
             EndTask(t, throws) \/ EndOwnTask(t, throws)
      PROVE  ClosingOK'
    <2>1. /\ stack[t] # <<>>
          /\ \A d \in Threads \ {t} : stack'[d] = stack[d]
        BY <1>0, <1>4 DEF EndTask, EndOwnTask, Ends
    <2>2. CASE EndTask(t, throws)
        <3>1. pc' = [pc EXCEPT ![t] = "seeking"] /\ t \notin Clients
            BY <2>2, ThreadsAssumption DEF EndTask, Moves
        <3>2. "seeking" \notin Closing BY DEF Closing
        <3> QED BY <1>0, <2>1, <3>1, <3>2, ClosingFrame
    <2>3. CASE EndOwnTask(t, throws)
        <3>1. pc' = [pc EXCEPT ![t] = "user"] /\ "user" \notin Closing
            BY <1>0, <2>3 DEF EndOwnTask, Ends, Closing
        <3>2. t \in Clients => \A c \in Clients : pc[c] \notin Closing
            BY <2>1 DEF ClosingOK
        <3> QED BY <1>0, <2>1, <3>1, <3>2, ClosingFrame
    <2> QED BY <1>4, <2>2, <2>3
<1>5. ASSUME NEW t \in Threads, CallShutdown(t) PROVE ClosingOK'
    <2>1. pc' = [pc EXCEPT ![t] = "closing"] /\ stack' = stack
          /\ \A c \in Clients : pc[c] = "user" /\ stack[c] = <<>>
        BY <1>5 DEF CallShutdown, Moves
    <2> QED BY <1>0, <2>1 DEF ClosingOK, Closing, Threads
<1>6. ASSUME NEW t \in Threads, Shutdown(t) \/ Join(t) PROVE ClosingOK'
    <2>1. PICK p \in {"gone", "aborted"} \cup Closing : pc' = [pc EXCEPT ![t] = p]
        BY <1>6 DEF Shutdown, Join, Sleeps, Moves, Closing
    <2>2. stack' = stack /\ pc[t] \in Closing BY <1>6 DEF Shutdown, Join, Sleeps, Closing
    <2>3. \A c \in Clients : c \in Threads BY DEF Threads
    <2>4. \A c \in Clients : pc'[c] \in Closing => pc[c] \in Closing BY <1>0, <2>1, <2>2, <2>3
    <2>5. \A c \in Clients : pc[c] \in Quiet => pc'[c] \in Quiet BY <1>0, <2>1, <2>3
    <2> QED BY <2>2, <2>4, <2>5 DEF ClosingOK
<1>7. ASSUME NEW t \in Threads, SpuriousWakeup(t) PROVE ClosingOK'
    BY <1>7, ClosingSame DEF SpuriousWakeup
<1>8. CASE UNCHANGED vars BY <1>8, ClosingSame DEF vars
<1> QED BY <1>1, <1>2, <1>3, <1>4, <1>5, <1>6, <1>7, <1>8 DEF Next, PoolStep, TaskEnds

LEMMA InitTime == Init => TimeInv
<1> SUFFICES ASSUME Init PROVE TimeInv OBVIOUS
<1>1. \A i \in Slots : tasks[i].task_id = 0 BY DEF Init
<1>2. Undone = {} /\ Empty = Slots BY <1>1 DEF Init, Undone, Empty, is_empty
<1>3. \A c \in Clients : pc[c] = "user" BY ThreadsAssumption DEF Init, Threads
<1>4. ClosingOK BY <1>3 DEF ClosingOK, Closing
<1> QED BY <1>2, <1>4 DEF TimeInv, IdsOK

LEMMA TimeInvariant == Spec => [](IInv /\ TimeInv)
<1>1. Init => IInv /\ TimeInv BY InitInv, InitTime
<1>2. IInv /\ TimeInv /\ [Next]_vars => (IInv /\ TimeInv)'
    BY InvKept, IdsKept, ClosingKept DEF TimeInv
<1> QED BY <1>1, <1>2, PTL DEF Spec

\* Only the member that waits ends its wait.
LEMMA WhoEndsAWait ==
    ASSUME TypesOK, [Next]_vars, NEW t \in Threads,
           pc[t] \in Waiting \cup {"closing"}, pc'[t] # pc[t]
    PROVE  WaitForTask(t) \/ WaitForAllTasks(t) \/ Shutdown(t)
<1>0. pc \in [Threads -> Position] BY DEF TypesOK, TypeOK
<1>1. PICK u \in Threads :
        \/ CallAddTask(u) \/ CallWaitForTask(u) \/ CallWaitForAllTasks(u) \/ CallShutdown(u)
        \/ PoolStep(u) \/ TaskEnds(u) \/ SpuriousWakeup(u)
    BY DEF Next, vars
<1>2. PICK p : pc' = [pc EXCEPT ![u] = p] \/ pc' = pc
    BY <1>1
    DEF CallAddTask, CallWaitForTask, CallWaitForAllTasks, CallShutdown, Calls, PoolStep,
        AddTask, AddingAwake, WaitForTask, WaitForAllTasks, Start, Seek, Shutdown, Join, TaskEnds,
        EndTask, EndOwnTask, SpuriousWakeup, Propagates, Places, RunsItself, Sleeps, Returns,
        Begins, Moves
<1>3. u = t BY <1>0, <1>2
<1>4. ~(CallAddTask(u) \/ CallWaitForTask(u) \/ CallWaitForAllTasks(u) \/ CallShutdown(u))
    <2>1. CallShutdown(u) => pc[u] = "user" BY DEF CallShutdown
    <2> QED BY <1>3, <2>1
        DEF CallAddTask, CallWaitForTask, CallWaitForAllTasks, Calls, Waiting
<1>5. ~(TaskEnds(u) \/ SpuriousWakeup(u))
    BY <1>3 DEF TaskEnds, EndTask, EndOwnTask, Ends, SpuriousWakeup, Waiting
<1>6. ~(AddTask(u) \/ AddingAwake(u) \/ Start(u) \/ Seek(u) \/ Join(u))
    BY <1>3 DEF AddTask, AddingAwake, Start, Seek, Join, Waiting
<1> QED BY <1>1, <1>3, <1>4, <1>5, <1>6 DEF PoolStep

\* wait_for_task and wait_for_all_tasks return when what they wait for is done, with or
\* without an exception, and the workers are joined when every task is done.
THEOREM InTime == Spec => WaitsEndInTime
<1>1. ASSUME IInv, TimeInv, [Next]_vars, NEW t \in Threads, pc'[t] = "user", pc[t] = "for_task",
             NEW j \in DOMAIN jobs, jobs[j].id = awaited[t], awaited[t] # 1
      PROVE  j \in done
    <2>1. WaitForTask(t)
        BY <1>1, WhoEndsAWait DEF IInv, Waiting, WaitForAllTasks, Shutdown
    <2>2. ~TaskThere(t) BY <1>1, <2>1 DEF WaitForTask, Sleeps, Moves, IInv, TypesOK, TypeOK
    <2> SUFFICES ASSUME j \in Undone PROVE FALSE BY <1>1 DEF Undone
    <2>3. PICK i \in Slots \ Empty : Holds(i, j) BY <1>1 DEF TimeInv, IdsOK
    <2>4. tasks[i].task_id % Size = i BY <1>1 DEF TimeInv, IdsOK
    <2>5. awaited[t] % Size = i /\ tasks[i].task_id = awaited[t]
        BY <1>1, <2>3, <2>4 DEF Holds
    <2>6. Size # 0 BY SizeNat, <2>3 DEF Slots
    <2> QED BY <2>2, <2>5, <2>6 DEF TaskThere
<1>2. ASSUME IInv, TimeInv, [Next]_vars, NEW t \in Threads, pc'[t] = "user", pc[t] = "for_all",
             NEW j \in DOMAIN jobs, jobs[j].thread = t, jobs[j].id # 1
      PROVE  j \in done
    <2>1. WaitForAllTasks(t)
        BY <1>2, WhoEndsAWait DEF IInv, Waiting, WaitForTask, Shutdown
    <2>2. TasksOf(t) = {} BY <1>2, <2>1 DEF WaitForAllTasks, Sleeps, Moves, IInv, TypesOK, TypeOK
    <2> SUFFICES ASSUME j \in Undone PROVE FALSE BY <1>2 DEF Undone
    <2>3. PICK i \in Slots \ Empty : Holds(i, j) BY <1>2 DEF TimeInv, IdsOK
    <2> QED BY <1>2, <2>2, <2>3 DEF TasksOf, Holds
<1>3. ASSUME IInv, TimeInv, [Next]_vars, NEW t \in Clients, pc[t] = "closing",
             pc'[t] = "joining"
      PROVE  done = DOMAIN jobs
    <2>0. t \in Threads BY DEF Threads
    <2>1. Shutdown(t)
        BY <1>3, <2>0, WhoEndsAWait DEF IInv, WaitForTask, WaitForAllTasks
    <2>2. Empty = Slots BY <1>3, <2>0, <2>1 DEF Shutdown, Sleeps, Moves, IInv, TypesOK, TypeOK
    <2>3. Ready = {} BY <2>2 DEF Ready, is_ready, Empty
    <2>4. Busy = {} BY <1>3, <2>2 DEF IInv, WorkersOK
    <2>5. \A u \in Threads : stack[u] = <<>>
        <3>1. \A c \in Clients : stack[c] = <<>> BY <1>3 DEF TimeInv, ClosingOK, Closing
        <3> QED BY <2>4, <3>1 DEF Busy, Threads
    <2>6. \A u \in Threads : Runs(u) = {} BY <2>5 DEF Runs, Elements
    <2>7. Undone = {} BY <1>3, <2>3, <2>6 DEF IInv, PlacesOK
    <2>8. done \subseteq DOMAIN jobs BY <1>3 DEF IInv, TypesOK, TypeOK
    <2> QED BY <2>7, <2>8 DEF Undone
<1>4. IInv /\ TimeInv /\ [Next]_vars =>
        [/\ \A t \in Threads : pc'[t] = "user" =>
               /\ pc[t] = "for_task" => \A j \in DOMAIN jobs :
                     jobs[j].id = awaited[t] /\ awaited[t] # 1 => j \in done
               /\ pc[t] = "for_all" => \A j \in DOMAIN jobs :
                     jobs[j].thread = t /\ jobs[j].id # 1 => j \in done
         /\ (\E t \in Clients : pc[t] = "closing" /\ pc'[t] = "joining")
               => done = DOMAIN jobs]_vars
    BY <1>1, <1>2, <1>3
<1> QED BY <1>4, TimeInvariant, PTL DEF WaitsEndInTime, Spec

-----------------------------------------------------------------------------
(***************************************************************************)
(* Nobody sleeps in vain, if nobody waits for the id 0, which an empty     *)
(* bucket has: then only the end of a task makes a bucket empty, and wakes *)
(* everybody who may have waited for that.                                 *)
(***************************************************************************)

Awake == Seekers \ asleep
ReadyOK == ~we_are_destructing /\ Sleepers(task_ready) # {}
              => Cardinality(Ready) <= Cardinality(Awake)

NeedsSleep(t) ==
    /\ pc[t] = "for_task" => TaskThere(t)
    /\ pc[t] = "for_all"  => TasksOf(t) # {}
    /\ pc[t] = "adding"   => Empty = {}
    /\ pc[t] = "closing"  => Empty # Slots

AwaitedOK ==
    /\ \A j \in DOMAIN jobs : jobs[j].id # 0
    /\ \A t \in Threads : pc[t] = "for_task" => awaited[t] # 0

SleepersOK == \A t \in asleep : NeedsSleep(t)

WakeInv == ReadyOK /\ AwaitedOK /\ SleepersOK

LEMMA FiniteSets ==
    /\ IsFiniteSet(Workers) /\ IsFiniteSet(Slots) /\ Cardinality(Slots) = Cardinality(Workers)
    /\ IsFiniteSet(Ready) /\ IsFiniteSet(Seekers) /\ IsFiniteSet(Awake) /\ IsFiniteSet(Busy)
<1>1. IsFiniteSet(Workers) BY ThreadsAssumption, FS_Subset
<1>2. IsFiniteSet(Slots) /\ Cardinality(Slots) = Cardinality(Workers)
    <2>1. Size \in Nat /\ Size = Cardinality(Workers) BY SizeNat DEF Size
    <2> HIDE DEF Size
    <2>2. 0 \in Int /\ Size - 1 \in Int BY <2>1
    <2>3. IsFiniteSet(0 .. Size - 1)
          /\ Cardinality(0 .. Size - 1) = IF 0 > Size - 1 THEN 0 ELSE (Size - 1) - 0 + 1
        BY <2>2, FS_Interval
    <2> QED BY <2>1, <2>3 DEF Slots
<1>3. /\ Ready \subseteq Slots /\ Seekers \subseteq Workers /\ Awake \subseteq Workers
      /\ Busy \subseteq Workers
    BY DEF Ready, Seekers, Awake, Busy
<1> QED BY <1>1, <1>2, <1>3, FS_Subset

\* The tasks nobody has begun are no more than the workers without a task: as many
\* buckets as there are busy workers are theirs.
LEMMA EnoughSeekers ==
    ASSUME IInv, ~we_are_destructing
    PROVE  Cardinality(Ready) <= Cardinality(Seekers)
<1> DEFINE Theirs == {i \in Slots : tasks[i].is_being_processed}
           f == [w \in Busy |-> bucket[w]]
<1>0. WorkersOK BY DEF IInv
<1>1. Seekers = Workers \ Busy
    BY <1>0 DEF WorkersOK, Idle, Seekers, Busy
<1>2. Ready \cap Theirs = {} /\ Ready \cup Theirs \subseteq Slots /\ Theirs \subseteq Slots
    BY DEF Ready, is_ready
<1>3. f \in Injection(Busy, Theirs)
    <2>1. f \in [Busy -> Theirs] BY <1>0 DEF WorkersOK
    <2>2. \A w, v \in Busy : f[w] = f[v] => w = v BY <1>0 DEF WorkersOK
    <2> QED BY <2>1, <2>2 DEF Injection, IsInjective
<1> HIDE DEF Theirs, f
<1>4. IsFiniteSet(Theirs) BY <1>2, FiniteSets, FS_Subset
<1>5. Cardinality(Busy) <= Cardinality(Theirs) BY <1>3, <1>4, FS_Injection
<1>6. Cardinality(Ready) + Cardinality(Theirs) <= Cardinality(Slots)
    <2>1. Cardinality(Ready \cup Theirs)
             = Cardinality(Ready) + Cardinality(Theirs) - Cardinality({})
        BY <1>2, <1>4, FiniteSets, FS_Union
    <2>2. Cardinality({}) = 0 BY FS_EmptySet
    <2>3. Cardinality(Ready \cup Theirs) <= Cardinality(Slots)
        BY <1>2, FiniteSets, FS_Subset
    <2>4. Cardinality(Ready) \in Nat /\ Cardinality(Theirs) \in Nat
        BY <1>4, FiniteSets, FS_CardinalityType
    <2> QED BY <2>1, <2>2, <2>3, <2>4
<1>7. Cardinality(Seekers) = Cardinality(Workers) - Cardinality(Busy)
    <2>1. Workers \cap Busy = Busy BY DEF Busy
    <2>2. IsFiniteSet(Workers) BY FiniteSets
    <2>3. Cardinality(Workers \ Busy) = Cardinality(Workers) - Cardinality(Workers \cap Busy)
        BY <2>2, FS_Difference
    <2> QED BY <1>1, <2>1, <2>3
<1>8. /\ Cardinality(Ready) \in Nat /\ Cardinality(Theirs) \in Nat /\ Cardinality(Busy) \in Nat
      /\ Cardinality(Workers) \in Nat
    BY <1>4, FiniteSets, FS_CardinalityType
<1> QED BY <1>5, <1>6, <1>7, <1>8, FiniteSets

\* As many workers are awake as before, or more; and no more tasks wait to be begun.
LEMMA ReadyFrame ==
    ASSUME ReadyOK, we_are_destructing => we_are_destructing',
           Sleepers(task_ready)' \subseteq Sleepers(task_ready),
           Ready' \subseteq Ready, Awake \subseteq Awake'
    PROVE  ReadyOK'
<1>1. IsFiniteSet(Awake') /\ IsFiniteSet(Ready)
    <2>1. Awake' \subseteq Workers BY DEF Awake, Seekers
    <2> QED BY <2>1, FiniteSets, FS_Subset
<1>2. Cardinality(Ready') <= Cardinality(Ready) /\ Cardinality(Awake) <= Cardinality(Awake')
    BY <1>1, FS_Subset
<1>3. /\ Cardinality(Ready') \in Nat /\ Cardinality(Ready) \in Nat
      /\ Cardinality(Awake) \in Nat /\ Cardinality(Awake') \in Nat
    BY <1>1, FiniteSets, FS_Subset, FS_CardinalityType
<1> HIDE DEF Awake
<1>4. ~we_are_destructing' /\ Sleepers(task_ready)' # {}
        => Cardinality(Ready) <= Cardinality(Awake)
    BY DEF ReadyOK
<1> QED BY <1>2, <1>3, <1>4 DEF ReadyOK

\* What a sleeper waits for does not come while the buckets that hold tasks keep them.
LEMMA SleepersFrame ==
    ASSUME TypesOK, AwaitedOK, SleepersOK, NEW t \in Threads, asleep' \subseteq asleep \cup {t},
           \A u \in Threads \ {t} : pc'[u] = pc[u] /\ awaited'[u] = awaited[u],
           \A i \in Slots \ Empty : /\ tasks'[i].task_id = tasks[i].task_id
                                    /\ tasks'[i].thread_id = tasks[i].thread_id,
           t \in asleep' => NeedsSleep(t)'
    PROVE  SleepersOK'
<1> SUFFICES ASSUME NEW u \in asleep' PROVE NeedsSleep(u)' BY DEF SleepersOK
<1>1. CASE u = t BY <1>1
<1>2. CASE u # t
    <2>1. /\ u \in Threads /\ NeedsSleep(u) /\ pc'[u] = pc[u] /\ awaited'[u] = awaited[u]
          /\ awaited[u] \in Nat /\ (pc[u] = "for_task" => awaited[u] # 0)
        BY <1>2 DEF TypesOK, TypeOK, SleepersOK, AwaitedOK
    <2>2. Slots' = Slots /\ Size' = Size BY DEF Slots, Size
    <2>3. Empty' \subseteq Empty BY <2>2 DEF Empty, is_empty
    <2>4. pc[u] = "for_task" => TaskThere(u)'
        <3> HAVE pc[u] = "for_task"
        <3> DEFINE i == awaited[u] % Size
        <3>1. Size # 0 /\ tasks[i].task_id = awaited[u] BY <2>1 DEF NeedsSleep, TaskThere
        <3>2. i \in Slots
            <4>1. Size \in Nat /\ Size # 0 /\ awaited[u] \in Nat BY <2>1, <3>1, SizeNat
            <4> HIDE DEF Size
            <4> QED BY <4>1 DEF Slots
        <3>3. i \notin Empty BY <2>1, <3>1 DEF Empty, is_empty
        <3>4. tasks'[i].task_id = awaited[u] BY <3>1, <3>2, <3>3
        <3> QED BY <2>1, <2>2, <3>1, <3>4 DEF TaskThere
    <2>5. pc[u] = "for_all" => TasksOf(u)' # {}
        BY <2>1, <2>2 DEF NeedsSleep, TasksOf, Empty, is_empty
    <2>6. pc[u] = "adding" => Empty' = {} BY <2>1, <2>3 DEF NeedsSleep
    <2>7. pc[u] = "closing" => Empty' # Slots'
        <3>1. Empty \subseteq Slots BY DEF Empty
        <3> QED BY <2>1, <2>2, <2>3, <3>1 DEF NeedsSleep
    <2> QED BY <2>1, <2>4, <2>5, <2>6, <2>7 DEF NeedsSleep
<1> QED BY <1>1, <1>2

\* A step of one thread that begins no task and ends none a bucket holds.
LEMMA WakeFrame ==
    ASSUME IInv, WakeInv, NEW t \in Threads, NEW point,
           pc' = [pc EXCEPT ![t] = point], asleep' \subseteq asleep \cup {t},
           \A u \in Threads \ {t} : awaited'[u] = awaited[u],
           \A j \in DOMAIN jobs' : jobs'[j].id # 0,
           we_are_destructing => we_are_destructing',
           \A i \in Slots \ Empty : /\ tasks'[i].task_id = tasks[i].task_id
                                    /\ tasks'[i].thread_id = tasks[i].thread_id,
           Ready' \subseteq Ready,
           t \in asleep' => point # "seeking" /\ NeedsSleep(t)',
           pc[t] \in Looking => point \in Looking /\ t \notin asleep',
           point = "for_task" => awaited'[t] # 0
    PROVE  WakeInv'
<1>1. pc \in [Threads -> Position] /\ asleep \subseteq Threads /\ Threads' = Threads
    BY DEF IInv, TypesOK, TypeOK, Threads
<1>2. pc'[t] = point /\ \A u \in Threads \ {t} : pc'[u] = pc[u] BY <1>1
<1>3. AwaitedOK' BY <1>1, <1>2 DEF WakeInv, AwaitedOK
<1>4. SleepersOK' BY <1>2, SleepersFrame DEF WakeInv, IInv
<1>5. ReadyOK'
    <2>1. Sleepers(task_ready)' \subseteq Sleepers(task_ready)
        BY <1>1, <1>2 DEF Sleepers, task_ready
    <2>2. Awake \subseteq Awake'
        <3> SUFFICES ASSUME NEW u \in Awake PROVE u \in Awake' OBVIOUS
        <3>1. u \in Threads /\ u \in Workers /\ pc[u] \in Looking /\ u \notin asleep
            BY DEF Awake, Seekers, Looking, Threads
        <3>2. pc'[u] \in Looking /\ u \notin asleep' BY <1>2, <3>1
        <3> QED BY <3>1, <3>2 DEF Awake, Seekers, Looking
    <2> QED BY <2>1, <2>2, ReadyFrame DEF WakeInv
<1> QED BY <1>3, <1>4, <1>5 DEF WakeInv

LEMMA WakePropagates ==
    ASSUME IInv, WakeInv, NEW t \in Threads, pc[t] \in Added \cup Waiting, t \notin asleep,
           Propagates(t)
    PROVE  WakeInv'
<1>1. tasks \in [Slots -> Bucket] BY BucketTypes DEF IInv
<1>2. /\ First(Failed) \in Slots
      /\ tasks' = [tasks EXCEPT ![First(Failed)].eptr = 0]
      /\ pc' = [pc EXCEPT ![t] = "user"]
      /\ UNCHANGED <<we_are_destructing, asleep, awaited, jobs>>
    BY FirstSlots DEF Propagates, Moves, Failed
<1>3. \A k \in Slots : /\ tasks'[k].task_id = tasks[k].task_id
                       /\ tasks'[k].thread_id = tasks[k].thread_id
                       /\ tasks'[k].is_being_processed = tasks[k].is_being_processed
    BY <1>1, <1>2 DEF Bucket
<1>4. Ready' = Ready BY <1>3 DEF Ready, is_ready, is_empty, Slots, Size
<1>5. pc[t] \notin Looking BY DEF Added, Waiting, Looking
<1>6. \A j \in DOMAIN jobs' : jobs'[j].id # 0 BY <1>2 DEF WakeInv, AwaitedOK
<1> QED BY <1>2, <1>3, <1>4, <1>5, <1>6, WakeFrame

\* Nobody but a worker that seeks goes to sleep here.
LEMMA WakeSleeps ==
    ASSUME IInv, WakeInv, NEW t \in Threads, NEW p, Sleeps(t, p), p # "seeking",
           pc[t] \notin Looking,
           p = "for_task" => pc[t] = "for_task" /\ TaskThere(t),
           p = "for_all"  => TasksOf(t) # {},
           p = "adding"   => Empty = {},
           p = "closing"  => Empty # Slots
    PROVE  WakeInv'
<1>1. /\ pc' = [pc EXCEPT ![t] = p] /\ asleep' = asleep \cup {t}
      /\ UNCHANGED <<tasks, we_are_destructing, awaited, jobs>>
    BY DEF Sleeps, Moves, pool, history
<1>2. Slots' = Slots /\ Empty' = Empty /\ Ready' = Ready /\ Size' = Size
    BY <1>1, SameBuckets DEF Size
<1>3. pc'[t] = p BY <1>1 DEF IInv, TypesOK, TypeOK
<1>4. NeedsSleep(t)' BY <1>1, <1>2, <1>3 DEF NeedsSleep, TaskThere, TasksOf
<1>5. \A j \in DOMAIN jobs' : jobs'[j].id # 0 BY <1>1 DEF WakeInv, AwaitedOK
<1>6. p = "for_task" => awaited'[t] # 0 BY <1>1 DEF WakeInv, AwaitedOK
<1> QED BY <1>1, <1>2, <1>4, <1>5, <1>6, WakeFrame

\* add_task wakes one worker for its task, unless none sleeps.
LEMMA WakePlaces ==
    ASSUME IInv, WakeInv, NEW t \in Threads, pc[t] \in Added, t \notin asleep, Places(t)
    PROVE  WakeInv'
<1> DEFINE i  == First(Empty)
           id == make_next_task_id(i)
<1>0. TypesOK /\ WorkersOK /\ pc \in [Threads -> Position] /\ asleep \subseteq Threads
    BY DEF IInv, TypesOK, TypeOK
<1>1. /\ tasks \in [Slots -> Bucket] /\ i \in Empty /\ i \in Slots
      /\ tasks' = [tasks EXCEPT ![i].thread_id = t, ![i].task_id = id,
                                ![i].next_task_id = @ + 1, ![i].job = Len(jobs) + 1]
      /\ jobs' = NewJob(t, id)
      /\ pc' = [pc EXCEPT ![t] = "user"]
      /\ UNCHANGED <<we_are_destructing, awaited, done>>
    BY <1>0, BucketTypes, FirstSlots DEF Places, Moves, Empty
<1>2. PICK woken \in Signalled : asleep' = asleep \ woken BY DEF Places
<1> HIDE DEF i
<1>3. id \in Nat /\ id > 1
    <2>1. tasks[i].next_task_id \in Nat \ {0, 1} BY <1>1 DEF Bucket
    <2>2. i \in 0 .. Size - 1 BY <1>1 DEF Slots
    <2> QED BY <2>1, <2>2, SizeNat, Ids DEF make_next_task_id
<1> HIDE DEF id
<1>4. Len(jobs) + 1 <= MaxJobs
    <2>1. Len(jobs') = Len(jobs) + 1 BY <1>0, <1>1 DEF NewJob, TypesOK
    <2>2. "user" \notin Added BY DEF Added
    <2> QED BY <1>0, <1>1, <2>1, <2>2, ComingFrame
<1>5. \A k \in DOMAIN jobs' : jobs'[k].id # 0
    <2>1. /\ DOMAIN jobs' = (DOMAIN jobs) \cup {Len(jobs) + 1}
          /\ \A k \in DOMAIN jobs : jobs'[k] = jobs[k]
          /\ jobs'[Len(jobs) + 1].id = id
        BY <1>0, <1>1, <1>3, <1>4, NewJobFacts
    <2>2. \A k \in DOMAIN jobs : jobs[k].id # 0 BY DEF WakeInv, AwaitedOK
    <2> QED BY <1>3, <2>1, <2>2
<1>6. \A k \in Slots \ {i} : tasks'[k] = tasks[k] BY <1>1
<1>7. pc'[t] = "user" /\ \A u \in Threads \ {t} : pc'[u] = pc[u] BY <1>0, <1>1
<1>8. AwaitedOK' BY <1>1, <1>5, <1>7 DEF WakeInv, AwaitedOK, Threads
<1>9. SleepersOK'
    <2>1. t \notin asleep' /\ asleep' \subseteq asleep \cup {t} BY <1>2
    <2>2. \A k \in Slots \ Empty : tasks'[k] = tasks[k] BY <1>1, <1>6
    <2> QED BY <1>0, <1>1, <1>7, <2>1, <2>2, SleepersFrame DEF WakeInv
<1>10. ReadyOK'
    <2> SUFFICES ASSUME ~we_are_destructing', Sleepers(task_ready)' # {}
                 PROVE  Cardinality(Ready') <= Cardinality(Awake')
        BY DEF ReadyOK
    <2>1. pc[t] \notin Looking BY DEF Added, Looking
    <2>2. Seekers' = Seekers
        BY <1>7, <2>1 DEF Seekers, Looking, Threads
    <2>3. Sleepers(task_ready) = Seekers \cap asleep
        <3>1. \A u \in Threads : pc[u] \in Looking => u \in Workers BY <1>0 DEF WorkersOK
        <3>2. \A u \in asleep : u \in Threads /\ pc[u] # "starting"
            BY <1>0 DEF TypesOK, TypeOK, task_ready, task_done, Waiting
        <3> QED BY <3>1, <3>2 DEF Sleepers, task_ready, Seekers, Looking
    <2>4. Sleepers(task_ready)' \subseteq Sleepers(task_ready)
        BY <1>0, <1>2, <1>7 DEF Sleepers, task_ready
    <2>5. PICK w \in Sleepers(task_ready) : woken = {w} BY <1>2, <2>4 DEF Signalled
    <2>6. Awake' = Awake \cup {w} /\ w \notin Awake
        BY <1>2, <2>2, <2>3, <2>5 DEF Awake
    <2>7. Ready' \subseteq Ready \cup {i}
        BY <1>6 DEF Ready, is_ready, is_empty, Slots, Size
    <2>8. Cardinality(Ready) <= Cardinality(Awake)
        BY <1>1, <2>4 DEF WakeInv, ReadyOK
    <2>9. Cardinality(Awake') = Cardinality(Awake) + 1 BY <2>6, FiniteSets, FS_AddElement
    <2>10. Cardinality(Ready') <= Cardinality(Ready) + 1
        <3>1. /\ IsFiniteSet(Ready \cup {i})
              /\ Cardinality(Ready \cup {i}) = IF i \in Ready THEN Cardinality(Ready)
                                                              ELSE Cardinality(Ready) + 1
            BY FiniteSets, FS_AddElement
        <3>2. IsFiniteSet(Ready') /\ Cardinality(Ready') <= Cardinality(Ready \cup {i})
            BY <2>7, <3>1, FS_Subset
        <3>3. Cardinality(Ready') \in Nat /\ Cardinality(Ready) \in Nat
            BY <3>2, FiniteSets, FS_CardinalityType
        <3> QED BY <3>1, <3>2, <3>3
    <2>11. IsFiniteSet(Ready') /\ IsFiniteSet(Awake')
        <3>1. Ready' \subseteq Slots /\ Awake' \subseteq Workers
            BY DEF Ready, Awake, Seekers, Slots, Size
        <3> QED BY <3>1, FiniteSets, FS_Subset
    <2>12. /\ Cardinality(Ready') \in Nat /\ Cardinality(Ready) \in Nat
           /\ Cardinality(Awake) \in Nat /\ Cardinality(Awake') \in Nat
        BY <2>11, FiniteSets, FS_CardinalityType
    <2> QED BY <2>8, <2>9, <2>10, <2>12
<1> QED BY <1>8, <1>9, <1>10 DEF WakeInv

LEMMA WakeRunsItself ==
    ASSUME IInv, WakeInv, NEW t \in Threads, pc[t] = "add", RunsItself(t)
    PROVE  WakeInv'
<1>0. TypesOK BY DEF IInv
<1>1. /\ jobs' = NewJob(t, 1) /\ done' = done
      /\ pc' = [pc EXCEPT ![t] = "user"]
      /\ UNCHANGED <<tasks, we_are_destructing, asleep, awaited>>
    BY DEF RunsItself, Moves, pool
<1>2. pc[t] \in Added /\ "user" \notin Added /\ pc[t] \notin Looking BY DEF Added, Looking
<1>3. t \notin asleep BY <1>0 DEF TypesOK, TypeOK, task_ready, task_done, Waiting
<1>4. Len(jobs) + 1 <= MaxJobs
    <2>1. Len(jobs') = Len(jobs) + 1 BY <1>0, <1>1 DEF NewJob, TypesOK
    <2> QED BY <1>0, <1>1, <1>2, <2>1, ComingFrame
<1>5. \A k \in DOMAIN jobs' : jobs'[k].id # 0
    <2>1. /\ DOMAIN jobs' = (DOMAIN jobs) \cup {Len(jobs) + 1}
          /\ \A k \in DOMAIN jobs : jobs'[k] = jobs[k]
          /\ jobs'[Len(jobs) + 1].id = 1
        BY <1>0, <1>1, <1>4, NewJobFacts
    <2>2. \A k \in DOMAIN jobs : jobs[k].id # 0 BY DEF WakeInv, AwaitedOK
    <2> QED BY <2>1, <2>2
<1>6. Ready' = Ready BY <1>1, SameBuckets
<1> QED BY <1>1, <1>2, <1>3, <1>5, <1>6, WakeFrame

\* Both the tasks to be begun and the workers awake get fewer by one.
LEMMA WakeBegins ==
    ASSUME IInv, WakeInv, NEW t \in Threads, pc[t] = "seeking", t \notin asleep, Ready # {},
           Begins(t, First(Ready))
    PROVE  WakeInv'
<1> DEFINE i == First(Ready)
<1>0. TypesOK /\ WorkersOK /\ pc \in [Threads -> Position] /\ asleep \subseteq Threads
    BY DEF IInv, TypesOK, TypeOK
<1>1. /\ tasks \in [Slots -> Bucket] /\ i \in Ready /\ i \in Slots
      /\ tasks' = [tasks EXCEPT ![i].is_being_processed = TRUE]
      /\ pc' = [pc EXCEPT ![t] = "user"]
      /\ UNCHANGED <<we_are_destructing, asleep, awaited, jobs>>
    BY <1>0, BucketTypes, FirstSlots DEF Begins, Moves, Ready, history
<1> HIDE DEF i
<1>2. /\ \A k \in Slots \ {i} : tasks'[k] = tasks[k]
      /\ tasks'[i].is_being_processed
      /\ \A k \in Slots : /\ tasks'[k].task_id = tasks[k].task_id
                          /\ tasks'[k].thread_id = tasks[k].thread_id
    BY <1>1 DEF Bucket
<1>3. pc'[t] = "user" /\ \A u \in Threads \ {t} : pc'[u] = pc[u] BY <1>0, <1>1
<1>4. AwaitedOK' BY <1>1, <1>3 DEF WakeInv, AwaitedOK, Threads
<1>5. SleepersOK' BY <1>0, <1>1, <1>2, <1>3, SleepersFrame DEF WakeInv
<1>6. ReadyOK'
    <2>1. t \in Workers BY <1>0 DEF WorkersOK, Looking
    <2>2. t \in Awake /\ Awake' = Awake \ {t}
        BY <1>1, <1>3, <2>1 DEF Awake, Seekers, Threads
    <2>3. Ready' = Ready \ {i}
        BY <1>1, <1>2 DEF Ready, is_ready, is_empty, Slots, Size
    <2>4. /\ Cardinality(Awake') = Cardinality(Awake) - 1
          /\ Cardinality(Ready') = Cardinality(Ready) - 1
        BY <1>1, <2>2, <2>3, FiniteSets, FS_RemoveElement
    <2>5. Sleepers(task_ready)' \subseteq Sleepers(task_ready)
        BY <1>0, <1>1, <1>3 DEF Sleepers, task_ready
    <2>6. Cardinality(Ready) \in Nat /\ Cardinality(Awake) \in Nat
        BY FiniteSets, FS_CardinalityType
    <2>7. ~we_are_destructing' /\ Sleepers(task_ready)' # {}
             => Cardinality(Ready) <= Cardinality(Awake)
        BY <1>1, <2>5 DEF WakeInv, ReadyOK
    <2> QED BY <2>4, <2>6, <2>7 DEF ReadyOK
<1> QED BY <1>4, <1>5, <1>6 DEF WakeInv

\* A worker looks for a task: it begins one, sleeps as there is none, or is gone.
LEMMA WakeSeek ==
    ASSUME IInv, WakeInv, NEW t \in Threads, Seek(t)
    PROVE  WakeInv'
<1>0. pc \in [Threads -> Position] /\ pc[t] = "seeking" /\ t \notin asleep /\ TypesOK
    BY DEF Seek, IInv, TypesOK, TypeOK
<1>1. CASE Ready # {} /\ Begins(t, First(Ready)) BY <1>0, <1>1, WakeBegins
<1>2. ASSUME NEW p, pc' = [pc EXCEPT ![t] = p], p \in {"seeking", "gone"},
             asleep' \subseteq asleep \cup {t},
             UNCHANGED <<tasks, awaited, jobs>>,
             we_are_destructing' \/ Ready = {}
      PROVE  WakeInv'
    <2>1. pc'[t] = p /\ \A u \in Threads \ {t} : pc'[u] = pc[u] BY <1>0, <1>2
    <2>2. AwaitedOK' BY <1>2, <2>1 DEF WakeInv, AwaitedOK, Threads
    <2>3. NeedsSleep(t)' BY <1>2, <2>1 DEF NeedsSleep
    <2>4. SleepersOK' BY <1>0, <1>2, <2>1, <2>3, SleepersFrame DEF WakeInv
    <2>5. ReadyOK'
        <3>1. CASE we_are_destructing' BY <3>1 DEF ReadyOK
        <3>2. CASE Ready = {}
            <4>1. Ready' = {} BY <1>2, <3>2, SameBuckets
            <4>2. Cardinality(Ready') = 0 BY <4>1, FS_EmptySet
            <4>3. IsFiniteSet(Awake')
                <5>1. Awake' \subseteq Workers BY DEF Awake, Seekers
                <5> QED BY <5>1, FiniteSets, FS_Subset
            <4>4. Cardinality(Awake') \in Nat BY <4>3, FS_CardinalityType
            <4>5. Cardinality(Ready') <= Cardinality(Awake') BY <4>2, <4>4
            <4> QED BY <4>5 DEF ReadyOK
        <3> QED BY <1>2, <3>1, <3>2
    <2> QED BY <2>2, <2>4, <2>5 DEF WakeInv
<1>3. CASE Ready = {} /\ Sleeps(t, "seeking")
    BY <1>2, <1>3 DEF Sleeps, Moves, pool, history
<1>4. CASE we_are_destructing /\ Moves(t, "gone") /\ UNCHANGED <<pool, asleep, awaited, history>>
    BY <1>2, <1>4 DEF Moves, pool, history
<1> QED BY <1>1, <1>3, <1>4 DEF Seek

\* The end of a task wakes everybody who does not seek one.
LEMMA WakeEnds ==
    ASSUME IInv, WakeInv, NEW t \in Threads, NEW throws \in BOOLEAN, EndTask(t, throws)
    PROVE  WakeInv'
<1>0. TypesOK /\ WorkersOK /\ pc \in [Threads -> Position] /\ asleep \subseteq Threads
    BY DEF IInv, TypesOK, TypeOK
<1>1. /\ t \in Workers /\ pc[t] = "user" /\ stack[t] # <<>>
      /\ pc' = [pc EXCEPT ![t] = "seeking"]
      /\ asleep' = asleep \ Sleepers(task_done)
      /\ UNCHANGED <<we_are_destructing, awaited, jobs>>
    BY DEF EndTask, Ends, Moves
<1>2. pc'[t] = "seeking" /\ \A u \in Threads \ {t} : pc'[u] = pc[u] BY <1>0, <1>1
<1>3. AwaitedOK' BY <1>1, <1>2 DEF WakeInv, AwaitedOK, Threads
<1>4. t \notin asleep BY <1>0, <1>1 DEF TypesOK, TypeOK, task_ready, task_done, Waiting
<1>5. SleepersOK'
    <2>1. \A u \in asleep' : pc'[u] \notin {"for_task", "for_all", "adding", "closing"}
        BY <1>0, <1>1, <1>2, <1>4 DEF Sleepers, task_done, Waiting
    <2> QED BY <2>1 DEF SleepersOK, NeedsSleep
<1>6. ReadyOK'
    <2>1. Sleepers(task_ready)' \subseteq Sleepers(task_ready)
        BY <1>0, <1>1, <1>2, <1>4 DEF Sleepers, task_ready
    <2>2. Awake \subseteq Awake'
        BY <1>0, <1>1, <1>2 DEF Awake, Seekers, Threads
    <2>3. Ready' \subseteq Ready
        <3>1. bucket[t] \in Slots BY <1>0, <1>1 DEF WorkersOK, Busy
        <3>2. /\ \A k \in Slots \ {bucket[t]} : tasks'[k] = tasks[k]
              /\ tasks'[bucket[t]].task_id = 0
            BY <1>0, <3>1 DEF EndTask, TypesOK, Bucket
        <3> QED BY <3>2 DEF Ready, is_ready, is_empty, Slots, Size
    <2> QED BY <1>1, <2>1, <2>2, <2>3, ReadyFrame DEF WakeInv
<1> QED BY <1>3, <1>5, <1>6 DEF WakeInv

\* A step of one thread that leaves every bucket alone and seeks nothing.
LEMMA WakeStill ==
    ASSUME IInv, WakeInv, NEW t \in Threads, NEW point,
           pc' = [pc EXCEPT ![t] = point], asleep' \subseteq asleep, t \notin asleep',
           \A u \in Threads \ {t} : awaited'[u] = awaited[u],
           UNCHANGED <<tasks, jobs>>,
           we_are_destructing => we_are_destructing',
           pc[t] \in Looking => point \in Looking,
           point = "for_task" => awaited'[t] # 0
    PROVE  WakeInv'
<1>1. Ready' = Ready BY SameBuckets
<1>2. \A j \in DOMAIN jobs' : jobs'[j].id # 0 BY DEF WakeInv, AwaitedOK
<1> QED BY <1>1, <1>2, WakeFrame

LEMMA WakeCalls ==
    ASSUME 0 \notin StrayIds, IInv, WakeInv, NEW t \in Threads,
           CallAddTask(t) \/ CallWaitForTask(t) \/ CallWaitForAllTasks(t) \/ CallShutdown(t)
    PROVE  WakeInv'
<1>1. /\ pc[t] = "user"
      /\ UNCHANGED <<tasks, we_are_destructing, asleep, jobs>>
    BY DEF CallAddTask, CallWaitForTask, CallWaitForAllTasks, CallShutdown, Calls, pool, history
<1>2. t \notin asleep /\ pc[t] \notin Looking /\ awaited \in [Threads -> Nat]
    BY <1>1 DEF IInv, TypesOK, TypeOK, task_ready, task_done, Waiting, Looking
<1>3. CASE CallAddTask(t)
    <2>1. pc' = [pc EXCEPT ![t] = "add"] /\ awaited' = [awaited EXCEPT ![t] = 0]
        BY <1>3 DEF CallAddTask, Calls, Moves
    <2> QED BY <1>1, <1>2, <2>1, WakeStill
<1>4. CASE CallWaitForTask(t)
    <2>1. PICK id \in StrayIds \cup {jobs[j].id : j \in {k \in DOMAIN jobs : jobs[k].code = Code(t)}} :
             Calls(t, "for_task", id)
        BY <1>4 DEF CallWaitForTask
    <2>2. id # 0 BY <2>1 DEF WakeInv, AwaitedOK
    <2>3. pc' = [pc EXCEPT ![t] = "for_task"] /\ awaited' = [awaited EXCEPT ![t] = id]
        BY <2>1 DEF Calls, Moves
    <2> QED BY <1>1, <1>2, <2>2, <2>3, WakeStill
<1>5. CASE CallWaitForAllTasks(t)
    <2>1. pc' = [pc EXCEPT ![t] = "for_all"] /\ awaited' = [awaited EXCEPT ![t] = 0]
        BY <1>5 DEF CallWaitForAllTasks, Calls, Moves
    <2> QED BY <1>1, <1>2, <2>1, WakeStill
<1>6. CASE CallShutdown(t)
    <2>1. pc' = [pc EXCEPT ![t] = "closing"] /\ awaited' = awaited
        BY <1>6 DEF CallShutdown, Moves
    <2> QED BY <1>1, <1>2, <2>1, WakeStill
<1> QED BY <1>3, <1>4, <1>5, <1>6

\* add_task, and the members that wait.
LEMMA WakeMembers ==
    ASSUME IInv, WakeInv, NEW t \in Threads,
           AddTask(t) \/ AddingAwake(t) \/ WaitForTask(t) \/ WaitForAllTasks(t)
    PROVE  WakeInv'
<1>1. pc[t] \in Added \cup Waiting /\ t \notin asleep
    <2>1. pc[t] = "add" => t \notin asleep
        BY DEF IInv, TypesOK, TypeOK, task_ready, task_done, Waiting
    <2> QED BY <2>1 DEF AddTask, AddingAwake, WaitForTask, WaitForAllTasks, Added, Waiting
<1>2. pc[t] \notin Looking BY <1>1 DEF Added, Waiting, Looking
<1>3. CASE Propagates(t) BY <1>1, <1>3, WakePropagates
<1>4. CASE pc[t] \in Added /\ Places(t) BY <1>1, <1>4, WakePlaces
<1>5. CASE pc[t] = "add" /\ RunsItself(t) BY <1>5, WakeRunsItself
<1>6. CASE Empty = {} /\ Sleeps(t, "adding") BY <1>2, <1>6, WakeSleeps
<1>7. CASE pc[t] = "for_task" /\ TaskThere(t) /\ Sleeps(t, "for_task")
    BY <1>2, <1>7, WakeSleeps
<1>8. CASE TasksOf(t) # {} /\ Sleeps(t, "for_all") BY <1>2, <1>8, WakeSleeps
<1>9. CASE Returns(t)
    BY <1>1, <1>2, <1>9, WakeStill DEF Returns, Moves, pool, history
<1> QED BY <1>3, <1>4, <1>5, <1>6, <1>7, <1>8, <1>9
        DEF AddTask, AddingAwake, WaitForTask, WaitForAllTasks, Added

LEMMA WakeKept ==
    ASSUME 0 \notin StrayIds, IInv, WakeInv, [Next]_vars
    PROVE  WakeInv'
<1>0. pc \in [Threads -> Position]
      /\ asleep \subseteq {t \in Threads : pc[t] \in task_ready \cup task_done}
    BY DEF IInv, TypesOK, TypeOK
<1>1. ASSUME NEW t \in Threads, Shutdown(t) PROVE WakeInv'
    <2>1. pc[t] = "closing" /\ pc[t] \notin Looking /\ t \notin asleep
        BY <1>1 DEF Shutdown, Looking
    <2>2. CASE Empty # Slots /\ Sleeps(t, "closing") BY <2>1, <2>2, WakeSleeps
    <2>3. CASE Empty = Slots
        <3>1. pc' = [pc EXCEPT ![t] = "joining"] /\ asleep' \subseteq asleep /\ we_are_destructing'
              /\ UNCHANGED <<tasks, jobs, awaited>>
            BY <1>1, <2>3 DEF Shutdown, Moves, history
        <3> QED BY <2>1, <3>1, WakeStill
    <2> QED BY <1>1, <2>2, <2>3 DEF Shutdown
<1>2. ASSUME NEW t \in Threads, Join(t) PROVE WakeInv'
    <2>1. pc[t] = "joining" /\ pc[t] \notin Looking /\ t \notin asleep
        BY <1>0, <1>2 DEF Join, Looking, task_ready, task_done, Waiting
    <2>2. PICK p \in {"gone", "aborted"} : pc' = [pc EXCEPT ![t] = p]
        BY <1>2 DEF Join, Moves
    <2>3. UNCHANGED <<tasks, we_are_destructing, asleep, awaited, jobs>>
        BY <1>2 DEF Join, pool, history
    <2> QED BY <2>1, <2>2, <2>3, WakeStill
<1>3. ASSUME NEW t \in Threads, Start(t) PROVE WakeInv'
    <2>1. t \notin asleep /\ "seeking" \in Looking
        BY <1>0, <1>3 DEF Start, task_ready, task_done, Waiting, Looking
    <2> QED BY <1>3, <2>1, WakeStill DEF Start, Moves, history
<1>4. ASSUME NEW t \in Threads, NEW throws \in BOOLEAN, EndOwnTask(t, throws) PROVE WakeInv'
    <2>1. pc[t] = "user" /\ pc' = [pc EXCEPT ![t] = "user"]
          /\ UNCHANGED <<tasks, we_are_destructing, asleep, awaited, jobs>>
        BY <1>0, <1>4 DEF EndOwnTask, Ends
    <2>2. t \notin asleep /\ pc[t] \notin Looking
        BY <1>0, <2>1 DEF task_ready, task_done, Waiting, Looking
    <2> QED BY <2>1, <2>2, WakeStill
<1>5. ASSUME NEW t \in Threads, SpuriousWakeup(t) PROVE WakeInv'
    <2>1. pc' = [pc EXCEPT ![t] = pc[t]] /\ t \notin asleep' /\ asleep' \subseteq asleep
          /\ UNCHANGED <<tasks, we_are_destructing, awaited, jobs>>
        BY <1>0, <1>5 DEF SpuriousWakeup, pool, history
    <2>2. pc[t] = "for_task" => awaited'[t] # 0 BY <2>1 DEF WakeInv, AwaitedOK
    <2> QED BY <2>1, <2>2, WakeStill
<1>6. CASE UNCHANGED vars
    <2>1. UNCHANGED <<tasks, we_are_destructing, pc, asleep, awaited, jobs>>
        BY <1>6 DEF vars, pool, history
    <2>2. Slots' = Slots /\ Ready' = Ready /\ Empty' = Empty /\ Size' = Size
        BY <2>1, SameBuckets DEF Size
    <2>3. ReadyOK' BY <2>1, <2>2 DEF WakeInv, ReadyOK, Sleepers, Awake, Seekers
    <2>4. AwaitedOK' BY <2>1 DEF WakeInv, AwaitedOK
    <2>5. SleepersOK'
        BY <2>1, <2>2 DEF WakeInv, SleepersOK, NeedsSleep, TaskThere, TasksOf
    <2> QED BY <2>3, <2>4, <2>5 DEF WakeInv
<1> QED BY <1>1, <1>2, <1>3, <1>4, <1>5, <1>6, WakeCalls, WakeMembers, WakeSeek, WakeEnds
        DEF Next, PoolStep, TaskEnds

\* No wakeup is lost, though add_task wakes a single worker and a nested task may take
\* that worker's place: there are always as many workers without a task as there are
\* tasks nobody has begun, and as many awake as long as any sleeps.
THEOREM NobodySleeps ==
    ASSUME 0 \notin StrayIds
    PROVE  Spec => []NobodySleepsInVain
<1>1. Init => WakeInv
    <2> SUFFICES ASSUME Init PROVE WakeInv OBVIOUS
    <2>1. \A t \in Threads : pc[t] # "for_task" BY DEF Init
    <2> QED BY <2>1 DEF Init, WakeInv, ReadyOK, AwaitedOK, SleepersOK, Sleepers
<1>2. IInv /\ WakeInv /\ [Next]_vars => WakeInv' BY WakeKept
<1>3. IInv /\ WakeInv => NobodySleepsInVain
    <2> SUFFICES ASSUME IInv, WakeInv PROVE NobodySleepsInVain OBVIOUS
    <2>1. ~we_are_destructing => Cardinality(Ready) <= Cardinality(Seekers) BY EnoughSeekers
    <2> QED BY <2>1
        DEF NobodySleepsInVain, WakeInv, ReadyOK, Awake, SleepersOK, NeedsSleep
<1> QED BY <1>1, <1>2, <1>3, Invariant, PTL DEF Spec

-----------------------------------------------------------------------------
(***************************************************************************)
(* Loops over the pool.                                                    *)
(*                                                                         *)
(* A loop may return when the wait for the tasks of its thread has, if all *)
(* its own are among them: the tasks its thread ran itself are done when   *)
(* add_task returns, and no other thread adds to its code.                 *)
(***************************************************************************)

\* The codes a thread is in: those of its tasks, and a client's own.
CodesOf(t) == {<<j>> : j \in Runs(t)} \cup {<<c>> : c \in {t} \cap Clients}

\* Each task on a stack was added by the code below it, except the first of a worker,
\* which comes from a bucket; what is in a bucket has an id of its own.
NestOK ==
    /\ \A i \in Ready : jobs[tasks[i].job].id # 1
    /\ \A t \in Threads : \A k \in DOMAIN stack[t] :
          LET job == jobs[stack[t][k]]
          IN  IF k > 1 THEN job.code = <<stack[t][k - 1]>>
              ELSE IF t \in Clients THEN job.code = <<t>> ELSE job.id # 1

\* A code's tasks are those of its thread.
OwnersOK ==
    \A t \in Threads : \A j \in DOMAIN jobs :
       jobs[j].code \in CodesOf(t) => jobs[j].thread = t

\* A task that nobody has begun has no loop yet, and a code that waits for a task it
\* runs itself is adding it.
LoopTypes ==
    /\ loop \in [Codes -> {"none", "adding", "collecting", "returned", "threw"}]
    /\ length \in [Codes -> Nat]
FreshOK == \A j \in Job : j \notin done /\ (\A t \in Threads : j \notin Runs(t)) => loop[<<j>>] = "none"
BelowOK == \A t \in Threads : \A c \in CodesOf(t) \ {Code(t)} : loop[c] = "adding"

\* A loop adds as many tasks as it has blocks, and when it has waited they are done.
Tally(c) == Cardinality(Children(c))
LoopFits(c, state, num) ==
    /\ state = "none" => Children(c) = {}
    /\ state = "adding" => Tally(c) <= Len(Blocks(num))
    /\ state \in {"collecting", "returned"} => Tally(c) = Len(Blocks(num))
    /\ state = "returned" => Children(c) \subseteq done
MemberFits(t, point, state, num) ==
    /\ point \in Added => state = "adding" /\ Tally(Code(t)) < Len(Blocks(num))
    /\ point = "for_all" => state = "collecting"
    /\ Code(t) \in Codes /\ state = "collecting" /\ point # "for_all"
          => Children(Code(t)) \subseteq done
TasksOK   == \A c \in Codes : LoopFits(c, loop[c], length[c])
MembersOK == \A t \in Threads : MemberFits(t, pc[t], loop[Code(t)], length[Code(t)])

LoopInv == LoopTypes /\ NestOK /\ OwnersOK /\ FreshOK /\ BelowOK /\ TasksOK /\ MembersOK

CodeFacts ==
    \A t \in Threads :
       /\ CodesOf(t) \subseteq Codes
       /\ pc[t] \notin Idle => Code(t) \in CodesOf(t)
       /\ Code(t) \in Codes => Code(t) \in CodesOf(t)
       /\ stack[t] # <<>> => /\ Code(t) = <<stack[t][Len(stack[t])]>>
                             /\ stack[t][Len(stack[t])] \in Runs(t)
       /\ \A u \in Threads : CodesOf(t) \cap CodesOf(u) # {} => t = u
       /\ \A j \in Job : <<j>> \in CodesOf(t) <=> j \in Runs(t)

\* Whose code is whose.
LEMMA CodesAre == IInv => CodeFacts
<1> SUFFICES ASSUME IInv PROVE CodeFacts OBVIOUS
<1>0. Threads \cap Job = {} /\ Clients \subseteq Threads BY CodesAssumption DEF Threads
<1>1. stack \in [Threads -> Seq(Job)] BY DEF IInv, TypesOK, TypeOK
<1>2. \A t \in Threads : Runs(t) \subseteq Job
    <2> TAKE t \in Threads
    <2>1. stack[t] \in Seq(Job) BY <1>1
    <2>2. \A k \in DOMAIN stack[t] : stack[t][k] \in Job BY <2>1
    <2> QED BY <2>2 DEF Runs, Elements
<1>3. \A t \in Threads : CodesOf(t) \subseteq Codes
    BY <1>2 DEF CodesOf, Codes
<1>4. \A t \in Threads : stack[t] # <<>> => /\ Code(t) = <<stack[t][Len(stack[t])]>>
                                           /\ stack[t][Len(stack[t])] \in Runs(t)
    <2> TAKE t \in Threads
    <2> SUFFICES ASSUME stack[t] # <<>> PROVE stack[t][Len(stack[t])] \in Runs(t)
        BY DEF Code
    <2>1. stack[t] \in Seq(Job) BY <1>1
    <2>2. Len(stack[t]) \in DOMAIN stack[t] BY <2>1
    <2> QED BY <2>2 DEF Runs, Elements
<1>5. \A t \in Threads : t \in Clients \/ stack[t] # <<>> => Code(t) \in CodesOf(t)
    BY <1>4 DEF Code, CodesOf
<1>6. \A t \in Threads : pc[t] \notin Idle => t \in Clients \/ stack[t] # <<>>
    BY DEF IInv, WorkersOK, Threads
<1>7. \A t \in Threads : Code(t) \in Codes => t \in Clients \/ stack[t] # <<>>
    <2> TAKE t \in Threads
    <2>1. ASSUME stack[t] = <<>>, Code(t) \in Codes PROVE t \in Clients
        <3>1. Code(t) = <<t>> /\ t \notin Job BY <1>0, <2>1 DEF Code
        <3>2. PICK x \in Clients \cup Job : Code(t) = <<x>> BY <2>1 DEF Codes
        <3>3. x = t BY <3>1, <3>2
        <3> QED BY <3>1, <3>2, <3>3
    <2> QED BY <2>1
<1>8. ASSUME NEW t \in Threads, NEW u \in Threads, CodesOf(t) \cap CodesOf(u) # {} PROVE t = u
    <2>1. PICK x \in Runs(t) \cup ({t} \cap Clients), y \in Runs(u) \cup ({u} \cap Clients) : <<x>> = <<y>>
        BY <1>8 DEF CodesOf
    <2>2. x = y BY <2>1
    <2>3. \A a, b \in Threads : Runs(a) \cap Runs(b) # {} => a = b BY DEF IInv, StacksOK
    <2> QED BY <1>0, <1>2, <2>2, <2>3
<1>9. ASSUME NEW t \in Threads, NEW j \in Job PROVE <<j>> \in CodesOf(t) <=> j \in Runs(t)
    <2>1. ASSUME <<j>> \in CodesOf(t) PROVE j \in Runs(t)
        <3>1. PICK x \in Runs(t) \cup ({t} \cap Clients) : <<x>> = <<j>> BY <2>1 DEF CodesOf
        <3>2. x = j BY <3>1
        <3> QED BY <1>0, <3>2
    <2> QED BY <2>1 DEF CodesOf
<1> QED BY <1>3, <1>4, <1>5, <1>6, <1>7, <1>8, <1>9 DEF CodeFacts

LEMMA CodesAreNext == IInv' => CodeFacts'
BY CodesAre, PTL

\* How many blocks a range has.
LEMMA BlocksAre ==
    ASSUME NEW num \in Nat
    PROVE  LET size == IF num \div (Size * chunks_per_thread) > 1
                       THEN num \div (Size * chunks_per_thread) ELSE 1
           IN  /\ size \in Nat \ {0}
               /\ (num + size - 1) \div size \in Nat
               /\ DOMAIN Blocks(num) = 1 .. Len(Blocks(num))
               /\ Len(Blocks(num)) = (num + size - 1) \div size
<1> DEFINE p == Size * chunks_per_thread
           size == IF num \div p > 1 THEN num \div p ELSE 1
           K == (num + size - 1) \div size
<1>1. p \in Nat \ {0}
    <2>1. IsFiniteSet(Workers) BY ThreadsAssumption, FS_Subset
    <2>2. Size \in Nat /\ Size # 0
        BY <2>1, WorkersAssumption, FS_EmptySet, FS_CardinalityType DEF Size
    <2> QED BY <2>2, RangesAssumption
<1>2. size \in Nat \ {0}
    <2> HIDE DEF p
    <2>1. num \div p \in Int BY <1>1
    <2> QED BY <2>1
<1> HIDE DEF p
<1>3. K \in Nat
    <2> HIDE DEF size
    <2>1. num + size - 1 \in Nat BY <1>2
    <2> QED BY <1>2, <2>1
<1>4. Blocks(num) = [k \in 1 .. K |-> (k - 1) * size .. Smaller(k * size, num) - 1]
    BY DEF Blocks, p
<1> HIDE DEF size, K
<1>5. Blocks(num) \in [1 .. K -> SUBSET Int] BY <1>2, <1>3, <1>4
<1>6. Blocks(num) \in Seq(SUBSET Int) BY <1>3, <1>5
<1>7. DOMAIN Blocks(num) = 1 .. Len(Blocks(num)) /\ Len(Blocks(num)) \in Nat
    BY <1>6, LenProperties
<1>8. DOMAIN Blocks(num) = 1 .. K BY <1>5
<1>9. Len(Blocks(num)) = K
    <2> DEFINE L == Len(Blocks(num))
    <2>1. L \in Nat /\ 1 .. L = 1 .. K BY <1>7, <1>8
    <2> HIDE DEF L
    <2>2. ~(L < K)
        <3>1. L < K => K \in 1 .. K /\ K \notin 1 .. L BY <1>3, <2>1
        <3> QED BY <2>1, <3>1
    <2>3. ~(K < L)
        <3>1. K < L => L \in 1 .. L /\ L \notin 1 .. K BY <1>3, <2>1
        <3> QED BY <2>1, <3>1
    <2>4. L = K BY <1>3, <2>1, <2>2, <2>3
    <2> QED BY <2>4 DEF L
<1> QED BY <1>2, <1>3, <1>7, <1>9 DEF size, K, p

\* The tasks of a loop.
LEMMA ChildrenAre ==
    ASSUME TypesOK, NEW c
    PROVE  /\ Children(c) \subseteq 1 .. Len(jobs) /\ IsFiniteSet(Children(c)) /\ Tally(c) \in Nat
           /\ Children(c) = {} => Tally(c) = 0
<1>1. jobs \in Seq(JobRecord) BY DEF TypesOK
<1>2. Len(jobs) \in Nat /\ Children(c) \subseteq 1 .. Len(jobs) BY <1>1, LenProperties DEF Children
<1>3. IsFiniteSet(1 .. Len(jobs)) BY <1>2, FS_Interval
<1>4. IsFiniteSet(Children(c)) BY <1>2, <1>3, FS_Subset
<1> QED BY <1>2, <1>4, FS_CardinalityType, FS_EmptySet DEF Tally

-----------------------------------------------------------------------------

\* Steps of the pool that add no task and end none.
LEMMA NestFrame ==
    ASSUME IInv, NestOK, stack' = stack, \A j \in DOMAIN jobs : jobs'[j] = jobs[j],
           \A i \in Ready' : i \in Ready /\ tasks'[i].job = tasks[i].job
    PROVE  NestOK'
<1>1. \A i \in Ready : tasks[i].job \in DOMAIN jobs BY DEF IInv, PlacesOK, Undone
<1>2. \A t \in Threads : \A k \in DOMAIN stack[t] : stack[t][k] \in DOMAIN jobs
    BY DEF IInv, StacksOK, Undone, Runs, Elements
<1> QED BY <1>1, <1>2 DEF NestOK

\* The loops do not move, and one thread does.
LEMMA LoopFrame ==
    ASSUME IInv, LoopInv, NEW t \in Threads, NEW point, pc' = [pc EXCEPT ![t] = point],
           UNCHANGED <<jobs, done, stack, loop, length>>,
           \A i \in Ready' : i \in Ready /\ tasks'[i].job = tasks[i].job,
           MemberFits(t, point, loop[Code(t)], length[Code(t)])
    PROVE  LoopInv'
<1>1. LoopTypes' BY DEF LoopInv, LoopTypes, Codes
<1>2. NestOK' BY NestFrame DEF LoopInv
<1>3. /\ \A u \in Threads : Runs(u)' = Runs(u) /\ CodesOf(u)' = CodesOf(u) /\ Code(u)' = Code(u)
      /\ \A c : Children(c)' = Children(c) /\ Tally(c)' = Tally(c)
    BY DEF Runs, CodesOf, Code, Children, Tally
<1>4. OwnersOK' /\ FreshOK' /\ BelowOK' BY <1>3 DEF LoopInv, OwnersOK, FreshOK, BelowOK
<1>5. TasksOK' BY <1>3 DEF LoopInv, TasksOK, LoopFits, Codes
<1>6. MembersOK'
    <2> SUFFICES ASSUME NEW u \in Threads
                 PROVE  MemberFits(u, pc[u], loop[Code(u)], length[Code(u)])'
        BY DEF MembersOK
    <2>1. pc'[u] = IF u = t THEN point ELSE pc[u] BY DEF IInv, TypesOK, TypeOK
    <2>2. MemberFits(u, pc'[u], loop[Code(u)], length[Code(u)])
        BY <2>1 DEF LoopInv, MembersOK
    <2> QED BY <1>3, <2>2 DEF MemberFits, Codes
<1> QED BY <1>1, <1>2, <1>4, <1>5, <1>6 DEF LoopInv

\* The loop of a thread's own code moves.
LEMMA LoopMoves ==
    ASSUME IInv, LoopInv, NEW t \in Threads, pc[t] \notin Idle, NEW point,
           NEW state \in {"none", "adding", "collecting", "returned", "threw"}, NEW num \in Nat,
           pc' = [pc EXCEPT ![t] = point],
           loop' = [loop EXCEPT ![Code(t)] = state], length' = [length EXCEPT ![Code(t)] = num],
           UNCHANGED <<tasks, jobs, done, stack>>,
           MemberFits(t, point, state, num), LoopFits(Code(t), state, num)
    PROVE  LoopInv'
<1>1. LoopTypes' BY DEF LoopInv, LoopTypes, Codes
<1>2. Ready' = Ready BY DEF Ready, is_ready, is_empty, Slots, Size
<1>3. NestOK' BY <1>2, NestFrame DEF LoopInv
<1>4. /\ \A u \in Threads : Runs(u)' = Runs(u) /\ CodesOf(u)' = CodesOf(u) /\ Code(u)' = Code(u)
      /\ \A c : Children(c)' = Children(c) /\ Tally(c)' = Tally(c)
      /\ Codes' = Codes
    BY DEF Runs, CodesOf, Code, Children, Tally, Codes
<1>5. CodeFacts BY CodesAre
<1>6. \A c \in Codes : /\ loop'[c] = IF c = Code(t) THEN state ELSE loop[c]
                       /\ length'[c] = IF c = Code(t) THEN num ELSE length[c]
    BY DEF LoopInv, LoopTypes
<1>7. Code(t) \in CodesOf(t) BY <1>5 DEF CodeFacts
<1>8. OwnersOK' BY <1>4 DEF LoopInv, OwnersOK
<1>9. FreshOK'
    <2> SUFFICES ASSUME NEW j \in Job, j \notin done, \A u \in Threads : j \notin Runs(u)
                 PROVE  loop'[<<j>>] = "none"
        BY <1>4 DEF FreshOK
    <2>1. <<j>> # Code(t) BY <1>5, <1>7 DEF CodeFacts
    <2>2. <<j>> \in Codes BY DEF Codes
    <2> QED BY <1>6, <2>1, <2>2 DEF LoopInv, FreshOK
<1>10. BelowOK'
    <2> SUFFICES ASSUME NEW u \in Threads, NEW c \in CodesOf(u) \ {Code(u)} PROVE loop'[c] = "adding"
        BY <1>4 DEF BelowOK
    <2>1. c # Code(t) BY <1>5, <1>7 DEF CodeFacts
    <2>2. c \in Codes BY <1>5 DEF CodeFacts
    <2> QED BY <1>6, <2>1, <2>2 DEF LoopInv, BelowOK
<1>11. TasksOK'
    <2> SUFFICES ASSUME NEW c \in Codes PROVE LoopFits(c, loop[c], length[c])'
        BY <1>4 DEF TasksOK
    <2>1. LoopFits(c, loop'[c], length'[c]) BY <1>6 DEF LoopInv, TasksOK
    <2> QED BY <1>4, <2>1 DEF LoopFits
<1>12. MembersOK'
    <2> SUFFICES ASSUME NEW u \in Threads
                 PROVE  MemberFits(u, pc[u], loop[Code(u)], length[Code(u)])'
        BY DEF MembersOK
    <2>1. pc'[u] = IF u = t THEN point ELSE pc[u] BY DEF IInv, TypesOK, TypeOK
    <2>2. CASE u = t
        <3>1. MemberFits(t, pc'[t], loop'[Code(t)], length'[Code(t)])
            BY <1>5, <1>6, <1>7, <2>1, <2>2 DEF CodeFacts
        <3> QED BY <1>4, <2>2, <3>1 DEF MemberFits
    <2>3. CASE u # t /\ Code(u) \in Codes
        <3>1. Code(u) # Code(t) BY <1>5, <1>7, <2>3 DEF CodeFacts
        <3>2. MemberFits(u, pc'[u], loop'[Code(u)], length'[Code(u)])
            BY <1>6, <2>1, <2>3, <3>1 DEF LoopInv, MembersOK
        <3> QED BY <1>4, <3>2 DEF MemberFits
    <2>4. CASE u # t /\ Code(u) \notin Codes
        <3>1. pc'[u] = pc[u] /\ pc[u] \in Idle BY <1>5, <2>1, <2>4 DEF CodeFacts
        <3>2. pc[u] \notin Added /\ pc[u] # "for_all" BY <3>1 DEF Idle, Added
        <3> QED BY <1>4, <2>4, <3>1, <3>2 DEF MemberFits
    <2> QED BY <2>2, <2>3, <2>4
<1> QED BY <1>1, <1>3, <1>8, <1>9, <1>10, <1>11, <1>12 DEF LoopInv

\* What the loop of t knows when t has added a task.
LEMMA LoopAdds ==
    ASSUME IInv, LoopInv, NEW t \in Threads, pc[t] \in Added, NEW id \in Nat,
           jobs' = NewJob(t, id), pc' = [pc EXCEPT ![t] = "user"],
           UNCHANGED <<done, loop, length>>
    PROVE  LET j == Len(jobs) + 1
           IN  /\ j \in Job /\ j \notin DOMAIN jobs /\ DOMAIN jobs' = (DOMAIN jobs) \cup {j}
               /\ \A k \in DOMAIN jobs : jobs'[k] = jobs[k]
               /\ jobs'[j].id = id /\ jobs'[j].thread = t /\ jobs'[j].code = Code(t)
               /\ \A u \in Threads : j \notin Runs(u)
               /\ \A i \in Ready : tasks[i].job # j
               /\ loop[<<j>>] = "none" /\ Children(<<j>>) = {} /\ <<j>> # Code(t)
               /\ loop[Code(t)] = "adding" /\ Code(t) \in CodesOf(t) /\ Code(t) \in Codes
               /\ \A c : c # Code(t) => Children(c)' = Children(c)
               /\ TasksOK'
<1> DEFINE j == Len(jobs) + 1
           r == [thread |-> t, code |-> Code(t), id |-> id]
           a == Code(t)
<1>0. TypesOK /\ jobs \in Seq(JobRecord) BY DEF IInv, TypesOK
<1>1. j <= MaxJobs
    <2>1. Len(jobs') = Len(jobs) + 1 BY <1>0 DEF NewJob
    <2>2. "user" \notin Added BY DEF Added
    <2> QED BY <1>0, <2>1, <2>2, ComingFrame
<1>2. /\ j \in Job /\ j \notin DOMAIN jobs /\ DOMAIN jobs' = (DOMAIN jobs) \cup {j}
      /\ \A k \in DOMAIN jobs : jobs'[k] = jobs[k]
      /\ jobs'[j].id = id /\ jobs'[j].thread = t
    BY <1>0, <1>1, NewJobFacts
<1>3. jobs'[j].code = a
    <2>1. jobs' = Append(jobs, r) BY DEF NewJob
    <2>2. r.code = a OBVIOUS
    <2> HIDE DEF r
    <2>3. jobs'[j] = r BY <1>0, <2>1
    <2> QED BY <2>2, <2>3
<1>4. (\A u \in Threads : j \notin Runs(u)) /\ (\A i \in Ready : tasks[i].job # j)
    BY <1>2, NewJobUnknown
<1>5. pc[t] \notin Idle BY DEF Idle, Added
<1>6. a \in CodesOf(t) /\ a \in Codes BY <1>5, CodesAre DEF CodeFacts
<1>7. loop[a] = "adding" /\ Tally(a) < Len(Blocks(length[a]))
    BY DEF LoopInv, MembersOK, MemberFits
<1> HIDE DEF j, r, a
<1>8. loop[<<j>>] = "none"
    <2>1. j \notin done BY <1>0, <1>2 DEF TypesOK, TypeOK
    <2> QED BY <1>2, <1>4, <2>1 DEF LoopInv, FreshOK
<1>9. <<j>> \in Codes BY <1>2 DEF Codes
<1>10. Children(<<j>>) = {} BY <1>8, <1>9 DEF LoopInv, TasksOK, LoopFits
<1>11. <<j>> # a BY <1>7, <1>8
<1>12. \A c : c # a => Children(c)' = Children(c) BY <1>2, <1>3 DEF Children
<1>13. \A c : c = a => Children(c)' = Children(c) \cup {j} BY <1>2, <1>3 DEF Children
<1>14. TasksOK'
    <2> SUFFICES ASSUME NEW c \in Codes PROVE LoopFits(c, loop[c], length[c])'
        BY DEF TasksOK, Codes
    <2>1. LoopFits(c, loop[c], length[c]) BY DEF LoopInv, TasksOK
    <2>2. CASE c # a
        <3>1. Children(c)' = Children(c) /\ Tally(c)' = Tally(c) BY <1>12, <2>2 DEF Tally
        <3> QED BY <2>1, <3>1 DEF LoopFits
    <2>3. CASE c = a
        <3>1. IsFiniteSet(Children(c)) /\ Tally(c) \in Nat /\ j \notin Children(c)
            BY <1>0, <1>2, ChildrenAre DEF Children
        <3>2. Children(c)' = Children(c) \cup {j} BY <1>13, <2>3
        <3>3. Tally(c)' = Tally(c) + 1
            BY <3>1, <3>2, FS_AddElement DEF Tally
        <3>4. length[c] \in Nat /\ Tally(c) < Len(Blocks(length[c]))
            BY <1>7, <2>3 DEF LoopInv, LoopTypes
        <3>5. Len(Blocks(length[c])) \in Nat BY <3>4, BlocksAre
        <3>6. Tally(c)' <= Len(Blocks(length[c])) BY <3>1, <3>3, <3>4, <3>5
        <3>7. Len(Blocks(length[c]))' = Len(Blocks(length[c])) BY DEF Blocks, Size
        <3> QED BY <1>7, <2>3, <3>6, <3>7 DEF LoopFits
    <2> QED BY <2>2, <2>3
<1> QED BY <1>2, <1>3, <1>4, <1>6, <1>7, <1>8, <1>10, <1>11, <1>12, <1>14 DEF j, a

\* Every other thread still has its own tasks to wait for.
LEMMA OthersFit ==
    ASSUME IInv, LoopInv, NEW t \in Threads, NEW point, pc' = [pc EXCEPT ![t] = point],
           UNCHANGED <<loop, length>>, done \subseteq done',
           \A u \in Threads \ {t} : stack'[u] = stack[u],
           pc[t] \in Idle \/ \A c : c # Code(t) => Children(c)' = Children(c),
           pc[t] \in Idle => \A c : Children(c)' = Children(c),
           NEW u \in Threads \ {t}
    PROVE  MemberFits(u, pc[u], loop[Code(u)], length[Code(u)])'
<1>1. pc'[u] = pc[u] BY DEF IInv, TypesOK, TypeOK
<1>2. Code(u)' = Code(u) /\ Codes' = Codes BY DEF Code, Codes
<1>3. MemberFits(u, pc[u], loop[Code(u)], length[Code(u)]) BY DEF LoopInv, MembersOK
<1>4. CodeFacts BY CodesAre
<1>5. CASE Code(u) \in Codes
    <2>1. pc[t] \notin Idle => Code(u) # Code(t) BY <1>4, <1>5 DEF CodeFacts
    <2>2. Children(Code(u))' = Children(Code(u)) BY <2>1, <1>2
    <2>3. Tally(Code(u))' = Tally(Code(u)) BY <2>2, <1>2 DEF Tally
    <2> QED BY <1>1, <1>2, <1>3, <2>2, <2>3 DEF MemberFits
<1>6. CASE Code(u) \notin Codes
    <2>1. pc[u] \in Idle BY <1>4, <1>6 DEF CodeFacts
    <2>2. pc[u] \notin Added /\ pc[u] # "for_all" BY <2>1 DEF Idle, Added
    <2> QED BY <1>1, <1>2, <1>6, <2>2 DEF MemberFits
<1> QED BY <1>5, <1>6

LEMMA LoopPlaces ==
    ASSUME IInv, LoopInv, NEW t \in Threads, pc[t] \in Added, Places(t), UNCHANGED <<loop, length>>
    PROVE  LoopInv'
<1> DEFINE i  == First(Empty)
           id == make_next_task_id(i)
           j  == Len(jobs) + 1
<1>0. TypesOK BY DEF IInv
<1>1. /\ tasks \in [Slots -> Bucket] /\ i \in Empty /\ i \in Slots /\ i \in Nat
      /\ tasks' = [tasks EXCEPT ![i].thread_id = t, ![i].task_id = id,
                                ![i].next_task_id = @ + 1, ![i].job = j]
      /\ jobs' = NewJob(t, id)
      /\ pc' = [pc EXCEPT ![t] = "user"]
      /\ UNCHANGED <<stack, done>>
    BY <1>0, BucketTypes, FirstSlots DEF Places, Moves, Empty
<1> HIDE DEF i
<1>2. id \in Nat /\ id > 1
    <2>1. tasks[i].next_task_id \in Nat \ {0, 1} BY <1>1 DEF Bucket
    <2>2. i \in 0 .. Size - 1 BY <1>1 DEF Slots
    <2> QED BY <2>1, <2>2, SizeNat, Ids DEF make_next_task_id
<1> HIDE DEF id
<1>3. tasks'[i].job = j /\ \A k \in Slots \ {i} : tasks'[k] = tasks[k]
    BY <1>1 DEF Bucket
<1> HIDE DEF j
<1>4. /\ DOMAIN jobs' = (DOMAIN jobs) \cup {j}
      /\ \A k \in DOMAIN jobs : jobs'[k] = jobs[k]
      /\ jobs'[j].id = id /\ jobs'[j].thread = t /\ jobs'[j].code = Code(t)
      /\ Code(t) \in CodesOf(t) /\ loop[Code(t)] = "adding"
      /\ \A c : c # Code(t) => Children(c)' = Children(c)
      /\ TasksOK'
    BY <1>1, <1>2, LoopAdds DEF j
<1>5. LoopTypes' BY DEF LoopInv, LoopTypes, Codes
<1>6. \A k \in Ready' : k = i \/ k \in Ready
    BY <1>3 DEF Ready, is_ready, is_empty, Slots, Size
<1>7. /\ \A k \in Ready : tasks[k].job \in DOMAIN jobs /\ k # i
      /\ \A u \in Threads : \A k \in DOMAIN stack[u] : stack[u][k] \in DOMAIN jobs
    BY <1>1 DEF IInv, PlacesOK, StacksOK, Undone, Runs, Elements, Ready, is_ready, Empty
<1>8. NestOK'
    <2>1. \A k \in Ready' : jobs'[tasks'[k].job].id # 1
        <3> TAKE k \in Ready'
        <3>1. CASE k = i BY <1>2, <1>3, <1>4, <3>1
        <3>2. CASE k # i
            <4>1. k \in Ready /\ k \in Slots BY <1>6, <3>2 DEF Ready
            <4>2. tasks'[k] = tasks[k] BY <1>3, <3>2, <4>1
            <4> QED BY <1>4, <1>7, <4>1, <4>2 DEF LoopInv, NestOK
        <3> QED BY <3>1, <3>2
    <2>2. stack' = stack BY <1>1
    <2> QED BY <1>4, <1>7, <2>1, <2>2 DEF LoopInv, NestOK
<1>9. \A u \in Threads : Runs(u)' = Runs(u) /\ CodesOf(u)' = CodesOf(u) /\ Code(u)' = Code(u)
    BY <1>1 DEF Runs, CodesOf, Code
<1>10. CodeFacts BY CodesAre
<1>11. OwnersOK' BY <1>4, <1>9, <1>10 DEF LoopInv, OwnersOK, CodeFacts
<1>12. FreshOK' /\ BelowOK' BY <1>1, <1>9 DEF LoopInv, FreshOK, BelowOK
<1>13. MembersOK'
    <2> SUFFICES ASSUME NEW u \in Threads
                 PROVE  MemberFits(u, pc[u], loop[Code(u)], length[Code(u)])'
        BY DEF MembersOK
    <2>1. pc[t] \notin Idle BY DEF Idle, Added
    <2>2. CASE u # t BY <1>1, <1>4, <2>1, <2>2, OthersFit
    <2>3. CASE u = t
        <3>1. pc'[t] = "user" /\ "user" \notin Added BY <1>0, <1>1 DEF TypesOK, TypeOK, Added
        <3>2. loop[Code(t)]' = "adding" BY <1>4, <1>9
        <3> QED BY <2>3, <3>1, <3>2 DEF MemberFits
    <2> QED BY <2>2, <2>3
<1> QED BY <1>4, <1>5, <1>8, <1>11, <1>12, <1>13 DEF LoopInv

LEMMA LoopRunsItself ==
    ASSUME IInv, LoopInv, NEW t \in Threads, pc[t] = "add", RunsItself(t), UNCHANGED <<loop, length>>
    PROVE  LoopInv'
<1> DEFINE j == Len(jobs) + 1
<1>0. TypesOK /\ stack \in [Threads -> Seq(Job)] BY DEF IInv, TypesOK, TypeOK
<1>1. /\ jobs' = NewJob(t, 1)
      /\ stack' = [stack EXCEPT ![t] = Append(stack[t], j)]
      /\ pc' = [pc EXCEPT ![t] = "user"]
      /\ UNCHANGED <<tasks, done>>
      /\ pc[t] \in Added
    BY DEF RunsItself, Moves, pool, Added
<1> HIDE DEF j
<1>4. /\ j \in Job /\ j \notin DOMAIN jobs /\ DOMAIN jobs' = (DOMAIN jobs) \cup {j}
      /\ \A k \in DOMAIN jobs : jobs'[k] = jobs[k]
      /\ jobs'[j].id = 1 /\ jobs'[j].thread = t /\ jobs'[j].code = Code(t)
      /\ \A u \in Threads : j \notin Runs(u)
      /\ loop[<<j>>] = "none" /\ Children(<<j>>) = {} /\ <<j>> # Code(t)
      /\ Code(t) \in CodesOf(t) /\ loop[Code(t)] = "adding"
      /\ \A c : c # Code(t) => Children(c)' = Children(c)
      /\ TasksOK'
    BY <1>1, LoopAdds DEF j
<1>5. LoopTypes' BY DEF LoopInv, LoopTypes, Codes
<1>6. stack[t] \in Seq(Job) /\ \A u \in Threads \ {t} : stack'[u] = stack[u] BY <1>0, <1>1
<1>7. LET r == Append(stack[t], j)
      IN  /\ stack'[t] = r
          /\ DOMAIN r = 1 .. Len(stack[t]) + 1 /\ DOMAIN stack[t] = 1 .. Len(stack[t])
          /\ \A k \in DOMAIN stack[t] : r[k] = stack[t][k]
          /\ Len(r) = Len(stack[t]) + 1 /\ r[Len(stack[t]) + 1] = j /\ r # <<>>
          /\ Elements(r) = Elements(stack[t]) \cup {j}
          /\ Len(stack[t]) \in Nat
    <2>1. stack'[t] = Append(stack[t], j) BY <1>0, <1>1
    <2>2. Elements(Append(stack[t], j)) = Elements(stack[t]) \cup {j} BY <1>4, <1>6, Push
    <2>3. Len(stack[t]) \in Nat /\ DOMAIN stack[t] = 1 .. Len(stack[t]) BY <1>6, LenProperties
    <2> QED BY <1>4, <1>6, <2>1, <2>2, <2>3
<1>8. /\ \A u \in Threads \ {t} : Runs(u)' = Runs(u) /\ CodesOf(u)' = CodesOf(u) /\ Code(u)' = Code(u)
      /\ Runs(t)' = Runs(t) \cup {j} /\ CodesOf(t)' = CodesOf(t) \cup {<<j>>}
      /\ Code(t)' = <<j>>
    <2>1. Runs(t)' = Runs(t) \cup {j} BY <1>7 DEF Runs
    <2>2. CodesOf(t)' = CodesOf(t) \cup {<<j>>} BY <2>1 DEF CodesOf
    <2>3. Code(t)' = <<j>> BY <1>7 DEF Code
    <2> QED BY <1>6, <2>1, <2>2, <2>3 DEF Runs, CodesOf, Code
<1>9. CodeFacts BY CodesAre
<1>10. pc[t] \notin Idle BY DEF Idle
<1>11. NestOK'
    <2>1. \A k \in Ready' : jobs'[tasks'[k].job].id # 1
        <3>1. Ready' = Ready BY <1>1 DEF Ready, is_ready, is_empty, Slots, Size
        <3>2. \A k \in Ready : tasks[k].job \in DOMAIN jobs BY DEF IInv, PlacesOK, Undone
        <3> QED BY <1>1, <1>4, <3>1, <3>2 DEF LoopInv, NestOK
    <2>2. \A u \in Threads : \A k \in DOMAIN stack[u] : stack[u][k] \in DOMAIN jobs
        BY DEF IInv, StacksOK, Undone, Runs, Elements
    <2>3. ASSUME NEW u \in Threads, NEW k \in DOMAIN stack'[u]
          PROVE  LET job == jobs'[stack'[u][k]]
                 IN  IF k > 1 THEN job.code = <<stack'[u][k - 1]>>
                     ELSE IF u \in Clients THEN job.code = <<u>> ELSE job.id # 1
        <3>1. CASE u # t
            <4>1. stack'[u] = stack[u] BY <1>6, <3>1
            <4> QED BY <1>4, <2>2, <2>3, <4>1 DEF LoopInv, NestOK
        <3>2. CASE u = t /\ k \in DOMAIN stack[t]
            <4>1. stack'[t][k] = stack[t][k] /\ k \in 1 .. Len(stack[t]) BY <1>7, <3>2
            <4>2. k > 1 => k - 1 \in DOMAIN stack[t] BY <1>7, <4>1
            <4>3. k > 1 => stack'[t][k - 1] = stack[t][k - 1] BY <1>7, <4>2
            <4> QED BY <1>4, <2>2, <3>2, <4>1, <4>3 DEF LoopInv, NestOK
        <3>3. CASE u = t /\ k \notin DOMAIN stack[t]
            <4>1. k = Len(stack[t]) + 1 /\ stack'[t][k] = j BY <1>7, <2>3, <3>3
            <4>2. CASE stack[t] = <<>>
                <5>1. t \in Clients BY <1>10, <4>2 DEF IInv, WorkersOK, Threads
                <5>2. Code(t) = <<t>> /\ ~(k > 1) BY <4>1, <4>2 DEF Code
                <5> QED BY <1>4, <3>3, <4>1, <5>1, <5>2
            <4>3. CASE stack[t] # <<>>
                <5>1. Code(t) = <<stack[t][Len(stack[t])]>> BY <4>3 DEF Code
                <5>2. Len(stack[t]) # 0 BY <1>6, <4>3, EmptySeq
                <5>3. k > 1 /\ k - 1 = Len(stack[t]) /\ k - 1 \in DOMAIN stack[t] BY <1>7, <4>1, <5>2
                <5>4. stack'[t][k - 1] = stack[t][Len(stack[t])] BY <1>7, <5>3
                <5> QED BY <1>4, <3>3, <4>1, <5>1, <5>3, <5>4
            <4> QED BY <4>2, <4>3
        <3> QED BY <3>1, <3>2, <3>3
    <2> QED BY <2>1, <2>3 DEF NestOK
<1>12. OwnersOK'
    <2> SUFFICES ASSUME NEW u \in Threads, NEW k \in DOMAIN jobs', jobs'[k].code \in CodesOf(u)'
                 PROVE  jobs'[k].thread = u
        BY DEF OwnersOK
    <2>1. CASE k = j
        <3>1. Code(t) \in CodesOf(u) BY <1>4, <1>8, <2>1
        <3> QED BY <1>4, <1>9, <2>1, <3>1 DEF CodeFacts
    <2>2. CASE k # j
        <3>1. k \in DOMAIN jobs /\ jobs'[k] = jobs[k] BY <1>4, <2>2
        <3>2. jobs[k].code # <<j>> BY <1>4, <3>1 DEF Children
        <3>3. jobs[k].code \in CodesOf(u) BY <1>8, <3>1, <3>2
        <3> QED BY <3>1, <3>3 DEF LoopInv, OwnersOK
    <2> QED BY <2>1, <2>2
<1>13. FreshOK' BY <1>1, <1>8 DEF LoopInv, FreshOK
<1>14. BelowOK' BY <1>4, <1>8 DEF LoopInv, BelowOK
<1>15. MembersOK'
    <2> SUFFICES ASSUME NEW u \in Threads
                 PROVE  MemberFits(u, pc[u], loop[Code(u)], length[Code(u)])'
        BY DEF MembersOK
    <2>1. CASE u # t BY <1>1, <1>4, <1>6, <1>10, <2>1, OthersFit
    <2>2. CASE u = t
        <3>1. pc'[t] = "user" /\ "user" \notin Added BY <1>0, <1>1 DEF TypesOK, TypeOK, Added
        <3>2. loop[Code(t)]' = "none" BY <1>4, <1>8
        <3> QED BY <2>2, <3>1, <3>2 DEF MemberFits
    <2> QED BY <2>1, <2>2
<1> QED BY <1>4, <1>5, <1>11, <1>12, <1>13, <1>14, <1>15 DEF LoopInv

LEMMA LoopTaskEnds ==
    ASSUME IInv, LoopInv, NEW t \in Threads, TaskEnds(t), UNCHANGED <<loop, length>>
    PROVE  LoopInv'
<1> PICK throws \in BOOLEAN : EndTask(t, throws) \/ EndOwnTask(t, throws) BY DEF TaskEnds
<1> DEFINE j == stack[t][Len(stack[t])]
<1>1. Ends(t, throws) /\ jobs' = jobs /\ pc[t] = "user" BY DEF EndTask, EndOwnTask, Ends
<1>2. PICK point \in {"user", "seeking"} : pc' = [pc EXCEPT ![t] = point]
    <2>1. CASE EndTask(t, throws) BY <2>1 DEF EndTask, Moves
    <2>2. CASE EndOwnTask(t, throws)
        <3>1. pc' = pc /\ pc = [pc EXCEPT ![t] = "user"]
            BY <1>1, <2>2 DEF EndOwnTask, IInv, TypesOK, TypeOK
        <3> QED BY <3>1
    <2> QED BY <2>1, <2>2
<1>3. /\ stack'[t] = SubSeq(stack[t], 1, Len(stack[t]) - 1)
      /\ \A u \in Threads \ {t} : stack'[u] = stack[u]
      /\ j \in Runs(t) /\ j \in Undone
      /\ \A u \in Threads : Runs(u)' = Runs(u) \ {j}
      /\ stack[t] \in Seq(Job) /\ stack[t] # <<>>
      /\ done' = done \cup {j}
    BY <1>1, EndsFacts
<1>4. \A k \in Ready' : k \in Ready /\ tasks'[k].job = tasks[k].job
    <2>1. Slots' = Slots BY DEF Slots, Size
    <2>2. CASE EndTask(t, throws)
        <3>1. bucket[t] \in Slots
            <4>1. t \in Busy BY <1>3, <2>2 DEF EndTask, Busy
            <4> QED BY <4>1 DEF IInv, WorkersOK
        <3>2. tasks \in [Slots -> Bucket] BY BucketTypes DEF IInv
        <3>3. /\ \A k \in Slots \ {bucket[t]} : tasks'[k] = tasks[k]
              /\ tasks'[bucket[t]].task_id = 0
            BY <2>2, <3>1, <3>2 DEF EndTask, Bucket
        <3> QED BY <2>1, <3>3 DEF Ready, is_ready, is_empty
    <2>3. CASE EndOwnTask(t, throws) BY <2>1, <2>3 DEF EndOwnTask, Ready, is_ready, is_empty
    <2> QED BY <2>2, <2>3
<1>5. /\ Len(stack[t]) \in Nat /\ Len(stack[t]) > 0
      /\ DOMAIN stack'[t] = 1 .. Len(stack[t]) - 1 /\ DOMAIN stack[t] = 1 .. Len(stack[t])
      /\ \A k \in DOMAIN stack'[t] : stack'[t][k] = stack[t][k]
    <2>1. Len(stack[t]) \in Nat /\ Len(stack[t]) > 0 /\ DOMAIN stack[t] = 1 .. Len(stack[t])
        BY <1>3, EmptySeq, LenProperties
    <2>2. \A k \in 1 .. Len(stack[t]) - 1 : stack[t][k] \in Job BY <1>3, <2>1
    <2>3. SubSeq(stack[t], 1, Len(stack[t]) - 1) = [k \in 1 .. Len(stack[t]) - 1 |-> stack[t][k]]
        BY <1>3, <2>1
    <2> QED BY <1>3, <2>1, <2>3
<1>6. CodeFacts /\ CodeFacts'
    <2>1. IInv' BY EndTaskKept, EndOwnTaskKept
    <2> QED BY <2>1, CodesAre, CodesAreNext
<1>7. j \in Job BY <1>3, <1>5
<1>8. /\ \A u \in Threads \ {t} : Code(u)' = Code(u)
      /\ \A u \in Threads : \A c \in CodesOf(u)' : c \in CodesOf(u) /\ c # Code(t)
      /\ Code(t) = <<j>>
    <2>1. Code(t) = <<j>> BY <1>3, <1>6 DEF CodeFacts
    <2>2. \A u \in Threads \ {t} : Code(u)' = Code(u) BY <1>3 DEF Code
    <2>3. \A u \in Threads : CodesOf(u)' \subseteq CodesOf(u) BY <1>3 DEF CodesOf
    <2>4. \A u \in Threads : Code(t) \notin CodesOf(u)'
        <3> TAKE u \in Threads
        <3>1. j \notin Runs(u)' BY <1>3
        <3>2. <<j>> \in CodesOf(u)' <=> j \in Runs(u)' BY <1>6, <1>7 DEF CodeFacts, Job
        <3> QED BY <2>1, <3>1, <3>2
    <2> QED BY <2>1, <2>2, <2>3, <2>4
<1> HIDE DEF j
<1>9. NestOK'
    <2>1. \A k \in Ready' : jobs'[tasks'[k].job].id # 1 BY <1>1, <1>4 DEF LoopInv, NestOK
    <2>2. ASSUME NEW u \in Threads, NEW k \in DOMAIN stack'[u]
          PROVE  LET job == jobs'[stack'[u][k]]
                 IN  IF k > 1 THEN job.code = <<stack'[u][k - 1]>>
                     ELSE IF u \in Clients THEN job.code = <<u>> ELSE job.id # 1
        <3>1. CASE u # t BY <1>1, <1>3, <2>2, <3>1 DEF LoopInv, NestOK
        <3>2. CASE u = t
            <4>1. k \in DOMAIN stack[t] /\ stack'[t][k] = stack[t][k] BY <1>5, <2>2, <3>2
            <4>2. k > 1 => k - 1 \in DOMAIN stack'[t] BY <1>5, <2>2, <3>2
            <4>3. k > 1 => stack'[t][k - 1] = stack[t][k - 1] BY <1>5, <4>2
            <4> QED BY <1>1, <3>2, <4>1, <4>3 DEF LoopInv, NestOK
        <3> QED BY <3>1, <3>2
    <2> QED BY <2>1, <2>2 DEF NestOK
<1>10. LoopTypes' BY DEF LoopInv, LoopTypes, Codes
<1>11. OwnersOK' BY <1>1, <1>8 DEF LoopInv, OwnersOK
<1>12. FreshOK' BY <1>3 DEF LoopInv, FreshOK
<1>13. \A c : Children(c)' = Children(c) /\ Tally(c)' = Tally(c) BY <1>1 DEF Children, Tally
<1>14. \A c \in CodesOf(t)' : loop[c] = "adding" BY <1>8 DEF LoopInv, BelowOK
<1>15. BelowOK' BY <1>8, <1>14 DEF LoopInv, BelowOK
<1>16. TasksOK' BY <1>3, <1>13 DEF LoopInv, TasksOK, LoopFits, Codes, Blocks, Size
<1>17. MembersOK'
    <2> SUFFICES ASSUME NEW u \in Threads
                 PROVE  MemberFits(u, pc[u], loop[Code(u)], length[Code(u)])'
        BY DEF MembersOK
    <2>1. CASE u # t BY <1>2, <1>3, <1>13, <2>1, OthersFit
    <2>2. CASE u = t
        <3>1. pc'[t] \in {"user", "seeking"} BY <1>2 DEF IInv, TypesOK, TypeOK
        <3>2. pc'[t] \notin Added /\ pc'[t] # "for_all" BY <3>1 DEF Added
        <3>3. (Code(t) \in Codes)' => (Code(t) \in CodesOf(t))' BY <1>6 DEF CodeFacts
        <3>4. (Code(t) \in Codes)' => loop'[Code(t)'] = "adding" BY <1>14, <3>3
        <3> QED BY <2>2, <3>2, <3>4 DEF MemberFits
    <2> QED BY <2>1, <2>2
<1> QED BY <1>9, <1>10, <1>11, <1>12, <1>15, <1>16, <1>17 DEF LoopInv

LEMMA LoopBegins ==
    ASSUME IInv, LoopInv, NEW t \in Threads, pc[t] = "seeking", Ready # {},
           Begins(t, First(Ready)), UNCHANGED <<loop, length>>
    PROVE  LoopInv'
<1> DEFINE i == First(Ready)
           j == tasks[i].job
<1>0. TypesOK /\ stack \in [Threads -> Seq(Job)] BY DEF IInv, TypesOK, TypeOK
<1>1. /\ tasks \in [Slots -> Bucket] /\ i \in Ready /\ i \in Slots
      /\ tasks' = [tasks EXCEPT ![i].is_being_processed = TRUE]
      /\ stack' = [stack EXCEPT ![t] = <<j>>]
      /\ pc' = [pc EXCEPT ![t] = "user"]
      /\ UNCHANGED <<jobs, done>>
    BY <1>0, BucketTypes, FirstSlots DEF Begins, Moves, Ready, history
<1> HIDE DEF i
<1>2. \A k \in Ready' : k \in Ready /\ tasks'[k].job = tasks[k].job
    <2>1. \A k \in Slots : /\ tasks'[k].task_id = tasks[k].task_id
                           /\ tasks'[k].job = tasks[k].job
                           /\ tasks[k].is_being_processed => tasks'[k].is_being_processed
        BY <1>1 DEF Bucket
    <2>2. Slots' = Slots BY DEF Slots, Size
    <2> QED BY <2>1, <2>2 DEF Ready, is_ready, is_empty
<1>3. t \in Workers /\ t \notin Clients /\ stack[t] = <<>> /\ pc[t] \in Idle
    BY ThreadsAssumption DEF IInv, WorkersOK, Looking, Idle
<1>4. j \in DOMAIN jobs /\ j \notin done /\ (\A u \in Threads : j \notin Runs(u)) /\ jobs[j].id # 1
    BY <1>1 DEF IInv, PlacesOK, Undone, LoopInv, NestOK
<1>5. j \in Job
    <2>1. DOMAIN jobs = 1 .. Len(jobs) /\ Len(jobs) \in Nat /\ Len(jobs) <= MaxJobs
        BY <1>0, LenProperties DEF TypesOK, TypeOK
    <2> QED BY <1>4, <2>1, JobsAssumption DEF Job
<1> HIDE DEF j
<1>6. <<j>> \in Codes /\ loop[<<j>>] = "none" /\ Children(<<j>>) = {}
    <2>1. <<j>> \in Codes BY <1>5 DEF Codes
    <2>2. loop[<<j>>] = "none" BY <1>4, <1>5 DEF LoopInv, FreshOK
    <2> QED BY <2>1, <2>2 DEF LoopInv, TasksOK, LoopFits
<1>7. /\ stack'[t] = <<j>> /\ \A u \in Threads \ {t} : stack'[u] = stack[u]
      /\ DOMAIN stack'[t] = {1} /\ stack'[t][1] = j
    BY <1>0, <1>1
<1>8. /\ \A u \in Threads \ {t} : Runs(u)' = Runs(u) /\ CodesOf(u)' = CodesOf(u) /\ Code(u)' = Code(u)
      /\ Runs(t) = {} /\ Runs(t)' = {j} /\ CodesOf(t)' = {<<j>>} /\ Code(t)' = <<j>>
    <2>1. Runs(t)' = {j} BY <1>7 DEF Runs, Elements
    <2>2. CodesOf(t)' = {<<j>>} BY <1>3, <2>1 DEF CodesOf
    <2>3. Code(t)' = <<j>>
        <3>1. <<j>> # <<>> /\ Len(<<j>>) = 1 OBVIOUS
        <3> QED BY <1>7, <3>1 DEF Code
    <2>4. Runs(t) = {} BY <1>3 DEF Runs, Elements
    <2> QED BY <1>7, <2>1, <2>2, <2>3, <2>4 DEF Runs, CodesOf, Code
<1>9. LoopTypes' BY DEF LoopInv, LoopTypes, Codes
<1>10. NestOK'
    <2>1. \A k \in Ready' : jobs'[tasks'[k].job].id # 1 BY <1>1, <1>2 DEF LoopInv, NestOK
    <2>2. ASSUME NEW u \in Threads, NEW k \in DOMAIN stack'[u]
          PROVE  LET job == jobs'[stack'[u][k]]
                 IN  IF k > 1 THEN job.code = <<stack'[u][k - 1]>>
                     ELSE IF u \in Clients THEN job.code = <<u>> ELSE job.id # 1
        <3>1. CASE u # t BY <1>1, <1>7, <2>2, <3>1 DEF LoopInv, NestOK
        <3>2. CASE u = t
            <4>1. k = 1 /\ stack'[t][k] = j BY <1>7, <2>2, <3>2
            <4> QED BY <1>1, <1>3, <1>4, <3>2, <4>1
        <3> QED BY <3>1, <3>2
    <2> QED BY <2>1, <2>2 DEF NestOK
<1>11. OwnersOK'
    <2>1. \A k \in DOMAIN jobs : jobs[k].code # <<j>> BY <1>6 DEF Children
    <2> QED BY <1>1, <1>8, <2>1 DEF LoopInv, OwnersOK
<1>12. FreshOK' BY <1>1, <1>8 DEF LoopInv, FreshOK
<1>13. BelowOK' BY <1>8 DEF LoopInv, BelowOK
<1>14. \A c : Children(c)' = Children(c) /\ Tally(c)' = Tally(c) BY <1>1 DEF Children, Tally
<1>15. TasksOK' BY <1>1, <1>14 DEF LoopInv, TasksOK, LoopFits, Codes, Blocks, Size
<1>16. MembersOK'
    <2> SUFFICES ASSUME NEW u \in Threads
                 PROVE  MemberFits(u, pc[u], loop[Code(u)], length[Code(u)])'
        BY DEF MembersOK
    <2>1. CASE u # t BY <1>1, <1>3, <1>7, <1>14, <2>1, OthersFit
    <2>2. CASE u = t
        <3>1. pc'[t] = "user" /\ "user" \notin Added BY <1>0, <1>1 DEF TypesOK, TypeOK, Added
        <3>2. loop'[Code(t)'] = "none" BY <1>6, <1>8
        <3> QED BY <2>2, <3>1, <3>2 DEF MemberFits
    <2> QED BY <2>1, <2>2
<1> QED BY <1>9, <1>10, <1>11, <1>12, <1>13, <1>15, <1>16 DEF LoopInv

\* When wait_for_all_tasks ends, the tasks of the code that called it are done: those in
\* the buckets as the wait looked for them, the others because their thread ran them.
LEMMA Collected ==
    ASSUME IInv, TimeInv, LoopInv, NEW t \in Threads, pc[t] = "for_all", TasksOf(t) = {}
    PROVE  Children(Code(t)) \subseteq done
<1> SUFFICES ASSUME NEW j \in Children(Code(t)), j \notin done PROVE FALSE OBVIOUS
<1>1. j \in Undone /\ j \in DOMAIN jobs /\ jobs[j].code = Code(t) BY DEF Children, Undone
<1>2. CodeFacts BY CodesAre
<1>3. Code(t) \in CodesOf(t) BY <1>2 DEF CodeFacts, Idle
<1>4. jobs[j].thread = t BY <1>1, <1>3 DEF LoopInv, OwnersOK
<1>5. jobs[j].id = 1
    <2> SUFFICES ASSUME jobs[j].id # 1 PROVE FALSE OBVIOUS
    <2>1. PICK i \in Slots \ Empty : Holds(i, j) BY <1>1 DEF TimeInv, IdsOK
    <2> QED BY <1>4, <2>1 DEF TasksOf, Holds
<1>6. \A i \in Ready : tasks[i].job # j BY <1>5 DEF LoopInv, NestOK
<1>13. PICK u \in Threads : j \in Runs(u) BY <1>1, <1>6 DEF IInv, PlacesOK
<1>7. PICK k \in DOMAIN stack[u] : stack[u][k] = j BY <1>13 DEF Runs, Elements
<1>8. stack[u] \in Seq(Job) /\ NoRepeat(stack[u])
    BY DEF IInv, TypesOK, TypeOK, StacksOK
<1>9. Len(stack[u]) \in Nat /\ DOMAIN stack[u] = 1 .. Len(stack[u]) /\ stack[u] # <<>>
    BY <1>7, <1>8, LenProperties
<1>10. Code(u) = <<stack[u][Len(stack[u])]>> BY <1>2, <1>9 DEF CodeFacts
<1>11. CASE k > 1
    <2>1. Code(t) = <<stack[u][k - 1]>> BY <1>1, <1>7, <1>11 DEF LoopInv, NestOK
    <2>2. k - 1 \in DOMAIN stack[u] /\ Len(stack[u]) \in DOMAIN stack[u] BY <1>7, <1>9, <1>11
    <2>3. Code(t) \in CodesOf(u) BY <2>1, <2>2 DEF CodesOf, Runs, Elements
    <2>4. t = u BY <1>2, <1>3, <2>3 DEF CodeFacts
    <2>5. stack[u][k - 1] = stack[u][Len(stack[u])] BY <1>10, <2>1, <2>4
    <2>6. k - 1 = Len(stack[u]) BY <1>8, <2>2, <2>5 DEF NoRepeat
    <2> QED BY <1>7, <1>9, <2>6
<1>12. CASE ~(k > 1)
    <2>1. u \in Clients /\ Code(t) = <<u>> BY <1>1, <1>5, <1>7, <1>12 DEF LoopInv, NestOK
    <2>2. Code(t) \in CodesOf(u) BY <2>1 DEF CodesOf
    <2>3. t = u BY <1>2, <1>3, <2>2 DEF CodeFacts
    <2>4. u = stack[u][Len(stack[u])] BY <1>10, <2>1, <2>3
    <2>5. Len(stack[u]) \in DOMAIN stack[u] BY <1>7, <1>9
    <2>6. u \in Job BY <1>8, <2>4, <2>5
    <2> QED BY <2>6, CodesAssumption
<1> QED BY <1>11, <1>12

\* What the pool does by itself.
LEMMA LoopPool ==
    ASSUME IInv, TimeInv, LoopInv, NEW t \in Threads, PoolStep(t), UNCHANGED <<loop, length>>
    PROVE  LoopInv'
<1>0. /\ pc \in [Threads -> Position] /\ tasks \in [Slots -> Bucket] /\ Slots' = Slots
    BY BucketTypes DEF IInv, TypesOK, TypeOK, Slots, Size
<1>1. MemberFits(t, pc[t], loop[Code(t)], length[Code(t)]) BY DEF LoopInv, MembersOK
<1>2. ASSUME NEW point, pc' = [pc EXCEPT ![t] = point], UNCHANGED <<stack, jobs, done>>,
             \A k \in Ready' : k \in Ready /\ tasks'[k].job = tasks[k].job,
             MemberFits(t, point, loop[Code(t)], length[Code(t)])
      PROVE  LoopInv'
    BY <1>2, LoopFrame
<1>3. ASSUME tasks' = tasks PROVE \A k \in Ready' : k \in Ready /\ tasks'[k].job = tasks[k].job
    BY <1>0, <1>3 DEF Ready, is_ready, is_empty
<1>4. ASSUME Propagates(t), MemberFits(t, "user", loop[Code(t)], length[Code(t)]) PROVE LoopInv'
    <2>1. First(Failed) \in Slots BY FirstSlots, <1>4 DEF Propagates, Failed
    <2>2. \A k \in Slots : /\ tasks'[k].task_id = tasks[k].task_id
                           /\ tasks'[k].job = tasks[k].job
                           /\ tasks'[k].is_being_processed = tasks[k].is_being_processed
        BY <1>0, <1>4, <2>1 DEF Propagates, Bucket
    <2>3. \A k \in Ready' : k \in Ready /\ tasks'[k].job = tasks[k].job
        BY <1>0, <2>2 DEF Ready, is_ready, is_empty
    <2> QED BY <1>2, <1>4, <2>3 DEF Propagates, Moves
<1>5. ASSUME NEW point, Sleeps(t, point), MemberFits(t, point, loop[Code(t)], length[Code(t)])
      PROVE  LoopInv'
    <2>1. tasks' = tasks /\ UNCHANGED <<stack, jobs, done>> /\ pc' = [pc EXCEPT ![t] = point]
        BY <1>5 DEF Sleeps, Moves, pool, history
    <2> QED BY <1>2, <1>3, <1>5, <2>1
<1>6. "user" \notin Added /\ "adding" \in Added BY DEF Added
<1>7. CASE AddTask(t) \/ AddingAwake(t)
    <2>1. pc[t] \in Added BY <1>7 DEF AddTask, AddingAwake, Added
    <2>2. /\ MemberFits(t, "user", loop[Code(t)], length[Code(t)])
          /\ MemberFits(t, "adding", loop[Code(t)], length[Code(t)])
        BY <1>1, <1>6, <2>1 DEF MemberFits
    <2>3. CASE Propagates(t) BY <1>4, <2>2, <2>3
    <2>4. CASE Places(t) BY <2>1, <2>4, LoopPlaces
    <2>5. CASE pc[t] = "add" /\ RunsItself(t) BY <2>5, LoopRunsItself
    <2>6. CASE Sleeps(t, "adding") BY <1>5, <2>2, <2>6
    <2> QED BY <1>7, <2>3, <2>4, <2>5, <2>6 DEF AddTask, AddingAwake
<1>8. CASE WaitForTask(t)
    <2>1. pc[t] = "for_task" BY <1>8 DEF WaitForTask
    <2>2. /\ MemberFits(t, "user", loop[Code(t)], length[Code(t)])
          /\ MemberFits(t, "for_task", loop[Code(t)], length[Code(t)])
        BY <1>1, <1>6, <2>1 DEF MemberFits
    <2>3. CASE Propagates(t) BY <1>4, <2>2, <2>3
    <2>4. CASE Returns(t) BY <1>2, <1>3, <2>2, <2>4 DEF Returns, Moves, pool, history
    <2>5. CASE Sleeps(t, "for_task") BY <1>5, <2>2, <2>5
    <2> QED BY <1>8, <2>3, <2>4, <2>5 DEF WaitForTask
<1>9. CASE WaitForAllTasks(t)
    <2>1. pc[t] = "for_all" BY <1>9 DEF WaitForAllTasks
    <2>2. CASE TasksOf(t) # {}
        <3>1. Sleeps(t, "for_all") BY <1>9, <2>2 DEF WaitForAllTasks
        <3> QED BY <1>1, <1>5, <2>1, <3>1
    <2>3. CASE TasksOf(t) = {}
        <3>1. Children(Code(t)) \subseteq done BY <2>1, <2>3, Collected
        <3>2. MemberFits(t, "user", loop[Code(t)], length[Code(t)])
            BY <1>6, <3>1 DEF MemberFits
        <3>3. CASE Propagates(t) BY <1>4, <3>2, <3>3
        <3>4. CASE Returns(t) BY <1>2, <1>3, <3>2, <3>4 DEF Returns, Moves, pool, history
        <3> QED BY <1>9, <2>3, <3>3, <3>4 DEF WaitForAllTasks
    <2> QED BY <2>2, <2>3
<1>10. CASE Seek(t)
    <2>1. pc[t] = "seeking" BY <1>10 DEF Seek
    <2>2. Code(t) \notin Codes \/ Code(t) \in CodesOf(t) BY CodesAre DEF CodeFacts
    <2>3. ASSUME NEW point \in {"seeking", "gone"}
          PROVE  MemberFits(t, point, loop[Code(t)], length[Code(t)])
        <3>1. point \notin Added /\ point # "for_all" BY DEF Added
        <3> QED BY <1>1, <2>1, <3>1 DEF MemberFits
    <2>4. CASE Ready # {} /\ Begins(t, First(Ready)) BY <2>1, <2>4, LoopBegins
    <2>5. CASE Sleeps(t, "seeking") BY <1>5, <2>3, <2>5
    <2>6. CASE Moves(t, "gone") /\ UNCHANGED <<pool, stack, history>>
        BY <1>2, <1>3, <2>3, <2>6 DEF Moves, pool, history
    <2> QED BY <1>10, <2>4, <2>5, <2>6 DEF Seek
<1>11. CASE Start(t) \/ Shutdown(t) \/ Join(t)
    <2>1. pc[t] \in {"starting", "closing", "joining"} BY <1>11 DEF Start, Shutdown, Join
    <2>2. PICK point \in {"seeking", "closing", "joining", "gone", "aborted"} :
             pc' = [pc EXCEPT ![t] = point]
        BY <1>11 DEF Start, Shutdown, Join, Sleeps, Moves
    <2>3. tasks' = tasks /\ UNCHANGED <<stack, jobs, done>>
        BY <1>11 DEF Start, Shutdown, Join, Sleeps, pool, history
    <2>4. point \notin Added /\ point # "for_all" BY <2>2 DEF Added
    <2>5. MemberFits(t, point, loop[Code(t)], length[Code(t)])
        BY <1>1, <2>1, <2>4 DEF MemberFits
    <2> QED BY <1>2, <1>3, <2>2, <2>3, <2>5
<1> QED BY <1>7, <1>8, <1>9, <1>10, <1>11 DEF PoolStep

\* The steps of the loops themselves.
LEMMA LoopsOwn ==
    ASSUME IInv, LoopInv, NEW t \in Threads,
           (\E num \in Nums : Begin(t, num)) \/ LoopRuns(t)
    PROVE  LoopInv'
<1> DEFINE a == Code(t)
<1>0. pc[t] = "user" /\ pc \in [Threads -> Position]
    BY DEF Begin, LoopRuns, Add, Collect, Return, Escape, At, IInv, TypesOK, TypeOK
<1>1. /\ pc[t] \notin Idle /\ a \in Codes
      /\ loop[a] \in {"none", "adding", "collecting", "returned", "threw"} /\ length[a] \in Nat
    <2>1. pc[t] \notin Idle BY <1>0 DEF Idle
    <2> QED BY <2>1, CodesAre DEF CodeFacts, LoopInv, LoopTypes
<1>2. /\ MemberFits(t, pc[t], loop[a], length[a]) /\ LoopFits(a, loop[a], length[a])
    BY <1>1 DEF LoopInv, MembersOK, TasksOK
<1>3. "user" \notin Added /\ "for_all" \notin Added /\ "add" \in Added BY DEF Added
<1>4. pc = [pc EXCEPT ![t] = "user"] BY <1>0
<1>5. loop = [loop EXCEPT ![a] = loop[a]] /\ length = [length EXCEPT ![a] = length[a]]
    BY DEF LoopInv, LoopTypes
<1>6. IsFiniteSet(Children(a)) /\ Tally(a) \in Nat /\ (Children(a) = {} => Tally(a) = 0)
    BY ChildrenAre DEF IInv
<1>7. ASSUME NEW num \in Nums, Begin(t, num) PROVE LoopInv'
    <2>1. num \in Nat /\ Len(Blocks(num)) \in Nat BY RangesAssumption, BlocksAre
    <2>2. /\ loop[a] = "none" /\ loop' = [loop EXCEPT ![a] = "adding"]
          /\ length' = [length EXCEPT ![a] = num] /\ pc' = pc
          /\ UNCHANGED <<tasks, jobs, done, stack>>
        BY <1>7 DEF Begin, At, pool, history
    <2>3. Tally(a) <= Len(Blocks(num)) BY <1>2, <1>6, <2>1, <2>2 DEF LoopFits
    <2>4. MemberFits(t, "user", "adding", num) /\ LoopFits(a, "adding", num)
        BY <1>3, <2>3 DEF MemberFits, LoopFits
    <2> QED BY <1>1, <1>4, <2>1, <2>2, <2>4, LoopMoves
<1>8. ASSUME Add(t) PROVE LoopInv'
    <2>1. /\ loop[a] = "adding" /\ Tally(a) < Len(Blocks(length[a])) /\ pc' = [pc EXCEPT ![t] = "add"]
          /\ loop' = loop /\ length' = length /\ UNCHANGED <<tasks, jobs, done, stack>>
        BY <1>8 DEF Add, At, BlocksLeft, Tally, CallAddTask, Calls, Moves, pool, history, loops
    <2>2. MemberFits(t, "add", loop[a], length[a]) BY <2>1 DEF MemberFits
    <2> QED BY <1>1, <1>2, <1>5, <2>1, <2>2, LoopMoves
<1>9. ASSUME Collect(t) PROVE LoopInv'
    <2>1. /\ loop[a] = "adding" /\ ~(Tally(a) < Len(Blocks(length[a])))
          /\ pc' = [pc EXCEPT ![t] = "for_all"]
          /\ loop' = [loop EXCEPT ![a] = "collecting"] /\ length' = length
          /\ UNCHANGED <<tasks, jobs, done, stack>>
        BY <1>9 DEF Collect, At, Goes, BlocksLeft, Tally, CallWaitForAllTasks, Calls, Moves, pool,
                    history
    <2>2. Len(Blocks(length[a])) \in Nat BY <1>1, BlocksAre
    <2>3. Tally(a) = Len(Blocks(length[a])) BY <1>2, <1>6, <2>1, <2>2 DEF LoopFits
    <2>4. MemberFits(t, "for_all", "collecting", length[a]) /\ LoopFits(a, "collecting", length[a])
        BY <1>3, <2>3 DEF MemberFits, LoopFits
    <2> QED BY <1>1, <1>5, <2>1, <2>4, LoopMoves
<1>10. ASSUME Return(t) PROVE LoopInv'
    <2>1. /\ loop[a] = "collecting" /\ pc' = pc
          /\ loop' = [loop EXCEPT ![a] = "returned"] /\ length' = length
          /\ UNCHANGED <<tasks, jobs, done, stack>>
        BY <1>10 DEF Return, At, Goes, vars, pool, history
    <2>2. MemberFits(t, "user", "returned", length[a]) /\ LoopFits(a, "returned", length[a])
        BY <1>0, <1>1, <1>2, <1>3, <2>1 DEF MemberFits, LoopFits
    <2> QED BY <1>1, <1>4, <1>5, <2>1, <2>2, LoopMoves
<1>11. ASSUME Escape(t) PROVE LoopInv'
    <2>1. /\ pc' = pc /\ loop' = [loop EXCEPT ![a] = "threw"] /\ length' = length
          /\ UNCHANGED <<tasks, jobs, done, stack>>
        BY <1>11 DEF Escape, At, Goes, vars, pool, history
    <2>2. MemberFits(t, "user", "threw", length[a]) /\ LoopFits(a, "threw", length[a])
        BY <1>3 DEF MemberFits, LoopFits
    <2> QED BY <1>1, <1>4, <1>5, <2>1, <2>2, LoopMoves
<1> QED BY <1>7, <1>8, <1>9, <1>10, <1>11 DEF LoopRuns

\* The loops change nothing of the pool's but whether the last call threw.
LEMMA PoolKept == IInv /\ TimeInv /\ [LoopNext]_allVars => (IInv /\ TimeInv)'
<1> SUFFICES ASSUME IInv, TimeInv, [LoopNext]_allVars PROVE IInv' /\ TimeInv' OBVIOUS
<1>1. ASSUME [Next]_vars PROVE IInv' /\ TimeInv'
    BY <1>1, InvKept, IdsKept, ClosingKept DEF TimeInv
<1>2. ASSUME NEW t \in Threads, NEW num \in Nums, Begin(t, num) PROVE IInv' /\ TimeInv'
    <2>1. /\ UNCHANGED <<tasks, worker_thread_ids, we_are_destructing, pc, asleep, stack, bucket,
                         awaited, jobs, done, raised, caught>>
          /\ threw' = [threw EXCEPT ![t] = FALSE]
        BY <1>2 DEF Begin, pool, history
    <2>2. TypesOK'
        <3>1. threw' \in [Threads -> BOOLEAN] BY <2>1 DEF IInv, TypesOK, TypeOK
        <3>2. Coming' = Coming BY <2>1 DEF Coming
        <3> QED BY <2>1, <3>1, <3>2, SameBuckets DEF IInv, TypesOK, TypeOK
    <2>3. WorkersOK' BY <2>1, SameBuckets DEF IInv, WorkersOK, Busy
    <2>4. StacksOK' /\ PlacesOK'
        BY <2>1, SameBuckets DEF IInv, StacksOK, PlacesOK, Runs, Undone
    <2>5. EptrsOK' BY <2>1, SameBuckets DEF IInv, EptrsOK, ExceptionsReachOneCaller
    <2>6. IdsOK' BY <2>1, IdsFrame DEF TimeInv, Undone
    <2>7. ClosingOK' BY <2>1, ClosingSame DEF TimeInv
    <2> QED BY <2>2, <2>3, <2>4, <2>5, <2>6, <2>7 DEF IInv, TimeInv
<1>3. ASSUME NEW t \in Threads, LoopRuns(t) \/ TaskReturns(t) \/ PoolRuns(t) PROVE [Next]_vars
    BY <1>3 DEF LoopRuns, Add, Collect, Return, Escape, TaskReturns, PoolRuns, Next
<1>4. CASE UNCHANGED allVars BY <1>1, <1>4 DEF allVars
<1> QED BY <1>1, <1>2, <1>3, <1>4 DEF LoopNext

LEMMA LoopKept == IInv /\ TimeInv /\ LoopInv /\ [LoopNext]_allVars => LoopInv'
<1> SUFFICES ASSUME IInv, TimeInv, LoopInv, [LoopNext]_allVars PROVE LoopInv' OBVIOUS
<1>1. ASSUME NEW t \in Threads, TaskReturns(t) PROVE LoopInv'
    BY <1>1, LoopTaskEnds DEF TaskReturns, loops
<1>2. ASSUME NEW t \in Threads, PoolRuns(t) PROVE LoopInv'
    <2>1. CASE PoolStep(t) BY <1>2, <2>1, LoopPool DEF PoolRuns, loops
    <2>2. CASE SpuriousWakeup(t)
        <3>1. /\ pc' = [pc EXCEPT ![t] = pc[t]]
              /\ UNCHANGED <<tasks, jobs, done, stack, loop, length>>
            BY <1>2, <2>2
               DEF PoolRuns, SpuriousWakeup, loops, pool, history, IInv, TypesOK, TypeOK
        <3>2. \A k \in Ready' : k \in Ready /\ tasks'[k].job = tasks[k].job
            BY <3>1 DEF Ready, is_ready, is_empty, Slots, Size
        <3>3. MemberFits(t, pc[t], loop[Code(t)], length[Code(t)]) BY DEF LoopInv, MembersOK
        <3> QED BY <3>1, <3>2, <3>3, LoopFrame
    <2> QED BY <1>2, <2>1, <2>2 DEF PoolRuns
<1>3. CASE UNCHANGED allVars
    <2>1. UNCHANGED <<tasks, pc, stack, jobs, done, loop, length>>
        BY <1>3 DEF allVars, vars, loops, pool, history
    <2>2. Ready' = Ready /\ Codes' = Codes
        BY <2>1 DEF Ready, is_ready, is_empty, Slots, Size, Codes
    <2>3. LoopTypes' /\ NestOK' BY <2>1, <2>2 DEF LoopInv, LoopTypes, NestOK
    <2>4. /\ \A u \in Threads : Runs(u)' = Runs(u) /\ CodesOf(u)' = CodesOf(u) /\ Code(u)' = Code(u)
          /\ \A c : Children(c)' = Children(c) /\ Tally(c)' = Tally(c)
        BY <2>1 DEF Runs, CodesOf, Code, Children, Tally
    <2>5. OwnersOK' /\ FreshOK' /\ BelowOK'
        BY <2>1, <2>4 DEF LoopInv, OwnersOK, FreshOK, BelowOK
    <2>6. TasksOK' BY <2>1, <2>2, <2>4 DEF LoopInv, TasksOK, LoopFits, Blocks, Size
    <2>7. MembersOK' BY <2>1, <2>2, <2>4 DEF LoopInv, MembersOK, MemberFits, Blocks, Size
    <2> QED BY <2>3, <2>5, <2>6, <2>7 DEF LoopInv
<1> QED BY <1>1, <1>2, <1>3, LoopsOwn DEF LoopNext

LEMMA LoopInvariant == LoopSpec => [](IInv /\ TimeInv /\ LoopInv)
<1>1. LoopInit => IInv /\ TimeInv /\ LoopInv
    <2> SUFFICES ASSUME LoopInit PROVE IInv /\ TimeInv /\ LoopInv OBVIOUS
    <2>0. Init BY DEF LoopInit
    <2>1. IInv /\ TimeInv BY <2>0, InitInv, InitTime
    <2>2. /\ loop = [c \in Codes |-> "none"] /\ length = [c \in Codes |-> 0]
          /\ jobs = <<>> /\ \A i \in Slots : tasks[i].task_id = 0
          /\ \A t \in Threads : stack[t] = <<>> /\ pc[t] \in {"user", "starting"}
        BY DEF LoopInit, Init
    <2>3. Ready = {} BY <2>2 DEF Ready, is_ready, is_empty
    <2>4. DOMAIN jobs = {} /\ \A c : Children(c) = {} BY <2>2 DEF Children
    <2>5. \A t \in Threads : DOMAIN stack[t] = {} /\ Runs(t) = {} BY <2>2 DEF Runs, Elements
    <2>6. \A t \in Threads : CodesOf(t) \ {Code(t)} = {} BY <2>2, <2>5 DEF CodesOf, Code
    <2>7. \A j \in Job : <<j>> \in Codes BY DEF Codes
    <2>8. LoopTypes BY <2>2 DEF LoopTypes
    <2>9. NestOK /\ OwnersOK /\ FreshOK /\ BelowOK
        BY <2>2, <2>3, <2>4, <2>5, <2>6, <2>7 DEF NestOK, OwnersOK, FreshOK, BelowOK
    <2>10. TasksOK BY <2>2, <2>4 DEF TasksOK, LoopFits
    <2>11. \A t \in Threads : pc[t] \notin Added /\ pc[t] # "for_all" BY <2>2 DEF Added
    <2>12. MembersOK BY <2>4, <2>11 DEF MembersOK, MemberFits
    <2> QED BY <2>1, <2>8, <2>9, <2>10, <2>12 DEF LoopInv
<1>2. IInv /\ TimeInv /\ LoopInv /\ [LoopNext]_allVars => (IInv /\ TimeInv /\ LoopInv)'
    BY PoolKept, LoopKept
<1> QED BY <1>1, <1>2, PTL DEF LoopSpec

-----------------------------------------------------------------------------

\* The tasks of a loop are counted in the order they were added: each number up to
\* their count is the number of one of them.
LEMMA Ranks ==
    ASSUME NEW n \in Nat, NEW S \in SUBSET (1 .. n), NEW r \in 1 .. Cardinality(S)
    PROVE  /\ \E j \in S : Cardinality({k \in S : k <= j}) = r
           /\ \A j, l \in S : Cardinality({k \in S : k <= j}) = Cardinality({k \in S : k <= l}) => j = l
           /\ \A j \in S : Cardinality({k \in S : k <= j}) \in 1 .. Cardinality(S)
<1> DEFINE U(j) == {k \in S : k <= j}
           m == Cardinality(S)
<1>1. IsFiniteSet(S) /\ m \in Nat
    <2>1. IsFiniteSet(1 .. n) BY FS_Interval
    <2>2. IsFiniteSet(S) BY <2>1, FS_Subset
    <2> QED BY <2>2, FS_CardinalityType
<1>2. \A j \in S : IsFiniteSet(U(j)) /\ Cardinality(U(j)) \in 1 .. m
    <2> TAKE j \in S
    <2>1. U(j) \in SUBSET S /\ j \in U(j) OBVIOUS
    <2>2. IsFiniteSet(U(j)) /\ Cardinality(U(j)) <= m BY <1>1, <2>1, FS_Subset
    <2>3. Cardinality(U(j)) \in Nat /\ Cardinality(U(j)) # 0
        BY <2>1, <2>2, FS_CardinalityType, FS_EmptySet
    <2> HIDE DEF U, m
    <2> QED BY <1>1, <2>2, <2>3
<1>3. ASSUME NEW j \in S, NEW l \in S, Cardinality(U(j)) = Cardinality(U(l)) PROVE ~(j < l)
    <2> SUFFICES ASSUME j < l PROVE FALSE OBVIOUS
    <2>0. j \in Int /\ l \in Int /\ \A k \in S : k \in Int OBVIOUS
    <2>1. U(j) \in SUBSET U(l) /\ l \in U(l) /\ l \notin U(j)
        <3>1. \A k \in S : k <= j => k <= l BY <2>0, <1>3
        <3>2. l <= l /\ ~(l <= j) BY <2>0
        <3> QED BY <3>1, <3>2
    <2>2. U(j) = U(l) BY <1>2, <1>3, <2>1, FS_Subset
    <2> QED BY <2>1, <2>2
<1>4. \A j, l \in S : Cardinality(U(j)) = Cardinality(U(l)) => j = l
    <2> SUFFICES ASSUME NEW j \in S, NEW l \in S, Cardinality(U(j)) = Cardinality(U(l))
                 PROVE  j = l
        OBVIOUS
    <2>1. ~(j < l) /\ ~(l < j) BY <1>3
    <2>2. j \in Int /\ l \in Int OBVIOUS
    <2> QED BY ONLY <2>1, <2>2
<1>5. \E j \in S : Cardinality(U(j)) = r
    <2> SUFFICES ASSUME \A j \in S : Cardinality(U(j)) # r PROVE FALSE OBVIOUS
    <2> DEFINE f == [j \in S |-> Cardinality(U(j))]
               T == (1 .. m) \ {r}
    <2>1. f \in [S -> T] BY <1>2
    <2>2. IsFiniteSet(T) /\ Cardinality(T) < Cardinality(S)
        <3>1. IsFiniteSet(1 .. m) /\ Cardinality(1 .. m) = m
            <4>1. m >= 1 BY <1>1
            <4> HIDE DEF m
            <4>2. m \in Int /\ 1 \in Int /\ ~(1 > m) BY <1>1, <4>1
            <4>3. IsFiniteSet(1 .. m) /\ Cardinality(1 .. m) = m - 1 + 1 BY <4>2, FS_Interval
            <4> QED BY <1>1, <4>3
        <3>2. r \in 1 .. m OBVIOUS
        <3> HIDE DEF m
        <3>3. IsFiniteSet(T) /\ Cardinality(T) = m - 1 BY <3>1, <3>2, FS_RemoveElement
        <3>4. m - 1 < m BY <1>1
        <3> QED BY <3>3, <3>4 DEF m
    <2> HIDE DEF f, T
    <2>3. PICK j, l \in S : j # l /\ f[j] = f[l] BY <1>1, <2>1, <2>2, FS_PigeonHole
    <2>4. Cardinality(U(j)) = Cardinality(U(l)) BY <2>3 DEF f
    <2> QED BY <1>4, <2>3, <2>4
<1> QED BY <1>2, <1>4, <1>5

\* Two numbers whose multiples are closer than one multiple are the same.
LEMMA SameMultiple ==
    ASSUME NEW s \in Nat \ {0}, NEW a \in Int, NEW b \in Int, NEW i \in Int,
           a * s <= i, i < (a + 1) * s, b * s <= i, i < (b + 1) * s
    PROVE  a = b
<1>1. /\ a * s \in Int /\ b * s \in Int
      /\ (a + 1) * s = a * s + s /\ (b + 1) * s = b * s + s
    OBVIOUS
<1>2. ~(a + 1 <= b)
    <2>1. a + 1 <= b => (a + 1) * s <= b * s OBVIOUS
    <2> QED BY <1>1, <2>1
<1>3. ~(b + 1 <= a)
    <2>1. b + 1 <= a => (b + 1) * s <= a * s OBVIOUS
    <2> QED BY <1>1, <2>1
<1> QED BY <1>2, <1>3

\* The blocks of a range are a partition of it.
LEMMA BlocksSplit ==
    ASSUME NEW num \in Nat, NEW i \in 0 .. num - 1
    PROVE  \E b \in 1 .. Len(Blocks(num)) :
              \A k \in 1 .. Len(Blocks(num)) : i \in Blocks(num)[k] <=> k = b
<1> DEFINE size == IF num \div (Size * chunks_per_thread) > 1
                   THEN num \div (Size * chunks_per_thread) ELSE 1
           K == (num + size - 1) \div size
<1>1. size \in Nat \ {0} /\ K \in Nat /\ Len(Blocks(num)) = K BY BlocksAre
<1>2. Blocks(num) = [k \in 1 .. K |-> (k - 1) * size .. Smaller(k * size, num) - 1]
    BY DEF Blocks
<1> DEFINE L == num + size - 1
           q == i \div size
<1>3. L \in Nat /\ K \in Int /\ L < (K + 1) * size
    <2> HIDE DEF size
    <2>1. L \in Nat BY <1>1
    <2> HIDE DEF L
    <2>2. L = (L \div size) * size + (L % size) /\ L % size < size /\ L % size \in Nat
             /\ L \div size \in Int
        BY <1>1, <2>1
    <2>3. ((L \div size) + 1) * size = (L \div size) * size + size BY <1>1, <2>2
    <2>4. K = L \div size BY DEF L
    <2> HIDE DEF K
    <2>5. L < (L \div size) * size + size BY <1>1, <2>1, <2>2
    <2>6. L < ((L \div size) + 1) * size BY <2>3, <2>5
    <2> QED BY <2>1, <2>2, <2>4, <2>6
<1>4. q \in Nat /\ q * size <= i /\ i < (q + 1) * size
    <2> HIDE DEF size
    <2>1. i \in Nat OBVIOUS
    <2>2. i = q * size + (i % size) /\ i % size < size /\ i % size \in Nat /\ q \in Int
        BY <1>1, <2>1
    <2>3. (q + 1) * size = q * size + size BY <1>1, <2>2
    <2>4. q \in Nat BY <1>1, <2>1
    <2> HIDE DEF q
    <2> QED BY <1>1, <2>1, <2>2, <2>3, <2>4
<1>5. i \in Nat /\ i < num OBVIOUS
<1> HIDE DEF size, K, L, q
<1>6. L = num + size - 1 BY DEF L
<1>7. q < K
    <2>1. q * size < K * size
        <3>1. (K + 1) * size = K * size + size /\ K * size \in Int /\ q * size \in Int BY <1>1, <1>4
        <3> QED BY <1>1, <1>3, <1>4, <1>5, <1>6, <3>1
    <2>2. ~(K <= q)
        <3>1. K <= q => K * size <= q * size BY <1>1, <1>4
        <3>2. K * size \in Int /\ q * size \in Int BY <1>1, <1>4
        <3> QED BY <2>1, <3>1, <3>2
    <2> QED BY <1>1, <1>4, <2>2
<1>8. ASSUME NEW k \in 1 .. K
      PROVE  i \in Blocks(num)[k] <=> (k - 1) * size <= i /\ i < k * size
    <2>1. Blocks(num)[k] = (k - 1) * size .. Smaller(k * size, num) - 1 BY <1>2
    <2>2. k * size \in Int /\ (k - 1) * size \in Int BY <1>1
    <2> DEFINE x == k * size
               y == (k - 1) * size
    <2>3. x \in Int /\ y \in Int BY <2>2
    <2>4. Blocks(num)[k] = y .. Smaller(x, num) - 1 BY <2>1
    <2> HIDE DEF x, y
    <2>5. i \in Blocks(num)[k] <=> y <= i /\ i < x
        BY <1>5, <2>3, <2>4 DEF Smaller
    <2> QED BY <2>5 DEF x, y
<1>9. q + 1 \in 1 .. K BY <1>1, <1>4, <1>7
<1>10. ASSUME NEW k \in 1 .. K PROVE i \in Blocks(num)[k] <=> k = q + 1
    <2>1. CASE k = q + 1
        <3>1. k - 1 = q BY <1>4, <2>1
        <3> QED BY <1>4, <1>8, <2>1, <3>1
    <2>2. CASE k # q + 1
        <3> SUFFICES ASSUME i \in Blocks(num)[k] PROVE FALSE BY <2>2
        <3> DEFINE a == k - 1
        <3>1. a \in Int /\ a + 1 = k /\ a # q BY <1>1, <1>4, <2>2
        <3>2. a * size <= i /\ i < (a + 1) * size BY <1>8, <3>1
        <3> HIDE DEF a
        <3>3. a = q BY <1>1, <1>4, <1>5, <3>1, <3>2, SameMultiple
        <3> QED BY <3>1, <3>3
    <2> QED BY <2>1, <2>2
<1> QED BY <1>1, <1>9, <1>10

\* When parallel_for has returned, the function was called for each index of the range,
\* once, and the call is over: however loops and tasks are nested, and whether some of
\* the tasks threw.
THEOREM IndicesOnce == LoopSpec => []EveryIndexOnce
<1>1. IInv /\ LoopInv => EveryIndexOnce
    <2> SUFFICES ASSUME IInv, LoopInv, NEW c \in Codes, loop[c] = "returned",
                        NEW i \in 0 .. length[c] - 1
                 PROVE  Cardinality({j \in Children(c) \cap done : i \in BlockOf(j)}) = 1
        BY DEF EveryIndexOnce
    <2> DEFINE S == Children(c)
               R(j) == Cardinality({k \in S : k <= j})
               B == Blocks(length[c])
    <2>1. S \subseteq done /\ Cardinality(S) = Len(B)
        BY DEF LoopInv, TasksOK, LoopFits, Tally
    <2>2. length[c] \in Nat BY DEF LoopInv, LoopTypes
    <2>3. S \subseteq 1 .. Len(jobs) /\ Len(jobs) \in Nat
        BY ChildrenAre, LenProperties DEF IInv, TypesOK
    <2>4. \A j \in S : BlockOf(j) = B[R(j)] BY DEF Children, BlockOf
    <2>5. PICK b \in 1 .. Len(B) : \A k \in 1 .. Len(B) : i \in B[k] <=> k = b
        BY <2>2, BlocksSplit
    <2> HIDE DEF S, B
    <2>6. /\ \E j \in S : R(j) = b
          /\ \A j, l \in S : R(j) = R(l) => j = l
          /\ \A j \in S : R(j) \in 1 .. Len(B)
        <3>1. S \in SUBSET (1 .. Len(jobs)) /\ b \in 1 .. Cardinality(S) BY <2>1, <2>3, <2>5
        <3>2. /\ \E j \in S : R(j) = b
              /\ \A j, l \in S : R(j) = R(l) => j = l
              /\ \A j \in S : R(j) \in 1 .. Cardinality(S)
            BY ONLY <3>1, <2>3, Ranks
        <3> HIDE DEF R
        <3> QED BY <2>1, <3>2
    <2> HIDE DEF R
    <2>7. PICK j \in S : R(j) = b BY <2>6
    <2>8. {k \in S \cap done : i \in BlockOf(k)} = {j}
        BY <2>1, <2>4, <2>5, <2>6, <2>7
    <2> QED BY <2>8, FS_Singleton DEF S
<1> QED BY <1>1, LoopInvariant, PTL

-----------------------------------------------------------------------------
(***************************************************************************)
(* Loops that an exception leaves.                                         *)
(***************************************************************************)

\* The exception a thread was given is still in the loop of its code.
Pending(t) == pc[t] = "user" /\ threw[t] /\ loop[Code(t)] \in {"adding", "collecting"}

\* The loops an exception was spent on, or is being spent on.
Spent ==
    {c \in Codes : loop[c] = "threw" \/ \E t \in Threads : Code(t) = c /\ Pending(t)}

\* A call of the pool begins without an exception, and each exception is for one loop.
ClearOK == \A t \in Threads : pc[t] \in Added \cup Waiting => ~threw[t]
CountOK ==
    /\ IsFiniteSet(Spent) /\ IsFiniteSet(caught)
    /\ Cardinality(Spent) <= Cardinality(caught)

\* A step of one thread, which changes no loop but that of its own code.
Alone(t) ==
    /\ \A u \in Threads \ {t} : Code(u)' = Code(u) /\ pc'[u] = pc[u] /\ threw'[u] = threw[u]
    /\ \A c \in Codes \ {Code(t)} : loop'[c] = loop[c]
    /\ Code(t) \in Codes /\ loop'[Code(t)] = "threw" => loop[Code(t)] = "threw" \/ Pending(t)

\* Only the thread that moves can be given an exception, for the code it is in.
LEMMA SpentBy ==
    ASSUME IInv, NEW t \in Threads, Alone(t)
    PROVE  Spent' \subseteq Spent \cup (IF Pending(t)' THEN {Code(t)'} ELSE {})
<1> SUFFICES ASSUME NEW c \in Spent' PROVE c \in Spent \/ (Pending(t)' /\ c = Code(t)')
    OBVIOUS
<1>0. c \in Codes /\ Codes' = Codes BY DEF Spent, Codes
<1>1. CASE loop'[c] = "threw"
    BY <1>0, <1>1 DEF Spent, Alone
<1>2. ASSUME NEW u \in Threads, Code(u)' = c, Pending(u)'
      PROVE  c \in Spent \/ (Pending(t)' /\ c = Code(t)')
    <2>1. CASE u = t BY <1>2, <2>1
    <2>2. CASE u # t
        <3>1. Code(u) = c /\ pc[u] = "user" /\ threw[u]
            BY <1>2, <2>2 DEF Pending, Alone
        <3>2. c # Code(t)
            <4>1. c = Code(t) => c \in CodesOf(t) /\ c \in CodesOf(u)
                BY <1>0, <3>1, CodesAre DEF CodeFacts
            <4> QED BY <2>2, <4>1, CodesAre DEF CodeFacts
        <3>3. loop[c] \in {"adding", "collecting"}
            BY <1>0, <1>2, <3>2 DEF Pending, Alone
        <3> QED BY <1>0, <3>1, <3>3 DEF Spent, Pending
    <2> QED BY <2>1, <2>2
<1> QED BY <1>1, <1>2 DEF Spent

\* A step that hands out no exception.
LEMMA SpentQuietly ==
    ASSUME CountOK, Spent' \subseteq Spent, caught' = caught
    PROVE  CountOK'
<1>1. IsFiniteSet(Spent') /\ Cardinality(Spent') <= Cardinality(Spent)
    BY FS_Subset DEF CountOK
<1>2. /\ Cardinality(Spent') \in Nat /\ Cardinality(Spent) \in Nat /\ Cardinality(caught) \in Nat
    BY <1>1, FS_CardinalityType DEF CountOK
<1> QED BY <1>1, <1>2 DEF CountOK

\* A step that hands one out that nobody has got yet.
LEMMA SpentOne ==
    ASSUME CountOK, NEW c, NEW e, Spent' \subseteq Spent \cup {c},
           caught' = caught \cup {e}, e \notin caught
    PROVE  CountOK'
<1>1. /\ IsFiniteSet(Spent \cup {c}) /\ IsFiniteSet(caught')
      /\ Cardinality(Spent \cup {c}) <= Cardinality(Spent) + 1
      /\ Cardinality(caught') = Cardinality(caught) + 1
    <2>1. /\ IsFiniteSet(Spent \cup {c})
          /\ Cardinality(Spent \cup {c}) = IF c \in Spent THEN Cardinality(Spent) ELSE Cardinality(Spent) + 1
        BY FS_AddElement DEF CountOK
    <2>2. IsFiniteSet(caught \cup {e}) /\ Cardinality(caught \cup {e}) = Cardinality(caught) + 1
        BY FS_AddElement DEF CountOK
    <2>3. Cardinality(Spent) \in Nat
        BY FS_CardinalityType DEF CountOK
    <2> QED BY <2>1, <2>2, <2>3
<1>2. IsFiniteSet(Spent') /\ Cardinality(Spent') <= Cardinality(Spent \cup {c})
    BY <1>1, FS_Subset
<1>3. /\ Cardinality(Spent') \in Nat /\ Cardinality(Spent) \in Nat /\ Cardinality(caught) \in Nat
      /\ Cardinality(Spent \cup {c}) \in Nat
    BY <1>1, <1>2, FS_CardinalityType DEF CountOK
<1> QED BY <1>1, <1>2, <1>3 DEF CountOK

LEMMA ClearKept == IInv /\ LoopInv /\ ClearOK /\ [LoopNext]_allVars => ClearOK'
<1> SUFFICES ASSUME IInv, LoopInv, ClearOK, [LoopNext]_allVars PROVE ClearOK' OBVIOUS
<1>0. threw \in [Threads -> BOOLEAN] /\ pc \in [Threads -> Position]
    BY DEF IInv, TypesOK, TypeOK
<1> DEFINE Inside == Added \cup Waiting
<1>1. "user" \notin Inside /\ "seeking" \notin Inside /\ "gone" \notin Inside /\ "aborted" \notin Inside
      /\ "joining" \notin Inside /\ "closing" \notin Inside
    BY DEF Added, Waiting
<1>2. ASSUME threw' = threw, NEW t \in Threads, NEW point, pc' = [pc EXCEPT ![t] = point],
             point \in Inside => pc[t] \in Inside
      PROVE  ClearOK'
    BY <1>0, <1>2 DEF ClearOK
<1>3. ASSUME NEW t \in Threads, NEW point, NEW b \in BOOLEAN, pc' = [pc EXCEPT ![t] = point],
             threw' = [threw EXCEPT ![t] = b], point \in Inside => b = FALSE
      PROVE  ClearOK'
    BY <1>0, <1>3 DEF ClearOK
<1> HIDE DEF Inside
<1>4. ASSUME NEW t \in Threads, NEW num \in Nums, Begin(t, num) PROVE ClearOK'
    <2>1. pc' = [pc EXCEPT ![t] = pc[t]] BY <1>0, <1>4 DEF Begin
    <2> QED BY <1>3, <1>4, <2>1 DEF Begin
<1>5. ASSUME NEW t \in Threads, LoopRuns(t) PROVE ClearOK'
    <2>1. CASE Add(t)
        BY <1>3, <2>1 DEF Add, CallAddTask, Calls, Moves
    <2>2. CASE Collect(t)
        BY <1>3, <2>2 DEF Collect, CallWaitForAllTasks, Calls, Moves
    <2>3. CASE Return(t) \/ Escape(t)
        <3>1. threw' = threw /\ pc' = pc BY <2>3 DEF Return, Escape, vars
        <3> QED BY <3>1 DEF ClearOK
    <2> QED BY <1>5, <2>1, <2>2, <2>3 DEF LoopRuns
<1>6. ASSUME NEW t \in Threads, TaskReturns(t) PROVE ClearOK'
    <2>1. PICK throws \in BOOLEAN : EndTask(t, throws) \/ EndOwnTask(t, throws)
        BY <1>6 DEF TaskReturns, TaskEnds
    <2>2. CASE EndTask(t, throws)
        BY <1>1, <1>2, <2>2 DEF EndTask, Moves
    <2>3. CASE EndOwnTask(t, throws)
        <3>1. pc[t] = "user" /\ pc' = [pc EXCEPT ![t] = "user"]
            BY <1>0, <2>3 DEF EndOwnTask, Ends
        <3> QED BY <1>1, <1>3, <2>3, <3>1 DEF EndOwnTask
    <2> QED BY <2>1, <2>2, <2>3
<1>7. ASSUME NEW t \in Threads, PoolRuns(t) PROVE ClearOK'
    <2>1. CASE Propagates(t)
        BY <1>1, <1>3, <2>1 DEF Propagates, Moves
    <2>2. CASE ~Propagates(t) /\ PoolStep(t)
        <3>1. threw' = threw
            BY <2>2
               DEF PoolStep, AddTask, AddingAwake, WaitForTask, WaitForAllTasks, Start, Seek,
                   Shutdown, Join, Places, RunsItself, Returns, Begins, Sleeps
        <3>2. \/ \E point \in {"user", "seeking", "gone", "aborted", "joining", "closing"} : Moves(t, point)
              \/ pc[t] = "add" /\ Moves(t, "adding")
              \/ Moves(t, pc[t])
            BY <2>2
               DEF PoolStep, AddTask, AddingAwake, WaitForTask, WaitForAllTasks, Start, Seek,
                   Shutdown, Join, Places, RunsItself, Returns, Begins, Sleeps
        <3>3. "add" \in Inside /\ "adding" \in Inside BY DEF Inside, Added
        <3> QED BY <1>1, <1>2, <3>1, <3>2, <3>3 DEF Moves
    <2>3. CASE SpuriousWakeup(t)
        BY <2>3 DEF SpuriousWakeup, ClearOK
    <2> QED BY <1>7, <2>1, <2>2, <2>3 DEF PoolRuns
<1>8. CASE UNCHANGED allVars BY <1>8 DEF allVars, vars, ClearOK
<1> QED BY <1>4, <1>5, <1>6, <1>7, <1>8 DEF LoopNext

LEMMA CountKept == IInv /\ LoopInv /\ ClearOK /\ CountOK /\ [LoopNext]_allVars => CountOK'
<1> SUFFICES ASSUME IInv, LoopInv, ClearOK, CountOK, [LoopNext]_allVars PROVE CountOK' OBVIOUS
<1>0. /\ threw \in [Threads -> BOOLEAN] /\ pc \in [Threads -> Position]
      /\ stack \in [Threads -> Seq(Job)]
      /\ loop \in [Codes -> {"none", "adding", "collecting", "returned", "threw"}]
    BY DEF IInv, TypesOK, TypeOK, LoopInv, LoopTypes
<1>1. ASSUME NEW t \in Threads, Alone(t), ~Pending(t)', caught' = caught PROVE CountOK'
    <2>1. Spent' \subseteq Spent BY <1>1, SpentBy
    <2> QED BY <1>1, <2>1, SpentQuietly
<1>2. ASSUME NEW t \in Threads, Alone(t), NEW e, caught' = caught \cup {e}, e \notin caught
      PROVE  CountOK'
    <2>1. Spent' \subseteq Spent \cup {Code(t)'} BY <1>2, SpentBy
    <2> QED BY <1>2, <2>1, SpentOne
\* A thread that moves while no loop changes.
<1>3. ASSUME NEW t \in Threads, loop' = loop, NEW point, pc' = [pc EXCEPT ![t] = point],
             threw' = threw \/ \E b \in BOOLEAN : threw' = [threw EXCEPT ![t] = b],
             \A u \in Threads \ {t} : stack'[u] = stack[u]
      PROVE  Alone(t)
    BY <1>0, <1>3 DEF Alone, Code
<1>4. ASSUME NEW t \in Threads, NEW num \in Nums, Begin(t, num) PROVE CountOK'
    <2>1. /\ \A u \in Threads : Code(u)' = Code(u) /\ pc'[u] = pc[u]
          /\ \A u \in Threads \ {t} : threw'[u] = threw[u]
          /\ threw'[t] = FALSE /\ caught' = caught
        BY <1>0, <1>4 DEF Begin, Code, history
    <2>2. Alone(t) BY <1>0, <1>4, <2>1 DEF Alone, Begin
    <2>3. ~Pending(t)' BY <2>1 DEF Pending
    <2> QED BY <1>1, <2>1, <2>2, <2>3
<1>5. ASSUME NEW t \in Threads, LoopRuns(t) PROVE CountOK'
    <2>1. /\ \A u \in Threads : Code(u)' = Code(u)
          /\ \A u \in Threads \ {t} : pc'[u] = pc[u] /\ threw'[u] = threw[u]
          /\ caught' = caught
        BY <1>0, <1>5
           DEF LoopRuns, Add, Collect, Return, Escape, CallAddTask, CallWaitForAllTasks, Calls,
               Moves, vars, history, Code
    <2>2. \A c \in Codes \ {Code(t)} : loop'[c] = loop[c]
        BY <1>0, <1>5 DEF LoopRuns, Add, Collect, Return, Escape, Goes, loops
    <2>3. CASE Add(t) \/ Collect(t)
        <3>1. pc'[t] # "user"
            BY <1>0, <2>3 DEF Add, Collect, CallAddTask, CallWaitForAllTasks, Calls, Moves
        <3>2. ~Pending(t)' BY <3>1 DEF Pending
        <3>3. Code(t) \in Codes => loop'[Code(t)] # "threw"
            BY <1>0, <2>3 DEF Add, Collect, At, Goes, loops
        <3>4. Alone(t) BY <2>1, <2>2, <3>3 DEF Alone
        <3> QED BY <1>1, <2>1, <3>2, <3>4
    <2>4. CASE Return(t)
        <3>1. ~threw[t] /\ threw' = threw BY <2>4 DEF Return, vars
        <3>2. ~Pending(t)' BY <3>1 DEF Pending
        <3>3. Code(t) \in Codes => loop'[Code(t)] # "threw" BY <1>0, <2>4 DEF Return, Goes
        <3>4. Alone(t) BY <2>1, <2>2, <3>3 DEF Alone
        <3> QED BY <1>1, <2>1, <3>2, <3>4
    <2>5. CASE Escape(t)
        <3>1. Pending(t) BY <2>5 DEF Escape, At, Pending
        <3>2. Alone(t) BY <2>1, <2>2, <3>1 DEF Alone
        <3>3. Code(t) \in Codes
            <4>1. pc[t] = "user" BY <3>1 DEF Pending
            <4>2. pc[t] \notin Idle BY <4>1 DEF Idle
            <4> QED BY <4>2, CodesAre DEF CodeFacts
        <3>4. ~Pending(t)'
            <4>1. loop'[Code(t)] = "threw" BY <1>0, <2>5, <3>3 DEF Escape, Goes
            <4> QED BY <2>1, <4>1 DEF Pending
        <3> QED BY <1>1, <2>1, <3>2, <3>4
    <2> QED BY <1>5, <2>3, <2>4, <2>5 DEF LoopRuns
<1>6. ASSUME NEW t \in Threads, TaskReturns(t) PROVE CountOK'
    <2> DEFINE j == stack[t][Len(stack[t])]
    <2>1. PICK throws \in BOOLEAN : EndTask(t, throws) \/ EndOwnTask(t, throws)
        BY <1>6 DEF TaskReturns, TaskEnds
    <2>2. /\ loop' = loop /\ pc[t] = "user" /\ stack[t] # <<>>
          /\ \A u \in Threads \ {t} : stack'[u] = stack[u]
          /\ raised' = IF throws THEN raised \cup {j} ELSE raised
        BY <1>0, <1>6, <2>1 DEF TaskReturns, EndTask, EndOwnTask, Ends, loops
    <2>3. CASE EndTask(t, throws)
        <3>1. Alone(t) BY <1>3, <2>2, <2>3 DEF EndTask, Moves
        <3>2. ~Pending(t)' BY <1>0, <2>3 DEF EndTask, Moves, Pending
        <3> QED BY <1>1, <2>3, <3>1, <3>2 DEF EndTask
    <2>4. CASE EndOwnTask(t, throws)
        <3>1. pc' = [pc EXCEPT ![t] = "user"] /\ threw' = [threw EXCEPT ![t] = throws]
            BY <1>0, <2>2, <2>4 DEF EndOwnTask
        <3>2. Alone(t) BY <1>3, <2>2, <3>1
        <3>3. CASE throws
            <4>1. j \notin done /\ caught \subseteq raised /\ raised \subseteq done
                BY <2>2, CodesAre DEF CodeFacts, IInv, StacksOK, Undone, TypesOK, TypeOK
            <4>2. raised' \ raised = {j} BY <2>2, <3>3, <4>1
            <4>3. caught' = caught \cup {j} BY <2>4, <4>2 DEF EndOwnTask
            <4>4. j \notin caught BY <4>1
            <4> HIDE DEF j
            <4> QED BY <1>2, <3>2, <4>3, <4>4
        <3>4. CASE ~throws
            <4>1. caught' = caught BY <2>2, <2>4, <3>4 DEF EndOwnTask
            <4>2. ~threw'[t] BY <1>0, <3>1, <3>4
            <4>3. ~Pending(t)' BY <4>2 DEF Pending
            <4> QED BY <1>1, <3>2, <4>1, <4>3
        <3> QED BY <3>3, <3>4
    <2> QED BY <2>1, <2>3, <2>4
<1>7. ASSUME NEW t \in Threads, PoolRuns(t) PROVE CountOK'
    <2>0. loop' = loop BY <1>7 DEF PoolRuns, loops
    <2>1. CASE Propagates(t)
        <3> DEFINE e == tasks[First(Failed)].eptr
        <3>1. Alone(t) BY <1>3, <2>0, <2>1 DEF Propagates, Moves
        <3>2. caught' = caught \cup {e} BY <2>1 DEF Propagates
        <3>3. e \notin caught
            <4>1. First(Failed) \in Failed BY <2>1, FirstSlots DEF Propagates
            <4> QED BY <4>1 DEF IInv, EptrsOK, ExceptionsReachOneCaller
        <3> HIDE DEF e
        <3> QED BY <1>2, <3>1, <3>2, <3>3
    <2>2. CASE \E i \in {First(Ready)} : pc[t] = "seeking" /\ Ready # {} /\ Begins(t, i)
        <3> DEFINE j == tasks[First(Ready)].job
        <3>1. /\ pc' = [pc EXCEPT ![t] = "user"] /\ threw' = threw /\ caught' = caught
              /\ \A u \in Threads \ {t} : stack'[u] = stack[u]
              /\ stack'[t] = <<j>>
            BY <1>0, <2>2 DEF Begins, Moves, history
        <3>2. Alone(t) BY <1>3, <2>0, <3>1
        <3>3. loop[<<j>>] = "none"
            <4>1. j \in Undone /\ \A u \in Threads : j \notin Runs(u)
                BY <2>2, FirstSlots DEF IInv, PlacesOK
            <4>2. j \in Job
                <5>1. DOMAIN jobs = 1 .. Len(jobs) /\ Len(jobs) \in Nat /\ Len(jobs) <= MaxJobs
                    BY LenProperties DEF IInv, TypesOK, TypeOK
                <5>2. j \in DOMAIN jobs BY <4>1 DEF Undone
                <5> HIDE DEF j
                <5> QED BY <5>1, <5>2, JobsAssumption DEF Job
            <4> QED BY <4>1, <4>2 DEF LoopInv, FreshOK, Undone
        <3> HIDE DEF j
        <3>4. Code(t)' = <<j>>
            <4>1. <<j>> # <<>> /\ Len(<<j>>) = 1 OBVIOUS
            <4> QED BY <3>1, <4>1 DEF Code
        <3>5. ~Pending(t)' BY <2>0, <3>3, <3>4 DEF Pending
        <3> QED BY <1>1, <3>1, <3>2, <3>5
    <2>3. CASE /\ PoolStep(t) /\ ~Propagates(t)
               /\ ~\E i \in {First(Ready)} : pc[t] = "seeking" /\ Ready # {} /\ Begins(t, i)
        <3>1. /\ threw' = threw /\ caught' = caught
              /\ \A u \in Threads \ {t} : stack'[u] = stack[u]
            BY <1>0, <2>3
               DEF PoolStep, AddTask, AddingAwake, WaitForTask, WaitForAllTasks, Start, Seek,
                   Shutdown, Join, Places, RunsItself, Returns, Sleeps, history
        <3>2. \/ pc[t] \in Added \cup Waiting /\ Moves(t, "user")
              \/ \E point \in {"seeking", "gone", "aborted", "joining", "adding"} : Moves(t, point)
              \/ pc[t] # "user" /\ Moves(t, pc[t])
            BY <1>0, <2>3
               DEF PoolStep, AddTask, AddingAwake, WaitForTask, WaitForAllTasks, Start, Seek,
                   Shutdown, Join, Places, RunsItself, Returns, Sleeps, Added, Waiting
        <3>3. PICK point : pc' = [pc EXCEPT ![t] = point] BY <3>2 DEF Moves
        <3>4. Alone(t) BY <1>3, <2>0, <3>1, <3>3
        <3>5. pc'[t] # "user" \/ pc[t] \in Added \cup Waiting BY <1>0, <3>2 DEF Moves
        <3>6. ~Pending(t)' BY <3>1, <3>5 DEF Pending, ClearOK
        <3> QED BY <1>1, <3>1, <3>4, <3>6
    <2>4. CASE SpuriousWakeup(t)
        <3>1. Spent' = Spent /\ caught' = caught
            BY <2>0, <2>4 DEF SpuriousWakeup, Spent, Pending, Code, Codes, history
        <3> QED BY <3>1, SpentQuietly
    <2> QED BY <1>7, <2>1, <2>2, <2>3, <2>4 DEF PoolRuns
<1>8. CASE UNCHANGED allVars
    <2>1. Spent' = Spent /\ caught' = caught
        BY <1>8 DEF allVars, vars, loops, history, Spent, Pending, Code, Codes
    <2> QED BY <2>1, SpentQuietly
<1> QED BY <1>4, <1>5, <1>6, <1>7, <1>8 DEF LoopNext

LEMMA CountInvariant == LoopSpec => [](IInv /\ LoopInv /\ CountOK)
<1>1. LoopInit => ClearOK /\ CountOK
    <2> SUFFICES ASSUME LoopInit PROVE ClearOK /\ CountOK OBVIOUS
    <2>1. \A t \in Threads : threw[t] = FALSE BY DEF LoopInit, Init
    <2>2. Spent = {} /\ caught = {} BY <2>1 DEF LoopInit, Init, Spent, Pending
    <2> QED BY <2>1, <2>2, FS_EmptySet DEF ClearOK, CountOK
<1>2. IInv /\ LoopInv /\ ClearOK /\ CountOK /\ [LoopNext]_allVars => (ClearOK /\ CountOK)'
    BY ClearKept, CountKept
<1> QED BY <1>1, <1>2, LoopInvariant, PTL DEF LoopSpec

\* The loops that left their helper behind while a task of theirs might still use it are
\* no more than the exceptions that reached a caller: each exception is given to one
\* thread, and leaves one loop of it.
THEOREM HelpersCounted == LoopSpec => []OneHelperPerException
<1>1. IInv /\ LoopInv /\ CountOK => OneHelperPerException
    <2> SUFFICES ASSUME IInv, LoopInv, CountOK PROVE OneHelperPerException OBVIOUS
    <2> DEFINE A == {c \in Codes : Abandoned(c)}
    <2>1. A \subseteq Spent
        BY DEF LoopInv, TasksOK, LoopFits, Abandoned, Spent
    <2>2. Cardinality(A) <= Cardinality(Spent) /\ IsFiniteSet(A)
        BY <2>1, FS_Subset DEF CountOK
    <2>3. /\ Cardinality(A) \in Nat /\ Cardinality(Spent) \in Nat /\ Cardinality(caught) \in Nat
        BY <2>2, FS_CardinalityType DEF CountOK
    <2>4. Cardinality(A) <= Cardinality(caught) BY <2>2, <2>3 DEF CountOK
    <2> QED BY <2>4 DEF OneHelperPerException
<1> QED BY <1>1, CountInvariant, PTL

\* As long as no task throws, parallel_for never leaves the scope of its helper while a
\* task may still use it: only an exception that leaves the loop lets it.
THEOREM HelperSafeUntilThrow == LoopSpec => [](raised = {} => HelperOutlivesTasks)
<1>1. IInv /\ LoopInv /\ CountOK => (raised = {} => HelperOutlivesTasks)
    <2> SUFFICES ASSUME IInv, LoopInv, CountOK, raised = {} PROVE HelperOutlivesTasks OBVIOUS
    <2>1. Cardinality(caught) = 0
        <3>1. caught = {} BY DEF IInv, TypesOK, TypeOK
        <3> QED BY <3>1, FS_EmptySet
    <2>2. Cardinality(Spent) \in Nat /\ Cardinality(Spent) <= 0
        BY <2>1, FS_CardinalityType DEF CountOK
    <2>3. Cardinality(Spent) = 0 BY <2>2
    <2>4. Spent = {} BY <2>3, FS_EmptySet DEF CountOK
    <2> QED BY <2>4 DEF LoopInv, TasksOK, LoopFits, Spent, HelperOutlivesTasks
<1> QED BY <1>1, CountInvariant, PTL

=============================================================================

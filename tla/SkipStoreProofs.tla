-------------------------- MODULE SkipStoreProofs ---------------------------
(***************************************************************************)
(* Proofs about SkipStore for every set of songs and every bound.          *)
(*                                                                         *)
(* The inductive invariant joins the type, the relation between context    *)
(* and store, and the uniqueness of rows.  The relation is what carries    *)
(* uniqueness over a crash: the rows of the store are the first rows of    *)
(* the context, so they are distinct if those are.                         *)
(*                                                                         *)
(* The second half is about the totals: what a new row and a raised row do *)
(* to them, and that the rows implement the ledger of SkipLedger.          *)
(***************************************************************************)
EXTENDS SkipStore, WellFoundedInduction, TLAPS

IInv ==
    /\ TypeOK
    /\ ContextContinuesStore
    /\ OneRowPerSong

-----------------------------------------------------------------------------
(***************************************************************************)
(* Rows that continue rows.                                                *)
(***************************************************************************)

\* Rows continue themselves.
LEMMA ContinuesReflexive ==
    ASSUME NEW a \in Seq(Row)
    PROVE  Continues(a, a)
<1>1. ASSUME NEW i \in DOMAIN a
      PROVE  a[i].skip >= a[i].skip
  <2>1. a[i] \in Row
    OBVIOUS
  <2>2. a[i].skip \in Nat
    BY <2>1 DEF Row
  <2> QED
    BY <2>2
<1>2. Len(a) <= Len(a)
  OBVIOUS
<1> QED
  BY <1>1, <1>2 DEF Continues

\* What continues a continuation continues the first rows.
LEMMA ContinuesTransitive ==
    ASSUME NEW a \in Seq(Row), NEW b \in Seq(Row), NEW c \in Seq(Row),
           Continues(a, b), Continues(b, c)
    PROVE  Continues(a, c)
<1>1. Len(a) <= Len(c)
  BY DEF Continues
<1>2. ASSUME NEW i \in DOMAIN a
      PROVE  c[i].name = a[i].name /\ c[i].skip >= a[i].skip
  <2>1. i \in DOMAIN b /\ i \in DOMAIN c
    BY DEF Continues
  <2>2. a[i] \in Row /\ b[i] \in Row /\ c[i] \in Row
    BY <2>1
  <2>3. /\ b[i].name = a[i].name /\ b[i].skip >= a[i].skip
        /\ c[i].name = b[i].name /\ c[i].skip >= b[i].skip
    BY <2>1 DEF Continues
  <2> QED
    BY <2>2, <2>3 DEF Row
<1> QED
  BY <1>1, <1>2 DEF Continues

\* Rows distinct by name are still distinct where they were continued from.
LEMMA UniqueBackwards ==
    ASSUME NEW a \in Seq(Row), NEW b \in Seq(Row), Continues(a, b),
           \A i, j \in DOMAIN b : b[i].name = b[j].name => i = j
    PROVE  \A i, j \in DOMAIN a : a[i].name = a[j].name => i = j
BY DEF Continues

-----------------------------------------------------------------------------
(***************************************************************************)
(* A skip.                                                                 *)
(***************************************************************************)

\* Counting a skip keeps rows rows, and continues them.
LEMMA CountSkipContinues ==
    ASSUME NEW s \in Songs, context \in Seq(Row), CountSkip(s)
    PROVE  context' \in Seq(Row) /\ Continues(context, context')
<1>1. CASE InsertRow(s)
  <2>1. [name |-> s, skip |-> 1] \in Row
    BY DEF Row
  <2>2. context' \in Seq(Row)
    BY <1>1, <2>1 DEF InsertRow
  <2>3. Len(context') = Len(context) + 1
        /\ \A i \in DOMAIN context : context'[i] = context[i]
    BY <1>1, <2>1 DEF InsertRow
  <2>4. Continues(context, context)
    BY ContinuesReflexive
  <2> QED
    BY <2>2, <2>3, <2>4 DEF Continues
<1>2. CASE RaiseRow(s)
  <2>1. PICK i \in RowsOf(s) : context' = [context EXCEPT ![i].skip = @ + 1]
    BY <1>2 DEF RaiseRow
  <2>2. i \in DOMAIN context /\ context[i] \in Row
    BY <2>1 DEF RowsOf
  <2>3. [context[i] EXCEPT !.skip = @ + 1] \in Row
    BY <2>2 DEF Row
  <2>4. context' = [context EXCEPT ![i] = [context[i] EXCEPT !.skip = @ + 1]]
    BY <2>1
  <2>5. context' \in Seq(Row) /\ Len(context') = Len(context)
    BY <2>2, <2>3, <2>4
  <2>6. \A k \in DOMAIN context :
           context'[k].name = context[k].name /\ context'[k].skip >= context[k].skip
    <3>1. ASSUME NEW k \in DOMAIN context, k # i
          PROVE  context'[k] = context[k]
      BY <2>4, <3>1
    <3>2. context'[i].name = context[i].name /\ context'[i].skip = context[i].skip + 1
      BY <2>2, <2>4 DEF Row
    <3>3. context[i].skip + 1 >= context[i].skip
      BY <2>2 DEF Row
    <3>4. Continues(context, context)
      BY ContinuesReflexive
    <3> QED
      BY <3>1, <3>2, <3>3, <3>4 DEF Continues
  <2> QED
    BY <2>5, <2>6 DEF Continues
<1> QED
  BY <1>1, <1>2 DEF CountSkip

\* Without failing fetches a skip inserts a row only for a song that has none.
LEMMA CountSkipUnique ==
    ASSUME NEW s \in Songs, context \in Seq(Row), OneRowPerSong, CountSkip(s)
    PROVE  OneRowPerSong'
<1> SUFFICES ASSUME ~FetchMayFail, NEW i \in DOMAIN context', NEW j \in DOMAIN context',
                    context'[i].name = context'[j].name
             PROVE  i = j
  BY DEF OneRowPerSong
<1>1. CASE RowsOf(s) = {} /\ InsertRow(s)
  <2>1. \A k \in DOMAIN context : context[k].name # s
    BY <1>1 DEF RowsOf
  <2>2. DOMAIN context' = DOMAIN context \cup {Len(context) + 1}
    BY <1>1 DEF InsertRow
  <2>3. context'[Len(context) + 1].name = s
    BY <1>1 DEF InsertRow
  <2>4. \A k \in DOMAIN context : context'[k] = context[k]
    BY <1>1 DEF InsertRow
  <2> QED
    BY <2>1, <2>2, <2>3, <2>4 DEF OneRowPerSong
<1>2. CASE RaiseRow(s)
  <2>1. PICK m \in RowsOf(s) : context' = [context EXCEPT ![m].skip = @ + 1]
    BY <1>2 DEF RaiseRow
  <2>2. DOMAIN context' = DOMAIN context
    BY <2>1
  <2>3. \A k \in DOMAIN context : context[k] \in Row
    OBVIOUS
  <2>4. \A k \in DOMAIN context : context'[k].name = context[k].name
    BY <2>1, <2>3 DEF RowsOf, Row
  <2> QED
    BY <2>2, <2>4 DEF OneRowPerSong
<1> QED
  BY <1>1, <1>2 DEF CountSkip

-----------------------------------------------------------------------------
\* Every step keeps the invariant and continues the rows of the store.
LEMMA NextIInv ==
    ASSUME IInv, [Next]_vars
    PROVE  IInv' /\ Continues(store, store')
<1>t. context \in Seq(Row) /\ store \in Seq(Row) /\ phase \in Alive \cup {"quit", "crashed"}
  BY DEF IInv, TypeOK
<1>c. Continues(store, context)
  BY DEF IInv, ContextContinuesStore
<1>r. Continues(store, store) /\ Continues(context, context)
  BY <1>t, ContinuesReflexive
<1>1. ASSUME NEW s \in Songs, RecordSkip(s)
      PROVE  IInv' /\ Continues(store, store')
  <2>1. context' \in Seq(Row) /\ Continues(context, context')
    BY <1>t, <1>1, CountSkipContinues DEF RecordSkip
  <2>2. Continues(store, context')
    BY <1>t, <1>c, <2>1, ContinuesTransitive
  <2>3. Continues(context', context')
    BY <2>1, ContinuesReflexive
  <2>4. store' = store \/ store' = context'
    BY <1>1 DEF RecordSkip, SaveAttempt
  <2>5. TypeOK'
    BY <1>t, <1>1, <2>1, <2>4 DEF TypeOK, RecordSkip
  <2>6. OneRowPerSong'
    BY <1>t, <1>1, CountSkipUnique DEF IInv, RecordSkip
  <2> QED
    BY <1>r, <2>2, <2>3, <2>4, <2>5, <2>6 DEF IInv, ContextContinuesStore
<1>2. CASE /\ context' = context
           /\ store' \in {store, context}
           /\ phase' \in Alive \cup {"quit", "crashed"}
  <2>1. TypeOK' /\ OneRowPerSong'
    BY <1>2, <1>t DEF IInv, TypeOK, OneRowPerSong
  <2>2. Continues(store', context') /\ Continues(store, store')
    BY <1>2, <1>c, <1>r
  <2> QED
    BY <2>1, <2>2 DEF IInv, ContextContinuesStore
<1>3. CASE /\ context' = store
           /\ store' = store
           /\ phase' \in {"quit", "crashed"}
  <2>1. TypeOK'
    BY <1>3, <1>t DEF TypeOK
  <2>2. OneRowPerSong'
    BY <1>3, <1>t, <1>c, UniqueBackwards DEF IInv, OneRowPerSong
  <2> QED
    BY <1>3, <1>r, <2>1, <2>2 DEF IInv, ContextContinuesStore
<1>4. CASE ShouldTerminate \/ ErrorPresented \/ CancelChosen \/ Launch
  BY <1>2, <1>4 DEF ShouldTerminate, ErrorPresented, CancelChosen, Launch, Alive
<1>5. CASE QuitAnywayChosen \/ Crash
  BY <1>3, <1>5 DEF QuitAnywayChosen, Crash
<1>6. CASE UNCHANGED vars
  BY <1>2, <1>6, <1>t DEF vars
<1> QED
  BY <1>1, <1>4, <1>5, <1>6 DEF Next

\* The inductive invariant holds in every reachable state.
THEOREM IInvInvariant == Spec => []IInv
<1>1. Init => IInv
  BY DEF Init, IInv, TypeOK, ContextContinuesStore, Continues, OneRowPerSong, Alive
<1>2. IInv /\ [Next]_vars => IInv'
  BY NextIInv
<1> QED
  BY <1>1, <1>2, PTL DEF Spec

-----------------------------------------------------------------------------
\* Context and store hold rows with a positive skip count.
THEOREM TypeCorrect == Spec => []TypeOK
<1>1. IInv => TypeOK
  BY DEF IInv
<1> QED
  BY <1>1, IInvInvariant, PTL

\* As long as no fetch throws, a song never has two rows, over any number of
\* crashes, failed saves and launches.
THEOREM UniqueRows == Spec => []OneRowPerSong
<1>1. IInv => OneRowPerSong
  BY DEF IInv
<1> QED
  BY <1>1, IInvInvariant, PTL

\* Pending changes only add to what is saved.
THEOREM ContextContinues == Spec => []ContextContinuesStore
<1>1. IInv => ContextContinuesStore
  BY DEF IInv
<1> QED
  BY <1>1, IInvInvariant, PTL

\* No saved skip is ever taken back.
THEOREM SavedSurvive == Spec => SavedSkipsSurvive
<1>1. IInv /\ [Next]_vars => [Continues(store, store')]_vars
  BY NextIInv
<1> QED
  BY <1>1, IInvInvariant, PTL DEF Spec, SavedSkipsSurvive

\* The delegate ends the process with changes unsaved only after the question.
THEOREM QuitSaves == Spec => QuitSavesOrAsks
<1>1. ASSUME TypeOK, [Next]_vars
      PROVE  [phase' = "quit" /\ phase # "asking" => store' = context]_vars
  <2>1. CASE \E s \in Songs : RecordSkip(s)
    BY <2>1 DEF RecordSkip, Alive
  <2>2. CASE ShouldTerminate
    BY <2>2 DEF ShouldTerminate, HasChanges
  <2>3. CASE ErrorPresented \/ CancelChosen \/ QuitAnywayChosen \/ Crash \/ Launch
    BY <2>3 DEF ErrorPresented, CancelChosen, QuitAnywayChosen, Crash, Launch
  <2> QED
    BY <1>1, <2>1, <2>2, <2>3 DEF Next
<1> QED
  BY <1>1, TypeCorrect, PTL DEF Spec, QuitSavesOrAsks
-----------------------------------------------------------------------------
(***************************************************************************)
(* The skips of a song over its rows.                                      *)
(***************************************************************************)

\* Induction from 0 up to n, for a set.
LEMMA Induction ==
    ASSUME NEW n \in Nat, NEW S, 0 \in S, \A k \in 0 .. n - 1 : k \in S => k + 1 \in S
    PROVE  0 .. n \subseteq S
<1> DEFINE R == OpToRel(<, Nat)
           Bad == {k \in 0 .. n : k \notin S}
<1>1. IsWellFoundedOn(R, Nat)
  BY NatLessThanWellFounded
<1>2. \A x, y \in Nat : <<y, x>> \in R <=> y < x
  BY DEF OpToRel
<1> HIDE DEF R
<1> SUFFICES ASSUME Bad # {} PROVE FALSE
  OBVIOUS
<1>3. Bad \in SUBSET Nat
  OBVIOUS
<1>4. PICK x \in Bad : \A y \in Bad : ~(<<y, x>> \in R)
  BY <1>1, <1>3, WFMin
<1>5. x \in 0 .. n /\ x \notin S /\ x # 0
  OBVIOUS
<1>6. /\ x - 1 \in 0 .. n - 1 /\ x - 1 \in 0 .. n
      /\ x \in Nat /\ x - 1 \in Nat /\ x - 1 < x /\ (x - 1) + 1 = x
  BY <1>5
<1>7. <<x - 1, x>> \in R
  BY <1>2, <1>6
<1>8. x - 1 \notin Bad
  BY <1>4, <1>7
<1>9. x - 1 \in S
  BY <1>6, <1>8
<1> QED
  BY <1>5, <1>6, <1>9

\* f holds the sums of the first elements of g.
Sums(f, g, n) ==
    /\ f \in [0 .. n -> Nat]
    /\ f[0] = 0
    /\ \A k \in 1 .. n : f[k] = f[k - 1] + g[k]

\* The sums exist.
LEMMA SumsExist ==
    ASSUME NEW n \in Nat, NEW g \in [1 .. n -> Nat]
    PROVE  \E f : Sums(f, g, n)
<1> DEFINE S == {m \in 0 .. n : \E f : Sums(f, g, m)}
<1>1. 0 \in S
  <2> DEFINE z == [k \in 0 .. 0 |-> 0]
  <2>1. z \in [0 .. 0 -> Nat] /\ z[0] = 0
    OBVIOUS
  <2>2. 1 .. 0 = {}
    OBVIOUS
  <2> HIDE DEF z
  <2>3. Sums(z, g, 0)
    BY <2>1, <2>2 DEF Sums
  <2> QED
    BY <2>3
<1>2. ASSUME NEW m \in 0 .. n - 1, m \in S
      PROVE  m + 1 \in S
  <2>1. PICK f : Sums(f, g, m)
    BY <1>2
  <2>2. f \in [0 .. m -> Nat] /\ f[0] = 0 /\ \A k \in 1 .. m : f[k] = f[k - 1] + g[k]
    BY <2>1 DEF Sums
  <2> DEFINE h == [k \in 0 .. m + 1 |-> IF k <= m THEN f[k] ELSE f[m] + g[m + 1]]
  <2>3. ASSUME NEW k \in 0 .. m + 1
        PROVE  h[k] \in Nat
    <3>1. CASE k <= m
      BY <2>2, <3>1
    <3>2. CASE ~(k <= m)
      <4>1. m + 1 \in 1 .. n
        BY <1>2
      <4>2. g[m + 1] \in Nat /\ f[m] \in Nat
        BY <4>1, <2>2
      <4>3. h[k] = f[m] + g[m + 1]
        BY <3>2
      <4> QED
        BY <4>2, <4>3
    <3> QED
      BY <3>1, <3>2
  <2>4. h \in [0 .. m + 1 -> Nat]
    BY <2>3
  <2>5. h[0] = 0
    BY <2>2
  <2>6. ASSUME NEW k \in 1 .. m + 1
        PROVE  h[k] = h[k - 1] + g[k]
    <3>1. CASE k <= m
      BY <2>2, <3>1
    <3>2. CASE k = m + 1
      BY <3>2
    <3> QED
      BY <3>1, <3>2
  <2> HIDE DEF h
  <2>7. Sums(h, g, m + 1)
    BY <2>4, <2>5, <2>6 DEF Sums
  <2>8. m + 1 \in 0 .. n
    BY <1>2
  <2> QED
    BY <2>7, <2>8
<1> HIDE DEF S
<1>3. 0 .. n \subseteq S
  BY <1>1, <1>2, Induction
<1>4. n \in S
  BY <1>3
<1> QED
  BY <1>4 DEF S

\* The shares of a song in rows.
Shares(rows, s) == [i \in 1 .. Len(rows) |-> Share(rows, s, i)]

LEMMA SharesType ==
    ASSUME NEW rows \in Seq(Row), NEW s
    PROVE  Shares(rows, s) \in [1 .. Len(rows) -> Nat]
<1>1. ASSUME NEW i \in 1 .. Len(rows)
      PROVE  Share(rows, s, i) \in Nat
  <2>1. rows[i] \in Row
    OBVIOUS
  <2> QED
    BY <2>1 DEF Share, Row
<1> QED
  BY <1>1 DEF Shares

\* Sums of the shares end in the total.
LEMMA TotalIsSum ==
    ASSUME NEW rows \in Seq(Row), NEW s, NEW f, Sums(f, Shares(rows, s), Len(rows))
    PROVE  Total(rows, s) = f[Len(rows)]
<1> DEFINE n == Len(rows)
           Step(h) == h = [k \in 0 .. n |-> IF k = 0 THEN 0 ELSE h[k - 1] + Share(rows, s, k)]
           sum == CHOOSE h : Step(h)
<1>0. n \in Nat
  OBVIOUS
<1>f. /\ f \in [0 .. n -> Nat] /\ f[0] = 0
      /\ \A k \in 1 .. n : f[k] = f[k - 1] + Share(rows, s, k)
  BY DEF Sums, Shares
<1>1. Total(rows, s) = sum[n]
  BY DEF Total
<1>2. Step(f)
  BY <1>0, <1>f
<1>3. Step(sum)
  BY <1>2
<1> HIDE DEF sum
<1> DEFINE S == {k \in 0 .. n : sum[k] = f[k]}
<1>4. 0 \in S
  BY <1>0, <1>f, <1>3
<1>5. ASSUME NEW k \in 0 .. n - 1, k \in S
      PROVE  k + 1 \in S
  <2>1. /\ k \in 0 .. n /\ k + 1 \in 0 .. n /\ k + 1 \in 1 .. n
        /\ k + 1 # 0 /\ (k + 1) - 1 = k
    BY <1>0
  <2>2. sum[k + 1] = sum[k] + Share(rows, s, k + 1)
    BY <1>3, <2>1
  <2>3. f[k + 1] = f[k] + Share(rows, s, k + 1)
    BY <1>f, <2>1
  <2> QED
    BY <1>5, <2>1, <2>2, <2>3
<1> HIDE DEF S
<1>6. 0 .. n \subseteq S
  BY <1>0, <1>4, <1>5, Induction
<1>7. n \in S
  BY <1>0, <1>6
<1> QED
  BY <1>1, <1>7 DEF S

\* The sums of the shares, one after the other up to the total.
LEMMA TotalSums ==
    ASSUME NEW rows \in Seq(Row), NEW s
    PROVE  \E f : Sums(f, Shares(rows, s), Len(rows)) /\ Total(rows, s) = f[Len(rows)]
<1>1. PICK f : Sums(f, Shares(rows, s), Len(rows))
  BY SharesType, SumsExist
<1> QED
  BY <1>1, TotalIsSum

\* A total is a natural number, and 0 without rows.
LEMMA TotalType ==
    ASSUME NEW rows \in Seq(Row), NEW s
    PROVE  Total(rows, s) \in Nat /\ (rows = <<>> => Total(rows, s) = 0)
<1>1. PICK f : Sums(f, Shares(rows, s), Len(rows)) /\ Total(rows, s) = f[Len(rows)]
  BY TotalSums
<1>2. f \in [0 .. Len(rows) -> Nat] /\ f[0] = 0
  BY <1>1 DEF Sums
<1> QED
  BY <1>1, <1>2

\* A new row adds its skips to the total of its song.
LEMMA TotalOfAppend ==
    ASSUME NEW rows \in Seq(Row), NEW r \in Row, NEW s
    PROVE  Total(Append(rows, r), s) = Total(rows, s) + (IF r.name = s THEN r.skip ELSE 0)
<1> DEFINE n == Len(rows)
           more == Append(rows, r)
           last == IF r.name = s THEN r.skip ELSE 0
<1>0. n \in Nat /\ more \in Seq(Row) /\ Len(more) = n + 1
  OBVIOUS
<1>1. PICK f : Sums(f, Shares(rows, s), n) /\ Total(rows, s) = f[n]
  BY TotalSums
<1>2. /\ f \in [0 .. n -> Nat] /\ f[0] = 0
      /\ \A k \in 1 .. n : f[k] = f[k - 1] + Share(rows, s, k)
  BY <1>1 DEF Sums, Shares
<1>3. last \in Nat
  BY DEF Row
<1>4. /\ Share(more, s, n + 1) = last
      /\ \A k \in 1 .. n : Share(more, s, k) = Share(rows, s, k)
  BY <1>0 DEF Share
<1> HIDE DEF last, more
<1> DEFINE h == [k \in 0 .. n + 1 |-> IF k <= n THEN f[k] ELSE f[n] + last]
<1>5. h \in [0 .. n + 1 -> Nat] /\ h[0] = 0 /\ h[n + 1] = f[n] + last
  BY <1>0, <1>2, <1>3
<1>6. ASSUME NEW k \in 1 .. n + 1
      PROVE  h[k] = h[k - 1] + Share(more, s, k)
  <2>1. CASE k <= n
    BY <1>0, <1>2, <1>4, <2>1
  <2>2. CASE k = n + 1
    BY <1>0, <1>2, <1>4, <2>2
  <2> QED
    BY <1>0, <2>1, <2>2
<1> HIDE DEF h
<1>7. Sums(h, Shares(more, s), Len(more))
  BY <1>0, <1>5, <1>6 DEF Sums, Shares
<1>8. Total(more, s) = h[n + 1]
  BY <1>0, <1>7, TotalIsSum
<1> QED
  BY <1>1, <1>5, <1>8 DEF last, more

\* One skip more in a row is one more in the total of its song, and changes no
\* other total.
LEMMA TotalOfRaise ==
    ASSUME NEW rows \in Seq(Row), NEW i \in 1 .. Len(rows), NEW s,
           NEW raised \in Seq(Row), Len(raised) = Len(rows),
           \A k \in 1 .. Len(rows) : raised[k].name = rows[k].name,
           \A k \in 1 .. Len(rows) : k # i => raised[k].skip = rows[k].skip,
           raised[i].skip = rows[i].skip + 1
    PROVE  Total(raised, s) = Total(rows, s) + (IF rows[i].name = s THEN 1 ELSE 0)
<1> DEFINE n == Len(rows)
           one == IF rows[i].name = s THEN 1 ELSE 0
<1>0. n \in Nat /\ i \in 1 .. n
  OBVIOUS
<1>1. PICK f : Sums(f, Shares(rows, s), n) /\ Total(rows, s) = f[n]
  BY TotalSums
<1>2. /\ f \in [0 .. n -> Nat] /\ f[0] = 0
      /\ \A k \in 1 .. n : f[k] = f[k - 1] + Share(rows, s, k)
  BY <1>1 DEF Sums, Shares
<1>3. one \in Nat
  OBVIOUS
<1>4. ASSUME NEW k \in 1 .. n
      PROVE  /\ Share(rows, s, k) \in Nat
             /\ k # i => Share(raised, s, k) = Share(rows, s, k)
             /\ k = i => Share(raised, s, k) = Share(rows, s, k) + one
  <2>1. rows[k] \in Row
    OBVIOUS
  <2>2. rows[k].skip \in Nat
    BY <2>1 DEF Row
  <2>3. CASE k # i
    BY <2>2, <2>3 DEF Share
  <2>4. CASE k = i
    BY <2>2, <2>4 DEF Share
  <2> QED
    BY <2>2, <2>3, <2>4 DEF Share
<1> HIDE DEF one
<1> DEFINE h == [k \in 0 .. n |-> IF k < i THEN f[k] ELSE f[k] + one]
<1>5. h \in [0 .. n -> Nat] /\ h[0] = 0 /\ h[n] = f[n] + one
  BY <1>0, <1>2, <1>3
<1>6. ASSUME NEW k \in 1 .. n
      PROVE  h[k] = h[k - 1] + Share(raised, s, k)
  <2>1. /\ k - 1 \in 0 .. n /\ k \in 0 .. n
        /\ f[k - 1] \in Nat /\ f[k] = f[k - 1] + Share(rows, s, k)
    BY <1>0, <1>2
  <2>2. CASE k < i
    BY <1>0, <1>4, <2>1, <2>2
  <2>3. CASE k = i
    BY <1>0, <1>3, <1>4, <2>1, <2>3
  <2>4. CASE k > i
    BY <1>0, <1>3, <1>4, <2>1, <2>4
  <2> QED
    BY <1>0, <2>2, <2>3, <2>4
<1> HIDE DEF h
<1>7. Sums(h, Shares(raised, s), Len(raised))
  BY <1>0, <1>5, <1>6 DEF Sums, Shares
<1>8. Total(raised, s) = h[n]
  BY <1>7, TotalIsSum
<1> QED
  BY <1>1, <1>5, <1>8 DEF one
\* A skip is one more in the total of its song, whether it makes a row or raises
\* one, and changes no other total.
LEMMA CountSkipTotal ==
    ASSUME NEW s \in Songs, context \in Seq(Row), CountSkip(s), NEW t
    PROVE  Total(context', t) = Total(context, t) + (IF t = s THEN 1 ELSE 0)
<1>1. CASE InsertRow(s)
  <2>1. [name |-> s, skip |-> 1] \in Row
    BY DEF Row
  <2> QED
    BY <1>1, <2>1, TotalOfAppend DEF InsertRow
<1>2. CASE RaiseRow(s)
  <2>1. PICK i \in RowsOf(s) : context' = [context EXCEPT ![i].skip = @ + 1]
    BY <1>2 DEF RaiseRow
  <2>2. i \in 1 .. Len(context) /\ context[i] \in Row /\ context[i].name = s
    BY <2>1 DEF RowsOf
  <2>3. [context[i] EXCEPT !.skip = @ + 1] \in Row
    BY <2>2 DEF Row
  <2>4. context' = [context EXCEPT ![i] = [context[i] EXCEPT !.skip = @ + 1]]
    BY <2>1
  <2>5. /\ context' \in Seq(Row) /\ Len(context') = Len(context)
        /\ \A k \in 1 .. Len(context) : k # i => context'[k] = context[k]
    BY <2>2, <2>3, <2>4
  <2>6. context'[i].name = context[i].name /\ context'[i].skip = context[i].skip + 1
    BY <2>2, <2>4 DEF Row
  <2>7. Total(context', t) = Total(context, t) + (IF context[i].name = t THEN 1 ELSE 0)
    BY <2>2, <2>5, <2>6, TotalOfRaise
  <2> QED
    BY <2>2, <2>7
<1> QED
  BY <1>1, <1>2 DEF CountSkip

\* The rows implement the ledger of skips: a skip raises one total by one, a save
\* takes over all totals at once, and the end of a process takes back just what
\* was pending.
THEOREM LedgerImplemented == Spec => ImplementsLedger
<1> DEFINE count == [s \in Songs |-> Total(context, s)]
           durable == [s \in Songs |-> Total(store, s)]
<1>1. Init => Ledger!Init
  <2>1. <<>> \in Seq(Row)
    OBVIOUS
  <2>2. \A s \in Songs : Total(<<>>, s) = 0
    BY <2>1, TotalType
  <2> QED
    BY <2>2 DEF Init, Ledger!Init
<1>2. ASSUME TypeOK, [Next]_vars
      PROVE  [Ledger!Next]_<<count, durable>>
  <2>1. ASSUME NEW s \in Songs, RecordSkip(s)
        PROVE  Ledger!Skip(s)
    <3>1. context \in Seq(Row) /\ CountSkip(s) /\ store' \in {store, context'}
      BY <2>1, <1>2 DEF TypeOK, RecordSkip, SaveAttempt
    <3>2. \A t \in Songs : count[t] \in Nat
      BY <3>1, TotalType
    <3>3. \A t \in Songs : Total(context', t) = count[t] + (IF t = s THEN 1 ELSE 0)
      BY <3>1, CountSkipTotal
    <3>4. count' = [count EXCEPT ![s] = @ + 1]
      <4>1. count' = [t \in Songs |-> Total(context', t)]
        OBVIOUS
      <4>2. count = [t \in Songs |-> count[t]]
        OBVIOUS
      <4> HIDE DEF count
      <4> QED
        BY <3>2, <3>3, <4>1, <4>2
    <3>5. durable' \in {durable, count'}
      BY <3>1
    <3> QED
      BY <3>4, <3>5 DEF Ledger!Skip
  <2>2. CASE context' = context /\ store' = context
    BY <2>2 DEF Ledger!Next, Ledger!Save
  <2>3. CASE context' = store /\ store' = store
    BY <2>3 DEF Ledger!Next, Ledger!Forget
  <2>4. CASE context' = context /\ store' = store
    BY <2>4
  <2>5. CASE ShouldTerminate
    BY <2>2, <2>4, <2>5 DEF ShouldTerminate
  <2>6. CASE ErrorPresented \/ CancelChosen \/ Launch
    BY <2>4, <2>6 DEF ErrorPresented, CancelChosen, Launch
  <2>7. CASE QuitAnywayChosen \/ Crash
    BY <2>3, <2>7 DEF QuitAnywayChosen, Crash
  <2>8. CASE UNCHANGED vars
    BY <2>4, <2>8 DEF vars
  <2> QED
    BY <1>2, <2>1, <2>5, <2>6, <2>7, <2>8 DEF Next, Ledger!Next
<1> QED
  BY <1>1, <1>2, TypeCorrect, PTL DEF Spec, ImplementsLedger, Ledger!Spec
=============================================================================

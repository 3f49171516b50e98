-------------------------- MODULE WebhookQueueProofs --------------------------
(***************************************************************************)
(* Proofs about the outbound webhook queue, for any number of webhooks,    *)
(* emitters and rows: the cap, whom it takes from, and that a delivery is  *)
(* lost only when its row was given an id that the drain or a cancelling   *)
(* emit still means an earlier row by.                                     *)
(***************************************************************************)
EXTENDS WebhookQueue, FiniteSetTheorems, WellFoundedInduction, TLAPS

\* An escalated fault that was not tried yet lives longer than MaxAge for as
\* long as it is held, and no longer once it is due; the drain read it due.
DelayInv ==
    /\ \A k \in Used(queue) : queue[k].attempts = 0 => queue[k].life <= MaxAge + queue[k].wait
    /\ \A k \in InBatch : batch[k].attempts = 0 => batch[k].life <= MaxAge

\* The row has its id to itself: nobody meant another row by it.
Own(k) == queue[k] # None /\ ~queue[k].reused

\* Attempts the row counts were made.
RowFits(k) == queue[k].attempts <= queue[k].fails

\* What the drain read of the row is of this row, and at most out of date.
BatchFits(k) ==
    /\ k \notin stale
    /\ queue[k].hook = batch[k].hook
    /\ queue[k].life <= batch[k].life
    /\ batch[k].attempts <= queue[k].fails

\* The row has seen the POST that the drain is about to record.
PostFits(k) ==
    IF outcome = "ok" THEN queue[k].sent ELSE batch[k].attempts + 1 <= queue[k].fails

\* A row that an emit cancels is a fault of the incident that has cleared.
CancelFits(e, k) ==
    plan[e].kind = "clear" /\ queue[k].kind = "fault" /\ queue[k].inc = plan[e].inc

Fits(k) ==
    /\ RowFits(k)
    /\ k \in InBatch => BatchFits(k)
    /\ pc = "posted" /\ k = Row => PostFits(k)
    /\ \A e \in Emitters : plan[e] # None /\ k \in plan[e].cancel => CancelFits(e, k)

HistoryInv == \A k \in Rows : Own(k) => Fits(k)

QueueInv == TypeOK /\ CapHolds /\ DelayInv /\ HistoryInv

-----------------------------------------------------------------------------
(* Sets of rows, and of webhooks.                                          *)

LEMMA LeastOf ==
    ASSUME NEW S \in SUBSET Nat, S # {}
    PROVE  \E m \in S : \A k \in S : m <= k
<1>1. \E m \in S : \A k \in S : ~(<<k, m>> \in OpToRel(<, Nat))
  BY WFMin, NatLessThanWellFounded, Zenon
<1>2. PICK m \in S : \A k \in S : ~(<<k, m>> \in OpToRel(<, Nat))
  BY <1>1
<1>3. \A k \in S : ~(k < m)
  BY <1>2 DEF OpToRel
<1>4. QED
  BY <1>3

LEMMA IntervalSets ==
    ASSUME NEW N \in Nat, NEW S \in SUBSET (1 .. N)
    PROVE  S \subseteq Nat /\ IsFiniteSet(S) /\ Cardinality(S) \in Nat /\ Cardinality(S) <= N
<1>1. N \in Int /\ 1 \in Int
  OBVIOUS
<1>2. IsFiniteSet(1 .. N) /\ Cardinality(1 .. N) = N
  BY <1>1, FS_Interval
<1>3. IsFiniteSet(S) /\ Cardinality(S) <= Cardinality(1 .. N)
  BY <1>2, FS_Subset
<1>4. QED
  BY <1>1, <1>2, <1>3, FS_CardinalityType

LEMMA GreatestOf ==
    ASSUME NEW N \in Nat, NEW S \in SUBSET (1 .. N), S # {}
    PROVE  \E m \in S : \A k \in S : k <= m
<1> DEFINE Bounds == {k \in 1 .. N : \A j \in S : j <= k}
<1>1. PICK s \in S : TRUE
  OBVIOUS
<1>2. N \in 1 .. N /\ \A j \in S : j <= N
  BY <1>1
<1>3. N \in Bounds /\ Bounds \subseteq Nat
  BY <1>2
<1>4. PICK m \in Bounds : \A k \in Bounds : m <= k
  BY <1>3, LeastOf
<1>5. m \in S
  <2>1. SUFFICES ASSUME m \notin S PROVE FALSE
    OBVIOUS
  <2>2. s <= m /\ s # m
    BY <1>1, <1>4, <2>1
  <2>3. m - 1 \in 1 .. N /\ \A j \in S : j <= m - 1
    BY <1>4, <2>1, <2>2
  <2>4. m - 1 \in Bounds
    BY <2>3
  <2>5. QED
    BY <1>4, <2>4
<1>6. QED
  BY <1>4, <1>5

\* The members of S below c.
Below(S, c) == {x \in S : x < c}

LEMMA BelowSets ==
    ASSUME NEW N \in Nat, NEW S \in SUBSET (1 .. N), NEW c \in S
    PROVE  /\ Below(S, c) \in SUBSET (S \ {c}) /\ Below(S, c) \in SUBSET (1 .. N)
           /\ \A x \in S : x \in Below(S, c) <=> x < c
           /\ IsFiniteSet(Below(S, c)) /\ Cardinality(Below(S, c)) \in Nat
<1>1. Below(S, c) \subseteq S /\ \A x \in S : x \in Below(S, c) <=> x < c
  BY DEF Below
<1>2. ~(c < c)
  OBVIOUS
<1>3. c \notin Below(S, c)
  BY <1>1, <1>2
<1>4. Below(S, c) \in SUBSET (1 .. N)
  BY <1>1
<1>5. QED
  BY <1>1, <1>3, <1>4, IntervalSets

\* A member has fewer below it than any set that holds it and those.
LEMMA BelowIsLess ==
    ASSUME NEW N \in Nat, NEW S \in SUBSET (1 .. N), NEW T \in SUBSET S,
           NEW c \in T, Below(S, c) \subseteq T
    PROVE  Cardinality(Below(S, c)) < Cardinality(T)
<1>1. T \in SUBSET (1 .. N)
  OBVIOUS
<1>2. IsFiniteSet(T) /\ Cardinality(T) \in Nat
  BY <1>1, IntervalSets
<1>3. Below(S, c) \subseteq T \ {c} /\ Cardinality(Below(S, c)) \in Nat
  BY BelowSets
<1>4. IsFiniteSet(T \ {c}) /\ Cardinality(T \ {c}) = Cardinality(T) - 1
  BY <1>2, FS_RemoveElement
<1>5. Cardinality(Below(S, c)) <= Cardinality(T \ {c})
  BY <1>3, <1>4, FS_Subset
<1>6. QED
  BY <1>2, <1>3, <1>4, <1>5

\* The n oldest members are n, or all.
LEMMA OldestFacts ==
    ASSUME NEW N \in Nat, NEW S \in SUBSET (1 .. N), NEW n \in Nat
    PROVE  /\ Oldest(S, n) \subseteq S
           /\ Cardinality(Oldest(S, n)) = IF n <= Cardinality(S) THEN n ELSE Cardinality(S)
<1> DEFINE O == Oldest(S, n)
<1>1. O \subseteq S /\ \A k \in S : k \in O <=> Cardinality(Below(S, k)) < n
  BY DEF Oldest, Below
<1> HIDE DEF O
<1>2. O \in SUBSET (1 .. N)
  BY <1>1
<1>3. IsFiniteSet(O) /\ IsFiniteSet(S) /\ Cardinality(O) \in Nat /\ Cardinality(S) \in Nat
  BY <1>2, IntervalSets
<1>4. Cardinality(O) <= n
  <2>1. CASE O = {}
    BY <2>1, FS_EmptySet
  <2>2. CASE O # {}
    <3>1. PICK d \in O : \A k \in O : k <= d
      BY <1>2, <2>2, GreatestOf
    <3>2. d \in S /\ Cardinality(Below(S, d)) < n
      BY <1>1, <3>1
    <3>3. Below(S, d) \in SUBSET (1 .. N) /\ IsFiniteSet(Below(S, d)) /\ Cardinality(Below(S, d)) \in Nat
      BY <3>2, BelowSets
    <3>4. \A k \in O \ {d} : k < d
      BY <1>2, <3>1
    <3>5. O \ {d} \subseteq Below(S, d)
      BY <1>1, <3>4 DEF Below
    <3>6. Cardinality(O \ {d}) = Cardinality(O) - 1
      BY <1>3, <3>1, FS_RemoveElement
    <3>7. Cardinality(O \ {d}) <= Cardinality(Below(S, d))
      BY <3>3, <3>5, FS_Subset
    <3>8. QED
      BY <1>3, <3>2, <3>3, <3>6, <3>7
  <2>3. QED
    BY <2>1, <2>2
<1>5. Cardinality(O) <= Cardinality(S)
  BY <1>1, <1>3, FS_Subset
<1>6. CASE O = S
  BY <1>1, <1>3, <1>4, <1>6 DEF O
<1>7. CASE O # S
  <2>1. S \ O # {} /\ S \ O \in SUBSET Nat
    <3>1. S \subseteq Nat
      BY IntervalSets
    <3>2. QED
      BY <1>1, <1>7, <3>1
  <2>2. PICK d \in S \ O : \A k \in S \ O : d <= k
    BY <2>1, LeastOf
  <2>3. ~(Cardinality(Below(S, d)) < n) /\ Cardinality(Below(S, d)) \in Nat
    BY <1>1, BelowSets
  <2>4. \A k \in S : k < d => k \in O
    BY <2>2
  <2>5. Below(S, d) \subseteq O
    BY <2>4 DEF Below
  <2>6. Cardinality(Below(S, d)) <= Cardinality(O)
    BY <1>3, <2>5, FS_Subset
  <2>7. Cardinality(O) = n
    BY <1>3, <1>4, <2>3, <2>6
  <2>8. QED
    BY <1>1, <1>3, <1>5, <2>7 DEF O
<1>8. QED
  BY <1>6, <1>7

\* The n-th member: a set of m members has one for each n up to m.
LEMMA NthFacts ==
    ASSUME NEW N \in Nat, NEW S \in SUBSET (1 .. N), NEW n \in 1 .. Cardinality(S)
    PROVE  Nth(S, n) \in S /\ Cardinality(Below(S, Nth(S, n))) = n - 1
<1> DEFINE G == {d \in S : Cardinality(Below(S, d)) >= n - 1}
<1>1. Cardinality(S) \in Nat
  BY IntervalSets
<1>2. n \in Nat /\ n - 1 \in Nat /\ n - 1 < Cardinality(S)
  BY <1>1
<1>3. G # {}
  <2>1. Oldest(S, n - 1) \subseteq S /\ Cardinality(Oldest(S, n - 1)) = n - 1
    <3>1. PICK m \in Nat : m = n - 1
      BY <1>2
    <3>2. m <= Cardinality(S)
      BY <1>1, <1>2, <3>1
    <3>3. /\ Oldest(S, m) \subseteq S
          /\ Cardinality(Oldest(S, m)) = IF m <= Cardinality(S) THEN m ELSE Cardinality(S)
      BY OldestFacts
    <3>4. QED
      BY <3>1, <3>2, <3>3
  <2>2. Oldest(S, n - 1) # S
    BY <1>1, <1>2, <2>1
  <2>3. PICK d \in S : d \notin Oldest(S, n - 1)
    BY <2>1, <2>2
  <2>4. ~(Cardinality(Below(S, d)) < n - 1) /\ Cardinality(Below(S, d)) \in Nat
    BY <2>3, BelowSets DEF Oldest, Below
  <2>5. QED
    BY <1>2, <2>4
<1>4. PICK d \in G : \A c \in G : d <= c
  <2>1. S \subseteq Nat /\ G \subseteq S
    BY IntervalSets
  <2>2. QED
    BY <1>3, <2>1, LeastOf
<1>5. Cardinality(Below(S, d)) = n - 1
  <2>1. SUFFICES ASSUME Cardinality(Below(S, d)) # n - 1 PROVE FALSE
    OBVIOUS
  <2>2. Below(S, d) \in SUBSET (1 .. N) /\ IsFiniteSet(Below(S, d)) /\ Cardinality(Below(S, d)) \in Nat
    BY <1>4, BelowSets
  <2>3. Cardinality(Below(S, d)) >= n
    BY <1>2, <1>4, <2>1, <2>2
  <2>4. Below(S, d) # {}
    BY <1>2, <2>3, FS_EmptySet
  <2>5. PICK c \in Below(S, d) : \A x \in Below(S, d) : x <= c
    BY <2>2, <2>4, GreatestOf
  <2>6. c \in S /\ c < d /\ c \in Nat /\ d \in Nat
    BY <1>4, <2>5 DEF Below
  <2>7. Below(S, d) \ {c} \subseteq Below(S, c)
    <3>1. \A x \in Below(S, d) \ {c} : x \in S /\ x <= c /\ x # c /\ x \in Nat
      BY <2>5 DEF Below
    <3>2. \A x \in Below(S, d) \ {c} : x \in S /\ x < c
      BY <2>6, <3>1
    <3>3. QED
      BY <3>2 DEF Below
  <2>8. Cardinality(Below(S, d) \ {c}) = Cardinality(Below(S, d)) - 1
    BY <2>2, <2>5, FS_RemoveElement
  <2>9. IsFiniteSet(Below(S, c)) /\ Cardinality(Below(S, c)) \in Nat
    BY <2>6, BelowSets
  <2>10. Cardinality(Below(S, d) \ {c}) <= Cardinality(Below(S, c))
    BY <2>7, <2>9, FS_Subset
  <2>11. c \in G
    BY <1>2, <2>2, <2>3, <2>6, <2>8, <2>9, <2>10
  <2>12. QED
    BY <1>4, <2>6, <2>11
<1>6. \E c \in S : Cardinality({x \in S : x < c}) = n - 1
  BY <1>4, <1>5 DEF Below
<1> HIDE DEF G
<1>7. QED
  BY <1>6 DEF Nth, Below

-----------------------------------------------------------------------------
(* The table, by webhook.                                                  *)

Tables == [Rows -> Record \cup {None}]

LEMMA RowSets ==
    ASSUME NEW S \in SUBSET Rows
    PROVE  S \subseteq Nat /\ IsFiniteSet(S) /\ Cardinality(S) \in Nat
  BY IntervalSets, ConstantsAssumption DEF ConstantsAssumption, Rows

LEMMA HookSets ==
    ASSUME NEW S \in SUBSET Hooks
    PROVE  IsFiniteSet(S) /\ Cardinality(S) \in Nat /\ Cardinality(S) <= NumHooks
  BY IntervalSets, ConstantsAssumption DEF ConstantsAssumption, Hooks

LEMMA TableSets ==
    ASSUME NEW q \in Tables
    PROVE  /\ Used(q) \in SUBSET Rows
           /\ \A k \in Used(q) : q[k] \in Record /\ q[k].hook \in Hooks
           /\ \A h \in Hooks : Of(q, h) \in SUBSET Used(q) /\ Of(q, h) \in SUBSET Rows
<1>1. \A k \in Used(q) : k \in Rows /\ q[k] \in Record
  BY DEF Tables, Used
<1>2. \A r \in Record : r.hook \in Hooks
  BY DEF Record
<1>3. QED
  BY <1>1, <1>2 DEF Of

\* If no webhook has more than m rows, all of them have at most NumHooks * m.
LEMMA Backlogs ==
    ASSUME NEW q \in Tables, NEW m \in Nat, \A h \in Hooks : Cardinality(Of(q, h)) <= m
    PROVE  Cardinality(Used(q)) <= NumHooks * m
<1> DEFINE Upto(n) == {k \in Used(q) : q[k].hook <= n}
           Bad == {n \in 0 .. NumHooks : ~(Cardinality(Upto(n)) <= n * m)}
<1>1. NumHooks \in Nat /\ Hooks = 1 .. NumHooks
  BY ConstantsAssumption DEF ConstantsAssumption, Hooks
<1>2. Used(q) \in SUBSET Rows /\ \A k \in Used(q) : q[k].hook \in Hooks
  BY TableSets
<1>3. ASSUME NEW n \in Nat PROVE IsFiniteSet(Upto(n)) /\ Cardinality(Upto(n)) \in Nat
  <2>1. Upto(n) \in SUBSET Rows
    BY <1>2
  <2>2. QED
    BY <2>1, RowSets
<1>4. SUFFICES ASSUME Bad # {} PROVE FALSE
  <2>1. Bad = {} => Cardinality(Upto(NumHooks)) <= NumHooks * m
    BY <1>1
  <2>2. Upto(NumHooks) = Used(q)
    BY <1>1, <1>2
  <2>3. QED
    BY <2>1, <2>2
<1>5. PICK b \in Bad : \A n \in Bad : b <= n
  <2>1. Bad \in SUBSET Nat
    BY <1>1
  <2>2. QED
    BY <1>4, <2>1, LeastOf
<1>6. b # 0
  <2>1. Upto(0) = {}
    BY <1>1, <1>2
  <2>2. Cardinality(Upto(0)) = 0
    BY <2>1, FS_EmptySet
  <2>3. 0 * m = 0
    OBVIOUS
  <2>4. QED
    BY <1>5, <2>2, <2>3
<1>7. PICK c \in 0 .. NumHooks : b = c + 1
  BY <1>1, <1>5, <1>6
<1>8. Cardinality(Upto(c)) <= c * m
  BY <1>1, <1>5, <1>7
<1>9. b \in Hooks /\ b \in Nat /\ c \in Nat
  BY <1>1, <1>5, <1>6, <1>7
<1>10. Upto(b) \subseteq Upto(c) \cup Of(q, b)
  <2>1. \A k \in Upto(b) : q[k].hook \in Nat /\ q[k].hook <= c + 1
    BY <1>1, <1>2, <1>7
  <2>2. \A k \in Upto(b) : q[k].hook <= c \/ q[k].hook = b
    BY <1>7, <2>1
  <2>3. QED
    BY <2>2 DEF Of
<1>11. Cardinality(Upto(b)) <= Cardinality(Upto(c)) + Cardinality(Of(q, b))
  <2>1. IsFiniteSet(Upto(c)) /\ Cardinality(Upto(c)) \in Nat
    BY <1>1, <1>3
  <2>2. Of(q, b) \in SUBSET Rows
    BY <1>9, TableSets
  <2>3. IsFiniteSet(Of(q, b)) /\ Cardinality(Of(q, b)) \in Nat
    BY <2>2, RowSets
  <2>4. /\ IsFiniteSet(Upto(c) \cup Of(q, b))
        /\ Cardinality(Upto(c) \cup Of(q, b))
              = Cardinality(Upto(c)) + Cardinality(Of(q, b)) - Cardinality(Upto(c) \cap Of(q, b))
    BY <2>1, <2>3, FS_Union
  <2>5. Upto(c) \cap Of(q, b) \in SUBSET Rows
    BY <2>2
  <2>6. Cardinality(Upto(c) \cap Of(q, b)) \in Nat
    BY <2>5, RowSets
  <2>7. Cardinality(Upto(b)) <= Cardinality(Upto(c) \cup Of(q, b))
    BY <1>10, <2>4, FS_Subset
  <2>8. Cardinality(Upto(b)) \in Nat
    BY <1>3, <1>9
  <2> HIDE DEF Upto
  <2>9. QED
    BY <2>1, <2>3, <2>4, <2>6, <2>7, <2>8
<1>12. (c + 1) * m = c * m + m /\ c * m \in Nat
  BY <1>1
<1>13. Cardinality(Of(q, b)) <= m /\ Cardinality(Of(q, b)) \in Nat
  <2>1. Of(q, b) \in SUBSET Rows
    BY <1>9, TableSets
  <2>2. QED
    BY <1>9, <2>1, RowSets
<1>14. Cardinality(Upto(b)) \in Nat /\ Cardinality(Upto(c)) \in Nat
  BY <1>3, <1>9
<1>15. Cardinality(Upto(b)) <= b * m
  <2> HIDE DEF Upto, Bad
  <2>1. Cardinality(Upto(b)) <= c * m + m
    BY <1>8, <1>11, <1>12, <1>13, <1>14
  <2>2. QED
    BY <1>7, <1>12, <2>1
<1>16. QED
  BY <1>5, <1>15

\* The webhook the cap takes from has a backlog as deep as any.
LEMMA NoisiestFacts ==
    ASSUME NEW q \in Tables, Used(q) # {}
    PROVE  /\ Noisiest(q) \in Hooks
           /\ \A g \in Hooks : Cardinality(Of(q, g)) <= Cardinality(Of(q, Noisiest(q)))
<1> DEFINE HS == {q[k].hook : k \in Used(q)}
           C(h) == Cardinality(Of(q, h))
           Deepest(h) == \A g \in HS \ {h} :
              \/ C(g) < C(h)
              \/ C(g) = C(h) /\ \E k \in Of(q, h) : \A j \in Of(q, g) : k < j
<1>1. /\ Used(q) \in SUBSET Rows /\ HS \subseteq Hooks /\ HS # {}
      /\ \A h \in Hooks : Of(q, h) \in SUBSET Rows
  BY TableSets
<1>2. \A h \in Hooks : C(h) \in 0 .. MaxRow
  BY <1>1, IntervalSets, ConstantsAssumption DEF ConstantsAssumption, Rows
<1>3. \E m \in HS : \A g \in HS : C(g) <= C(m)
  <2> DEFINE Over == {n \in Nat : \A g \in HS : C(g) <= n}
  <2>1. MaxRow \in Over /\ Over \in SUBSET Nat
    BY <1>1, <1>2, ConstantsAssumption DEF ConstantsAssumption
  <2>2. PICK n \in Over : \A x \in Over : n <= x
    BY <2>1, LeastOf
  <2>3. PICK g \in HS : C(g) = n
    <3>1. SUFFICES ASSUME \A g \in HS : C(g) # n PROVE FALSE
      OBVIOUS
    <3>2. \A g \in HS : C(g) \in Nat /\ C(g) <= n
      BY <1>1, <1>2, <2>2
    <3>3. \A g \in HS : C(g) <= n - 1 /\ C(g) \in Nat
      BY <2>2, <3>1, <3>2
    <3>4. n - 1 \in Over
      <4>1. n - 1 \in Nat
        <5>1. PICK g \in HS : C(g) <= n - 1 /\ C(g) \in Nat
          BY <1>1, <3>3
        <5>2. n \in Nat
          BY <2>2
        <5> HIDE DEF C, HS
        <5>3. QED
          BY <5>1, <5>2
      <4>2. QED
        BY <3>3, <4>1
    <3>5. QED
      BY <2>2, <3>4
  <2>4. QED
    BY <2>2, <2>3
<1>4. PICK m \in HS : \A g \in HS : C(g) <= C(m)
  BY <1>3
<1> DEFINE R == {k \in Used(q) : C(q[k].hook) = C(m)}
<1>5. PICK k \in R : \A j \in R : k <= j
  <2>1. R # {} /\ R \in SUBSET Rows
    BY <1>1, <1>4
  <2>2. R \in SUBSET Nat
    BY <2>1, RowSets
  <2>3. QED
    BY <2>1, <2>2, LeastOf
<1>6. \E h \in HS : Deepest(h)
  <2> DEFINE h == q[k].hook
  <2>1. h \in HS /\ C(h) = C(m) /\ k \in Of(q, h) /\ k \in Nat
    BY <1>1, <1>5, RowSets DEF Of
  <2>2. ASSUME NEW g \in HS, g # h, ~(C(g) < C(h)) PROVE C(g) = C(h) /\ \A j \in Of(q, g) : k < j
    <3>1. C(g) \in Nat /\ C(m) \in Nat /\ C(g) <= C(m)
      BY <1>1, <1>2, <1>4
    <3>2. C(g) = C(m)
      BY <2>1, <2>2, <3>1
    <3>3. \A j \in Of(q, g) : j \in R /\ j # k
      BY <2>2, <3>2 DEF Of
    <3>4. \A j \in Of(q, g) : j \in Nat /\ k <= j /\ j # k
      BY <1>1, <1>5, <3>3, RowSets DEF Of
    <3>5. QED
      BY <2>1, <3>2, <3>4
  <2>3. QED
    BY <2>1, <2>2
<1>7. Noisiest(q) = CHOOSE h \in HS : Deepest(h)
  BY DEF Noisiest
<1> DEFINE n == Noisiest(q)
<1>8. n \in HS /\ Deepest(n)
  BY <1>6, <1>7
<1>9. ASSUME NEW g \in Hooks PROVE C(g) <= C(n)
  <2>1. CASE g \in HS
    BY <1>1, <1>2, <1>8, <2>1
  <2>2. CASE g \notin HS
    <3>1. Of(q, g) = {}
      BY <2>2 DEF Of
    <3>2. QED
      BY <1>1, <1>2, <1>8, <3>1, FS_EmptySet
  <2>3. QED
    BY <2>1, <2>2
<1>10. QED
  BY <1>1, <1>8, <1>9

\* The cap, after an emit that overflows it by a row for each webhook or less:
\* one pass trims the table to the cap, taking from a deepest backlog only.
LEMMA TrimFacts ==
    ASSUME NEW q \in Tables, Cardinality(Used(q)) <= QueueCap + NumHooks
    PROVE  /\ Trim(q) \in Tables
           /\ \A k \in Rows : Trim(q)[k] \in {q[k], None}
           /\ Cardinality(Used(Trim(q))) <= QueueCap
           /\ \A k \in Used(q) : Trim(q)[k] = None =>
                 /\ Cardinality(Used(Trim(q))) = QueueCap
                 /\ \A g \in Hooks : Cardinality(Of(Trim(q), g)) <= Cardinality(Of(q, q[k].hook))
<1> DEFINE over == Cardinality(Used(q)) - QueueCap
           N == Noisiest(q)
           O == Oldest(Of(q, N), over)
<1>1. NumHooks \in Nat /\ QueueCap \in Nat /\ MaxRow \in Nat
  BY ConstantsAssumption DEF ConstantsAssumption
<1>2. /\ Used(q) \in SUBSET Rows /\ \A h \in Hooks : Of(q, h) \in SUBSET Rows
      /\ IsFiniteSet(Used(q)) /\ Cardinality(Used(q)) \in Nat
  BY TableSets, RowSets
<1>3. CASE ~(over > 0)
  <2>1. Trim(q) = [k \in Rows |-> q[k]]
    BY <1>3 DEF Trim
  <2>2. Trim(q) = q
    BY <2>1 DEF Tables
  <2>3. Cardinality(Used(q)) <= QueueCap
    BY <1>1, <1>2, <1>3
  <2>4. QED
    BY <2>2, <2>3 DEF Used
<1>4. CASE over > 0
  <2>1. over \in Nat /\ over <= NumHooks
    BY <1>1, <1>2, <1>4
  <2>2. Used(q) # {}
    BY <1>1, <1>4, FS_EmptySet
  <2>3. N \in Hooks /\ \A g \in Hooks : Cardinality(Of(q, g)) <= Cardinality(Of(q, N))
    BY <2>2, NoisiestFacts
  <2>4. Of(q, N) \in SUBSET Rows /\ Of(q, N) \in SUBSET Used(q) /\ Cardinality(Of(q, N)) \in Nat
    BY <1>2, <2>3, TableSets, RowSets
  <2>5. over <= Cardinality(Of(q, N))
    <3>1. SUFFICES ASSUME Cardinality(Of(q, N)) < over PROVE FALSE
      BY <2>1, <2>4
    <3>2. PICK m \in Nat : m = Cardinality(Of(q, N))
      BY <2>4
    <3>3. Cardinality(Used(q)) <= NumHooks * m
      BY <2>3, <3>2, Backlogs
    <3>4. m <= NumHooks - 1 /\ NumHooks - 1 \in Nat
      BY <1>1, <2>1, <3>1, <3>2
    <3>5. \A x, y, z \in Nat : x <= y => z * x <= z * y
      OBVIOUS
    <3>6. NumHooks * m <= NumHooks * (NumHooks - 1) /\ NumHooks * m \in Nat
      BY <1>1, <3>2, <3>4, <3>5
    <3>7. QED
      <4>1. NumHooks * (NumHooks - 1) <= QueueCap /\ NumHooks * (NumHooks - 1) \in Nat
        BY <1>1, <3>4, CapAssumption DEF CapAssumption
      <4>2. QED
        BY <1>1, <1>2, <1>4, <3>3, <3>6, <4>1
  <2>6. O \subseteq Of(q, N) /\ Cardinality(O) = over
    <3>1. Of(q, N) \in SUBSET (1 .. MaxRow)
      BY <2>4 DEF Rows
    <3>2. QED
      BY <1>1, <2>1, <2>5, <3>1, OldestFacts
  <2>7. Trim(q) = [k \in Rows |-> IF k \in O THEN None ELSE q[k]]
    BY <1>4 DEF Trim
  <2> HIDE DEF O, N
  <2>8. Trim(q) \in Tables /\ \A k \in Rows : Trim(q)[k] = IF k \in O THEN None ELSE q[k]
    BY <2>7 DEF Tables
  <2>9. Used(Trim(q)) = Used(q) \ O /\ \A g \in Hooks : Of(Trim(q), g) \subseteq Of(q, g)
    BY <2>8 DEF Used, Of
  <2>10. Used(q) \cap O = O
    BY <2>4, <2>6
  <2>11. Cardinality(Used(Trim(q))) = QueueCap
    <3>1. Cardinality(Used(q) \ O) = Cardinality(Used(q)) - Cardinality(Used(q) \cap O)
      BY <1>2, FS_Difference
    <3>2. QED
      BY <1>1, <1>2, <2>6, <2>9, <2>10, <3>1
  <2>12. ASSUME NEW g \in Hooks PROVE Cardinality(Of(Trim(q), g)) <= Cardinality(Of(q, N))
    <3>1. Of(q, g) \in SUBSET Rows /\ Of(Trim(q), g) \in SUBSET Rows
      BY <1>2, <2>9
    <3>2. /\ IsFiniteSet(Of(q, g)) /\ Cardinality(Of(q, g)) \in Nat
          /\ Cardinality(Of(Trim(q), g)) \in Nat
      BY <3>1, RowSets
    <3>3. Cardinality(Of(Trim(q), g)) <= Cardinality(Of(q, g))
      BY <2>9, <3>2, FS_Subset
    <3>4. QED
      BY <2>3, <2>4, <3>2, <3>3
  <2>13. ASSUME NEW k \in Used(q), Trim(q)[k] = None PROVE q[k].hook = N
    <3>1. k \in O
      BY <1>2, <2>8, <2>13 DEF Used
    <3>2. QED
      BY <2>6, <3>1 DEF Of
  <2>14. QED
    BY <1>1, <2>8, <2>11, <2>12, <2>13
<1>5. QED
  BY <1>3, <1>4

-----------------------------------------------------------------------------
(* An emit's transaction.                                                  *)

Kept(e) == [k \in Rows |-> IF k \in plan[e].cancel THEN None ELSE queue[k]]

Ids(e, top) == top + 1 .. top + Cardinality(plan[e].targets)

Full(e, top) ==
    [k \in Rows |-> IF k \in Ids(e, top) THEN NewRow(e, Nth(plan[e].targets, k - top), k)
                    ELSE Kept(e)[k]]

\* Is webhook g given a row?
Gives(e, g) == IF g \in plan[e].targets THEN 1 ELSE 0

LEMMA NewRowFacts ==
    ASSUME NEW e, plan[e] \in Plan, NEW h \in Hooks, NEW k
    PROVE  /\ NewRow(e, h, k) \in Record
           /\ NewRow(e, h, k).attempts = 0 /\ NewRow(e, h, k).fails = 0
           /\ NewRow(e, h, k).life <= MaxAge + NewRow(e, h, k).wait
           /\ NewRow(e, h, k).reused <=> HeldElsewhere(e, k)
           /\ NewRow(e, h, k).hook = h
<1> DEFINE delay == IF plan[e].kind = "fault" THEN Escalation[h] ELSE 0
           lagging == plan[e].lag
<1>1. delay \in Nat /\ lagging \in Nat /\ MaxAge \in Nat /\ MaxAttempts \in Nat \ {0}
  BY ConstantsAssumption DEF ConstantsAssumption, Plan
<1>2. plan[e].kind \in Kinds /\ plan[e].inc \in Incidents
  BY DEF Plan
<1>3. HeldElsewhere(e, k) \in BOOLEAN
  BY DEF HeldElsewhere
<1>4. NewRow(e, h, k) = [hook |-> h, kind |-> plan[e].kind, inc |-> plan[e].inc, attempts |-> 0,
                         wait |-> Max0(delay - lagging), life |-> MaxAge + delay - lagging,
                         sent |-> FALSE, fails |-> 0, reused |-> HeldElsewhere(e, k)]
  BY DEF NewRow
<1> HIDE DEF delay, lagging
<1>5. /\ Max0(delay - lagging) \in Nat /\ MaxAge + delay - lagging \in Int
      /\ MaxAge + delay - lagging <= MaxAge + Max0(delay - lagging)
  BY <1>1 DEF Max0
<1>6. 0 \in 0 .. MaxAttempts - 1 /\ 0 \in 0 .. MaxAttempts
  BY <1>1
<1>7. NewRow(e, h, k) \in Record
  BY <1>2, <1>3, <1>4, <1>5, <1>6 DEF Record
<1>8. QED
  BY <1>4, <1>5, <1>7

\* The largest id in use, or 0.
Top(U) == CHOOSE t \in 0 .. MaxRow : t \in U \cup {0} /\ \A k \in U : k <= t

LEMMA EmitMeans ==
    ASSUME NEW e \in Emitters, EmitWrite(e), NEW top, top = Top(Used(Kept(e)))
    PROVE  /\ plan[e] # None /\ plan' = [plan EXCEPT ![e] = None]
           /\ UNCHANGED <<hooks, drainVars>>
           /\ top + Cardinality(plan[e].targets) <= MaxRow
           /\ queue' = IF Cardinality(plan[e].targets) = 0 THEN Full(e, top) ELSE Trim(Full(e, top))
           /\ stale' = stale \cup (Ids(e, top) \cap InBatch)
<1>1. /\ plan[e] # None /\ plan' = [plan EXCEPT ![e] = None]
      /\ UNCHANGED <<hooks, drainVars>>
  BY DEF EmitWrite
<1> DEFINE t == Top(Used(Kept(e)))
<1>2. t + Cardinality(plan[e].targets) <= MaxRow
  BY DEF EmitWrite, Kept, Top
<1>3. queue' = IF Cardinality(plan[e].targets) = 0 THEN Full(e, t) ELSE Trim(Full(e, t))
  BY DEF EmitWrite, Kept, Ids, Full, Top
<1>4. stale' = stale \cup (Ids(e, t) \cap InBatch)
  BY DEF EmitWrite, Kept, Ids, Top
<1>5. QED
  BY <1>1, <1>2, <1>3, <1>4

\* New rows get ids above those of all rows that stay.
LEMMA TopFacts ==
    ASSUME NEW U \in SUBSET Rows,
           NEW top, top = Top(U)
    PROVE  top \in 0 .. MaxRow /\ \A k \in U : k <= top
<1>1. MaxRow \in Nat /\ Rows = 1 .. MaxRow
  BY ConstantsAssumption DEF ConstantsAssumption, Rows
<1>2. \E t \in 0 .. MaxRow : t \in U \cup {0} /\ \A k \in U : k <= t
  <2>1. CASE U = {}
    BY <1>1, <2>1
  <2>2. CASE U # {}
    <3>1. PICK m \in U : \A k \in U : k <= m
      BY <1>1, <2>2, GreatestOf
    <3>2. QED
      BY <1>1, <3>1
  <2>3. QED
    BY <2>1, <2>2
<1>3. QED
  BY <1>2 DEF Top

\* The table before it is trimmed.
LEMMA FullFacts ==
    ASSUME TypeOK, CapHolds, NEW e \in Emitters, plan[e] \in Plan,
           NEW top \in 0 .. MaxRow, \A k \in Used(Kept(e)) : k <= top,
           top + Cardinality(plan[e].targets) <= MaxRow
    PROVE  /\ Full(e, top) \in Tables
           /\ \A k \in Rows \ Ids(e, top) : Full(e, top)[k] = Kept(e)[k]
           /\ \A k \in Ids(e, top) : k \in Rows /\ Kept(e)[k] = None
                 /\ \E h \in plan[e].targets : Full(e, top)[k] = NewRow(e, h, k)
           /\ Cardinality(Used(Full(e, top))) <= QueueCap + NumHooks
           /\ Cardinality(plan[e].targets) = 0 => Cardinality(Used(Full(e, top))) <= QueueCap
           /\ \A g \in Hooks :
                 Cardinality(Of(Full(e, top), g)) <= Cardinality(Of(queue, g)) + Gives(e, g)
<1> DEFINE T == plan[e].targets
           n == Cardinality(T)
           F == Full(e, top)
           I == Ids(e, top)
<1>1. MaxRow \in Nat /\ Rows = 1 .. MaxRow /\ NumHooks \in Nat /\ QueueCap \in Nat /\ Hooks = 1 .. NumHooks
  BY ConstantsAssumption DEF ConstantsAssumption, Rows, Hooks
<1>2. T \in SUBSET Hooks /\ n \in Nat /\ n <= NumHooks
  BY HookSets DEF Plan
<1>3. queue \in Tables /\ Kept(e) \in Tables
  BY DEF TypeOK, Tables, Kept
<1>4. I = top + 1 .. top + n /\ top \in Nat
  BY <1>1 DEF Ids
<1> HIDE DEF I, n
<1>5. I \subseteq Rows /\ \A k \in I : k - top \in 1 .. n /\ ~(k <= top)
  <2>1. n = Cardinality(plan[e].targets)
    BY DEF n
  <2>2. QED
    BY <1>1, <1>2, <1>4, <2>1
<1>6. \A k \in I : Kept(e)[k] = None
  BY <1>5 DEF Used
<1>7. \A k \in I : Nth(T, k - top) \in T /\ Cardinality(Below(T, Nth(T, k - top))) = k - top - 1
  BY <1>1, <1>2, <1>5, NthFacts DEF n
<1>8. \A k \in Rows : F[k] = IF k \in I THEN NewRow(e, Nth(T, k - top), k) ELSE Kept(e)[k]
  BY DEF Full, I
<1>9. \A k \in I, h \in T : NewRow(e, h, k) \in Record /\ NewRow(e, h, k).hook = h
  BY <1>2, NewRowFacts
<1>10. F \in Tables
  <2>1. \A k \in Rows : F[k] \in Record \cup {None}
    BY <1>3, <1>7, <1>8, <1>9 DEF Tables
  <2>2. F = [k \in Rows |-> F[k]]
    BY DEF Full
  <2>3. QED
    BY <2>1, <2>2 DEF Tables
<1> HIDE DEF F
<1>11. Used(F) \subseteq Used(queue) \cup I
  BY <1>8 DEF Used, Kept
<1>12. IsFiniteSet(Used(queue)) /\ Cardinality(Used(queue)) \in Nat /\ Cardinality(Used(queue)) <= QueueCap
  BY <1>3, TableSets, RowSets DEF CapHolds
<1>13. IsFiniteSet(I) /\ Cardinality(I) = n
  BY <1>2, <1>4, FS_Interval
<1>14. Cardinality(Used(F)) <= QueueCap + n
  <2>1. /\ IsFiniteSet(Used(queue) \cup I)
        /\ Cardinality(Used(queue) \cup I)
              = Cardinality(Used(queue)) + Cardinality(I) - Cardinality(Used(queue) \cap I)
    BY <1>12, <1>13, FS_Union
  <2>2. Used(queue) \cap I \in SUBSET Rows /\ Used(F) \in SUBSET Rows
    BY <1>5, <1>10, TableSets
  <2>3. Cardinality(Used(queue) \cap I) \in Nat /\ Cardinality(Used(F)) \in Nat
    BY <2>2, RowSets
  <2>4. Cardinality(Used(F)) <= Cardinality(Used(queue) \cup I)
    BY <1>11, <2>1, FS_Subset
  <2>5. QED
    BY <1>1, <1>2, <1>12, <1>13, <2>1, <2>3, <2>4
<1>15. ASSUME NEW g \in Hooks
       PROVE  Cardinality(Of(F, g)) <= Cardinality(Of(queue, g)) + Gives(e, g)
  <2>1. Of(queue, g) \in SUBSET Rows /\ Of(F, g) \in SUBSET Rows
    BY <1>3, <1>10, TableSets
  <2>2. /\ IsFiniteSet(Of(queue, g)) /\ Cardinality(Of(queue, g)) \in Nat
        /\ IsFiniteSet(Of(F, g)) /\ Cardinality(Of(F, g)) \in Nat
    BY <2>1, RowSets
  <2>3. \A k \in Of(F, g) \ I : k \in Of(queue, g)
    BY <1>8 DEF Of, Used, Kept
  <2>4. \A k \in Of(F, g) \cap I : g \in T /\ g = Nth(T, k - top)
    BY <1>5, <1>7, <1>8, <1>9 DEF Of
  <2>5. CASE Of(F, g) \cap I = {}
    <3>1. Of(F, g) \subseteq Of(queue, g)
      BY <2>3, <2>5
    <3>2. Cardinality(Of(F, g)) <= Cardinality(Of(queue, g))
      BY <2>2, <3>1, FS_Subset
    <3>3. QED
      BY <2>2, <3>2 DEF Gives
  <2>6. CASE Of(F, g) \cap I # {}
    <3>1. PICK k \in Of(F, g) \cap I : TRUE
      BY <2>6
    <3>2. ASSUME NEW j \in Of(F, g) \cap I PROVE j = k
      <4>1. j - top - 1 = k - top - 1
        BY <1>7, <2>4, <3>1
      <4>2. QED
        BY <1>1, <1>4, <1>5, <3>1, <4>1
    <3>3. Of(F, g) \subseteq Of(queue, g) \cup {k}
      BY <2>3, <3>2
    <3>4. /\ IsFiniteSet(Of(queue, g) \cup {k})
          /\ Cardinality(Of(queue, g) \cup {k}) \in {Cardinality(Of(queue, g)), Cardinality(Of(queue, g)) + 1}
      BY <2>2, FS_AddElement
    <3>5. Cardinality(Of(F, g)) <= Cardinality(Of(queue, g) \cup {k})
      BY <3>3, <3>4, FS_Subset
    <3>6. Gives(e, g) = 1
      BY <2>4, <3>1 DEF Gives
    <3>7. QED
      BY <2>2, <3>4, <3>5, <3>6
  <2>7. QED
    BY <2>5, <2>6
<1>16. Cardinality(Used(F)) \in Nat
  BY <1>10, TableSets, RowSets
<1>17. Cardinality(Used(F)) <= QueueCap + NumHooks /\ (n = 0 => Cardinality(Used(F)) <= QueueCap)
  BY <1>1, <1>2, <1>14, <1>16
<1>18. \A k \in I : k \in Rows /\ Kept(e)[k] = None /\ \E h \in T : F[k] = NewRow(e, h, k)
  BY <1>5, <1>6, <1>7, <1>8
<1>19. QED
  BY <1>8, <1>10, <1>15, <1>17, <1>18 DEF F, I, n

\* What the transaction does to the table: rows are cancelled, added or taken
\* by the cap, and the cap takes from the deepest backlog.
LEMMA EmitFacts ==
    ASSUME TypeOK, CapHolds, NEW e \in Emitters, EmitWrite(e)
    PROVE  /\ plan[e] \in Plan /\ queue' \in Tables /\ CapHolds'
           /\ \A k \in Rows : queue'[k] # None =>
                 \/ k \notin stale' \ stale /\ queue'[k] = queue[k] /\ k \notin plan[e].cancel
                 \/ \E h \in plan[e].targets : queue'[k] = NewRow(e, h, k)
           /\ stale' \subseteq InBatch
           /\ \A k \in Rows : queue[k] # None /\ queue'[k] = None /\ k \notin plan[e].cancel =>
                 /\ OverCap
                 /\ \A g \in Hooks : Cardinality(Of(queue', g))
                       <= Cardinality(Of(queue, queue[k].hook)) + Gives(e, queue[k].hook)
<1> DEFINE n == Cardinality(plan[e].targets)
<1>1. PICK top : top = Top(Used(Kept(e)))
  OBVIOUS
<1>2. /\ plan[e] # None /\ plan' = [plan EXCEPT ![e] = None]
      /\ top + n <= MaxRow
      /\ queue' = IF n = 0 THEN Full(e, top) ELSE Trim(Full(e, top))
      /\ stale' = stale \cup (Ids(e, top) \cap InBatch)
  BY <1>1, EmitMeans
<1>3. plan[e] \in Plan
  BY <1>2 DEF TypeOK
<1>4. Used(Kept(e)) \in SUBSET Rows
  BY DEF Used
<1>5. top \in 0 .. MaxRow /\ \A k \in Used(Kept(e)) : k <= top
  BY <1>1, <1>4, TopFacts
<1> DEFINE F == Full(e, top)
           I == Ids(e, top)
<1>6. /\ F \in Tables
      /\ \A k \in Rows \ I : F[k] = Kept(e)[k]
      /\ \A k \in I : k \in Rows /\ Kept(e)[k] = None /\ \E h \in plan[e].targets : F[k] = NewRow(e, h, k)
      /\ Cardinality(Used(F)) <= QueueCap + NumHooks
      /\ n = 0 => Cardinality(Used(F)) <= QueueCap
      /\ \A g \in Hooks : Cardinality(Of(F, g)) <= Cardinality(Of(queue, g)) + Gives(e, g)
  BY <1>2, <1>3, <1>5, FullFacts
<1> HIDE DEF F, I, n
<1>7. /\ Trim(F) \in Tables /\ \A k \in Rows : Trim(F)[k] \in {F[k], None}
      /\ Cardinality(Used(Trim(F))) <= QueueCap
      /\ \A k \in Used(F) : Trim(F)[k] = None =>
            /\ Cardinality(Used(Trim(F))) = QueueCap
            /\ \A g \in Hooks : Cardinality(Of(Trim(F), g)) <= Cardinality(Of(F, F[k].hook))
  BY <1>6, TrimFacts
<1>8. queue' = IF n = 0 THEN F ELSE Trim(F)
  BY <1>2 DEF F, n
<1>9. queue' \in Tables /\ Cardinality(Used(queue')) <= QueueCap /\ \A k \in Rows : queue'[k] \in {F[k], None}
  BY <1>6, <1>7, <1>8
<1>10. CapHolds'
  BY <1>9 DEF CapHolds, Used
<1>11. stale' = stale \cup (I \cap InBatch)
  BY <1>2 DEF I
<1>12. ASSUME NEW k \in Rows, queue'[k] # None
       PROVE  \/ k \notin stale' \ stale /\ queue'[k] = queue[k] /\ k \notin plan[e].cancel
              \/ \E h \in plan[e].targets : queue'[k] = NewRow(e, h, k)
  <2>1. queue'[k] = F[k]
    BY <1>9, <1>12
  <2>2. CASE k \in I
    BY <1>6, <2>1, <2>2
  <2>3. CASE k \notin I
    <3>1. F[k] = Kept(e)[k]
      BY <1>6, <2>3
    <3>2. queue'[k] = queue[k] /\ k \notin plan[e].cancel
      BY <1>12, <2>1, <3>1 DEF Kept
    <3>3. QED
      BY <1>11, <2>3, <3>2
  <2>4. QED
    BY <2>2, <2>3
<1>13. ASSUME NEW k \in Rows, queue[k] # None, queue'[k] = None, k \notin plan[e].cancel
       PROVE  /\ OverCap
              /\ \A g \in Hooks : Cardinality(Of(queue', g))
                    <= Cardinality(Of(queue, queue[k].hook)) + Gives(e, queue[k].hook)
  <2>1. Kept(e)[k] = queue[k]
    BY <1>13 DEF Kept
  <2>2. k \notin I
    BY <1>6, <1>13, <2>1
  <2>3. F[k] = queue[k] /\ k \in Used(F)
    BY <1>6, <1>13, <2>1, <2>2 DEF Used
  <2>4. queue' = Trim(F)
    BY <1>8, <1>13, <2>3
  <2>5. OverCap
    BY <1>7, <1>13, <2>3, <2>4 DEF OverCap
  <2>6. F[k].hook \in Hooks
    BY <1>6, <2>3, TableSets
  <2>7. ASSUME NEW g \in Hooks
        PROVE  Cardinality(Of(queue', g)) <= Cardinality(Of(queue, queue[k].hook)) + Gives(e, queue[k].hook)
    <3> DEFINE h == queue[k].hook
    <3>1. Cardinality(Of(Trim(F), g)) <= Cardinality(Of(F, h))
      BY <1>7, <1>13, <2>3, <2>4
    <3>2. h \in Hooks /\ Cardinality(Of(F, h)) <= Cardinality(Of(queue, h)) + Gives(e, h)
      BY <1>6, <2>3, <2>6
    <3>3. queue \in Tables
      BY DEF TypeOK, Tables
    <3>4. /\ Of(F, h) \in SUBSET Rows /\ Of(Trim(F), g) \in SUBSET Rows /\ Of(queue, h) \in SUBSET Rows
      BY <1>6, <1>7, <3>2, <3>3, TableSets
    <3>5. /\ Cardinality(Of(F, h)) \in Nat /\ Cardinality(Of(Trim(F), g)) \in Nat
          /\ Cardinality(Of(queue, h)) \in Nat /\ Gives(e, h) \in Nat
      BY <3>4, RowSets DEF Gives
    <3> HIDE DEF h
    <3>6. Cardinality(Of(Trim(F), g)) <= Cardinality(Of(queue, h)) + Gives(e, h)
      BY <3>1, <3>2, <3>5
    <3>7. QED
      BY <2>4, <3>6 DEF h
  <2>8. QED
    BY <2>5, <2>7
<1>14. stale' \subseteq InBatch
  BY <1>11 DEF TypeOK
<1>15. QED
  BY <1>3, <1>9, <1>10, <1>12, <1>13, <1>14

-----------------------------------------------------------------------------
(* Types, and the frames of the actions.                                   *)

OuterTypes ==
    /\ hooks \in [Hooks -> {"new", "on", "off", "deleted"}]
    /\ plan \in [Emitters -> Plan \cup {None}]

DrainTypes ==
    /\ pc \in {"idle", "row", "posted"} /\ outcome \in {"ok", "failed", "gone"}
    /\ batch \in [Rows -> Snapshots \cup {None}]
    /\ known \subseteq Hooks /\ lag \in Nat
    /\ stale \subseteq InBatch
    /\ pc = "idle" <=> InBatch = {}

LEMMA TypeParts == TypeOK <=> queue \in Tables /\ OuterTypes /\ DrainTypes
  BY DEF TypeOK, Tables, OuterTypes, DrainTypes

LEMMA NoneFacts == None \notin Record /\ None \notin Snapshots /\ None \notin Plan
  BY NoneAssumption DEF NoneAssumption

LEMMA RowInBatch ==
    ASSUME InBatch # {}
    PROVE  Row \in InBatch /\ Row \in Rows /\ batch[Row] # None
<1>1. InBatch \in SUBSET Rows
  BY DEF InBatch
<1>2. \E k \in InBatch : \A j \in InBatch : k <= j
  BY <1>1, RowSets, LeastOf
<1>3. Row \in InBatch
  BY <1>2 DEF Row
<1>4. QED
  BY <1>3 DEF InBatch

\* Rows leave, and none comes.
LEMMA CapKept ==
    ASSUME CapHolds, \A k \in Rows : queue'[k] # None => queue[k] # None
    PROVE  CapHolds'
<1>1. Used(queue') \subseteq Used(queue) /\ Used(queue) \in SUBSET Rows /\ Used(queue') \in SUBSET Rows
  BY DEF Used
<1>2. IsFiniteSet(Used(queue)) /\ Cardinality(Used(queue)) \in Nat /\ Cardinality(Used(queue')) \in Nat
  BY <1>1, RowSets
<1>3. Cardinality(Used(queue')) <= Cardinality(Used(queue))
  BY <1>1, <1>2, FS_Subset
<1>4. Cardinality(Used(queue')) <= QueueCap
  BY <1>2, <1>3, ConstantsAssumption DEF CapHolds, ConstantsAssumption
<1>5. QED
  BY <1>4 DEF CapHolds, Used

\* The drain is done with the row in hand, or with its pass.
Shrinks ==
    /\ DrainTypes' /\ pc' # "posted"
    /\ \A k \in InBatch' : /\ k \in InBatch /\ k # Row /\ batch'[k] = batch[k]
                           /\ k \in stale' => k \in stale

LEMMA IdleShrinks ==
    ASSUME Idle
    PROVE  Shrinks
<1>1. InBatch' = {}
  BY DEF Idle, InBatch
<1>2. batch' \in [Rows -> Snapshots \cup {None}]
  BY DEF Idle
<1>3. QED
  BY <1>1, <1>2 DEF Shrinks, DrainTypes, Idle

LEMMA NextRowShrinks ==
    ASSUME DrainTypes, pc # "idle", NextRow
    PROVE  Shrinks
<1>1. CASE InBatch = {Row}
  BY <1>1, IdleShrinks DEF NextRow
<1>2. CASE InBatch # {Row}
  <2>1. /\ pc' = "row" /\ outcome' = "ok" /\ batch' = [batch EXCEPT ![Row] = None]
        /\ stale' = stale \ {Row} /\ UNCHANGED <<known, lag>>
    BY <1>2 DEF NextRow
  <2>2. InBatch # {} /\ Row \in InBatch /\ Row \in Rows
    BY RowInBatch DEF DrainTypes
  <2>3. /\ batch' \in [Rows -> Snapshots \cup {None}] /\ batch'[Row] = None
        /\ \A k \in Rows \ {Row} : batch'[k] = batch[k]
    BY <2>1, <2>2 DEF DrainTypes
  <2>4. InBatch' = InBatch \ {Row} /\ InBatch' # {}
    BY <1>2, <2>2, <2>3 DEF InBatch
  <2>5. \A k \in InBatch' : k \in InBatch /\ k # Row /\ batch'[k] = batch[k]
    BY <2>3, <2>4 DEF InBatch
  <2>6. DrainTypes'
    BY <2>1, <2>3, <2>4 DEF DrainTypes
  <2>7. QED
    BY <2>1, <2>5, <2>6 DEF Shrinks
<1>3. QED
  BY <1>1, <1>2

\* The row in hand was tried once more, and stays.
Retried(k) ==
    /\ queue'[k].attempts > 0 /\ (Own(k) => RowFits(k)')
    /\ queue'[k].kind = queue[k].kind /\ queue'[k].inc = queue[k].inc
    /\ queue'[k].reused = queue[k].reused

\* What such a step keeps.
LEMMA ShrinkKeeps ==
    ASSUME QueueInv, Shrinks, \A e \in Emitters : plan'[e] \in {plan[e], None},
           \A k \in Rows : queue'[k] # None =>
              queue[k] # None /\ (queue'[k] = queue[k] \/ (k = Row /\ Retried(k)))
    PROVE  CapHolds' /\ DelayInv' /\ HistoryInv'
<1>1. CapHolds'
  BY CapKept DEF QueueInv
<1>2. DelayInv'
  <2>1. ASSUME NEW k \in Rows, queue'[k] # None, queue'[k].attempts = 0
        PROVE  queue'[k].life <= MaxAge + queue'[k].wait
    <3>1. queue[k] # None /\ queue'[k] = queue[k]
      BY <2>1 DEF Retried
    <3>2. QED
      BY <2>1, <3>1 DEF QueueInv, DelayInv, Used
  <2>2. ASSUME NEW k \in InBatch', batch'[k].attempts = 0 PROVE batch'[k].life <= MaxAge
    BY <2>2 DEF QueueInv, DelayInv, Shrinks
  <2>3. QED
    BY <2>1, <2>2 DEF DelayInv, Used
<1>3. ASSUME NEW k \in Rows, Own(k)' PROVE Fits(k)'
  <2>1. queue'[k] # None /\ queue[k] # None /\ (queue'[k] = queue[k] \/ (k = Row /\ Retried(k)))
    BY <1>3 DEF Own
  <2>2. Own(k)
    BY <1>3, <2>1 DEF Own, Retried
  <2>3. Fits(k)
    BY <2>2 DEF QueueInv, HistoryInv
  <2>4. RowFits(k)'
    BY <2>1, <2>2, <2>3 DEF Fits, RowFits, Retried
  <2>5. k \in InBatch' => BatchFits(k)'
    BY <2>1, <2>3 DEF Fits, BatchFits, Shrinks
  <2>6. ~(pc' = "posted")
    BY DEF Shrinks
  <2>7. ASSUME NEW e \in Emitters, plan'[e] # None, k \in plan'[e].cancel PROVE CancelFits(e, k)'
    <3>1. plan'[e] = plan[e] /\ CancelFits(e, k)
      BY <2>3, <2>7 DEF Fits
    <3>2. QED
      BY <2>1, <3>1 DEF CancelFits, Retried
  <2>8. QED
    BY <2>4, <2>5, <2>6, <2>7 DEF Fits
<1>4. QED
  BY <1>1, <1>2, <1>3 DEF HistoryInv

\* The drain stands still, and rows and plans at most go.
LEMMA StillKeeps ==
    ASSUME QueueInv, UNCHANGED drainVars, UNCHANGED stale,
           \A e \in Emitters : plan'[e] \in {plan[e], None},
           \A k \in Rows : queue'[k] \in {queue[k], None}
    PROVE  DrainTypes' /\ CapHolds' /\ DelayInv' /\ HistoryInv'
<1>1. InBatch' = InBatch /\ Row' = Row
  BY DEF drainVars, InBatch, Row
<1>2. DrainTypes'
  BY <1>1, TypeParts DEF QueueInv, DrainTypes, drainVars
<1>3. CapHolds'
  BY CapKept DEF QueueInv
<1>4. DelayInv'
  BY <1>1 DEF QueueInv, DelayInv, Used, drainVars
<1>5. ASSUME NEW k \in Rows, Own(k)' PROVE Fits(k)'
  <2>1. queue'[k] = queue[k] /\ Own(k)
    BY <1>5 DEF Own
  <2>2. Fits(k)
    BY <2>1 DEF QueueInv, HistoryInv
  <2>3. RowFits(k)' /\ (k \in InBatch' => BatchFits(k)') /\ (pc' = "posted" /\ k = Row' => PostFits(k)')
    BY <1>1, <2>1, <2>2 DEF Fits, RowFits, BatchFits, PostFits, drainVars
  <2>4. ASSUME NEW e \in Emitters, plan'[e] # None, k \in plan'[e].cancel PROVE CancelFits(e, k)'
    BY <2>1, <2>2, <2>4 DEF Fits, CancelFits
  <2>5. QED
    BY <2>3, <2>4 DEF Fits
<1>6. QED
  BY <1>2, <1>3, <1>4, <1>5 DEF HistoryInv

-----------------------------------------------------------------------------
(* Each action preserves the invariant.                                    *)

LEMMA EmitReadKeeps ==
    ASSUME QueueInv, NEW e \in Emitters, EmitRead(e)
    PROVE  QueueInv'
<1>1. PICK kind \in Kinds, i \in Incidents :
         plan' = [plan EXCEPT ![e] =
            [kind |-> kind, inc |-> i, lag |-> 0,
             targets |-> {h \in Hooks : hooks[h] = "on" /\ kind \in Subscribed[h]},
             cancel |-> {k \in Used(queue) : /\ kind = "clear"
                                             /\ Held(queue[k]) /\ queue[k].inc = i}]]
  BY DEF EmitRead
<1>2. UNCHANGED <<queue, hooks>> /\ UNCHANGED drainVars /\ UNCHANGED stale
  BY DEF EmitRead
<1>3. queue \in Tables /\ OuterTypes /\ DrainTypes
  BY TypeParts DEF QueueInv
<1> DEFINE p == [kind |-> kind, inc |-> i, lag |-> 0,
                 targets |-> {h \in Hooks : hooks[h] = "on" /\ kind \in Subscribed[h]},
                 cancel |-> {k \in Used(queue) : /\ kind = "clear"
                                                 /\ Held(queue[k]) /\ queue[k].inc = i}]
<1>4. p \in Plan
  <2>1. 0 \in 0 .. MaxLag
    BY ConstantsAssumption DEF ConstantsAssumption
  <2>2. QED
    BY <2>1 DEF Plan, Used
<1>5. /\ p.kind = kind /\ p.inc = i
      /\ \A k \in p.cancel : kind = "clear" /\ queue[k].kind = "fault" /\ queue[k].inc = i
  BY DEF Held
<1> HIDE DEF p
<1>6. plan' = [plan EXCEPT ![e] = p]
  BY <1>1 DEF p
<1>7. OuterTypes' /\ plan'[e] = p /\ \A f \in Emitters \ {e} : plan'[f] = plan[f]
  BY <1>2, <1>3, <1>4, <1>6 DEF OuterTypes
<1>8. InBatch' = InBatch /\ Row' = Row
  BY <1>2 DEF drainVars, InBatch, Row
<1>9. DrainTypes'
  BY <1>2, <1>3, <1>8 DEF DrainTypes, drainVars
<1>10. CapHolds' /\ DelayInv'
  BY <1>2, <1>8 DEF QueueInv, CapHolds, DelayInv, Used, drainVars
<1>11. ASSUME NEW k \in Rows, Own(k)' PROVE Fits(k)'
  <2>1. Fits(k)
    BY <1>2, <1>11 DEF Own, QueueInv, HistoryInv
  <2>2. RowFits(k)' /\ (k \in InBatch' => BatchFits(k)') /\ (pc' = "posted" /\ k = Row' => PostFits(k)')
    BY <1>2, <1>8, <2>1 DEF Fits, RowFits, BatchFits, PostFits, drainVars
  <2>3. ASSUME NEW f \in Emitters, plan'[f] # None, k \in plan'[f].cancel PROVE CancelFits(f, k)'
    <3>1. CASE f = e
      BY <1>2, <1>5, <1>7, <2>3, <3>1 DEF CancelFits
    <3>2. CASE f # e
      BY <1>2, <1>7, <2>1, <2>3, <3>2 DEF Fits, CancelFits
    <3>3. QED
      BY <3>1, <3>2
  <2>4. QED
    BY <2>2, <2>3 DEF Fits
<1>12. TypeOK'
  <2>1. (queue \in Tables)'
    BY <1>2, <1>3 DEF Tables, Record
  <2>2. QED
    BY <1>7, <1>9, <2>1, TypeParts, PTL
<1>13. QED
  BY <1>10, <1>11, <1>12 DEF QueueInv, HistoryInv

\* A row under an id that somebody means another by is marked as such.
LEMMA EmitWriteKeeps ==
    ASSUME QueueInv, NEW e \in Emitters, EmitWrite(e)
    PROVE  QueueInv'
<1>1. TypeOK /\ CapHolds /\ queue \in Tables /\ OuterTypes /\ DrainTypes
  BY TypeParts DEF QueueInv
<1>2. /\ plan[e] \in Plan /\ queue' \in Tables /\ CapHolds'
      /\ \A k \in Rows : queue'[k] # None =>
            \/ k \notin stale' \ stale /\ queue'[k] = queue[k] /\ k \notin plan[e].cancel
            \/ \E h \in plan[e].targets : queue'[k] = NewRow(e, h, k)
      /\ stale' \subseteq InBatch
  BY <1>1, EmitFacts
<1>3. UNCHANGED hooks /\ UNCHANGED drainVars /\ plan' = [plan EXCEPT ![e] = None]
  BY DEF EmitWrite
<1>4. OuterTypes' /\ plan'[e] = None /\ \A f \in Emitters \ {e} : plan'[f] = plan[f]
  BY <1>1, <1>3 DEF OuterTypes
<1>5. InBatch' = InBatch /\ Row' = Row /\ UNCHANGED <<pc, batch, known, lag, outcome>>
  BY <1>3 DEF drainVars, InBatch, Row
<1>6. DrainTypes'
  BY <1>1, <1>2, <1>5 DEF DrainTypes
<1>7. \A h \in plan[e].targets : h \in Hooks
  BY <1>2 DEF Plan
<1>8. DelayInv'
  <2>1. ASSUME NEW k \in Rows, queue'[k] # None, queue'[k].attempts = 0
        PROVE  queue'[k].life <= MaxAge + queue'[k].wait
    <3>1. CASE queue'[k] = queue[k]
      BY <2>1, <3>1 DEF QueueInv, DelayInv, Used
    <3>2. CASE \E h \in plan[e].targets : queue'[k] = NewRow(e, h, k)
      BY <1>2, <1>7, <3>2, NewRowFacts
    <3>3. QED
      BY <1>2, <2>1, <3>1, <3>2
  <2>2. QED
    BY <1>5, <2>1 DEF QueueInv, DelayInv, Used
<1>9. ASSUME NEW k \in Rows, Own(k)' PROVE Fits(k)'
  <2>1. queue'[k] # None
    BY <1>9 DEF Own
  <2>2. CASE k \notin stale' \ stale /\ queue'[k] = queue[k] /\ k \notin plan[e].cancel
    <3>1. Fits(k)
      BY <1>9, <2>2 DEF Own, QueueInv, HistoryInv
    <3>2. RowFits(k)' /\ (k \in InBatch' => BatchFits(k)') /\ (pc' = "posted" /\ k = Row' => PostFits(k)')
      BY <1>5, <2>2, <3>1 DEF Fits, RowFits, BatchFits, PostFits
    <3>3. ASSUME NEW f \in Emitters, plan'[f] # None, k \in plan'[f].cancel PROVE CancelFits(f, k)'
      BY <1>4, <2>2, <3>1, <3>3 DEF Fits, CancelFits
    <3>4. QED
      BY <3>2, <3>3 DEF Fits
  <2>3. CASE \E h \in plan[e].targets : queue'[k] = NewRow(e, h, k)
    <3>1. queue'[k].attempts = 0 /\ queue'[k].fails = 0 /\ (queue'[k].reused <=> HeldElsewhere(e, k))
      BY <1>2, <1>7, <2>3, NewRowFacts
    <3>2. ~HeldElsewhere(e, k)
      BY <1>9, <3>1 DEF Own
    <3>3. k \notin InBatch' /\ RowFits(k)'
      BY <1>5, <3>1, <3>2 DEF HeldElsewhere, InBatch, RowFits
    <3>4. ~(pc' = "posted" /\ k = Row')
      BY <1>5, <1>6, <3>3, RowInBatch DEF DrainTypes
    <3>5. \A f \in Emitters : ~(plan'[f] # None /\ k \in plan'[f].cancel)
      BY <1>4, <3>2 DEF HeldElsewhere
    <3>6. QED
      BY <3>3, <3>4, <3>5 DEF Fits
  <2>4. QED
    BY <1>2, <2>1, <2>2, <2>3
<1>10. TypeOK'
  <2>1. (queue \in Tables)'
    BY <1>2 DEF Tables, Record
  <2>2. QED
    BY <1>4, <1>6, <2>1, TypeParts, PTL
<1>11. QED
  BY <1>2, <1>8, <1>9, <1>10 DEF QueueInv, HistoryInv

\* Rows and plans at most go, with the drain standing still.
LEMMA OutsideKeeps ==
    ASSUME QueueInv,
           \/ \E e \in Emitters : EmitFail(e)
           \/ \E h \in Hooks : Switch(h) \/ Delete(h) \/ Create(h)
           \/ UNCHANGED vars
    PROVE  QueueInv'
<1>1. queue \in Tables /\ OuterTypes /\ DrainTypes
  BY TypeParts DEF QueueInv
<1>2. UNCHANGED drainVars /\ UNCHANGED stale
  BY DEF EmitFail, Switch, Delete, Create, vars
<1>3. \A k \in Rows : queue'[k] \in {queue[k], None}
  BY DEF EmitFail, Switch, Delete, Create, vars
<1>4. queue' \in Tables
  BY <1>1 DEF EmitFail, Switch, Delete, Create, vars, Tables
<1>5. \A e \in Emitters : plan'[e] \in {plan[e], None}
  BY <1>1 DEF EmitFail, Switch, Delete, Create, vars, OuterTypes
<1>6. OuterTypes'
  <2>1. plan' \in [Emitters -> Plan \cup {None}]
    BY <1>1 DEF EmitFail, Switch, Delete, Create, vars, OuterTypes
  <2>2. hooks' \in [Hooks -> {"new", "on", "off", "deleted"}]
    BY <1>1 DEF EmitFail, Switch, Delete, Create, vars, OuterTypes
  <2>3. QED
    BY <2>1, <2>2 DEF OuterTypes
<1>7. DrainTypes' /\ CapHolds' /\ DelayInv' /\ HistoryInv'
  BY <1>2, <1>3, <1>5, StillKeeps
<1>8. TypeOK'
  <2>1. (queue \in Tables)'
    BY <1>4 DEF Tables, Record
  <2>2. QED
    BY <1>6, <1>7, <2>1, TypeParts, PTL
<1>9. QED
  BY <1>7, <1>8 DEF QueueInv

\* What the drain reads is of the rows as they are, and due.
LEMMA DrainStartKeeps ==
    ASSUME QueueInv, DrainStart
    PROVE  QueueInv'
<1>1. queue \in Tables /\ OuterTypes /\ DrainTypes
  BY TypeParts DEF QueueInv
<1> DEFINE due == {k \in Used(queue) : queue[k].wait = 0}
           D == Oldest(due, Batch)
<1>2. /\ due # {} /\ pc = "idle" /\ pc' = "row" /\ lag' = 0
      /\ batch' = [k \in Rows |-> IF k \in D THEN Snapshot(queue[k]) ELSE None]
      /\ known' = {h \in Hooks : hooks[h] = "on"}
      /\ UNCHANGED <<queue, hooks, plan, outcome, stale>>
  BY DEF DrainStart
<1>3. stale = {}
  BY <1>1, <1>2 DEF DrainTypes
<1>4. MaxRow \in Nat /\ Batch \in Nat /\ Batch >= 1
  BY ConstantsAssumption DEF ConstantsAssumption
<1>5. due \in SUBSET Rows /\ due \in SUBSET (1 .. MaxRow)
  BY DEF Used, Rows
<1>6. D \subseteq due /\ D # {}
  <2>1. IsFiniteSet(due) /\ Cardinality(due) \in Nat /\ Cardinality(due) # 0
    BY <1>2, <1>5, RowSets, FS_EmptySet
  <2>2. D \subseteq due /\ Cardinality(D) = IF Batch <= Cardinality(due) THEN Batch ELSE Cardinality(due)
    BY <1>4, <1>5, OldestFacts
  <2>3. Cardinality(D) # 0
    BY <1>4, <2>1, <2>2
  <2>4. QED
    BY <2>2, <2>3, FS_EmptySet
<1>7. \A k \in D : k \in Rows /\ queue[k] # None /\ queue[k] \in Record /\ queue[k].wait = 0
  BY <1>1, <1>5, <1>6 DEF Used, Tables
<1> HIDE DEF D, due
<1>8. \A k \in D : /\ Snapshot(queue[k]) \in Snapshots /\ Snapshot(queue[k]) # None
                   /\ Snapshot(queue[k]).hook = queue[k].hook /\ Snapshot(queue[k]).life = queue[k].life
                   /\ Snapshot(queue[k]).attempts = queue[k].attempts
  BY <1>7, NoneFacts DEF Snapshot, Snapshots, Record
<1>9. batch' \in [Rows -> Snapshots \cup {None}] /\ InBatch' = D
  BY <1>2, <1>7, <1>8 DEF InBatch
<1>10. DrainTypes'
  BY <1>1, <1>2, <1>3, <1>6, <1>9 DEF DrainTypes
<1>11. CapHolds'
  BY <1>2 DEF QueueInv, CapHolds, Used
<1>12. DelayInv'
  <2>1. \A k \in Used(queue)' : queue'[k].attempts = 0 => queue'[k].life <= MaxAge + queue'[k].wait
    BY <1>2 DEF QueueInv, DelayInv, Used
  <2>2. ASSUME NEW k \in InBatch', batch'[k].attempts = 0 PROVE batch'[k].life <= MaxAge
    <3>1. k \in D /\ k \in Used(queue) /\ batch'[k] = Snapshot(queue[k])
      BY <1>2, <1>7, <1>9, <2>2 DEF Used
    <3>2. queue[k].attempts = 0 /\ batch'[k].life = queue[k].life /\ queue[k].wait = 0
      BY <1>7, <1>8, <2>2, <3>1
    <3>3. queue[k].life <= MaxAge + 0
      BY <3>1, <3>2 DEF QueueInv, DelayInv
    <3>4. MaxAge + 0 = MaxAge
      BY ConstantsAssumption DEF ConstantsAssumption
    <3>5. QED
      BY <3>2, <3>3, <3>4
  <2>3. QED
    BY <2>1, <2>2 DEF DelayInv
<1>13. ASSUME NEW k \in Rows, Own(k)' PROVE Fits(k)'
  <2>1. Fits(k)
    BY <1>2, <1>13 DEF Own, QueueInv, HistoryInv
  <2>2. RowFits(k)'
    BY <1>2, <2>1 DEF Fits, RowFits
  <2>3. k \in InBatch' => BatchFits(k)'
    <3>1. SUFFICES ASSUME k \in D PROVE BatchFits(k)'
      BY <1>9
    <3>2. batch'[k] = Snapshot(queue[k])
      BY <1>2, <3>1
    <3>3. queue[k].life <= queue[k].life
      BY <1>7, <3>1 DEF Record
    <3>4. QED
      BY <1>2, <1>3, <1>8, <2>1, <3>1, <3>2, <3>3 DEF BatchFits, Fits, RowFits
  <2>4. ~(pc' = "posted") /\ \A e \in Emitters : plan'[e] # None /\ k \in plan'[e].cancel => CancelFits(e, k)'
    BY <1>2, <2>1 DEF Fits, CancelFits
  <2>5. QED
    BY <2>2, <2>3, <2>4 DEF Fits
<1>14. TypeOK'
  <2>1. (queue \in Tables)'
    BY <1>1, <1>2 DEF Tables, Record
  <2>2. OuterTypes'
    BY <1>1, <1>2 DEF OuterTypes
  <2>3. QED
    BY <1>10, <2>1, <2>2, TypeParts, PTL
<1>15. QED
  BY <1>11, <1>12, <1>13, <1>14 DEF QueueInv, HistoryInv

\* The row in hand is dropped, or its POST recorded, or the pass is stopped.
LEMMA DrainEndKeeps ==
    ASSUME QueueInv, DrainDrop \/ DrainRecord \/ DrainFail \/ CrashRestart
    PROVE  QueueInv'
<1>1. queue \in Tables /\ OuterTypes /\ DrainTypes
  BY TypeParts DEF QueueInv
<1>2. Shrinks
  BY <1>1, IdleShrinks, NextRowShrinks DEF DrainDrop, DrainRecord, DrainFail, CrashRestart
<1>3. OuterTypes' /\ \A e \in Emitters : plan'[e] \in {plan[e], None}
  BY <1>1 DEF DrainDrop, DrainRecord, DrainFail, CrashRestart, OuterTypes
<1>4. /\ queue' \in Tables
      /\ \A k \in Rows : queue'[k] # None =>
            queue[k] # None /\ (queue'[k] = queue[k] \/ (k = Row /\ Retried(k)))
  <2>1. CASE DrainFail \/ CrashRestart
    BY <1>1, <2>1 DEF DrainFail, CrashRestart
  <2>2. CASE DrainDrop
    <3>1. queue' = [queue EXCEPT ![Row] = None]
      BY <2>2 DEF DrainDrop
    <3>2. QED
      BY <1>1, <3>1 DEF Tables
  <2>3. CASE DrainRecord
    <3> DEFINE attempts == batch[Row].attempts + 1
    <3>1. /\ pc = "posted"
          /\ queue' = [queue EXCEPT ![Row] =
                IF outcome = "ok" \/ GiveUp(attempts) \/ @ = None THEN None
                ELSE [@ EXCEPT !.attempts = attempts, !.wait = Max0(Backoff - lag)]]
      BY <2>3 DEF DrainRecord
    <3>2. Row \in InBatch /\ Row \in Rows /\ batch[Row] \in Snapshots
      BY <1>1, <3>1, RowInBatch DEF DrainTypes
    <3>3. attempts \in Nat /\ attempts > 0 /\ MaxAttempts \in Nat
      BY <3>2, ConstantsAssumption DEF Snapshots, ConstantsAssumption
    <3>4. Max0(Backoff - lag) \in Nat
      BY <1>1, ConstantsAssumption DEF Max0, DrainTypes, ConstantsAssumption
    <3>5. CASE outcome = "ok" \/ GiveUp(attempts) \/ queue[Row] = None
      <4>1. queue' = [queue EXCEPT ![Row] = None]
        BY <3>1, <3>5
      <4>2. QED
        BY <1>1, <4>1 DEF Tables
    <3>6. CASE ~(outcome = "ok" \/ GiveUp(attempts) \/ queue[Row] = None)
      <4> DEFINE r == [queue[Row] EXCEPT !.attempts = attempts, !.wait = Max0(Backoff - lag)]
      <4>1. queue' = [queue EXCEPT ![Row] = r]
        BY <3>1, <3>6
      <4>2. queue[Row] \in Record
        BY <1>1, <3>2, <3>6 DEF Tables
      <4>3. attempts \in 0 .. MaxAttempts - 1
        BY <3>3, <3>6 DEF GiveUp
      <4> HIDE DEF attempts
      <4>4. /\ r \in Record /\ r.attempts = attempts /\ r.kind = queue[Row].kind /\ r.inc = queue[Row].inc
            /\ r.reused = queue[Row].reused /\ r.fails = queue[Row].fails
        BY <3>4, <4>2, <4>3 DEF Record
      <4> HIDE DEF r
      <4>5. queue' \in Tables /\ queue'[Row] = r /\ \A k \in Rows \ {Row} : queue'[k] = queue[k]
        BY <1>1, <3>2, <4>1, <4>4 DEF Tables
      <4>6. Own(Row) => attempts <= queue[Row].fails
        BY <3>1, <3>2, <3>6 DEF QueueInv, HistoryInv, Fits, PostFits, attempts
      <4>7. ASSUME NEW k \in Rows, k = Row PROVE Retried(k)
        BY <3>3, <4>4, <4>5, <4>6, <4>7 DEF Retried, RowFits
      <4>8. QED
        BY <3>6, <4>5, <4>7
    <3>7. QED
      BY <3>5, <3>6
  <2>4. QED
    BY <2>1, <2>2, <2>3
<1>5. CapHolds' /\ DelayInv' /\ HistoryInv'
  BY <1>2, <1>3, <1>4, ShrinkKeeps
<1>6. TypeOK'
  <2>1. (queue \in Tables)'
    BY <1>4 DEF Tables, Record
  <2>2. DrainTypes'
    BY <1>2 DEF Shrinks
  <2>3. QED
    BY <1>3, <2>1, <2>2, TypeParts, PTL
<1>7. QED
  BY <1>5, <1>6 DEF QueueInv

\* A POST is counted by the row it was for, if that still has its id.
LEMMA PostKeeps ==
    ASSUME QueueInv, Post
    PROVE  QueueInv'
<1>1. queue \in Tables /\ OuterTypes /\ DrainTypes
  BY TypeParts DEF QueueInv
<1>2. /\ pc = "row" /\ pc' = "posted" /\ outcome' \in {"ok", "failed", "gone"}
      /\ UNCHANGED <<hooks, plan, batch, known, lag, stale>>
  BY DEF Post
<1>3. InBatch' = InBatch /\ Row' = Row
  BY <1>2 DEF InBatch, Row
<1>4. Row \in InBatch /\ Row \in Rows /\ batch[Row] \in Snapshots
  BY <1>1, <1>2, RowInBatch DEF DrainTypes
<1>5. DrainTypes'
  BY <1>1, <1>2, <1>3 DEF DrainTypes
<1>6. OuterTypes'
  BY <1>1, <1>2 DEF OuterTypes
<1> DEFINE Same(k) ==
       /\ queue[k] # None
       /\ queue'[k].hook = queue[k].hook /\ queue'[k].life = queue[k].life
       /\ queue'[k].wait = queue[k].wait /\ queue'[k].attempts = queue[k].attempts
       /\ queue'[k].kind = queue[k].kind /\ queue'[k].inc = queue[k].inc
       /\ queue'[k].reused = queue[k].reused
       /\ queue'[k].fails >= queue[k].fails /\ queue[k].fails \in Nat /\ queue'[k].fails \in Nat
<1>7. /\ queue' \in Tables
      /\ \A k \in Rows : queue'[k] # None => Same(k)
      /\ queue[Row] # None /\ Row \notin stale =>
            IF outcome' = "ok" THEN queue'[Row].sent ELSE batch[Row].attempts + 1 <= queue'[Row].fails
               \/ ~(batch[Row].attempts <= queue[Row].fails)
  <2>1. MaxAttempts \in Nat
    BY ConstantsAssumption DEF ConstantsAssumption
  <2>2. ASSUME NEW k \in Rows, queue[k] # None
        PROVE  queue[k] \in Record /\ queue[k].fails \in Nat /\ queue[k].fails <= MaxAttempts
               /\ queue[k].fails >= queue[k].fails
    <3>1. queue[k] \in Record
      BY <1>1, <2>2 DEF Tables
    <3>2. QED
      BY <2>1, <3>1 DEF Record
  <2>3. CASE queue[Row] = None \/ Row \in stale
    <3>1. queue' = queue
      BY <2>3 DEF Post
    <3>2. QED
      BY <1>1, <2>2, <2>3, <3>1
  <2>4. CASE queue[Row] # None /\ Row \notin stale /\ outcome' = "ok"
    <3> DEFINE r == [queue[Row] EXCEPT !.sent = TRUE]
    <3>1. queue' = [queue EXCEPT ![Row] = r]
      BY <2>4 DEF Post
    <3>2. queue[Row] \in Record
      BY <1>4, <2>2, <2>4
    <3>3. /\ r \in Record /\ r.attempts = queue[Row].attempts /\ r.kind = queue[Row].kind
          /\ r.inc = queue[Row].inc /\ r.reused = queue[Row].reused /\ r.fails = queue[Row].fails
          /\ r.hook = queue[Row].hook /\ r.life = queue[Row].life /\ r.wait = queue[Row].wait
      BY <3>2 DEF Record
    <3>4. r.sent
      BY <3>2 DEF Record
    <3> HIDE DEF r
    <3>5. queue' \in Tables /\ queue'[Row] = r /\ \A k \in Rows \ {Row} : queue'[k] = queue[k]
      BY <1>1, <1>4, <3>1, <3>3 DEF Tables
    <3>6. ASSUME NEW k \in Rows, queue'[k] # None PROVE Same(k)
      <4>1. CASE k = Row
        BY <1>4, <2>2, <2>4, <3>3, <3>5, <4>1
      <4>2. CASE k # Row
        BY <2>2, <3>5, <3>6, <4>2
      <4>3. QED
        BY <4>1, <4>2
    <3>7. QED
      BY <2>4, <3>4, <3>5, <3>6
  <2>5. CASE queue[Row] # None /\ Row \notin stale /\ outcome' # "ok"
    <3> DEFINE n == IF queue[Row].fails < MaxAttempts THEN queue[Row].fails + 1 ELSE queue[Row].fails
               r == [queue[Row] EXCEPT !.fails = n]
    <3>1. queue' = [queue EXCEPT ![Row] = r]
      BY <2>5 DEF Post
    <3>2. queue[Row] \in Record
      BY <1>4, <2>2, <2>5
    <3>3. n \in 0 .. MaxAttempts /\ n \in Nat /\ n >= queue[Row].fails
          /\ (batch[Row].attempts + 1 <= n \/ ~(batch[Row].attempts <= queue[Row].fails))
      BY <1>4, <2>1, <2>2, <2>5 DEF Snapshots
    <3> HIDE DEF n
    <3>4. /\ r \in Record /\ r.attempts = queue[Row].attempts /\ r.kind = queue[Row].kind
          /\ r.inc = queue[Row].inc /\ r.reused = queue[Row].reused /\ r.fails = n
          /\ r.hook = queue[Row].hook /\ r.life = queue[Row].life /\ r.wait = queue[Row].wait
      BY <3>2, <3>3 DEF Record
    <3> HIDE DEF r
    <3>5. queue' \in Tables /\ queue'[Row] = r /\ \A k \in Rows \ {Row} : queue'[k] = queue[k]
      BY <1>1, <1>4, <3>1, <3>4 DEF Tables
    <3>6. ASSUME NEW k \in Rows, queue'[k] # None PROVE Same(k)
      <4>1. CASE k = Row
        BY <1>4, <2>2, <2>5, <3>3, <3>4, <3>5, <4>1
      <4>2. CASE k # Row
        BY <2>2, <3>5, <3>6, <4>2
      <4>3. QED
        BY <4>1, <4>2
    <3>7. QED
      BY <2>5, <3>3, <3>4, <3>5, <3>6
  <2>6. QED
    BY <1>2, <2>3, <2>4, <2>5
<1>8. CapHolds'
  BY <1>7, CapKept DEF QueueInv
<1>9. DelayInv'
  BY <1>2, <1>3, <1>7 DEF QueueInv, DelayInv, Used
<1>10. ASSUME NEW k \in Rows, Own(k)' PROVE Fits(k)'
  <2>1. Same(k) /\ Own(k) /\ Fits(k)
    BY <1>7, <1>10 DEF Own, QueueInv, HistoryInv
  <2>2. RowFits(k)'
    <3>1. queue[k].attempts \in Nat
      BY <1>1, <2>1 DEF Tables, Record
    <3>2. QED
      BY <2>1, <3>1 DEF Fits, RowFits
  <2>3. ASSUME k \in InBatch' PROVE BatchFits(k)'
    <3>1. BatchFits(k) /\ batch[k] \in Snapshots
      BY <1>1, <1>3, <2>1, <2>3 DEF Fits, DrainTypes, InBatch
    <3>2. batch[k].attempts \in Nat
      BY <3>1 DEF Snapshots
    <3>3. QED
      BY <1>2, <2>1, <3>1, <3>2 DEF BatchFits
  <2>4. ASSUME k = Row' PROVE PostFits(k)'
    <3>1. BatchFits(Row)
      BY <1>3, <1>4, <2>1, <2>4 DEF Fits
    <3>2. k = Row
      BY <1>3, <2>4
    <3>3. IF outcome' = "ok" THEN queue'[k].sent ELSE batch[k].attempts + 1 <= queue'[k].fails
      BY <1>7, <2>1, <3>1, <3>2 DEF BatchFits
    <3>4. QED
      BY <1>2, <3>3 DEF PostFits
  <2>5. \A e \in Emitters : plan'[e] # None /\ k \in plan'[e].cancel => CancelFits(e, k)'
    BY <1>2, <2>1 DEF Fits, CancelFits
  <2>6. QED
    BY <2>2, <2>3, <2>4, <2>5 DEF Fits
<1>11. TypeOK'
  <2>1. (queue \in Tables)'
    BY <1>7 DEF Tables, Record
  <2>2. QED
    BY <1>5, <1>6, <2>1, TypeParts, PTL
<1>12. QED
  BY <1>8, <1>9, <1>10, <1>11 DEF QueueInv, HistoryInv

\* Time passes for the rows and for who holds what they read of them.
LEMMA TickKeeps ==
    ASSUME QueueInv, Tick
    PROVE  QueueInv'
<1>1. queue \in Tables /\ OuterTypes /\ DrainTypes
  BY TypeParts DEF QueueInv
<1>2. UNCHANGED <<hooks, pc, batch, known, outcome, stale>>
  BY DEF Tick
<1>3. InBatch' = InBatch /\ Row' = Row
  BY <1>2 DEF InBatch, Row
<1>4. DrainTypes'
  <2>1. lag' \in Nat
    <3>1. lag \in Nat
      BY <1>1 DEF DrainTypes
    <3>2. lag' = lag + 1 \/ lag' = lag
      BY DEF Tick
    <3>3. QED
      BY <3>1, <3>2
  <2>2. QED
    BY <1>1, <1>2, <1>3, <2>1 DEF DrainTypes
<1>5. ASSUME NEW e \in Emitters
      PROVE  /\ plan'[e] \in Plan \cup {None} /\ (plan'[e] # None => plan[e] # None)
             /\ plan'[e] # None => plan'[e].kind = plan[e].kind /\ plan'[e].inc = plan[e].inc
                                   /\ plan'[e].cancel = plan[e].cancel
  <2>1. plan'[e] = IF plan[e] = None THEN None ELSE [plan[e] EXCEPT !.lag = @ + 1]
    BY DEF Tick
  <2>2. CASE plan[e] = None
    BY <2>1, <2>2
  <2>3. CASE plan[e] # None
    <3>1. plan[e] \in Plan /\ plan[e].lag < MaxLag /\ MaxLag \in Nat
      BY <1>1, <2>3, ConstantsAssumption DEF OuterTypes, Tick, ConstantsAssumption
    <3>2. plan[e].lag + 1 \in 0 .. MaxLag
      BY <3>1 DEF Plan
    <3>3. plan'[e] = [plan[e] EXCEPT !.lag = plan[e].lag + 1]
      BY <2>1, <2>3
    <3>4. QED
      BY <2>3, <3>1, <3>2, <3>3 DEF Plan
  <2>4. QED
    BY <2>2, <2>3
<1>6. OuterTypes'
  <2>1. plan' = [e \in Emitters |-> plan'[e]]
    BY DEF Tick
  <2>2. plan' \in [Emitters -> Plan \cup {None}]
    BY <1>5, <2>1
  <2>3. QED
    BY <1>1, <1>2, <2>2 DEF OuterTypes
<1> DEFINE Older(k) ==
       /\ queue[k] # None
       /\ queue'[k].hook = queue[k].hook /\ queue'[k].attempts = queue[k].attempts
       /\ queue'[k].kind = queue[k].kind /\ queue'[k].inc = queue[k].inc
       /\ queue'[k].reused = queue[k].reused /\ queue'[k].sent = queue[k].sent
       /\ queue'[k].fails = queue[k].fails
       /\ queue[k].life \in Int /\ queue'[k].life \in Int /\ queue'[k].life <= queue[k].life
       /\ queue[k].life <= MaxAge + queue[k].wait => queue'[k].life <= MaxAge + queue'[k].wait
<1>7. ASSUME NEW k \in Rows
      PROVE  queue'[k] \in Record \cup {None} /\ (queue'[k] # None => Older(k))
  <2>1. queue'[k] = IF queue[k] = None THEN None
                    ELSE [queue[k] EXCEPT !.wait = Max0(@ - 1), !.life = IF @ < 0 THEN @ ELSE @ - 1]
    BY DEF Tick
  <2>2. CASE queue[k] = None
    BY <2>1, <2>2
  <2>3. CASE queue[k] # None
    <3>1. PICK w, l : w = queue[k].wait /\ l = queue[k].life
      OBVIOUS
    <3>2. queue[k] \in Record
      BY <1>1, <2>3 DEF Tables
    <3>3. w \in Nat /\ l \in Int /\ MaxAge \in Nat
      BY <3>1, <3>2, ConstantsAssumption DEF Record, ConstantsAssumption
    <3>4. PICK v, m : v = Max0(w - 1) /\ m = IF l < 0 THEN l ELSE l - 1
      OBVIOUS
    <3>5. v \in Nat /\ m \in Int /\ m <= l /\ (l <= MaxAge + w => m <= MaxAge + v)
      BY <3>3, <3>4 DEF Max0
    <3>6. queue'[k] = [queue[k] EXCEPT !.wait = v, !.life = m]
      BY <2>1, <2>3, <3>1, <3>4
    <3>7. /\ queue'[k] \in Record /\ queue'[k].wait = v /\ queue'[k].life = m
          /\ queue'[k].hook = queue[k].hook /\ queue'[k].attempts = queue[k].attempts
          /\ queue'[k].kind = queue[k].kind /\ queue'[k].inc = queue[k].inc
          /\ queue'[k].reused = queue[k].reused /\ queue'[k].sent = queue[k].sent
          /\ queue'[k].fails = queue[k].fails
      BY <3>2, <3>5, <3>6 DEF Record
    <3>8. QED
      BY <2>3, <3>1, <3>3, <3>5, <3>7
  <2>4. QED
    BY <2>2, <2>3
<1>8. queue' \in Tables
  <2>1. queue' = [k \in Rows |-> queue'[k]]
    BY DEF Tick
  <2>2. QED
    BY <1>7, <2>1 DEF Tables
<1>9. CapHolds'
  BY <1>7, CapKept DEF QueueInv
<1>10. DelayInv'
  <2>1. ASSUME NEW k \in Rows, queue'[k] # None, queue'[k].attempts = 0
        PROVE  queue'[k].life <= MaxAge + queue'[k].wait
    BY <1>7, <2>1 DEF QueueInv, DelayInv, Used
  <2>2. QED
    BY <1>2, <1>3, <2>1 DEF QueueInv, DelayInv, Used
<1>11. ASSUME NEW k \in Rows, Own(k)' PROVE Fits(k)'
  <2>1. Older(k) /\ Own(k) /\ Fits(k)
    BY <1>7, <1>11 DEF Own, QueueInv, HistoryInv
  <2>2. RowFits(k)'
    BY <2>1 DEF Fits, RowFits
  <2>3. ASSUME k \in InBatch' PROVE BatchFits(k)'
    <3>1. BatchFits(k) /\ batch[k] \in Snapshots
      BY <1>1, <1>3, <2>1, <2>3 DEF Fits, DrainTypes, InBatch
    <3>2. batch[k].life \in Int
      BY <3>1 DEF Snapshots
    <3>3. QED
      BY <1>2, <2>1, <3>1, <3>2 DEF BatchFits
  <2>4. pc' = "posted" /\ k = Row' => PostFits(k)'
    BY <1>2, <1>3, <2>1 DEF Fits, PostFits
  <2>5. ASSUME NEW e \in Emitters, plan'[e] # None, k \in plan'[e].cancel PROVE CancelFits(e, k)'
    BY <1>5, <2>1, <2>5 DEF Fits, CancelFits
  <2>6. QED
    BY <2>2, <2>3, <2>4, <2>5 DEF Fits
<1>12. TypeOK'
  <2>1. (queue \in Tables)'
    BY <1>8 DEF Tables, Record
  <2>2. QED
    BY <1>4, <1>6, <2>1, TypeParts, PTL
<1>13. QED
  BY <1>9, <1>10, <1>11, <1>12 DEF QueueInv, HistoryInv

-----------------------------------------------------------------------------
(* The results.                                                            *)

LEMMA QueueInit == Init => QueueInv
<1>1. SUFFICES ASSUME Init PROVE QueueInv
  OBVIOUS
<1>2. queue \in Tables /\ Used(queue) = {} /\ InBatch = {}
  BY <1>1 DEF Init, Tables, Used, InBatch
<1>3. OuterTypes /\ DrainTypes
  BY <1>1, <1>2 DEF Init, OuterTypes, DrainTypes
<1>4. CapHolds
  BY <1>2, FS_EmptySet, ConstantsAssumption DEF CapHolds, ConstantsAssumption
<1>5. DelayInv
  BY <1>2 DEF DelayInv
<1>6. HistoryInv
  BY <1>1 DEF Init, HistoryInv, Own
<1>7. QED
  BY <1>2, <1>3, <1>4, <1>5, <1>6, TypeParts DEF QueueInv

LEMMA QueueNext == QueueInv /\ [Next]_vars => QueueInv'
<1>1. ASSUME QueueInv, NEW e \in Emitters, EmitRead(e) \/ EmitWrite(e) PROVE QueueInv'
  BY <1>1, EmitReadKeeps, EmitWriteKeeps
<1>2. ASSUME QueueInv, DrainStep \/ DrainFail \/ CrashRestart PROVE QueueInv'
  BY <1>2, DrainStartKeeps, DrainEndKeeps, PostKeeps DEF DrainStep
<1>3. Edited \subseteq Hooks
  BY ConstantsAssumption DEF ConstantsAssumption
<1>4. QED
  BY <1>1, <1>2, <1>3, OutsideKeeps, TickKeeps DEF Next

\* The inductive invariant holds of every reachable state.
THEOREM QueueInvariance == Spec => []QueueInv
  BY QueueInit, QueueNext, PTL DEF Spec

\* Types; and the drain holds rows only while it runs.
THEOREM QueueTypeCorrect == Spec => []TypeOK
<1>1. QueueInv => TypeOK
  BY DEF QueueInv
<1>2. QED
  BY <1>1, QueueInvariance, PTL

\* emit_event's one trimming pass leaves the table within QUEUE_CAP, for any
\* number of webhooks that the cap is large enough for.
THEOREM CapHoldsAlways == Spec => []CapHolds
<1>1. QueueInv => CapHolds
  BY DEF QueueInv
<1>2. QED
  BY <1>1, QueueInvariance, PTL

\* An escalated fault is first posted no earlier than its delay, unless its id
\* was meant for an earlier row: the history of any other row bounds the attempts
\* the drain read, so the drain read it due.
THEOREM HeldUntilDueAlways == Spec => HeldUntilDue
<1> DEFINE Due == FirstPost => queue[Row].life <= MaxAge \/ queue[Row].reused
<1>1. ASSUME QueueInv, [Next]_vars PROVE Due
  <2>1. SUFFICES ASSUME FirstPost, ~queue[Row].reused PROVE queue[Row].life <= MaxAge
    OBVIOUS
  <2>2. InBatch # {}
    BY <1>1, <2>1, TypeParts DEF QueueInv, DrainTypes, FirstPost
  <2>3. Row \in InBatch /\ Row \in Rows
    BY <2>2, RowInBatch
  <2>4. queue[Row] \in Record /\ batch[Row] \in Snapshots
    BY <1>1, <2>1, <2>3 DEF QueueInv, TypeOK, FirstPost, InBatch
  <2>5. BatchFits(Row)
    BY <1>1, <2>1, <2>3 DEF QueueInv, HistoryInv, Own, Fits, FirstPost
  <2>6. batch[Row].attempts <= 0 /\ batch[Row].attempts \in Nat
    BY <2>1, <2>4, <2>5, ConstantsAssumption DEF BatchFits, FirstPost, Snapshots, ConstantsAssumption
  <2>7. batch[Row].attempts = 0
    BY <2>6
  <2>8. batch[Row].life <= MaxAge
    BY <1>1, <2>3, <2>7 DEF QueueInv, DelayInv
  <2>9. batch[Row].life \in Int /\ queue[Row].life \in Int /\ queue[Row].life <= batch[Row].life
    BY <2>4, <2>5 DEF BatchFits, Record, Snapshots
  <2>10. MaxAge \in Nat
    BY ConstantsAssumption DEF ConstantsAssumption
  <2>11. QED
    BY <2>8, <2>9, <2>10
<1>2. QueueInv /\ [Next]_vars => [Due]_vars
  BY <1>1
<1>3. QED
  BY <1>2, QueueInvariance, PTL DEF Spec, HeldUntilDue

\* A POST and the clock change rows in place.
LEMMA PostLeavesNone ==
    ASSUME QueueInv, Post, NEW k \in Rows, queue[k] # None
    PROVE  queue'[k] # None
<1>1. queue \in Tables
  BY TypeParts DEF QueueInv
<1>2. queue[k] \in Record /\ MaxAttempts \in Nat
  BY <1>1, ConstantsAssumption DEF Tables, ConstantsAssumption
<1> DEFINE n == IF queue[k].fails < MaxAttempts THEN queue[k].fails + 1 ELSE queue[k].fails
           r == [queue[k] EXCEPT !.sent = TRUE]
           s == [queue[k] EXCEPT !.fails = n]
<1>3. n \in 0 .. MaxAttempts
  BY <1>2 DEF Record
<1> HIDE DEF n
<1>4. r \in Record /\ s \in Record
  BY <1>2, <1>3 DEF Record
<1>5. queue'[k] = queue[k] \/ queue'[k] = r \/ queue'[k] = s
  BY <1>1 DEF Post, Tables, n
<1>6. QED
  BY <1>2, <1>4, <1>5, NoneFacts

LEMMA TickLeavesNone ==
    ASSUME QueueInv, Tick, NEW k \in Rows, queue[k] # None
    PROVE  queue'[k] # None
<1>1. queue[k] \in Record
  BY TypeParts DEF QueueInv, Tables
<1> DEFINE w == Max0(queue[k].wait - 1)
           l == IF queue[k].life < 0 THEN queue[k].life ELSE queue[k].life - 1
<1>2. w \in Nat /\ l \in Int
  BY <1>1 DEF Record, Max0
<1>3. queue'[k] = [queue[k] EXCEPT !.wait = w, !.life = l]
  BY DEF Tick
<1> HIDE DEF w, l
<1>4. [queue[k] EXCEPT !.wait = w, !.life = l] \in Record
  BY <1>1, <1>2 DEF Record
<1>5. QED
  BY <1>3, <1>4, NoneFacts

\* Why a row leaves: what happened to it accounts for that, or another row was
\* meant by its id, or an emit trimmed the table.
LEMMA WhyItLeaves ==
    ASSUME QueueInv, [Next]_vars, NEW k \in Rows, Leaves(k)
    PROVE  \/ Settled(queue[k]) \/ queue[k].reused
           \/ \E e \in Emitters : EmitWrite(e) /\ k \notin plan[e].cancel
<1>1. queue \in Tables /\ OuterTypes /\ DrainTypes
  BY TypeParts DEF QueueInv
<1>2. queue[k] # None /\ queue'[k] = None
  BY DEF Leaves
<1>3. SUFFICES ASSUME Own(k)
               PROVE  Settled(queue[k]) \/ \E e \in Emitters : EmitWrite(e) /\ k \notin plan[e].cancel
  BY <1>2 DEF Own
<1>4. Fits(k)
  BY <1>3 DEF QueueInv, HistoryInv
<1>5. CASE \E e \in Emitters : EmitWrite(e)
  <2>1. PICK e \in Emitters : EmitWrite(e)
    BY <1>5
  <2>2. CASE k \notin plan[e].cancel
    BY <2>1, <2>2
  <2>3. CASE k \in plan[e].cancel
    <3>1. plan[e] # None /\ plan'[e] = None
      BY <1>1, <2>1 DEF EmitWrite, OuterTypes
    <3>2. CancelFits(e, k)
      BY <1>4, <2>3, <3>1 DEF Fits
    <3>3. QED
      BY <3>1, <3>2 DEF CancelFits, Settled, Clears
  <2>4. QED
    BY <2>2, <2>3
<1>6. CASE DrainDrop
  <2>1. queue' = [queue EXCEPT ![Row] = None] /\ pc = "row" /\ ~Deliverable(batch[Row])
    BY <1>6 DEF DrainDrop
  <2>2. k = Row
    BY <1>1, <1>2, <2>1 DEF Tables
  <2>3. k \in InBatch /\ batch[k] \in Snapshots
    BY <1>1, <2>1, <2>2, RowInBatch DEF DrainTypes
  <2>4. queue[k].hook = batch[k].hook /\ queue[k].life <= batch[k].life
    BY <1>4, <2>3 DEF Fits, BatchFits
  <2>5. batch[k].hook \notin known \/ ~(batch[k].life >= 0)
    BY <2>1, <2>2 DEF Deliverable
  <2>6. CASE batch[k].hook \notin known
    BY <2>1, <2>4, <2>6 DEF Settled
  <2>7. CASE ~(batch[k].life >= 0)
    <3>1. queue[k].life \in Int /\ batch[k].life \in Int
      BY <1>1, <1>2, <2>3 DEF Tables, Record, Snapshots
    <3>2. queue[k].life < 0
      BY <2>4, <2>7, <3>1
    <3>3. QED
      BY <3>2 DEF Settled
  <2>8. QED
    BY <2>5, <2>6, <2>7
<1>7. CASE DrainRecord
  <2> DEFINE attempts == batch[Row].attempts + 1
  <2>1. /\ pc = "posted"
        /\ queue' = [queue EXCEPT ![Row] =
              IF outcome = "ok" \/ GiveUp(attempts) \/ @ = None THEN None
              ELSE [@ EXCEPT !.attempts = attempts, !.wait = Max0(Backoff - lag)]]
    BY <1>7 DEF DrainRecord
  <2>2. k = Row
    BY <1>1, <1>2, <2>1 DEF Tables
  <2>3. k \in InBatch /\ batch[k] \in Snapshots /\ queue[k] \in Record
    BY <1>1, <1>2, <2>1, <2>2, RowInBatch DEF DrainTypes, Tables
  <2>4. PostFits(k)
    BY <1>4, <2>1, <2>2 DEF Fits
  <2>5. CASE outcome = "ok"
    BY <2>4, <2>5 DEF PostFits, Settled
  <2>6. CASE outcome # "ok"
    <3>1. GiveUp(attempts)
      <4>1. SUFFICES ASSUME ~GiveUp(attempts) PROVE FALSE
        OBVIOUS
      <4>2. attempts \in Nat /\ Max0(Backoff - lag) \in Nat /\ MaxAttempts \in Nat
        BY <1>1, <2>2, <2>3, ConstantsAssumption DEF Snapshots, Max0, DrainTypes, ConstantsAssumption
      <4> HIDE DEF attempts
      <4>3. attempts \in 0 .. MaxAttempts - 1
        BY <4>1, <4>2 DEF GiveUp
      <4>4. [queue[k] EXCEPT !.attempts = attempts, !.wait = Max0(Backoff - lag)] \in Record
        BY <2>3, <4>2, <4>3 DEF Record
      <4>5. queue'[k] = [queue[k] EXCEPT !.attempts = attempts, !.wait = Max0(Backoff - lag)]
        BY <1>1, <1>2, <2>1, <2>2, <2>6, <4>1 DEF Tables
      <4>6. QED
        BY <1>2, <4>4, <4>5, NoneFacts
    <3>2. attempts <= queue[k].fails
      BY <2>2, <2>4, <2>6 DEF PostFits
    <3>3. attempts \in Nat /\ queue[k].fails \in Nat /\ MaxAttempts \in Nat /\ GoneAttempts \in Nat
      BY <2>2, <2>3, ConstantsAssumption DEF Snapshots, Record, ConstantsAssumption
    <3> HIDE DEF attempts
    <3>4. queue[k].fails >= MaxAttempts \/ (outcome = "gone" /\ queue[k].fails >= GoneAttempts)
      BY <3>1, <3>2, <3>3 DEF GiveUp
    <3>5. QED
      BY <3>4 DEF Settled
  <2>7. QED
    BY <2>5, <2>6
<1>8. CASE \E h \in Hooks : Delete(h)
  <2>1. PICK h \in Hooks : Delete(h)
    BY <1>8
  <2>2. queue[k].hook = h
    BY <1>2, <2>1 DEF Delete, Of
  <2>3. hooks'[h] = "deleted"
    BY <1>1, <2>1 DEF Delete, OuterTypes
  <2>4. QED
    BY <2>2, <2>3 DEF Settled
<1>9. CASE Post
  BY <1>2, <1>9, PostLeavesNone
<1>10. CASE Tick
  BY <1>2, <1>10, TickLeavesNone
<1>11. CASE \/ \E e \in Emitters : EmitRead(e) \/ EmitFail(e)
            \/ DrainStart \/ DrainFail \/ CrashRestart \/ UNCHANGED vars
            \/ \E h \in Hooks : Switch(h) \/ Create(h)
  BY <1>2, <1>11 DEF EmitRead, EmitFail, DrainStart, DrainFail, CrashRestart, Switch, Create, vars
<1>12. Edited \subseteq Hooks
  BY ConstantsAssumption DEF ConstantsAssumption
<1>13. QED
  BY <1>5, <1>6, <1>7, <1>8, <1>9, <1>10, <1>11, <1>12 DEF Next, DrainStep

\* A delivery that was not posted, given up, expired, cancelled or deleted with
\* its webhook is lost only to the cap, or because SQLite gave its row an id by
\* which the drain's batch or a cancelling emit still means an earlier row.
THEOREM LostOnlyToReuseAlways == Spec => LostOnlyToReuse
<1> DEFINE Accounted(k) == Leaves(k) => Settled(queue[k]) \/ OverCap \/ queue[k].reused
<1>1. ASSUME QueueInv, [Next]_vars, NEW k \in Rows PROVE Accounted(k)
  <2>1. ASSUME NEW e \in Emitters, EmitWrite(e), k \notin plan[e].cancel, Leaves(k) PROVE OverCap
    BY <1>1, <2>1, EmitFacts DEF QueueInv, Leaves
  <2>2. QED
    BY <1>1, <2>1, WhyItLeaves
<1>2. QueueInv /\ [Next]_vars => [\A k \in Rows : Accounted(k)]_vars
  BY <1>1
<1>3. QED
  BY <1>2, QueueInvariance, PTL DEF Spec, LostOnlyToReuse

\* An emit gives its targets a row each, and no other webhook one.
LEMMA GivenFacts ==
    ASSUME QueueInv, NEW e \in Emitters, EmitWrite(e), NEW h \in Hooks
    PROVE  Given(h) = Gives(e, h)
<1>1. plan \in [Emitters -> Plan \cup {None}]
  BY DEF QueueInv, TypeOK
<1>2. plan[e] # None /\ plan' = [plan EXCEPT ![e] = None]
  BY DEF EmitWrite
<1>3. \A f \in Emitters : (plan[f] # None /\ plan'[f] = None) <=> f = e
  BY <1>1, <1>2
<1> DEFINE S == {f \in Emitters : plan[f] # None /\ plan'[f] = None /\ h \in plan[f].targets}
<1>4. Given(h) = Cardinality(S)
  BY DEF Given
<1>5. CASE h \in plan[e].targets
  <2>1. S = {e}
    BY <1>3, <1>5
  <2>2. QED
    BY <1>4, <1>5, <2>1, FS_Singleton DEF Gives
<1>6. CASE h \notin plan[e].targets
  <2>1. S = {}
    BY <1>3, <1>6
  <2>2. QED
    BY <1>4, <1>6, <2>1, FS_EmptySet DEF Gives
<1>7. QED
  BY <1>5, <1>6

\* The cap takes from the deepest backlog: a noisy webhook cannot push out the
\* deliveries of another.
THEOREM CapSparesOthersAlways == Spec => CapSparesOthers
<1> DEFINE Spared(k) ==
       Leaves(k) =>
          LET h == queue[k].hook IN
          \/ Settled(queue[k]) \/ queue[k].reused
          \/ \A g \in Hooks : Cardinality(Of(queue', g)) <= Cardinality(Of(queue, h)) + Given(h)
<1>1. ASSUME QueueInv, [Next]_vars, NEW k \in Rows PROVE Spared(k)
  <2>1. SUFFICES ASSUME Leaves(k)
                 PROVE  \/ Settled(queue[k]) \/ queue[k].reused
                        \/ \A g \in Hooks : Cardinality(Of(queue', g))
                              <= Cardinality(Of(queue, queue[k].hook)) + Given(queue[k].hook)
    OBVIOUS
  <2>2. SUFFICES ASSUME NEW e \in Emitters, EmitWrite(e), k \notin plan[e].cancel
                 PROVE  \A g \in Hooks : Cardinality(Of(queue', g))
                           <= Cardinality(Of(queue, queue[k].hook)) + Given(queue[k].hook)
    BY <1>1, <2>1, WhyItLeaves
  <2>3. \A g \in Hooks : Cardinality(Of(queue', g))
           <= Cardinality(Of(queue, queue[k].hook)) + Gives(e, queue[k].hook)
    BY <1>1, <2>1, <2>2, EmitFacts DEF QueueInv, Leaves
  <2>4. queue[k].hook \in Hooks
    BY <1>1, <2>1, TypeParts DEF QueueInv, Tables, Record, Leaves
  <2>5. Given(queue[k].hook) = Gives(e, queue[k].hook)
    BY <1>1, <2>2, <2>4, GivenFacts
  <2>6. QED
    BY <2>3, <2>5
<1>2. QueueInv /\ [Next]_vars => [\A k \in Rows : Spared(k)]_vars
  BY <1>1
<1>3. QED
  BY <1>2, QueueInvariance, PTL DEF Spec, CapSparesOthers
==============================================================================

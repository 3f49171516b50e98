-------------------------- MODULE OutageAlertsProofs --------------------------
(***************************************************************************)
(* Proofs about the alerts around a global outage, for any number of       *)
(* alerts, threads and table rows: the tracker's lock, the two clear runs  *)
(* behind a recovery, and the quiet-hours digest, whose rows may be        *)
(* deleted by id because no id in a digest's hands is given out again.     *)
(***************************************************************************)
EXTENDS OutageAlerts, FiniteSetTheorems, WellFoundedInduction, TLAPS

\* The tracker's lock is held from the start of a notice or a recovery to its
\* end; a recovery is that of two clear runs, and while its summary is under
\* way no outage is active.  A thread about to file or forward an alert has it.
ThreadFits(t) ==
    /\ pc[t] \in {"notice", "retire"} => trackerLock = t
    /\ trackerLock = t =>
          /\ pc[t] \in {"notice", "digest", "retire", "check", "send", "mark", "clear"}
          /\ pc[t] # "notice" => alert[t] = None
          /\ pc[t] \in {"digest", "retire"} => clearRuns >= 2
          /\ pc[t] \in {"check", "send", "mark", "clear"} => ~active
    /\ pc[t] \in {"notice", "suppress", "forward"} => alert[t] # None
    /\ pc[t] = "idle" => alert[t] = None

\* The tracker's own count of clear runs is never ahead of the runs.
TrackerInv == (\A t \in Threads : ThreadFits(t)) /\ clear <= clearRuns

\* A digest in hand is of rows no newer than the newest one, so that none of
\* its ids is given out again, and once it was handed over it named all they tell.
FlushInv ==
    /\ flushPc # "idle" =>
          \E m \in Rows : quietRows[m] # {} /\ \A k \in flushBatch : k <= m
    /\ flushPc = "delete" => \A k \in flushBatch : quietRows[k] \subseteq handedOver

\* The table is within its cap.
CapInv == Cardinality(Used(quietRows, {})) <= MaxQuietEvents

OutageInv ==
    TypeOK /\ TrackerInv /\ FlushInv /\ CapInv

-----------------------------------------------------------------------------
(* Tables.                                                                 *)

\* A set of rows has a least one.
LEMMA LeastRow ==
    ASSUME NEW S \in SUBSET Nat, S # {}
    PROVE  \E m \in S : \A k \in S : m <= k
<1>1. \E m \in S : \A k \in S : ~(<<k, m>> \in OpToRel(<, Nat))
  BY WFMin, NatLessThanWellFounded, Zenon
<1>2. PICK m \in S : \A k \in S : ~(<<k, m>> \in OpToRel(<, Nat))
  BY <1>1
<1>3. \A k \in S : ~(k < m)
  BY <1>2 DEF OpToRel
<1>4. QED
  BY <1>3

\* The rows are finitely many.
LEMMA RowSets ==
    ASSUME NEW S \in SUBSET Rows
    PROVE  S \subseteq Nat /\ IsFiniteSet(S) /\ Cardinality(S) \in Nat
<1>1. MaxRow \in Int /\ 1 \in Int /\ Rows = 1 .. MaxRow
  BY ConstantsAssumption DEF ConstantsAssumption, Rows
<1>2. IsFiniteSet(Rows)
  BY <1>1, FS_Interval
<1>3. IsFiniteSet(S)
  BY <1>2, FS_Subset
<1>4. QED
  BY <1>1, <1>3, FS_CardinalityType

\* A table with room has a next id, one more than the largest in use.
LEMMA NextRow ==
    ASSUME NEW U \in SUBSET Rows, MaxRow \notin U
    PROVE  \E k \in Rows : IsNext(U, k)
<1> DEFINE Above == {k \in Rows : \A j \in U : j < k}
<1>1. MaxRow \in Above /\ Above \subseteq Nat
  BY ConstantsAssumption DEF ConstantsAssumption, Rows
<1>2. PICK k \in Above : \A j \in Above : k <= j
  BY <1>1, LeastRow
<1>3. CASE k = 1
  BY <1>2, <1>3 DEF IsNext
<1>4. CASE k # 1
  <2>1. k - 1 \in Rows /\ k - 1 \notin Above
    BY <1>2, <1>4, ConstantsAssumption DEF ConstantsAssumption, Rows
  <2>2. k - 1 \in U
    BY <1>2, <2>1 DEF Rows
  <2>3. k \in Rows /\ k \notin U /\ \A j \in U : j < k
    BY <1>2 DEF Rows
  <2>4. QED
    BY <2>2, <2>3 DEF IsNext
<1>5. QED
  BY <1>3, <1>4

\* What an insert leaves in the table.
LEMMA InsertFacts ==
    ASSUME NEW t, NEW x, NEW empty, NEW cap, HasRoom(t, empty)
    PROVE  \E k \in Rows :
              /\ IsNext(Used(t, empty), k)
              /\ DOMAIN Insert(t, x, empty, cap) = Rows
              /\ Insert(t, x, empty, cap) \in [Rows -> {t[j] : j \in Rows} \cup {x, empty}]
              /\ \A j \in Rows : Insert(t, x, empty, cap)[j] =
                    IF j = k THEN x
                    ELSE IF j \in Newest(Used(t, empty) \cup {k}, cap) THEN t[j] ELSE empty
<1> DEFINE U == Used(t, empty)
           Is(n) == \E k \in Rows :
                       /\ IsNext(U, k)
                       /\ \A j \in Rows : n[j] = IF j = k THEN x
                                                ELSE IF j \in Newest(U \cup {k}, cap) THEN t[j] ELSE empty
           Tables == [Rows -> {t[j] : j \in Rows} \cup {x, empty}]
<1>1. U \in SUBSET Rows /\ MaxRow \notin U
  BY DEF Used, HasRoom
<1>2. PICK k \in Rows : IsNext(U, k)
  BY <1>1, NextRow
<1> DEFINE n == [j \in Rows |-> IF j = k THEN x
                                ELSE IF j \in Newest(U \cup {k}, cap) THEN t[j] ELSE empty]
<1>3. n \in Tables /\ Is(n)
  BY <1>2
<1> HIDE DEF n
<1>4. Insert(t, x, empty, cap) = CHOOSE y \in Tables : Is(y)
  BY DEF Insert
<1> HIDE DEF Is, Tables
<1>5. Insert(t, x, empty, cap) \in Tables /\ Is(Insert(t, x, empty, cap))
  BY <1>3, <1>4
<1>6. QED
  BY <1>5 DEF Is, Tables

\* A table one row over its cap loses its oldest row and no other: a row that
\* goes has cap newer ones that stay.
LEMMA NewestFacts ==
    ASSUME NEW V \in SUBSET Rows, NEW cap \in Nat, Cardinality(V) <= cap + 1
    PROVE  /\ Cardinality(Newest(V, cap)) <= cap
           /\ \A k \in V \ Newest(V, cap) : Cardinality({j \in Newest(V, cap) : j > k}) >= cap
<1> DEFINE N == Newest(V, cap)
           Over(k) == {j \in V : j > k}
<1>1. N \subseteq V /\ \A k \in V : k \in N <=> Cardinality(Over(k)) < cap
  BY DEF Newest
<1>2. \A T \in SUBSET V : IsFiniteSet(T) /\ Cardinality(T) \in Nat /\ T \subseteq Nat
  BY RowSets
<1> HIDE DEF N
<1>3. ASSUME NEW k \in V PROVE IsFiniteSet(V \ {k}) /\ Cardinality(V \ {k}) <= cap
  <2>1. Cardinality(V \ {k}) = Cardinality(V) - 1
    BY <1>2, FS_RemoveElement
  <2>2. Cardinality(V) \in Nat
    BY <1>2
  <2>3. QED
    BY <1>2, <2>1, <2>2
<1>4. Cardinality(N) <= cap
  <2>1. CASE Cardinality(V) <= cap
    <3>1. Cardinality(N) <= Cardinality(V)
      BY <1>1, <1>2, FS_Subset
    <3>2. QED
      BY <1>1, <1>2, <2>1, <3>1
  <2>2. CASE ~(Cardinality(V) <= cap)
    <3>1. V # {}
      BY <2>2, FS_EmptySet
    <3>2. PICK m \in V : \A k \in V : m <= k
      BY <1>2, <3>1, LeastRow
    <3>3. Over(m) = V \ {m}
      BY <1>2, <3>2
    <3>4. Cardinality(V \ {m}) = Cardinality(V) - 1
      BY <1>2, FS_RemoveElement
    <3>5. Cardinality(V) \in Nat
      BY <1>2
    <3>6. m \notin N
      BY <1>1, <2>2, <3>3, <3>4, <3>5
    <3>7. N \subseteq V \ {m}
      BY <1>1, <3>6
    <3>8. Cardinality(N) <= Cardinality(V \ {m})
      BY <1>3, <3>7, FS_Subset
    <3>9. QED
      BY <1>1, <1>2, <1>3, <3>8
  <2>3. QED
    BY <2>1, <2>2
<1>5. ASSUME NEW k \in V \ N PROVE Cardinality({j \in N : j > k}) >= cap
  <2>1. Cardinality(Over(k)) >= cap
    BY <1>1, <1>2
  <2>2. Over(k) \subseteq V \ {k}
    BY <1>2
  <2>3. Cardinality(Over(k)) <= cap
    <3>1. Cardinality(Over(k)) <= Cardinality(V \ {k})
      BY <1>3, <2>2, FS_Subset
    <3>2. QED
      BY <1>2, <1>3, <3>1
  <2>4. ASSUME NEW j \in Over(k) PROVE j \in N
    <3>1. Over(j) \subseteq Over(k) \ {j}
      BY <1>2
    <3>2. Cardinality(Over(k) \ {j}) = Cardinality(Over(k)) - 1 /\ IsFiniteSet(Over(k) \ {j})
      BY <1>2, FS_RemoveElement
    <3>3. Cardinality(Over(j)) <= Cardinality(Over(k) \ {j})
      BY <3>1, <3>2, FS_Subset
    <3>4. Cardinality(Over(j)) \in Nat /\ Cardinality(Over(k)) \in Nat
      BY <1>2
    <3>5. Cardinality(Over(j)) < cap
      BY <2>3, <3>2, <3>3, <3>4
    <3>6. QED
      BY <1>1, <3>5
  <2>5. {j \in N : j > k} = Over(k)
    BY <1>1, <2>4
  <2>6. QED
    BY <2>1, <2>5
<1>6. QED
  BY <1>4, <1>5 DEF N

\* What deferring a message does to the quiet-hours table: the message gets an
\* id above all in use, and what the cap takes goes to the cap.
LEMMA InsertQuietFacts ==
    ASSUME quietRows \in [Rows -> SUBSET Alerts], CapInv,
           NEW S \in SUBSET Alerts, S # {}, InsertQuiet(S)
    PROVE  /\ quietRows' \in [Rows -> SUBSET Alerts]
           /\ CapInv'
           /\ \E n \in Rows :
                 /\ quietRows'[n] = S /\ quietRows[n] = {}
                 /\ \A j \in Rows : quietRows[j] # {} => j < n
                 /\ \A j \in Rows \ {n} : quietRows'[j] \in {quietRows[j], {}}
           /\ \A k \in Rows : quietRows[k] # {} /\ quietRows'[k] # quietRows[k]
                 => FellToCap(quietRows', {}, k, MaxQuietEvents)
<1> DEFINE cap == MaxQuietEvents
           U == Used(quietRows, {})
<1>1. quietRows' = Insert(quietRows, S, {}, cap) /\ HasRoom(quietRows, {})
  BY DEF InsertQuiet
<1>2. PICK n \in Rows :
         /\ IsNext(U, n)
         /\ quietRows' \in [Rows -> {quietRows[j] : j \in Rows} \cup {S, {}}]
         /\ \A j \in Rows : quietRows'[j] =
               IF j = n THEN S ELSE IF j \in Newest(U \cup {n}, cap) THEN quietRows[j] ELSE {}
  BY <1>1, InsertFacts
<1> DEFINE V == U \cup {n}
           N == Newest(V, cap)
<1>3. cap \in Nat /\ cap > 0
  BY ConstantsAssumption DEF ConstantsAssumption
<1>4. U \in SUBSET Rows /\ n \notin U /\ (\A j \in U : j < n)
      /\ \A j \in Rows : j \in U <=> quietRows[j] # {}
  BY <1>2 DEF Used, IsNext
<1>5. V \in SUBSET Rows /\ Cardinality(V) <= cap + 1
  <2>1. IsFiniteSet(U) /\ Cardinality(U) \in Nat
    BY <1>4, RowSets
  <2>2. Cardinality(V) = Cardinality(U) + 1
    BY <1>4, <2>1, FS_AddElement
  <2>3. QED
    BY <1>3, <1>4, <2>1, <2>2 DEF CapInv
<1> HIDE DEF U, cap
<1>6. n \in N
  <2>1. n \in Nat /\ \A j \in U : j \in Nat
    BY <1>4, RowSets
  <2>2. \A j \in V : j = n \/ (j < n /\ j \in Nat)
    BY <1>4, <2>1
  <2>3. {j \in V : j > n} = {}
    BY <2>1, <2>2
  <2>4. QED
    BY <1>3, <2>3, FS_EmptySet DEF Newest
<1>7. N \subseteq V
  BY DEF Newest
<1>8. /\ Cardinality(N) <= cap
      /\ \A k \in V \ N : Cardinality({j \in N : j > k}) >= cap
  BY <1>3, <1>5, NewestFacts
<1> HIDE DEF N
<1>9. \A j \in Rows : quietRows'[j] # {} <=> j \in N
  BY <1>2, <1>4, <1>6, <1>7 DEF N
<1>10. quietRows' \in [Rows -> SUBSET Alerts]
  BY <1>2
<1>11. CapInv'
  <2>1. Used(quietRows, {})' = N
    BY <1>5, <1>7, <1>9 DEF Used
  <2>2. QED
    BY <1>8, <2>1 DEF CapInv, cap
<1>12. ASSUME NEW k \in Rows, quietRows[k] # {}, quietRows'[k] # quietRows[k]
       PROVE  FellToCap(quietRows', {}, k, MaxQuietEvents)
  <2>1. k \in V \ N
    BY <1>2, <1>4, <1>12 DEF N
  <2>2. {j \in Rows : j > k /\ quietRows'[j] # {}} = {j \in N : j > k}
    BY <1>5, <1>7, <1>9
  <2>3. QED
    BY <1>8, <2>1, <2>2 DEF FellToCap, cap
<1>13. /\ quietRows'[n] = S /\ quietRows[n] = {}
       /\ \A j \in Rows : quietRows[j] # {} => j < n
       /\ \A j \in Rows \ {n} : quietRows'[j] \in {quietRows[j], {}}
  BY <1>2, <1>4
<1>14. QED
  BY <1>10, <1>11, <1>12, <1>13

-----------------------------------------------------------------------------
(* Types.                                                                  *)

\* TypeOK but for the lock, which the tracker's invariant speaks of.
ThreadTypes ==
    /\ pc \in [Threads -> ThreadPc] /\ alert \in [Threads -> Alerts \cup {None}]
    /\ key \in [Threads -> Keys]
    /\ batch \in [Threads -> SUBSET Rows] /\ lines \in [Threads -> SUBSET Alerts]

StoreTypes ==
    /\ suppressed \in [Rows -> Alerts \cup {None}]
    /\ quietRows \in [Rows -> SUBSET Alerts]
    /\ told \subseteq Alerts /\ handedOver \subseteq Alerts
    /\ posting \subseteq Alerts /\ posted \subseteq Alerts

StateTypes ==
    /\ active \in BOOLEAN /\ quiet \in BOOLEAN /\ recent \in BOOLEAN
    /\ trackerLock \in Threads \cup {None}
    /\ clear \in 0 .. 2 /\ clearRuns \in 0 .. 2
    /\ flushPc \in {"idle", "send", "delete"} /\ flushBatch \subseteq Rows

LEMMA TypeParts ==
    /\ TypeOK => ThreadTypes /\ StoreTypes /\ StateTypes
    /\ ThreadTypes /\ StoreTypes /\ StateTypes /\ TrackerInv => TypeOK
<1>1. TypeOK => ThreadTypes /\ StoreTypes /\ StateTypes
  BY DEF TypeOK, ThreadTypes, StoreTypes, StateTypes
<1>2. ASSUME ThreadTypes, StoreTypes, StateTypes, TrackerInv PROVE TypeOK
  <2>1. trackerLock # None => pc[trackerLock] # "idle"
    BY <1>2 DEF StateTypes, TrackerInv, ThreadFits
  <2>2. QED
    BY <1>2, <2>1 DEF TypeOK, ThreadTypes, StoreTypes, StateTypes
<1>3. QED
  BY <1>1, <1>2

LEMMA GotoTypes ==
    ASSUME ThreadTypes, NEW t \in Threads, NEW l \in ThreadPc, Goto(t, l)
    PROVE  /\ pc' \in [Threads -> ThreadPc] /\ pc'[t] = l
           /\ \A u \in Threads \ {t} : pc'[u] = pc[u]
  BY DEF ThreadTypes, Goto

LEMMA ReturnTypes ==
    ASSUME ThreadTypes, NEW t \in Threads, Return(t)
    PROVE  /\ ThreadTypes' /\ pc'[t] = "idle" /\ alert'[t] = None
           /\ \A u \in Threads \ {t} : pc'[u] = pc[u] /\ alert'[u] = alert[u]
  BY DEF ThreadTypes, Return, ThreadPc, Keys

\* A thread takes an alert and goes on, ...
LEMMA TakeTypes ==
    ASSUME ThreadTypes, NEW t \in Threads, NEW l \in ThreadPc, NEW a \in Alerts,
           Goto(t, l), alert' = [alert EXCEPT ![t] = a], UNCHANGED <<key, batch, lines>>
    PROVE  /\ ThreadTypes' /\ pc'[t] = l /\ alert'[t] = a
           /\ \A u \in Threads \ {t} : pc'[u] = pc[u] /\ alert'[u] = alert[u]
  BY DEF ThreadTypes, Goto

\* ... or goes on with what it has.
LEMMA GoOnTypes ==
    ASSUME ThreadTypes, NEW t \in Threads, NEW l \in ThreadPc,
           Goto(t, l), UNCHANGED <<alert, key, batch, lines>>
    PROVE  /\ ThreadTypes' /\ pc'[t] = l
           /\ \A u \in Threads : alert'[u] = alert[u]
           /\ \A u \in Threads \ {t} : pc'[u] = pc[u]
  BY DEF ThreadTypes, Goto

LEMMA InsertSuppressedTypes ==
    ASSUME StoreTypes, NEW a \in Alerts, InsertSuppressed(a)
    PROVE  suppressed' \in [Rows -> Alerts \cup {None}]
<1>1. suppressed' = Insert(suppressed, a, None, MaxSuppressedAlerts) /\ HasRoom(suppressed, None)
  BY DEF InsertSuppressed
<1>2. \A j \in Rows : suppressed[j] \in Alerts \cup {None}
  BY DEF StoreTypes
<1>3. PICK k \in Rows :
         /\ IsNext(Used(suppressed, None), k)
         /\ suppressed' \in [Rows -> {suppressed[j] : j \in Rows} \cup {a, None}]
         /\ \A j \in Rows : suppressed'[j] =
               IF j = k THEN a
               ELSE IF j \in Newest(Used(suppressed, None) \cup {k}, MaxSuppressedAlerts) THEN suppressed[j] ELSE None
  BY <1>1, InsertFacts
<1>4. QED
  BY <1>2, <1>3

LEMMA BumpFacts ==
    ASSUME NEW m \in 0 .. 2, NEW n \in 0 .. 2, m <= n
    PROVE  /\ Bump(m) \in 1 .. 2 /\ Bump(m) <= Bump(n)
           /\ m >= 1 => Bump(n) >= 2
  BY DEF Bump

-----------------------------------------------------------------------------
(* Each action preserves the invariant.                                    *)

\* Nothing happens to the quiet-hours table and its digest.
LEMMA FlushKept ==
    ASSUME FlushInv, CapInv, UNCHANGED <<flushPc, flushBatch, handedOver, quietRows>>
    PROVE  FlushInv' /\ CapInv'
  BY DEF FlushInv, CapInv, Used

\* A message is deferred: its row is none of those a digest has in hand.
LEMMA FlushDeferred ==
    ASSUME StoreTypes, StateTypes, FlushInv, CapInv, UNCHANGED <<flushPc, flushBatch, handedOver>>,
           NEW S \in SUBSET Alerts, S # {}, InsertQuiet(S)
    PROVE  FlushInv' /\ CapInv' /\ quietRows' \in [Rows -> SUBSET Alerts]
<1>1. /\ quietRows' \in [Rows -> SUBSET Alerts] /\ CapInv'
      /\ \E n \in Rows :
            /\ quietRows'[n] = S /\ quietRows[n] = {}
            /\ \A j \in Rows : quietRows[j] # {} => j < n
            /\ \A j \in Rows \ {n} : quietRows'[j] \in {quietRows[j], {}}
  BY InsertQuietFacts DEF StoreTypes
<1>2. PICK n \in Rows :
         /\ quietRows'[n] = S /\ quietRows[n] = {}
         /\ \A j \in Rows : quietRows[j] # {} => j < n
         /\ \A j \in Rows \ {n} : quietRows'[j] \in {quietRows[j], {}}
  BY <1>1
<1>3. CASE flushPc # "idle"
  <2>1. PICK m \in Rows : quietRows[m] # {} /\ \A k \in flushBatch : k <= m
    BY <1>3 DEF FlushInv
  <2>2. n \in Nat /\ m \in Nat /\ m < n /\ \A k \in flushBatch : k \in Nat
    BY <1>2, <2>1, RowSets DEF StateTypes
  <2>3. \A k \in flushBatch : k < n
    BY <2>1, <2>2
  <2>4. \A k \in flushBatch : k \in Rows \ {n} /\ quietRows'[k] \subseteq quietRows[k]
    BY <1>2, <2>2, <2>3 DEF StateTypes
  <2>5. QED
    BY <1>1, <1>2, <1>3, <2>2, <2>3, <2>4 DEF FlushInv
<1>4. CASE flushPc = "idle"
  BY <1>1, <1>4 DEF FlushInv
<1>5. QED
  BY <1>3, <1>4

\* The threads that do not move still fit: what a recovery rests on does not
\* change under them.
LEMMA OthersFit ==
    ASSUME TrackerInv, NEW t \in Threads,
           \A u \in Threads \ {t} :
              /\ pc'[u] = pc[u] /\ alert'[u] = alert[u] /\ (trackerLock' = u <=> trackerLock = u)
              /\ trackerLock = u => clearRuns' = clearRuns /\ (active' => active),
           ThreadFits(t)', (clear <= clearRuns)'
    PROVE  TrackerInv'
<1>1. ASSUME NEW u \in Threads, u # t PROVE ThreadFits(u)'
  BY <1>1 DEF TrackerInv, ThreadFits
<1>2. QED
  BY <1>1 DEF TrackerInv

\* The steps of a diagnosing thread inside observe.
LEMMA ObserveKeeps ==
    ASSUME OutageInv, NEW t \in Threads,
           ObserveGlobal(t) \/ EnterNotice(t) \/ ObserveClear(t) \/ Retire(t)
    PROVE  OutageInv'
<1>1. ThreadTypes /\ StoreTypes /\ StateTypes /\ TrackerInv /\ FlushInv /\ CapInv /\ ThreadFits(t)
  BY TypeParts DEF OutageInv, TrackerInv
<1>2. None \notin Threads /\ None \notin Alerts
  BY ConstantsAssumption DEF ConstantsAssumption
<1>3. UNCHANGED <<quietRows, told, handedOver, posting, posted, quiet, recent, flushPc, flushBatch>>
  BY DEF ObserveGlobal, EnterNotice, ObserveClear, Retire, storeVars, outVars, flushVars
<1>4. FlushInv' /\ CapInv'
  BY <1>1, <1>3, FlushKept
<1>5. suppressed' \in [Rows -> Alerts \cup {None}]
  <2>1. CASE EnterNotice(t)
    <3>1. alert[t] \in Alerts
      BY <1>1, <2>1 DEF EnterNotice, ThreadFits, ThreadTypes
    <3>2. QED
      BY <1>1, <2>1, <3>1, InsertSuppressedTypes DEF EnterNotice
  <2>2. CASE ObserveGlobal(t) \/ ObserveClear(t) \/ Retire(t)
    BY <1>1, <2>2 DEF ObserveGlobal, ObserveClear, Retire, storeVars, StoreTypes
  <2>3. QED
    BY <2>1, <2>2
<1>6. StoreTypes'
  BY <1>1, <1>3, <1>5 DEF StoreTypes
<1>7. ThreadTypes' /\ StateTypes' /\ TrackerInv'
  <2>1. CASE ObserveGlobal(t) /\ active
    <3>1. UNCHANGED <<pc, alert, key, batch, lines, active, trackerLock>> /\ clear' = 0 /\ clearRuns' = 0
          /\ trackerLock = None
      BY <2>1 DEF ObserveGlobal, threadVars
    <3>2. \A u \in Threads : ThreadFits(u)'
      BY <1>1, <1>2, <3>1 DEF TrackerInv, ThreadFits
    <3>3. QED
      BY <1>1, <1>3, <3>1, <3>2 DEF ThreadTypes, StateTypes, TrackerInv
  <2>2. CASE ObserveGlobal(t) /\ ~active
    <3>1. PICK a \in Alerts : alert' = [alert EXCEPT ![t] = a]
      BY <2>2 DEF ObserveGlobal, Fresh
    <3>2. /\ Goto(t, "notice") /\ UNCHANGED <<key, batch, lines>>
          /\ trackerLock = None /\ trackerLock' = t /\ active' = TRUE /\ clear' = 0 /\ clearRuns' = 0
      BY <2>2 DEF ObserveGlobal
    <3>3. /\ ThreadTypes' /\ pc'[t] = "notice" /\ alert'[t] = a
          /\ \A u \in Threads \ {t} : pc'[u] = pc[u] /\ alert'[u] = alert[u]
      BY <1>1, <3>1, <3>2, TakeTypes DEF ThreadPc
    <3>4. ThreadFits(t)'
      BY <1>2, <3>2, <3>3 DEF ThreadFits
    <3>5. TrackerInv'
      BY <1>1, <1>2, <3>2, <3>3, <3>4, OthersFit
    <3>6. QED
      BY <1>1, <1>3, <3>2, <3>3, <3>5 DEF StateTypes
  <2>3. CASE EnterNotice(t)
    <3>1. /\ Return(t) /\ trackerLock = t /\ trackerLock' = None
          /\ UNCHANGED <<active, clear, clearRuns>>
      BY <1>1, <2>3 DEF EnterNotice, ThreadFits
    <3>2. /\ ThreadTypes' /\ pc'[t] = "idle" /\ alert'[t] = None
          /\ \A u \in Threads \ {t} : pc'[u] = pc[u] /\ alert'[u] = alert[u]
      BY <1>1, <3>1, ReturnTypes
    <3>3. ThreadFits(t)'
      BY <1>2, <3>1, <3>2 DEF ThreadFits
    <3>4. TrackerInv'
      <4>1. (clear <= clearRuns)'
        BY <1>1, <3>1 DEF TrackerInv
      <4>2. QED
        BY <1>1, <1>2, <3>1, <3>2, <3>3, <4>1, OthersFit
    <3>5. QED
      BY <1>1, <1>3, <3>1, <3>2, <3>4 DEF StateTypes
  <2>4. CASE ObserveClear(t)
    <3>1. /\ trackerLock = None /\ pc[t] = "idle" /\ clearRuns' = Bump(clearRuns)
          /\ clear' = (IF active THEN Bump(clear) ELSE 0) /\ UNCHANGED <<active, alert, key, batch, lines>>
      BY <2>4 DEF ObserveClear
    <3>2. clear \in 0 .. 2 /\ clearRuns \in 0 .. 2 /\ clear <= clearRuns
      BY <1>1 DEF StateTypes, TrackerInv
    <3>3. /\ Bump(clearRuns) \in 0 .. 2 /\ Bump(clear) \in 0 .. 2 /\ Bump(clear) <= Bump(clearRuns)
          /\ clear >= 1 => Bump(clearRuns) >= 2
      BY <3>2, BumpFacts
    <3>4. clear' \in 0 .. 2 /\ clearRuns' \in 0 .. 2 /\ (clear <= clearRuns)'
      BY <3>1, <3>3
    <3>5. CASE active /\ clear >= 1
      <4>1. Goto(t, "digest") /\ trackerLock' = t
        BY <2>4, <3>5 DEF ObserveClear
      <4>2. ThreadTypes' /\ pc'[t] = "digest" /\ \A u \in Threads \ {t} : pc'[u] = pc[u]
        BY <1>1, <3>1, <4>1, GoOnTypes DEF ThreadPc
      <4>3. ThreadFits(t)'
        BY <1>1, <3>1, <3>3, <3>5, <4>1, <4>2 DEF ThreadFits
      <4>4. TrackerInv'
        BY <1>1, <1>2, <3>1, <3>4, <4>1, <4>2, <4>3, OthersFit
      <4>5. QED
        BY <1>1, <1>3, <3>1, <3>4, <4>1, <4>2, <4>4 DEF StateTypes
    <3>6. CASE ~(active /\ clear >= 1)
      <4>1. UNCHANGED <<pc, trackerLock>>
        BY <2>4, <3>6 DEF ObserveClear
      <4>2. \A u \in Threads : ThreadFits(u)'
        BY <1>1, <1>2, <3>1, <4>1 DEF TrackerInv, ThreadFits
      <4>3. QED
        BY <1>1, <1>3, <3>1, <3>4, <4>1, <4>2 DEF ThreadTypes, StateTypes, TrackerInv
    <3>7. QED
      BY <3>5, <3>6
  <2>5. CASE Retire(t)
    <3>1. /\ pc[t] = "retire" /\ trackerLock = t /\ active' = FALSE /\ Goto(t, "check")
          /\ UNCHANGED <<trackerLock, clear, clearRuns, alert, key, batch, lines>>
      BY <1>1, <2>5 DEF Retire, ThreadFits
    <3>2. ThreadTypes' /\ pc'[t] = "check" /\ \A u \in Threads \ {t} : pc'[u] = pc[u]
      BY <1>1, <3>1, GoOnTypes DEF ThreadPc
    <3>3. ThreadFits(t)'
      BY <1>1, <3>1, <3>2 DEF ThreadFits
    <3>4. TrackerInv'
      <4>1. (clear <= clearRuns)'
        BY <1>1, <3>1 DEF TrackerInv
      <4>2. QED
        BY <1>1, <3>1, <3>2, <3>3, <4>1, OthersFit
    <3>5. QED
      BY <1>1, <1>3, <3>1, <3>2, <3>4 DEF StateTypes
  <2>6. QED
    BY <2>1, <2>2, <2>3, <2>4, <2>5
<1>8. TypeOK'
  BY <1>6, <1>7, TypeParts, PTL
<1>9. QED
  BY <1>4, <1>7, <1>8 DEF OutageInv

\* A thread that is not inside observe handles an alert or reports a recovery.
LEMMA HandleKeeps ==
    ASSUME OutageInv, NEW t \in Threads,
           HandleAlert(t) \/ Suppress(t) \/ Forward(t) \/ IncidentRecovery(t)
    PROVE  OutageInv'
<1>1. ThreadTypes /\ StoreTypes /\ StateTypes /\ TrackerInv /\ FlushInv /\ CapInv /\ ThreadFits(t)
  BY TypeParts DEF OutageInv, TrackerInv
<1>2. None \notin Threads /\ None \notin Alerts
  BY ConstantsAssumption DEF ConstantsAssumption
<1>3. UNCHANGED <<handedOver, trackVars, quiet, recent, flushVars>>
  BY DEF HandleAlert, Suppress, Forward, IncidentRecovery, outVars
<1>4. trackerLock # t
  BY <1>1 DEF HandleAlert, Suppress, Forward, IncidentRecovery, ThreadFits
<1>5. StateTypes' /\ (clear <= clearRuns)' /\ trackerLock' = trackerLock /\ active' = active /\ clearRuns' = clearRuns
  BY <1>1, <1>3 DEF StateTypes, TrackerInv, trackVars, flushVars
<1>6. StoreTypes' /\ FlushInv' /\ CapInv'
  <2>1. CASE HandleAlert(t) \/ IncidentRecovery(t)
    <3>1. UNCHANGED <<storeVars, outVars>>
      BY <2>1 DEF HandleAlert, IncidentRecovery
    <3>2. QED
      BY <1>1, <1>3, <3>1, FlushKept DEF StoreTypes, storeVars, outVars, flushVars
  <2>2. CASE Suppress(t)
    <3>1. alert[t] \in Alerts /\ InsertSuppressed(alert[t]) /\ UNCHANGED <<quietRows, outVars>>
      BY <1>1, <2>2 DEF Suppress, ThreadFits, ThreadTypes
    <3>2. suppressed' \in [Rows -> Alerts \cup {None}]
      BY <1>1, <3>1, InsertSuppressedTypes
    <3>3. QED
      BY <1>1, <1>3, <3>1, <3>2, FlushKept DEF StoreTypes, outVars, flushVars
  <2>3. CASE Forward(t)
    <3>1. alert[t] \in Alerts /\ told' = told \cup {alert[t]} /\ UNCHANGED <<suppressed, handedOver>>
      BY <1>1, <2>3 DEF Forward, ThreadFits, ThreadTypes
    <3>2. FlushInv' /\ CapInv' /\ quietRows' \in [Rows -> SUBSET Alerts]
      <4>1. CASE quiet
        <5>1. {alert[t]} \in SUBSET Alerts /\ {alert[t]} # {} /\ InsertQuiet({alert[t]})
          BY <2>3, <3>1, <4>1 DEF Forward
        <5>2. QED
          BY <1>1, <1>3, <5>1, FlushDeferred DEF flushVars
      <4>2. CASE ~quiet
        BY <1>1, <1>3, <2>3, <4>2, FlushKept DEF Forward, StoreTypes, flushVars
      <4>3. QED
        BY <4>1, <4>2
    <3>3. QED
      BY <1>1, <1>3, <3>1, <3>2 DEF StoreTypes, flushVars
  <2>4. QED
    BY <2>1, <2>2, <2>3
<1>7. ThreadTypes' /\ TrackerInv'
  <2>1. CASE HandleAlert(t)
    <3>1. PICK a \in Alerts : alert' = [alert EXCEPT ![t] = a] /\ (Goto(t, "suppress") \/ Goto(t, "forward"))
      BY <2>1 DEF HandleAlert, Fresh
    <3>2. UNCHANGED <<key, batch, lines>>
      BY <2>1 DEF HandleAlert
    <3>3. PICK l \in {"suppress", "forward"} : l \in ThreadPc /\ Goto(t, l)
      BY <3>1 DEF ThreadPc
    <3>4. /\ ThreadTypes' /\ pc'[t] = l /\ alert'[t] = a
          /\ \A u \in Threads \ {t} : pc'[u] = pc[u] /\ alert'[u] = alert[u]
      BY <1>1, <3>1, <3>2, <3>3, TakeTypes
    <3>5. ThreadFits(t)'
      BY <1>2, <1>4, <1>5, <3>4 DEF ThreadFits
    <3>6. QED
      BY <1>1, <1>5, <3>4, <3>5, OthersFit
  <2>2. CASE Suppress(t) \/ (Forward(t) /\ alert[t] \notin UpAlerts)
    <3>1. Return(t)
      BY <2>2 DEF Suppress, Forward
    <3>2. /\ ThreadTypes' /\ pc'[t] = "idle" /\ alert'[t] = None
          /\ \A u \in Threads \ {t} : pc'[u] = pc[u] /\ alert'[u] = alert[u]
      BY <1>1, <3>1, ReturnTypes
    <3>3. ThreadFits(t)'
      BY <1>4, <1>5, <3>2 DEF ThreadFits
    <3>4. QED
      BY <1>1, <1>5, <3>2, <3>3, OthersFit
  <2>3. CASE Forward(t) /\ alert[t] \in UpAlerts
    <3>1. Goto(t, "digest") /\ UNCHANGED <<alert, key, batch, lines>>
      BY <2>3 DEF Forward
    <3>2. ThreadTypes' /\ pc'[t] = "digest" /\ \A u \in Threads \ {t} : pc'[u] = pc[u]
      BY <1>1, <3>1, GoOnTypes DEF ThreadPc
    <3>3. ThreadFits(t)'
      BY <1>4, <1>5, <3>2 DEF ThreadFits
    <3>4. QED
      BY <1>1, <1>5, <3>1, <3>2, <3>3, OthersFit
  <2>4. CASE IncidentRecovery(t)
    <3>1. Goto(t, "digest") /\ key' = [key EXCEPT ![t] = "incident"] /\ UNCHANGED <<alert, batch, lines>>
      BY <2>4 DEF IncidentRecovery
    <3>2. ThreadTypes' /\ pc'[t] = "digest" /\ \A u \in Threads \ {t} : pc'[u] = pc[u]
      BY <1>1, <3>1 DEF ThreadTypes, Goto, ThreadPc, Keys
    <3>3. ThreadFits(t)'
      BY <1>4, <1>5, <3>2 DEF ThreadFits
    <3>4. QED
      BY <1>1, <1>5, <3>1, <3>2, <3>3, OthersFit
  <2>5. QED
    BY <2>1, <2>2, <2>3, <2>4
<1>8. TypeOK'
  BY <1>5, <1>6, <1>7, TypeParts, PTL
<1>9. QED
  BY <1>6, <1>7, <1>8 DEF OutageInv

\* Only an inbound alert's handler gives up at a digest without lines; the
\* tracker always goes on.
LEMMA DigestReturns ==
    ASSUME ThreadTypes, NEW t \in Threads, ThreadFits(t), ReadDigest(t), Return(t)
    PROVE  trackerLock # t
<1>1. pc[t] = "digest" /\ pc'[t] = "idle"
  BY ReturnTypes DEF ReadDigest
<1>2. alert[t] # None
  BY <1>1 DEF ReadDigest, Goto, Handling, Recovering, ThreadTypes
<1>3. QED
  BY <1>1, <1>2 DEF ThreadFits

\* The recovery summary, up to clearing the records.
LEMMA SummaryKeeps ==
    ASSUME OutageInv, NEW t \in Threads,
           ReadDigest(t) \/ CheckDedupe(t) \/ SendSummary(t) \/ MarkSent(t)
    PROVE  OutageInv'
<1>1. ThreadTypes /\ StoreTypes /\ StateTypes /\ TrackerInv /\ FlushInv /\ CapInv /\ ThreadFits(t)
  BY TypeParts DEF OutageInv, TrackerInv
<1>2. UNCHANGED <<handedOver, suppressed, trackVars, quiet, flushVars>>
  BY DEF ReadDigest, CheckDedupe, SendSummary, MarkSent, outVars, storeVars
<1>3. recent' \in BOOLEAN
  BY <1>1 DEF ReadDigest, CheckDedupe, SendSummary, MarkSent, StateTypes
<1>4. StateTypes' /\ (clear <= clearRuns)' /\ trackerLock' = trackerLock /\ active' = active /\ clearRuns' = clearRuns
  BY <1>1, <1>2, <1>3 DEF StateTypes, TrackerInv, trackVars, flushVars
<1>5. StoreTypes' /\ FlushInv' /\ CapInv'
  <2>1. CASE ~(SendSummary(t) /\ quiet /\ lines[t] # {})
    <3>1. UNCHANGED quietRows /\ told' \subseteq Alerts
      BY <1>1, <2>1 DEF ReadDigest, CheckDedupe, SendSummary, MarkSent, outVars, storeVars, StoreTypes, ThreadTypes
    <3>2. QED
      BY <1>1, <1>2, <3>1, FlushKept DEF StoreTypes, flushVars
  <2>2. CASE SendSummary(t) /\ quiet /\ lines[t] # {}
    <3>1. lines[t] \in SUBSET Alerts /\ InsertQuiet(lines[t]) /\ told' \subseteq Alerts
      BY <1>1, <2>2 DEF SendSummary, ThreadTypes, StoreTypes
    <3>2. FlushInv' /\ CapInv' /\ quietRows' \in [Rows -> SUBSET Alerts]
      BY <1>1, <1>2, <2>2, <3>1, FlushDeferred DEF flushVars
    <3>3. QED
      BY <1>1, <1>2, <3>1, <3>2 DEF StoreTypes, flushVars
  <2>3. QED
    BY <2>1, <2>2
<1>6. ThreadTypes' /\ TrackerInv'
  <2>1. CASE ReadDigest(t) /\ Return(t)
    <3>1. trackerLock # t
      BY <1>1, <2>1, DigestReturns
    <3>2. /\ ThreadTypes' /\ pc'[t] = "idle" /\ alert'[t] = None
          /\ \A u \in Threads \ {t} : pc'[u] = pc[u] /\ alert'[u] = alert[u]
      BY <1>1, <2>1, ReturnTypes
    <3>3. ThreadFits(t)'
      BY <1>4, <3>1, <3>2 DEF ThreadFits
    <3>4. QED
      BY <1>1, <1>4, <3>2, <3>3, OthersFit
  <2>2. CASE ReadDigest(t) /\ ~Return(t)
    <3>1. PICK l \in {"retire", "check"} : Goto(t, l) /\ (l = "retire" <=> trackerLock = t)
      BY <2>2 DEF ReadDigest, Recovering
    <3>2. /\ UNCHANGED <<alert, key>> /\ pc[t] = "digest"
          /\ \E S \in SUBSET Rows : batch' = [batch EXCEPT ![t] = S]
          /\ \E L \in SUBSET Alerts : lines' = [lines EXCEPT ![t] = L]
      BY <1>1, <2>2 DEF ReadDigest, Used, StoreTypes
    <3>3. ThreadTypes' /\ pc'[t] = l /\ \A u \in Threads \ {t} : pc'[u] = pc[u]
      BY <1>1, <3>1, <3>2 DEF ThreadTypes, Goto, ThreadPc
    <3>4. ThreadFits(t)'
      BY <1>1, <1>4, <3>1, <3>2, <3>3 DEF ThreadFits
    <3>5. QED
      BY <1>1, <1>4, <3>2, <3>3, <3>4, OthersFit
  <2>3. CASE CheckDedupe(t) \/ SendSummary(t) \/ MarkSent(t)
    <3>1. /\ pc[t] \in {"check", "send", "mark"} /\ UNCHANGED <<alert, key, batch, lines>>
          /\ \E l \in {"clear", "send", "mark"} : Goto(t, l)
      BY <2>3 DEF CheckDedupe, SendSummary, MarkSent
    <3>2. PICK l \in {"clear", "send", "mark"} : Goto(t, l)
      BY <3>1
    <3>3. ThreadTypes' /\ pc'[t] = l /\ \A u \in Threads \ {t} : pc'[u] = pc[u]
      BY <1>1, <3>1, <3>2, GoOnTypes DEF ThreadPc
    <3>4. ThreadFits(t)'
      BY <1>1, <1>4, <3>1, <3>2, <3>3 DEF ThreadFits
    <3>5. QED
      BY <1>1, <1>4, <3>1, <3>3, <3>4, OthersFit
  <2>4. QED
    BY <2>1, <2>2, <2>3
<1>7. TypeOK'
  BY <1>4, <1>5, <1>6, TypeParts, PTL
<1>8. QED
  BY <1>5, <1>6, <1>7 DEF OutageInv

\* A thread's work ends: the records of its digest are cleared, or a
\* statement raised.
LEMMA EndKeeps ==
    ASSUME OutageInv, NEW t \in Threads, ClearSuppressed(t) \/ ThreadFail(t)
    PROVE  OutageInv'
<1>1. ThreadTypes /\ StoreTypes /\ StateTypes /\ TrackerInv /\ FlushInv /\ CapInv /\ ThreadFits(t)
  BY TypeParts DEF OutageInv, TrackerInv
<1>2. None \notin Threads /\ None \notin Alerts
  BY ConstantsAssumption DEF ConstantsAssumption
<1>3. /\ Return(t)
      /\ UNCHANGED <<quietRows, told, handedOver, active, clearRuns, quiet, recent, flushPc, flushBatch>>
      /\ UNCHANGED <<posting, posted>>
  BY DEF ClearSuppressed, ThreadFail, storeVars, outVars, flushVars
<1>4. FlushInv' /\ CapInv'
  BY <1>1, <1>3, FlushKept
<1>5. suppressed' \in [Rows -> Alerts \cup {None}]
  BY <1>1 DEF ClearSuppressed, ThreadFail, storeVars, StoreTypes
<1>6. StoreTypes'
  BY <1>1, <1>3, <1>5 DEF StoreTypes
<1>7. trackerLock' = (IF trackerLock = t THEN None ELSE trackerLock) /\ clear' \in {0, clear}
  BY DEF ClearSuppressed, ThreadFail, Recovering
<1>8. StateTypes' /\ (clear <= clearRuns)'
  BY <1>1, <1>3, <1>7 DEF StateTypes, TrackerInv
<1>9. /\ ThreadTypes' /\ pc'[t] = "idle" /\ alert'[t] = None
      /\ \A u \in Threads \ {t} : pc'[u] = pc[u] /\ alert'[u] = alert[u]
  BY <1>1, <1>3, ReturnTypes
<1>10. ThreadFits(t)'
  BY <1>2, <1>7, <1>9 DEF ThreadFits
<1>11. TrackerInv'
  BY <1>1, <1>2, <1>3, <1>7, <1>8, <1>9, <1>10, OthersFit
<1>12. TypeOK'
  BY <1>6, <1>8, <1>9, <1>11, TypeParts, PTL
<1>13. QED
  BY <1>4, <1>11, <1>12 DEF OutageInv

\* A set of rows has a greatest one.
LEMMA GreatestRow ==
    ASSUME NEW S \in SUBSET Rows, S # {}
    PROVE  \E m \in S : \A k \in S : k <= m
<1> DEFINE Bounds == {k \in Rows : \A j \in S : j <= k}
<1>1. MaxRow \in Bounds /\ Bounds \subseteq Nat
  BY ConstantsAssumption DEF ConstantsAssumption, Rows
<1>2. PICK m \in Bounds : \A k \in Bounds : m <= k
  BY <1>1, LeastRow
<1>3. m \in S
  <2>1. SUFFICES ASSUME m \notin S PROVE FALSE
    OBVIOUS
  <2>2. PICK s \in S : s < m
    <3>1. PICK s \in S : s <= m /\ s # m
      BY <1>2, <2>1
    <3>2. s \in Nat /\ m \in Nat
      BY <1>1, <1>2, RowSets
    <3>3. QED
      BY <3>1, <3>2
  <2>3. m - 1 \in Rows
    BY <1>2, <2>2, ConstantsAssumption DEF ConstantsAssumption, Rows
  <2>4. \A j \in S : j <= m - 1
    BY <1>2, <2>1 DEF Rows
  <2>5. m - 1 \in Bounds
    BY <2>3, <2>4
  <2>6. QED
    BY <1>2, <2>5 DEF Rows
<1>4. QED
  BY <1>2, <1>3

\* The threads stand still.
LEMMA TrackerKept ==
    ASSUME ThreadTypes, TrackerInv, UNCHANGED <<pc, alert, key, batch, lines>>, UNCHANGED trackVars
    PROVE  ThreadTypes' /\ TrackerInv'
  BY DEF ThreadTypes, TrackerInv, ThreadFits, trackVars

\* The quiet-hours scheduler.
LEMMA FlushKeeps ==
    ASSUME OutageInv, FlushRead \/ FlushSend \/ FlushDelete \/ FlushFail \/ PostDigest \/ PostLost
    PROVE  OutageInv'
<1>1. ThreadTypes /\ StoreTypes /\ StateTypes /\ TrackerInv /\ FlushInv /\ CapInv
  BY TypeParts DEF OutageInv
<1>2. UNCHANGED <<pc, alert, key, batch, lines>> /\ UNCHANGED trackVars
      /\ UNCHANGED <<suppressed, told, quiet, recent, active, trackerLock, clear, clearRuns>>
  BY DEF FlushRead, FlushSend, FlushDelete, FlushFail, PostDigest, PostLost, threadVars, trackVars, storeVars, outVars
<1>3. ThreadTypes' /\ TrackerInv'
  BY <1>1, <1>2, TrackerKept
<1>4. Used(quietRows, {}) \in SUBSET Rows
  BY DEF Used
<1>5. StoreTypes' /\ StateTypes' /\ FlushInv' /\ CapInv'
  <2>1. CASE FlushRead
    <3>1. /\ flushBatch' = Used(quietRows, {}) /\ flushPc' = "send" /\ Used(quietRows, {}) # {}
          /\ UNCHANGED <<quietRows, handedOver, posting, posted>>
      BY <2>1 DEF FlushRead, storeVars, outVars
    <3>2. PICK m \in Used(quietRows, {}) : \A k \in Used(quietRows, {}) : k <= m
      BY <1>4, <3>1, GreatestRow
    <3>3. m \in Rows /\ quietRows[m] # {}
      BY DEF Used
    <3>4. FlushInv'
      BY <3>1, <3>2, <3>3 DEF FlushInv
    <3>5. CapInv'
      BY <1>1, <3>1 DEF CapInv, Used
    <3>6. QED
      BY <1>1, <1>2, <1>4, <3>1, <3>4, <3>5 DEF StoreTypes, StateTypes
  <2>2. CASE FlushSend
    <3>1. /\ flushPc = "send" /\ flushPc' = "delete" /\ UNCHANGED <<quietRows, flushBatch>>
          /\ handedOver' = UNION {quietRows[k] : k \in flushBatch}
          /\ posting' = posting \cup handedOver' /\ UNCHANGED posted
      BY <2>2 DEF FlushSend, FlushDigest, storeVars
    <3>2. handedOver' \subseteq Alerts /\ \A k \in flushBatch : quietRows[k] \subseteq handedOver'
      BY <1>1, <3>1 DEF StoreTypes, StateTypes
    <3>3. FlushInv'
      BY <1>1, <3>1, <3>2 DEF FlushInv
    <3>4. CapInv'
      BY <1>1, <3>1 DEF CapInv, Used
    <3>5. QED
      BY <1>1, <1>2, <3>1, <3>2, <3>3, <3>4 DEF StoreTypes, StateTypes
  <2>3. CASE FlushDelete \/ FlushFail
    <3>0. FlushDigest \subseteq Alerts
      BY <1>1 DEF FlushDigest, StoreTypes, StateTypes
    <3>1. /\ flushPc' = "idle" /\ flushBatch' = {} /\ UNCHANGED <<handedOver, posted>>
          /\ quietRows' \in [Rows -> SUBSET Alerts]
          /\ \A k \in Rows : quietRows'[k] \in {quietRows[k], {}}
          /\ posting' \subseteq Alerts
      BY <1>1, <2>3, <3>0 DEF FlushDelete, FlushFail, storeVars, outVars, StoreTypes
    <3>2. FlushInv'
      BY <3>1 DEF FlushInv
    <3>3. CapInv'
      <4>1. Used(quietRows, {})' \subseteq Used(quietRows, {})
        BY <3>1 DEF Used
      <4>2. IsFiniteSet(Used(quietRows, {})) /\ Cardinality(Used(quietRows, {})) \in Nat
        BY <1>4, RowSets
      <4>3. /\ Cardinality(Used(quietRows, {})') <= Cardinality(Used(quietRows, {}))
            /\ Cardinality(Used(quietRows, {})') \in Nat
        <5>1. Used(quietRows, {})' \in SUBSET Rows
          BY <1>4, <4>1
        <5>2. QED
          BY <4>1, <4>2, <5>1, FS_Subset, RowSets
      <4>4. QED
        BY <1>1, <4>2, <4>3, ConstantsAssumption DEF CapInv, ConstantsAssumption
    <3>4. QED
      BY <1>1, <1>2, <3>1, <3>2, <3>3 DEF StoreTypes, StateTypes
  <2>4. CASE PostDigest \/ PostLost
    <3>1. /\ UNCHANGED <<quietRows, handedOver, flushPc, flushBatch>>
          /\ posting' = {} /\ posted' \subseteq posted \cup posting
      BY <2>4 DEF PostDigest, PostLost, storeVars, outVars
    <3>2. QED
      BY <1>1, <1>2, <3>1, FlushKept DEF StoreTypes, StateTypes
  <2>5. QED
    BY <2>1, <2>2, <2>3, <2>4
<1>6. TypeOK'
  BY <1>3, <1>5, TypeParts, PTL
<1>7. QED
  BY <1>3, <1>5, <1>6 DEF OutageInv

\* The clock, a restart, and no step at all.
LEMMA ProcessKeeps ==
    ASSUME OutageInv, QuietHours \/ DedupeExpires \/ CrashRestart \/ UNCHANGED vars
    PROVE  OutageInv'
<1>1. ThreadTypes /\ StoreTypes /\ StateTypes /\ TrackerInv /\ FlushInv /\ CapInv
  BY TypeParts DEF OutageInv
<1>2. /\ UNCHANGED <<suppressed, quietRows, told, handedOver, active, posted>>
      /\ posting' \in {posting, {}}
  BY DEF QuietHours, DedupeExpires, CrashRestart, FreshProcess, storeVars, outVars, trackVars, flushVars, vars
<1>3. StoreTypes' /\ CapInv'
  BY <1>1, <1>2 DEF StoreTypes, CapInv, Used
<1>4. CASE CrashRestart
  <2>1. FreshProcess /\ UNCHANGED quiet
    BY <1>4 DEF CrashRestart
  <2>2. ThreadTypes'
    <3>1. pc' \in [Threads -> ThreadPc] /\ key' \in [Threads -> Keys]
      BY <2>1 DEF FreshProcess, ThreadPc, Keys
    <3>2. alert' \in [Threads -> Alerts \cup {None}] /\ batch' \in [Threads -> SUBSET Rows]
      BY <2>1 DEF FreshProcess
    <3>3. lines' \in [Threads -> SUBSET Alerts]
      BY <2>1 DEF FreshProcess
    <3>4. QED
      BY <3>1, <3>2, <3>3 DEF ThreadTypes
  <2>3. StateTypes'
    <3>1. clear' \in 0 .. 2 /\ clearRuns' \in 0 .. 2
      BY <2>1 DEF FreshProcess
    <3>2. active' \in BOOLEAN /\ quiet' \in BOOLEAN /\ recent' \in BOOLEAN
      BY <1>1, <1>2, <2>1, Zenon DEF FreshProcess, StateTypes
    <3>3. trackerLock' = None /\ flushPc' = "idle" /\ flushBatch' = {}
      BY <2>1 DEF FreshProcess
    <3>4. QED
      BY <3>1, <3>2, <3>3 DEF StateTypes
  <2>4. \A t \in Threads : pc'[t] = "idle" /\ trackerLock' # t /\ alert'[t] = None
    BY <2>1, ConstantsAssumption DEF FreshProcess, ConstantsAssumption
  <2>5. TrackerInv'
    BY <2>1, <2>4 DEF FreshProcess, TrackerInv, ThreadFits
  <2>6. FlushInv'
    BY <2>1 DEF FreshProcess, FlushInv
  <2>7. TypeOK'
    BY <1>3, <2>2, <2>3, <2>5, TypeParts, PTL
  <2>8. QED
    BY <1>3, <2>5, <2>6, <2>7 DEF OutageInv
<1>5. CASE QuietHours \/ DedupeExpires \/ UNCHANGED vars
  <2>1. UNCHANGED <<pc, alert, key, batch, lines>> /\ UNCHANGED trackVars /\ UNCHANGED <<flushPc, flushBatch>>
        /\ quiet' \in BOOLEAN /\ recent' \in BOOLEAN
    BY <1>1, <1>5 DEF QuietHours, DedupeExpires, vars, threadVars, flushVars, StateTypes
  <2>2. ThreadTypes' /\ TrackerInv'
    BY <1>1, <2>1, TrackerKept
  <2>3. StateTypes'
    BY <1>1, <2>1 DEF StateTypes, trackVars
  <2>4. FlushInv'
    BY <1>1, <1>2, <2>1, FlushKept
  <2>5. TypeOK'
    BY <1>3, <2>2, <2>3, TypeParts, PTL
  <2>6. QED
    BY <1>3, <2>2, <2>4, <2>5 DEF OutageInv
<1>6. QED
  BY <1>4, <1>5

-----------------------------------------------------------------------------
(* The results.                                                            *)

LEMMA OutageInit == Init => OutageInv
<1>1. SUFFICES ASSUME Init PROVE OutageInv
  OBVIOUS
<1>2. None \notin Threads /\ MaxQuietEvents \in Nat
  BY ConstantsAssumption DEF ConstantsAssumption
<1>3. ThreadTypes /\ StoreTypes /\ StateTypes
  <2>1. pc \in [Threads -> ThreadPc] /\ key \in [Threads -> Keys]
    BY <1>1 DEF Init, ThreadPc, Keys
  <2>2. alert \in [Threads -> Alerts \cup {None}] /\ batch \in [Threads -> SUBSET Rows]
    BY <1>1 DEF Init
  <2>3. lines \in [Threads -> SUBSET Alerts]
    BY <1>1 DEF Init
  <2>4. StoreTypes
    BY <1>1 DEF Init, StoreTypes
  <2>5. StateTypes
    <3>1. clear \in 0 .. 2 /\ clearRuns \in 0 .. 2
      BY <1>1 DEF Init
    <3>2. active \in BOOLEAN /\ quiet \in BOOLEAN /\ recent \in BOOLEAN
      BY <1>1, Zenon DEF Init
    <3>3. trackerLock = None /\ flushPc = "idle" /\ flushBatch = {}
      BY <1>1 DEF Init
    <3>4. QED
      BY <3>1, <3>2, <3>3 DEF StateTypes
  <2>6. QED
    BY <2>1, <2>2, <2>3, <2>4, <2>5 DEF ThreadTypes
<1>4. TrackerInv
  BY <1>1, <1>2 DEF Init, TrackerInv, ThreadFits
<1>5. FlushInv
  BY <1>1 DEF Init, FlushInv
<1>6. CapInv
  <2>1. Used(quietRows, {}) = {}
    BY <1>1 DEF Init, Used
  <2>2. QED
    BY <1>2, <2>1, FS_EmptySet DEF CapInv
<1>7. QED
  BY <1>3, <1>4, <1>5, <1>6, TypeParts DEF OutageInv

LEMMA OutageNext == OutageInv /\ [Next]_vars => OutageInv'
<1>1. ASSUME OutageInv, NEW t \in Threads, ThreadStep(t) PROVE OutageInv'
  BY <1>1, ObserveKeeps, HandleKeeps, SummaryKeeps, EndKeeps DEF ThreadStep
<1>2. ASSUME OutageInv,
             FlushRead \/ FlushSend \/ FlushDelete \/ FlushFail \/ PostDigest \/ PostLost \/ QuietHours
             \/ DedupeExpires \/ CrashRestart \/ UNCHANGED vars
      PROVE  OutageInv'
  BY <1>2, FlushKeeps, ProcessKeeps
<1>3. QED
  BY <1>1, <1>2 DEF Next

\* The inductive invariant holds of every reachable state.
THEOREM OutageInvariance == Spec => []OutageInv
  BY OutageInit, OutageNext, PTL DEF Spec

\* Types, and the tracker's lock is held only by a thread inside observe.
THEOREM AlertsTypeCorrect == Spec => []TypeOK
<1>1. OutageInv => TypeOK
  BY DEF OutageInv
<1>2. QED
  BY <1>1, OutageInvariance, PTL

\* OutageTracker._recover notifies and clears its records under the lock with
\* the outage ended, so that none begins and is then wiped with the old one.
THEOREM SummaryAfterRecoveryAlways == Spec => []SummaryAfterRecovery
<1>1. OutageInv => SummaryAfterRecovery
  BY DEF OutageInv, TrackerInv, ThreadFits, SummaryAfterRecovery, Recovering
<1>2. QED
  BY <1>1, OutageInvariance, PTL

\* An outage ends only after two observed runs in a row without a global
\* fault, whatever number of threads diagnose at once: only Retire ends it,
\* in the hands of the thread that holds the lock since the second.
THEOREM RecoveryNeedsTwoClearsAlways == Spec => RecoveryNeedsTwoClears
<1>1. ASSUME OutageInv, [Next]_vars, active, ~active' PROVE clearRuns >= 2
  <2>1. PICK t \in Threads : Retire(t)
    <3>1. ASSUME NEW t \in Threads, ThreadStep(t) PROVE Retire(t)
      BY <1>1, <3>1 DEF ThreadStep, ObserveGlobal, EnterNotice, ObserveClear, HandleAlert, Suppress,
         Forward, IncidentRecovery, ReadDigest, CheckDedupe, SendSummary, MarkSent, ClearSuppressed,
         ThreadFail, trackVars
    <3>2. QED
      BY <1>1, <3>1 DEF Next, FlushRead, FlushSend, FlushDelete, FlushFail, PostDigest, PostLost, QuietHours, DedupeExpires,
         CrashRestart, trackVars, vars
  <2>2. ThreadFits(t) /\ pc[t] = "retire"
    BY <1>1, <2>1 DEF OutageInv, TrackerInv, Retire
  <2>3. QED
    BY <2>2 DEF ThreadFits
<1>2. OutageInv /\ [Next]_vars => [active /\ ~active' => clearRuns >= 2]_vars
  BY <1>1
<1>3. QED
  BY <1>2, OutageInvariance, PTL DEF Spec, RecoveryNeedsTwoClears

\* What quiet hours deferred goes only after a digest that counts it was
\* dispatched, or to the table's cap, for any number of rows and events.
DeferredKept ==
    \A k \in Rows : quietRows[k] # {} /\ quietRows'[k] # quietRows[k]
       => quietRows[k] \subseteq handedOver \/ FellToCap(quietRows', {}, k, MaxQuietEvents)

THEOREM DeferredIsHandedOverAlways == Spec => DeferredIsHandedOver
<1>1. ASSUME OutageInv, [Next]_vars PROVE DeferredKept
  <2>1. quietRows \in [Rows -> SUBSET Alerts] /\ CapInv /\ FlushInv
    BY <1>1 DEF OutageInv, TypeOK
  <2>2. ASSUME NEW S \in SUBSET Alerts, S # {}, InsertQuiet(S) PROVE DeferredKept
    BY <2>1, <2>2, InsertQuietFacts DEF DeferredKept
  <2>3. CASE UNCHANGED quietRows
    BY <2>3 DEF DeferredKept
  <2>4. CASE FlushDelete
    <3>1. /\ \A k \in flushBatch : quietRows[k] \subseteq handedOver
          /\ \A k \in Rows \ flushBatch : quietRows'[k] = quietRows[k]
      BY <2>1, <2>4 DEF FlushDelete, FlushInv
    <3>2. QED
      BY <3>1 DEF DeferredKept
  <2>5. ASSUME NEW t \in Threads, ThreadStep(t), ~UNCHANGED quietRows PROVE DeferredKept
    <3>1. Forward(t) \/ SendSummary(t)
      BY <2>5 DEF ThreadStep, ObserveGlobal, EnterNotice, ObserveClear, Retire, HandleAlert, Suppress,
         IncidentRecovery, ReadDigest, CheckDedupe, MarkSent, ClearSuppressed, ThreadFail, storeVars
    <3>2. CASE Forward(t)
      <4>1. InsertQuiet({alert[t]}) /\ pc[t] = "forward"
        BY <2>5, <3>2 DEF Forward
      <4>2. alert[t] \in Alerts
        BY <1>1, <4>1 DEF OutageInv, TrackerInv, ThreadFits, TypeOK
      <4>3. QED
        BY <2>2, <4>1, <4>2
    <3>3. CASE SendSummary(t)
      <4>1. InsertQuiet(lines[t]) /\ lines[t] # {}
        BY <2>5, <3>3 DEF SendSummary
      <4>2. lines[t] \in SUBSET Alerts
        BY <1>1 DEF OutageInv, TypeOK
      <4>3. QED
        BY <2>2, <4>1, <4>2
    <3>4. QED
      BY <3>1, <3>2, <3>3
  <2>6. QED
    BY <1>1, <2>3, <2>4, <2>5 DEF Next, FlushRead, FlushSend, FlushFail, PostDigest, PostLost, QuietHours, DedupeExpires,
       CrashRestart, storeVars, vars
<1>2. OutageInv /\ [Next]_vars => [DeferredKept]_vars
  BY <1>1
<1>3. QED
  BY <1>2, OutageInvariance, PTL DEF Spec, DeferredIsHandedOver, DeferredKept
==============================================================================

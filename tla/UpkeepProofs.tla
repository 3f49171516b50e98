----------------------------- MODULE UpkeepProofs -----------------------------
(***************************************************************************)
(* Proofs about the parts of the program that share nothing they change    *)
(* with each other: the restore, the sharing of the ladder's result, the   *)
(* ladder itself and the load test.  Each has an inductive invariant of    *)
(* its own.                                                                *)
(***************************************************************************)
EXTENDS UpkeepMC, FiniteSetTheorems, SequenceTheorems, TLAPS

-----------------------------------------------------------------------------
(***************************************************************************)
(* Proofs about backup and restore, for any records and any number of      *)
(* restores, failures and crashes: the path never holds a mix of two       *)
(* databases, a database moved aside is never lost, and a restore that     *)
(* ends has done all of its work or none of it.                            *)
(***************************************************************************)

Databases == SUBSET Records

\* The steps after the previous database was moved aside.
Late == {"sidecars", "swap", "settings", "rollback", "putback"}

\* Types, also of the history.  The server is never up during a restore, nor
\* after one that died until it is started again, and never without a
\* database; a restore that is still going on has no outcome yet and has not
\* touched the settings.
RestoreTypeInv ==
    /\ RestoreTypeOK
    /\ before \in [file : Databases \cup {NoFile}, log : Databases, conf : [Settings -> {0, 1}]]
    /\ unfolded \in BOOLEAN /\ owed \in SUBSET Databases
    /\ outcome \in {"none", "refused", "restored", "failed", "died"}
    /\ step # "idle" => ~server /\ archive # NoFile /\ conf = before.conf /\ outcome = "none"
    /\ outcome = "died" => ~server
    /\ server => main # NoFile
    /\ step \in {"fold", "aside"} => Len(kept) < MaxKept

\* What is at the path at each step of a restore.
PathInv ==
    /\ step = "fold" => main = before.file /\ wal = before.log /\ unfolded = FALSE
    /\ step = "aside" =>
          /\ \/ main = before.file /\ wal = before.log
             \/ ~unfolded /\ before.file # NoFile /\ main = Previous /\ wal = {}
          /\ ~unfolded /\ before.file # NoFile => main = Previous
    /\ step \in {"sidecars", "swap", "putback"} => main = NoFile
    /\ step = "sidecars" /\ before.file = NoFile => wal = before.log
    /\ step \in {"swap", "settings", "rollback"} /\ ~Stray => wal = {}
    /\ step = "putback" => wal = {}
    /\ step \in {"settings", "rollback"} => main = archive.db

\* Where the previous databases are: the main file counts only while nothing
\* is about to delete it.  The newest copy is all that was committed, or the
\* main file alone if its log could not be folded in.
KeptInv ==
    /\ \A db \in owed : \E f \in Aside \cup {main} : f # NoFile /\ db \subseteq f
    /\ step \in Late =>
          /\ \A db \in owed : \E f \in Aside : db \subseteq f
          /\ before.file # NoFile =>
                kept # <<>> /\ Last(kept) = IF unfolded THEN before.file ELSE Previous

RestoreInv == RestoreTypeInv /\ PathInv /\ KeptInv /\ NeverMixed

-----------------------------------------------------------------------------
(* The preserved copies.                                                   *)

LEMMA MovedAside ==
    ASSUME NEW s \in Seq(Databases), NEW d \in Databases
    PROVE  /\ Append(s, d) \in Seq(Databases) /\ Len(Append(s, d)) = Len(s) + 1
           /\ Append(s, d) # <<>> /\ Last(Append(s, d)) = d
           /\ ToSet(Append(s, d)) = ToSet(s) \cup {d}
  BY DEF ToSet, Last

LEMMA PutBackCopy ==
    ASSUME NEW s \in Seq(Databases), s # <<>>
    PROVE  /\ Front(s) \in Seq(Databases) /\ Len(Front(s)) = Len(s) - 1
           /\ Last(s) \in Databases
           /\ ToSet(s) = ToSet(Front(s)) \cup {Last(s)}
<1>1. Len(s) \in Nat /\ Len(s) > 0
  BY EmptySeq
<1>2. /\ Front(s) \in Seq(Databases) /\ Len(Front(s)) = Len(s) - 1
      /\ \A i \in 1..(Len(s) - 1) : Front(s)[i] = s[i]
  <2> DEFINE n == Len(s) - 1
  <2>1. n \in Nat /\ \A i \in 1..n : s[i] \in Databases
    BY <1>1
  <2> HIDE DEF n
  <2>2. /\ SubSeq(s, 1, n) \in Seq(Databases)
        /\ Len(SubSeq(s, 1, n)) = (IF 1 <= n THEN n - 1 + 1 ELSE 0)
        /\ \A i \in 1..(n - 1 + 1) : SubSeq(s, 1, n)[i] = s[1 + i - 1]
    BY <2>1, SubSeqProperties, Z3
  <2>3. Len(SubSeq(s, 1, n)) = n /\ \A i \in 1..n : SubSeq(s, 1, n)[i] = s[i]
    <3>1. n - 1 + 1 = n /\ \A i \in 1..n : 1 + i - 1 = i
      BY <2>1
    <3>2. QED
      BY <2>1, <2>2, <3>1
  <2>4. Front(s) = SubSeq(s, 1, n)
    BY DEF Front, n
  <2>5. QED
    BY <2>2, <2>3, <2>4 DEF n
<1>3. QED
  BY <1>1, <1>2 DEF ToSet, Last

USE RestoreAssumption DEF RestoreAssumption, Databases

-----------------------------------------------------------------------------
(* The server and backups.                                                 *)

LEMMA RestoreInitHolds == RestoreInit => RestoreInv
<1> SUFFICES ASSUME RestoreInit PROVE RestoreInv
  OBVIOUS
<1>1. <<>> \in Seq(Databases) /\ Len(<<>>) = 0
  BY EmptySeq
<1>2. RestoreTypeInv
  <2>1. RestoreTypeOK
    BY <1>1 DEF RestoreInit, RestoreTypeOK
  <2>2. before \in [file : Databases \cup {NoFile}, log : Databases, conf : [Settings -> {0, 1}]]
    BY DEF RestoreInit, NoHistory
  <2>3. QED
    BY <2>1, <2>2 DEF RestoreInit, RestoreTypeInv
<1>3. PathInv /\ KeptInv /\ NeverMixed
  BY DEF RestoreInit, PathInv, KeptInv, Late, NeverMixed
<1>4. QED
  BY <1>2, <1>3 DEF RestoreInv

\* Nothing but a restore moves the previous databases, and without one the
\* path is free to change.
LEMMA BetweenRestores ==
    ASSUME RestoreInv, UNCHANGED <<kept, owed, step>>, step = "idle", RestoreTypeInv',
           outcome' # "died", main = NoFile \/ main \subseteq main', main' # NoFile
    PROVE  RestoreInv'
<1>1. PathInv' /\ NeverMixed'
  BY DEF PathInv, NeverMixed
<1>2. KeptInv'
  BY DEF RestoreInv, KeptInv, Late, Aside
<1>3. QED
  BY <1>1, <1>2 DEF RestoreInv

LEMMA ServerKeeps ==
    ASSUME RestoreInv, ServerStart \/ ServerWrite \/ ServerStop \/ BackupCreate \/ ChangeSettings
    PROVE  RestoreInv'
<1> USE DEF RestoreInv
<1>1. NoHistory \in [file : Databases \cup {NoFile}, log : Databases, conf : [Settings -> {0, 1}]]
  BY DEF NoHistory
<1>2. CASE ServerStart
  <2>1. main' \in Databases /\ wal' \in Databases /\ (main = NoFile \/ main \subseteq main')
    BY <1>2 DEF ServerStart, InitDb, RestoreTypeInv, RestoreTypeOK
  <2>2. /\ step = "idle" /\ outcome' = "none" /\ server' = TRUE
        /\ before' = NoHistory /\ unfolded' = FALSE
        /\ UNCHANGED <<kept, conf, archive, step, owed>>
    BY <1>2 DEF ServerStart, Used
  <2>3. RestoreTypeInv'
    BY <1>1, <2>1, <2>2 DEF RestoreTypeInv, RestoreTypeOK
  <2>4. QED
    BY <2>1, <2>2, <2>3, BetweenRestores
<1>3. CASE ServerWrite
  <2>1. /\ server /\ step = "idle" /\ main \in Databases /\ wal \in Databases
        /\ Live = main \cup wal /\ outcome # "died"
    BY <1>3 DEF ServerWrite, Live, RestoreTypeInv, RestoreTypeOK
  <2>2. main' \in Databases /\ wal' \in Databases /\ main \subseteq main'
    BY <1>3, <2>1 DEF ServerWrite
  <2>3. UNCHANGED <<kept, conf, archive, server, step, before, unfolded, owed, outcome>>
    BY <1>3 DEF ServerWrite
  <2>4. RestoreTypeInv'
    BY <2>1, <2>2, <2>3 DEF RestoreTypeInv, RestoreTypeOK
  <2>5. QED
    BY <2>1, <2>2, <2>3, <2>4, BetweenRestores
<1>4. CASE ServerStop \/ ChangeSettings
  <2>1. /\ server /\ step = "idle" /\ main # NoFile /\ outcome # "died"
        /\ UNCHANGED <<main, wal, kept, archive, step, before, unfolded, owed, outcome>>
    BY <1>4 DEF ServerStop, ChangeSettings, RestoreTypeInv, restoreFiles
  <2>2. server' \in BOOLEAN /\ conf' \in [Settings -> {0, 1}]
    <3>1. CASE ServerStop
      BY <3>1 DEF ServerStop, RestoreTypeInv, RestoreTypeOK, restoreFiles
    <3>2. CASE ChangeSettings
      <4>1. PICK k \in Settings : conf' = [conf EXCEPT ![k] = 1 - conf[k]]
        BY <3>2 DEF ChangeSettings
      <4>2. conf \in [Settings -> {0, 1}] /\ 1 - conf[k] \in {0, 1}
        BY DEF RestoreTypeInv, RestoreTypeOK
      <4>3. server' = server /\ server \in BOOLEAN
        BY <3>2 DEF ChangeSettings, RestoreTypeInv, RestoreTypeOK
      <4>4. QED
        BY <4>1, <4>2, <4>3
    <3>3. QED
      BY <1>4, <3>1, <3>2
  <2>3. RestoreTypeInv'
    BY <2>1, <2>2 DEF RestoreTypeInv, RestoreTypeOK
  <2>4. QED
    BY <2>1, <2>3, BetweenRestores
<1>5. CASE BackupCreate
  <2>1. main' \in Databases /\ wal' \in Databases /\ (main = NoFile \/ main \subseteq main')
    BY <1>5 DEF BackupCreate, InitDb, RestoreTypeInv, RestoreTypeOK
  <2>2. archive' \in [db : Databases, conf : [Carried -> {0, 1}]]
    <3>1. SanitizedSettings(conf) \in [Carried -> {0, 1}]
      BY DEF SanitizedSettings, RestoreTypeInv, RestoreTypeOK
    <3>2. QED
      BY <1>5, <2>1, <3>1 DEF BackupCreate, Sanitized
  <2>3. /\ step = "idle" /\ outcome' = "none" /\ before' = NoHistory /\ unfolded' = FALSE
        /\ UNCHANGED <<kept, conf, server, step, owed>>
    BY <1>5 DEF BackupCreate, Used
  <2>4. RestoreTypeInv'
    BY <1>1, <2>1, <2>2, <2>3 DEF RestoreTypeInv, RestoreTypeOK
  <2>5. QED
    BY <2>1, <2>3, <2>4, BetweenRestores
<1> QED
  BY <1>2, <1>3, <1>4, <1>5

-----------------------------------------------------------------------------
(* The restore command, up to the swap.                                    *)

LEMMA PrepareKeeps == RestoreInv /\ Prepare => RestoreInv'
<1> SUFFICES ASSUME RestoreInv, Prepare PROVE RestoreInv'
  OBVIOUS
<1> USE DEF RestoreInv
<1>1. /\ step = "idle" /\ ~server /\ archive # NoFile /\ Len(kept) < MaxKept
      /\ \/ step' = "fold" /\ outcome' = "none"
         \/ step' = "idle" /\ outcome' = "refused"
      /\ UNCHANGED <<main, wal, kept, conf, archive, server, owed>>
      /\ before' = [file |-> main, log |-> wal, conf |-> conf] /\ unfolded' = FALSE
  BY DEF Prepare, MayRestore, restoreFiles
<1>2. before'.file = main /\ before'.log = wal /\ before'.conf = conf
  BY <1>1
<1>3. before' \in [file : Databases \cup {NoFile}, log : Databases, conf : [Settings -> {0, 1}]]
  BY <1>1 DEF RestoreTypeInv, RestoreTypeOK
<1>4. RestoreTypeInv'
  BY <1>1, <1>2, <1>3 DEF RestoreTypeInv, RestoreTypeOK
<1>5. PathInv'
  BY <1>1, <1>2 DEF PathInv
<1>6. KeptInv'
  BY <1>1 DEF KeptInv, Late, Aside
<1>7. Live' = Previous'
  BY <1>1, <1>2 DEF Live, Previous
<1>8. NeverMixed'
  BY <1>7 DEF NeverMixed, OneDatabase
<1>9. QED
  BY <1>4, <1>5, <1>6, <1>8

\* Whether the checkpoint succeeds or not, what can be read does not change.
LEMMA FoldLogKeeps == RestoreInv /\ FoldLog => RestoreInv'
<1> SUFFICES ASSUME RestoreInv, FoldLog PROVE RestoreInv'
  OBVIOUS
<1> USE DEF RestoreInv
<1>1. /\ step = "fold" /\ step' = "aside" /\ main = before.file /\ wal = before.log
      /\ unfolded = FALSE /\ UNCHANGED <<kept, conf, archive, server, before, owed, outcome>>
      /\ Previous' = Previous /\ Stray' = Stray /\ Live = Previous
  BY DEF FoldLog, PathInv, Previous, Stray, Live
<1>2. CASE main # NoFile /\ main' = Live /\ wal' = {} /\ UNCHANGED unfolded
  <2>1. /\ main \in Databases /\ wal \in Databases /\ Live = main \cup wal
        /\ main' # NoFile /\ main' \in Databases /\ main \subseteq main'
    BY <1>2 DEF Live, RestoreTypeInv, RestoreTypeOK
  <2>2. Live' = Live
    BY <1>2, <2>1 DEF Live
  <2>3. RestoreTypeInv'
    BY <1>1, <1>2, <2>1 DEF RestoreTypeInv, RestoreTypeOK
  <2>4. PathInv'
    BY <1>1, <1>2 DEF PathInv
  <2>5. KeptInv'
    <3>1. ASSUME NEW db \in owed
          PROVE  \E f \in Aside \cup {main'} : f # NoFile /\ db \subseteq f
      <4>1. PICK f \in Aside \cup {main} : f # NoFile /\ db \subseteq f
        BY <3>1 DEF KeptInv
      <4>2. CASE f = main
        BY <4>1, <4>2, <2>1
      <4>3. CASE f # main
        BY <4>1, <4>3
      <4>4. QED
        BY <4>2, <4>3
    <3>2. Aside' = Aside
      BY <1>1 DEF Aside
    <3>3. QED
      BY <1>1, <3>1, <3>2 DEF KeptInv, Late
  <2>6. NeverMixed'
    BY <1>1, <2>2 DEF NeverMixed, OneDatabase
  <2>7. QED
    BY <2>3, <2>4, <2>5, <2>6
<1>3. CASE UNCHANGED <<main, wal>> /\ unfolded' = (main # NoFile)
  <2>1. /\ main' = main /\ wal' = wal /\ Live' = Live
        /\ (unfolded' <=> main # NoFile) /\ unfolded' \in BOOLEAN
    BY <1>3 DEF Live
  <2>2. RestoreTypeInv'
    BY <1>1, <1>3, <2>1 DEF RestoreTypeInv, RestoreTypeOK
  <2>3. PathInv'
    <3>1. step' = "aside" /\ main' = before'.file /\ wal' = before'.log
      BY <1>1, <2>1
    <3>2. ~unfolded' => before'.file = NoFile
      <4>1. before'.file = main
        BY <1>1
      <4>2. QED
        BY <2>1, <4>1, Zenon
    <3>3. QED
      BY <3>1, <3>2 DEF PathInv
  <2>4. KeptInv'
    BY <1>1, <1>3 DEF KeptInv, Late, Aside
  <2>5. NeverMixed'
    BY <1>1, <2>1 DEF NeverMixed, OneDatabase
  <2>6. QED
    BY <2>2, <2>3, <2>4, <2>5
<1>4. QED
  BY <1>2, <1>3 DEF FoldLog

\* What is owed is either in the new copy or in one that stays.
LEMMA MoveAsideKeeps == RestoreInv /\ MoveAside => RestoreInv'
<1> SUFFICES ASSUME RestoreInv, MoveAside PROVE RestoreInv'
  OBVIOUS
<1> USE DEF RestoreInv
<1>1. /\ step = "aside" /\ step' = "sidecars" /\ main' = NoFile
      /\ UNCHANGED <<wal, conf, archive, server, before, unfolded, outcome>>
      /\ Previous' = Previous /\ Stray' = Stray
  BY DEF MoveAside, Previous, Stray
<1>2. Live' = NoFile
  BY <1>1 DEF Live
<1>3. NeverMixed'
  BY <1>1, <1>2 DEF NeverMixed, OneDatabase
<1>4. before.file \in Databases => Previous \in Databases /\ Previous # NoFile
  BY DEF Previous, RestoreTypeInv
<1>5. before.file = NoFile <=> main = NoFile
  BY <1>1, <1>4 DEF PathInv, RestoreTypeInv
<1>6. PathInv'
  <2>1. before.file = NoFile => wal = before.log
    BY <1>1 DEF PathInv
  <2>2. QED
    BY <1>1, <2>1 DEF PathInv
<1>7. CASE main = NoFile
  <2>1. kept' = kept /\ owed' = owed
    BY <1>7 DEF MoveAside
  <2>2. RestoreTypeInv'
    BY <1>1, <2>1 DEF RestoreTypeInv, RestoreTypeOK
  <2>3. Aside' = Aside
    BY <2>1 DEF Aside
  <2>4. KeptInv'
    BY <1>1, <1>5, <1>7, <2>1, <2>3 DEF KeptInv, Late
  <2>5. QED
    BY <1>3, <1>6, <2>2, <2>4
<1>8. CASE main # NoFile
  <2>1. main \in Databases /\ kept \in Seq(Databases) /\ before.file # NoFile
    BY <1>5, <1>8 DEF RestoreTypeInv, RestoreTypeOK
  <2>2. main = IF unfolded THEN before.file ELSE Previous
    BY <1>1, <2>1 DEF PathInv, RestoreTypeInv
  <2>3. Owes \subseteq Databases /\ \A db \in Owes : db \subseteq main
    BY <2>1, <2>2 DEF Owes
  <2>4. CASE kept' = Append(kept, main) /\ owed' = owed \cup Owes
    <3>1. /\ kept' \in Seq(Databases) /\ Len(kept') = Len(kept) + 1 /\ kept' # <<>>
          /\ Last(kept') = main /\ Aside' = Aside \cup {main}
      BY <2>1, <2>4, MovedAside DEF Aside
    <3>2. Len(kept') <= MaxKept
      BY <1>1, <2>1, <3>1, LenProperties DEF RestoreTypeInv
    <3>3. RestoreTypeInv'
      BY <1>1, <2>3, <2>4, <3>1, <3>2 DEF RestoreTypeInv, RestoreTypeOK
    <3>4. \A db \in owed' : \E f \in Aside' : db \subseteq f
      BY <2>3, <2>4, <3>1 DEF KeptInv
    <3>5. KeptInv'
      <4>1. \A f \in Aside' : f # NoFile
        BY <3>1 DEF Aside, ToSet
      <4>2. QED
        BY <1>1, <2>2, <3>1, <3>4, <4>1 DEF KeptInv, Late
    <3>6. QED
      BY <1>3, <1>6, <3>3, <3>5
  <2>5. CASE /\ kept # <<>> /\ kept' = Append(Front(kept), main)
             /\ owed' = {db \in owed : ~ db \subseteq Last(kept)} \cup Owes
    <3>1. /\ Front(kept) \in Seq(Databases) /\ Len(Front(kept)) = Len(kept) - 1
          /\ Aside = ToSet(Front(kept)) \cup {Last(kept)}
      BY <2>1, <2>5, PutBackCopy DEF Aside
    <3>2. /\ kept' \in Seq(Databases) /\ Len(kept') = Len(Front(kept)) + 1 /\ kept' # <<>>
          /\ Last(kept') = main /\ Aside' = ToSet(Front(kept)) \cup {main}
      BY <2>1, <2>5, <3>1, MovedAside DEF Aside
    <3>3. Len(kept') <= MaxKept
      BY <1>1, <2>1, <3>1, <3>2, LenProperties DEF RestoreTypeInv
    <3>4. RestoreTypeInv'
      <4>1. owed' \in SUBSET Databases
        BY <2>3, <2>5 DEF RestoreTypeInv
      <4>2. RestoreTypeOK'
        BY <1>1, <3>2, <3>3 DEF RestoreTypeInv, RestoreTypeOK
      <4>3. QED
        BY <1>1, <4>1, <4>2 DEF RestoreTypeInv
    <3>5. ASSUME NEW db \in owed'
          PROVE  \E f \in Aside' : db \subseteq f
      <4>1. CASE db \in Owes
        BY <2>3, <3>2, <4>1
      <4>2. CASE db \in owed /\ ~ db \subseteq Last(kept)
        <5>1. PICK f \in Aside \cup {main} : f # NoFile /\ db \subseteq f
          BY <4>2 DEF KeptInv
        <5>2. f \in Aside'
          BY <3>1, <3>2, <4>2, <5>1
        <5>3. QED
          BY <5>1, <5>2
      <4>3. QED
        BY <2>5, <3>5, <4>1, <4>2
    <3>6. KeptInv'
      <4>1. \A f \in Aside' : f # NoFile
        BY <3>2 DEF Aside, ToSet
      <4>2. QED
        BY <1>1, <2>2, <3>2, <3>5, <4>1 DEF KeptInv, Late
    <3>7. QED
      BY <1>3, <1>6, <3>4, <3>6
  <2>6. QED
    BY <1>8, <2>4, <2>5 DEF MoveAside
<1>9. QED
  BY <1>7, <1>8

LEMMA DropSidecarsKeeps == RestoreInv /\ DropSidecars => RestoreInv'
<1> SUFFICES ASSUME RestoreInv, DropSidecars PROVE RestoreInv'
  OBVIOUS
<1> USE DEF RestoreInv
<1>1. /\ step = "sidecars" /\ step' = "swap" /\ main = NoFile
      /\ wal' = (IF before.file = NoFile THEN wal ELSE {})
      /\ UNCHANGED <<main, kept, conf, archive, server, before, unfolded, owed, outcome>>
      /\ Previous' = Previous /\ Stray' = Stray /\ Live' = NoFile
  BY DEF DropSidecars, PathInv, Previous, Stray, Live
<1>2. RestoreTypeInv'
  BY <1>1 DEF RestoreTypeInv, RestoreTypeOK
<1>3. PathInv'
  <2>1. ~Stray => wal' = {}
    BY <1>1 DEF Stray, PathInv
  <2>2. QED
    BY <1>1, <2>1 DEF PathInv
<1>4. KeptInv'
  BY <1>1 DEF KeptInv, Late, Aside
<1>5. NeverMixed'
  BY <1>1 DEF NeverMixed, OneDatabase
<1>6. QED
  BY <1>2, <1>3, <1>4, <1>5

-----------------------------------------------------------------------------
(* The swap, its failures, and the end.                                    *)

\* The preserved copy goes back and takes its place in the account: all that
\* was committed, or the main file alone after a failed checkpoint.
LEMMA PutBackKeeps ==
    ASSUME RestoreInv, PutBack, step \in {"swap", "putback"}, step' = "idle",
           outcome' = "failed", UNCHANGED <<wal, conf, archive, server, before, unfolded, owed>>
    PROVE  /\ RestoreInv'
           /\ ~Stray => Live' = IF unfolded THEN before.file ELSE Previous
<1> USE DEF RestoreInv
<1>1. kept \in Seq(Databases) /\ main = NoFile /\ \A f \in Aside : f # NoFile
  BY DEF RestoreTypeInv, RestoreTypeOK, PathInv, Aside, ToSet
<1>2. PathInv' /\ NeverMixed'
  BY DEF PathInv, NeverMixed
<1>3. ~Stray => wal' = {}
  BY DEF PathInv
<1>4. CASE before.file = NoFile
  <2>1. main' = NoFile /\ kept' = kept /\ Previous = NoFile
    BY <1>4 DEF PutBack, Previous
  <2>2. RestoreTypeInv'
    BY <2>1 DEF RestoreTypeInv, RestoreTypeOK
  <2>3. KeptInv'
    <3>1. Aside' = Aside /\ owed' = owed
      BY <2>1 DEF Aside
    <3>2. \A db \in owed : \E f \in Aside : f # NoFile /\ db \subseteq f
      BY <1>1 DEF KeptInv, Late
    <3>3. QED
      BY <3>1, <3>2 DEF KeptInv, Late
  <2>4. Live' = IF unfolded THEN before.file ELSE Previous
    BY <1>4, <2>1 DEF Live
  <2>5. QED
    BY <1>2, <2>2, <2>3, <2>4
<1>5. CASE before.file # NoFile
  <2>1. /\ main' = Last(kept) /\ kept' = Front(kept) /\ kept # <<>>
        /\ Last(kept) = IF unfolded THEN before.file ELSE Previous
    BY <1>5 DEF PutBack, KeptInv, Late
  <2>2. /\ kept' \in Seq(Databases) /\ Len(kept') = Len(kept) - 1 /\ main' \in Databases
        /\ Aside = Aside' \cup {main'}
    BY <1>1, <2>1, PutBackCopy DEF Aside
  <2>3. Len(kept') <= MaxKept
    BY <1>1, <2>2, LenProperties DEF RestoreTypeInv, RestoreTypeOK
  <2>4. RestoreTypeInv'
    BY <2>2, <2>3 DEF RestoreTypeInv, RestoreTypeOK
  <2>5. KeptInv'
    BY <1>1, <2>2 DEF KeptInv, Late
  <2>6. ~Stray => Live' = main'
    BY <1>3, <2>2 DEF Live
  <2>7. QED
    BY <1>2, <2>1, <2>4, <2>5, <2>6
<1>6. QED
  BY <1>4, <1>5

LEMMA SwapKeeps == RestoreInv /\ Swap => RestoreInv'
<1> SUFFICES ASSUME RestoreInv, Swap PROVE RestoreInv'
  OBVIOUS
<1>1. CASE PutBack /\ step' = "idle" /\ outcome' = "failed"
  BY <1>1, PutBackKeeps DEF Swap
<1>2. CASE main' = archive.db /\ step' = "settings" /\ UNCHANGED <<kept, outcome>>
  <2> USE DEF RestoreInv
  <2>1. /\ step = "swap" /\ UNCHANGED <<wal, conf, archive, server, before, unfolded, owed>>
        /\ Previous' = Previous /\ Stray' = Stray
    BY DEF Swap, Previous, Stray
  <2>2. archive # NoFile /\ archive.db \in Databases /\ ~server
    BY <2>1 DEF RestoreTypeInv, RestoreTypeOK
  <2>3. RestoreTypeInv'
    BY <1>2, <2>1, <2>2 DEF RestoreTypeInv, RestoreTypeOK
  <2>4. PathInv'
    BY <1>2, <2>1 DEF PathInv
  <2>5. KeptInv'
    <3>1. \A f \in Aside : f # NoFile
      BY DEF Aside, ToSet, RestoreTypeInv, RestoreTypeOK
    <3>2. QED
      BY <1>2, <2>1, <3>1 DEF KeptInv, Late, Aside
  <2>6. ~Stray => Live' = archive.db
    BY <1>2, <2>1, <2>2 DEF Live, PathInv
  <2>7. NeverMixed'
    BY <2>1, <2>2, <2>6 DEF NeverMixed, OneDatabase
  <2>8. QED
    BY <2>3, <2>4, <2>5, <2>7
<1>3. QED
  BY <1>1, <1>2 DEF Swap

LEMMA ApplySettingsKeeps == RestoreInv /\ ApplySettings => RestoreInv'
<1> SUFFICES ASSUME RestoreInv, ApplySettings PROVE RestoreInv'
  OBVIOUS
<1> USE DEF RestoreInv
<1>1. /\ step = "settings" /\ step' \in {"idle", "rollback"}
      /\ UNCHANGED <<main, wal, kept, archive, server, before, unfolded, owed>>
      /\ \/ step' = "idle" /\ outcome' = "restored" /\ conf' = Merged
         \/ step' = "rollback" /\ UNCHANGED <<conf, outcome>>
      /\ Previous' = Previous /\ Stray' = Stray
  BY DEF ApplySettings, Previous, Stray
<1>2. archive # NoFile /\ Merged \in [Settings -> {0, 1}]
  <2>1. /\ archive # NoFile /\ conf \in [Settings -> {0, 1}]
        /\ archive.conf \in [Carried -> {0, 1}]
    BY <1>1 DEF RestoreTypeInv, RestoreTypeOK
  <2>2. QED
    BY <2>1 DEF Merged
<1>3. RestoreTypeInv'
  BY <1>1, <1>2 DEF RestoreTypeInv, RestoreTypeOK
<1>4. PathInv'
  BY <1>1 DEF PathInv
<1>5. KeptInv'
  BY <1>1 DEF KeptInv, Late, Aside
<1>6. Live' = Live /\ OneDatabase' = OneDatabase
  BY <1>1 DEF Live, OneDatabase
<1>7. NeverMixed'
  BY <1>1, <1>6 DEF NeverMixed
<1>8. QED
  BY <1>3, <1>4, <1>5, <1>7

LEMMA RollbackDeleteKeeps == RestoreInv /\ RollbackDelete => RestoreInv'
<1> SUFFICES ASSUME RestoreInv, RollbackDelete PROVE RestoreInv'
  OBVIOUS
<1> USE DEF RestoreInv
<1>1. /\ step = "rollback" /\ step' = "putback" /\ main' = NoFile /\ wal' = {}
      /\ UNCHANGED <<kept, conf, archive, server, before, unfolded, owed, outcome>>
      /\ Live' = NoFile
  BY DEF RollbackDelete, Live
<1>2. RestoreTypeInv'
  BY <1>1 DEF RestoreTypeInv, RestoreTypeOK
<1>3. PathInv'
  <2>1. step' = "putback" /\ main' = NoFile /\ wal' = {}
    BY <1>1
  <2>2. QED
    BY <2>1 DEF PathInv
<1>4. KeptInv'
  <2>1. \A f \in Aside : f # NoFile
    BY DEF Aside, ToSet, RestoreTypeInv, RestoreTypeOK
  <2>2. /\ \A db \in owed : \E f \in Aside : db \subseteq f
        /\ before.file # NoFile =>
              kept # <<>> /\ Last(kept) = IF unfolded THEN before.file ELSE Previous
    BY <1>1 DEF KeptInv, Late
  <2>3. /\ Aside' = Aside /\ Previous' = Previous
        /\ UNCHANGED <<kept, before, unfolded, owed>>
    BY <1>1 DEF Aside, Previous
  <2>4. QED
    BY <2>1, <2>2, <2>3 DEF KeptInv, Late
<1>5. NeverMixed'
  BY <1>1 DEF NeverMixed, OneDatabase
<1>6. QED
  BY <1>2, <1>3, <1>4, <1>5

LEMMA RollbackPutBackKeeps == RestoreInv /\ RollbackPutBack => RestoreInv'
  BY PutBackKeeps DEF RollbackPutBack

LEMMA RestoreDiesKeeps == RestoreInv /\ RestoreDies => RestoreInv'
<1> SUFFICES ASSUME RestoreInv, RestoreDies PROVE RestoreInv'
  OBVIOUS
<1> USE DEF RestoreInv
<1>1. /\ step # "idle" /\ step' = "idle" /\ outcome' = "died"
      /\ UNCHANGED <<main, wal, kept, conf, archive, server, before, unfolded, owed>>
      /\ Previous' = Previous /\ Stray' = Stray
  BY DEF RestoreDies, restoreFiles, Previous, Stray
<1>2. RestoreTypeInv'
  BY <1>1 DEF RestoreTypeInv, RestoreTypeOK
<1>3. PathInv'
  BY <1>1 DEF PathInv
<1>4. KeptInv'
  BY <1>1 DEF KeptInv, Late, Aside
<1>5. Live' = Live /\ OneDatabase' = OneDatabase
  BY <1>1 DEF Live, OneDatabase
<1>6. NeverMixed'
  BY <1>1, <1>5 DEF NeverMixed
<1>7. QED
  BY <1>2, <1>3, <1>4, <1>6

-----------------------------------------------------------------------------
(* The theorems.                                                           *)

LEMMA RestoreNextHolds == RestoreInv /\ [RestoreNext]_restoreVars => RestoreInv'
<1> SUFFICES ASSUME RestoreInv, [RestoreNext]_restoreVars PROVE RestoreInv'
  OBVIOUS
<1>1. CASE RestoreNext
  BY <1>1, ServerKeeps, PrepareKeeps, FoldLogKeeps, MoveAsideKeeps, DropSidecarsKeeps, SwapKeeps,
     ApplySettingsKeeps, RollbackDeleteKeeps, RollbackPutBackKeeps, RestoreDiesKeeps
     DEF RestoreNext
<1>2. CASE UNCHANGED restoreVars
  <2>1. /\ UNCHANGED <<main, wal, kept, conf, archive, server, step, before, unfolded, owed, outcome>>
        /\ Previous' = Previous /\ Stray' = Stray /\ Live' = Live /\ Aside' = Aside
    BY <1>2 DEF restoreVars, restoreFiles, Previous, Stray, Live, Aside
  <2>2. RestoreTypeInv' /\ PathInv'
    BY <2>1 DEF RestoreInv, RestoreTypeInv, RestoreTypeOK, PathInv
  <2>3. KeptInv' /\ NeverMixed'
    BY <2>1 DEF RestoreInv, KeptInv, Late, NeverMixed, OneDatabase
  <2>4. QED
    BY <2>2, <2>3 DEF RestoreInv
<1>3. QED
  BY <1>1, <1>2

\* The inductive invariant holds at every step of every restore, whichever
\* of them fails or is the last one.
THEOREM RestoreInvariance == RestoreSpec => []RestoreInv
  BY RestoreInitHolds, RestoreNextHolds, PTL DEF RestoreSpec

\* Types of the files and of the command.
THEOREM RestoreTypeCorrect == RestoreSpec => []RestoreTypeOK
<1>1. RestoreInv => RestoreTypeOK
  BY DEF RestoreInv, RestoreTypeInv
<1>2. QED
  BY <1>1, RestoreInvariance, PTL

\* While a restore runs, and wherever it dies, the path holds one database:
\* the order fold, move, delete the sidecars, rename never leaves a log beside
\* a main file that is not its own.
THEOREM NeverMixedAlways == RestoreSpec => []NeverMixed
<1>1. RestoreInv => NeverMixed
  BY DEF RestoreInv
<1>2. QED
  BY <1>1, RestoreInvariance, PTL

\* A database that was moved aside is at the path again or in a preserved
\* copy, after any number of restores, failures and crashes: with all of its
\* log unless the checkpoint failed, and unless a restore within the same
\* second took the copy's name.
THEOREM PreviousKeptAlways == RestoreSpec => []PreviousKept
<1>1. RestoreInv => PreviousKept
  <2> SUFFICES ASSUME RestoreInv, NEW db \in owed
               PROVE  \E f \in Aside \cup {Live} : f # NoFile /\ db \subseteq f
    BY DEF PreviousKept
  <2>1. PICK f \in Aside \cup {main} : f # NoFile /\ db \subseteq f
    BY DEF RestoreInv, KeptInv
  <2>2. CASE f \in Aside
    BY <2>1, <2>2
  <2>3. CASE f = main
    <3>1. main \in Databases /\ wal \in Databases /\ Live = main \cup wal
      BY <2>1, <2>3 DEF Live, RestoreInv, RestoreTypeInv, RestoreTypeOK
    <3>2. Live # NoFile /\ db \subseteq Live
      BY <2>1, <2>3, <3>1
    <3>3. QED
      BY <3>2
  <2>4. QED
    BY <2>1, <2>2, <2>3
<1>2. QED
  BY <1>1, RestoreInvariance, PTL

\* A restore that ends has put the archived database in place and what the
\* archive carries into the settings, or has put back the database it found,
\* without its log if the checkpoint failed, and left the settings alone.
THEOREM AllOrNothingAlways == RestoreSpec => AllOrNothing
<1> DEFINE Restored == /\ outcome' = "restored" /\ step # step' /\ ~Stray =>
                            /\ Live' = archive.db
                            /\ \A k \in Settings :
                                  conf'[k] = IF k \in Carried THEN archive.conf[k] ELSE before.conf[k]
                       /\ outcome' = "failed" /\ step # step' /\ ~Stray =>
                            /\ Live' = (IF unfolded THEN before.file ELSE Previous)
                            /\ conf' = before.conf
<1>1. ASSUME RestoreInv, [RestoreNext]_restoreVars PROVE [Restored]_restoreVars
  <2> SUFFICES ASSUME RestoreNext, step # step' PROVE Restored
    BY <1>1 DEF restoreVars
  <2> USE <1>1
  <2>1. CASE Prepare
    BY <2>1 DEF Prepare
  <2>2. CASE FoldLog \/ MoveAside \/ DropSidecars \/ RollbackDelete
    BY <2>2 DEF FoldLog, MoveAside, DropSidecars, RollbackDelete, RestoreInv, RestoreTypeInv
  <2>3. ASSUME PutBack, step \in {"swap", "putback"}, step' = "idle", outcome' = "failed",
               UNCHANGED <<wal, conf, archive, server, before, unfolded, owed>>
        PROVE  Restored
    <3>1. ~Stray => Live' = IF unfolded THEN before.file ELSE Previous
      BY <2>3, PutBackKeeps
    <3>2. conf' = before.conf
      BY <2>3 DEF RestoreInv, RestoreTypeInv
    <3>3. QED
      BY <2>3, <3>1, <3>2
  <2>4. CASE Swap
    <3>1. CASE PutBack /\ step' = "idle" /\ outcome' = "failed"
      BY <2>3, <2>4, <3>1 DEF Swap
    <3>2. CASE step' = "settings" /\ UNCHANGED outcome
      BY <2>4, <3>2 DEF Swap, RestoreInv, RestoreTypeInv, RestoreTypeOK
    <3>3. QED
      BY <2>4, <3>1, <3>2 DEF Swap
  <2>5. CASE ApplySettings
    <3>1. /\ main = archive.db /\ (~Stray => wal = {}) /\ outcome = "none" /\ main # NoFile
          /\ conf = before.conf
      BY <2>5 DEF ApplySettings, RestoreInv, RestoreTypeInv, RestoreTypeOK, PathInv
    <3>2. ~Stray => Live' = archive.db
      BY <2>5, <3>1 DEF ApplySettings, Live
    <3>3. CASE conf' = Merged
      BY <2>5, <3>1, <3>2, <3>3 DEF ApplySettings, Merged
    <3>4. CASE step' = "rollback" /\ UNCHANGED <<conf, outcome>>
      BY <3>1, <3>4
    <3>5. QED
      BY <2>5, <3>3, <3>4 DEF ApplySettings
  <2>6. CASE RollbackPutBack \/ RestoreDies
    BY <2>3, <2>6 DEF RollbackPutBack, RestoreDies
  <2>7. QED
    BY <2>1, <2>2, <2>3, <2>4, <2>5, <2>6
       DEF RestoreNext, ServerStart, ServerWrite, ServerStop, BackupCreate, ChangeSettings
<1>2. QED
  BY <1>1, RestoreInvariance, PTL DEF RestoreSpec, AllOrNothing

-----------------------------------------------------------------------------
(***************************************************************************)
(* LadderIsShared for any number of callers, any TTL and any number of     *)
(* ladders.  The invariant says who stands behind the two flags: at most   *)
(* one unforced caller behind _ladder_inflight and one caller behind       *)
(* run_in_progress.  Whoever finds the ladder busy is the unforced caller  *)
(* in flight, so the other one is a forced diagnosis.                      *)
(***************************************************************************)

Stages == {"idle", "wait", "lock", "measure", "reset", "leave", "answered"}

\* Those that _ladder_inflight and run_in_progress stand for.
Flying == {t \in Callers : Unforced(t) /\ stage[t] \in {"lock", "measure", "reset", "leave"}}
Inside == {t \in Callers : stage[t] \in {"measure", "reset"}}

\* A flag that is set has one holder, one that is not has none.
HeldByOne(flag, S) == IF flag THEN \E u \in Callers : S = {u} ELSE S = {}

\* A forced diagnosis neither waits nor clears _ladder_inflight.
CallsOK ==
    /\ stage \in [Callers -> Stages] /\ kind \in [Callers -> Kinds]
    /\ \A t \in Callers : stage[t] \in {"wait", "leave"} => kind[t] # "forced"

ThreadsOK ==
    /\ CallsOK /\ late \in [Callers -> BOOLEAN] /\ cacheAge \in Nat
    /\ inflight \in BOOLEAN /\ laddering \in BOOLEAN

SharingInv ==
    /\ ThreadsOK
    /\ HeldByOne(inflight, Flying) /\ HeldByOne(laddering, Inside)
    /\ \A t \in Callers : ~late[t]

-----------------------------------------------------------------------------
(* Each action preserves the invariant.                                    *)

\* An answer from the cache is late only past the TTL with no forced
\* diagnosis in the way.
LEMMA OnTime ==
    ASSUME SharingInv, NEW t \in Callers, FromCache(t), cacheAge <= Ttl \/ ForcedRuns(t)
    PROVE  late' \in [Callers -> BOOLEAN] /\ \A u \in Callers : ~late'[u]
<1>1. cacheAge <= Ttl => ~(cacheAge > Ttl)
  BY CacheAssumption DEF SharingInv, ThreadsOK, CacheAssumption
<1>2. ~(cacheAge > Ttl /\ ~ForcedRuns(t))
  BY <1>1
<1>3. late' = [late EXCEPT ![t] = cacheAge > Ttl /\ ~ForcedRuns(t)]
  BY DEF FromCache
<1>4. \A u \in Callers : late'[u] = IF u = t THEN cacheAge > Ttl /\ ~ForcedRuns(t) ELSE late[u]
  BY <1>3 DEF SharingInv, ThreadsOK
<1>5. late' \in [Callers -> BOOLEAN]
  <2>1. (cacheAge > Ttl /\ ~ForcedRuns(t)) \in BOOLEAN
    OBVIOUS
  <2>2. QED
    BY <1>3, <2>1 DEF SharingInv, ThreadsOK
<1>6. QED
  BY <1>2, <1>4, <1>5 DEF SharingInv

\* A caller goes to stage s wanting k; nobody else moves.
Turns(t, s, k) == Go(t, s) /\ kind' = [kind EXCEPT ![t] = k]

LEMMA TurnsAlone ==
    ASSUME ThreadsOK, NEW t \in Callers, NEW s \in Stages, NEW k \in Kinds, Turns(t, s, k),
           s \in {"wait", "leave"} => k # "forced"
    PROVE  /\ CallsOK'
           /\ \A u \in Callers : /\ stage'[u] = IF u = t THEN s ELSE stage[u]
                                 /\ kind'[u] = IF u = t THEN k ELSE kind[u]
<1>1. stage' \in [Callers -> Stages] /\ kind' \in [Callers -> Kinds]
  BY DEF ThreadsOK, CallsOK, Go, Turns
<1>2. \A u \in Callers : /\ stage'[u] = IF u = t THEN s ELSE stage[u]
                         /\ kind'[u] = IF u = t THEN k ELSE kind[u]
  BY DEF ThreadsOK, CallsOK, Go, Turns
<1>3. \A u \in Callers : stage'[u] \in {"wait", "leave"} => kind'[u] # "forced"
  BY <1>2 DEF ThreadsOK, CallsOK
<1>4. CallsOK'
  BY <1>1, <1>3 DEF CallsOK
<1>5. QED
  BY <1>2, <1>4

\* It rests, ...
LEMMA Rests ==
    ASSUME ThreadsOK, NEW t \in Callers, NEW s \in {"idle", "wait", "answered"}, NEW k \in Kinds, Turns(t, s, k),
           s = "wait" => k # "forced"
    PROVE  /\ CallsOK'
           /\ Inside' = Inside \ {t} /\ Flying' = Flying \ {t}
<1>1. s \in Stages
  BY DEF Stages
<1>2. Inside' = Inside \ {t}
  BY <1>1, TurnsAlone DEF Inside
<1>3. Flying' = Flying \ {t}
  BY <1>1, TurnsAlone DEF Flying, Unforced
<1>4. QED
  BY <1>1, <1>2, <1>3, TurnsAlone

\* ... is before or behind the ladder, ...
LEMMA Nears ==
    ASSUME ThreadsOK, NEW t \in Callers, NEW s \in {"lock", "leave"}, NEW k \in Kinds, Turns(t, s, k),
           s = "leave" => k # "forced"
    PROVE  /\ CallsOK'
           /\ Inside' = Inside \ {t}
           /\ Flying' = IF k = "forced" THEN Flying \ {t} ELSE Flying \cup {t}
<1>1. s \in Stages
  BY DEF Stages
<1>2. Inside' = Inside \ {t}
  BY <1>1, TurnsAlone DEF Inside
<1>3. Flying' = IF k = "forced" THEN Flying \ {t} ELSE Flying \cup {t}
  BY <1>1, TurnsAlone DEF Flying, Unforced
<1>4. QED
  BY <1>1, <1>2, <1>3, TurnsAlone

\* ... or has it.
LEMMA Enters ==
    ASSUME ThreadsOK, NEW t \in Callers, NEW s \in {"measure", "reset"}, NEW k \in Kinds, Turns(t, s, k)
    PROVE  /\ CallsOK'
           /\ Inside' = Inside \cup {t}
           /\ Flying' = IF k = "forced" THEN Flying \ {t} ELSE Flying \cup {t}
<1>1. s \in Stages
  BY DEF Stages
<1>2. Inside' = Inside \cup {t}
  BY <1>1, TurnsAlone DEF Inside
<1>3. Flying' = IF k = "forced" THEN Flying \ {t} ELSE Flying \cup {t}
  BY <1>1, TurnsAlone DEF Flying, Unforced
<1>4. QED
  BY <1>1, <1>2, <1>3, TurnsAlone

LEMMA SameKind ==
    ASSUME ThreadsOK, NEW t \in Callers, NEW s, Go(t, s), kind' = kind
    PROVE  Turns(t, s, kind[t]) /\ kind[t] \in Kinds
BY DEF ThreadsOK, CallsOK, Turns

\* Where a caller stands when the action begins.
LEMMA Standing ==
    ASSUME NEW t \in Callers
    PROVE  /\ stage[t] \in {"idle", "wait", "answered"} => t \notin Inside /\ t \notin Flying
           /\ stage[t] \in {"lock", "leave"} => t \notin Inside /\ (t \in Flying <=> kind[t] # "forced")
           /\ stage[t] \in {"measure", "reset"} => t \in Inside /\ (t \in Flying <=> kind[t] # "forced")
BY DEF Inside, Flying, Unforced

LEMMA CacheInitHolds == CacheInit => SharingInv
<1> SUFFICES ASSUME CacheInit PROVE SharingInv
  OBVIOUS
<1>1. ThreadsOK
  BY DEF CacheInit, ThreadsOK, CallsOK, Stages, Kinds
<1>2. Flying = {} /\ Inside = {}
  BY DEF CacheInit, Flying, Inside, Unforced
<1>3. ~inflight /\ ~laddering
  BY DEF CacheInit
<1>4. \A t \in Callers : ~late[t]
  BY DEF CacheInit
<1>5. QED
  BY <1>1, <1>2, <1>3, <1>4 DEF SharingInv, HeldByOne

\* The section under _ladder_cache_cond, for a caller that holds nothing yet.
LEMMA ShareKeeps ==
    ASSUME SharingInv, NEW t \in Callers, stage[t] \in {"idle", "wait"}, NEW k \in Kinds,
           k # "forced", kind' = [kind EXCEPT ![t] = k], Share(t), UNCHANGED <<laddering, cacheAge>>
    PROVE  SharingInv'
<1>1. ThreadsOK /\ t \notin Inside /\ t \notin Flying
  BY Standing DEF SharingInv
<1>2. CASE Hit
  <2>1. FromCache(t) /\ Turns(t, "answered", k) /\ inflight' = inflight /\ cacheAge <= Ttl
    BY <1>2 DEF Share, Hit, Turns
  <2>2. Inside' = Inside /\ Flying' = Flying /\ CallsOK'
    BY <1>1, <2>1, Rests
  <2>3. late' \in [Callers -> BOOLEAN] /\ \A u \in Callers : ~late'[u]
    BY <2>1, OnTime
  <2>4. QED
    BY <2>1, <2>2, <2>3 DEF SharingInv, ThreadsOK, HeldByOne
<1>3. CASE ~Hit /\ inflight
  <2>1. Turns(t, "wait", k) /\ UNCHANGED <<late, inflight>>
    BY <1>3 DEF Share, Turns
  <2>2. Inside' = Inside /\ Flying' = Flying /\ CallsOK'
    BY <1>1, <2>1, Rests
  <2>3. QED
    BY <2>1, <2>2 DEF SharingInv, ThreadsOK, HeldByOne
<1>4. CASE ~Hit /\ ~inflight
  <2>1. Turns(t, "lock", k) /\ inflight' = TRUE /\ late' = late
    BY <1>4 DEF Share, Turns
  <2>2. Inside' = Inside /\ Flying' = Flying \cup {t} /\ CallsOK'
    BY <1>1, <2>1, Nears
  <2>3. Flying = {}
    BY <1>4 DEF SharingInv, HeldByOne
  <2>4. ThreadsOK'
    BY <2>1, <2>2 DEF SharingInv, ThreadsOK
  <2>5. HeldByOne(inflight, Flying)' /\ HeldByOne(laddering, Inside)'
    BY <2>1, <2>2, <2>3 DEF SharingInv, HeldByOne
  <2>6. QED
    BY <2>1, <2>4, <2>5 DEF SharingInv
<1>5. QED
  BY <1>2, <1>3, <1>4

LEMMA CallKeeps == ASSUME SharingInv, NEW t \in Callers, NEW k \in Kinds, Call(t, k) PROVE SharingInv'
<1>1. CASE k # "forced"
  <2>1. stage[t] \in {"idle", "wait"} /\ kind' = [kind EXCEPT ![t] = k] /\ Share(t) /\ UNCHANGED <<laddering, cacheAge>>
    BY <1>1 DEF Call, resultVars
  <2>2. QED
    BY <1>1, <2>1, ShareKeeps
<1>2. CASE k = "forced"
  <2>1. Turns(t, "lock", "forced") /\ "forced" \in Kinds /\ stage[t] = "idle"
    BY <1>2 DEF Call, Turns
  <2>2. UNCHANGED <<late, inflight, laddering, cacheAge>>
    BY <1>2 DEF Call, resultVars
  <2>3. ThreadsOK /\ t \notin Inside /\ t \notin Flying
    BY <2>1, Standing DEF SharingInv
  <2>4. Inside' = Inside /\ Flying' = Flying /\ CallsOK'
    BY <2>1, <2>3, Nears
  <2>5. QED
    BY <2>2, <2>4 DEF SharingInv, ThreadsOK, HeldByOne
<1>3. QED
  BY <1>1, <1>2

LEMMA WakeKeeps == ASSUME SharingInv, NEW t \in Callers, Wake(t) PROVE SharingInv'
<1>1. stage[t] = "wait" /\ Share(t) /\ UNCHANGED <<laddering, cacheAge>> /\ kind' = kind
  BY DEF Wake, resultVars
<1>2. kind[t] \in Kinds /\ kind[t] # "forced" /\ kind' = [kind EXCEPT ![t] = kind[t]]
  BY <1>1 DEF SharingInv, ThreadsOK, CallsOK
<1>3. QED
  BY <1>1, <1>2, ShareKeeps

\* Whoever finds the ladder busy is the unforced caller in flight, so the one
\* inside is forced: the answer of any age has its reason.
LEMMA BusyMeansForced ==
    ASSUME SharingInv, NEW t \in Callers, stage[t] = "lock", Unforced(t), laddering
    PROVE  ForcedRuns(t)
<1>1. PICK u \in Callers : Inside = {u}
  BY DEF SharingInv, HeldByOne
<1>2. stage[u] \in {"measure", "reset"} /\ u # t
  BY <1>1 DEF Inside
<1>3. t \in Flying
  BY Standing DEF Unforced
<1>4. u \notin Flying
  BY <1>2, <1>3 DEF SharingInv, HeldByOne
<1>5. kind[u] = "forced"
  BY <1>2, <1>4, Standing
<1>6. QED
  BY <1>2, <1>5 DEF ForcedRuns

LEMMA TakeKeeps == ASSUME SharingInv, NEW t \in Callers, TakeLadder(t) PROVE SharingInv'
<1>1. ThreadsOK /\ stage[t] = "lock" /\ kind' = kind /\ UNCHANGED <<inflight, cacheAge>>
  BY DEF SharingInv, TakeLadder, resultVars
<1>2. t \notin Inside /\ (t \in Flying <=> kind[t] # "forced")
  BY <1>1, Standing
<1>3. CASE ~laddering
  <2>1. laddering' = TRUE /\ late' = late /\ Turns(t, "measure", kind[t]) /\ kind[t] \in Kinds
    BY <1>1, <1>3, SameKind DEF TakeLadder
  <2>2. CallsOK' /\ Inside' = Inside \cup {t} /\ Flying' = Flying
    BY <1>1, <1>2, <2>1, Enters
  <2>3. Inside = {}
    BY <1>3 DEF SharingInv, HeldByOne
  <2>4. ThreadsOK'
    BY <1>1, <2>1, <2>2 DEF ThreadsOK
  <2>5. HeldByOne(inflight, Flying)' /\ HeldByOne(laddering, Inside)'
    BY <1>1, <2>1, <2>2, <2>3 DEF SharingInv, HeldByOne
  <2>6. QED
    BY <2>1, <2>4, <2>5 DEF SharingInv
<1>4. CASE laddering /\ ~Unforced(t)
  <2>1. laddering' = laddering /\ late' = late /\ Turns(t, "answered", kind[t]) /\ kind[t] \in Kinds
    BY <1>1, <1>4, SameKind DEF TakeLadder
  <2>2. CallsOK' /\ Inside' = Inside /\ Flying' = Flying
    BY <1>1, <1>2, <1>4, <2>1, Rests DEF Unforced
  <2>3. QED
    BY <1>1, <2>1, <2>2 DEF SharingInv, ThreadsOK, HeldByOne
<1>5. CASE laddering /\ Unforced(t)
  <2>1. laddering' = laddering /\ Turns(t, "leave", kind[t]) /\ kind[t] \in Kinds
    BY <1>1, <1>5, SameKind DEF TakeLadder
  <2>2. CallsOK' /\ Inside' = Inside /\ Flying' = Flying
    BY <1>1, <1>2, <1>5, <2>1, Nears DEF Unforced
  <2>3. late' \in [Callers -> BOOLEAN] /\ \A u \in Callers : ~late'[u]
    <3>1. CASE FromCache(t)
      BY <1>1, <1>5, <3>1, BusyMeansForced, OnTime
    <3>2. CASE late' = late
      BY <1>1, <3>2 DEF SharingInv, ThreadsOK
    <3>3. QED
      BY <1>5, <3>1, <3>2 DEF TakeLadder
  <2>4. QED
    BY <1>1, <2>1, <2>2, <2>3 DEF SharingInv, ThreadsOK, HeldByOne
<1>6. QED
  BY <1>1, <1>3, <1>4, <1>5 DEF SharingInv, ThreadsOK

LEMMA MeasureKeeps == ASSUME SharingInv, NEW t \in Callers, Measure(t) PROVE SharingInv'
<1>1. ThreadsOK /\ stage[t] = "measure" /\ Turns(t, "reset", kind[t]) /\ kind[t] \in Kinds
  BY SameKind DEF SharingInv, Measure
<1>2. UNCHANGED <<late, inflight, laddering>>
  BY DEF Measure
<1>3. cacheAge' \in Nat
  BY DEF Measure, resultVars, SharingInv, ThreadsOK
<1>4. CallsOK' /\ Inside' = Inside /\ Flying' = Flying
  BY <1>1, Standing, Enters
<1>5. QED
  BY <1>2, <1>3, <1>4 DEF SharingInv, ThreadsOK, HeldByOne

LEMMA ResetKeeps == ASSUME SharingInv, NEW t \in Callers, Reset(t) PROVE SharingInv'
<1>1. ThreadsOK /\ stage[t] = "reset" /\ kind' = kind /\ UNCHANGED <<late, inflight, cacheAge>> /\ laddering' = FALSE
  BY DEF SharingInv, Reset, resultVars
<1>2. t \in Inside /\ (t \in Flying <=> kind[t] # "forced")
  BY <1>1, Standing
<1>3. CallsOK' /\ Inside' = Inside \ {t} /\ Flying' = Flying
  <2>1. CASE Unforced(t)
    <3>1. Turns(t, "leave", kind[t]) /\ kind[t] \in Kinds
      BY <1>1, <2>1, SameKind DEF Reset
    <3>2. QED
      BY <1>1, <1>2, <2>1, <3>1, Nears DEF Unforced
  <2>2. CASE ~Unforced(t)
    <3>1. Turns(t, "answered", kind[t]) /\ kind[t] \in Kinds
      BY <1>1, <2>2, SameKind DEF Reset
    <3>2. QED
      BY <1>1, <1>2, <2>2, <3>1, Rests DEF Unforced
  <2>3. QED
    BY <2>1, <2>2
<1>4. Inside = {t}
  BY <1>2 DEF SharingInv, HeldByOne
<1>5. ThreadsOK'
  BY <1>1, <1>3 DEF ThreadsOK
<1>6. HeldByOne(inflight, Flying)' /\ HeldByOne(laddering, Inside)'
  BY <1>1, <1>3, <1>4 DEF SharingInv, HeldByOne
<1>7. QED
  BY <1>1, <1>5, <1>6 DEF SharingInv

LEMMA LeaveKeeps == ASSUME SharingInv, NEW t \in Callers, Leave(t) PROVE SharingInv'
<1>1. ThreadsOK /\ stage[t] = "leave" /\ Turns(t, "answered", kind[t]) /\ kind[t] \in Kinds
  BY SameKind DEF SharingInv, Leave
<1>2. UNCHANGED <<late, laddering, cacheAge>> /\ inflight' = FALSE
  BY DEF Leave, resultVars
<1>3. t \notin Inside /\ t \in Flying
  BY <1>1, Standing DEF ThreadsOK, CallsOK
<1>4. CallsOK' /\ Inside' = Inside /\ Flying' = Flying \ {t}
  BY <1>1, <1>3, Rests
<1>5. Flying = {t}
  BY <1>3 DEF SharingInv, HeldByOne
<1>6. ThreadsOK'
  BY <1>1, <1>2, <1>4 DEF ThreadsOK
<1>7. HeldByOne(inflight, Flying)' /\ HeldByOne(laddering, Inside)'
  BY <1>2, <1>4, <1>5 DEF SharingInv, HeldByOne
<1>8. QED
  BY <1>2, <1>6, <1>7 DEF SharingInv

LEMMA UseKeeps == ASSUME SharingInv, NEW t \in Callers, Use(t) PROVE SharingInv'
<1>1. ThreadsOK /\ stage[t] = "answered" /\ Turns(t, "idle", kind[t]) /\ kind[t] \in Kinds
  BY SameKind DEF SharingInv, Use
<1>2. UNCHANGED <<inflight, laddering, cacheAge>> /\ late' = [late EXCEPT ![t] = FALSE]
  BY DEF Use, resultVars
<1>3. late' \in [Callers -> BOOLEAN] /\ \A u \in Callers : ~late'[u]
  BY <1>2 DEF SharingInv, ThreadsOK
<1>4. CallsOK' /\ Inside' = Inside /\ Flying' = Flying
  BY <1>1, Standing, Rests
<1>5. QED
  BY <1>2, <1>3, <1>4 DEF SharingInv, ThreadsOK, HeldByOne

\* Time passes, or nothing happens.
LEMMA TickKeeps ==
    ASSUME SharingInv, UNCHANGED <<stage, kind, late, inflight, laddering>>, cacheAge' \in Nat
    PROVE  SharingInv'
<1>1. Inside' = Inside /\ Flying' = Flying
  BY DEF Inside, Flying, Unforced
<1>2. QED
  BY <1>1 DEF SharingInv, ThreadsOK, CallsOK, HeldByOne

LEMMA CacheNextHolds == SharingInv /\ [CacheNext]_cacheVars => SharingInv'
<1> SUFFICES ASSUME SharingInv, [CacheNext]_cacheVars PROVE SharingInv'
  OBVIOUS
<1>1. CASE \E t \in Callers, k \in Kinds : Call(t, k)
  BY <1>1, CallKeeps
<1>2. ASSUME NEW t \in Callers, Wake(t) \/ TakeLadder(t) \/ Measure(t) \/ Reset(t) \/ Leave(t) \/ Use(t)
      PROVE  SharingInv'
  BY <1>2, WakeKeeps, TakeKeeps, MeasureKeeps, ResetKeeps, LeaveKeeps, UseKeeps
<1>3. CASE Tick
  <2>1. UNCHANGED <<stage, kind, late, inflight, laddering>> /\ cacheAge' \in Nat
    BY <1>3 DEF Tick, callerVars, SharingInv, ThreadsOK
  <2>2. QED
    BY <2>1, TickKeeps
<1>4. CASE UNCHANGED cacheVars
  <2>1. UNCHANGED <<stage, kind, late, inflight, laddering>> /\ cacheAge' \in Nat
    BY <1>4 DEF cacheVars, callerVars, resultVars, SharingInv, ThreadsOK
  <2>2. QED
    BY <2>1, TickKeeps
<1>5. QED
  BY <1>1, <1>2, <1>3, <1>4 DEF CacheNext

-----------------------------------------------------------------------------
(* Theorems.                                                               *)

\* The invariant holds in every reachable state.
THEOREM SharingInvariance == CacheSpec => []SharingInv
<1>1. QED
  BY CacheInitHolds, CacheNextHolds, PTL DEF CacheSpec

\* _ladder_inflight and run_in_progress are set exactly while one unforced
\* caller and one caller are behind them, whatever raises, and no answer is
\* older than ladder_cache_seconds unless a forced diagnosis has the ladder.
THEOREM LadderAlwaysShared == CacheSpec => []LadderIsShared
<1>1. SharingInv => LadderIsShared
  <2> SUFFICES ASSUME SharingInv PROVE LadderIsShared
    OBVIOUS
  <2>1. ASSUME NEW flag, flag \in BOOLEAN, NEW S, HeldByOne(flag, S)
        PROVE  Cardinality(S) = IF flag THEN 1 ELSE 0
    BY <2>1, FS_EmptySet, FS_Singleton DEF HeldByOne
  <2>2. Cardinality(Flying) = (IF inflight THEN 1 ELSE 0) /\ Cardinality(Inside) = (IF laddering THEN 1 ELSE 0)
    BY <2>1 DEF SharingInv, ThreadsOK
  <2>3. QED
    BY <2>2 DEF LadderIsShared, Flying, Inside, SharingInv
<1>2. QED
  BY <1>1, SharingInvariance, PTL

-----------------------------------------------------------------------------
(***************************************************************************)
(* Proofs about the load test: for every budget, number of addresses and   *)
(* number of samples, what is graded was measured on the loaded link and   *)
(* the budget is kept.  The downloader and the sampler have no lock in     *)
(* common; the invariant says what each may conclude from the other's      *)
(* counter and flag whenever it reads them.                                *)
(***************************************************************************)

\* What the downloader has asked for still fits the budget.
BudgetInv == bytes \in Nat /\ chunk \in Nat /\ bytes + chunk <= MaxBytes

\* Every sample that counts has a byte of its own, read before the last look.
SamplesInv ==
    /\ seen \in Nat /\ seen <= bytes
    /\ active \in Nat /\ lost \in Nat /\ active + lost <= seen

\* A probe that began on an idle line can count once: the bytes it is counted
\* for are the last ones, and the look at its end has seen them.
IdleInv ==
    /\ idle \in Nat /\ idle <= 1
    /\ probe = "idlePing" => fetch = "done"
    /\ idle = 1 => fetch = "done" /\ seen = bytes
    /\ probe = "off" => idle = 0

\* The inductive invariant of LoadIsReal.
LoadInv == BudgetInv /\ SamplesInv /\ IdleInv

\* The inductive invariant of LoadTypeOK: a ping is only sent below the limit.
LoadTypeInv == LoadTypeOK /\ LoadInv /\ (probe \in Pinging => active < MaxSamples)

USE LoadAssumption DEF LoadAssumption, Pinging, Buffer

LEMMA LoadInitHolds == LoadInit => LoadTypeInv
BY DEF LoadInit, LoadTypeInv, LoadTypeOK, LoadInv, BudgetInv, SamplesInv, IdleInv

\* The downloader keeps the budget; nothing it does withdraws a byte, and it
\* does nothing once it is done.
LEMMA DownloaderKeeps ==
    ASSUME LoadTypeInv, Request \/ AskChunk \/ ChunkRead \/ ResponseOver
    PROVE  LoadTypeInv'
<1> USE DEF LoadTypeInv
<1>1. UNCHANGED <<deadline, graded, sampler>>
  BY DEF Request, AskChunk, ChunkRead, ResponseOver
<1>2. fetch # "done" /\ probe # "idlePing" /\ idle = 0
  BY DEF Request, AskChunk, ChunkRead, ResponseOver, LoadInv, IdleInv
<1>3. BudgetInv' /\ bytes' >= bytes
  <2>1. CASE Request
    BY <2>1 DEF Request, NextAddress, LoadInv, BudgetInv
  <2>2. CASE AskChunk
    BY <2>2 DEF AskChunk, StillGoing, Buffer, LoadInv, BudgetInv
  <2>3. CASE ChunkRead
    BY <2>3 DEF ChunkRead, LoadInv, BudgetInv
  <2>4. CASE ResponseOver
    BY <2>4 DEF ResponseOver, NextAddress, LoadInv, BudgetInv
  <2> QED
    BY <2>1, <2>2, <2>3, <2>4
<1>4. SamplesInv'
  BY <1>1, <1>3 DEF LoadInv, SamplesInv, BudgetInv, sampler
<1>5. IdleInv'
  BY <1>1, <1>2 DEF LoadInv, IdleInv, sampler
<1>6. address' \in 1..Addresses /\ chunk' \in 0..Buffer /\ trouble' \in {"none", "some"}
      /\ fetch' \in {"off", "request", "reading", "blocked", "done"}
  <2>1. CASE Request
    BY <2>1 DEF Request, NextAddress, LoadTypeOK
  <2>2. CASE AskChunk
    BY <2>2 DEF AskChunk, StillGoing, Buffer, LoadTypeOK, LoadInv, BudgetInv
  <2>3. CASE ChunkRead
    BY <2>3 DEF ChunkRead, LoadTypeOK
  <2>4. CASE ResponseOver
    BY <2>4 DEF ResponseOver, NextAddress, LoadTypeOK
  <2> QED
    BY <2>1, <2>2, <2>3, <2>4
<1>7. LoadTypeOK'
  BY <1>1, <1>3, <1>4, <1>6 DEF LoadTypeOK, sampler, BudgetInv, SamplesInv
<1> QED
  BY <1>1, <1>3, <1>4, <1>5, <1>7 DEF LoadInv, sampler

\* The end of a ping: it counts for bytes it is the first to see.
LEMMA ProbeEndKeeps ==
    ASSUME LoadTypeInv, ProbeEnd PROVE LoadTypeInv'
<1> USE DEF LoadTypeInv
<1>1. BudgetInv'
  BY DEF ProbeEnd, downloader, LoadInv, BudgetInv
<1>2. SamplesInv'
  BY DEF ProbeEnd, downloader, LoadInv, BudgetInv, SamplesInv
<1>3. IdleInv'
  <2>1. CASE bytes > seen
    <3>1. idle = 0
      BY <2>1 DEF LoadInv, IdleInv, SamplesInv, BudgetInv
    <3>2. idle' \in {0, 1} /\ (idle' = 1 => probe = "idlePing")
      BY <2>1, <3>1 DEF ProbeEnd, LoadTypeOK
    <3> QED
      BY <3>2 DEF ProbeEnd, downloader, LoadInv, IdleInv
  <2>2. CASE ~(bytes > seen)
    BY <2>2 DEF ProbeEnd, downloader, LoadInv, IdleInv, SamplesInv, BudgetInv
  <2> QED
    BY <2>1, <2>2
<1>4. LoadTypeOK' /\ probe' \notin Pinging
  BY DEF ProbeEnd, downloader, LoadTypeOK, LoadInv, SamplesInv, BudgetInv
<1> QED
  BY <1>1, <1>2, <1>3, <1>4 DEF LoadInv

\* Every other step reads the other thread's state and counts nothing.
LEMMA OthersKeep ==
    ASSUME LoadTypeInv,
           LoadStart \/ DeadlinePasses \/ ProbeBegin \/ AskDone \/ StopDownload \/ Grade
    PROVE  LoadTypeInv'
<1> USE DEF LoadTypeInv
<1>1. UNCHANGED <<bytes, chunk, address, trouble, seen, active, lost, idle>>
  BY DEF LoadStart, DeadlinePasses, ProbeBegin, AskDone, StopDownload, Grade, downloader, sampler
<1>2. BudgetInv' /\ SamplesInv'
  BY <1>1 DEF LoadInv, BudgetInv, SamplesInv
<1>3. IdleInv'
  <2>1. CASE LoadStart
    BY <1>1, <2>1 DEF LoadStart, LoadInv, IdleInv
  <2>2. CASE ProbeBegin
    BY <1>1, <2>2 DEF ProbeBegin, Ping, Pinging, downloader, LoadInv, IdleInv
  <2>3. CASE DeadlinePasses \/ AskDone \/ StopDownload \/ Grade
    BY <1>1, <2>3 DEF DeadlinePasses, AskDone, StopDownload, Grade, downloader, sampler, LoadInv, IdleInv
  <2> QED
    BY <2>1, <2>2, <2>3
<1>4. LoadTypeOK' /\ (probe' \in Pinging => active' < MaxSamples)
  <2>1. CASE LoadStart
    BY <1>1, <2>1 DEF LoadStart, LoadTypeOK
  <2>2. CASE ProbeBegin
    BY <1>1, <2>2 DEF ProbeBegin, Ping, Pinging, downloader, LoadTypeOK
  <2>3. CASE DeadlinePasses \/ AskDone \/ StopDownload \/ Grade
    BY <1>1, <2>3 DEF DeadlinePasses, AskDone, StopDownload, Grade, downloader, sampler, LoadTypeOK
  <2> QED
    BY <2>1, <2>2, <2>3
<1> QED
  BY <1>2, <1>3, <1>4 DEF LoadInv

LEMMA LoadNextHolds == LoadTypeInv /\ [LoadNext]_loadVars => LoadTypeInv'
<1> SUFFICES ASSUME LoadTypeInv, [LoadNext]_loadVars PROVE LoadTypeInv'
  OBVIOUS
<1>1. CASE LoadNext
  BY <1>1, DownloaderKeeps, ProbeEndKeeps, OthersKeep DEF LoadNext
<1>2. CASE UNCHANGED loadVars
  BY <1>2 DEF loadVars, LoadTypeInv, LoadTypeOK, LoadInv, BudgetInv, SamplesInv, IdleInv
<1> QED
  BY <1>1, <1>2

\* The invariant of the load test, for every value of the constants.
THEOREM LoadInvariance == LoadSpec => []LoadTypeInv
<1>1. QED
  BY LoadInitHolds, LoadNextHolds, PTL DEF LoadSpec

\* LoadIsReal: the byte budget bounds the whole test, at most one graded probe
\* began on an idle line, and each has bytes of its own that arrived.
THEOREM LoadIsRealAlways == LoadSpec => []LoadIsReal
<1>1. LoadTypeInv => LoadIsReal
  BY DEF LoadTypeInv, LoadInv, BudgetInv, SamplesInv, IdleInv, LoadIsReal
<1> QED
  BY LoadInvariance, <1>1, PTL

\* LoadTypeOK, the load test's part of UpkeepTypeOK.
THEOREM LoadTypeCorrect == LoadSpec => []LoadTypeOK
<1>1. LoadTypeInv => LoadTypeOK
  BY DEF LoadTypeInv
<1> QED
  BY LoadInvariance, <1>1, PTL

-----------------------------------------------------------------------------
(* Types of the callers and the results.  An answer is a run that was made, *)
(* so whatever is observed is one of 1..ran.                                *)

TallyInv ==
    /\ ran \in 0..MaxRuns /\ cacheRun \in 0..ran /\ cacheAge \in 0..(Ttl + 1)
    /\ got \in [Callers -> 0..ran]
    /\ faulty \subseteq 1..ran /\ counted \subseteq 1..ran /\ clear \in 0..1

\* Being answered from the cache.
LEMMA CachedAnswer ==
    ASSUME TallyInv, NEW t \in Callers, FromCache(t) \/ UNCHANGED got
    PROVE  got' \in [Callers -> 0..ran]
BY DEF TallyInv, FromCache

\* What neither measures nor observes.
LEMMA OnlyAnswers ==
    ASSUME TallyInv, NEW t \in Callers, FromCache(t) \/ UNCHANGED got, UNCHANGED <<resultVars, trackerVars>>
    PROVE  TallyInv'
<1>1. got' \in [Callers -> 0..ran]
  BY CachedAnswer
<1>2. QED
  BY <1>1 DEF TallyInv, resultVars, trackerVars

LEMMA MeasureCounts == ASSUME TallyInv, NEW t \in Callers, Measure(t) PROVE TallyInv'
<1> USE CacheAssumption DEF CacheAssumption
<1>1. CASE UNCHANGED <<resultVars, got>>
  BY <1>1 DEF Measure, TallyInv, resultVars, trackerVars
<1>2. CASE /\ ran < MaxRuns
           /\ ran' = ran + 1 /\ faulty' \in {faulty, faulty \cup {ran + 1}}
           /\ cacheRun' = ran + 1 /\ cacheAge' = 0
           /\ got' = [got EXCEPT ![t] = ran + 1]
  <2>1. ran' \in 0..MaxRuns /\ cacheRun' \in 0..ran' /\ cacheAge' \in 0..(Ttl + 1)
    BY <1>2 DEF TallyInv
  <2>2. 0..ran \subseteq 0..ran' /\ 1..ran \subseteq 1..ran' /\ ran + 1 \in 1..ran' /\ ran + 1 \in 0..ran'
    BY <1>2 DEF TallyInv
  <2>3. got' \in [Callers -> 0..ran']
    <3>1. got \in [Callers -> 0..ran']
      BY <2>2 DEF TallyInv
    <3>2. QED
      BY <1>2, <2>2, <3>1
  <2>4. faulty' \subseteq 1..ran' /\ counted' \subseteq 1..ran' /\ clear' \in 0..1
    BY <1>2, <2>2 DEF Measure, TallyInv, trackerVars
  <2>5. QED
    BY <2>1, <2>3, <2>4 DEF TallyInv
<1>3. QED
  BY <1>1, <1>2 DEF Measure

LEMMA UseCounts == ASSUME TallyInv, NEW t \in Callers, Use(t) PROVE TallyInv'
<1>1. got' \in [Callers -> 0..ran]
  BY DEF Use, TallyInv
<1>2. counted' \subseteq 1..ran /\ clear' \in 0..1
  <2>1. CASE UNCHANGED trackerVars
    BY <2>1 DEF TallyInv, trackerVars
  <2>2. ASSUME got[t] # 0, Observe(got[t]) PROVE counted' \subseteq 1..ran /\ clear' \in 0..1
    <3>1. got[t] \in 1..ran
      BY <2>2 DEF TallyInv
    <3>2. CASE got[t] \in faulty
      BY <2>2, <3>2 DEF Observe
    <3>3. CASE got[t] \notin faulty
      <4>1. counted' = IF outage THEN counted \cup {got[t]} ELSE {}
        BY <2>2, <3>3 DEF Observe
      <4>2. clear' \in {0, 1}
        BY <2>2, <3>3 DEF Observe
      <4>3. counted \cup {got[t]} \subseteq 1..ran
        BY <3>1 DEF TallyInv
      <4>4. counted' = counted \cup {got[t]} \/ counted' = {}
        BY <4>1
      <4>5. QED
        BY <4>2, <4>3, <4>4
    <3>4. QED
      BY <3>2, <3>3
  <2>3. QED
    BY <2>1, <2>2 DEF Use
<1>3. QED
  BY <1>1, <1>2 DEF Use, TallyInv, resultVars

LEMMA TallyNextHolds == TallyInv /\ [CacheNext]_cacheVars => TallyInv'
<1> SUFFICES ASSUME TallyInv, [CacheNext]_cacheVars PROVE TallyInv'
  OBVIOUS
<1>1. ASSUME NEW t \in Callers, Share(t) PROVE FromCache(t) \/ UNCHANGED got
  BY <1>1 DEF Share
<1>2. ASSUME NEW t \in Callers, NEW k \in Kinds, Call(t, k) PROVE TallyInv'
  BY <1>1, <1>2, OnlyAnswers DEF Call
<1>3. ASSUME NEW t \in Callers, Wake(t) PROVE TallyInv'
  BY <1>1, <1>3, OnlyAnswers DEF Wake
<1>4. ASSUME NEW t \in Callers, TakeLadder(t) PROVE TallyInv'
  BY <1>4, OnlyAnswers DEF TakeLadder
<1>5. ASSUME NEW t \in Callers, Reset(t) \/ Leave(t) PROVE TallyInv'
  BY <1>5, OnlyAnswers DEF Reset, Leave
<1>6. CASE Tick
  BY <1>6, CacheAssumption DEF Tick, TallyInv, callerVars, trackerVars, CacheAssumption
<1>7. CASE UNCHANGED cacheVars
  BY <1>7 DEF cacheVars, callerVars, resultVars, trackerVars, TallyInv
<1>8. QED
  BY <1>2, <1>3, <1>4, <1>5, <1>6, <1>7, MeasureCounts, UseCounts DEF CacheNext

LEMMA TallyInitHolds == CacheInit => TallyInv
BY CacheAssumption DEF CacheInit, TallyInv, CacheAssumption

LEMMA TallyTypes == SharingInv /\ TallyInv => CacheTypeOK
<1> SUFFICES ASSUME SharingInv, TallyInv PROVE CacheTypeOK
  OBVIOUS
<1>1. stage \in [Callers -> {"idle", "wait", "lock", "measure", "reset", "leave", "answered"}] /\ kind \in [Callers -> Kinds]
  BY DEF SharingInv, ThreadsOK, CallsOK, Stages
<1>2. got \in [Callers -> 0..MaxRuns]
  BY CacheAssumption DEF TallyInv, CacheAssumption
<1>3. QED
  BY <1>1, <1>2 DEF CacheTypeOK, TallyInv

\* CacheTypeOK: every answer is 0 or a run that was made, and what the tracker
\* counted were runs of its own.
THEOREM CacheTypeCorrect == CacheSpec => []CacheTypeOK
<1>1. CacheSpec => []TallyInv
  BY TallyInitHolds, TallyNextHolds, PTL DEF CacheSpec
<1>2. QED
  BY <1>1, TallyTypes, SharingInvariance, PTL

-----------------------------------------------------------------------------
(***************************************************************************)
(* The fault ladder, for any targets, any set of broken parts and any      *)
(* configuration.  A ladder under which nothing changed holds, at each     *)
(* rung it has climbed, a result that rung may report of the network as it *)
(* is; the verdict is the first branch that those results fulfil.  What a  *)
(* verdict then says of the network follows from what a result says of it. *)
(***************************************************************************)

Names == {Rungs[i] : i \in DOMAIN Rungs}
Statuses == {"passed", "failed", "skipped", "partial", "degraded"}

\* What is reported is what the network shows, if it held still.
Reports == turns = 0 => \A i \in 1..(rung - 1) : checks[Rungs[i]] \in Results(Rungs[i])

\* The verdict is the first branch that holds of the eight results.
Judged ==
    named # "none" =>
        /\ rung = Len(Rungs) + 1 /\ level = Confidence
        /\ \E i \in DOMAIN Verdicts :
              /\ Verdicts[i].when /\ \A j \in 1..(i - 1) : ~Verdicts[j].when
              /\ named = Verdicts[i].code

LadderInv ==
    /\ LadderTypeOK /\ checks \in [Names -> Statuses \cup {"none"}]
    /\ Reports /\ Judged

-----------------------------------------------------------------------------
(* The tables the ladder is built from.                                    *)

LEMMA RungTable ==
    /\ Len(Rungs) = 8 /\ DOMAIN Rungs = 1..8
    /\ Rungs[1] = "power" /\ Rungs[2] = "link" /\ Rungs[3] = "gateway" /\ Rungs[4] = "router_wlan"
    /\ Rungs[5] = "local_dns" /\ Rungs[6] = "upstream_dns" /\ Rungs[7] = "raw_ping" /\ Rungs[8] = "https"
BY DEF Rungs

LEMMA RungNames ==
    Names = {"power", "link", "gateway", "router_wlan", "local_dns", "upstream_dns", "raw_ping", "https"}
<1>1. \A i \in 1..8 : i \in {1, 2, 3, 4, 5, 6, 7, 8}
  OBVIOUS
<1>2. QED
  BY <1>1, RungTable DEF Names

LEMMA ResultTable ==
    /\ Results("power") = PowerResults /\ Results("link") = LinkResults
    /\ Results("gateway") = GatewayResults /\ Results("router_wlan") = WlanResults
    /\ Results("local_dns") = LocalDnsResults
    /\ \A r \in {"upstream_dns", "raw_ping", "https"} : Results(r) = BeyondResults(r)
BY DEF Results

\* The twelve branches of verdict.
LEMMA VerdictTable ==
    /\ Verdicts[1].when = Failed("link")
    /\ Verdicts[2].when = Failed("gateway")
    /\ Verdicts[3].when = (\A r \in {"upstream_dns", "raw_ping", "https"} : Failed(r))
    /\ Verdicts[4].when = (Failed("upstream_dns") /\ Failed("raw_ping"))
    /\ Verdicts[5].when = (Failed("local_dns") /\ ~Failed("upstream_dns"))
    /\ Verdicts[6].when = Failed("upstream_dns")
    /\ Verdicts[7].when = Failed("raw_ping")
    /\ Verdicts[8].when = Failed("https")
    /\ Verdicts[9].when = Failed("power")
    /\ Verdicts[10].when = (checks["link"] = "degraded")
    /\ Verdicts[11].when = Failed("router_wlan")
<1>1. Verdicts[1].when = Failed("link")
  BY DEF Verdicts
<1>2. Verdicts[2].when = Failed("gateway")
  BY DEF Verdicts
<1>3. Verdicts[3].when = (\A r \in {"upstream_dns", "raw_ping", "https"} : Failed(r))
  BY DEF Verdicts
<1>4. Verdicts[4].when = (Failed("upstream_dns") /\ Failed("raw_ping"))
  BY DEF Verdicts
<1>5. Verdicts[5].when = (Failed("local_dns") /\ ~Failed("upstream_dns"))
  BY DEF Verdicts
<1>6. Verdicts[6].when = Failed("upstream_dns")
  BY DEF Verdicts
<1>7. Verdicts[7].when = Failed("raw_ping")
  BY DEF Verdicts
<1>8. Verdicts[8].when = Failed("https")
  BY DEF Verdicts
<1>9. Verdicts[9].when = Failed("power")
  BY DEF Verdicts
<1>10. Verdicts[10].when = (checks["link"] = "degraded")
  BY DEF Verdicts, Failed
<1>11. Verdicts[11].when = Failed("router_wlan")
  BY DEF Verdicts
<1>12. QED
  BY <1>1, <1>2, <1>3, <1>4, <1>5, <1>6, <1>7, <1>8, <1>9, <1>10, <1>11

LEMMA CodeTable ==
    /\ DOMAIN Verdicts = 1..12
    /\ Verdicts[1].code = "pi_link" /\ Verdicts[2].code = "router_down" /\ Verdicts[3].code = "wan_down"
    /\ Verdicts[4].code = "restricted_connectivity" /\ Verdicts[5].code = "local_dns_broken"
    /\ Verdicts[6].code = "upstream_dns_down" /\ Verdicts[7].code = "partial_routing"
    /\ Verdicts[8].code = "web_broken" /\ Verdicts[9].code = "host_power"
    /\ Verdicts[10].code = "link_degraded" /\ Verdicts[11].code = "router_wlan_down"
    /\ Verdicts[12].code = "all_clear"
BY DEF Verdicts

\* What a group of probes adds up to.
LEMMA GroupStatus ==
    ASSUME NEW l, NEW s PROVE GroupResult(l, s) \in {"passed", "failed", "partial"}
BY DEF GroupResult

\* A rung reports a status.
LEMMA ResultStatus == ASSUME NEW i \in 1..8, NEW s \in Results(Rungs[i]) PROVE s \in Statuses
<1>1. i \in {1, 2, 3, 4, 5, 6, 7, 8}
  OBVIOUS
<1>2. CASE i = 1
  BY <1>2, RungTable, ResultTable DEF PowerResults, Statuses
<1>3. CASE i = 2
  BY <1>3, RungTable, ResultTable DEF LinkResults, Statuses
<1>4. CASE i = 3
  BY <1>4, RungTable, ResultTable DEF GatewayResults, Statuses
<1>5. CASE i = 4
  BY <1>5, RungTable, ResultTable, GroupStatus DEF WlanResults, Statuses
<1>6. CASE i = 5
  BY <1>6, RungTable, ResultTable DEF LocalDnsResults, LocalDnsResult, Statuses
<1>7. CASE i \in {6, 7, 8}
  <2>1. Results(Rungs[i]) = BeyondResults(Rungs[i])
    BY <1>7, RungTable, ResultTable
  <2>2. QED
    BY <2>1, GroupStatus DEF BeyondResults, Statuses
<1>8. QED
  BY <1>1, <1>2, <1>3, <1>4, <1>5, <1>6, <1>7

\* While nothing changes, what a rung may report stays: the witnesses of the
\* Wi-Fi look at the gateway's rung, the others at the network alone.
LEMMA ResultsStand ==
    ASSUME NEW r \in Names, UNCHANGED <<down, config>>,
           r = "router_wlan" => UNCHANGED checks["gateway"]
    PROVE  UNCHANGED Results(r)
<1>1. \A l : UNCHANGED Working(l) /\ (Broken(l)' <=> Broken(l))
  BY DEF Working, Broken
<1>2. CASE r = "power"
  BY <1>1, <1>2 DEF Results, PowerResults, BadSensors
<1>3. CASE r = "link"
  BY <1>3 DEF Results, LinkResults, Negotiated, Broken
<1>4. (Lan' <=> Lan) /\ (Wan' <=> Wan)
  BY DEF Lan, Wan, Broken
<1>5. CASE r = "gateway"
  BY <1>4, <1>5 DEF Results, GatewayResults
<1>6. CASE r = "router_wlan"
  BY <1>1, <1>4, <1>6 DEF Results, WlanResults, GroupResult
<1>7. CASE r = "local_dns"
  <2>1. UNCHANGED LocalDnsAnswers
    BY <1>4 DEF LocalDnsAnswers, Broken
  <2>2. \A p, a : UNCHANGED LocalDnsResult(p, a)
    BY DEF LocalDnsResult, EffectiveProvider, KnownService, Broken
  <2>3. UNCHANGED LocalDnsResults
    BY <2>1, <2>2 DEF LocalDnsResults
  <2>4. QED
    BY <1>7, <2>3 DEF Results
<1>8. CASE r \in {"upstream_dns", "raw_ping", "https"}
  <2>1. UNCHANGED BeyondResults(r)
    BY <1>1, <1>4 DEF BeyondResults, Fetched, Broken, GroupResult, Working
  <2>2. QED
    BY <1>8, <2>1 DEF Results
<1>9. QED
  BY <1>2, <1>3, <1>5, <1>6, <1>7, <1>8, RungNames

-----------------------------------------------------------------------------
(* The invariant.                                                          *)

LEMMA LadderInitHolds == LadderInit => LadderInv
<1> SUFFICES ASSUME LadderInit PROVE LadderInv
  OBVIOUS
<1>1. LadderTypeOK
  BY RungTable, LadderAssumption DEF LadderInit, LadderTypeOK, LadderAssumption
<1>2. checks \in [Names -> Statuses \cup {"none"}]
  BY DEF LadderInit, Names
<1>3. Reports /\ Judged
  BY DEF LadderInit, Reports, Judged
<1>4. QED
  BY <1>1, <1>2, <1>3 DEF LadderInv

\* The verdict is drawn from the rungs alone.
LEMMA VerdictStands ==
    ASSUME UNCHANGED checks
    PROVE  UNCHANGED Verdicts /\ UNCHANGED Confidence
BY DEF Verdicts, Confidence, Failed

\* Nothing the reports look at has changed.
LEMMA ReportsStand ==
    ASSUME LadderInv, UNCHANGED <<down, config, rung, checks, turns>>
    PROVE  Reports'
<1>1. rung \in 1..9
  BY RungTable DEF LadderInv, LadderTypeOK
<1> SUFFICES ASSUME turns = 0, NEW i \in 1..(rung - 1)
             PROVE  (checks[Rungs[i]] \in Results(Rungs[i]))'
  BY DEF Reports
<1>2. i \in DOMAIN Rungs
  BY <1>1, RungTable
<1> DEFINE r == Rungs[i]
<1>3. r \in Names
  BY <1>2 DEF Names
<1>4. UNCHANGED Results(r)
  BY <1>3, ResultsStand
<1>5. QED
  BY <1>4 DEF LadderInv, Reports

LEMMA ClimbKeeps == LadderInv /\ Climb => LadderInv'
<1> SUFFICES ASSUME LadderInv, Climb PROVE LadderInv'
  OBVIOUS
<1>1. rung \in 1..8 /\ rung' = rung + 1 /\ named = "none" /\ UNCHANGED <<down, config, named, level, turns>>
  BY RungTable DEF Climb, LadderInv, LadderTypeOK, Judged
<1>2. PICK s \in Results(Rungs[rung]) : checks' = [checks EXCEPT ![Rungs[rung]] = s]
  BY DEF Climb
<1>3. PICK now \in 1..8 : now = rung
  BY <1>1
<1>4. s \in Statuses /\ Rungs[now] \in Names
  BY <1>2, <1>3, ResultStatus, RungTable DEF Names
<1>5. checks' \in [Names -> Statuses \cup {"none"}] /\ checks'[Rungs[now]] = s
      /\ \A n \in Names : n # Rungs[now] => checks'[n] = checks[n]
  BY <1>2, <1>3, <1>4 DEF LadderInv
<1>6. \A i \in 1..8 : Rungs[i] \in Names /\ (Rungs[i] = Rungs[now] => i = now)
  <2>1. \A i \in 1..8 : Rungs[i] \in Names
    BY RungTable DEF Names
  <2>2. \A i, j \in {1, 2, 3, 4, 5, 6, 7, 8} : Rungs[i] = Rungs[j] => i = j
    BY RungTable
  <2>3. \A i \in 1..8 : i \in {1, 2, 3, 4, 5, 6, 7, 8}
    OBVIOUS
  <2>4. QED
    BY <2>1, <2>2, <2>3
<1>7. LadderTypeOK'
  <2>1. \A i \in 1..(rung' - 1) : checks'[Rungs[i]] \in Statuses
    <3> SUFFICES ASSUME NEW i \in 1..(rung' - 1) PROVE checks'[Rungs[i]] \in Statuses
      OBVIOUS
    <3>1. i \in 1..8 /\ (i # now => i \in 1..(rung - 1))
      BY <1>1, <1>3
    <3>2. CASE i = now
      BY <1>4, <1>5, <3>2
    <3>3. CASE i # now
      BY <1>5, <1>6, <3>1, <3>3 DEF LadderInv, LadderTypeOK, Statuses
    <3>4. QED
      BY <3>2, <3>3
  <2>2. rung' \in 1..(Len(Rungs) + 1)
    BY <1>1, RungTable
  <2>3. \A i \in 1..(rung' - 1) :
          checks'[Rungs[i]] \in {"passed", "failed", "skipped", "partial", "degraded"}
    BY <2>1 DEF Statuses
  <2>4. QED
    BY <1>1, <2>2, <2>3 DEF LadderTypeOK, LadderInv
<1>8. Reports'
  <2> SUFFICES ASSUME turns = 0, NEW i \in 1..(rung' - 1)
               PROVE  (checks[Rungs[i]] \in Results(Rungs[i]))'
    BY <1>1 DEF Reports
  <2> DEFINE r == Rungs[i]
  <2>1. i \in 1..8 /\ (i # now => i \in 1..(rung - 1)) /\ i <= now
    BY <1>1, <1>3
  <2>2. r \in Names
    BY <1>6, <2>1
  <2>3. r = "router_wlan" => UNCHANGED checks["gateway"]
    <3>1. SUFFICES ASSUME r = "router_wlan" PROVE now # 3
      BY <1>5, <1>6, RungTable DEF Names
    <3>2. i # 3 /\ i # 2 /\ i # 1
      BY <3>1, RungTable
    <3>3. QED
      BY <2>1, <3>2
  <2>4. UNCHANGED Results(r)
    BY <1>1, <2>2, <2>3, ResultsStand
  <2>5. checks'[r] \in Results(r)
    <3>1. CASE i = now
      BY <1>2, <1>3, <1>5, <3>1
    <3>2. CASE i # now
      BY <1>5, <1>6, <2>1, <3>2 DEF LadderInv, Reports
    <3>3. QED
      BY <3>1, <3>2
  <2>6. QED
    BY <2>4, <2>5
<1>9. QED
  BY <1>1, <1>5, <1>7, <1>8 DEF LadderInv, Judged

LEMMA JudgeKeeps == LadderInv /\ Judge => LadderInv'
<1> SUFFICES ASSUME LadderInv, Judge PROVE LadderInv'
  OBVIOUS
<1>1. rung = Len(Rungs) + 1 /\ level' = Confidence /\ UNCHANGED <<down, config, rung, checks, turns>>
  BY DEF Judge
<1>2. PICK i \in DOMAIN Verdicts :
          /\ Verdicts[i].when /\ \A j \in 1..(i - 1) : ~Verdicts[j].when
          /\ named' = Verdicts[i].code
  BY DEF Judge
<1>3. UNCHANGED Verdicts /\ UNCHANGED Confidence
  BY <1>1, VerdictStands
<1>4. Judged'
  BY <1>1, <1>2, <1>3 DEF Judged
<1>5. Reports'
  BY <1>1, ReportsStand
<1>6. level' \in {"none", "low", "medium", "high"}
  BY <1>1 DEF Confidence
<1>7. named' \in {Verdicts[j].code : j \in DOMAIN Verdicts}'
  BY <1>2, <1>3
<1>8. LadderTypeOK'
  BY <1>1, <1>6, <1>7 DEF LadderTypeOK, LadderInv
<1>9. QED
  BY <1>1, <1>4, <1>5, <1>8 DEF LadderInv

LEMMA TurnsKeeps == LadderInv /\ NetworkTurns => LadderInv'
<1> SUFFICES ASSUME LadderInv, NetworkTurns PROVE LadderInv'
  OBVIOUS
<1>1. turns' \in 0..MaxTurns /\ turns' # 0
  BY LadderAssumption DEF NetworkTurns, LadderInv, LadderTypeOK, LadderAssumption
<1>2. down' \subseteq Parts
  BY DEF NetworkTurns, LadderInv, LadderTypeOK
<1>3. named = "none" /\ UNCHANGED <<config, rung, checks, named, level>>
  BY DEF NetworkTurns
<1>4. LadderTypeOK'
  BY <1>1, <1>2, <1>3 DEF LadderInv, LadderTypeOK
<1>5. QED
  BY <1>1, <1>3, <1>4 DEF LadderInv, Reports, Judged

LEMMA AgainKeeps == LadderInv /\ LadderAgain => LadderInv'
<1> SUFFICES ASSUME LadderInv, LadderAgain PROVE LadderInv'
  OBVIOUS
<1>1. LadderTypeOK'
  BY RungTable, LadderAssumption DEF LadderAgain, LadderInv, LadderTypeOK, LadderAssumption
<1>2. checks' \in [Names -> Statuses \cup {"none"}]
  BY DEF LadderAgain, Names
<1>3. QED
  BY <1>1, <1>2 DEF LadderAgain, LadderInv, Reports, Judged

LEMMA LadderNextHolds == LadderInv /\ [LadderNext]_ladderVars => LadderInv'
<1> SUFFICES ASSUME LadderInv, UNCHANGED ladderVars PROVE LadderInv'
  BY ClimbKeeps, JudgeKeeps, TurnsKeeps, AgainKeeps DEF LadderNext
<1>1. UNCHANGED <<down, config, rung, checks, named, level, turns>>
  BY DEF ladderVars
<1>2. UNCHANGED Verdicts /\ UNCHANGED Confidence
  BY <1>1, VerdictStands
<1>3. Reports'
  BY <1>1, ReportsStand
<1>4. LadderTypeOK'
  BY <1>1, <1>2 DEF LadderInv, LadderTypeOK
<1>5. Judged'
  BY <1>1, <1>2 DEF LadderInv, Judged
<1>6. QED
  BY <1>1, <1>3, <1>4, <1>5 DEF LadderInv

\* In every state the results are what the network showed, as long as it held
\* still, and the verdict is the first branch they fulfil.
THEOREM LadderInvariance == LadderSpec => []LadderInv
<1>1. QED
  BY LadderInitHolds, LadderNextHolds, PTL DEF LadderSpec

\* LadderTypeOK, the ladder's part of UpkeepTypeOK.
THEOREM LadderTypeCorrect == LadderSpec => []LadderTypeOK
<1>1. LadderInv => LadderTypeOK
  BY DEF LadderInv
<1>2. QED
  BY <1>1, LadderInvariance, PTL

-----------------------------------------------------------------------------
(* What the results say of the network, and the verdict of the results.    *)

Beyond == {"upstream_dns", "raw_ping", "https"}

\* Of a ladder that was judged and under which nothing changed, every rung is
\* known.
LEMMA AllReported ==
    ASSUME LadderInv, named # "none", turns = 0
    PROVE  /\ checks["power"] \in PowerResults /\ checks["link"] \in LinkResults
           /\ checks["gateway"] \in GatewayResults /\ checks["router_wlan"] \in WlanResults
           /\ checks["local_dns"] \in LocalDnsResults
           /\ \A l \in Beyond : checks[l] \in BeyondResults(l)
<1>1. rung = 9
  BY RungTable DEF LadderInv, Judged
<1>2. \A i \in 1..8 : checks[Rungs[i]] \in Results(Rungs[i])
  BY <1>1 DEF LadderInv, Reports
<1>3. QED
  BY <1>2, RungTable, ResultTable DEF Beyond

LEMMA BrokenMeansNone == ASSUME NEW l PROVE Broken(l) <=> Working(l) = {}
BY DEF Broken, Working

LEMMA GroupFails ==
    ASSUME NEW l, NEW s
    PROVE  /\ GroupResult(l, s) = "failed" <=> s = {}
           /\ GroupResult(l, s) = "passed" => s = Targets[l]
BY DEF GroupResult

\* The cable and the router.
LEMMA NearRungs ==
    ASSUME checks["link"] \in LinkResults, checks["gateway"] \in GatewayResults
    PROVE  /\ Failed("link") <=> Broken("link")
           /\ checks["link"] = "degraded" <=> ~Broken("link") /\ Broken("negotiation")
           /\ Failed("gateway") <=> ~Lan
           /\ checks["gateway"] = "passed" <=> Lan
BY DEF LinkResults, GatewayResults, Negotiated, Failed

\* Direct queries and pings fail exactly where nothing answers; fetches fail
\* also where names are not resolved.
LEMMA BeyondRungs ==
    ASSUME \A l \in Beyond : checks[l] \in BeyondResults(l)
    PROVE  /\ ~Wan => \A l \in Beyond : Failed(l)
           /\ \A l \in Beyond : Broken(l) => Failed(l)
           /\ Wan => \A l \in {"upstream_dns", "raw_ping"} : Failed(l) => Broken(l)
           /\ Wan /\ Failed("https") => Broken("https") \/ Broken("local_dns") \/ Broken("upstream_dns")
           /\ \A l \in Beyond : checks[l] = "passed" => Working(l) = Targets[l]
           /\ \A l \in Beyond : checks[l] \in {"passed", "failed", "partial"}
<1> DEFINE Up(l) == IF Wan THEN Working(l) ELSE {}
<1>1. \A l \in Beyond : \E s \in SUBSET Up(l) :
          /\ checks[l] = GroupResult(l, s)
          /\ s # Up(l) => l = "https" /\ (Broken("local_dns") \/ Broken("upstream_dns"))
  <2> SUFFICES ASSUME NEW l \in Beyond
               PROVE  \E s \in SUBSET Up(l) :
                        /\ checks[l] = GroupResult(l, s)
                        /\ s # Up(l) => l = "https" /\ (Broken("local_dns") \/ Broken("upstream_dns"))
    OBVIOUS
  <2>1. checks[l] \in {GroupResult(l, s) : s \in IF l = "https" THEN Fetched(Up(l)) ELSE {Up(l)}}
    BY DEF BeyondResults
  <2>2. PICK s \in (IF l = "https" THEN Fetched(Up(l)) ELSE {Up(l)}) : checks[l] = GroupResult(l, s)
    BY <2>1
  <2>3. s \in SUBSET Up(l) /\ (s # Up(l) => l = "https" /\ (Broken("local_dns") \/ Broken("upstream_dns")))
    BY <2>2 DEF Fetched
  <2>4. QED
    BY <2>2, <2>3
<1>2. \A l \in Beyond : checks[l] \in {"passed", "failed", "partial"}
  BY <1>1, GroupStatus
<1>3. \A l \in Beyond : Up(l) = {} => Failed(l)
  BY <1>1, GroupFails DEF Failed
<1>4. \A l \in Beyond : Failed(l) => Up(l) = {} \/ (l = "https" /\ (Broken("local_dns") \/ Broken("upstream_dns")))
  BY <1>1, GroupFails DEF Failed
<1>5. \A l \in Beyond : checks[l] = "passed" => Working(l) = Targets[l]
  <2> SUFFICES ASSUME NEW l \in Beyond, checks[l] = "passed" PROVE Working(l) = Targets[l]
    OBVIOUS
  <2>1. PICK s \in SUBSET Up(l) : checks[l] = GroupResult(l, s)
    BY <1>1
  <2>2. s = Targets[l] /\ s # {}
    BY <2>1, GroupFails
  <2>3. Working(l) \subseteq Targets[l]
    BY DEF Working
  <2>4. QED
    BY <2>1, <2>2, <2>3
<1>6. \A l : Broken(l) <=> Working(l) = {}
  BY BrokenMeansNone
<1>7. QED
  BY <1>2, <1>3, <1>4, <1>5, <1>6 DEF Beyond

\* The local resolver's rung.
LEMMA ResolverRung ==
    ASSUME checks["local_dns"] \in LocalDnsResults
    PROVE  /\ Wan /\ ~Broken("upstream_dns") /\ Failed("local_dns") => Broken("local_dns")
           /\ Broken("local_dns") => Failed("local_dns") \/ Hidden
<1>1. PICK a \in LocalDnsAnswers : checks["local_dns"] = LocalDnsResult(config.provider, a)
  BY DEF LocalDnsResults
<1>2. Failed("local_dns") => ~a
  BY <1>1 DEF Failed, LocalDnsResult
<1>3. ASSUME Wan, ~Broken("upstream_dns"), ~a PROVE Broken("local_dns")
  BY <1>1, <1>3 DEF LocalDnsAnswers, Wan
<1>4. ASSUME Broken("local_dns") PROVE Failed("local_dns") \/ Hidden
  <2>1. a = FALSE
    BY <1>1, <1>4 DEF LocalDnsAnswers
  <2>2. LocalDnsResult(config.provider, FALSE) \in {"skipped", "failed"}
    BY DEF LocalDnsResult
  <2>3. QED
    BY <1>1, <1>4, <2>1, <2>2 DEF Failed, Hidden
<1>5. QED
  BY <1>2, <1>3, <1>4

\* The verdict is the first of the twelve branches.
LEMMA FirstBranch ==
    ASSUME LadderInv, named # "none"
    PROVE  \/ named = "pi_link" /\ Failed("link")
           \/ /\ ~Failed("link")
              /\ \/ named = "router_down" /\ Failed("gateway")
                 \/ /\ ~Failed("gateway")
                    /\ \/ named = "wan_down" /\ \A l \in Beyond : Failed(l)
                       \/ named = "restricted_connectivity" /\ Failed("upstream_dns") /\ Failed("raw_ping")
                       \/ named = "local_dns_broken" /\ Failed("local_dns") /\ ~Failed("upstream_dns")
                       \/ named = "upstream_dns_down" /\ Failed("upstream_dns")
                       \/ named = "partial_routing" /\ Failed("raw_ping")
                       \/ /\ ~Failed("upstream_dns") /\ ~Failed("local_dns") /\ ~Failed("raw_ping")
                          /\ \/ named = "web_broken" /\ Failed("https")
                             \/ /\ ~Failed("https")
                                /\ \/ named \in {"host_power", "link_degraded", "router_wlan_down"}
                                   \/ /\ named = "all_clear" /\ ~Failed("power") /\ checks["link"] # "degraded"
                                      /\ ~Failed("router_wlan")
<1>1. PICK i \in DOMAIN Verdicts :
          Verdicts[i].when /\ (\A j \in 1..(i - 1) : ~Verdicts[j].when) /\ named = Verdicts[i].code
  BY DEF LadderInv, Judged
<1>2. i \in 1..12
  BY <1>1, CodeTable
<1> DEFINE When(j) == Verdicts[j].when
<1>3. When(i) /\ (\A j \in 1..(i - 1) : ~When(j)) /\ named = Verdicts[i].code
  BY <1>1
<1>4. /\ When(1) = Failed("link") /\ When(2) = Failed("gateway") /\ When(3) = (\A l \in Beyond : Failed(l))
      /\ When(4) = (Failed("upstream_dns") /\ Failed("raw_ping"))
      /\ When(5) = (Failed("local_dns") /\ ~Failed("upstream_dns"))
      /\ When(6) = Failed("upstream_dns") /\ When(7) = Failed("raw_ping") /\ When(8) = Failed("https")
      /\ When(9) = Failed("power") /\ When(10) = (checks["link"] = "degraded") /\ When(11) = Failed("router_wlan")
  BY VerdictTable DEF Beyond
<1> HIDE DEF When
<1>5. i \in {1, 2, 3, 4, 5, 6, 7, 8, 9, 10, 11, 12}
  BY <1>2
<1>6. CASE i = 1
  BY <1>3, <1>4, <1>6, CodeTable
<1>7. CASE i # 1
  <2>1. ~When(1)
    BY <1>2, <1>3, <1>7
  <2>2. ~Failed("link")
    BY <1>4, <2>1
  <2>3. CASE i = 2
    BY <1>3, <1>4, <2>2, <2>3, CodeTable
  <2>4. CASE i # 2
    <3>1. ~When(2)
      BY <1>2, <1>3, <1>7, <2>4
    <3>2. ~Failed("gateway")
      BY <1>4, <3>1
    <3>3. CASE i \in {3, 4, 5, 6, 7}
      BY <1>3, <1>4, <2>2, <3>2, <3>3, CodeTable
    <3>4. CASE i \in {8, 9, 10, 11, 12}
      <4>1. ~When(5) /\ ~When(6) /\ ~When(7)
        BY <1>3, <3>4
      <4>2. ~Failed("upstream_dns") /\ ~Failed("local_dns") /\ ~Failed("raw_ping")
        BY <1>4, <4>1
      <4>3. CASE i = 8
        BY <1>3, <1>4, <2>2, <3>2, <4>2, <4>3, CodeTable
      <4>4. CASE i \in {9, 10, 11}
        <5>1. ~When(8)
          BY <1>3, <4>4
        <5>2. QED
          BY <1>3, <1>4, <2>2, <3>2, <4>2, <4>4, <5>1, CodeTable
      <4>5. CASE i = 12
        <5>1. ~When(8) /\ ~When(9) /\ ~When(10) /\ ~When(11)
          BY <1>3, <4>5
        <5>2. QED
          BY <1>3, <1>4, <2>2, <3>2, <4>2, <4>5, <5>1, CodeTable
      <4>6. QED
        BY <3>4, <4>3, <4>4, <4>5
    <3>5. QED
      BY <1>5, <1>7, <2>4, <3>3, <3>4
  <2>5. QED
    BY <2>3, <2>4
<1>8. QED
  BY <1>6, <1>7

\* The first half: where something is broken, the verdict names it.
LEMMA NamesOrigin ==
    ASSUME LadderInv, named # "none", turns = 0, ~Hidden, Origins # {}
    PROVE  named \in Origins \/ (Misled /\ named = "wan_down")
<1>1. /\ checks["link"] \in LinkResults /\ checks["gateway"] \in GatewayResults
      /\ checks["local_dns"] \in LocalDnsResults /\ \A l \in Beyond : checks[l] \in BeyondResults(l)
  BY AllReported
<1>2. CASE Broken("link")
  BY <1>1, <1>2, NearRungs, FirstBranch DEF Origins
<1>3. CASE ~Broken("link") /\ Broken("gateway")
  BY <1>1, <1>3, NearRungs, FirstBranch DEF Origins, Lan
<1>4. CASE Lan /\ AllOut
  <2>1. \A l \in Beyond : Failed(l)
    <3>1. CASE Broken("wan")
      BY <1>1, <3>1, BeyondRungs DEF Wan
    <3>2. CASE \A l \in Beyond : Broken(l)
      BY <1>1, <3>2, BeyondRungs
    <3>3. QED
      BY <1>4, <3>1, <3>2 DEF AllOut, Beyond
  <2>2. ~Failed("link") /\ ~Failed("gateway")
    BY <1>1, <1>4, NearRungs DEF Lan
  <2>3. \A j \in DOMAIN Verdicts : Verdicts[j].when /\ (\A k \in 1..(j - 1) : ~Verdicts[k].when) => j = 3
    <3> SUFFICES ASSUME NEW j \in DOMAIN Verdicts, Verdicts[j].when,
                        \A k \in 1..(j - 1) : ~Verdicts[k].when
                 PROVE  j = 3
      OBVIOUS
    <3> DEFINE When(k) == Verdicts[k].when
    <3>1. j \in 1..12 /\ When(j) /\ \A k \in 1..(j - 1) : ~When(k)
      BY CodeTable
    <3>2. ~When(1) /\ ~When(2) /\ When(3)
      BY <2>1, <2>2, VerdictTable DEF Beyond
    <3> HIDE DEF When
    <3>3. QED
      BY <3>1, <3>2
  <2>4. named = Verdicts[3].code
    BY <2>3 DEF LadderInv, Judged
  <2>5. Origins = {"wan_down"}
    BY <1>4 DEF Origins, Lan
  <2>6. QED
    BY <2>4, <2>5, CodeTable
<1>5. CASE Wan /\ ~AllOut
  <2>1. /\ ~Failed("link") /\ ~Failed("gateway") /\ ~Broken("link") /\ ~Broken("gateway")
    BY <1>1, <1>5, NearRungs DEF Wan, Lan
  <2>2. /\ Failed("upstream_dns") <=> Broken("upstream_dns")
        /\ Failed("raw_ping") <=> Broken("raw_ping")
        /\ Broken("https") => Failed("https")
        /\ Failed("https") => Broken("https") \/ Broken("local_dns") \/ Broken("upstream_dns")
    BY <1>1, <1>5, BeyondRungs DEF Beyond
  <2>3. /\ ~Broken("upstream_dns") /\ Failed("local_dns") => Broken("local_dns")
        /\ Broken("local_dns") => Failed("local_dns")
    BY <1>1, <1>5, ResolverRung
  <2>4. Origins =
            (IF Broken("upstream_dns") /\ Broken("raw_ping") THEN {"restricted_connectivity"} ELSE {})
            \cup (IF Broken("upstream_dns") THEN {"upstream_dns_down"} ELSE {})
            \cup (IF Broken("raw_ping") THEN {"partial_routing"} ELSE {})
            \cup (IF Broken("https") THEN {"web_broken"} ELSE {})
            \cup (IF Broken("local_dns") THEN {"local_dns_broken"} ELSE {})
    BY <1>5, <2>1 DEF Origins
  <2>5. \/ Failed("upstream_dns") /\ Failed("raw_ping") /\ Failed("https") /\ named = "wan_down"
        \/ Failed("upstream_dns") /\ Failed("raw_ping") /\ named = "restricted_connectivity"
        \/ named = "local_dns_broken" /\ Failed("local_dns") /\ ~Failed("upstream_dns")
        \/ named = "upstream_dns_down" /\ Failed("upstream_dns")
        \/ named = "partial_routing" /\ Failed("raw_ping")
        \/ /\ named = "web_broken" /\ Failed("https")
           /\ ~Failed("upstream_dns") /\ ~Failed("local_dns")
        \/ /\ ~Failed("upstream_dns") /\ ~Failed("local_dns") /\ ~Failed("raw_ping") /\ ~Failed("https")
    BY <2>1, FirstBranch DEF Beyond
  <2>6. QED
    BY <2>2, <2>3, <2>4, <2>5 DEF Misled
<1>6. QED
  BY <1>2, <1>3, <1>4, <1>5 DEF Wan, AllOut, Lan

\* The second: all clear with full confidence, and nothing that a sensor shows
\* is broken.
LEMMA ClearMeansClear ==
    ASSUME LadderInv, named = "all_clear", level = "high", turns = 0, NEW p \in down
    PROVE  p \in {<<"service", 1>>, <<"local_dns", 1>>} \cup {<<"power", s>> : s \in Targets["power"] \ config.sensors}
<1>1. /\ checks["power"] \in PowerResults /\ checks["link"] \in LinkResults
      /\ checks["gateway"] \in GatewayResults /\ checks["router_wlan"] \in WlanResults
      /\ \A l \in Beyond : checks[l] \in BeyondResults(l)
  BY AllReported
<1>2. /\ ~Failed("link") /\ ~Failed("gateway") /\ ~Failed("power") /\ checks["link"] # "degraded"
      /\ ~Failed("router_wlan") /\ \A l \in Beyond : ~Failed(l)
  BY FirstBranch DEF Beyond
<1>3. \A r \in Groups : checks[r] # "partial"
  BY DEF LadderInv, Judged, Confidence
<1>4. PICK l \in Layers : p \in {l} \X Targets[l]
  BY DEF LadderInv, LadderTypeOK, Parts
<1>5. PICK t \in Targets[l] : p = <<l, t>>
  BY <1>4
<1>6. <<l, t>> \in down
  BY <1>5
<1>7. Lan /\ ~Broken("link") /\ ~Broken("gateway") /\ ~Broken("negotiation")
  BY <1>1, <1>2, NearRungs DEF Lan
<1>8. Wan /\ ~Broken("wan")
  BY <1>1, <1>2, BeyondRungs DEF Beyond, Wan
<1>9. \A b \in Layers \ (Groups \cup {"power"}) : <<b, 1>> \in down => Broken(b)
  BY LadderAssumption DEF Broken, LadderAssumption
<1>10. l \in Beyond => FALSE
  <2> SUFFICES ASSUME l \in Beyond PROVE FALSE
    OBVIOUS
  <2>1. checks[l] = "passed"
    BY <1>1, <1>2, <1>3, BeyondRungs DEF Beyond, Failed, Groups
  <2>2. t \in Working(l)
    BY <1>1, <1>5, <2>1, BeyondRungs
  <2>3. QED
    BY <1>6, <2>2 DEF Working
<1>11. l = "router_wlan" => FALSE
  <2> SUFFICES ASSUME l = "router_wlan" PROVE FALSE
    OBVIOUS
  <2>1. checks["gateway"] = "passed"
    BY <1>1, <1>7, NearRungs
  <2>2. checks["router_wlan"] = GroupResult("router_wlan", Working("router_wlan"))
    BY <1>1, <1>5, <1>7, <2>1 DEF WlanResults
  <2>3. checks["router_wlan"] = "passed"
    BY <1>2, <1>3, <2>2, GroupStatus DEF Failed, Groups
  <2>4. Working("router_wlan") = Targets["router_wlan"]
    BY <2>2, <2>3, GroupFails
  <2>5. QED
    BY <1>5, <1>6, <2>4 DEF Working
<1>12. l = "power" => t \notin config.sensors
  <2> SUFFICES ASSUME l = "power", t \in config.sensors PROVE FALSE
    OBVIOUS
  <2>1. t \in BadSensors
    BY <1>6 DEF BadSensors, Working
  <2>2. QED
    BY <1>1, <1>2, <2>1 DEF PowerResults, Failed
<1>13. l \in {"link", "negotiation", "gateway", "wan"} => FALSE
  <2> SUFFICES ASSUME l \in {"link", "negotiation", "gateway", "wan"} PROVE FALSE
    OBVIOUS
  <2>1. l \in Layers \ (Groups \cup {"power"})
    BY DEF Layers, Groups
  <2>2. t = 1
    BY <1>5, <2>1, LadderAssumption DEF LadderAssumption
  <2>3. Broken(l)
    BY <1>6, <1>9, <2>1, <2>2
  <2>4. QED
    BY <1>7, <1>8, <2>3
<1>14. l \in {"service", "local_dns"} => t = 1
  BY <1>5, LadderAssumption DEF LadderAssumption, Layers, Groups
<1>15. l \in {"service", "local_dns", "power"}
  BY <1>10, <1>11, <1>13 DEF Layers, Groups, Beyond
<1>16. QED
  BY <1>5, <1>12, <1>14, <1>15

\* NamesTheOrigin, for any number of targets and of broken parts: of a network
\* that held still the verdict names where the failure started (or the line to
\* the provider, when direct DNS and pings are blocked and HTTPS found no
\* names), it is all clear with full confidence only if all that is probed
\* works, and the Wi-Fi is not found guilty together with the provider.
THEOREM NamesTheOriginAlways == LadderSpec => []NamesTheOrigin
<1>1. LadderInv => NamesTheOrigin
  <2> SUFFICES ASSUME LadderInv, named # "none", turns = 0, ~Hidden
               PROVE  /\ Origins # {} => named \in Origins \/ (Misled /\ named = "wan_down")
                      /\ named = "all_clear" /\ level = "high" =>
                            down \subseteq {<<"service", 1>>, <<"local_dns", 1>>} \cup
                                           {<<"power", s>> : s \in Targets["power"] \ config.sensors}
                      /\ WifiNote => named \notin {"wan_down", "partial_routing", "restricted_connectivity"}
    BY DEF NamesTheOrigin
  <2>1. Origins # {} => named \in Origins \/ (Misled /\ named = "wan_down")
    BY NamesOrigin
  <2>2. named = "all_clear" /\ level = "high" =>
            down \subseteq {<<"service", 1>>, <<"local_dns", 1>>} \cup
                           {<<"power", s>> : s \in Targets["power"] \ config.sensors}
    BY ClearMeansClear
  <2>3. WifiNote => named \notin {"wan_down", "partial_routing", "restricted_connectivity"}
    <3> SUFFICES ASSUME WifiNote PROVE named \notin {"wan_down", "partial_routing", "restricted_connectivity"}
      OBVIOUS
    <3>1. ~Failed("raw_ping")
      BY DEF WifiNote, Failed
    <3>2. QED
      BY <3>1, FirstBranch DEF Beyond
  <2>4. QED
    BY <2>1, <2>2, <2>3
<1>2. QED
  BY <1>1, LadderInvariance, PTL

-----------------------------------------------------------------------------
(* The four together.                                                      *)

\* A behaviour of the run is one of each part, all but one of which never take
\* a step: what is proved of the parts holds of the run.
THEOREM UpkeepIsItsParts == UpkeepSpec => RestoreSpec /\ LoadSpec /\ LadderSpec /\ CacheSpec
<1>1. UpkeepInit => RestoreInit /\ LoadInit /\ LadderInit /\ CacheInit
  BY DEF UpkeepInit
<1>2. [UpkeepNext]_Upkeep =>
          [RestoreNext]_restoreVars /\ [LoadNext]_loadVars /\ [LadderNext]_ladderVars /\ [CacheNext]_cacheVars
  BY DEF UpkeepNext, Upkeep
<1>3. QED
  BY <1>1, <1>2, PTL DEF UpkeepSpec, RestoreSpec, LoadSpec, LadderSpec, CacheSpec

\* UpkeepTypeOK: all four keep their types, whichever of them is at work.
THEOREM UpkeepTypeCorrect == UpkeepSpec => []UpkeepTypeOK
<1>1. RestoreTypeOK /\ LoadTypeOK /\ LadderTypeOK /\ CacheTypeOK => UpkeepTypeOK
  BY DEF UpkeepTypeOK
<1>2. QED
  BY <1>1, UpkeepIsItsParts, RestoreTypeCorrect, LoadTypeCorrect, LadderTypeCorrect, CacheTypeCorrect, PTL
==============================================================================

------------------------ MODULE AuthenticationProofs ------------------------
(***************************************************************************)
(* Proofs about signing in, for any number of requests at once, any number *)
(* of sessions, secrets and codes, and restarts between any two steps: one *)
(* onboarding, a code accepted once, a second factor that proves what the  *)
(* session claims, bounded tries, and no verification slot lost.           *)
(***************************************************************************)
EXTENDS Authentication, FiniteSetTheorems, TLAPS

Stores == [password : BOOLEAN, token : BOOLEAN, totp : Secrets \cup {None},
           pending : Secrets \cup {None}, fresh : BOOLEAN, codes : SUBSET (1..MaxCodes)]
Sessions == [verified : BOOLEAN, seal : Secrets \cup {None}]

\* The number of steps of each route.
Steps(o) == IF o = "none" THEN 1 ELSE Len(Route[o])

\* Types of the threads' variables, and of what they share.
ThreadsOK ==
    /\ op \in [Requests -> DOMAIN Route] /\ at \in [Requests -> Nat \ {0}]
    /\ sid \in [Requests -> Sids \cup {None}] /\ got \in [Requests -> Secrets \cup {None}]
    /\ \A t \in Requests :
          /\ at[t] <= Steps(op[t])
          /\ op[t] = "second" => sid[t] \in Sids
          /\ op[t] \in {"second", "activate", "disable"} /\ at[t] = 4 => got[t] \in Secrets

DataOK ==
    /\ store \in Stores /\ sessions \in [Sids -> Sessions \cup {None}]
    /\ used \in [Secrets -> 0..LastWindow] /\ proved \in [Sids -> SUBSET Secrets]
    /\ minted \in 0..MaxSecrets /\ printed \in 0..MaxCodes /\ locked \in BOOLEAN

TypeInv == ThreadsOK /\ DataOK

\* Setting the password is what uses the token up.
OnboardInv == onboardings \in {0, 1} /\ (~store.password => onboardings = 0)

\* What has been accepted is not acceptable any more: the counters only grow
\* while a use is remembered, and codes are printed once.
CodesInv ==
    /\ again = {}
    /\ store.codes \subseteq 1..printed
    /\ \A x \in Secrets, c \in 1..LastWindow : <<"totp", x, c>> \in accepted => c <= used[x]
    /\ \A c \in 1..MaxCodes : <<"recovery", c>> \in accepted => c <= printed /\ c \notin store.codes

\* While no change waits for its wipe, a second factor in progress whose
\* session is still there is about the secret in force.
FactorInv ==
    ~unwiped =>
        /\ \A k \in Sids :
              sessions[k] # None /\ store.totp # None /\ sessions[k].seal = store.totp =>
                  store.totp \in proved[k]
        /\ \A t \in Requests : op[t] = "second" /\ sessions[sid[t]] # None =>
              /\ at[t] = 4 => got[t] = store.totp
              /\ at[t] = 5 => store.totp \in proved[sid[t]]
              /\ at[t] = 6 => got[t] = store.totp /\ got[t] \in proved[sid[t]]

\* A slot is free or held; and since no thread is let past the lockout during
\* a lock, the tries then made and those still to come are one for each thread.
Holders == {t \in Requests : HoldsSlot(t)}
Past    == {t \in Requests : MayFail(t)}
SlotSum == slots \in Nat /\ slots + Cardinality(Holders) = Slots
CountInv ==
    /\ SlotSum
    /\ failures \in 0..(MaxFailures - 1) /\ tries \in Nat
    /\ locked => tries + Cardinality(Past) <= MaxFailures - 1 + Cardinality(Requests)
    /\ ~locked => tries = failures

AuthInv == TypeInv /\ OnboardInv /\ CodesInv /\ FactorInv /\ CountInv

USE AuthAssumption DEF AuthAssumption, Secrets

-----------------------------------------------------------------------------
(* The routes, the store and the tuples.                                   *)

LEMMA Routes ==
    /\ DOMAIN Route = {"none", "login", "setup", "second", "password", "activate", "disable",
                       "codes", "failed", "consolePassword", "consoleTotp"}
    /\ Steps("none") = 1 /\ Steps("login") = 5 /\ Steps("setup") = 6 /\ Steps("second") = 6
    /\ Steps("password") = 5 /\ Steps("activate") = 6 /\ Steps("disable") = 7 /\ Steps("codes") = 4
    /\ Steps("failed") = 1
    /\ Steps("consolePassword") = 2 /\ Steps("consoleTotp") = 3
BY DEF Route, Steps, LoginSteps, SetupSteps, SecondSteps

\* Where each step is in its routes.
LEMMA Places ==
    ASSUME NEW t \in Requests, op[t] \in DOMAIN Route, at[t] \in Nat
    PROVE  /\ At(t, "verify") => at[t] = 3 /\ op[t] \in
                {"login", "setup", "second", "password", "activate", "disable", "codes"}
           /\ At(t, "consume") => at[t] = 4 /\ op[t] \in {"second", "activate", "disable"}
           /\ At(t, "save") =>
                \/ op[t] \in {"consolePassword", "consoleTotp"} /\ at[t] = 1
                \/ op[t] \in {"setup", "password", "codes"} /\ at[t] = 4
                \/ op[t] \in {"activate", "disable"} /\ at[t] = 5
           /\ At(t, "forget") => (op[t] = "disable" /\ at[t] = 6) \/ (op[t] = "consoleTotp" /\ at[t] = 2)
           /\ At(t, "wipe") =>
                \/ op[t] = "consolePassword" /\ at[t] = 2
                \/ op[t] = "consoleTotp" /\ at[t] = 3
                \/ op[t] \in {"setup", "password"} /\ at[t] = 5
                \/ op[t] = "activate" /\ at[t] = 6
                \/ op[t] = "disable" /\ at[t] = 7
           /\ At(t, "totp") => op[t] = "login" /\ at[t] = 4
           /\ At(t, "create") => (op[t] = "login" /\ at[t] = 5) \/ (op[t] = "setup" /\ at[t] = 6)
           /\ At(t, "seal") => op[t] = "second" /\ at[t] = 5
           /\ At(t, "stamp") => op[t] = "second" /\ at[t] = 6
           /\ At(t, "record") => op[t] = "failed" /\ at[t] = 1
           /\ At(t, "allowed") =>
                \/ op[t] \in {"login", "setup"} /\ at[t] = 1
                \/ op[t] \in {"second", "password", "activate", "disable", "codes"} /\ at[t] = 2
           /\ At(t, "slot") =>
                \/ op[t] \in {"login", "setup"} /\ at[t] = 2
                \/ op[t] \in {"second", "password", "activate", "disable", "codes"} /\ at[t] = 1
<1>1. op[t] \in {"none", "login", "setup", "second", "password", "activate", "disable",
                 "codes", "failed", "consolePassword", "consoleTotp"}
  BY Routes
<1>2. CASE op[t] \in {"none", "login", "setup"}
  <2>1. /\ Route["none"] = <<>>
        /\ Route["login"] = <<"allowed", "slot", "verify", "totp", "create">>
        /\ Route["setup"] = <<"allowed", "slot", "verify", "save", "wipe", "create">>
    BY DEF Route, LoginSteps, SetupSteps
  <2>2. QED
    BY <1>2, <2>1 DEF At
<1>3. CASE op[t] = "second"
  <2>1. Route["second"] = <<"slot", "allowed", "verify", "consume", "seal", "stamp">>
    BY DEF Route, SecondSteps
  <2>2. QED
    BY <1>3, <2>1 DEF At
<1>4. CASE op[t] = "password"
  <2>1. Route["password"] = <<"slot", "allowed", "verify", "save", "wipe">>
    BY DEF Route
  <2>2. QED
    BY <1>4, <2>1 DEF At
<1>5. CASE op[t] = "activate"
  <2>1. Route["activate"] = <<"slot", "allowed", "verify", "consume", "save", "wipe">>
    BY DEF Route
  <2>2. QED
    BY <1>5, <2>1 DEF At
<1>6. CASE op[t] = "disable"
  <2>1. Route["disable"] = <<"slot", "allowed", "verify", "consume", "save", "forget", "wipe">>
    BY DEF Route
  <2>2. QED
    BY <1>6, <2>1 DEF At
<1>7. CASE op[t] \in {"codes", "failed"}
  <2>1. Route["codes"] = <<"slot", "allowed", "verify", "save">> /\ Route["failed"] = <<"record">>
    BY DEF Route
  <2>2. QED
    BY <1>7, <2>1 DEF At
<1>8. CASE op[t] \in {"consolePassword", "consoleTotp"}
  <2>1. /\ Route["consolePassword"] = <<"save", "wipe">>
        /\ Route["consoleTotp"] = <<"save", "forget", "wipe">>
    BY DEF Route
  <2>2. QED
    BY <1>8, <2>1 DEF At
<1>9. QED
  BY <1>1, <1>2, <1>3, <1>4, <1>5, <1>6, <1>7, <1>8

\* The routes that take their slot before they ask for the lockout, and all that
\* take one.
SlotFirst == {"second", "password", "activate", "disable", "codes"}
SignIn    == {"login", "setup"} \cup SlotFirst

LEMMA Gates ==
    ASSUME NEW o \in DOMAIN Route, NEW n \in Nat \ {0}
    PROVE  /\ Behind(o, n, "slot") <=>
                  (o \in {"login", "setup"} /\ n > 2) \/ (o \in SlotFirst /\ n > 1)
           /\ Behind(o, n, "allowed") <=>
                  (o \in {"login", "setup"} /\ n > 1) \/ (o \in SlotFirst /\ n > 2)
<1>1. o \in {"none", "login", "setup", "second", "password", "activate", "disable",
             "codes", "failed", "consolePassword", "consoleTotp"}
  BY Routes
<1>2. CASE o = "none"
  BY <1>2 DEF Behind, Route, SlotFirst
<1>3. CASE o \in {"login", "setup"}
  <2>1. /\ Route["login"] = <<"allowed", "slot", "verify", "totp", "create">>
        /\ Route["setup"] = <<"allowed", "slot", "verify", "save", "wipe", "create">>
    BY DEF Route, LoginSteps, SetupSteps
  <2>2. QED
    BY <1>3, <2>1 DEF Behind, SlotFirst
<1>4. CASE o = "second"
  <2>1. Route["second"] = <<"slot", "allowed", "verify", "consume", "seal", "stamp">>
    BY DEF Route, SecondSteps
  <2>2. QED
    BY <1>4, <2>1 DEF Behind, SlotFirst
<1>5. CASE o = "password"
  <2>1. Route["password"] = <<"slot", "allowed", "verify", "save", "wipe">>
    BY DEF Route
  <2>2. QED
    BY <1>5, <2>1 DEF Behind, SlotFirst
<1>6. CASE o = "activate"
  <2>1. Route["activate"] = <<"slot", "allowed", "verify", "consume", "save", "wipe">>
    BY DEF Route
  <2>2. QED
    BY <1>6, <2>1 DEF Behind, SlotFirst
<1>7. CASE o = "disable"
  <2>1. Route["disable"] = <<"slot", "allowed", "verify", "consume", "save", "forget", "wipe">>
    BY DEF Route
  <2>2. QED
    BY <1>7, <2>1 DEF Behind, SlotFirst
<1>8. CASE o \in {"codes", "failed"}
  <2>1. Route["codes"] = <<"slot", "allowed", "verify", "save">> /\ Route["failed"] = <<"record">>
    BY DEF Route
  <2>2. QED
    BY <1>8, <2>1 DEF Behind, SlotFirst
<1>9. CASE o \in {"consolePassword", "consoleTotp"}
  <2>1. /\ Route["consolePassword"] = <<"save", "wipe">>
        /\ Route["consoleTotp"] = <<"save", "forget", "wipe">>
    BY DEF Route
  <2>2. QED
    BY <1>9, <2>1 DEF Behind, SlotFirst
<1>10. QED
  BY <1>1, <1>2, <1>3, <1>4, <1>5, <1>6, <1>7, <1>8, <1>9

LEMMA StoreChanges ==
    ASSUME NEW s \in Stores, NEW x \in Secrets \cup {None}, printed \in 0..MaxCodes
    PROVE  /\ WithoutPending(s) \in Stores /\ WithPassword(s) \in Stores
           /\ WithoutTotp(s) \in Stores /\ WithSecret(s, x) \in Stores
           /\ WithPending(s, x) \in Stores /\ WithPending(s, x).password = s.password
           /\ WithPending(s, x).totp = s.totp /\ WithPending(s, x).codes = s.codes
           /\ NewCodes \subseteq 1..MaxCodes
           /\ WithoutPending(s).password = s.password /\ WithoutPending(s).totp = s.totp
           /\ WithoutPending(s).codes = s.codes
           /\ WithPassword(s).password = TRUE /\ WithPassword(s).codes = s.codes
           /\ WithoutTotp(s).password = s.password /\ WithoutTotp(s).codes = {}
           /\ WithSecret(s, x).password = s.password /\ WithSecret(s, x).codes = NewCodes
<1>1. NewCodes \subseteq 1..MaxCodes
  BY DEF NewCodes
<1>2. QED
  BY <1>1 DEF Stores, WithPending, WithoutPending, WithPassword, WithoutTotp, WithSecret

LEMMA CodesDiffer ==
    \A x, c, d : <<"totp", x, c>> # <<"recovery", d>>
<1> TAKE x, c, d
<1>1. <<"totp", x, c>>[1] = "totp" /\ <<"recovery", d>>[1] = "recovery"
  OBVIOUS
<1>2. QED
  BY <1>1

-----------------------------------------------------------------------------
(* How a thread moves.                                                     *)

\* Who is past the gates once thread t has moved and no other has.
LEMMA Moved ==
    ASSUME ThreadsOK, ThreadsOK', NEW t \in Requests,
           \A u \in Requests \ {t} : op'[u] = op[u] /\ at'[u] = at[u]
    PROVE  /\ Holders' \ {t} = Holders \ {t} /\ Past' \ {t} = Past \ {t}
           /\ t \in Holders <=> \/ op[t] \in {"login", "setup"} /\ at[t] > 2
                                \/ op[t] \in SlotFirst /\ at[t] > 1
           /\ t \in Holders' <=> \/ op'[t] \in {"login", "setup"} /\ at'[t] > 2
                                 \/ op'[t] \in SlotFirst /\ at'[t] > 1
           /\ t \in Past <=> \/ op[t] = "failed"
                             \/ op[t] \in {"login", "setup"} /\ at[t] > 1
                             \/ op[t] \in SlotFirst /\ at[t] > 2
           /\ t \in Past' <=> \/ op'[t] = "failed"
                              \/ op'[t] \in {"login", "setup"} /\ at'[t] > 1
                              \/ op'[t] \in SlotFirst /\ at'[t] > 2
<1>1. /\ op[t] \in DOMAIN Route /\ at[t] \in Nat \ {0}
      /\ op'[t] \in DOMAIN Route /\ at'[t] \in Nat \ {0}
  BY DEF ThreadsOK
<1>2. Holders' \ {t} = Holders \ {t} /\ Past' \ {t} = Past \ {t}
  BY DEF Holders, Past, HoldsSlot, MayFail
<1>3. /\ t \in Holders <=> Behind(op[t], at[t], "slot")
      /\ t \in Holders' <=> Behind(op'[t], at'[t], "slot")
      /\ t \in Past <=> op[t] = "failed" \/ Behind(op[t], at[t], "allowed")
      /\ t \in Past' <=> op'[t] = "failed" \/ Behind(op'[t], at'[t], "allowed")
  BY DEF Holders, Past, HoldsSlot, MayFail
<1>4. /\ Behind(op[t], at[t], "slot") <=> \/ op[t] \in {"login", "setup"} /\ at[t] > 2
                                          \/ op[t] \in SlotFirst /\ at[t] > 1
      /\ Behind(op[t], at[t], "allowed") <=> \/ op[t] \in {"login", "setup"} /\ at[t] > 1
                                             \/ op[t] \in SlotFirst /\ at[t] > 2
  BY <1>1, Gates
<1>5. /\ Behind(op'[t], at'[t], "slot") <=> \/ op'[t] \in {"login", "setup"} /\ at'[t] > 2
                                            \/ op'[t] \in SlotFirst /\ at'[t] > 1
      /\ Behind(op'[t], at'[t], "allowed") <=> \/ op'[t] \in {"login", "setup"} /\ at'[t] > 1
                                               \/ op'[t] \in SlotFirst /\ at'[t] > 2
  BY <1>1, Gates
<1>6. QED
  BY <1>2, <1>3, <1>4, <1>5

LEMMA GoesOn ==
    ASSUME ThreadsOK, NEW t \in Requests, NEW n \in Nat, Advance(t, n),
           at[t] + n <= Steps(op[t]), got' \in [Requests -> Secrets \cup {None}],
           \A u \in Requests \ {t} : got'[u] = got[u],
           op[t] \in {"second", "activate", "disable"} /\ at[t] + n = 4 => got'[t] \in Secrets
    PROVE  /\ ThreadsOK' /\ at'[t] = at[t] + n
           /\ \A u \in Requests \ {t} : at'[u] = at[u]
           /\ at[t] > 2 \/ op[t] \in Console => Holders' = Holders /\ Past' = Past
<1>1. /\ at' \in [Requests -> Nat \ {0}] /\ at'[t] = at[t] + n
      /\ \A u \in Requests \ {t} : at'[u] = at[u]
  BY DEF Advance, ThreadsOK
<1>2. op' = op /\ sid' = sid
  BY DEF Advance
<1>3. ThreadsOK'
  BY <1>1, <1>2 DEF ThreadsOK
<1>4. ASSUME at[t] > 2 \/ op[t] \in Console
      PROVE  Holders' = Holders /\ Past' = Past
  <2>1. (t \in Holders' <=> t \in Holders) /\ (t \in Past' <=> t \in Past)
    <3>1. at[t] \in Nat
      BY DEF ThreadsOK
    <3>2. CASE at[t] > 2
      BY <1>1, <1>2, <1>3, <3>1, <3>2, Moved
    <3>3. CASE op[t] \in Console
      BY <1>1, <1>2, <1>3, <3>3, Moved DEF Console, SlotFirst
    <3>4. QED
      BY <1>4, <3>2, <3>3
  <2>2. Holders' \ {t} = Holders \ {t} /\ Past' \ {t} = Past \ {t}
    BY <1>1, <1>2, <1>3, Moved
  <2>3. QED
    BY <2>1, <2>2
<1>5. QED
  BY <1>1, <1>3, <1>4

\* A thread leaves its route, with or without a failure still to be recorded;
\* its slot is free again.
LEMMA Turns ==
    ASSUME ThreadsOK, CountInv, NEW t \in Requests, NEW o \in {"none", "failed"},
           TurnTo(t, o), slots' = IF t \in Holders THEN slots + 1 ELSE slots,
           got' \in [Requests -> Secrets \cup {None}], \A u \in Requests \ {t} : got'[u] = got[u]
    PROVE  /\ ThreadsOK' /\ op'[t] = o /\ SlotSum'
           /\ \A u \in Requests \ {t} : op'[u] = op[u] /\ at'[u] = at[u] /\ sid'[u] = sid[u]
           /\ o = "none" => Past' = Past \ {t}
           /\ o = "failed" /\ t \in Past => Past' = Past
<1>1. /\ op' \in [Requests -> DOMAIN Route] /\ at' \in [Requests -> Nat \ {0}]
      /\ sid' \in [Requests -> Sids \cup {None}]
      /\ op'[t] = o /\ at'[t] = 1
      /\ \A u \in Requests \ {t} : op'[u] = op[u] /\ at'[u] = at[u] /\ sid'[u] = sid[u]
  BY Routes DEF TurnTo, ThreadsOK
<1>2. ThreadsOK'
  BY <1>1, Routes DEF ThreadsOK
<1>3. /\ Holders' \ {t} = Holders \ {t} /\ Past' \ {t} = Past \ {t}
      /\ t \notin Holders' /\ (t \in Past' <=> o = "failed")
  <2>1. Holders' \ {t} = Holders \ {t} /\ Past' \ {t} = Past \ {t}
    BY <1>1, <1>2, Moved
  <2>2. op'[t] \notin {"login", "setup"} \cup SlotFirst
    BY <1>1 DEF SlotFirst
  <2>3. t \notin Holders'
    BY <1>1, <1>2, <2>2, Moved
  <2>4. t \in Past' <=> op'[t] = "failed"
    BY <1>1, <1>2, <2>2, Moved
  <2>5. QED
    BY <1>1, <2>1, <2>3, <2>4
<1>4. Holders' = Holders \ {t}
  BY <1>3
<1>5. SlotSum'
  <2>1. IsFiniteSet(Holders)
    BY FS_Subset DEF Holders
  <2>2. CASE t \in Holders
    <3>1. Cardinality(Holders') = Cardinality(Holders) - 1 /\ Cardinality(Holders) \in Nat
      BY <1>4, <2>1, <2>2, FS_RemoveElement, FS_CardinalityType
    <3>2. QED
      BY <2>2, <3>1 DEF CountInv, SlotSum
  <2>3. CASE t \notin Holders
    <3>1. Holders' = Holders
      BY <1>4, <2>3
    <3>2. QED
      BY <2>3, <3>1 DEF CountInv, SlotSum
  <2>4. QED
    BY <2>2, <2>3
<1>6. QED
  BY <1>1, <1>2, <1>3, <1>5

LEMMA Ends ==
    ASSUME ThreadsOK, CountInv, NEW t \in Requests, Finish(t),
           got' \in [Requests -> Secrets \cup {None}], \A u \in Requests \ {t} : got'[u] = got[u]
    PROVE  /\ ThreadsOK' /\ op'[t] = "none" /\ SlotSum' /\ Past' = Past \ {t}
           /\ \A u \in Requests \ {t} : op'[u] = op[u] /\ at'[u] = at[u] /\ sid'[u] = sid[u]
<1>1. TurnTo(t, "none") /\ slots' = IF t \in Holders THEN slots + 1 ELSE slots
  BY DEF Finish, Holders
<1>2. QED
  BY <1>1, Turns

\* A failure is recorded by a thread that was let past the lockout.
LEMMA Records ==
    ASSUME CountInv, locked \in BOOLEAN, NEW t \in Past, RecordFailure, SlotSum', Past' = Past \ {t}
    PROVE  CountInv' /\ locked' \in BOOLEAN
<1>1. /\ Cardinality(Past) \in Nat /\ Cardinality(Past') = Cardinality(Past) - 1
      /\ Cardinality(Requests) \in Nat /\ Cardinality(Past) <= Cardinality(Requests)
  <2>1. IsFiniteSet(Past) /\ Cardinality(Past) <= Cardinality(Requests)
    BY FS_Subset DEF Past
  <2>2. QED
    BY <2>1, FS_RemoveElement, FS_CardinalityType
<1>2. tries' = tries + 1
  BY DEF RecordFailure
<1>3. CASE locked
  <2>1. failures' = failures /\ locked' = locked
    BY <1>3 DEF RecordFailure
  <2>2. /\ tries + Cardinality(Past) <= MaxFailures - 1 + Cardinality(Requests)
        /\ failures \in 0..(MaxFailures - 1) /\ tries \in Nat
    BY <1>3 DEF CountInv
  <2>3. tries' + Cardinality(Past') <= MaxFailures - 1 + Cardinality(Requests) /\ tries' \in Nat
    BY <1>1, <1>2, <2>2
  <2>4. QED
    BY <1>3, <2>1, <2>2, <2>3 DEF CountInv
<1>4. CASE ~locked
  <2>1. /\ locked' = (failures + 1 >= MaxFailures)
        /\ failures' = IF locked' THEN 0 ELSE failures + 1
    BY <1>4 DEF RecordFailure
  <2>2. tries = failures /\ failures \in 0..(MaxFailures - 1)
    BY <1>4 DEF CountInv
  <2>3. CASE failures + 1 >= MaxFailures
    <3>1. locked' /\ failures' = 0
      BY <2>1, <2>3
    <3>2. /\ tries' + Cardinality(Past') <= MaxFailures - 1 + Cardinality(Requests)
          /\ tries' \in Nat /\ failures' \in 0..(MaxFailures - 1)
      BY <1>1, <1>2, <2>2, <3>1
    <3>3. locked' \in BOOLEAN
      BY <2>1
    <3>4. QED
      BY <3>1, <3>2, <3>3 DEF CountInv
  <2>4. CASE ~(failures + 1 >= MaxFailures)
    <3>1. ~locked' /\ failures' = failures + 1
      BY <2>1, <2>4
    <3>2. tries' = failures' /\ tries' \in Nat /\ failures' \in 0..(MaxFailures - 1)
      BY <1>2, <2>2, <2>4, <3>1
    <3>3. locked' \in BOOLEAN
      BY <2>1
    <3>4. QED
      BY <3>1, <3>2, <3>3 DEF CountInv
  <2>5. QED
    BY <2>3, <2>4
<1>5. QED
  BY <1>3, <1>4

\* A thread behind both gates fails, in one of the two ways.
LEMMA Fails ==
    ASSUME ThreadsOK, CountInv, locked \in BOOLEAN, NEW t \in Requests, Fail(t),
           at[t] > 2, op[t] \in SignIn, UNCHANGED got
    PROVE  /\ ThreadsOK' /\ CountInv' /\ locked' \in BOOLEAN /\ op'[t] \in {"none", "failed"}
           /\ \A u \in Requests \ {t} : op'[u] = op[u] /\ at'[u] = at[u] /\ sid'[u] = sid[u]
<1>1. t \in Holders /\ t \in Past
  <2>1. op[t] \in DOMAIN Route /\ at[t] \in Nat \ {0}
    BY DEF ThreadsOK
  <2>2. Behind(op[t], at[t], "slot") /\ Behind(op[t], at[t], "allowed")
    BY <2>1, Gates DEF SignIn
  <2>3. QED
    BY <2>2 DEF Holders, Past, HoldsSlot, MayFail
<1>2. got' \in [Requests -> Secrets \cup {None}]
  BY DEF ThreadsOK
<1>3. CASE RecordFailure /\ Finish(t)
  <2>1. /\ ThreadsOK' /\ op'[t] = "none" /\ SlotSum' /\ Past' = Past \ {t}
        /\ \A u \in Requests \ {t} : op'[u] = op[u] /\ at'[u] = at[u] /\ sid'[u] = sid[u]
    BY <1>2, <1>3, Ends
  <2>2. CountInv' /\ locked' \in BOOLEAN
    BY <1>1, <1>3, <2>1, Records
  <2>3. QED
    BY <2>1, <2>2
<1>4. CASE TurnTo(t, "failed") /\ slots' = slots + 1 /\ UNCHANGED counting
  <2>1. /\ ThreadsOK' /\ op'[t] = "failed" /\ SlotSum' /\ Past' = Past
        /\ \A u \in Requests \ {t} : op'[u] = op[u] /\ at'[u] = at[u] /\ sid'[u] = sid[u]
    BY <1>1, <1>2, <1>4, Turns
  <2>2. CountInv' /\ locked' = locked
    BY <1>4, <2>1 DEF CountInv, counting
  <2>3. QED
    BY <2>1, <2>2
<1>5. QED
  BY <1>3, <1>4 DEF Fail

\* The counts when no thread passes a gate, when one ends without a failure,
\* and when the failures are forgiven.
LEMMA CountStays ==
    ASSUME CountInv, UNCHANGED <<slots, counting>>, Holders' = Holders, Past' = Past
    PROVE  CountInv'
  BY DEF CountInv, SlotSum, counting

LEMMA SameThreads ==
    ASSUME UNCHANGED <<op, at>>
    PROVE  Holders' = Holders /\ Past' = Past
  BY DEF Holders, Past, HoldsSlot, MayFail

LEMMA SumStays ==
    ASSUME CountInv, UNCHANGED slots, Holders' = Holders
    PROVE  SlotSum'
  BY DEF CountInv, SlotSum

LEMMA Forgives ==
    ASSUME SlotSum', Forgive
    PROVE  CountInv'
<1>1. ~locked' /\ failures' = 0 /\ tries' = 0
  BY DEF Forgive
<1>2. failures' \in 0..(MaxFailures - 1) /\ tries' \in Nat
  BY <1>1
<1>3. (locked' => tries' + Cardinality(Past') <= MaxFailures - 1 + Cardinality(Requests))
      /\ (~locked' => tries' = failures')
  BY <1>1
<1>4. QED
  BY <1>2, <1>3 DEF CountInv

LEMMA CountAfterEnd ==
    ASSUME CountInv, SlotSum', Past' \subseteq Past, UNCHANGED counting
    PROVE  CountInv'
<1>1. failures' = failures /\ tries' = tries
  BY DEF counting
<1>2. locked' = locked
  BY DEF counting
<1>3. failures \in 0..(MaxFailures - 1) /\ tries \in Nat
  BY DEF CountInv
<1>4. CASE locked
  <2>1. tries + Cardinality(Past) <= MaxFailures - 1 + Cardinality(Requests)
    BY <1>4 DEF CountInv
  <2>2. IsFiniteSet(Past)
    BY FS_Subset DEF Past
  <2>3. /\ Cardinality(Past') <= Cardinality(Past) /\ Cardinality(Past) \in Nat
        /\ Cardinality(Past') \in Nat /\ Cardinality(Requests) \in Nat
    BY <2>2, FS_Subset, FS_CardinalityType
  <2>4. tries' + Cardinality(Past') <= MaxFailures - 1 + Cardinality(Requests)
    BY <1>1, <1>3, <2>1, <2>3
  <2>5. QED
    BY <1>1, <1>2, <1>3, <1>4, <2>4 DEF CountInv
<1>5. CASE ~locked
  <2>1. tries' = failures'
    BY <1>1, <1>5 DEF CountInv
  <2>2. QED
    BY <1>1, <1>2, <1>3, <1>5, <2>1 DEF CountInv
<1>6. QED
  BY <1>4, <1>5

\* The second factors in progress when thread t does something else, and when
\* a change waits for its wipe.
LEMMA FactorStays ==
    ASSUME FactorInv, ThreadsOK, NEW t \in Requests, op'[t] # "second" \/ at'[t] \in 1..3,
           UNCHANGED <<sessions, proved, unwiped>>, store'.totp = store.totp,
           \A u \in Requests \ {t} :
               op'[u] = op[u] /\ at'[u] = at[u] /\ sid'[u] = sid[u] /\ got'[u] = got[u]
    PROVE  FactorInv'
  BY DEF FactorInv, ThreadsOK

LEMMA FactorWaits == unwiped' = TRUE => FactorInv'
  BY DEF FactorInv

LEMMA OnboardStays ==
    ASSUME OnboardInv, onboardings' = onboardings, ~store'.password => ~store.password
    PROVE  OnboardInv'
  BY DEF OnboardInv

LEMMA CodesStay ==
    ASSUME CodesInv, UNCHANGED <<again, used, accepted, printed>>, store'.codes \subseteq store.codes
    PROVE  CodesInv'
  BY DEF CodesInv

\* The invariant when a step leaves the codes and the onboarding alone.
LEMMA Together ==
    ASSUME ThreadsOK', DataOK', OnboardInv', CodesInv', FactorInv', CountInv'
    PROVE  AuthInv'
  BY PTL DEF AuthInv, TypeInv

-----------------------------------------------------------------------------
(* The invariant: the initial state, and the steps one by one.             *)

LEMMA InitHolds == AuthInit => AuthInv
<1> SUFFICES ASSUME AuthInit PROVE AuthInv
  OBVIOUS
<1>1. ThreadsOK
  BY Routes DEF AuthInit, ThreadsOK
<1>2. DataOK
  <2>1. store \in Stores
    BY DEF AuthInit, Stores
  <2>2. /\ sessions \in [Sids -> Sessions \cup {None}] /\ used \in [Secrets -> 0..LastWindow]
        /\ proved \in [Sids -> SUBSET Secrets] /\ minted \in 0..MaxSecrets /\ printed \in 0..MaxCodes
    BY DEF AuthInit
  <2>3. locked \in BOOLEAN
    BY DEF AuthInit
  <2>4. QED
    BY <2>1, <2>2, <2>3 DEF DataOK
<1>3. OnboardInv /\ CodesInv /\ FactorInv
  BY DEF AuthInit, OnboardInv, CodesInv, FactorInv
<1>4. CountInv
  <2>1. Holders = {}
    BY Routes, Gates DEF AuthInit, Holders, HoldsSlot, SlotFirst
  <2>2. Cardinality(Holders) = 0
    BY <2>1, FS_EmptySet
  <2>3. slots = Slots /\ failures = 0 /\ tries = 0 /\ locked = FALSE
    BY DEF AuthInit
  <2>4. QED
    BY <2>2, <2>3 DEF CountInv, SlotSum
<1>5. QED
  BY <1>1, <1>2, <1>3, <1>4 DEF AuthInv, TypeInv

LEMMA ArriveKeeps ==
    ASSUME AuthInv, NEW t \in Requests, NEW o, NEW k \in Sids \cup {None}, Arrive(t, o, k)
    PROVE  AuthInv'
<1>1. ThreadsOK /\ DataOK
  BY DEF AuthInv, TypeInv
<1>2. op[t] = "none" /\ at[t] = 1
  BY <1>1, Routes DEF Arrive, ThreadsOK
<1>3. o \in SignIn /\ o \in DOMAIN Route /\ (o = "second" => k \in Sids)
  BY Routes DEF Arrive, MayEnter, SignIn, SlotFirst
<1>4. /\ op' \in [Requests -> DOMAIN Route] /\ sid' \in [Requests -> Sids \cup {None}]
      /\ op'[t] = o /\ (o = "second" => sid'[t] \in Sids) /\ at' = at /\ got' = got
      /\ \A u \in Requests \ {t} : op'[u] = op[u] /\ sid'[u] = sid[u]
  BY <1>1, <1>3 DEF Arrive, ThreadsOK
<1>5. 1 <= Steps(o)
  BY <1>3, Routes
<1>6. ThreadsOK'
  BY <1>1, <1>2, <1>4, <1>5 DEF ThreadsOK
<1>7. DataOK'
  BY <1>1 DEF Arrive, DataOK, authTables, authHistory
<1>8. OnboardInv' /\ CodesInv'
  BY OnboardStays, CodesStay DEF Arrive, AuthInv, authHistory, authTables
<1>9. FactorInv'
  BY <1>1, <1>2, <1>4, FactorStays DEF Arrive, AuthInv, authHistory, authTables
<1>10. CountInv'
  <2>1. Holders' = Holders /\ Past' = Past
    <3>1. t \notin Holders /\ t \notin Holders' /\ t \notin Past /\ t \notin Past'
      BY <1>1, <1>2, <1>3, <1>4, <1>6, Moved DEF SignIn, SlotFirst
    <3>2. Holders' \ {t} = Holders \ {t} /\ Past' \ {t} = Past \ {t}
      BY <1>1, <1>4, <1>6, Moved
    <3>3. QED
      BY <3>1, <3>2
  <2>2. UNCHANGED <<slots, counting>>
    BY DEF Arrive, authTables, authHistory, counting
  <2>3. QED
    BY <2>1, <2>2, CountStays DEF AuthInv
<1>11. QED
  BY <1>6, <1>7, <1>8, <1>9, <1>10, Together

LEMMA BeginTotpSetupKeeps ==
    ASSUME AuthInv, BeginTotpSetup
    PROVE  AuthInv'
<1>1. ThreadsOK /\ DataOK
  BY DEF AuthInv, TypeInv
<1>2. ThreadsOK'
  BY <1>1 DEF BeginTotpSetup, ThreadsOK, authThreads
<1>3. /\ store' \in Stores /\ store'.password = store.password
      /\ store'.totp = store.totp /\ store'.codes = store.codes /\ minted' \in 0..MaxSecrets
  <2>1. minted \in 0..MaxSecrets /\ minted < MaxSecrets /\ minted' = minted + 1
    BY <1>1 DEF BeginTotpSetup, DataOK
  <2>2. store \in Stores /\ store' = WithPending(store, minted + 1)
    BY <1>1 DEF BeginTotpSetup, DataOK
  <2>3. minted + 1 \in Secrets /\ minted' \in 0..MaxSecrets
    BY <2>1
  <2>4. QED
    BY <1>1, <2>2, <2>3, StoreChanges DEF DataOK
<1>4. DataOK'
  BY <1>1, <1>3 DEF BeginTotpSetup, DataOK, authTables, authHistory
<1>5. OnboardInv' /\ CodesInv'
  BY <1>3, OnboardStays, CodesStay DEF BeginTotpSetup, AuthInv, authHistory, authTables
<1>6. FactorInv'
  BY <1>3 DEF BeginTotpSetup, AuthInv, FactorInv, authHistory, authTables, authThreads
<1>7. CountInv'
  BY CountStays, SameThreads DEF BeginTotpSetup, AuthInv, counting, authHistory, authTables, authThreads
<1>8. QED
  BY <1>2, <1>4, <1>5, <1>6, <1>7, Together

LEMMA ConsoleStartKeeps ==
    ASSUME AuthInv, NEW t \in Requests, NEW o, ConsoleStart(t, o)
    PROVE  AuthInv'
<1>1. ThreadsOK /\ DataOK
  BY DEF AuthInv, TypeInv
<1>2. op[t] = "none" /\ at[t] = 1 /\ o \in {"consolePassword", "consoleTotp"}
  BY <1>1, Routes DEF ConsoleStart, ThreadsOK, Console
<1>3. /\ op' \in [Requests -> DOMAIN Route] /\ op'[t] = o /\ at' = at /\ sid' = sid
      /\ \A u \in Requests \ {t} : op'[u] = op[u]
  BY <1>1, <1>2, Routes DEF ConsoleStart, ThreadsOK
<1>4. /\ minted' \in 0..MaxSecrets /\ got' \in [Requests -> Secrets \cup {None}]
      /\ \A u \in Requests \ {t} : got'[u] = got[u]
  <2>1. minted \in 0..MaxSecrets /\ got \in [Requests -> Secrets \cup {None}]
    BY <1>1 DEF ThreadsOK, DataOK
  <2>2. CASE UNCHANGED <<minted, got>>
    BY <2>1, <2>2
  <2>3. CASE minted < MaxSecrets /\ minted' = minted + 1 /\ Note(t, minted + 1)
    BY <2>1, <2>3 DEF Note
  <2>4. QED
    BY <2>2, <2>3 DEF ConsoleStart
<1>5. 1 <= Steps(o)
  BY <1>2, Routes
<1>6. ThreadsOK'
  BY <1>1, <1>2, <1>3, <1>4, <1>5 DEF ThreadsOK
<1>7. DataOK'
  BY <1>1, <1>4 DEF ConsoleStart, DataOK, authTables, authHistory
<1>8. OnboardInv' /\ CodesInv'
  BY OnboardStays, CodesStay DEF ConsoleStart, AuthInv, authHistory, authTables
<1>9. FactorInv'
  BY <1>1, <1>2, <1>3, <1>4, FactorStays DEF ConsoleStart, AuthInv, authHistory, authTables
<1>10. CountInv'
  <2>1. Holders' = Holders /\ Past' = Past
    <3>1. t \notin Holders /\ t \notin Holders' /\ t \notin Past /\ t \notin Past'
      BY <1>1, <1>2, <1>3, <1>6, Moved DEF SlotFirst
    <3>2. Holders' \ {t} = Holders \ {t} /\ Past' \ {t} = Past \ {t}
      BY <1>1, <1>3, <1>6, Moved
    <3>3. QED
      BY <3>1, <3>2
  <2>2. UNCHANGED <<slots, counting>>
    BY DEF ConsoleStart, authTables, authHistory, counting
  <2>3. QED
    BY <2>1, <2>2, CountStays DEF AuthInv
<1>11. QED
  BY <1>6, <1>7, <1>8, <1>9, <1>10, Together

\* A route ends without having changed anything but the count of failures.
LEMMA AnswerKeeps ==
    ASSUME AuthInv, NEW t \in Requests, Finish(t),
           UNCHANGED <<store, got, counting, sessions, used, minted, printed>>,
           UNCHANGED <<onboardings, accepted, again, proved, unwiped>>
    PROVE  AuthInv'
<1>1. ThreadsOK /\ DataOK /\ OnboardInv /\ CodesInv /\ FactorInv /\ CountInv
  BY DEF AuthInv, TypeInv
<1>2. got' \in [Requests -> Secrets \cup {None}]
  BY <1>1 DEF ThreadsOK
<1>3. /\ ThreadsOK' /\ op'[t] = "none" /\ SlotSum' /\ Past' = Past \ {t}
      /\ \A u \in Requests \ {t} : op'[u] = op[u] /\ at'[u] = at[u] /\ sid'[u] = sid[u]
  BY <1>1, <1>2, Ends
<1>4. CountInv'
  BY <1>1, <1>3, CountAfterEnd
<1>5. FactorInv'
  BY <1>1, <1>3, FactorStays
<1>6. DataOK' /\ OnboardInv' /\ CodesInv'
  BY <1>1, OnboardStays, CodesStay DEF DataOK, counting
<1>7. QED
  BY <1>3, <1>4, <1>5, <1>6, Together

\* A thread passes one of the gates, or is turned away at it.
LEMMA GateKeeps ==
    ASSUME AuthInv, NEW t \in Requests, at[t] \in 1..2, op[t] \in SignIn,
           at' = [at EXCEPT ![t] = @ + 1], UNCHANGED <<op, sid, store, got, counting>>,
           UNCHANGED <<sessions, used, minted, printed, onboardings, accepted, again, proved, unwiped>>,
           ThreadsOK' => CountInv'
    PROVE  AuthInv'
<1>1. ThreadsOK /\ DataOK /\ OnboardInv /\ CodesInv /\ FactorInv
  BY DEF AuthInv, TypeInv
<1>2. /\ at' \in [Requests -> Nat \ {0}] /\ at'[t] \in 1..3
      /\ \A u \in Requests \ {t} : at'[u] = at[u]
  BY <1>1 DEF ThreadsOK
<1>3. 3 <= Steps(op[t])
  BY Routes DEF SignIn, SlotFirst
<1>4. ThreadsOK'
  <2>1. op' = op /\ sid' = sid /\ got' = got
    OBVIOUS
  <2>2. at'[t] <= Steps(op[t]) /\ at'[t] # 4
    <3>1. Steps(op[t]) \in Nat
      BY Routes DEF SignIn, SlotFirst
    <3>2. QED
      BY <1>2, <1>3, <3>1
  <2>3. QED
    BY <1>1, <1>2, <2>1, <2>2 DEF ThreadsOK
<1>5. FactorInv'
  BY <1>1, <1>2, FactorStays
<1>6. DataOK' /\ OnboardInv' /\ CodesInv'
  BY <1>1, OnboardStays, CodesStay DEF DataOK, counting
<1>7. QED
  BY <1>4, <1>5, <1>6, Together

LEMMA AskLockoutKeeps ==
    ASSUME AuthInv, NEW t \in Requests, AskLockout(t)
    PROVE  AuthInv'
<1>1. ThreadsOK /\ DataOK /\ CountInv
  BY DEF AuthInv, TypeInv
<1>2. \/ op[t] \in {"login", "setup"} /\ at[t] = 1
      \/ op[t] \in SlotFirst /\ at[t] = 2
  BY <1>1, Places DEF AskLockout, ThreadsOK, SlotFirst
<1>3. /\ UNCHANGED <<store, sessions, used, minted, printed, got>> /\ UNCHANGED counting
      /\ UNCHANGED <<onboardings, accepted, again, proved, unwiped>>
  BY DEF AskLockout, authTables, authHistory, counting
<1>4. CASE locked
  <2>1. Finish(t)
    BY <1>4 DEF AskLockout, login_allowed
  <2>2. QED
    BY <1>3, <2>1, AnswerKeeps
<1>5. CASE ~locked
  <2>1. at' = [at EXCEPT ![t] = @ + 1] /\ UNCHANGED <<op, sid, slots>>
    BY <1>5 DEF AskLockout, login_allowed, Advance
  <2>2. ASSUME ThreadsOK' PROVE CountInv'
    <3>1. /\ at'[t] = at[t] + 1 /\ op'[t] = op[t]
          /\ \A u \in Requests \ {t} : op'[u] = op[u] /\ at'[u] = at[u]
      BY <1>1, <2>1 DEF ThreadsOK
    <3>2. t \in Holders' <=> t \in Holders
      BY <1>1, <1>2, <2>2, <3>1, Moved DEF SlotFirst
    <3>3. Holders' \ {t} = Holders \ {t}
      BY <1>1, <2>2, <3>1, Moved
    <3>4. Holders' = Holders
      BY <3>2, <3>3
    <3>5. failures' = failures /\ tries' = tries
      BY <1>3 DEF counting
    <3>6. ~locked'
      BY <1>3, <1>5 DEF counting
    <3>7. SlotSum'
      BY <1>1, <2>1, <3>4, SumStays
    <3>8. tries = failures /\ failures \in 0..(MaxFailures - 1) /\ tries \in Nat
      BY <1>1, <1>5 DEF CountInv
    <3>9. QED
      BY <3>5, <3>6, <3>7, <3>8 DEF CountInv
  <2>3. at[t] \in 1..2 /\ op[t] \in SignIn
    BY <1>2 DEF SignIn
  <2>4. QED
    BY <1>3, <2>1, <2>2, <2>3, GateKeeps
<1>6. QED
  BY <1>4, <1>5

LEMMA TakeSlotKeeps ==
    ASSUME AuthInv, NEW t \in Requests, TakeSlot(t)
    PROVE  AuthInv'
<1>1. ThreadsOK /\ DataOK /\ CountInv
  BY DEF AuthInv, TypeInv
<1>2. \/ op[t] \in {"login", "setup"} /\ at[t] = 2
      \/ op[t] \in SlotFirst /\ at[t] = 1
  BY <1>1, Places DEF TakeSlot, ThreadsOK, SlotFirst
<1>3. /\ UNCHANGED <<store, sessions, used, minted, printed, got>> /\ UNCHANGED counting
      /\ UNCHANGED <<onboardings, accepted, again, proved, unwiped>>
  BY DEF TakeSlot, authTables, authHistory, counting
<1>4. CASE ~(slots > 0)
  BY <1>3, <1>4, AnswerKeeps DEF TakeSlot
<1>5. CASE slots > 0
  <2>1. /\ slots' = slots - 1 /\ at' = [at EXCEPT ![t] = @ + 1] /\ UNCHANGED <<op, sid>>
    BY <1>5 DEF TakeSlot
  <2>2. ASSUME ThreadsOK' PROVE CountInv'
    <3>1. /\ at'[t] = at[t] + 1 /\ op'[t] = op[t]
          /\ \A u \in Requests \ {t} : op'[u] = op[u] /\ at'[u] = at[u]
      BY <1>1, <2>1 DEF ThreadsOK
    <3>2. (t \in Past' <=> t \in Past) /\ t \in Holders' /\ t \notin Holders
      <4>1. CASE op[t] \in {"login", "setup"} /\ at[t] = 2
        BY <1>1, <2>2, <3>1, <4>1, Moved DEF SlotFirst
      <4>2. CASE op[t] \in SlotFirst /\ at[t] = 1
        <5>1. op[t] \notin {"login", "setup", "failed"}
          BY <4>2 DEF SlotFirst
        <5>2. QED
          BY <1>1, <2>2, <3>1, <4>2, <5>1, Moved
      <4>3. QED
        BY <1>2, <4>1, <4>2
    <3>3. Holders' \ {t} = Holders \ {t} /\ Past' \ {t} = Past \ {t}
      BY <1>1, <2>2, <3>1, Moved
    <3>4. Holders' = Holders \cup {t} /\ Past' = Past
      BY <3>2, <3>3
    <3>5. IsFiniteSet(Holders)
      BY FS_Subset DEF Holders
    <3>6. Cardinality(Holders') = Cardinality(Holders) + 1 /\ Cardinality(Holders) \in Nat
      BY <3>2, <3>4, <3>5, FS_AddElement, FS_CardinalityType
    <3>7. SlotSum'
      BY <1>1, <1>5, <2>1, <3>6 DEF CountInv, SlotSum
    <3>8. QED
      BY <1>1, <1>3, <3>4, <3>7, CountAfterEnd
  <2>3. at[t] \in 1..2 /\ op[t] \in SignIn
    BY <1>2 DEF SignIn
  <2>4. QED
    BY <1>3, <2>1, <2>2, <2>3, GateKeeps
<1>6. QED
  BY <1>4, <1>5

LEMMA RecordKeeps ==
    ASSUME AuthInv, NEW t \in Requests, Record(t)
    PROVE  AuthInv'
<1>1. ThreadsOK /\ DataOK /\ OnboardInv /\ CodesInv /\ FactorInv /\ CountInv
  BY DEF AuthInv, TypeInv
<1>2. op[t] = "failed"
  BY <1>1, Places DEF Record, ThreadsOK
<1>3. /\ UNCHANGED <<store, sessions, used, minted, printed, got>> /\ RecordFailure /\ Finish(t)
      /\ UNCHANGED <<onboardings, accepted, again, proved, unwiped>>
  BY DEF Record
<1>4. /\ ThreadsOK' /\ op'[t] = "none" /\ SlotSum' /\ Past' = Past \ {t}
      /\ \A u \in Requests \ {t} : op'[u] = op[u] /\ at'[u] = at[u] /\ sid'[u] = sid[u]
  <2>1. got' \in [Requests -> Secrets \cup {None}]
    BY <1>1, <1>3 DEF ThreadsOK
  <2>2. QED
    BY <1>1, <1>3, <2>1, Ends
<1>5. CountInv' /\ locked' \in BOOLEAN
  <2>1. t \in Past /\ locked \in BOOLEAN
    BY <1>1, <1>2 DEF Past, MayFail, DataOK
  <2>2. QED
    BY <1>1, <1>3, <1>4, <2>1, Records
<1>6. FactorInv'
  BY <1>1, <1>3, <1>4, FactorStays
<1>7. DataOK' /\ OnboardInv' /\ CodesInv'
  BY <1>1, <1>3, <1>5, OnboardStays, CodesStay DEF DataOK
<1>8. QED
  BY <1>4, <1>5, <1>6, <1>7, Together

LEMMA FailKeeps ==
    ASSUME AuthInv, NEW t \in Requests, Fail(t), at[t] > 2, op[t] \in SignIn,
           UNCHANGED <<got, sessions, used, minted, printed>>,
           UNCHANGED <<onboardings, accepted, again, proved, unwiped>>,
           store' \in Stores, store'.password = store.password,
           store'.totp = store.totp, store'.codes = store.codes
    PROVE  AuthInv'
<1>1. ThreadsOK /\ DataOK /\ OnboardInv /\ CodesInv /\ FactorInv /\ CountInv
  BY DEF AuthInv, TypeInv
<1>2. /\ ThreadsOK' /\ CountInv' /\ op'[t] # "second" /\ locked' \in BOOLEAN
      /\ \A u \in Requests \ {t} : op'[u] = op[u] /\ at'[u] = at[u] /\ sid'[u] = sid[u]
  BY <1>1, Fails DEF DataOK
<1>3. FactorInv'
  BY <1>1, <1>2, FactorStays
<1>4. DataOK'
  BY <1>1, <1>2 DEF DataOK
<1>5. OnboardInv' /\ CodesInv'
  BY <1>1, OnboardStays, CodesStay
<1>6. QED
  BY <1>2, <1>3, <1>4, <1>5, Together

\* A thread goes on, its local value as it was, and only the codes change.
LEMMA AcceptKeeps ==
    ASSUME AuthInv, NEW t \in Requests, NEW x, at[t] = 4, op[t] \in {"second", "activate", "disable"},
           Accept(t, x), CodesInv', UNCHANGED <<sessions, minted, printed, got, onboardings, unwiped>>,
           UNCHANGED counting, used' \in [Secrets -> 0..LastWindow],
           store' \in Stores, store'.password = store.password, store'.totp = store.totp
    PROVE  AuthInv'
<1>1. ThreadsOK /\ DataOK /\ OnboardInv /\ FactorInv /\ CountInv
  BY DEF AuthInv, TypeInv
<1>2. got' = got /\ got \in [Requests -> Secrets \cup {None}] /\ got[t] \in Secrets
  BY <1>1 DEF ThreadsOK
<1>3. at[t] + 1 <= Steps(op[t])
  BY Routes
<1>4. Advance(t, 1)
  BY DEF Accept
<1>5. /\ ThreadsOK' /\ at'[t] = 5 /\ \A u \in Requests \ {t} : at'[u] = at[u]
      /\ Holders' = Holders /\ Past' = Past
  BY <1>1, <1>2, <1>3, <1>4, GoesOn
<1>6. UNCHANGED <<op, sid, slots>>
  BY <1>4 DEF Advance
<1>7. /\ proved' \in [Sids -> SUBSET Secrets] /\ \A k \in Sids : proved[k] \subseteq proved'[k]
      /\ op[t] = "second" => got[t] \in proved'[sid[t]]
  BY <1>1, <1>2 DEF Accept, ThreadsOK, DataOK
<1>8. DataOK'
  BY <1>1, <1>7 DEF DataOK, counting
<1>9. OnboardInv'
  BY <1>1, OnboardStays
<1>10. FactorInv'
  <2>1. SUFFICES ASSUME ~unwiped' PROVE FactorInv'
    BY DEF FactorInv
  <2>2. unwiped' = unwiped /\ ~unwiped
    BY <2>1
  <2>3. \A k \in Sids :
           sessions[k] # None /\ store.totp # None /\ sessions[k].seal = store.totp =>
               store.totp \in proved'[k]
    BY <1>1, <1>7, <2>2 DEF FactorInv
  <2>4. ASSUME NEW u \in Requests, op[u] = "second", sessions[sid[u]] # None, u # t
        PROVE  /\ at'[u] = 4 => got[u] = store.totp
               /\ at'[u] = 5 => store.totp \in proved'[sid[u]]
               /\ at'[u] = 6 => got[u] = store.totp /\ got[u] \in proved'[sid[u]]
    BY <1>1, <1>5, <1>7, <2>2, <2>4 DEF FactorInv, ThreadsOK
  <2>5. op[t] = "second" /\ sessions[sid[t]] # None => store.totp \in proved'[sid[t]]
    BY <1>1, <1>7, <2>2 DEF FactorInv
  <2>6. QED
    BY <1>5, <1>6, <2>2, <2>3, <2>4, <2>5 DEF FactorInv
<1>11. CountInv'
  BY <1>1, <1>5, <1>6, CountStays
<1>12. QED
  BY <1>5, <1>8, <1>9, <1>10, <1>11, Together

LEMMA VerifyKeeps ==
    ASSUME AuthInv, NEW t \in Requests, Verify(t)
    PROVE  AuthInv'
<1>1. ThreadsOK /\ DataOK /\ OnboardInv /\ CodesInv /\ FactorInv /\ CountInv
  BY DEF AuthInv, TypeInv
<1>2. /\ at[t] = 3
      /\ op[t] \in {"login", "setup", "second", "password", "activate", "disable", "codes"}
  BY <1>1, Places DEF Verify, ThreadsOK
<1>3. op[t] \in SignIn /\ at[t] > 2
  BY <1>2 DEF SignIn, SlotFirst
<1>4. UNCHANGED <<sessions, used, minted, printed, onboardings, accepted, again, proved, unwiped>>
  BY DEF Verify
<1>5. CASE NothingToDo(t) /\ UNCHANGED <<store, got, counting>>
  BY <1>3, <1>4, <1>5, AnswerKeeps DEF NothingToDo
<1>6. CASE /\ op[t] \in {"second", "disable"} => store.totp # None
           /\ op[t] = "activate" => PendingLives
           /\ Note(t, IF op[t] = "activate" THEN store.pending ELSE store.totp)
           /\ Advance(t, 1) /\ UNCHANGED <<store, counting>>
  <2>1. /\ got' \in [Requests -> Secrets \cup {None}]
        /\ \A u \in Requests \ {t} : got'[u] = got[u]
        /\ got'[t] = IF op[t] = "activate" THEN store.pending ELSE store.totp
        /\ op[t] \in {"second", "activate", "disable"} => got'[t] \in Secrets
    BY <1>1, <1>6 DEF Note, PendingLives, ThreadsOK, DataOK, Stores
  <2>2. at[t] + 1 <= Steps(op[t])
    BY <1>2, Routes
  <2>3. /\ ThreadsOK' /\ at'[t] = 4 /\ \A u \in Requests \ {t} : at'[u] = at[u]
        /\ Holders' = Holders /\ Past' = Past
    BY <1>1, <1>2, <1>6, <2>1, <2>2, GoesOn
  <2>4. UNCHANGED <<op, sid, slots>>
    BY <1>6 DEF Advance
  <2>5. FactorInv'
    BY <1>1, <1>4, <1>6, <2>1, <2>3, <2>4 DEF FactorInv, ThreadsOK
  <2>6. CountInv'
    BY <1>1, <1>6, <2>3, <2>4, CountStays
  <2>7. DataOK' /\ OnboardInv' /\ CodesInv'
    BY <1>1, <1>4, <1>6, OnboardStays, CodesStay DEF DataOK, counting
  <2>8. QED
    BY <2>3, <2>5, <2>6, <2>7, Together
<1>7. CASE op[t] = "disable" /\ Advance(t, 2) /\ UNCHANGED <<store, got, counting>>
  <2>1. got' \in [Requests -> Secrets \cup {None}]
    BY <1>1, <1>7 DEF ThreadsOK
  <2>2. at[t] + 2 <= Steps(op[t])
    BY <1>2, <1>7, Routes
  <2>3. /\ ThreadsOK' /\ at'[t] = 5 /\ \A u \in Requests \ {t} : at'[u] = at[u]
        /\ Holders' = Holders /\ Past' = Past
    BY <1>1, <1>2, <1>7, <2>1, <2>2, GoesOn
  <2>4. UNCHANGED <<op, sid, slots>>
    BY <1>7 DEF Advance
  <2>5. FactorInv'
    BY <1>1, <1>4, <1>7, <2>3, <2>4, FactorStays
  <2>6. CountInv'
    BY <1>1, <1>7, <2>3, <2>4, CountStays
  <2>7. DataOK' /\ OnboardInv' /\ CodesInv'
    BY <1>1, <1>4, <1>7, OnboardStays, CodesStay DEF DataOK, counting
  <2>8. QED
    BY <2>3, <2>5, <2>6, <2>7, Together
<1>8. CASE /\ store' = IF op[t] = "activate" THEN WithoutPending(store) ELSE store
           /\ Fail(t) /\ UNCHANGED got
  <2>1. None \in Secrets \cup {None} /\ printed \in 0..MaxCodes /\ store \in Stores
    BY <1>1 DEF DataOK
  <2>2. /\ store' \in Stores /\ store'.password = store.password
        /\ store'.totp = store.totp /\ store'.codes = store.codes
    BY <1>8, <2>1, StoreChanges
  <2>3. QED
    BY <1>3, <1>4, <1>8, <2>2, FailKeeps
<1>9. QED
  BY <1>2, <1>5, <1>6, <1>7, <1>8 DEF Verify

LEMMA ConsumeKeeps ==
    ASSUME AuthInv, NEW t \in Requests, Consume(t)
    PROVE  AuthInv'
<1>1. ThreadsOK /\ DataOK /\ CodesInv
  BY DEF AuthInv, TypeInv
<1>2. at[t] = 4 /\ op[t] \in {"second", "activate", "disable"}
  BY <1>1, Places DEF Consume, ThreadsOK
<1>3. UNCHANGED <<sessions, minted, printed, got, onboardings, unwiped>>
  BY DEF Consume
<1>4. CASE ConsumeTotp(t) /\ UNCHANGED <<store, counting>>
  <2>1. PICK c \in 1..LastWindow : /\ c > used[got[t]] /\ used' = [used EXCEPT ![got[t]] = c]
                                   /\ Accept(t, <<"totp", got[t], c>>)
    BY <1>4 DEF ConsumeTotp
  <2>2. got[t] \in Secrets /\ used \in [Secrets -> 0..LastWindow]
    BY <1>1, <1>2 DEF ThreadsOK, DataOK
  <2>3. /\ used' \in [Secrets -> 0..LastWindow] /\ used'[got[t]] = c
        /\ \A y \in Secrets : used[y] <= used'[y]
    BY <2>1, <2>2
  <2>4. <<"totp", got[t], c>> \notin accepted
    BY <1>1, <2>1, <2>2 DEF CodesInv
  <2>5. again' = {} /\ accepted' = accepted \cup {<<"totp", got[t], c>>}
    BY <1>1, <2>1, <2>4 DEF Accept, CodesInv
  <2>6. ASSUME NEW y \in Secrets, NEW d \in 1..LastWindow, <<"totp", y, d>> \in accepted'
        PROVE  d <= used'[y]
    <3>1. CASE <<"totp", y, d>> \in accepted
      <4>1. d <= used[y]
        BY <1>1, <3>1 DEF CodesInv
      <4>2. used[y] <= used'[y] /\ used[y] \in 0..LastWindow /\ used'[y] \in 0..LastWindow
        BY <2>2, <2>3
      <4>3. QED
        BY <4>1, <4>2
    <3>2. CASE <<"totp", y, d>> = <<"totp", got[t], c>>
      <4>1. y = got[t] /\ d = c
        BY <3>2
      <4>2. QED
        BY <2>3, <4>1
    <3>3. QED
      BY <2>5, <2>6, <3>1, <3>2
  <2>7. \A d \in 1..MaxCodes : <<"recovery", d>> \in accepted' => <<"recovery", d>> \in accepted
    BY <2>5, CodesDiffer
  <2>8. CodesInv'
    BY <1>1, <1>3, <1>4, <2>5, <2>6, <2>7 DEF CodesInv
  <2>9. store \in Stores
    BY <1>1 DEF DataOK
  <2>10. QED
    BY <1>2, <1>3, <1>4, <2>1, <2>3, <2>8, <2>9, AcceptKeeps
<1>5. CASE ConsumeRecovery(t) /\ UNCHANGED <<used, counting>>
  <2>1. PICK c \in store.codes : /\ store' = [store EXCEPT !.codes = @ \ {c}]
                                 /\ Accept(t, <<"recovery", c>>)
    BY <1>5 DEF ConsumeRecovery
  <2>2. store \in Stores /\ c \in 1..MaxCodes /\ c \in 1..printed
    BY <1>1 DEF DataOK, Stores, CodesInv
  <2>3. /\ store' \in Stores /\ store'.password = store.password /\ store'.totp = store.totp
        /\ store'.codes = store.codes \ {c}
    BY <2>1, <2>2 DEF Stores
  <2>4. <<"recovery", c>> \notin accepted
    BY <1>1, <2>2 DEF CodesInv
  <2>5. again' = {} /\ accepted' = accepted \cup {<<"recovery", c>>}
    BY <1>1, <2>1, <2>4 DEF Accept, CodesInv
  <2>6. \A y \in Secrets, d \in 1..LastWindow : <<"totp", y, d>> \in accepted' => <<"totp", y, d>> \in accepted
    BY <2>5, CodesDiffer
  <2>7. ASSUME NEW d \in 1..MaxCodes, <<"recovery", d>> \in accepted'
        PROVE  d <= printed /\ d \notin store'.codes
    <3>1. CASE <<"recovery", d>> \in accepted
      BY <1>1, <2>3, <3>1 DEF CodesInv
    <3>2. CASE <<"recovery", d>> = <<"recovery", c>>
      BY <2>2, <2>3, <3>2
    <3>3. QED
      BY <2>5, <2>7, <3>1, <3>2
  <2>8. CodesInv'
    BY <1>1, <1>3, <1>5, <2>3, <2>5, <2>6, <2>7 DEF CodesInv
  <2>9. used \in [Secrets -> 0..LastWindow]
    BY <1>1 DEF DataOK
  <2>10. QED
    BY <1>2, <1>3, <1>5, <2>1, <2>3, <2>8, <2>9, AcceptKeeps
<1>6. CASE Fail(t) /\ UNCHANGED <<store, used, accepted, again, proved>>
  <2>1. op[t] \in SignIn /\ at[t] > 2 /\ store \in Stores
    BY <1>1, <1>2 DEF SignIn, SlotFirst, DataOK
  <2>2. QED
    BY <1>3, <1>6, <2>1, FailKeeps
<1>7. QED
  BY <1>4, <1>5, <1>6 DEF Consume

\* The codes printed now are none of those accepted before.
LEMMA NewCodesFresh ==
    ASSUME CodesInv, printed \in 0..MaxCodes, IssueCodes, store'.codes = NewCodes,
           UNCHANGED <<again, used, accepted>>
    PROVE  CodesInv' /\ printed' \in 0..MaxCodes
<1>1. printed' \in 0..MaxCodes /\ printed <= printed'
  BY DEF IssueCodes
<1>2. NewCodes \subseteq 1..printed' /\ \A c \in NewCodes : c > printed
  BY DEF NewCodes, IssueCodes
<1>3. ASSUME NEW c \in 1..MaxCodes, <<"recovery", c>> \in accepted
      PROVE  c <= printed' /\ c \notin store'.codes
  <2>1. c <= printed
    BY <1>3 DEF CodesInv
  <2>2. QED
    BY <1>1, <1>2, <2>1
<1>4. QED
  BY <1>1, <1>2, <1>3 DEF CodesInv

\* A change is in the file and its wipe is to follow.
LEMMA ChangeKeeps ==
    ASSUME AuthInv, NEW t \in Requests, Advance(t, 1), unwiped' = TRUE,
           UNCHANGED <<sessions, used, minted, got, proved>>, UNCHANGED counting,
           at[t] + 1 <= Steps(op[t]), op[t] # "second", at[t] > 2 \/ op[t] \in Console,
           op[t] \in {"activate", "disable"} => at[t] # 3,
           store' \in Stores, printed' \in 0..MaxCodes, OnboardInv', CodesInv'
    PROVE  AuthInv'
<1>1. ThreadsOK /\ DataOK /\ CountInv
  BY DEF AuthInv, TypeInv
<1>2. got' \in [Requests -> Secrets \cup {None}] /\ \A u \in Requests \ {t} : got'[u] = got[u]
  BY <1>1 DEF ThreadsOK
<1>3. op[t] \in {"second", "activate", "disable"} /\ at[t] + 1 = 4 => got'[t] \in Secrets
  BY <1>1 DEF ThreadsOK, Console
<1>4. ThreadsOK' /\ Holders' = Holders /\ Past' = Past
  BY <1>1, <1>2, <1>3, GoesOn
<1>5. UNCHANGED <<op, slots>>
  BY DEF Advance
<1>6. DataOK'
  BY <1>1 DEF DataOK, counting
<1>7. FactorInv' /\ CountInv'
  BY <1>1, <1>4, <1>5, FactorWaits, CountStays
<1>8. QED
  BY <1>4, <1>6, <1>7, Together

LEMMA SaveKeeps ==
    ASSUME AuthInv, NEW t \in Requests, Save(t)
    PROVE  AuthInv'
<1>1. ThreadsOK /\ DataOK /\ OnboardInv /\ CodesInv /\ FactorInv /\ CountInv
  BY DEF AuthInv, TypeInv
<1>2. \/ op[t] \in {"consolePassword", "consoleTotp"} /\ at[t] = 1
      \/ op[t] \in {"setup", "password", "codes"} /\ at[t] = 4
      \/ op[t] \in {"activate", "disable"} /\ at[t] = 5
  BY <1>1, Places DEF Save, ThreadsOK
<1>3. UNCHANGED <<sessions, used, minted, got, accepted, again, proved>>
  BY DEF Save
<1>4. at[t] + 1 <= Steps(op[t]) \/ op[t] = "codes"
  BY <1>2, Routes
<1>5. /\ op[t] # "second" /\ (at[t] > 2 \/ op[t] \in Console)
      /\ op[t] \in {"activate", "disable"} => at[t] # 3
  BY <1>2 DEF Console
<1>6. store \in Stores /\ got[t] \in Secrets \cup {None} /\ printed \in 0..MaxCodes
  BY <1>1 DEF ThreadsOK, DataOK
<1>7. CASE op[t] = "setup" /\ SaveOnboarding(t)
  <2>1. op[t] \in SignIn /\ at[t] > 2
    BY <1>2, <1>7 DEF SignIn
  <2>2. CASE ~store.password /\ store.token
    <3>1. /\ store' = WithPassword(store) /\ onboardings' = onboardings + 1
          /\ Advance(t, 1) /\ unwiped' = TRUE /\ UNCHANGED printed /\ UNCHANGED counting
      BY <1>7, <2>2 DEF SaveOnboarding
    <3>2. store' \in Stores /\ store'.password = TRUE /\ store'.codes = store.codes
      BY <1>6, <3>1, StoreChanges
    <3>3. OnboardInv'
      BY <1>1, <2>2, <3>1, <3>2 DEF OnboardInv
    <3>4. CodesInv'
      BY <1>1, <1>3, <3>1, <3>2, CodesStay
    <3>5. QED
      BY <1>3, <1>4, <1>5, <1>6, <1>7, <3>1, <3>2, <3>3, <3>4, ChangeKeeps
  <2>3. CASE ~(~store.password /\ store.token) /\ store.password
    <3>1. Finish(t) /\ UNCHANGED counting /\ UNCHANGED <<store, printed, onboardings, unwiped>>
      BY <1>7, <2>3 DEF SaveOnboarding
    <3>2. QED
      BY <1>3, <3>1, AnswerKeeps
  <2>4. CASE ~(~store.password /\ store.token) /\ ~store.password
    <3>1. Fail(t) /\ UNCHANGED <<store, printed, onboardings, unwiped>>
      BY <1>7, <2>4 DEF SaveOnboarding
    <3>2. QED
      BY <1>3, <1>6, <2>1, <3>1, FailKeeps
  <2>5. QED
    BY <2>2, <2>3, <2>4
<1>8. CASE op[t] = "activate" /\ SaveActivation(t)
  <2>1. CASE store.pending = got[t] /\ store.fresh
    <3>1. /\ store' = WithSecret(store, got[t]) /\ IssueCodes
          /\ Advance(t, 1) /\ unwiped' = TRUE /\ UNCHANGED onboardings /\ UNCHANGED counting
      BY <1>8, <2>1 DEF SaveActivation
    <3>2. store' \in Stores /\ store'.password = store.password /\ store'.codes = NewCodes
      BY <1>6, <3>1, StoreChanges
    <3>3. OnboardInv'
      BY <1>1, <3>1, <3>2, OnboardStays
    <3>4. CodesInv' /\ printed' \in 0..MaxCodes
      BY <1>1, <1>3, <1>6, <3>1, <3>2, NewCodesFresh
    <3>5. QED
      BY <1>3, <1>4, <1>5, <1>8, <3>1, <3>2, <3>3, <3>4, ChangeKeeps
  <2>2. CASE ~(store.pending = got[t] /\ store.fresh)
    <3>1. /\ store' = IF store.pending = got[t] THEN WithoutPending(store) ELSE store
          /\ Fail(t) /\ UNCHANGED <<printed, onboardings, unwiped>>
      BY <1>8, <2>2 DEF SaveActivation
    <3>2. /\ store' \in Stores /\ store'.password = store.password
          /\ store'.totp = store.totp /\ store'.codes = store.codes
      BY <1>6, <3>1, StoreChanges
    <3>3. op[t] \in SignIn /\ at[t] > 2
      BY <1>2, <1>8 DEF SignIn, SlotFirst
    <3>4. QED
      BY <1>3, <3>1, <3>2, <3>3, FailKeeps
  <2>3. QED
    BY <2>1, <2>2
<1>9. CASE op[t] = "codes" /\ SaveCodes(t)
  <2>1. /\ store' = [store EXCEPT !.codes = NewCodes] /\ IssueCodes
        /\ Finish(t) /\ Forgive /\ UNCHANGED <<onboardings, unwiped>>
    BY <1>9 DEF SaveCodes
  <2>2. NewCodes \subseteq 1..MaxCodes
    BY <1>6, StoreChanges
  <2>3. /\ store' \in Stores /\ store'.password = store.password
        /\ store'.totp = store.totp /\ store'.codes = NewCodes
    BY <1>6, <2>1, <2>2 DEF Stores
  <2>4. got' \in [Requests -> Secrets \cup {None}]
    BY <1>1, <1>3 DEF ThreadsOK
  <2>5. /\ ThreadsOK' /\ op'[t] = "none" /\ SlotSum'
        /\ \A u \in Requests \ {t} : op'[u] = op[u] /\ at'[u] = at[u] /\ sid'[u] = sid[u]
    BY <1>1, <1>3, <2>1, <2>4, Ends
  <2>6. CountInv'
    BY <2>1, <2>5, Forgives
  <2>7. CodesInv' /\ printed' \in 0..MaxCodes
    BY <1>1, <1>3, <1>6, <2>1, <2>3, NewCodesFresh
  <2>8. OnboardInv'
    BY <1>1, <2>1, <2>3, OnboardStays
  <2>9. FactorInv'
    BY <1>1, <1>3, <2>1, <2>3, <2>5, FactorStays
  <2>10. locked' \in BOOLEAN
    BY <2>1 DEF Forgive
  <2>11. DataOK'
    BY <1>1, <1>3, <2>3, <2>7, <2>10 DEF DataOK
  <2>12. QED
    BY <2>5, <2>6, <2>7, <2>8, <2>9, <2>11, Together
<1>10. CASE SaveChange(t)
  <2>1. /\ Advance(t, 1) /\ unwiped' = TRUE /\ UNCHANGED onboardings /\ UNCHANGED counting
        /\ op[t] # "codes"
    BY <1>10 DEF SaveChange
  <2>2. CASE store' = WithPassword(store) /\ UNCHANGED printed
    <3>1. store' \in Stores /\ store'.password = TRUE /\ store'.codes = store.codes
      BY <1>6, <2>2, StoreChanges
    <3>2. OnboardInv' /\ CodesInv'
      BY <1>1, <1>3, <2>1, <2>2, <3>1, OnboardStays, CodesStay
    <3>3. QED
      BY <1>3, <1>4, <1>5, <1>6, <2>1, <2>2, <3>1, <3>2, ChangeKeeps
  <2>3. CASE store' = WithoutTotp(store) /\ UNCHANGED printed
    <3>1. store' \in Stores /\ store'.password = store.password /\ store'.codes = {}
      BY <1>6, <2>3, StoreChanges
    <3>2. OnboardInv' /\ CodesInv'
      BY <1>1, <1>3, <2>1, <2>3, <3>1, OnboardStays, CodesStay
    <3>3. QED
      BY <1>3, <1>4, <1>5, <1>6, <2>1, <2>3, <3>1, <3>2, ChangeKeeps
  <2>4. CASE store' = WithSecret(store, got[t]) /\ IssueCodes
    <3>1. store' \in Stores /\ store'.password = store.password /\ store'.codes = NewCodes
      BY <1>6, <2>4, StoreChanges
    <3>2. CodesInv' /\ printed' \in 0..MaxCodes
      BY <1>1, <1>3, <1>6, <2>4, <3>1, NewCodesFresh
    <3>3. OnboardInv'
      BY <1>1, <2>1, <3>1, OnboardStays
    <3>4. QED
      BY <1>3, <1>4, <1>5, <2>1, <3>1, <3>2, <3>3, ChangeKeeps
  <2>5. QED
    BY <1>10, <2>2, <2>3, <2>4 DEF SaveChange
<1>11. QED
  BY <1>7, <1>8, <1>9, <1>10 DEF Save

LEMMA ForgetUsesKeeps ==
    ASSUME AuthInv, NEW t \in Requests, ForgetUses(t)
    PROVE  AuthInv'
<1>1. ThreadsOK /\ DataOK /\ OnboardInv /\ CodesInv /\ FactorInv /\ CountInv
  BY DEF AuthInv, TypeInv
<1>2. (op[t] = "disable" /\ at[t] = 6) \/ (op[t] = "consoleTotp" /\ at[t] = 2)
  BY <1>1, Places DEF ForgetUses, ThreadsOK
<1>3. /\ UNCHANGED <<store, sessions, minted, printed, got, onboardings, again, proved, unwiped>>
      /\ UNCHANGED counting /\ Advance(t, 1)
      /\ used' = [s \in Secrets |-> 0] /\ accepted' = {x \in accepted : x[1] # "totp"}
  BY DEF ForgetUses
<1>4. at[t] + 1 <= Steps(op[t]) /\ op[t] # "second" /\ (at[t] > 2 \/ op[t] \in Console)
  BY <1>2, Routes DEF Console
<1>5. got' = got /\ got \in [Requests -> Secrets \cup {None}]
  BY <1>1, <1>3 DEF ThreadsOK
<1>6. /\ ThreadsOK' /\ \A u \in Requests \ {t} : at'[u] = at[u]
      /\ Holders' = Holders /\ Past' = Past
  BY <1>1, <1>2, <1>3, <1>4, <1>5, GoesOn
<1>7. UNCHANGED <<op, sid, slots>>
  BY <1>3 DEF Advance
<1>8. used' \in [Secrets -> 0..LastWindow]
  BY <1>3
<1>9. DataOK' /\ OnboardInv'
  BY <1>1, <1>3, <1>8, OnboardStays DEF DataOK, counting
<1>10. CodesInv'
  <2>1. \A x \in Secrets, c \in 1..LastWindow : <<"totp", x, c>> \notin accepted'
    <3>1. SUFFICES ASSUME NEW x \in Secrets, NEW c \in 1..LastWindow
                   PROVE  <<"totp", x, c>> \notin accepted'
      OBVIOUS
    <3>2. <<"totp", x, c>>[1] = "totp"
      OBVIOUS
    <3>3. QED
      BY <1>3, <3>2
  <2>2. \A c \in 1..MaxCodes : <<"recovery", c>> \in accepted' => <<"recovery", c>> \in accepted
    BY <1>3
  <2>3. QED
    BY <1>1, <1>3, <2>1, <2>2 DEF CodesInv
<1>11. FactorInv' /\ CountInv'
  BY <1>1, <1>3, <1>4, <1>5, <1>6, <1>7, FactorStays, CountStays
<1>12. QED
  BY <1>6, <1>9, <1>10, <1>11, Together

LEMMA WipeKeeps ==
    ASSUME AuthInv, NEW t \in Requests, Wipe(t)
    PROVE  AuthInv'
<1>1. ThreadsOK /\ DataOK /\ OnboardInv /\ CodesInv /\ CountInv
  BY DEF AuthInv, TypeInv
<1>2. op[t] \in {"setup", "password", "activate", "disable", "consolePassword", "consoleTotp"}
  BY <1>1, Places DEF Wipe, ThreadsOK
<1>3. /\ sessions' = [k \in Sids |-> None]
      /\ UNCHANGED <<store, used, minted, printed, got, onboardings, accepted, again, proved>>
  BY DEF Wipe
<1>4. got' = got /\ got \in [Requests -> Secrets \cup {None}]
  BY <1>1, <1>3 DEF ThreadsOK
<1>5. OnboardInv' /\ CodesInv'
  BY <1>1, <1>3, OnboardStays, CodesStay
<1>6. ThreadsOK' /\ CountInv' /\ locked' \in BOOLEAN
  <2>1. locked \in BOOLEAN
    BY <1>1 DEF DataOK
  <2>2. CASE op[t] = "setup" /\ Advance(t, 1) /\ UNCHANGED counting
    <3>1. at[t] + 1 <= Steps(op[t]) /\ at[t] > 2
      BY <1>1, <2>2, Places, Routes DEF Wipe, ThreadsOK
    <3>2. ThreadsOK' /\ Holders' = Holders /\ Past' = Past
      BY <1>1, <1>4, <2>2, <3>1, GoesOn
    <3>3. UNCHANGED <<op, slots>> /\ locked' = locked
      BY <2>2 DEF Advance, counting
    <3>4. CountInv'
      BY <1>1, <2>2, <3>2, <3>3, CountStays
    <3>5. QED
      BY <2>1, <3>2, <3>3, <3>4
  <2>3. CASE Finish(t) /\ IF op[t] \in Console THEN UNCHANGED counting ELSE Forgive
    <3>1. ThreadsOK' /\ SlotSum' /\ Past' = Past \ {t}
      BY <1>1, <1>4, <2>3, Ends
    <3>2. CASE op[t] \in Console
      <4>1. UNCHANGED counting
        BY <2>3, <3>2
      <4>2. locked' = locked
        BY <4>1 DEF counting
      <4>3. CountInv'
        BY <1>1, <3>1, <4>1, CountAfterEnd
      <4>4. QED
        BY <2>1, <3>1, <4>2, <4>3
    <3>3. CASE op[t] \notin Console
      <4>1. Forgive /\ locked' = FALSE
        BY <2>3, <3>3 DEF Forgive
      <4>2. CountInv'
        BY <3>1, <4>1, Forgives
      <4>3. QED
        BY <3>1, <4>1, <4>2
    <3>4. QED
      BY <3>2, <3>3
  <2>4. QED
    BY <2>2, <2>3 DEF Wipe
<1>7. DataOK'
  BY <1>1, <1>3, <1>6 DEF DataOK
<1>8. FactorInv'
  BY <1>3, <1>6 DEF FactorInv, ThreadsOK
<1>9. QED
  BY <1>5, <1>6, <1>7, <1>8, Together

LEMMA ReadTotpKeeps ==
    ASSUME AuthInv, NEW t \in Requests, ReadTotp(t)
    PROVE  AuthInv'
<1>1. ThreadsOK /\ DataOK /\ OnboardInv /\ CodesInv /\ FactorInv /\ CountInv
  BY DEF AuthInv, TypeInv
<1>2. op[t] = "login" /\ at[t] = 4
  BY <1>1, Places DEF ReadTotp, ThreadsOK
<1>3. /\ UNCHANGED <<store, sessions, used, minted, printed, onboardings, accepted, again, proved, unwiped>>
      /\ Advance(t, 1) /\ Note(t, store.totp)
      /\ IF store.totp = None THEN Forgive ELSE UNCHANGED counting
  BY DEF ReadTotp
<1>4. /\ got' \in [Requests -> Secrets \cup {None}]
      /\ \A u \in Requests \ {t} : got'[u] = got[u]
  BY <1>1, <1>3 DEF Note, ThreadsOK, DataOK, Stores
<1>5. at[t] + 1 <= Steps(op[t])
  BY <1>2, Routes
<1>6. /\ ThreadsOK' /\ \A u \in Requests \ {t} : at'[u] = at[u]
      /\ Holders' = Holders /\ Past' = Past
  BY <1>1, <1>2, <1>3, <1>4, <1>5, GoesOn
<1>7. UNCHANGED <<op, sid, slots>>
  BY <1>3 DEF Advance
<1>8. CountInv' /\ locked' \in BOOLEAN
  <2>1. CASE Forgive
    <3>2. SlotSum'
      BY <1>1, <1>6, <1>7, SumStays
    <3>3. locked' \in BOOLEAN
      BY <2>1 DEF Forgive
    <3>4. QED
      BY <2>1, <3>2, <3>3, Forgives
  <2>2. CASE UNCHANGED counting
    BY <1>1, <1>6, <1>7, <2>2, CountStays DEF DataOK, counting
  <2>3. QED
    BY <1>3, <2>1, <2>2
<1>9. DataOK'
  BY <1>1, <1>3, <1>8 DEF DataOK
<1>10. FactorInv'
  BY <1>1, <1>2, <1>3, <1>4, <1>6, <1>7, FactorStays
<1>11. OnboardInv' /\ CodesInv'
  BY <1>1, <1>3, OnboardStays, CodesStay
<1>12. QED
  BY <1>6, <1>8, <1>9, <1>10, <1>11, Together

LEMMA CreateSessionKeeps ==
    ASSUME AuthInv, NEW t \in Requests, CreateSession(t)
    PROVE  AuthInv'
<1>1. ThreadsOK /\ DataOK /\ OnboardInv /\ CodesInv /\ FactorInv /\ CountInv
  BY DEF AuthInv, TypeInv
<1>2. op[t] \in {"login", "setup"} /\ op[t] \notin Console \cup {"none"}
  BY <1>1, Places DEF CreateSession, ThreadsOK, Console
<1>3. /\ UNCHANGED <<store, used, minted, printed, got, onboardings, accepted, again, unwiped>>
      /\ Finish(t) /\ (Forgive \/ UNCHANGED counting)
  BY DEF CreateSession
<1>4. PICK k \in Sids :
        /\ \A u \in Requests : sid[u] # k
        /\ sessions' = [sessions EXCEPT ![k] =
              [verified |-> (op[t] = "setup" \/ got[t] = None), seal |-> None]]
        /\ proved' = [proved EXCEPT ![k] = {}]
  BY DEF CreateSession
<1>5. got' \in [Requests -> Secrets \cup {None}]
  BY <1>1, <1>3 DEF ThreadsOK
<1>6. /\ ThreadsOK' /\ op'[t] = "none" /\ SlotSum' /\ Past' = Past \ {t}
      /\ \A u \in Requests \ {t} : op'[u] = op[u] /\ at'[u] = at[u] /\ sid'[u] = sid[u]
  BY <1>1, <1>2, <1>3, <1>5, Ends
<1>7. CountInv' /\ locked' \in BOOLEAN
  <2>1. CASE Forgive
    BY <1>6, <2>1, Forgives DEF Forgive
  <2>2. CASE UNCHANGED counting
    <3>1. locked' = locked /\ locked \in BOOLEAN
      BY <1>1, <2>2 DEF counting, DataOK
    <3>2. QED
      BY <1>1, <1>6, <2>2, <3>1, CountAfterEnd
  <2>3. QED
    BY <1>3, <2>1, <2>2
<1>8. /\ sessions' \in [Sids -> Sessions \cup {None}] /\ proved' \in [Sids -> SUBSET Secrets]
      /\ sessions'[k].seal = None
      /\ \A j \in Sids \ {k} : sessions'[j] = sessions[j] /\ proved'[j] = proved[j]
  <2>1. (op[t] = "setup" \/ got[t] = None) \in BOOLEAN
    OBVIOUS
  <2>2. PICK s \in Sessions : s.seal = None /\ sessions' = [sessions EXCEPT ![k] = s]
    BY <1>4, <2>1 DEF Sessions
  <2>3. QED
    BY <1>1, <1>4, <2>2 DEF DataOK
<1>9. DataOK'
  BY <1>1, <1>3, <1>7, <1>8 DEF DataOK
<1>10. FactorInv'
  <2>1. SUFFICES ASSUME ~unwiped PROVE FactorInv'
    BY <1>3 DEF FactorInv
  <2>2. \A j \in Sids :
          sessions'[j] # None /\ store.totp # None /\ sessions'[j].seal = store.totp =>
              store.totp \in proved'[j]
    BY <1>1, <1>8, <2>1 DEF FactorInv
  <2>3. ASSUME NEW u \in Requests, op'[u] = "second", sessions'[sid'[u]] # None
        PROVE  /\ at'[u] = 4 => got[u] = store.totp
               /\ at'[u] = 5 => store.totp \in proved'[sid'[u]]
               /\ at'[u] = 6 => got[u] = store.totp /\ got[u] \in proved'[sid'[u]]
    <3>1. u # t /\ op[u] = "second" /\ at'[u] = at[u] /\ sid'[u] = sid[u] /\ sid[u] \in Sids \ {k}
      BY <1>1, <1>4, <1>6, <2>3 DEF ThreadsOK
    <3>2. sessions[sid[u]] # None /\ proved'[sid[u]] = proved[sid[u]]
      BY <1>8, <2>3, <3>1
    <3>3. QED
      BY <1>1, <2>1, <3>1, <3>2 DEF FactorInv
  <2>4. QED
    BY <1>3, <2>2, <2>3 DEF FactorInv
<1>11. OnboardInv' /\ CodesInv'
  BY <1>1, <1>3, OnboardStays, CodesStay
<1>12. QED
  BY <1>6, <1>7, <1>9, <1>10, <1>11, Together

LEMMA ReadSealKeeps ==
    ASSUME AuthInv, NEW t \in Requests, ReadSeal(t)
    PROVE  AuthInv'
<1>1. ThreadsOK /\ DataOK /\ OnboardInv /\ CodesInv /\ FactorInv /\ CountInv
  BY DEF AuthInv, TypeInv
<1>2. op[t] = "second" /\ at[t] = 5
  BY <1>1, Places DEF ReadSeal, ThreadsOK
<1>3. /\ UNCHANGED <<store, sessions, used, minted, printed, onboardings, accepted, again, proved, unwiped>>
      /\ Advance(t, 1) /\ Note(t, store.totp) /\ Forgive
  BY DEF ReadSeal
<1>4. /\ got' \in [Requests -> Secrets \cup {None}] /\ got'[t] = store.totp
      /\ \A u \in Requests \ {t} : got'[u] = got[u]
  BY <1>1, <1>3 DEF Note, ThreadsOK, DataOK, Stores
<1>5. at[t] + 1 <= Steps(op[t])
  BY <1>2, Routes
<1>6. /\ ThreadsOK' /\ at'[t] = 6 /\ \A u \in Requests \ {t} : at'[u] = at[u]
      /\ Holders' = Holders /\ Past' = Past
  BY <1>1, <1>2, <1>3, <1>4, <1>5, GoesOn
<1>7. UNCHANGED <<op, sid, slots>>
  BY <1>3 DEF Advance
<1>8. CountInv' /\ locked' \in BOOLEAN
  <2>2. SlotSum'
    BY <1>1, <1>6, <1>7, SumStays
  <2>3. locked' \in BOOLEAN
    BY <1>3 DEF Forgive
  <2>4. QED
    BY <1>3, <2>2, <2>3, Forgives
<1>9. DataOK'
  BY <1>1, <1>3, <1>8 DEF DataOK
<1>10. FactorInv'
  BY <1>1, <1>2, <1>3, <1>4, <1>6, <1>7 DEF FactorInv, ThreadsOK
<1>11. OnboardInv' /\ CodesInv'
  BY <1>1, <1>3, OnboardStays, CodesStay
<1>12. QED
  BY <1>6, <1>8, <1>9, <1>10, <1>11, Together

LEMMA StampSessionKeeps ==
    ASSUME AuthInv, NEW t \in Requests, StampSession(t)
    PROVE  AuthInv'
<1>1. ThreadsOK /\ DataOK /\ OnboardInv /\ CodesInv /\ FactorInv /\ CountInv
  BY DEF AuthInv, TypeInv
<1>2. op[t] = "second" /\ at[t] = 6 /\ op[t] \notin Console \cup {"none"}
  BY <1>1, Places DEF StampSession, ThreadsOK, Console
<1>3. /\ UNCHANGED <<store, used, minted, printed, got, onboardings, accepted, again, proved, unwiped>>
      /\ Finish(t) /\ UNCHANGED counting
  BY DEF StampSession, authHistory, counting
<1>4. got' \in [Requests -> Secrets \cup {None}] /\ sid[t] \in Sids /\ got[t] \in Secrets \cup {None}
  BY <1>1, <1>2, <1>3 DEF ThreadsOK
<1>5. /\ ThreadsOK' /\ op'[t] = "none" /\ SlotSum' /\ Past' = Past \ {t}
      /\ \A u \in Requests \ {t} : op'[u] = op[u] /\ at'[u] = at[u] /\ sid'[u] = sid[u]
  BY <1>1, <1>2, <1>3, <1>4, Ends
<1>6. CountInv' /\ locked' \in BOOLEAN
  <2>1. locked' = locked /\ locked \in BOOLEAN
    BY <1>1, <1>3 DEF counting, DataOK
  <2>2. QED
    BY <1>1, <1>3, <1>5, <2>1, CountAfterEnd
<1>7. /\ sessions' \in [Sids -> Sessions \cup {None}]
      /\ \A j \in Sids : sessions'[j] # None => sessions[j] # None
      /\ \A j \in Sids : \/ sessions'[j] = sessions[j]
                         \/ (j = sid[t] /\ sessions[j] # None /\ sessions'[j].seal = got[t])
  <2>1. CASE got[t] = None \/ sessions[sid[t]] = None
    BY <1>1, <2>1 DEF StampSession, DataOK
  <2>2. CASE ~(got[t] = None \/ sessions[sid[t]] = None)
    <3>1. PICK s \in Sessions : s.seal = got[t] /\ sessions' = [sessions EXCEPT ![sid[t]] = s]
      BY <1>4, <2>2 DEF StampSession, Sessions
    <3>2. QED
      BY <1>1, <1>4, <2>2, <3>1 DEF DataOK
  <2>3. QED
    BY <2>1, <2>2
<1>8. DataOK'
  BY <1>1, <1>3, <1>6, <1>7 DEF DataOK
<1>9. FactorInv'
  <2>1. SUFFICES ASSUME ~unwiped PROVE FactorInv'
    BY <1>3 DEF FactorInv
  <2>2. ASSUME NEW j \in Sids, sessions'[j] # None, store.totp # None, sessions'[j].seal = store.totp
        PROVE  store.totp \in proved[j]
    <3>1. CASE sessions'[j] = sessions[j]
      BY <1>1, <2>1, <2>2, <3>1 DEF FactorInv
    <3>2. CASE j = sid[t] /\ sessions[j] # None /\ sessions'[j].seal = got[t]
      BY <1>1, <1>2, <2>1, <2>2, <3>2 DEF FactorInv
    <3>3. QED
      BY <1>7, <3>1, <3>2
  <2>3. ASSUME NEW u \in Requests, op'[u] = "second", sessions'[sid'[u]] # None
        PROVE  /\ at'[u] = 4 => got[u] = store.totp
               /\ at'[u] = 5 => store.totp \in proved[sid'[u]]
               /\ at'[u] = 6 => got[u] = store.totp /\ got[u] \in proved[sid'[u]]
    <3>1. u # t /\ op[u] = "second" /\ at'[u] = at[u] /\ sid'[u] = sid[u] /\ sid[u] \in Sids
      BY <1>1, <1>5, <2>3 DEF ThreadsOK
    <3>2. sessions[sid[u]] # None
      BY <1>7, <2>3, <3>1
    <3>3. QED
      BY <1>1, <2>1, <3>1, <3>2 DEF FactorInv
  <2>4. QED
    BY <1>3, <2>2, <2>3 DEF FactorInv
<1>10. OnboardInv' /\ CodesInv'
  BY <1>1, <1>3, OnboardStays, CodesStay
<1>11. QED
  BY <1>5, <1>6, <1>8, <1>9, <1>10, Together

LEMMA SessionEndsKeeps ==
    ASSUME AuthInv, NEW k \in Sids, SessionEnds(k)
    PROVE  AuthInv'
<1>1. ThreadsOK /\ DataOK /\ OnboardInv /\ CodesInv /\ FactorInv /\ CountInv
  BY DEF AuthInv, TypeInv
<1>2. /\ sessions' = [sessions EXCEPT ![k] = None]
      /\ UNCHANGED <<store, used, slots, minted, printed, op, at, sid, got, authHistory>>
      /\ UNCHANGED counting
  BY DEF SessionEnds, authThreads, authHistory, counting
<1>3. ThreadsOK'
  BY <1>1, <1>2 DEF ThreadsOK
<1>4. /\ sessions' \in [Sids -> Sessions \cup {None}]
      /\ \A j \in Sids : sessions'[j] = sessions[j] \/ sessions'[j] = None
  BY <1>1, <1>2 DEF DataOK
<1>5. DataOK'
  BY <1>1, <1>2, <1>4 DEF DataOK, counting, authHistory
<1>6. FactorInv'
  BY <1>1, <1>2, <1>4 DEF FactorInv, ThreadsOK, authHistory
<1>7. OnboardInv' /\ CodesInv' /\ CountInv'
  BY <1>1, <1>2, OnboardStays, CodesStay, CountStays, SameThreads DEF authHistory
<1>8. QED
  BY <1>3, <1>5, <1>6, <1>7, Together

LEMMA TimePassesKeeps ==
    ASSUME AuthInv, TimePasses
    PROVE  AuthInv'
<1>1. ThreadsOK /\ DataOK /\ OnboardInv /\ CodesInv /\ FactorInv /\ CountInv
  BY DEF AuthInv, TypeInv
<1>2. /\ UNCHANGED <<sessions, used, slots, minted, printed, op, at, sid, got>>
      /\ UNCHANGED <<onboardings, accepted, again, proved, unwiped>>
      /\ Forgive \/ UNCHANGED counting
      /\ \/ store' = store
         \/ store' = [store EXCEPT !.token = FALSE]
         \/ store' = [store EXCEPT !.fresh = FALSE]
  BY DEF TimePasses, authThreads
<1>3. ThreadsOK'
  BY <1>1, <1>2 DEF ThreadsOK
<1>4. /\ store' \in Stores /\ store'.password = store.password
      /\ store'.totp = store.totp /\ store'.codes = store.codes
  BY <1>1, <1>2 DEF DataOK, Stores
<1>5. CountInv' /\ locked' \in BOOLEAN
  <2>1. CASE Forgive
    <3>2. SlotSum'
      BY <1>1, <1>2, SumStays, SameThreads
    <3>3. locked' \in BOOLEAN
      BY <2>1 DEF Forgive
    <3>4. QED
      BY <2>1, <3>2, <3>3, Forgives
  <2>2. CASE UNCHANGED counting
    BY <1>1, <1>2, <2>2, CountStays, SameThreads DEF DataOK, counting
  <2>3. QED
    BY <1>2, <2>1, <2>2
<1>6. DataOK'
  BY <1>1, <1>2, <1>4, <1>5 DEF DataOK
<1>7. FactorInv'
  BY <1>1, <1>2, <1>4 DEF FactorInv
<1>8. OnboardInv' /\ CodesInv'
  BY <1>1, <1>2, <1>4, OnboardStays, CodesStay
<1>9. QED
  BY <1>3, <1>5, <1>6, <1>7, <1>8, Together

LEMMA RestartKeeps ==
    ASSUME AuthInv, Restart
    PROVE  AuthInv'
<1>1. ThreadsOK /\ DataOK /\ OnboardInv /\ CodesInv /\ FactorInv /\ CountInv
  BY DEF AuthInv, TypeInv
<1>2. /\ op'  = [t \in Requests |-> "none"] /\ at'  = [t \in Requests |-> 1]
      /\ sid' = [t \in Requests |-> None] /\ slots' = Slots
      /\ store' = [store EXCEPT !.token = ~store.password]
      /\ UNCHANGED <<sessions, used, minted, printed, got, authHistory>>
      /\ UNCHANGED counting
  BY DEF Restart, authTables, authHistory, counting
<1>3. ThreadsOK'
  BY <1>1, <1>2, Routes DEF ThreadsOK
<1>4. /\ store' \in Stores /\ store'.password = store.password
      /\ store'.totp = store.totp /\ store'.codes = store.codes
  BY <1>1, <1>2 DEF DataOK, Stores
<1>5. CountInv'
  <2>1. Holders' = {} /\ Past' = {}
    BY <1>2, Routes, Gates DEF Holders, Past, HoldsSlot, MayFail, SlotFirst
  <2>2. Cardinality({}) = 0
    BY FS_EmptySet
  <2>3. SlotSum'
    BY <1>2, <2>1, <2>2 DEF SlotSum
  <2>4. QED
    BY <1>1, <1>2, <2>1, <2>3, CountAfterEnd
<1>6. DataOK'
  BY <1>1, <1>2, <1>4 DEF DataOK, counting, authHistory
<1>7. FactorInv'
  BY <1>1, <1>2, <1>4 DEF FactorInv, authHistory
<1>8. OnboardInv' /\ CodesInv'
  BY <1>1, <1>2, <1>4, OnboardStays, CodesStay DEF authHistory
<1>9. QED
  BY <1>3, <1>5, <1>6, <1>7, <1>8, Together

LEMMA StutterKeeps == AuthInv /\ UNCHANGED authVars => AuthInv'
<1> SUFFICES ASSUME AuthInv, UNCHANGED authVars PROVE AuthInv'
  OBVIOUS
<1>1. ThreadsOK /\ DataOK /\ OnboardInv /\ CodesInv /\ FactorInv /\ CountInv
  BY DEF AuthInv, TypeInv
<1>2. /\ UNCHANGED <<store, sessions, used, slots, minted, printed, op, at, sid, got>>
      /\ UNCHANGED <<onboardings, accepted, again, proved, unwiped>> /\ UNCHANGED counting
  BY DEF authVars, authTables, authThreads, authHistory, counting
<1>3. ThreadsOK'
  BY <1>1, <1>2 DEF ThreadsOK
<1>4. DataOK'
  BY <1>1, <1>2 DEF DataOK, counting
<1>5. FactorInv'
  BY <1>1, <1>2 DEF FactorInv
<1>6. OnboardInv' /\ CodesInv' /\ CountInv'
  BY <1>1, <1>2, OnboardStays, CodesStay, CountStays, SameThreads
<1>7. QED
  BY <1>3, <1>4, <1>5, <1>6, Together

LEMMA NextHolds == AuthInv /\ [AuthNext]_authVars => AuthInv'
<1>1. AuthInv /\ AuthStep => AuthInv'
  BY ArriveKeeps, ConsoleStartKeeps, AskLockoutKeeps, TakeSlotKeeps, RecordKeeps, VerifyKeeps, ConsumeKeeps, SaveKeeps, ForgetUsesKeeps,
     WipeKeeps, ReadTotpKeeps, CreateSessionKeeps, ReadSealKeeps, StampSessionKeeps,
     BeginTotpSetupKeeps, TimePassesKeeps, RestartKeeps, SessionEndsKeeps DEF AuthStep
<1>2. QED
  BY <1>1, StutterKeeps DEF AuthNext

-----------------------------------------------------------------------------
(* Theorems.                                                               *)

\* The invariant holds in every reachable state.
THEOREM AuthInvariance == AuthSpec => []AuthInv
<1>1. QED
  BY InitHolds, NextHolds, PTL DEF AuthSpec

\* The file, the tables and the threads' locals have their types.
THEOREM AuthAlwaysTyped == AuthSpec => []AuthTypeOK
<1>1. AuthInv => AuthTypeOK
  <2> SUFFICES ASSUME AuthInv PROVE AuthTypeOK
    OBVIOUS
  <2>1. ThreadsOK /\ DataOK /\ CountInv
    BY DEF AuthInv, TypeInv
  <2>2. store \in Stores /\ sessions \in [Sids -> Sessions \cup {None}] /\ locked \in BOOLEAN
    BY <2>1 DEF DataOK
  <2>3. used \in [Secrets -> 0..LastWindow] /\ op \in [Requests -> DOMAIN Route]
    BY <2>1 DEF DataOK, ThreadsOK
  <2>4. failures \in 0..MaxFailures /\ slots \in 0..Slots
    <3>1. IsFiniteSet(Holders)
      BY FS_Subset DEF Holders
    <3>2. Cardinality(Holders) \in Nat
      BY <3>1, FS_CardinalityType
    <3>3. QED
      BY <2>1, <3>2 DEF CountInv, SlotSum
  <2>5. \A t \in Requests : at[t] \in 1..Len(Route[op[t]]) \cup {1}
    <3>1. SUFFICES ASSUME NEW t \in Requests PROVE at[t] \in 1..Len(Route[op[t]]) \cup {1}
      OBVIOUS
    <3>2. at[t] \in Nat \ {0} /\ at[t] <= Steps(op[t])
      BY <2>1 DEF ThreadsOK
    <3>3. CASE op[t] = "none"
      BY <3>2, <3>3, Routes
    <3>4. CASE op[t] # "none"
      <4>1. Steps(op[t]) = Len(Route[op[t]]) /\ Steps(op[t]) \in Nat
        BY <2>3, <3>4, Routes DEF Steps
      <4>2. QED
        BY <3>2, <4>1
    <3>5. QED
      BY <3>3, <3>4
  <2>6. QED
    BY <2>2, <2>3, <2>4, <2>5 DEF AuthTypeOK, Stores, Sessions
<1>2. QED
  BY <1>1, AuthInvariance, PTL

\* Of any number of setup requests that race with the token, one sets the
\* password.
THEOREM OnboardedOnceAlways == AuthSpec => []OnboardedOnce
<1>1. AuthInv => OnboardedOnce
  BY DEF AuthInv, OnboardInv, OnboardedOnce
<1>2. QED
  BY <1>1, AuthInvariance, PTL

\* No code is accepted twice while its use is remembered.
THEOREM CodesAcceptedOnceAlways == AuthSpec => []CodesAcceptedOnce
<1>1. AuthInv => CodesAcceptedOnce
  BY DEF AuthInv, CodesInv, CodesAcceptedOnce
<1>2. QED
  BY <1>1, AuthInvariance, PTL

\* A session that counts as fully authenticated under two factors has shown a
\* code of the secret in force, once no change waits for its wipe.
THEOREM SecondFactorAlwaysProven == AuthSpec => []SecondFactorProven
<1>1. AuthInv => SecondFactorProven
  BY DEF AuthInv, FactorInv, SecondFactorProven, FullyAuthenticated
<1>2. QED
  BY <1>1, AuthInvariance, PTL

\* The tries of an address between two forgivenesses are bounded by the limit
\* and the threads that were past the lockout before it fell.
THEOREM TriesAlwaysBounded == AuthSpec => []TriesBounded
<1>1. AuthInv => TriesBounded
  <2> SUFFICES ASSUME AuthInv PROVE TriesBounded
    OBVIOUS
  <2>1. IsFiniteSet(Past)
    BY FS_Subset DEF Past
  <2>2. Cardinality(Past) \in Nat /\ Cardinality(Requests) \in Nat
    BY <2>1, FS_CardinalityType
  <2>3. tries \in Nat /\ failures \in 0..(MaxFailures - 1)
    BY DEF AuthInv, CountInv
  <2>4. CASE locked
    <3>1. tries + Cardinality(Past) <= MaxFailures - 1 + Cardinality(Requests)
      BY <2>4 DEF AuthInv, CountInv
    <3>2. QED
      BY <2>2, <2>3, <3>1 DEF TriesBounded
  <2>5. CASE ~locked
    <3>1. tries = failures
      BY <2>5 DEF AuthInv, CountInv
    <3>2. CASE Cardinality(Requests) > 0
      BY <2>2, <2>3, <3>1, <3>2 DEF TriesBounded
    <3>3. CASE Cardinality(Requests) = 0
      BY <2>2, <2>3, <3>1, <3>3 DEF TriesBounded
    <3>4. QED
      BY <2>2, <3>2, <3>3
  <2>6. QED
    BY <2>4, <2>5
<1>2. QED
  BY <1>1, AuthInvariance, PTL

\* Every verification slot is free or held by one request inside a route.
THEOREM SlotsAlwaysExact == AuthSpec => []SlotsExact
<1>1. AuthInv => slots + Cardinality(Holders) = Slots
  BY DEF AuthInv, CountInv, SlotSum
<1>2. AuthInv /\ AuthTypeOK => SlotsExact
  BY <1>1 DEF SlotsExact, Holders
<1>3. QED
  BY <1>2, AuthInvariance, AuthAlwaysTyped, PTL
=============================================================================

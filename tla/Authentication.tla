--------------------------- MODULE Authentication ---------------------------
(***************************************************************************)
(* Sign-in (linkmoth_auth.py and the /api/auth routes of the handler).     *)
(*                                                                         *)
(* The password, the onboarding token and the second factor are in one     *)
(* JSON file, replaced as a whole; sessions, used codes and failed tries   *)
(* are tables.  Several request threads run the routes at once, each as    *)
(* the list of steps Route gives it; a step is one critical section under  *)
(* AuthManager._lock, one SQL statement or one operation on                *)
(* AUTH_VERIFY_SLOTS.  The console commands are routes too, without the    *)
(* checks; they run in a process of their own, which the lock does not     *)
(* reach, but their read and write of the file count as one step here.     *)
(* What a user types is chosen where it is compared: the right password or *)
(* a wrong one, a code of some window, a recovery code.                    *)
(* Requests come from one address, and an enrolment has one recovery code. *)
(***************************************************************************)
EXTENDS Naturals, FiniteSets, Sequences

CONSTANTS
    Requests,       \* request threads and console commands
    Sids,           \* session ids
    Slots,          \* AUTH_VERIFY_SLOTS
    MaxFailures,    \* login_max_attempts
    Mixes,          \* bound: the routes each thread may run, one such choice a behaviour
    MaxSecrets,     \* bound: secrets ever generated
    MaxCodes,       \* bound: recovery codes ever generated
    LastWindow,     \* bound: 30-second windows whose codes are used
    None

ASSUME AuthAssumption ==
    /\ Slots \in Nat \ {0} /\ MaxFailures \in Nat \ {0}
    /\ {MaxSecrets, MaxCodes, LastWindow} \subseteq Nat
    /\ IsFiniteSet(Requests) /\ None \notin Sids /\ \A x \in 1..MaxSecrets : x # None

VARIABLES
    routes,     \* the routes each thread may run, one of Mixes
    store,      \* auth.json
    sessions,   \* table auth_sessions
    used,       \* table auth_totp_uses: secret -> last counter, 0 if none
    failures, locked,           \* table auth_login_attempts
    slots,      \* free AUTH_VERIFY_SLOTS
    minted, printed,            \* secrets and recovery codes generated so far
    op, at, sid, got,           \* a thread's route, step, session and local value
    tries, onboardings, accepted, again, proved, unwiped    \* history

authTables  == <<sessions, used, failures, locked>>
authThreads == <<op, at, sid, got>>
authHistory == <<tries, onboardings, accepted, again, proved, unwiped>>
authVars == <<routes, store, authTables, slots, minted, printed, authThreads, authHistory>>

Secrets == 1..MaxSecrets

\* The steps of the login, of the onboarding and of the second factor; the
\* first two ask for the lockout before they take a slot, all others after.
LoginSteps  == <<"allowed", "slot", "verify", "totp", "create">>
SetupSteps  == <<"allowed", "slot", "verify", "save", "wipe", "create">>
SecondSteps == <<"slot", "allowed", "verify", "consume", "seal", "stamp">>

\* The steps of all routes; "failed" is what is left of a route of
\* _handle_security_post once it failed.
Route == [
    none     |-> <<>>,
    login    |-> LoginSteps,
    setup    |-> SetupSteps,
    second   |-> SecondSteps,
    password |-> <<"slot", "allowed", "verify", "save", "wipe">>,
    activate |-> <<"slot", "allowed", "verify", "consume", "save", "wipe">>,
    disable  |-> <<"slot", "allowed", "verify", "consume", "save", "forget", "wipe">>,
    codes    |-> <<"slot", "allowed", "verify", "save">>,
    failed   |-> <<"record">>,
    consolePassword |-> <<"save", "wipe">>,
    consoleTotp     |-> <<"save", "forget", "wipe">> ]

Console  == {"consolePassword", "consoleTotp"}
Security == {"password", "activate", "disable", "codes"}

counting == <<failures, locked, tries>>

At(t, l) == at[t] \in DOMAIN Route[op[t]] /\ Route[op[t]][at[t]] = l

\* The step l of route o is over at its step n.
Behind(o, n, l) == \E i \in DOMAIN Route[o] : i < n /\ Route[o][i] = l

HoldsSlot(t) == Behind(op[t], at[t], "slot")

\* A thread that was let past the lockout and may still record a failure.
MayFail(t) == op[t] = "failed" \/ Behind(op[t], at[t], "allowed")

\* The thread goes on, n steps further.
Advance(t, n) == at' = [at EXCEPT ![t] = @ + n] /\ UNCHANGED <<op, sid, slots>>

\* The thread is done with its route, or with all but its last step.
TurnTo(t, o) ==
    /\ op' = [op EXCEPT ![t] = o] /\ at' = [at EXCEPT ![t] = 1]
    /\ sid' = [sid EXCEPT ![t] = None]

\* The request is answered; its verification slot, if any, is released.
Finish(t) ==
    TurnTo(t, "none") /\ slots' = IF HoldsSlot(t) THEN slots + 1 ELSE slots

Note(t, x) == got' = [got EXCEPT ![t] = x]
Forgive    == failures' = 0 /\ locked' = FALSE /\ tries' = 0

\* Mutant of RecordFailure: the count starts again without a lock.
RecordFailureNeverLocks ==
    /\ failures' = IF failures + 1 >= MaxFailures THEN 0 ELSE failures + 1
    /\ tries' = tries + 1
    /\ UNCHANGED locked

\* record_login_failure, one immediate transaction.
RecordFailure ==
    /\ IF locked
       THEN UNCHANGED <<failures, locked>>
       ELSE /\ locked' = (failures + 1 >= MaxFailures)
            /\ failures' = IF locked' THEN 0 ELSE failures + 1
    /\ tries' = tries + 1

\* A wrong request: login, setup and the second factor record it while they
\* hold their slot, the security routes after the slot is given back.
Fail(t) ==
    \/ op[t] \notin Security /\ RecordFailure /\ Finish(t)
    \/ /\ op[t] \in Security
       /\ TurnTo(t, "failed") /\ slots' = slots + 1 /\ UNCHANGED counting

\* Mutant of FullyAuthenticated: the verified mark alone decides.
FullyAuthenticatedByMark(k) ==
    sessions[k] # None /\ (store.totp # None => sessions[k].verified)

\* is_fully_authenticated: under 2FA the session is sealed with the secret in force.
FullyAuthenticated(k) ==
    /\ sessions[k] # None
    /\ store.totp # None => sessions[k].verified /\ sessions[k].seal = store.totp

\* pending_totp_secret is there and not past PENDING_TOTP_TTL_SECONDS.
PendingLives == store.pending # None /\ store.fresh

WithPending(s, x) == [s EXCEPT !.pending = x, !.fresh = TRUE]
WithoutPending(s) == [s EXCEPT !.pending = None, !.fresh = FALSE]

-----------------------------------------------------------------------------
(* A request arrives.                                                      *)

login_allowed == ~locked

\* What each route asks of the session k it comes with.
MayEnter(o, k) ==
    \/ o = "login" /\ k = None
    \/ o = "setup" /\ k = None /\ ~store.password
    \/ /\ o = "second" /\ k # None /\ store.totp # None
       /\ sessions[k] # None /\ ~sessions[k].verified
    \/ o \in {"password", "activate", "disable", "codes"} /\ k # None /\ FullyAuthenticated(k)

\* A route begins, with the session it was sent with.  A request that is
\* answered 401 or 409 here changes nothing.
Arrive(t, o, k) ==
    /\ op[t] = "none"
    /\ MayEnter(o, k)
    /\ op' = [op EXCEPT ![t] = o]
    /\ sid' = [sid EXCEPT ![t] = IF o = "second" THEN k ELSE None]
    /\ UNCHANGED <<store, authTables, slots, minted, printed, at, got, authHistory>>

\* A request during a lock is answered 429.
AskLockout(t) ==
    /\ At(t, "allowed")
    /\ IF login_allowed THEN Advance(t, 1) ELSE Finish(t)
    /\ UNCHANGED <<store, authTables, minted, printed, got, authHistory>>

\* _begin_auth_verification does not wait: without a free slot it answers 503.
TakeSlot(t) ==
    /\ At(t, "slot")
    /\ IF slots > 0
       THEN /\ slots' = slots - 1
            /\ at' = [at EXCEPT ![t] = @ + 1] /\ UNCHANGED <<op, sid>>
       ELSE Finish(t)
    /\ UNCHANGED <<store, authTables, minted, printed, got, authHistory>>

\* begin_totp_setup: a new pending secret replaces the one before.
BeginTotpSetup ==
    /\ \E t \in Requests : "activate" \in routes[t]
    /\ \E k \in Sids : FullyAuthenticated(k)
    /\ minted < MaxSecrets
    /\ minted' = minted + 1
    /\ store' = WithPending(store, minted + 1)
    /\ UNCHANGED <<authTables, slots, printed, authThreads, authHistory>>

\* A console command starts: --auth-set-password, --auth-setup-totp.
ConsoleStart(t, o) ==
    /\ op[t] = "none" /\ o \in Console
    /\ \/ o = "consolePassword" /\ UNCHANGED <<minted, got>>
       \/ o = "consoleTotp" /\ store.password /\ minted < MaxSecrets
          /\ minted' = minted + 1 /\ Note(t, minted + 1)
    /\ op' = [op EXCEPT ![t] = o]
    /\ UNCHANGED <<store, authTables, slots, printed, at, sid, authHistory>>

-----------------------------------------------------------------------------
(* Verification.                                                           *)

\* Mutant of NothingToDo: the early answer keeps the slot.
NothingToDoKeepsSlot(t) ==
    /\ \/ op[t] = "login" /\ ~store.password
       \/ op[t] = "setup" /\ store.password
       \/ op[t] \in {"codes", "disable"} /\ store.totp = None
    /\ op' = [op EXCEPT ![t] = "none"] /\ at' = [at EXCEPT ![t] = 1]
    /\ UNCHANGED <<sid, slots>>

\* An early answer, 400 or 409, that is not counted as a failure.
NothingToDo(t) ==
    /\ \/ op[t] = "login" /\ ~store.password
       \/ op[t] = "setup" /\ store.password
       \/ op[t] \in {"codes", "disable"} /\ store.totp = None
    /\ Finish(t)

\* The failure of a security route is recorded, and answered 401.
Record(t) ==
    /\ At(t, "record") /\ RecordFailure /\ Finish(t)
    /\ UNCHANGED <<store, sessions, used, minted, printed, got,
                   onboardings, accepted, again, proved, unwiped>>

\* The first check of each route, on the store as it is now.
Verify(t) ==
    /\ At(t, "verify")
    /\ \/ NothingToDo(t) /\ UNCHANGED <<store, got, counting>>
       \/ /\ \/ op[t] = "login" /\ store.password
             \/ op[t] = "setup" /\ ~store.password /\ store.token
             \/ op[t] = "password"
             \/ op[t] = "codes" /\ store.totp # None
             \/ op[t] = "second" /\ store.totp # None
             \/ op[t] = "activate" /\ PendingLives
             \/ op[t] = "disable" /\ store.totp # None
          /\ Note(t, IF op[t] = "activate" THEN store.pending ELSE store.totp)
          /\ Advance(t, 1) /\ UNCHANGED <<store, counting>>
       \/ op[t] = "disable" /\ store.totp # None          \* by the password
          /\ Advance(t, 2) /\ UNCHANGED <<store, got, counting>>
       \/ /\ \/ op[t] = "login" /\ store.password
             \/ op[t] = "setup" /\ ~store.password
             \/ op[t] = "password"
             \/ op[t] = "codes" /\ store.totp # None
             \/ op[t] = "second" /\ store.totp = None
             \/ op[t] = "activate" /\ ~PendingLives
          /\ store' = IF op[t] = "activate" THEN WithoutPending(store) ELSE store
          /\ Fail(t) /\ UNCHANGED got
    /\ UNCHANGED <<sessions, used, minted, printed,
                   onboardings, accepted, again, proved, unwiped>>

Accept(t, x) ==
    /\ again' = again \cup ({x} \cap accepted)
    /\ accepted' = accepted \cup {x}
    /\ proved' = IF op[t] = "second" THEN [proved EXCEPT ![sid[t]] = @ \cup {got[t]}] ELSE proved
    /\ Advance(t, 1)

\* Mutant of ConsumeTotp: the counter of the last use is not compared.
ConsumeTotpAgain(t) ==
    \E c \in 1..LastWindow :
        /\ used' = [used EXCEPT ![got[t]] = c]
        /\ Accept(t, <<"totp", got[t], c>>)

\* _consume_totp: a code of some window, later than the last used.
ConsumeTotp(t) ==
    \E c \in 1..LastWindow :
        /\ c > used[got[t]]
        /\ used' = [used EXCEPT ![got[t]] = c]
        /\ Accept(t, <<"totp", got[t], c>>)

\* _consume_recovery_code: found and deleted under the lock.
ConsumeRecovery(t) ==
    \E c \in store.codes :
        /\ op[t] # "activate"
        /\ store' = [store EXCEPT !.codes = @ \ {c}]
        /\ Accept(t, <<"recovery", c>>)

\* verify_second_factor_method on the secret that was loaded; activate_totp
\* takes a code of the pending secret only.
Consume(t) ==
    /\ At(t, "consume")
    /\ \/ ConsumeTotp(t) /\ UNCHANGED <<store, counting>>
       \/ ConsumeRecovery(t) /\ UNCHANGED <<used, counting>>
       \/ Fail(t) /\ UNCHANGED <<store, used, accepted, again, proved>>
    /\ UNCHANGED <<sessions, minted, printed, got, onboardings, unwiped>>

-----------------------------------------------------------------------------
(* Changing the store.                                                     *)

NewCodes   == IF printed < MaxCodes THEN {printed + 1} ELSE {}
IssueCodes == printed' = IF printed < MaxCodes THEN printed + 1 ELSE printed

WithPassword(s)  == [s EXCEPT !.password = TRUE, !.token = FALSE]
WithoutTotp(s)   == WithoutPending([s EXCEPT !.totp = None, !.codes = {}])
WithSecret(s, x) == WithoutPending([s EXCEPT !.totp = x, !.codes = NewCodes])

\* Mutant of SaveOnboarding: the second look, under the lock, is left out.
SaveOnboardingUnchecked(t) ==
    /\ store' = WithPassword(store)
    /\ onboardings' = onboardings + 1
    /\ Advance(t, 1) /\ unwiped' = TRUE
    /\ UNCHANGED <<printed, counting>>

\* complete_onboarding, after the hash: both checks are made again.
SaveOnboarding(t) ==
    IF ~store.password /\ store.token
    THEN /\ store' = WithPassword(store)
         /\ onboardings' = onboardings + 1
         /\ Advance(t, 1) /\ unwiped' = TRUE
         /\ UNCHANGED <<printed, counting>>
    ELSE /\ IF store.password THEN Finish(t) /\ UNCHANGED counting ELSE Fail(t)
         /\ UNCHANGED <<store, printed, onboardings, unwiped>>

\* activate_totp, after the codes are hashed: the pending secret must still be
\* the one whose code was checked, and not have expired.
SaveActivation(t) ==
    IF store.pending = got[t] /\ store.fresh
    THEN /\ store' = WithSecret(store, got[t])
         /\ IssueCodes /\ Advance(t, 1) /\ unwiped' = TRUE
         /\ UNCHANGED <<onboardings, counting>>
    ELSE /\ store' = IF store.pending = got[t] THEN WithoutPending(store) ELSE store
         /\ Fail(t)
         /\ UNCHANGED <<printed, onboardings, unwiped>>

\* regenerate_recovery_codes, the end of its request.
SaveCodes(t) ==
    /\ store' = [store EXCEPT !.codes = NewCodes] /\ IssueCodes
    /\ Finish(t) /\ Forgive
    /\ UNCHANGED <<onboardings, unwiped>>

\* set_password, disable_totp and setup_totp, the console's immediate enrolment.
SaveChange(t) ==
    /\ \/ op[t] \in {"password", "consolePassword"} /\ store' = WithPassword(store)
          /\ UNCHANGED printed
       \/ op[t] = "disable" /\ store' = WithoutTotp(store) /\ UNCHANGED printed
       \/ op[t] = "consoleTotp" /\ store' = WithSecret(store, got[t]) /\ IssueCodes
    /\ Advance(t, 1) /\ unwiped' = TRUE
    /\ UNCHANGED <<onboardings, counting>>

\* The file is replaced as a whole.
Save(t) ==
    /\ At(t, "save")
    /\ \/ op[t] = "setup" /\ SaveOnboarding(t)
       \/ op[t] = "activate" /\ SaveActivation(t)
       \/ op[t] = "codes" /\ SaveCodes(t)
       \/ SaveChange(t)
    /\ UNCHANGED <<sessions, used, minted, got, accepted, again, proved>>

\* disable_totp, setup_totp: DELETE FROM auth_totp_uses.
ForgetUses(t) ==
    /\ At(t, "forget") /\ Advance(t, 1)
    /\ used' = [s \in Secrets |-> 0]
    /\ accepted' = {x \in accepted : x[1] # "totp"}
    /\ UNCHANGED <<store, sessions, counting, minted, printed, got,
                   onboardings, again, proved, unwiped>>

\* destroy_all_sessions, the last step of a change (clear_login_failures
\* follows it); setup goes on to its own session.
Wipe(t) ==
    /\ At(t, "wipe")
    /\ sessions' = [k \in Sids |-> None]
    /\ unwiped' = FALSE
    /\ \/ op[t] = "setup" /\ Advance(t, 1) /\ UNCHANGED counting
       \/ op[t] # "setup" /\ Finish(t) /\ IF op[t] \in Console THEN UNCHANGED counting ELSE Forgive
    /\ UNCHANGED <<store, used, minted, printed, got,
                   onboardings, accepted, again, proved>>

-----------------------------------------------------------------------------
(* Sessions.                                                               *)

\* _handle_auth_login: totp_ok; without 2FA the failures are forgiven.
ReadTotp(t) ==
    /\ At(t, "totp") /\ Advance(t, 1)
    /\ Note(t, store.totp)
    /\ IF store.totp = None THEN Forgive ELSE UNCHANGED counting
    /\ UNCHANGED <<store, sessions, used, minted, printed,
                   onboardings, accepted, again, proved, unwiped>>

\* create_session: a row with an id nobody has used; setup forgives first.
CreateSession(t) ==
    /\ At(t, "create")
    /\ \E k \in Sids :
        /\ sessions[k] = None /\ \A u \in Requests : sid[u] # k
        /\ sessions' = [sessions EXCEPT ![k] =
              [verified |-> (op[t] = "setup" \/ got[t] = None), seal |-> None]]
        /\ proved' = [proved EXCEPT ![k] = {}]
    /\ IF op[t] = "setup" THEN Forgive ELSE UNCHANGED counting
    /\ Finish(t)
    /\ UNCHANGED <<store, used, minted, printed, got,
                   onboardings, accepted, again, unwiped>>

\* upgrade_session_totp, first half: the fingerprint of the secret now stored.
ReadSeal(t) ==
    /\ At(t, "seal") /\ Advance(t, 1)
    /\ Note(t, store.totp) /\ Forgive
    /\ UNCHANGED <<store, sessions, used, minted, printed,
                   onboardings, accepted, again, proved, unwiped>>

\* Second half: the row is updated if it is still there.
StampSession(t) ==
    /\ At(t, "stamp") /\ Finish(t)
    /\ sessions' = IF got[t] = None \/ sessions[sid[t]] = None THEN sessions
                   ELSE [sessions EXCEPT ![sid[t]] = [verified |-> TRUE, seal |-> got[t]]]
    /\ UNCHANGED <<store, used, failures, locked, minted, printed, got, authHistory>>

\* A session ends: logout, its lifetime, the idle limit, or the purge.
SessionEnds(k) ==
    /\ sessions[k] # None
    /\ sessions' = [sessions EXCEPT ![k] = None]
    /\ UNCHANGED <<store, used, failures, locked, slots, minted, printed,
                   authThreads, authHistory>>

-----------------------------------------------------------------------------
(* Time and restarts.                                                      *)

\* A lock expires, the onboarding token or the pending secret grows too old.
TimePasses ==
    /\ \/ locked /\ Forgive /\ UNCHANGED store
       \/ store.token /\ store' = [store EXCEPT !.token = FALSE] /\ UNCHANGED counting
       \/ PendingLives /\ store' = [store EXCEPT !.fresh = FALSE] /\ UNCHANGED counting
    /\ UNCHANGED <<sessions, used, slots, minted, printed, authThreads,
                   onboardings, accepted, again, proved, unwiped>>

\* The process dies and the server starts again; validate_configuration issues a token
\* while there is no password.
Restart ==
    /\ op'  = [t \in Requests |-> "none"]
    /\ at'  = [t \in Requests |-> 1]
    /\ sid' = [t \in Requests |-> None]
    /\ slots' = Slots
    /\ store' = [store EXCEPT !.token = ~store.password]
    /\ UNCHANGED <<authTables, minted, printed, got, authHistory>>

AuthInit ==
    /\ routes \in Mixes
    /\ store = [password |-> FALSE, token |-> TRUE, totp |-> None, pending |-> None,
                fresh |-> FALSE, codes |-> {}]
    /\ sessions = [k \in Sids |-> None]
    /\ used = [s \in Secrets |-> 0]
    /\ failures = 0 /\ locked = FALSE /\ slots = Slots
    /\ minted = 0 /\ printed = 0
    /\ op = [t \in Requests |-> "none"] /\ at = [t \in Requests |-> 1]
    /\ sid = [t \in Requests |-> None] /\ got = [t \in Requests |-> None]
    /\ tries = 0 /\ onboardings = 0 /\ accepted = {} /\ again = {}
    /\ proved = [k \in Sids |-> {}] /\ unwiped = FALSE

AuthStep ==
    \/ \E t \in Requests : \E o \in routes[t] :
          ConsoleStart(t, o) \/ \E k \in Sids \cup {None} : Arrive(t, o, k)
    \/ \E t \in Requests :
          \/ AskLockout(t) \/ TakeSlot(t) \/ Record(t)
          \/ Verify(t) \/ Consume(t) \/ Save(t) \/ ForgetUses(t) \/ Wipe(t)
          \/ ReadTotp(t) \/ CreateSession(t) \/ ReadSeal(t) \/ StampSession(t)
    \/ BeginTotpSetup \/ TimePasses \/ Restart
    \/ \E k \in Sids : SessionEnds(k)

AuthNext == AuthStep /\ UNCHANGED routes

AuthSpec == AuthInit /\ [][AuthNext]_authVars

-----------------------------------------------------------------------------
(* Properties.                                                             *)

\* Types of the file, the tables and the threads' locals.
AuthTypeOK ==
    /\ store \in [password : BOOLEAN, token : BOOLEAN, totp : Secrets \cup {None},
                  pending : Secrets \cup {None}, fresh : BOOLEAN, codes : SUBSET (1..MaxCodes)]
    /\ sessions \in [Sids -> [verified : BOOLEAN, seal : Secrets \cup {None}] \cup {None}]
    /\ used \in [Secrets -> 0..LastWindow]
    /\ failures \in 0..MaxFailures /\ locked \in BOOLEAN /\ slots \in 0..Slots
    /\ op \in [Requests -> DOMAIN Route]
    /\ \A t \in Requests : at[t] \in 1..Len(Route[op[t]]) \cup {1}

\* complete_onboarding looks, hashes the password without the lock and looks
\* again: of any number of setup requests with the token only one succeeds.
OnboardedOnce == onboardings <= 1

\* A code of the authenticator and a recovery code are accepted once, whatever
\* requests submit them together (since the used counters were last deleted).
CodesAcceptedOnce == again = {}

\* Once every change of credentials has deleted the sessions it outdates, a
\* session that passes is_fully_authenticated under 2FA has shown a code of
\* the very secret in force, whatever logins, enrolments and upgrades crossed.
SecondFactorProven ==
    ~unwiped /\ store.totp # None =>
        \A k \in Sids : FullyAuthenticated(k) => store.totp \in proved[k]

\* Between two forgivenesses an address gets MaxFailures tries, and one more
\* for every other thread that was let past the lockout before it fell.  The
\* threads bound them and not the slots: login and setup ask for the lockout
\* before they take a slot, the security routes record after they gave it back.
TriesBounded == tries <= MaxFailures + Cardinality(Requests) - 1

\* Every verification slot is free or held by one request inside a route, and
\* every way out of a route gives its slot back; the console needs none.
SlotsExact ==
    AuthTypeOK /\ slots + Cardinality({t \in Requests : HoldsSlot(t)}) = Slots
=============================================================================

---------------------------- MODULE RequestServer ----------------------------
(***************************************************************************)
(* The HTTPS server (BoundedTLSServer in linkmoth_core.py) and the request *)
(* handler (linkmoth_handler.py): a fixed number of connection slots, a    *)
(* deadline from accept to the end of the headers, the guards in front of  *)
(* every route, and the sections only one of them may be in: backup,       *)
(* manual diagnosis, load test, VACUUM and the fault ladder, which the     *)
(* baseline loop and the janitor enter too.  Routes that differ in nothing *)
(* but what they read or change are one route.                             *)
(***************************************************************************)
EXTENDS Naturals, FiniteSets

CONSTANTS
    Conns,              \* client connections
    MaxConnections,     \* MAX_HTTP_CONNECTIONS
    Deadline,           \* REQUEST_HEADER_DEADLINE_SECONDS, in ticks
    Offers,             \* what each client may ask for, and with which credentials
    Others,             \* the server's own threads that enter sections
    None

ASSUME ServerAssumption ==
    /\ MaxConnections \in Nat \ {0} /\ Deadline \in Nat \ {0} /\ IsFiniteSet(Conns)

GetRoutes == {"asset", "page", "metrics", "report", "private", "backup", "trigger"}
PostRoutes == {"trigger", "setup", "totp", "logout", "edit", "diagnosis", "load", "vacuum", "ladder"}
Requests == [method : {"GET"}, route : GetRoutes] \cup [method : {"POST"}, route : PostRoutes]
                \cup [method : {"PUT", "DELETE"}, route : {"edit"}]
Credentials == {"session", "csrf", "bearer", "token", "outside", "crossSite"}

ASSUME OfferAssumption ==
    /\ Offers \in [Conns -> SUBSET (Requests \X SUBSET Credentials)]
    /\ "thread" \in Others /\ Others \subseteq {"thread", "baseline", "loop", "janitor"}
    /\ Conns \cap Others = {} /\ None \notin Conns \cup Others

\* What only one may do at a time: build_backup_archive (BACKUP_LOCK), a
\* manual diagnosis (MANUAL_DIAGNOSIS_SLOT), a load test (_LOAD_TEST_LOCK),
\* VACUUM (under Engine.lock) and the ladder (run_in_progress).
Sections == {"backup", "diagnosis", "load", "vacuum", "ladder"}

VARIABLES
    at,             \* where each connection is
    age,            \* ticks since it was accepted
    req,            \* its request and credentials
    free,           \* slots left in BoundedTLSServer._slots
    login,          \* of the browser's session: none, pending its second factor, full
    holder,         \* who is in each section
    closing         \* server_close was called

serverVars == <<at, age, req, free, login, holder, closing>>

Threaded == {"handshake", "headers", "body", "guard", "run", "closing", "released"}
HasThread == {c \in Conns : at[c] \in Threaded}
HasSlot == {c \in Conns : at[c] \in (Threaded \ {"released"}) \cup {"queued", "cancelled"}}

Move(c, from, to) == at[c] = from /\ at' = [at EXCEPT ![c] = to]
Keep(c, from, to) == Move(c, from, to) /\ UNCHANGED req
Answer(c, from) == Move(c, from, "closing") /\ req' = [req EXCEPT ![c] = None]

-----------------------------------------------------------------------------
(* The server: accept, handshake, headers.                                 *)

\* process_request: without a slot the connection is closed at once; while
\* the pool is shutting down its submission is rejected, and both are undone.
Accept(c) ==
    /\ free > 0 /\ ~closing
    /\ Move(c, "away", "queued") /\ free' = free - 1
    /\ UNCHANGED <<age, req, login, holder, closing>>

\* Mutant of AcceptRejected: the rejected submission keeps its slot.
AcceptRejectedKeepsSlot(c) ==
    /\ at[c] = "away" /\ free > 0 /\ closing
    /\ free' = free - 1 /\ UNCHANGED <<at, age, req, login, holder, closing>>

AcceptRejected(c) ==
    /\ at[c] = "away" /\ (free = 0 \/ closing)
    /\ UNCHANGED serverVars

\* A pool thread takes it; one whose deadline has passed meanwhile is dropped.
Begin(c) ==
    /\ Cardinality(HasThread) < MaxConnections
    /\ Move(c, "queued", IF age[c] < Deadline THEN "handshake" ELSE "closing")
    /\ UNCHANGED <<age, req, free, login, holder, closing>>

\* The client finishes its handshake, or it fails: TLS_HANDSHAKE_TIMEOUT_SECONDS
\* may end it before the deadline does.
Handshaken(c) ==
    /\ \E to \in {"headers", "closing"} : Move(c, "handshake", to)
    /\ UNCHANGED <<age, req, free, login, holder, closing>>

\* The request line and headers are read within their caps, or 431 is sent.
HeadersRead(c) ==
    /\ \/ \E o \in Offers[c] :
            /\ Move(c, "headers", IF o[1].method \in {"POST", "PUT"} THEN "body" ELSE "guard")
            /\ req' = [req EXCEPT ![c] = [what |-> o[1], with |-> o[2]]]
       \/ Move(c, "headers", "closing") /\ UNCHANGED req
    /\ UNCHANGED <<age, free, login, holder, closing>>

\* Mutant of TimerDue: only the handshake has a timer.
TimerDueHandshake(c) == at[c] = "handshake" /\ age[c] >= Deadline

\* The deadline counts from the accept, whatever the client sends meanwhile.
TimerDue(c) == at[c] \in {"handshake", "headers"} /\ age[c] >= Deadline

\* The handshake is abandoned, or 408 is sent.
TimedOut(c) ==
    /\ TimerDue(c)
    /\ at' = [at EXCEPT ![c] = "closing"]
    /\ UNCHANGED <<age, req, free, login, holder, closing>>

\* A tick of the clock, which does not pass a timer that is due.
ServerTick ==
    LET aging == {c \in Conns : at[c] \in {"queued", "handshake", "headers"} /\ age[c] < Deadline} IN
    /\ aging # {} /\ ~ \E c \in Conns : TimerDue(c)
    /\ age' = [c \in Conns |-> IF c \in aging THEN age[c] + 1 ELSE age[c]]
    /\ UNCHANGED <<at, req, free, login, holder, closing>>

\* _read_body: read, refused for its length, or given up after a silence.
BodyRead(c) ==
    /\ Keep(c, "body", "guard") \/ Answer(c, "body")
    /\ UNCHANGED <<age, free, login, holder, closing>>

-----------------------------------------------------------------------------
(* The guards.  A request is answered there, or goes on to its handler:    *)
(* what has to hold is read once, in one step, so which routes are guarded *)
(* how is translated here and is not a property of the interleavings.      *)

Carries(c, k) == k \in req[c].with
Method(c) == req[c].what.method
Asked(c) == req[c].what.route

\* _require_auth, with the session the request's cookie names.
FullLogin(c) == Carries(c, "session") /\ login = "full"

\* _require_webhook, _require_same_origin_json and _reject_if_publicly_exposed.
WebhookSecret(c) == Carries(c, "bearer")
SameOrigin(c) == ~Carries(c, "crossSite")
InsideLan(c) == ~Carries(c, "outside")

\* do_GET: icons, the CA certificate, the service worker and the dashboard's page.
ServedToAnyone(c) == Asked(c) \in {"asset", "page"}

\* READONLY_TOKEN_GET_PATHS.
ReadOnlyToken(c) == Asked(c) = "report" /\ Carries(c, "token")

\* The other routes of do_GET; /metrics takes a read-only token too.
GetAllows(c) ==
    \/ ServedToAnyone(c) \/ ReadOnlyToken(c)
    \/ Asked(c) = "trigger" /\ WebhookSecret(c)
    \/ Asked(c) = "metrics" /\ (Carries(c, "token") \/ WebhookSecret(c))
    \/ Asked(c) \in {"report", "private", "backup"} /\ FullLogin(c)

\* _require_csrf of a full session.
Confirmed(c) == FullLogin(c) /\ Carries(c, "csrf")

\* _handle_auth_login and _handle_auth_setup (_require_same_origin_json), the
\* webhook routes, the second factor, logout, and the rest, behind session
\* and CSRF.
PostAllows(c) ==
    \/ Asked(c) = "setup" /\ SameOrigin(c)
    \/ Asked(c) = "trigger" /\ WebhookSecret(c)
    \/ Asked(c) = "logout" /\ (Carries(c, "session") /\ login # "none" => Carries(c, "csrf"))
    \/ Asked(c) = "totp" /\ Carries(c, "session") /\ login # "none" /\ Carries(c, "csrf")
    \/ Asked(c) \notin {"setup", "totp", "trigger", "logout"} /\ Confirmed(c)

PutAllows(c) == Confirmed(c)

DeleteAllows(c) == Confirmed(c)

Allowed(c) ==
    /\ InsideLan(c)
    /\ \/ Method(c) = "GET" /\ GetAllows(c)
       \/ Method(c) = "POST" /\ PostAllows(c)
       \/ Method(c) = "PUT" /\ PutAllows(c)
       \/ Method(c) = "DELETE" /\ DeleteAllows(c)

Guard(c) ==
    /\ \/ Keep(c, "guard", "run") /\ Allowed(c)
       \/ Answer(c, "guard") /\ ~Allowed(c)
    /\ UNCHANGED <<age, free, login, holder, closing>>

-----------------------------------------------------------------------------
(* The handlers.                                                           *)

In(who) == {s \in Sections : holder[s] = who}

\* A section is entered without waiting, or not at all; VACUUM and the ladder
\* take Engine.lock first, wait for a VACUUM that holds it, and exclude each
\* other through run_in_progress.
MayEnterSection(s) == holder[s] = None /\ (s = "vacuum" => holder["ladder"] = None)
MustWait(s) == s \in {"vacuum", "ladder"} /\ holder["vacuum"] # None

\* Every other handler: of what it changes or reads, only the session matters here.  A login or
\* the onboarding makes a session, a password change or a logout ends it.
Serve(c) ==
    /\ Answer(c, "run") /\ Asked(c) \notin Sections
    /\ login' \in CASE Asked(c) = "setup"  -> {login, "pending", "full"}
                    [] Asked(c) = "totp"   -> {login, "full"}
                    [] Asked(c) = "logout" -> IF Carries(c, "session") THEN {"none"} ELSE {login}
                    [] Method(c) = "POST" /\ Asked(c) = "edit" -> {login, "none"}
                    [] OTHER -> {login}
    /\ UNCHANGED <<age, free, holder, closing>>

\* The section is entered, by the handler or by the thread it starts, which
\* may fail to start; or the answer is 409 or 429, as it is for a request
\* that is malformed or too soon after the last.
Enter(c) ==
    /\ at[c] = "run" /\ Asked(c) \in Sections /\ In(c) = {}
    /\ \/ /\ Asked(c) # "diagnosis" /\ ~MustWait(Asked(c)) /\ MayEnterSection(Asked(c))
          /\ Keep(c, "run", "run") /\ holder' = [holder EXCEPT ![Asked(c)] = c]
       \/ /\ Asked(c) = "diagnosis" /\ MayEnterSection("diagnosis")
          /\ Answer(c, "run") /\ holder' = [holder EXCEPT !["diagnosis"] = "thread"]
       \/ /\ ~MustWait(Asked(c)) /\ Answer(c, "run") /\ UNCHANGED holder
    /\ UNCHANGED <<age, free, login, closing>>

\* It is left at the end and when the work fails.
Finish(c) ==
    /\ In(c) # {} /\ Answer(c, "run")
    /\ holder' = [s \in Sections |-> IF s \in In(c) THEN None ELSE holder[s]]
    /\ UNCHANGED <<age, free, login, closing>>

\* The manual diagnosis thread, the baseline loop with its load test, the
\* recheck loop and the janitor's VACUUM, between their turns.
Wants == [thread |-> "ladder", baseline |-> "load", loop |-> "ladder", janitor |-> "vacuum"]

OtherEnters(o) ==
    /\ o = "thread" => holder["diagnosis"] = "thread"
    /\ holder[Wants[o]] # o /\ ~MustWait(Wants[o]) /\ MayEnterSection(Wants[o])
    /\ holder' = [holder EXCEPT ![Wants[o]] = o]
    /\ UNCHANGED <<at, age, req, free, login, closing>>

OtherLeaves(o) ==
    /\ In(o) # {}
    /\ holder' = [s \in Sections |-> IF holder[s] = o THEN None ELSE holder[s]]
    /\ UNCHANGED <<at, age, req, free, login, closing>>

-----------------------------------------------------------------------------
(* The end of a connection and of the server.                              *)

\* shutdown_request, then the slot, then the pool's thread.
Close(c) ==
    /\ Move(c, "closing", "released") /\ free' = free + 1
    /\ age' = [age EXCEPT ![c] = 0]
    /\ UNCHANGED <<req, login, holder, closing>>

ThreadBack(c) ==
    /\ Move(c, "released", "away")
    /\ UNCHANGED <<age, req, free, login, holder, closing>>

\* server_close: what is queued in the pool is cancelled and stays as it is.
ServerClose ==
    /\ ~closing /\ closing' = TRUE
    /\ at' = [c \in Conns |-> IF at[c] = "queued" THEN "cancelled" ELSE at[c]]
    /\ UNCHANGED <<age, req, free, login, holder>>

\* The session expires.
SessionEnds ==
    /\ login # "none" /\ login' = "none"
    /\ UNCHANGED <<at, age, req, free, holder, closing>>

ServerInit ==
    /\ at = [c \in Conns |-> "away"] /\ age = [c \in Conns |-> 0] /\ req = [c \in Conns |-> None]
    /\ free = MaxConnections /\ login = "none" /\ closing = FALSE
    /\ holder = [s \in Sections |-> None]

\* What the server does with a connection once it has it.
Handle(c) ==
    \/ Begin(c) \/ TimedOut(c) \/ BodyRead(c) \/ Guard(c)
    \/ Serve(c) \/ Enter(c) \/ Finish(c) \/ Close(c) \/ ThreadBack(c)

ServerNext ==
    \/ \E c \in Conns : Accept(c) \/ AcceptRejected(c) \/ Handshaken(c) \/ HeadersRead(c) \/ Handle(c)
    \/ \E o \in Others : OtherEnters(o) \/ OtherLeaves(o)
    \/ ServerTick \/ ServerClose \/ SessionEnds

\* Threads that can run do run, and time passes; clients may stall for ever.
\* A thread of the pool that frees up is given to every queued connection in
\* the end, and a blocked Engine.lock is taken in the end.
ServerFairness ==
    /\ WF_serverVars(ServerTick)
    /\ \A c \in Conns : SF_serverVars(Handle(c))
    /\ \A o \in Others : WF_serverVars(OtherLeaves(o))

ServerSpec == ServerInit /\ [][ServerNext]_serverVars /\ ServerFairness

-----------------------------------------------------------------------------
(* Properties.                                                             *)

\* Types.
ServerTypeOK ==
    /\ at \in [Conns -> {"away", "queued", "cancelled"} \cup Threaded]
    /\ age \in [Conns -> 0..Deadline] /\ free \in 0..MaxConnections
    /\ \A c \in Conns : at[c] \in {"body", "guard", "run"} =>
          <<req[c].what, req[c].with>> \in Offers[c]
    /\ login \in {"none", "pending", "full"} /\ closing \in BOOLEAN
    /\ holder \in [Sections -> Conns \cup Others \cup {None}]

\* Capacity is neither lost nor invented, on whatever path a request ends: the
\* free slots are those no connection has, there is a thread for every slot,
\* a section is held only by the request that is inside it or by a thread of
\* the server, and no ladder runs during a VACUUM.
CapacityExact ==
    /\ ServerTypeOK
    /\ free + Cardinality(HasSlot) = MaxConnections
    /\ Cardinality(HasThread) <= MaxConnections
    /\ \A c \in Conns : In(c) # {} => at[c] = "run" /\ In(c) = {Asked(c)}
    /\ holder["vacuum"] = None \/ holder["ladder"] = None

\* Every accepted connection gives its slot back, whatever its client does.
AcceptedLeaves ==
    \A c \in Conns : at[c] = "queued" ~> at[c] \in {"released", "cancelled"}
=============================================================================

------------------------- MODULE RequestServerProofs -------------------------
(***************************************************************************)
(* Proofs about the HTTPS server and its guards, for any number of         *)
(* clients, slots and threads, whatever the clients ask for: no slot is    *)
(* lost or invented, and a section has one owner who is inside it.         *)
(***************************************************************************)
EXTENDS RequestServer, FiniteSetTheorems, TLAPS

States == {"away", "queued", "cancelled"} \cup Threaded
WithSlot == (Threaded \ {"released"}) \cup {"queued", "cancelled"}

\* A connection has a request from its headers on to its answer.
Read == [what : Requests, with : SUBSET Credentials]

TypeInv ==
    /\ at \in [Conns -> States] /\ age \in [Conns -> 0..Deadline] /\ free \in Nat
    /\ req \in [Conns -> Read \cup {None}]
    /\ \A c \in Conns : at[c] \in {"body", "guard", "run"} =>
          req[c] \in Read /\ <<req[c].what, req[c].with>> \in Offers[c]
    /\ login \in {"none", "pending", "full"} /\ closing \in BOOLEAN
    /\ holder \in [Sections -> Conns \cup Others \cup {None}]

\* Slots and threads are counted exactly.
CapacityInv ==
    /\ free + Cardinality(HasSlot) = MaxConnections
    /\ Cardinality(HasThread) <= MaxConnections

\* Who holds a section is inside it, and holds no other.
SectionInv ==
    /\ \A c \in Conns : In(c) # {} => at[c] = "run" /\ In(c) = {Asked(c)}
    /\ holder["vacuum"] = None \/ holder["ladder"] = None

ServerInv == TypeInv /\ CapacityInv /\ SectionInv

USE ServerAssumption, OfferAssumption DEF ServerAssumption, OfferAssumption

-----------------------------------------------------------------------------
(* One connection moves.                                                   *)

Those(f, P) == {d \in Conns : f[d] \in P}

LEMMA Counted ==
    ASSUME NEW P, NEW c \in Conns, NEW to,
           at \in [Conns -> States], at' = [at EXCEPT ![c] = to]
    PROVE  /\ Cardinality(Those(at, P)) \in Nat /\ Cardinality(Those(at', P)) \in Nat
           /\ at[c] \in P /\ to \in P => Cardinality(Those(at', P)) = Cardinality(Those(at, P))
           /\ at[c] \notin P /\ to \notin P => Cardinality(Those(at', P)) = Cardinality(Those(at, P))
           /\ at[c] \in P /\ to \notin P => Cardinality(Those(at', P)) = Cardinality(Those(at, P)) - 1
           /\ at[c] \notin P /\ to \in P => Cardinality(Those(at', P)) = Cardinality(Those(at, P)) + 1
<1> DEFINE S == Those(at, P)
           T == Those(at', P)
<1>1. IsFiniteSet(S) /\ IsFiniteSet(T)
  BY FS_Subset DEF Those
<1>2. Cardinality(S) \in Nat /\ Cardinality(T) \in Nat
  BY <1>1, FS_CardinalityType
<1>3. CASE (at[c] \in P /\ to \in P) \/ (at[c] \notin P /\ to \notin P)
  <2>1. S = T
    BY <1>3 DEF Those
  <2>2. QED
    BY <1>2, <1>3, <2>1
<1>4. CASE at[c] \in P /\ to \notin P
  <2>1. T = S \ {c} /\ c \in S
    BY <1>4 DEF Those
  <2> HIDE DEF S, T
  <2>2. Cardinality(T) = Cardinality(S) - 1
    BY <1>1, <2>1, FS_RemoveElement
  <2>3. QED
    BY <1>2, <1>4, <2>2 DEF S, T
<1>5. CASE at[c] \notin P /\ to \in P
  <2>1. T = S \cup {c} /\ c \notin S
    BY <1>5 DEF Those
  <2> HIDE DEF S, T
  <2>2. Cardinality(T) = Cardinality(S) + 1
    BY <1>1, <2>1, FS_AddElement
  <2>3. QED
    BY <1>2, <1>5, <2>2 DEF S, T
<1>6. QED
  BY <1>3, <1>4, <1>5

\* The account after a move: a slot is taken or given back as the move says,
\* and a thread is only taken where one is idle.
LEMMA Account ==
    ASSUME ServerInv, NEW c \in Conns, NEW to \in States, at' = [at EXCEPT ![c] = to],
           free' = IF at[c] \in WithSlot /\ to \notin WithSlot THEN free + 1
                   ELSE IF at[c] \notin WithSlot /\ to \in WithSlot THEN free - 1 ELSE free,
           at[c] \in Threaded \/ to \notin Threaded \/ Cardinality(HasThread) < MaxConnections
    PROVE  CapacityInv'
<1>1. at \in [Conns -> States] /\ free \in Nat /\ CapacityInv
  BY DEF ServerInv, TypeInv
<1>2. /\ Cardinality(HasSlot) \in Nat /\ Cardinality(HasSlot') \in Nat
      /\ at[c] \in WithSlot /\ to \in WithSlot => Cardinality(HasSlot') = Cardinality(HasSlot)
      /\ at[c] \notin WithSlot /\ to \notin WithSlot => Cardinality(HasSlot') = Cardinality(HasSlot)
      /\ at[c] \in WithSlot /\ to \notin WithSlot => Cardinality(HasSlot') = Cardinality(HasSlot) - 1
      /\ at[c] \notin WithSlot /\ to \in WithSlot => Cardinality(HasSlot') = Cardinality(HasSlot) + 1
  <2>1. HasSlot = Those(at, WithSlot) /\ HasSlot' = Those(at', WithSlot)
    BY DEF HasSlot, WithSlot, Those
  <2>2. QED
    BY <1>1, <2>1, Counted
<1>3. /\ Cardinality(HasThread) \in Nat /\ Cardinality(HasThread') \in Nat
      /\ at[c] \in Threaded /\ to \in Threaded => Cardinality(HasThread') = Cardinality(HasThread)
      /\ at[c] \notin Threaded /\ to \notin Threaded => Cardinality(HasThread') = Cardinality(HasThread)
      /\ at[c] \in Threaded /\ to \notin Threaded => Cardinality(HasThread') = Cardinality(HasThread) - 1
      /\ at[c] \notin Threaded /\ to \in Threaded => Cardinality(HasThread') = Cardinality(HasThread) + 1
  <2>1. HasThread = Those(at, Threaded) /\ HasThread' = Those(at', Threaded)
    BY DEF HasThread, Those
  <2>2. QED
    BY <1>1, <2>1, Counted
<1>4. free' + Cardinality(HasSlot') = MaxConnections
  BY <1>1, <1>2 DEF CapacityInv
<1>5. Cardinality(HasThread') <= MaxConnections
  BY <1>1, <1>3 DEF CapacityInv
<1>6. QED
  BY <1>4, <1>5 DEF CapacityInv

\* The other connections do not notice, and a connection that is not in its
\* handler holds nothing.
LEMMA Elsewhere ==
    ASSUME ServerInv, NEW c \in Conns, at'[c] # "run", UNCHANGED holder, In(c) = {},
           \A d \in Conns \ {c} : at'[d] = at[d] /\ req'[d] = req[d]
    PROVE  SectionInv'
<1>1. \A d \in Conns : In(d)' = In(d)
  BY DEF In
<1>2. QED
  BY <1>1 DEF ServerInv, SectionInv, Asked

\* A connection that moves outside its handler.
LEMMA Moves ==
    ASSUME ServerInv, NEW c \in Conns, NEW to \in States \ {"run"}, at[c] # "run" \/ In(c) = {},
           at' = [at EXCEPT ![c] = to], age' \in [Conns -> 0..Deadline],
           req' \in [Conns -> Read \cup {None}], \A d \in Conns \ {c} : req'[d] = req[d],
           to \in {"body", "guard"} =>
               req'[c] \in Read /\ <<req'[c].what, req'[c].with>> \in Offers[c],
           free' = IF at[c] \in WithSlot /\ to \notin WithSlot THEN free + 1
                   ELSE IF at[c] \notin WithSlot /\ to \in WithSlot THEN free - 1 ELSE free,
           at[c] \notin WithSlot /\ to \in WithSlot => free > 0,
           at[c] \in Threaded \/ to \notin Threaded \/ Cardinality(HasThread) < MaxConnections,
           UNCHANGED <<login, holder, closing>>
    PROVE  ServerInv'
<1>1. CapacityInv'
  BY Account
<1>2. at'[c] = to /\ \A d \in Conns \ {c} : at'[d] = at[d]
  BY DEF ServerInv, TypeInv
<1>3. In(c) = {}
  BY DEF ServerInv, SectionInv
<1>4. SectionInv'
  BY <1>2, <1>3, Elsewhere
<1>5. at' \in [Conns -> States] /\ free' \in Nat
  BY DEF ServerInv, TypeInv
<1>6. TypeInv'
  BY <1>2, <1>5 DEF ServerInv, TypeInv
<1>7. QED
  BY <1>1, <1>4, <1>6 DEF ServerInv

-----------------------------------------------------------------------------
(* What each action does.                                                  *)

LEMMA InitHolds == ServerInit => ServerInv
<1> SUFFICES ASSUME ServerInit PROVE ServerInv
  OBVIOUS
<1>1. TypeInv
  <2>1. at \in [Conns -> States] /\ req \in [Conns -> Read \cup {None}]
    BY DEF ServerInit, States
  <2>2. age \in [Conns -> 0..Deadline] /\ free \in Nat
    BY DEF ServerInit
  <2>3. /\ holder \in [Sections -> Conns \cup Others \cup {None}] /\ login = "none"
        /\ closing \in BOOLEAN
    BY DEF ServerInit
  <2>4. \A c \in Conns : at[c] = "away"
    BY DEF ServerInit
  <2>5. QED
    BY <2>1, <2>2, <2>3, <2>4 DEF TypeInv
<1>2. HasSlot = {} /\ HasThread = {}
  BY DEF ServerInit, HasSlot, HasThread, Threaded
<1>3. CapacityInv
  BY <1>2, FS_EmptySet DEF ServerInit, CapacityInv
<1>4. SectionInv
  <2>1. \A c \in Conns : In(c) = {}
    BY DEF ServerInit, In
  <2>2. QED
    BY <2>1 DEF ServerInit, SectionInv, Sections
<1>5. QED
  BY <1>1, <1>3, <1>4 DEF ServerInv

\* Before the guards, and after the answer.
LEMMA ConnectionKeeps ==
    ASSUME ServerInv, NEW c \in Conns,
           Accept(c) \/ Begin(c) \/ Handshaken(c) \/ HeadersRead(c) \/ TimedOut(c) \/ BodyRead(c)
           \/ Close(c) \/ ThreadBack(c)
    PROVE  ServerInv'
<1>1. /\ at \in [Conns -> States] /\ age \in [Conns -> 0..Deadline] /\ free \in Nat
      /\ req \in [Conns -> Read \cup {None}]
  BY DEF ServerInv, TypeInv
<1> USE DEF Move, Keep, Answer, States, WithSlot, Threaded
<1>2. CASE Accept(c)
  BY <1>1, <1>2, Moves DEF Accept
<1>3. CASE Begin(c)
  BY <1>1, <1>3, Moves DEF Begin
<1>4. CASE Handshaken(c)
  BY <1>1, <1>4, Moves DEF Handshaken
<1>5. CASE HeadersRead(c)
  <2>1. CASE Move(c, "headers", "closing") /\ UNCHANGED req
    BY <1>1, <1>5, <2>1, Moves DEF HeadersRead
  <2>2. ASSUME NEW o \in Offers[c],
               Move(c, "headers", IF o[1].method \in {"POST", "PUT"} THEN "body" ELSE "guard"),
               req' = [req EXCEPT ![c] = [what |-> o[1], with |-> o[2]]]
        PROVE  ServerInv'
    <3>1. o \in Requests \X SUBSET Credentials /\ o = <<o[1], o[2]>>
      BY <2>2
    <3>2. req'[c] \in Read /\ <<req'[c].what, req'[c].with>> \in Offers[c]
      BY <1>1, <2>2, <3>1 DEF Read
    <3>3. req' \in [Conns -> Read \cup {None}] /\ \A d \in Conns \ {c} : req'[d] = req[d]
      BY <1>1, <2>2, <3>2
    <3>4. QED
      BY <1>1, <1>5, <2>2, <3>2, <3>3, Moves DEF HeadersRead
  <2>3. QED
    BY <1>5, <2>1, <2>2 DEF HeadersRead
<1>6. CASE TimedOut(c)
  BY <1>1, <1>6, Moves DEF TimedOut, TimerDue
<1>7. CASE BodyRead(c)
  <2>1. CASE Keep(c, "body", "guard")
    BY <1>1, <1>7, <2>1, Moves DEF BodyRead, ServerInv, TypeInv
  <2>2. CASE Answer(c, "body")
    BY <1>1, <1>7, <2>2, Moves DEF BodyRead
  <2>3. QED
    BY <1>7, <2>1, <2>2 DEF BodyRead
<1>8. CASE Close(c)
  <2>1. age' \in [Conns -> 0..Deadline]
    BY <1>1, <1>8 DEF Close
  <2>2. QED
    BY <1>1, <1>8, <2>1, Moves DEF Close
<1>9. CASE ThreadBack(c)
  BY <1>1, <1>9, Moves DEF ThreadBack
<1>10. QED
  BY <1>2, <1>3, <1>4, <1>5, <1>6, <1>7, <1>8, <1>9

\* The guards answer, or let the request into a handler that holds nothing yet.
LEMMA GuardKeeps ==
    ASSUME ServerInv, NEW c \in Conns, Guard(c)
    PROVE  ServerInv'
<1>1. /\ at \in [Conns -> States] /\ req \in [Conns -> Read \cup {None}] /\ at[c] = "guard"
      /\ req[c] \in Read /\ <<req[c].what, req[c].with>> \in Offers[c]
      /\ UNCHANGED <<age, free, login, holder, closing>>
  BY DEF Guard, Keep, Move, Answer, ServerInv, TypeInv
<1>2. CASE Answer(c, "guard")
  BY <1>1, <1>2, Moves DEF Answer, Move, States, WithSlot, Threaded, ServerInv, TypeInv
<1>3. CASE at' = [at EXCEPT ![c] = "run"] /\ req' = req
  <2>1. at'[c] = "run" /\ \A d \in Conns \ {c} : at'[d] = at[d]
    BY <1>1, <1>3
  <2>2. \A d \in Conns : In(d)' = In(d)
    BY <1>1 DEF In
  <2>3. TypeInv'
    BY <1>1, <1>3, <2>1 DEF ServerInv, TypeInv, States, Threaded
  <2>4. CapacityInv'
    BY <1>1, <1>3, Account DEF States, WithSlot, Threaded
  <2>5. SectionInv'
    <3>1. In(c) = {}
      BY <1>1 DEF ServerInv, SectionInv
    <3>2. QED
      BY <1>1, <1>3, <2>1, <2>2, <3>1 DEF ServerInv, SectionInv, Asked
  <2>6. QED
    BY <2>3, <2>4, <2>5 DEF ServerInv
<1>4. QED
  BY <1>2, <1>3 DEF Guard, Keep, Move

-----------------------------------------------------------------------------
(* Sections.                                                               *)

\* Connections stay where they are: what is left is who holds what.
LEMMA HoldersChange ==
    ASSUME ServerInv, UNCHANGED <<at, age, req, free, closing>>,
           login' \in {"none", "pending", "full"},
           holder' \in [Sections -> Conns \cup Others \cup {None}], SectionInv'
    PROVE  ServerInv'
<1>1. TypeInv' /\ CapacityInv'
  BY DEF ServerInv, TypeInv, CapacityInv, HasSlot, HasThread
<1>2. QED
  BY <1>1 DEF ServerInv

\* A section that is free is entered by one who holds no other.
LEMMA SectionEntered ==
    ASSUME ServerInv, NEW s \in Sections, NEW who \in Conns \cup Others,
           MayEnterSection(s), s = "ladder" => holder["vacuum"] = None,
           holder' = [holder EXCEPT ![s] = who], UNCHANGED <<at, req>>,
           who \in Conns => at[who] = "run" /\ Asked(who) = s /\ In(who) = {}
    PROVE  /\ holder' \in [Sections -> Conns \cup Others \cup {None}]
           /\ SectionInv'
<1>1. holder \in [Sections -> Conns \cup Others \cup {None}]
  BY DEF ServerInv, TypeInv
<1>2. holder' \in [Sections -> Conns \cup Others \cup {None}]
  BY <1>1
<1>3. holder'["vacuum"] = None \/ holder'["ladder"] = None
  BY <1>1 DEF ServerInv, SectionInv, MayEnterSection, Sections
<1>4. ASSUME NEW c \in Conns, In(c)' # {}
      PROVE  at'[c] = "run" /\ In(c)' = {Asked(c)'}
  <2>1. CASE c = who
    BY <1>1, <2>1 DEF In, Asked
  <2>2. CASE c # who
    <3>1. In(c)' = In(c)
      BY <1>1, <2>2 DEF In, MayEnterSection
    <3>2. QED
      BY <1>4, <3>1 DEF ServerInv, SectionInv, Asked
  <2>3. QED
    BY <2>1, <2>2
<1>5. QED
  BY <1>2, <1>3, <1>4 DEF SectionInv

\* What one leaves is free.
LEMMA SectionLeft ==
    ASSUME ServerInv, NEW who \in Conns \cup Others,
           holder' = [s \in Sections |-> IF s \in In(who) THEN None ELSE holder[s]]
    PROVE  /\ holder' \in [Sections -> Conns \cup Others \cup {None}]
           /\ In(who)' = {} /\ \A c \in Conns \ {who} : In(c)' = In(c)
           /\ holder'["vacuum"] = None \/ holder'["ladder"] = None
<1>1. holder \in [Sections -> Conns \cup Others \cup {None}]
  BY DEF ServerInv, TypeInv
<1>2. holder' \in [Sections -> Conns \cup Others \cup {None}]
  BY <1>1
<1>3. In(who)' = {} /\ \A c \in Conns \ {who} : In(c)' = In(c)
  BY <1>1 DEF In
<1>4. holder'["vacuum"] = None \/ holder'["ladder"] = None
  BY <1>1 DEF ServerInv, SectionInv, Sections
<1>5. QED
  BY <1>2, <1>3, <1>4

LEMMA ServeKeeps ==
    ASSUME ServerInv, NEW c \in Conns, Serve(c)
    PROVE  ServerInv'
<1>1. /\ at \in [Conns -> States] /\ req \in [Conns -> Read \cup {None}] /\ at[c] = "run"
      /\ login \in {"none", "pending", "full"}
      /\ at' = [at EXCEPT ![c] = "closing"] /\ req' = [req EXCEPT ![c] = None]
      /\ Asked(c) \notin Sections /\ UNCHANGED <<age, free, holder, closing>>
  BY DEF Serve, Answer, Move, ServerInv, TypeInv
<1>2. login' \in {"none", "pending", "full"}
  BY <1>1 DEF Serve
<1>3. In(c) = {}
  BY <1>1 DEF ServerInv, SectionInv, In
<1>4. SectionInv'
  BY <1>1, <1>3, Elsewhere
<1>5. TypeInv'
  BY <1>1, <1>2 DEF ServerInv, TypeInv, States, Threaded
<1>6. CapacityInv'
  BY <1>1, Account DEF States, WithSlot, Threaded
<1>7. QED
  BY <1>4, <1>5, <1>6 DEF ServerInv

LEMMA EnterKeeps ==
    ASSUME ServerInv, NEW c \in Conns, Enter(c)
    PROVE  ServerInv'
<1>1. /\ at \in [Conns -> States] /\ req \in [Conns -> Read \cup {None}] /\ age \in [Conns -> 0..Deadline]
      /\ holder \in [Sections -> Conns \cup Others \cup {None}] /\ login \in {"none", "pending", "full"}
      /\ at[c] = "run" /\ Asked(c) \in Sections /\ In(c) = {}
      /\ UNCHANGED <<age, free, login, closing>>
  BY DEF Enter, ServerInv, TypeInv
<1>2. CASE /\ ~MustWait(Asked(c)) /\ MayEnterSection(Asked(c))
           /\ Keep(c, "run", "run") /\ holder' = [holder EXCEPT ![Asked(c)] = c]
  <2>1. at' = at /\ req' = req
    BY <1>1, <1>2 DEF Keep, Move
  <2>2. Asked(c) = "ladder" => holder["vacuum"] = None
    BY <1>2 DEF MustWait
  <2>3. QED
    BY <1>1, <1>2, <2>1, <2>2, SectionEntered, HoldersChange
<1>3. CASE Answer(c, "run") /\ UNCHANGED holder
  BY <1>1, <1>3, Moves DEF Answer, Move, States, WithSlot, Threaded
<1>4. CASE /\ Asked(c) = "diagnosis" /\ MayEnterSection("diagnosis")
           /\ Answer(c, "run") /\ holder' = [holder EXCEPT !["diagnosis"] = "thread"]
  <2>1. at' = [at EXCEPT ![c] = "closing"] /\ req' = [req EXCEPT ![c] = None]
    BY <1>4 DEF Answer, Move
  <2>2. \A d \in Conns : In(d)' = In(d)
    BY <1>1, <1>4 DEF In, MayEnterSection
  <2>3. holder' \in [Sections -> Conns \cup Others \cup {None}]
    BY <1>1, <1>4
  <2>4. holder'["vacuum"] = holder["vacuum"] /\ holder'["ladder"] = holder["ladder"]
    BY <1>1, <1>4 DEF Sections
  <2>5. TypeInv'
    BY <1>1, <2>1, <2>3 DEF ServerInv, TypeInv, States, Threaded
  <2>6. CapacityInv'
    BY <1>1, <2>1, Account DEF States, WithSlot, Threaded
  <2>7. SectionInv'
    BY <1>1, <2>1, <2>2, <2>4 DEF ServerInv, SectionInv, Asked
  <2>8. QED
    BY <2>5, <2>6, <2>7 DEF ServerInv
<1>5. QED
  BY <1>2, <1>3, <1>4 DEF Enter

LEMMA FinishKeeps ==
    ASSUME ServerInv, NEW c \in Conns, Finish(c)
    PROVE  ServerInv'
<1>1. /\ at \in [Conns -> States] /\ req \in [Conns -> Read \cup {None}] /\ at[c] = "run"
      /\ at' = [at EXCEPT ![c] = "closing"] /\ req' = [req EXCEPT ![c] = None]
      /\ holder' = [s \in Sections |-> IF s \in In(c) THEN None ELSE holder[s]]
      /\ UNCHANGED <<age, free, login, closing>>
  BY DEF Finish, Answer, Move, ServerInv, TypeInv
<1>2. /\ holder' \in [Sections -> Conns \cup Others \cup {None}]
      /\ In(c)' = {} /\ \A d \in Conns \ {c} : In(d)' = In(d)
      /\ holder'["vacuum"] = None \/ holder'["ladder"] = None
  BY <1>1, SectionLeft
<1>3. TypeInv'
  BY <1>1, <1>2 DEF ServerInv, TypeInv, States, Threaded
<1>4. CapacityInv'
  BY <1>1, Account DEF States, WithSlot, Threaded
<1>5. SectionInv'
  BY <1>1, <1>2 DEF ServerInv, SectionInv, Asked
<1>6. QED
  BY <1>3, <1>4, <1>5 DEF ServerInv

LEMMA OthersKeep ==
    ASSUME ServerInv, NEW o \in Others, OtherEnters(o) \/ OtherLeaves(o)
    PROVE  ServerInv'
<1>1. /\ holder \in [Sections -> Conns \cup Others \cup {None}] /\ login \in {"none", "pending", "full"}
      /\ UNCHANGED <<at, age, req, free, login, closing>> /\ o \notin Conns
  BY DEF OtherEnters, OtherLeaves, ServerInv, TypeInv
<1>2. CASE OtherEnters(o)
  <2>1. Wants[o] \in Sections
    <3>1. o \in {"thread", "baseline", "loop", "janitor"}
      OBVIOUS
    <3>2. /\ Wants["thread"] = "ladder" /\ Wants["baseline"] = "load"
          /\ Wants["loop"] = "ladder" /\ Wants["janitor"] = "vacuum"
      BY DEF Wants
    <3>3. QED
      BY <3>1, <3>2 DEF Sections
  <2>2. /\ MayEnterSection(Wants[o]) /\ holder' = [holder EXCEPT ![Wants[o]] = o]
        /\ Wants[o] = "ladder" => holder["vacuum"] = None
    BY <1>2 DEF OtherEnters, MustWait
  <2>3. QED
    BY <1>1, <2>1, <2>2, SectionEntered, HoldersChange
<1>3. CASE OtherLeaves(o)
  <2>1. holder' = [s \in Sections |-> IF s \in In(o) THEN None ELSE holder[s]]
    BY <1>3 DEF OtherLeaves, In
  <2>2. /\ holder' \in [Sections -> Conns \cup Others \cup {None}]
        /\ \A c \in Conns : In(c)' = In(c)
        /\ holder'["vacuum"] = None \/ holder'["ladder"] = None
    BY <1>1, <2>1, SectionLeft
  <2>3. SectionInv'
    BY <1>1, <2>2 DEF ServerInv, SectionInv, Asked
  <2>4. QED
    BY <1>1, <2>2, <2>3, HoldersChange
<1>4. QED
  BY <1>2, <1>3

-----------------------------------------------------------------------------
(* The clock, the session and the end of the server.                       *)

LEMMA TickKeeps == ServerInv /\ ServerTick => ServerInv'
<1> SUFFICES ASSUME ServerInv, ServerTick PROVE ServerInv'
  OBVIOUS
<1>1. UNCHANGED <<at, req, free, login, holder, closing>>
  BY DEF ServerTick
<1>2. age' \in [Conns -> 0..Deadline]
  BY DEF ServerTick, ServerInv, TypeInv
<1>3. TypeInv' /\ CapacityInv'
  BY <1>1, <1>2 DEF ServerInv, TypeInv, CapacityInv, HasSlot, HasThread
<1>4. SectionInv'
  BY <1>1 DEF ServerInv, SectionInv, In, Asked
<1>5. QED
  BY <1>3, <1>4 DEF ServerInv

LEMMA ServerCloseKeeps == ServerInv /\ ServerClose => ServerInv'
<1> SUFFICES ASSUME ServerInv, ServerClose PROVE ServerInv'
  OBVIOUS
<1>1. /\ at \in [Conns -> States] /\ UNCHANGED <<age, req, free, login, holder>> /\ closing' = TRUE
      /\ at' = [c \in Conns |-> IF at[c] = "queued" THEN "cancelled" ELSE at[c]]
  BY DEF ServerClose, ServerInv, TypeInv
<1>2. HasSlot' = HasSlot /\ HasThread' = HasThread
  BY <1>1 DEF HasSlot, HasThread, Threaded
<1>3. TypeInv' /\ CapacityInv'
  BY <1>1, <1>2 DEF ServerInv, TypeInv, CapacityInv, States
<1>4. \A c \in Conns : at'[c] = "run" <=> at[c] = "run"
  BY <1>1
<1>5. SectionInv'
  BY <1>1, <1>4 DEF ServerInv, SectionInv, In, Asked
<1>6. QED
  BY <1>3, <1>5 DEF ServerInv

LEMMA SessionEndsKeeps == ServerInv /\ SessionEnds => ServerInv'
<1> SUFFICES ASSUME ServerInv, SessionEnds PROVE ServerInv'
  OBVIOUS
<1>1. login' = "none" /\ UNCHANGED <<at, age, req, free, holder, closing>>
  BY DEF SessionEnds
<1>2. SectionInv' /\ holder' \in [Sections -> Conns \cup Others \cup {None}]
  BY <1>1 DEF ServerInv, TypeInv, SectionInv, In, Asked
<1>3. QED
  BY <1>1, <1>2, HoldersChange

LEMMA StutterKeeps == ServerInv /\ UNCHANGED serverVars => ServerInv'
<1> SUFFICES ASSUME ServerInv, UNCHANGED serverVars PROVE ServerInv'
  OBVIOUS
<1>1. SectionInv' /\ holder' = holder /\ login' = login
  BY DEF serverVars, ServerInv, SectionInv, In, Asked
<1>2. QED
  BY <1>1, HoldersChange DEF serverVars, ServerInv, TypeInv

-----------------------------------------------------------------------------
(* The theorems.                                                           *)

LEMMA NextHolds == ServerInv /\ [ServerNext]_serverVars => ServerInv'
<1> SUFFICES ASSUME ServerInv, [ServerNext]_serverVars PROVE ServerInv'
  OBVIOUS
<1>1. ASSUME NEW c \in Conns,
             Accept(c) \/ AcceptRejected(c) \/ Handshaken(c) \/ HeadersRead(c) \/ Handle(c)
      PROVE  ServerInv'
  BY <1>1, ConnectionKeeps, GuardKeeps, ServeKeeps, EnterKeeps, FinishKeeps, StutterKeeps
     DEF AcceptRejected, Handle
<1>2. ASSUME NEW o \in Others, OtherEnters(o) \/ OtherLeaves(o)
      PROVE  ServerInv'
  BY <1>2, OthersKeep
<1>3. QED
  BY <1>1, <1>2, TickKeeps, ServerCloseKeeps, SessionEndsKeeps, StutterKeeps DEF ServerNext

\* The inductive invariant: types, the account of slots and threads, and the
\* owners of the sections.
THEOREM ServerInvariance == ServerSpec => []ServerInv
  BY InitHolds, NextHolds, PTL DEF ServerSpec

\* No path through a connection's life loses a slot or gives one back twice,
\* every section is held by the one request inside it or by a thread of the
\* server, and VACUUM and the ladder exclude each other.
THEOREM CapacityAlwaysExact == ServerSpec => []CapacityExact
<1>1. ServerInv => CapacityExact
  <2> SUFFICES ASSUME ServerInv PROVE CapacityExact
    OBVIOUS
  <2>1. Cardinality(HasSlot) \in Nat
    BY FS_Subset, FS_CardinalityType DEF HasSlot
  <2>2. free \in 0..MaxConnections
    BY <2>1 DEF ServerInv, TypeInv, CapacityInv
  <2>3. ServerTypeOK
    BY <2>2 DEF ServerInv, TypeInv, ServerTypeOK, States
  <2>4. QED
    BY <2>3 DEF ServerInv, CapacityInv, SectionInv, CapacityExact
<1>2. QED
  BY <1>1, ServerInvariance, PTL
=============================================================================

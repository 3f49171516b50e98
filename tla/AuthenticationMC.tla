-------------------------- MODULE AuthenticationMC --------------------------
(***************************************************************************)
(* Model-checking instance of Authentication: three threads for two        *)
(* AUTH_VERIFY_SLOTS, two sessions, two secrets, one lockout after one     *)
(* failure.  The routes are used in three mixes, one per behaviour; the    *)
(* long routes are run by two of the threads, which is all a race between  *)
(* two changes of the file takes.                                          *)
(***************************************************************************)
EXTENDS Authentication, TLC

CONSTANT Third      \* the thread that stays idle in the long mixes

ByTwo(S) == [t \in Requests |-> IF t = Third THEN {} ELSE S]

MCMixes == {
    ByTwo({"setup", "login", "second", "activate", "disable"}),     \* enrolment and its end
    ByTwo({"setup", "login", "second", "consoleTotp", "codes"}),    \* by the console; fresh codes
    [t \in Requests |->
        {"setup", "login", "password", "consolePassword"}] }        \* passwords

\* What is never read again is left out: a local value before its thread notes
\* it; of the uses, the seals and what was proved, all that is about a session
\* that is gone or a secret that neither the file nor a thread still has.
AuthView ==
    LET noted == [t \in Requests |->
            IF op[t] \notin Console /\ ~Behind(op[t], at[t], "verify") THEN None ELSE got[t]]
        live  == ({store.totp, store.pending} \cup {noted[t] : t \in Requests}) \ {None}
    IN  <<routes, store, failures, locked, slots, minted, printed, op, at, sid, noted,
          [x \in live |-> used[x]],
          [k \in Sids |-> IF sessions[k] = None THEN None
              ELSE <<sessions[k].verified, {sessions[k].seal} \cap live,
                     proved[k] \cap live>>],
          {x \in accepted : x[1] = "totp" => x[2] \in live},
          tries, onboardings, again, unwiped>>

\* Threads with the same routes and session ids are interchangeable.
AuthSymmetry == Permutations(Requests \ {Third}) \cup Permutations(Sids)
=============================================================================

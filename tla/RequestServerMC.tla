--------------------------- MODULE RequestServerMC ---------------------------
(***************************************************************************)
(* Model-checking instance of RequestServer: three clients for two slots.  *)
(* One asks for routes of every kind, with what it needs or a little less; *)
(* another for a VACUUM and a load test, and the third, outside the LAN,   *)
(* for what it never gets.  The manual diagnosis runs its ladder, and the  *)
(* janitor its VACUUM.                                                     *)
(***************************************************************************)
EXTENDS RequestServer, TLC

CONSTANTS c1, c2, c3

Full == {"session", "csrf"}

Gets == [method : {"GET"}, route : {"backup", "report"}] \X {{"token"}}
    \cup [method : {"GET"}, route : {"backup"}] \X {{"session"}}

Posts == [method : {"POST"}, route : {"logout", "totp"} \cup (Sections \ {"backup"})] \X {Full}
    \cup [method : {"POST"}, route : {"setup"}] \X {{}}
    \cup [method : {"POST"}, route : {"edit"}] \X {{"session"}, Full}
    \cup [method : {"POST"}, route : {"trigger"}] \X {{"bearer"}}

Edits == [method : {"PUT", "DELETE"}, route : {"edit"}] \X {Full}

MCOffers ==
    c1 :> Gets \cup Posts \cup Edits
    @@ c2 :> [method : {"POST"}, route : {"vacuum", "load"}] \X {Full}
    @@ c3 :> {<<[method |-> "GET", route |-> "private"], {"outside"}>>}
=============================================================================

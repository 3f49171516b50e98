-------------------------------- MODULE Ladder --------------------------------
(***************************************************************************)
(* The fault ladder and its verdict (linkmoth_probes.py).                  *)
(*                                                                         *)
(* run_ladder climbs eight rungs, from the host's power to HTTPS, and      *)
(* verdict maps what they saw to the one fault that is named.  The rungs   *)
(* are probed one after another, so the network may change between two of  *)
(* them.  A part of the network is a pair <<layer, target>>; what is       *)
(* broken is a set of parts.                                               *)
(***************************************************************************)
EXTENDS Naturals, FiniteSets, Sequences

CONSTANTS
    Targets,        \* each layer's redundant targets; none when not configured
    Configs,        \* settings and hardware the ladder runs with
    MaxBroken,      \* bound: parts broken when a ladder starts
    MaxTurns        \* bound: changes of the network during a ladder

Rungs == <<"power", "link", "gateway", "router_wlan", "local_dns", "upstream_dns", "raw_ping", "https">>
Groups == {"router_wlan", "upstream_dns", "raw_ping", "https"}

\* "negotiation" is the speed and duplex of the link, "wan" what lies between
\* the router and the internet, "service" a local resolver Linkmoth knows and
\* finds active under systemd.
Layers == Groups \cup {"power", "link", "negotiation", "gateway", "wan", "local_dns", "service"}

\* Groups and power sensors are redundant; every other layer is one thing.
ASSUME LadderAssumption ==
    /\ Targets \in [Layers -> SUBSET Nat] /\ MaxBroken \in Nat /\ MaxTurns \in Nat
    /\ \A l \in Layers \ (Groups \cup {"power"}) : Targets[l] = {1}
    /\ Configs \subseteq [mode : {"auto", "enabled", "disabled"},
                          provider : {"auto", "generic", "named"},
                          sameHost : BOOLEAN, sensors : SUBSET Targets["power"]]

Parts == UNION {{l} \X Targets[l] : l \in Layers}

VARIABLES
    down,           \* the broken parts
    config,
    rung,           \* the next rung
    checks,         \* what each rung reported
    named,          \* the verdict's code, or "none"
    level,          \* confidence_assessment
    turns           \* changes since the ladder started

ladderVars == <<down, config, rung, checks, named, level, turns>>

Broken(l) == {l} \X Targets[l] \subseteq down
Lan == ~Broken("link") /\ ~Broken("gateway")
Wan == Lan /\ ~Broken("wan")
Working(l) == {t \in Targets[l] : <<l, t>> \notin down}

-----------------------------------------------------------------------------
(* The rungs: what each may report of the network as it is.                *)

\* check_power: what no sensor shows is not seen; one bad sensor, of the
\* board or of a supply, is enough.
BadSensors == config.sensors \ Working("power")
PowerResults ==
    IF config.sensors = {} THEN {"skipped"} ELSE IF BadSensors = {} THEN {"passed"} ELSE {"failed"}

\* check_link: carrier and a signal, and the speed and duplex negotiated.
Negotiated == ~Broken("negotiation")
LinkResults ==
    IF Broken("link") THEN {"failed"} ELSE IF Negotiated THEN {"passed"} ELSE {"degraded"}

GatewayResults == IF Lan THEN {"passed"} ELSE {"failed"}

\* probe_group: one answer is enough, and disagreement is kept.
GroupResult(l, answered) ==
    IF answered = {} THEN "failed" ELSE IF answered = Targets[l] THEN "passed" ELSE "partial"

\* check_router_wlan: witnesses are asked only behind a router that answers.
WlanResults ==
    IF Targets["router_wlan"] = {} \/ checks["gateway"] # "passed" THEN {"skipped"}
    ELSE {GroupResult("router_wlan", IF Lan THEN Working("router_wlan") ELSE {})}

\* _active_local_dns_adapters: exactly one of them is active.
KnownService == ~Broken("service")

\* local_dns_runtime_info: the adapter that is configured, or the one found active.
EffectiveProvider(provider) ==
    IF ~config.sameHost THEN "generic"
    ELSE IF provider # "auto" THEN provider
    ELSE IF KnownService THEN "named" ELSE "generic"

LocalDnsResult(provider, answered) ==
    IF config.mode = "disabled" THEN "skipped"
    ELSE IF answered THEN "passed"
    ELSE IF config.mode = "auto" /\ config.sameHost /\ EffectiveProvider(provider) = "generic"
    THEN "skipped" ELSE "failed"

\* dig: a resolver that is up answers, but needs the internet for what it has not cached.
LocalDnsAnswers ==
    IF Broken("local_dns") \/ ~(Lan \/ config.sameHost) THEN {FALSE}
    ELSE IF Wan /\ ~Broken("upstream_dns") THEN {TRUE} ELSE BOOLEAN

LocalDnsResults == {LocalDnsResult(config.provider, a) : a \in LocalDnsAnswers}

\* http_get: a fetch needs its name resolved, which a broken resolver may prevent.
Fetched(up) == IF Broken("local_dns") \/ Broken("upstream_dns") THEN SUBSET up ELSE {up}

\* The direct queries, the pings and the fetches.
BeyondResults(l) ==
    LET up == IF Wan THEN Working(l) ELSE {} IN
    {GroupResult(l, s) : s \in IF l = "https" THEN Fetched(up) ELSE {up}}

Results(r) ==
    CASE r = "power"       -> PowerResults
      [] r = "link"        -> LinkResults
      [] r = "gateway"     -> GatewayResults
      [] r = "router_wlan" -> WlanResults
      [] r = "local_dns"   -> LocalDnsResults
      [] OTHER             -> BeyondResults(r)

-----------------------------------------------------------------------------
(* The verdict.                                                            *)

Failed(r) == checks[r] = "failed"

\* Mutant of Verdicts: the resolver is blamed whatever lies beyond it.
VerdictsBlameResolver == <<
    [when |-> Failed("link"),      code |-> "pi_link"],
    [when |-> Failed("gateway"),   code |-> "router_down"],
    [when |-> \A r \in {"upstream_dns", "raw_ping", "https"} : Failed(r), code |-> "wan_down"],
    [when |-> Failed("upstream_dns") /\ Failed("raw_ping"), code |-> "restricted_connectivity"],
    [when |-> Failed("local_dns"), code |-> "local_dns_broken"],
    [when |-> Failed("upstream_dns"), code |-> "upstream_dns_down"],
    [when |-> Failed("raw_ping"),  code |-> "partial_routing"],
    [when |-> Failed("https"),     code |-> "web_broken"],
    [when |-> Failed("power"),     code |-> "host_power"],
    [when |-> checks["link"] = "degraded", code |-> "link_degraded"],
    [when |-> Failed("router_wlan"), code |-> "router_wlan_down"],
    [when |-> TRUE,                code |-> "all_clear"] >>

\* The branches of verdict, in their order.
Verdicts == <<
    [when |-> Failed("link"),      code |-> "pi_link"],
    [when |-> Failed("gateway"),   code |-> "router_down"],
    [when |-> \A r \in {"upstream_dns", "raw_ping", "https"} : Failed(r), code |-> "wan_down"],
    [when |-> Failed("upstream_dns") /\ Failed("raw_ping"), code |-> "restricted_connectivity"],
    [when |-> Failed("local_dns") /\ ~Failed("upstream_dns"), code |-> "local_dns_broken"],
    [when |-> Failed("upstream_dns"), code |-> "upstream_dns_down"],
    [when |-> Failed("raw_ping"),  code |-> "partial_routing"],
    [when |-> Failed("https"),     code |-> "web_broken"],
    [when |-> Failed("power"),     code |-> "host_power"],
    [when |-> checks["link"] = "degraded", code |-> "link_degraded"],
    [when |-> Failed("router_wlan"), code |-> "router_wlan_down"],
    [when |-> TRUE,                code |-> "all_clear"] >>

\* confidence_assessment.
Confidence ==
    IF Failed("link") THEN "low"
    ELSE IF Failed("power") \/ Failed("router_wlan") \/ \E r \in Groups : checks[r] = "partial"
    THEN "medium" ELSE "high"

\* wifi_wired_differential, its first sentence: it is the Wi-Fi, not the provider.
WifiNote == Failed("router_wlan") /\ checks["gateway"] = "passed" /\ checks["raw_ping"] \in {"passed", "partial"}

-----------------------------------------------------------------------------
(* A ladder.                                                               *)

\* run_ladder, one rung.
Climb ==
    /\ rung <= Len(Rungs) /\ rung' = rung + 1
    /\ \E s \in Results(Rungs[rung]) : checks' = [checks EXCEPT ![Rungs[rung]] = s]
    /\ UNCHANGED <<down, config, named, level, turns>>

\* verdict, of the rungs just climbed.
Judge ==
    /\ rung = Len(Rungs) + 1 /\ named = "none"
    /\ \E i \in DOMAIN Verdicts :
          /\ Verdicts[i].when /\ \A j \in 1..(i - 1) : ~Verdicts[j].when
          /\ named' = Verdicts[i].code
    /\ level' = Confidence
    /\ UNCHANGED <<down, config, rung, checks, turns>>

\* Something breaks or comes back while a ladder is climbed.
NetworkTurns ==
    /\ rung > 1 /\ named = "none" /\ turns < MaxTurns /\ turns' = turns + 1
    /\ \E p \in Parts : down' = IF p \in down THEN down \ {p} ELSE down \cup {p}
    /\ Cardinality(down') <= MaxBroken
    /\ UNCHANGED <<config, rung, checks, named, level>>

\* The next ladder finds the network as it is left to it.
LadderAgain ==
    /\ named # "none" /\ named' = "none" /\ level' = "none" /\ rung' = 1 /\ turns' = 0
    /\ checks' = [r \in {Rungs[i] : i \in DOMAIN Rungs} |-> "none"]
    /\ UNCHANGED <<down, config>>

LadderInit ==
    /\ down \in {s \in SUBSET Parts : Cardinality(s) <= MaxBroken} /\ config \in Configs
    /\ rung = 1 /\ checks = [r \in {Rungs[i] : i \in DOMAIN Rungs} |-> "none"]
    /\ named = "none" /\ level = "none" /\ turns = 0

LadderNext == Climb \/ Judge \/ NetworkTurns \/ LadderAgain

LadderSpec == LadderInit /\ [][LadderNext]_ladderVars

-----------------------------------------------------------------------------
(* Properties.                                                             *)

\* Types.
LadderTypeOK ==
    /\ down \subseteq Parts /\ config \in Configs
    /\ rung \in 1..(Len(Rungs) + 1) /\ turns \in 0..MaxTurns
    /\ \A i \in 1..(rung - 1) :
          checks[Rungs[i]] \in {"passed", "failed", "skipped", "partial", "degraded"}
    /\ named = "none" \/ named \in {Verdicts[i].code : i \in DOMAIN Verdicts}
    /\ level \in {"none", "low", "medium", "high"}

\* What is really broken, lowest first: a layer counts only if nothing it
\* depends on is broken.
AllOut == Broken("wan") \/ \A l \in {"upstream_dns", "raw_ping", "https"} : Broken(l)
Origins ==
    IF Broken("link") THEN {"pi_link"}
    ELSE IF Broken("gateway") THEN {"router_down"}
    ELSE IF AllOut THEN {"wan_down"}
    ELSE (IF Broken("upstream_dns") /\ Broken("raw_ping") THEN {"restricted_connectivity"} ELSE {})
         \cup (IF Broken("upstream_dns") THEN {"upstream_dns_down"} ELSE {})
         \cup (IF Broken("raw_ping") THEN {"partial_routing"} ELSE {})
         \cup (IF Broken("https") THEN {"web_broken"} ELSE {})
         \cup (IF Broken("local_dns") THEN {"local_dns_broken"} ELSE {})

\* A resolver that is dead while its rung says "skipped".
Hidden == Broken("local_dns") /\ checks["local_dns"] = "skipped"

\* Direct DNS and pings are blocked, and a fetch of pages that are served
\* failed only because nothing resolves their names.
Misled == Broken("upstream_dns") /\ Broken("raw_ping") /\ Failed("https")

\* README.md:30-33, of a network that does not change meanwhile: the verdict
\* names where the failure started, never a layer that fails only because
\* another one does; it is all clear with full confidence only when nothing a
\* sensor shows is broken; and the Wi-Fi is not found guilty together with the
\* provider.  Two exceptions: a resolver that is hidden, and a ladder that is
\* misled, which blames the provider for an internet that is up.
NamesTheOrigin ==
    named # "none" /\ turns = 0 /\ ~Hidden =>
        /\ Origins # {} => named \in Origins \/ (Misled /\ named = "wan_down")
        /\ named = "all_clear" /\ level = "high" =>
              down \subseteq {<<"service", 1>>, <<"local_dns", 1>>} \cup
                             {<<"power", s>> : s \in Targets["power"] \ config.sensors}
        /\ WifiNote => named \notin {"wan_down", "partial_routing", "restricted_connectivity"}

\* linkmoth_probes.py:1614, which no run checks: the provider's line is blamed
\* only when nothing beyond the router works.  A ladder that is misled shows
\* that it is not so.
WanDownIsTheWan == named = "wan_down" /\ turns = 0 => AllOut

\* ADVANCED.md:143-144: the selected adapter never changes the rung's result.
AdapterDecidesNothing ==
    rung > 5 /\ turns = 0 =>
        \A p \in {"auto", "generic", "named"} :
            checks["local_dns"] \in {LocalDnsResult(p, a) : a \in LocalDnsAnswers}
=============================================================================

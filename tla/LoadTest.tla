------------------------------- MODULE LoadTest -------------------------------
(***************************************************************************)
(* The bufferbloat test (run_load_test in linkmoth_probes.py): one thread  *)
(* downloads within a byte budget while another pings, and only pings that *)
(* overlap the transfer may be graded.  They share nothing but a counter   *)
(* of bytes and two flags, which each reads at its own moments.            *)
(***************************************************************************)
EXTENDS Naturals

CONSTANTS
    Addresses,      \* how many addresses the test server has
    MaxBytes,       \* load_test_max_mb, in chunks
    MinSamples,     \* samples that make a grade
    MaxSamples      \* _LOADED_MAX_SAMPLES

ASSUME LoadAssumption ==
    /\ Addresses \in Nat \ {0} /\ MaxBytes \in Nat \ {0}
    /\ MinSamples \in Nat \ {0} /\ MaxSamples \in Nat

VARIABLES
    fetch,          \* the downloader: between requests, reading, or over
    address,        \* the address it is trying
    bytes,          \* stats["bytes"]
    chunk,          \* what it asked the socket for
    trouble,        \* stats["error"]: none or some
    deadline,       \* ahead or passed
    probe,          \* the sampler: off, between probes, in one, after one without
                    \* progress, over, or over with the stop event set
    seen,           \* the count of bytes at the previous probe
    active, lost,   \* answered and lost probes that count
    graded,         \* how the test ended
    idle            \* history: probes that count though they began on a line
                    \* that was idle again ("idlePing")

loadVars == <<fetch, address, bytes, chunk, trouble, deadline, probe, seen, active, lost, graded, idle>>
downloader == <<fetch, address, bytes, chunk, trouble>>
sampler == <<probe, seen, active, lost, idle>>

\* resp.read(65536), in chunks.
Buffer == 2

StillGoing == deadline = "ahead" /\ bytes < MaxBytes /\ probe # "stopped"

-----------------------------------------------------------------------------
(* The downloader.                                                         *)

\* run_load_test: the target resolves to public addresses and the idle link
\* answers, or the test ends before it began.
LoadStart ==
    /\ probe = "off" /\ graded = "none"
    /\ \/ fetch' = "request" /\ probe' = "check" /\ UNCHANGED graded
       \/ graded' = "error" /\ UNCHANGED <<fetch, probe>>
    /\ UNCHANGED <<address, bytes, chunk, trouble, deadline, seen, active, lost, idle>>

\* Whatever fails at one address, the next is tried, and the last one's failure ends it.
NextAddress ==
    /\ trouble' = "some" /\ chunk' = 0 /\ UNCHANGED bytes
    /\ \/ address < Addresses /\ address' = address + 1 /\ fetch' = "request"
       \/ address = Addresses /\ fetch' = "done" /\ UNCHANGED address

\* A request: refused with a status, failed, or answered.
Request ==
    /\ fetch = "request"
    /\ \/ address = 1 /\ ~StillGoing /\ fetch' = "done" /\ UNCHANGED <<address, bytes, chunk, trouble>>
       \/ /\ (address > 1 \/ StillGoing)
          /\ \/ fetch' = "reading" /\ UNCHANGED <<address, bytes, chunk, trouble>>
             \/ fetch' = "done" /\ trouble' = "some" /\ UNCHANGED <<address, bytes, chunk>>
             \/ NextAddress
    /\ UNCHANGED <<deadline, graded, sampler>>

\* Mutant of AskChunk: the socket is asked for a full buffer.
AskChunkFull ==
    /\ fetch = "reading" /\ StillGoing /\ chunk' = Buffer
    /\ fetch' = "blocked" /\ UNCHANGED <<address, bytes, trouble, deadline, graded, sampler>>

\* At most what the budget leaves.
AskChunk ==
    /\ fetch = "reading" /\ StillGoing
    /\ chunk' = IF MaxBytes - bytes < Buffer THEN MaxBytes - bytes ELSE Buffer
    /\ fetch' = "blocked" /\ UNCHANGED <<address, bytes, trouble, deadline, graded, sampler>>

\* The read returns data; it blocks until then, past the deadline and the stop event.
ChunkRead ==
    /\ fetch = "blocked" /\ fetch' = "reading"
    /\ \E n \in 1..chunk : bytes' = bytes + n
    /\ chunk' = 0 /\ UNCHANGED <<address, trouble, deadline, graded, sampler>>

\* The response ends, or reading stops: the next request goes to the first
\* address again.  Or the read fails.
ResponseOver ==
    /\ \/ /\ \/ fetch = "blocked"
             \/ fetch = "reading" /\ ~StillGoing
          /\ fetch' = "request" /\ address' = 1 /\ trouble' = "none" /\ chunk' = 0 /\ UNCHANGED bytes
       \/ fetch = "blocked" /\ NextAddress
    /\ UNCHANGED <<deadline, graded, sampler>>

DeadlinePasses ==
    /\ deadline = "ahead" /\ probe # "off" /\ deadline' = "passed"
    /\ UNCHANGED <<graded, downloader, sampler>>

-----------------------------------------------------------------------------
(* The sampler.                                                            *)

Pinging == {"ping", "idlePing"}
Ping == probe' = IF fetch = "done" THEN "idlePing" ELSE "ping"

\* Mutant of ProbeBegin: samples are not limited.
ProbeBeginUncapped ==
    /\ probe = "check"
    /\ IF deadline = "ahead" THEN Ping ELSE probe' = "over"
    /\ UNCHANGED <<downloader, deadline, seen, active, lost, graded, idle>>

\* The loop's condition, and a ping.
ProbeBegin ==
    /\ probe = "check"
    /\ IF deadline = "ahead" /\ active < MaxSamples THEN Ping ELSE probe' = "over"
    /\ UNCHANGED <<downloader, deadline, seen, active, lost, graded, idle>>

\* _measure_loaded_quality: a probe counts if bytes have arrived since the
\* previous one.  (lost is counted up to MaxSamples.)
ProbeEnd ==
    /\ probe \in Pinging /\ seen' = bytes
    /\ \/ /\ bytes > seen /\ probe' = "check"
          /\ \/ active' = active + 1 /\ UNCHANGED lost
             \/ lost' = (IF lost < MaxSamples THEN lost + 1 ELSE lost) /\ UNCHANGED active
          /\ idle' = IF probe = "idlePing" THEN idle + 1 ELSE idle
       \/ bytes = seen /\ probe' = "unmoved" /\ UNCHANGED <<active, lost, idle>>
    /\ UNCHANGED <<downloader, deadline, graded>>

\* Without any, it was the last one if the downloader says that it is done.
AskDone ==
    /\ probe = "unmoved" /\ probe' = IF fetch = "done" THEN "over" ELSE "check"
    /\ UNCHANGED <<downloader, deadline, graded, seen, active, lost, idle>>

\* stop.set(), before the worker is waited for.
StopDownload ==
    /\ probe = "over" /\ probe' = "stopped"
    /\ UNCHANGED <<downloader, deadline, seen, active, lost, graded, idle>>

\* The worker has ended, or has been waited for long enough; a grade needs its
\* samples, and an error says what was missing.
Grade ==
    /\ probe = "stopped" /\ graded = "none"
    /\ graded' = IF active >= MinSamples THEN "graded"
                 ELSE IF trouble = "some" THEN "unreachable"
                 ELSE IF bytes = 0 THEN "neverStarted" ELSE "tooQuick"
    /\ UNCHANGED <<downloader, sampler, deadline>>

LoadInit ==
    /\ fetch = "off" /\ address = 1 /\ bytes = 0 /\ chunk = 0 /\ trouble = "none"
    /\ deadline = "ahead" /\ probe = "off" /\ seen = 0
    /\ active = 0 /\ lost = 0 /\ graded = "none" /\ idle = 0

LoadNext ==
    \/ LoadStart \/ Request \/ AskChunk \/ ChunkRead \/ ResponseOver \/ DeadlinePasses
    \/ ProbeBegin \/ ProbeEnd \/ AskDone \/ StopDownload \/ Grade

LoadSpec == LoadInit /\ [][LoadNext]_loadVars

-----------------------------------------------------------------------------
(* Properties.                                                             *)

\* Types.
LoadTypeOK ==
    /\ fetch \in {"off", "request", "reading", "blocked", "done"} /\ address \in 1..Addresses
    /\ chunk \in 0..Buffer /\ bytes \in Nat /\ seen \in 0..bytes
    /\ probe \in {"off", "check", "unmoved", "over", "stopped"} \cup Pinging /\ active \in 0..MaxSamples /\ lost \in 0..MaxSamples
    /\ trouble \in {"none", "some"} /\ deadline \in {"ahead", "passed"}
    /\ graded \in {"none", "error", "graded", "unreachable", "neverStarted", "tooQuick"}

\* The comments of _load_downloader and _measure_loaded_quality: the budget
\* bounds the whole test and not each response, and a grade is drawn from the
\* loaded link: of all the probes it counts, one at most began after the
\* transfer was over, and each has bytes of its own that arrived.
LoadIsReal ==
    /\ bytes <= MaxBytes
    /\ idle <= 1
    /\ active + lost <= bytes
=============================================================================

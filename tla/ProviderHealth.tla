--------------------------- MODULE ProviderHealth ---------------------------
(***************************************************************************)
(* One provider's health_loop (src/src/core/balancer.rs): how the layers   *)
(* of probes are run, remembered and rolled up into Up and Down.  The loop *)
(* is the only writer of its provider's entry, so one tick is one step.    *)
(*                                                                         *)
(* An observation is what each probe (module Probes) would make of what    *)
(* the uplink does; which probes are run, and which results count, is      *)
(* decided here.  Time is counted in ticks of the loop.                    *)
(***************************************************************************)
EXTENDS Naturals, Probes

CONSTANTS
  SuccessThreshold,      \* health.success_threshold
  FailureThreshold,      \* health.failure_threshold
  DnsThreshold,          \* health.dns_failure_threshold
  CanaryThreshold,       \* canary.failure_threshold
  ThroughputThreshold,   \* canary.throughput.failure_threshold
  CanaryEvery,           \* canary.interval_secs, in ticks
  ThroughputEvery,       \* canary.throughput.interval_secs, in ticks
  MinSpacing,            \* the shorter of 15 s and the above, in ticks
  CanaryTargets,         \* canary.targets, by name
  CanaryQuorum,          \* canary.quorum
  ProbeTargets,          \* health.probe_targets: is it a hostname
  Resolvers,             \* how many health.dns_resolvers there are
  Floor,                 \* canary.throughput.min_kbps
  Weathers               \* how the uplink behaves (an environment)

\* Config::validate.
ASSUME ThresholdsAssumption ==
  /\ SuccessThreshold \in Nat \ {0} /\ FailureThreshold \in Nat \ {0}
  /\ DnsThreshold \in Nat \ {0} /\ CanaryThreshold \in Nat \ {0}
  /\ ThroughputThreshold \in Nat \ {0}
  /\ CanaryEvery \in Nat \ {0} /\ ThroughputEvery \in Nat \ {0}
  /\ MinSpacing \in 1 .. ThroughputEvery
  /\ Resolvers \in Nat \ {0} /\ Floor \in Nat

\* What is left of the targets when the file has been accepted.
ASSUME TargetsAssumption ==
  /\ DOMAIN ProbeTargets # {}
  /\ \A t \in DOMAIN ProbeTargets : ProbeTargets[t] \in BOOLEAN
  /\ DOMAIN CanaryTargets # {} /\ IsFiniteSet(DOMAIN CanaryTargets)
  /\ \A t \in DOMAIN CanaryTargets : CanaryTargets[t].expect \in (100 .. 599) \ (300 .. 399)
  /\ CanaryQuorum \in {"any", "majority", "all"}

WeatherKinds == {"any", "clear", "lossy", "busy", "capped", "intercepted", "moved"}

ASSUME EnvironmentAssumption == Weathers \subseteq WeatherKinds

VARIABLES
  entry,           \* ProviderState
  ready,           \* policy_ready: its routing table exists
  sinceCanary,     \* ticks since last_canary, CanaryEvery when due
  sinceThroughput, \* ticks since last_throughput, ThroughputEvery when due
  weather,         \* what the uplink is doing at present
  lost,            \* history: answers each layer has missed in a row
  lastCanary,      \* outcome of the newest canary round
  held             \* rounds the state has held: see Verdict

vars == <<entry, ready, sinceCanary, sinceThroughput, weather, lost, lastCanary, held>>

Layers == {"Gateway", "Internet", "Dns", "DnsHijack", "ContentTampered",
           "ContentUnreachable", "Throttled"}
NoLayer == "none"

\* Proof of a broken uplink rather than a symptom (FailureLayer).
IsConclusive(layer) == layer \in {"DnsHijack", "ContentTampered"}

ProviderState ==
  [state : {"Unknown", "Up", "Down"},
   successes : 0 .. SuccessThreshold, failures : 0 .. FailureThreshold,
   layer : Layers \cup {NoLayer},
   dnsFailures : 0 .. DnsThreshold,
   canaryFailures : 0 .. CanaryThreshold, canaryOk : BOOLEAN, tampered : BOOLEAN,
   throughputFailures : 0 .. ThroughputThreshold, throughputOk : BOOLEAN]

TypeOK ==
  /\ entry \in ProviderState
  /\ ready \in BOOLEAN
  /\ sinceCanary \in 1 .. CanaryEvery
  /\ sinceThroughput \in 1 .. ThroughputEvery
  /\ weather \in Weathers
  /\ lost \in [reach : 0 .. FailureThreshold, dns : 0 .. DnsThreshold,
               canary : 0 .. CanaryThreshold, transfer : 0 .. ThroughputThreshold]
  /\ lastCanary \in CanaryOutcomes
  /\ held \in 0 .. SuccessThreshold - 1

-----------------------------------------------------------------------------
(***************************************************************************)
(* The uplink.  A wire is what may come back to each probe: replies to the *)
(* echoes of the next hop and of the targets, to questions about a name    *)
(* that is there and one that is not, exchanges with the canary's targets  *)
(* and with the throughput endpoint, with milliseconds per KiB.            *)
(***************************************************************************)
Replies(r) == [1 .. Resolvers -> r]

Good == [ended |-> "closed", status |-> 200, framing |-> "length",
         whole |-> TRUE, fits |-> TRUE, ours |-> TRUE]
Honest(t) == [Good EXCEPT !.status = CanaryTargets[t].expect]
Elsewhere == [Good EXCEPT !.status = 404, !.ours = FALSE]
TimedOut == [Good EXCEPT !.ended = "timeout"]

\* A payment page, a redirect to it, or the status made for portals.  Names may
\* lead to it as well.
Portal == {[Good EXCEPT !.status = s, !.ours = FALSE] : s \in {200, 302, 511}}

ClearWire ==
  [hop |-> {1}, echoes |-> {3}, names |-> Replies({"public"}), dns |-> Replies({"public"}),
   nonsense |-> Replies({"refused"}),
   canary |-> [t \in DOMAIN CanaryTargets |-> {Honest(t)}],
   payload |-> {Good}, pace |-> {10}, crowded |-> {FALSE}, active |-> {TRUE}]

AnyWire ==
  [hop |-> {0, 1}, echoes |-> 0 .. 3, names |-> Replies({"public", "private", "silence"}),
   dns |-> Replies(DnsReply), nonsense |-> Replies(DnsReply),
   canary |-> [t \in DOMAIN CanaryTargets |-> Exchange],
   payload |-> Exchange, pace |-> {0, 10, 128, 1000}, crowded |-> BOOLEAN, active |-> BOOLEAN]

\* Any packet may be lost; none is wrong.
LossyWire ==
  [ClearWire EXCEPT !.hop = {0, 1}, !.echoes = 0 .. 3,
     !.names = Replies({"public", "silence"}), !.dns = Replies({"public", "silence"}),
     !.nonsense = Replies({"refused", "silence"}),
     !.canary = [t \in DOMAIN CanaryTargets |-> {Honest(t), TimedOut}],
     !.payload = {Good, TimedOut}]

BusyWire == [ClearWire EXCEPT !.pace = {10, 1000}, !.crowded = BOOLEAN]

\* 64 kbit/s: what is large arrives slowly or not at all.
CappedWire ==
  [ClearWire EXCEPT !.payload = {Good, TimedOut}, !.pace = {128},
     !.canary = [t \in DOMAIN CanaryTargets |-> {Honest(t), TimedOut}], !.active = BOOLEAN]

InterceptedWire ==
  [ClearWire EXCEPT !.names = Replies(Address), !.nonsense = Replies({"refused", "private"}),
     !.canary = [t \in DOMAIN CanaryTargets |-> Portal],
     !.payload = Portal, !.pace = {10, 1000}, !.active = BOOLEAN]

\* The throughput endpoint alone has gone.
MovedWire ==
  [ClearWire EXCEPT !.payload = {Elsewhere, [Good EXCEPT !.ended = "error"]},
     !.active = BOOLEAN]

-----------------------------------------------------------------------------
(***************************************************************************)
(* What the probes make of a wire, one target or question at a time.       *)
(***************************************************************************)
PayloadKiB == 64

InternetResults(w) ==
  LET answers == [hostname : BOOLEAN, replies : w.names, received : w.echoes]
  IN {CheckInternet({a[t] : t \in DOMAIN a}) :
        a \in {b \in [DOMAIN ProbeTargets -> answers] :
                 \A t \in DOMAIN ProbeTargets : b[t].hostname = ProbeTargets[t]}}

CanaryResults(w) ==
  LET verdicts(t) == {CheckOne(CanaryTargets[t], r, x) : r \in w.names, x \in w.canary[t]}
  IN {CanaryOutcome(v, CanaryQuorum) :
        v \in {u \in [DOMAIN CanaryTargets -> {"Ok", "Tampered", "Unreachable"}] :
                 \A t \in DOMAIN CanaryTargets : u[t] \in verdicts(t)}}

ThroughputResults(w) ==
  {CheckThroughput(ResolveA(r), x, PayloadKiB * 1024, PayloadKiB * ms, Floor) :
     r \in w.names, x \in w.payload, ms \in w.pace}

\* One of each kind the code tells apart: nothing is asked of what lies behind
\* a silent hop, nor of the clients after a fast transfer.
Observed(w) ==
  {o \in [gateway  : {CheckGateway(n) : n \in w.hop},
          internet : InternetResults(w),
          dns      : {CheckDns(r) : r \in w.dns},
          hijacked : {CheckDnsIntegrity(r) = "Hijacked" : r \in w.nonsense},
          canary   : CanaryResults(w),
          transfer : ThroughputResults(w),
          crowded  : w.crowded,   \* clients moved more than the floor meanwhile
          active   : w.active]:   \* this provider is Balancer::active by then
     /\ o.hijacked => o.dns
     /\ o.dns => o.internet
     /\ o.internet => o.gateway
     /\ o.crowded => o.transfer = "TooSlow"}

Anything == Observed(AnyWire)
Clear == Observed(ClearWire)
SomeLost == Observed(LossyWire)
Busy == {o \in Observed(BusyWire) : o.crowded = (o.transfer = "TooSlow")}
Capped == Observed(CappedWire)
Intercepted == Observed(InterceptedWire)
Moved == Observed(MovedWire)

\* No layer misses as many answers in a row as it takes to fail.  The lookup of
\* a target's name is one of reachability's (check_internet_via).
WithinPatience(o) ==
  /\ o.internet \/ lost.reach + 1 < FailureThreshold
  /\ o.internet => o.dns \/ lost.dns + 1 < DnsThreshold
  /\ o.canary = "ok" \/ lost.canary + 1 < CanaryThreshold
  /\ o.transfer = "Ok" \/ lost.transfer + 1 < ThroughputThreshold

Lossy == {o \in SomeLost : WithinPatience(o)}

Possible(w) ==
  CASE w = "any"         -> Anything
    [] w = "clear"       -> Clear
    [] w = "lossy"       -> Lossy
    [] w = "busy"        -> Busy
    [] w = "capped"      -> Capped
    [] w = "intercepted" -> Intercepted
    [] w = "moved"       -> Moved

-----------------------------------------------------------------------------
(***************************************************************************)
(* What a round does to the entry, probe by probe.  The counters saturate  *)
(* at u32::MAX in the code and are compared with their thresholds only.    *)
(***************************************************************************)

\* mutant: the counter does not saturate
CountOn(n, max) == n + 1

CountTo(n, max) == IF n < max THEN n + 1 ELSE max

\* mutant: wrong content has to repeat
RunCanaryPatient(e, outcome) ==
  LET failures == CountTo(e.canaryFailures, CanaryThreshold)
  IN CASE outcome = "ok" ->
            [e EXCEPT !.canaryFailures = 0, !.canaryOk = TRUE, !.tampered = FALSE]
       [] outcome # "ok" ->
            [e EXCEPT !.canaryFailures = failures,
                      !.tampered = outcome = "tampered" /\ failures >= CanaryThreshold,
                      !.canaryOk = @ /\ failures < CanaryThreshold]

\* mutant: a good round leaves the verdict of tampering standing
RunCanarySticky(e, outcome) ==
  LET failures == CountTo(e.canaryFailures, CanaryThreshold)
  IN CASE outcome = "ok" -> [e EXCEPT !.canaryFailures = 0, !.canaryOk = TRUE]
       [] outcome = "tampered" ->
            [e EXCEPT !.canaryFailures = failures, !.canaryOk = FALSE, !.tampered = TRUE]
       [] outcome \in {"unreachable", "partial"} ->
            [e EXCEPT !.canaryFailures = failures, !.tampered = FALSE,
                      !.canaryOk = @ /\ failures < CanaryThreshold]

RunCanary(e, outcome) ==
  LET failures == CountTo(e.canaryFailures, CanaryThreshold)
  IN CASE outcome = "tampered" ->
            [e EXCEPT !.canaryFailures = failures, !.canaryOk = FALSE, !.tampered = TRUE]
       [] outcome = "ok" ->
            [e EXCEPT !.canaryFailures = 0, !.canaryOk = TRUE, !.tampered = FALSE]
       [] outcome \in {"unreachable", "partial"} ->
            [e EXCEPT !.canaryFailures = failures, !.tampered = FALSE,
                      !.canaryOk = @ /\ failures < CanaryThreshold]

\* A DNS probe that was not run counts as one that was answered.
CountDns(e, answered) ==
  [e EXCEPT !.dnsFailures = IF answered THEN 0 ELSE CountTo(@, DnsThreshold)]

\* busy_rather_than_capped
BusyRatherThanCapped(o) == o.active /\ o.transfer = "TooSlow" /\ o.crowded

\* mutant: the operator's own users are held against the link
RunThroughputStrict(e, o) ==
  LET failures == CountTo(e.throughputFailures, ThroughputThreshold)
  IN IF o.transfer = "Ok"
       THEN [e EXCEPT !.throughputFailures = 0, !.throughputOk = TRUE]
       ELSE [e EXCEPT !.throughputFailures = failures,
                      !.throughputOk = @ /\ failures < ThroughputThreshold]

RunThroughput(e, o) ==
  LET failures == CountTo(e.throughputFailures, ThroughputThreshold)
  IN IF o.transfer = "Ok" \/ BusyRatherThanCapped(o)
       THEN [e EXCEPT !.throughputFailures = 0, !.throughputOk = TRUE]
       ELSE [e EXCEPT !.throughputFailures = failures,
                      !.throughputOk = @ /\ failures < ThroughputThreshold]

\* mutant: a failed round leaves the successes counted before it
ApplyProbeResultForgetful(e, failure) ==
  IF failure = NoLayer
    THEN LET successes == CountTo(e.successes, SuccessThreshold)
             rises == e.state # "Up" /\ successes >= SuccessThreshold
         IN [e EXCEPT !.failures = 0, !.successes = successes,
                      !.state = IF rises THEN "Up" ELSE @,
                      !.layer = IF rises THEN NoLayer ELSE @]
    ELSE LET failures == CountTo(e.failures, FailureThreshold)
             falls == IsConclusive(failure) \/ failures >= FailureThreshold
         IN [e EXCEPT !.failures = failures, !.layer = failure,
                      !.state = IF falls THEN "Down" ELSE @]

\* The hysteresis.  The reason for a failure stays until the provider is Up.
ApplyProbeResult(e, failure) ==
  IF failure = NoLayer
    THEN LET successes == CountTo(e.successes, SuccessThreshold)
             rises == e.state # "Up" /\ successes >= SuccessThreshold
         IN [e EXCEPT !.failures = 0, !.successes = successes,
                      !.state = IF rises THEN "Up" ELSE @,
                      !.layer = IF rises THEN NoLayer ELSE @]
    ELSE LET failures == CountTo(e.failures, FailureThreshold)
             falls == IsConclusive(failure) \/ failures >= FailureThreshold
         IN [e EXCEPT !.successes = 0, !.failures = failures, !.layer = failure,
                      !.state = IF falls THEN "Down" ELSE @]

-----------------------------------------------------------------------------
(***************************************************************************)
(* Which probes are run, and the roll-up of their answers: the first layer *)
(* to fail is the cause, and a throttled link outranks a starved canary.   *)
(***************************************************************************)

\* Only a provider with its routing table reaches beyond its next hop.
Internet(o, table) == o.gateway /\ table /\ o.internet
DnsAnswered(o, table) == ~Internet(o, table) \/ o.dns
DnsHijacked(o, table) == Internet(o, table) /\ o.dns /\ o.hijacked

\* e is the entry after the canary and the DNS count of this round.
ReachabilityFailure(e, o, table) ==
  CASE ~o.gateway -> "Gateway"
    [] o.gateway /\ ~Internet(o, table) -> "Internet"
    [] Internet(o, table) /\ ~o.dns /\ e.dnsFailures >= DnsThreshold -> "Dns"
    [] DnsHijacked(o, table) -> "DnsHijack"
    [] OTHER -> IF e.tampered THEN "ContentTampered" ELSE NoLayer

\* mutant: a standby uplink is spared the canary
CanaryDueIfActive(o) == o.gateway /\ o.active /\ sinceCanary >= CanaryEvery

CanaryDue(o) == o.gateway /\ sinceCanary >= CanaryEvery

\* mutant: a link whose canary fails is not measured
ThroughputDueIfCanaryOk(e, failure) ==
  /\ failure = NoLayer
  /\ e.canaryOk
  /\ sinceThroughput >= ThroughputEvery

\* On schedule, or early when the canary failed on a reachable link.
ThroughputDue(e, failure) ==
  /\ failure = NoLayer
  /\ \/ sinceThroughput >= ThroughputEvery
     \/ ~e.canaryOk /\ sinceThroughput >= MinSpacing

CapacityFailure(e, failure) ==
  CASE failure # NoLayer -> failure
    [] failure = NoLayer /\ ~e.throughputOk -> "Throttled"
    [] failure = NoLayer /\ e.throughputOk  -> IF e.canaryOk THEN NoLayer
                                               ELSE "ContentUnreachable"

-----------------------------------------------------------------------------
Init ==
  /\ entry = [state |-> "Unknown", successes |-> 0, failures |-> 0, layer |-> NoLayer,
              dnsFailures |-> 0, canaryFailures |-> 0, canaryOk |-> TRUE,
              tampered |-> FALSE, throughputFailures |-> 0, throughputOk |-> TRUE]
  /\ ready \in BOOLEAN
  /\ sinceCanary = CanaryEvery
  /\ sinceThroughput = ThroughputEvery
  /\ weather \in Weathers
  /\ lost = [reach |-> 0, dns |-> 0, canary |-> 0, transfer |-> 0]
  /\ lastCanary = "ok"
  /\ held = 0

\* The routing table that could not be set up at startup is tried again.
PrepareTable == ready' \in {ready, TRUE}

Streak(n, answered, max) == IF answered THEN 0 ELSE CountTo(n, max)

\* history: what each layer that was asked has missed in a row by now
Missed(o, table, measuring) ==
  [reach |-> Streak(lost.reach, Internet(o, table), FailureThreshold),
   dns |-> Streak(lost.dns, DnsAnswered(o, table), DnsThreshold),
   canary |-> IF CanaryDue(o) THEN Streak(lost.canary, o.canary = "ok", CanaryThreshold)
              ELSE lost.canary,
   transfer |-> IF measuring
                THEN Streak(lost.transfer, o.transfer = "Ok" \/ BusyRatherThanCapped(o),
                            ThroughputThreshold)
                ELSE lost.transfer]

\* One tick of health_loop.
Round(o) ==
  LET canaried  == IF CanaryDue(o) THEN RunCanary(entry, o.canary) ELSE entry
      counted   == CountDns(canaried, DnsAnswered(o, ready'))
      reached   == ReachabilityFailure(counted, o, ready')
      measuring == ThroughputDue(counted, reached)
      measured  == IF measuring THEN RunThroughput(counted, o) ELSE counted
  IN /\ o \in Possible(weather)
     /\ PrepareTable
     /\ entry' = ApplyProbeResult(measured, CapacityFailure(measured, reached))
     /\ sinceCanary' = IF CanaryDue(o) THEN 1 ELSE CountTo(sinceCanary, CanaryEvery)
     /\ sinceThroughput' = IF measuring THEN 1 ELSE CountTo(sinceThroughput, ThroughputEvery)
     /\ lost' = Missed(o, ready', measuring)
     /\ lastCanary' = IF CanaryDue(o) THEN o.canary ELSE lastCanary
     /\ held' = IF entry'.state # entry.state THEN 0
                ELSE CountTo(held, SuccessThreshold - 1)
     /\ UNCHANGED weather

\* An uplink of which anything could be said settles into one behaviour.
Settle(w) ==
  /\ weather = "any" /\ w \in Weathers
  /\ weather' = w
  /\ UNCHANGED <<entry, ready, sinceCanary, sinceThroughput, lost, lastCanary, held>>

Next ==
  \/ \E o \in Anything : Round(o)
  \/ \E w \in WeatherKinds \ {"any"} : Settle(w)

Spec == Init /\ [][Next]_vars

\* The loop's ticker never stops; an absent interface appears in the end.
Fairness == WF_vars(\E o \in Anything : Round(o) /\ ready')

FairSpec == Spec /\ Fairness

-----------------------------------------------------------------------------
(***************************************************************************)
(* Properties.                                                             *)
(***************************************************************************)

\* What the daemon assumes of a verdict (module Verdict).
Abstract == INSTANCE Verdict WITH verdict <- entry.state
VerdictSpec == Abstract!Spec

\* A provider never comes up on the strength of its reachability while the
\* newest canary round proved its content tampered with, even if its next hop
\* went away, so that no canary ran, in between.
NeverUpOnTamperedContent ==
  [][entry'.state = "Up" /\ entry.state # "Up" => lastCanary' # "tampered"]_vars

\* Up, and nothing counts against it but answers reachability has missed.
Unsuspected ==
  /\ entry.state = "Up" /\ entry.canaryOk /\ entry.throughputOk
  /\ entry.failures <= lost.reach

\* Two nuisances never take down a provider that nothing else stands against,
\* nor bring anything up against it: answers that are lost, however they fall and
\* whichever layers they hit, as long as no layer misses as many in a row as its
\* own threshold; and, while it is the active one, the operator's own users,
\* however slow their traffic makes its measurements.  A lost lookup is not
\* always DNS's to bear: the name of a probe target is looked up by the
\* reachability layer (net/health.rs:313), so it has failure_threshold's
\* patience, also where that is the lower one, although "one lost lookup is a
\* retry" (README.md:329).
NoFalseAlarm ==
  [][ready /\ weather \in {"lossy", "busy"} /\ Unsuspected => Unsuspected']_vars

\* Whatever was held against a provider, it comes back once its uplink works:
\* no counter, no verdict and no probe that is not run any more stands in
\* the way.
Recovers == weather = "clear" ~> [](entry.state = "Up")

\* A capped link ends up down and named as throttled, also where the cap
\* starves the canary.
ThrottlingIsNamed ==
  weather = "capped" ~> [](entry.state = "Down" /\ entry.layer = "Throttled")

\* An intercepted link ends up down, for as long as it is intercepted.
InterceptionIsCaught == weather = "intercepted" ~> [](entry.state = "Down")

\* "A broken endpoint is never reported to the operator as 'your provider is
\* throttled'" (net/canary.rs:723): a link of which nothing is wrong but that
\* the throughput endpoint cannot be fetched is not called throttled.
BrokenEndpointIsNotThrottling == weather = "moved" => entry.layer # "Throttled"
=============================================================================

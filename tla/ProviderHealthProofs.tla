------------------------ MODULE ProviderHealthProofs ------------------------
(***************************************************************************)
(* One provider's verdict, for any thresholds, any canary and any network: *)
(* what the daemon may assume of it (module Verdict), that it never rises  *)
(* on tampered content, and that the two nuisances a working uplink is     *)
(* known for never take it down.                                           *)
(***************************************************************************)
EXTENDS ProviderHealth, FiniteSetTheorems, WellFoundedInduction, TLAPS

-----------------------------------------------------------------------------
(***************************************************************************)
(* What the probes of one round may say.                                   *)
(***************************************************************************)

\* Of an observation the types matter to the entry, not the wire it came from.
LEMMA ObservationTypes ==
    ASSUME NEW w, NEW o \in Observed(w)
    PROVE  o.canary \in CanaryOutcomes
<1>1. o.canary \in CanaryResults(w)
    BY DEF Observed
<1>2. ASSUME NEW v PROVE CanaryOutcome(v, CanaryQuorum) \in CanaryOutcomes
    <2>1. CASE ConclusiveTamper(v, CanaryQuorum)
        BY <2>1 DEF CanaryOutcome, CanaryOutcomes
    <2>2. CASE ~ConclusiveTamper(v, CanaryQuorum) /\ CanaryIsOk(v, CanaryQuorum)
        BY <2>2 DEF CanaryOutcome, CanaryOutcomes
    <2>3. CASE ~ConclusiveTamper(v, CanaryQuorum) /\ ~CanaryIsOk(v, CanaryQuorum)
        BY <2>3 DEF CanaryOutcome, CanaryOutcomes
    <2>4. QED
        BY <2>1, <2>2, <2>3
<1>3. QED
    BY <1>1, <1>2 DEF CanaryResults

-----------------------------------------------------------------------------
(***************************************************************************)
(* What each probe does to the entry.                                      *)
(***************************************************************************)
LEMMA CountsTo ==
    ASSUME NEW max \in Nat, NEW n \in 0 .. max
    PROVE  /\ CountTo(n, max) \in 0 .. max
           /\ n < max => CountTo(n, max) = n + 1
           /\ n >= max => CountTo(n, max) = max
BY DEF CountTo

\* run_canary: the newest round alone decides whether the content is held to be
\* tampered with, and then it is not held to be good as well.
LEMMA CanaryOfRound ==
    ASSUME NEW e \in ProviderState, NEW outcome \in CanaryOutcomes
    PROVE  LET r == RunCanary(e, outcome)
           IN  /\ r \in ProviderState
               /\ r.state = e.state /\ r.successes = e.successes
               /\ r.dnsFailures = e.dnsFailures /\ r.throughputOk = e.throughputOk
               /\ (r.tampered = TRUE) <=> outcome = "tampered"
               /\ ~(r.canaryOk = TRUE /\ r.tampered = TRUE)
               /\ r.failures = e.failures /\ r.throughputFailures = e.throughputFailures
<1> DEFINE failures == CountTo(e.canaryFailures, CanaryThreshold)
           lasting == e.canaryOk /\ failures < CanaryThreshold
<1>1. /\ failures \in 0 .. CanaryThreshold /\ lasting \in BOOLEAN
    BY ThresholdsAssumption, CountsTo DEF ProviderState
<1>3. CASE outcome = "tampered"
    <2>1. RunCanary(e, outcome) =
            [e EXCEPT !.canaryFailures = failures, !.canaryOk = FALSE, !.tampered = TRUE]
        BY <1>3 DEF RunCanary
    <2> HIDE DEF failures
    <2>2. QED
        BY <1>1, <1>3, <2>1 DEF ProviderState
<1>4. CASE outcome = "ok"
    <2>1. RunCanary(e, outcome) =
            [e EXCEPT !.canaryFailures = 0, !.canaryOk = TRUE, !.tampered = FALSE]
        BY <1>4 DEF RunCanary
    <2>2. 0 \in 0 .. CanaryThreshold
        BY ThresholdsAssumption
    <2>3. QED
        BY <1>4, <2>1, <2>2 DEF ProviderState
<1>5. CASE outcome \in {"unreachable", "partial"}
    <2>1. RunCanary(e, outcome) =
            [e EXCEPT !.canaryFailures = failures, !.tampered = FALSE, !.canaryOk = lasting]
        BY <1>5 DEF RunCanary
    <2> HIDE DEF failures, lasting
    <2>2. QED
        BY <1>1, <1>5, <2>1 DEF ProviderState
<1>6. QED
    BY <1>3, <1>4, <1>5 DEF CanaryOutcomes

\* run_canary counts the rounds that failed, and drops canaryOk at the threshold.
LEMMA CanaryCounts ==
    ASSUME NEW e \in ProviderState, NEW outcome \in CanaryOutcomes, NEW r,
           r = RunCanary(e, outcome)
    PROVE  /\ r.canaryFailures = Streak(e.canaryFailures, outcome = "ok", CanaryThreshold)
           /\ outcome = "ok" => r.canaryOk = TRUE
           /\ /\ outcome = "unreachable" /\ e.canaryOk = TRUE
              /\ e.canaryFailures + 1 < CanaryThreshold
              => r.canaryOk = TRUE
<1> DEFINE failures == CountTo(e.canaryFailures, CanaryThreshold)
           lasting == e.canaryOk /\ failures < CanaryThreshold
<1>1. e.canaryOk = TRUE /\ e.canaryFailures + 1 < CanaryThreshold => lasting = TRUE
    <2>1. e.canaryFailures \in 0 .. CanaryThreshold /\ CanaryThreshold \in Nat
        BY ThresholdsAssumption DEF ProviderState
    <2>2. QED
        BY <2>1 DEF CountTo
<1>2. Streak(e.canaryFailures, outcome = "ok", CanaryThreshold)
        = IF outcome = "ok" THEN 0 ELSE failures
    BY DEF Streak
<1>3. CASE outcome = "tampered"
    <2>1. r = [e EXCEPT !.canaryFailures = failures, !.canaryOk = FALSE, !.tampered = TRUE]
        BY <1>3 DEF RunCanary
    <2> HIDE DEF failures
    <2>2. QED
        BY <1>2, <1>3, <2>1 DEF ProviderState
<1>4. CASE outcome = "ok"
    <2>1. r = [e EXCEPT !.canaryFailures = 0, !.canaryOk = TRUE, !.tampered = FALSE]
        BY <1>4 DEF RunCanary
    <2>2. QED
        BY <1>2, <1>4, <2>1 DEF ProviderState
<1>5. CASE outcome \in {"unreachable", "partial"}
    <2>1. r = [e EXCEPT !.canaryFailures = failures, !.tampered = FALSE, !.canaryOk = lasting]
        BY <1>5 DEF RunCanary
    <2> HIDE DEF failures, lasting
    <2>2. QED
        BY <1>1, <1>2, <1>5, <2>1 DEF ProviderState
<1>6. QED
    BY <1>3, <1>4, <1>5 DEF CanaryOutcomes

LEMMA DnsOfRound ==
    ASSUME NEW e \in ProviderState, NEW answered \in BOOLEAN
    PROVE  LET r == CountDns(e, answered)
           IN  /\ r \in ProviderState
               /\ r.state = e.state /\ r.successes = e.successes
               /\ r.tampered = e.tampered /\ r.canaryOk = e.canaryOk
               /\ r.throughputOk = e.throughputOk /\ r.failures = e.failures
               /\ r.canaryFailures = e.canaryFailures
               /\ r.throughputFailures = e.throughputFailures
               /\ r.dnsFailures
                    = IF answered THEN 0 ELSE CountTo(e.dnsFailures, DnsThreshold)
<1> DEFINE count == IF answered THEN 0 ELSE CountTo(e.dnsFailures, DnsThreshold)
<1>1. count \in 0 .. DnsThreshold
    BY ThresholdsAssumption, CountsTo DEF ProviderState
<1>2. CountDns(e, answered) = [e EXCEPT !.dnsFailures = count]
    BY DEF CountDns
<1> HIDE DEF count
<1>3. QED
    BY <1>1, <1>2 DEF ProviderState, count

LEMMA ThroughputOfRound ==
    ASSUME NEW e \in ProviderState, NEW o
    PROVE  LET r == RunThroughput(e, o)
           IN  /\ r \in ProviderState
               /\ r.state = e.state /\ r.successes = e.successes
               /\ r.tampered = e.tampered /\ r.canaryOk = e.canaryOk
               /\ r.dnsFailures = e.dnsFailures
               /\ r.failures = e.failures /\ r.canaryFailures = e.canaryFailures
               /\ r.throughputFailures
                    = IF o.transfer = "Ok" \/ BusyRatherThanCapped(o) THEN 0
                      ELSE CountTo(e.throughputFailures, ThroughputThreshold)
               /\ o.transfer = "Ok" \/ BusyRatherThanCapped(o) => r.throughputOk = TRUE
               /\ e.throughputOk = TRUE /\ e.throughputFailures + 1 < ThroughputThreshold
                  => r.throughputOk = TRUE
<1> DEFINE failures == CountTo(e.throughputFailures, ThroughputThreshold)
           lasting == e.throughputOk /\ failures < ThroughputThreshold
<1>1. /\ failures \in 0 .. ThroughputThreshold /\ lasting \in BOOLEAN
      /\ e.throughputFailures + 1 < ThroughputThreshold /\ e.throughputOk = TRUE
         => lasting = TRUE
    BY ThresholdsAssumption, CountsTo DEF ProviderState
<1>2. CASE o.transfer = "Ok" \/ BusyRatherThanCapped(o)
    <2>1. RunThroughput(e, o) = [e EXCEPT !.throughputFailures = 0, !.throughputOk = TRUE]
        BY <1>2 DEF RunThroughput
    <2>2. 0 \in 0 .. ThroughputThreshold
        BY ThresholdsAssumption
    <2>3. QED
        BY <1>2, <2>1, <2>2 DEF ProviderState
<1>3. CASE ~(o.transfer = "Ok" \/ BusyRatherThanCapped(o))
    <2>1. RunThroughput(e, o) =
            [e EXCEPT !.throughputFailures = failures, !.throughputOk = lasting]
        BY <1>3 DEF RunThroughput
    <2>2. failures = CountTo(e.throughputFailures, ThroughputThreshold)
        OBVIOUS
    <2> HIDE DEF failures, lasting
    <2>3. QED
        BY <1>1, <1>3, <2>1, <2>2 DEF ProviderState
<1>4. QED
    BY <1>2, <1>3

\* apply_probe_result: a provider rises on a good round only, and only with the
\* successes it takes; one that fell starts from none.
LEMMA VerdictOfRound ==
    ASSUME NEW e \in ProviderState, NEW failure \in Layers \cup {NoLayer}
    PROVE  LET r == ApplyProbeResult(e, failure)
           IN  /\ r \in ProviderState
               /\ r.tampered = e.tampered /\ r.canaryOk = e.canaryOk
               /\ r.dnsFailures = e.dnsFailures
               /\ r.state \in {e.state, "Up", "Down"}
               /\ r.state = "Up" /\ e.state # "Up"
                    => failure = NoLayer /\ e.successes >= SuccessThreshold - 1
               /\ r.state # "Up"
                    => \/ r.successes = 0
                       \/ /\ r.state = e.state
                          /\ r.successes = e.successes + 1 /\ r.successes < SuccessThreshold
               /\ e.state = "Up" /\ failure = NoLayer => r.state = "Up"
               /\ /\ e.state = "Up" /\ failure \in {"Gateway", "Internet"}
                  /\ e.failures + 1 < FailureThreshold
                  => r.state = "Up"
               /\ r.throughputOk = e.throughputOk
               /\ r.canaryFailures = e.canaryFailures
               /\ r.throughputFailures = e.throughputFailures
               /\ r.failures = IF failure = NoLayer THEN 0
                               ELSE CountTo(e.failures, FailureThreshold)
<1>1. CASE failure = NoLayer
    <2> DEFINE successes == CountTo(e.successes, SuccessThreshold)
               rises == e.state # "Up" /\ successes >= SuccessThreshold
               state == IF rises THEN "Up" ELSE e.state
               layer == IF rises THEN NoLayer ELSE e.layer
    <2>1. ApplyProbeResult(e, failure) =
            [e EXCEPT !.failures = 0, !.successes = successes, !.state = state, !.layer = layer]
        BY <1>1 DEF ApplyProbeResult
    <2>0. NoLayer \notin {"Gateway", "Internet"}
        BY DEF NoLayer
    <2>2. /\ e.successes \in 0 .. SuccessThreshold /\ SuccessThreshold \in Nat \ {0}
          /\ 0 \in 0 .. FailureThreshold
        BY ThresholdsAssumption DEF ProviderState
    <2>3. /\ successes \in 0 .. SuccessThreshold
          /\ successes >= SuccessThreshold => e.successes >= SuccessThreshold - 1
          /\ successes < SuccessThreshold => successes = e.successes + 1
        BY <2>2 DEF CountTo
    <2>4. /\ e.state \in {"Unknown", "Up", "Down"} /\ state \in {"Unknown", "Up", "Down"}
          /\ e.layer \in Layers \cup {NoLayer} /\ layer \in Layers \cup {NoLayer}
        BY DEF ProviderState
    <2>5. /\ state \in {e.state, "Up"}
          /\ state = "Up" /\ e.state # "Up" => successes >= SuccessThreshold
          /\ state # "Up" => state = e.state /\ ~(successes >= SuccessThreshold)
          /\ e.state = "Up" => state = "Up"
        OBVIOUS
    <2> HIDE DEF successes, rises, state, layer
    <2>6. ApplyProbeResult(e, failure) \in ProviderState
        BY <2>1, <2>2, <2>3, <2>4 DEF ProviderState
    <2>7. LET r == ApplyProbeResult(e, failure)
          IN  /\ r.tampered = e.tampered /\ r.canaryOk = e.canaryOk
              /\ r.dnsFailures = e.dnsFailures /\ r.throughputOk = e.throughputOk
              /\ r.canaryFailures = e.canaryFailures
              /\ r.throughputFailures = e.throughputFailures /\ r.failures = 0
              /\ r.state = state /\ r.successes = successes
        BY <2>1 DEF ProviderState
    <2>8. QED
        BY <1>1, <2>0, <2>2, <2>3, <2>5, <2>6, <2>7
<1>2. CASE failure # NoLayer
    <2> DEFINE failures == CountTo(e.failures, FailureThreshold)
               falls == IsConclusive(failure) \/ failures >= FailureThreshold
               state == IF falls THEN "Down" ELSE e.state
    <2>1. ApplyProbeResult(e, failure) =
            [e EXCEPT !.successes = 0, !.failures = failures, !.layer = failure, !.state = state]
        BY <1>2 DEF ApplyProbeResult
    <2>2. failures \in 0 .. FailureThreshold /\ 0 \in 0 .. SuccessThreshold
        BY ThresholdsAssumption, CountsTo DEF ProviderState
    <2>3. state \in {e.state, "Down"} /\ state \in {"Unknown", "Up", "Down"}
        BY DEF ProviderState
    <2>7. failure \in {"Gateway", "Internet"} /\ e.failures + 1 < FailureThreshold
          => state = e.state
        <3>1. e.failures \in 0 .. FailureThreshold /\ FailureThreshold \in Nat
            BY ThresholdsAssumption DEF ProviderState
        <3>2. e.failures + 1 < FailureThreshold => ~(failures >= FailureThreshold)
            BY <3>1 DEF CountTo
        <3>3. QED
            BY <3>2 DEF IsConclusive
    <2>8. CountTo(e.failures, FailureThreshold) = failures
        OBVIOUS
    <2> HIDE DEF failures, falls, state
    <2>4. ApplyProbeResult(e, failure) \in ProviderState
        BY <2>1, <2>2, <2>3 DEF ProviderState
    <2>5. LET r == ApplyProbeResult(e, failure)
          IN  /\ r.tampered = e.tampered /\ r.canaryOk = e.canaryOk
              /\ r.dnsFailures = e.dnsFailures /\ r.throughputOk = e.throughputOk
              /\ r.canaryFailures = e.canaryFailures
              /\ r.throughputFailures = e.throughputFailures /\ r.failures = failures
              /\ r.state = state /\ r.successes = 0
        BY <2>1 DEF ProviderState
    <2>6. QED
        BY <1>2, <2>3, <2>4, <2>5, <2>7, <2>8
<1>3. QED
    BY <1>1, <1>2

-----------------------------------------------------------------------------
(***************************************************************************)
(* One round: the stages it takes the entry through, and the invariant.    *)
(***************************************************************************)
Canaried(o) == IF CanaryDue(o) THEN RunCanary(entry, o.canary) ELSE entry
CountedDns(o, table) == CountDns(Canaried(o), DnsAnswered(o, table))
Reached(o, table) == ReachabilityFailure(CountedDns(o, table), o, table)
Measured(o, table) ==
    IF ThroughputDue(CountedDns(o, table), Reached(o, table))
      THEN RunThroughput(CountedDns(o, table), o) ELSE CountedDns(o, table)
Measuring(o, table) == ThroughputDue(CountedDns(o, table), Reached(o, table))
Failure(o, table) == CapacityFailure(Measured(o, table), Reached(o, table))

\* The successes of a provider that is not up were all counted while it was
\* what it is.
Climbing == entry.state # "Up" => entry.successes <= held

\* The entry remembers what the newest canary round proved, and does not hold
\* the same content to be good.
Proven == (entry.tampered = TRUE) <=> lastCanary = "tampered"
Consistent == ~(entry.canaryOk = TRUE /\ entry.tampered = TRUE)

\* What is counted against the provider is what was missed.
LossCounted ==
    /\ entry.dnsFailures = lost.dns /\ entry.canaryFailures = lost.canary
    /\ entry.throughputFailures = lost.transfer

HealthInv == TypeOK /\ Climbing /\ Proven /\ Consistent /\ LossCounted

LEMMA RoundIsStages ==
    ASSUME NEW o, Round(o)
    PROVE  /\ entry' = ApplyProbeResult(Measured(o, ready'), Failure(o, ready'))
           /\ ready' \in {ready, TRUE}
           /\ weather' = weather
           /\ lost' = Missed(o, ready', Measuring(o, ready'))
           /\ lastCanary' = IF CanaryDue(o) THEN o.canary ELSE lastCanary
           /\ held' = IF entry'.state # entry.state THEN 0 ELSE CountTo(held, SuccessThreshold - 1)
           /\ sinceCanary' = IF CanaryDue(o) THEN 1 ELSE CountTo(sinceCanary, CanaryEvery)
           /\ sinceThroughput' \in {1, CountTo(sinceThroughput, ThroughputEvery)}
BY DEF Round, PrepareTable, Canaried, CountedDns, Reached, Measured, Measuring, Failure

\* Only a round that finds nothing wrong has no cause to name, and tampered
\* content is something wrong.
LEMMA CauseOfRound ==
    ASSUME NEW e, NEW o, NEW table
    PROVE  /\ ReachabilityFailure(e, o, table) \in Layers \cup {NoLayer}
           /\ ReachabilityFailure(e, o, table) = NoLayer => ~(e.tampered = TRUE)
           /\ /\ o.gateway /\ Internet(o, table) /\ ~DnsHijacked(o, table)
              /\ o.dns \/ ~(e.dnsFailures >= DnsThreshold)
              /\ e.tampered = FALSE
              => ReachabilityFailure(e, o, table) = NoLayer
           /\ ~Internet(o, table) => ReachabilityFailure(e, o, table) \in {"Gateway", "Internet"}
<1> USE DEF Layers, NoLayer
<1>1. CASE ~o.gateway
    <2>1. ReachabilityFailure(e, o, table) = "Gateway"
        BY <1>1 DEF ReachabilityFailure, Internet, DnsHijacked
    <2>2. QED
        BY <1>1, <2>1
<1>2. CASE o.gateway /\ ~Internet(o, table)
    <2>1. ReachabilityFailure(e, o, table) = "Internet"
        BY <1>2 DEF ReachabilityFailure, DnsHijacked
    <2>2. QED
        BY <1>2, <2>1
<1>3. CASE Internet(o, table) /\ ~o.dns /\ e.dnsFailures >= DnsThreshold
    BY <1>3 DEF ReachabilityFailure, Internet
<1>4. CASE DnsHijacked(o, table)
    BY <1>4 DEF ReachabilityFailure, DnsHijacked, Internet
<1>5. CASE /\ o.gateway /\ Internet(o, table) /\ ~DnsHijacked(o, table)
           /\ ~(~o.dns /\ e.dnsFailures >= DnsThreshold)
    <2>1. ReachabilityFailure(e, o, table)
             = IF e.tampered THEN "ContentTampered" ELSE NoLayer
        BY <1>5 DEF ReachabilityFailure
    <2>2. QED
        BY <1>5, <2>1
<1>6. QED
    BY <1>1, <1>2, <1>3, <1>4, <1>5

LEMMA CapacityOfRound ==
    ASSUME NEW e \in ProviderState, NEW failure \in Layers \cup {NoLayer}
    PROVE  /\ CapacityFailure(e, failure) \in Layers \cup {NoLayer}
           /\ CapacityFailure(e, failure) = NoLayer => failure = NoLayer
           /\ failure = NoLayer /\ e.throughputOk = TRUE /\ e.canaryOk = TRUE
                => CapacityFailure(e, failure) = NoLayer
<1>1. e.throughputOk \in BOOLEAN /\ e.canaryOk \in BOOLEAN
    BY DEF ProviderState
<1>2. CASE failure # NoLayer
    BY <1>2 DEF CapacityFailure
<1>3. CASE failure = NoLayer /\ ~e.throughputOk
    BY <1>1, <1>3 DEF CapacityFailure, Layers
<1>4. CASE failure = NoLayer /\ e.throughputOk
    <2>1. CapacityFailure(e, failure) = IF e.canaryOk THEN NoLayer ELSE "ContentUnreachable"
        BY <1>4 DEF CapacityFailure
    <2>2. QED
        BY <1>1, <1>4, <2>1 DEF Layers
<1>5. QED
    BY <1>1, <1>2, <1>3, <1>4

\* What the entry has become when the hysteresis gets it.
LEMMA StagesOfRound ==
    ASSUME HealthInv, NEW o \in Anything, NEW table \in BOOLEAN
    PROVE  LET m == Measured(o, table)
           IN  /\ m \in ProviderState
               /\ Failure(o, table) \in Layers \cup {NoLayer}
               /\ m.state = entry.state /\ m.successes = entry.successes
               /\ (m.tampered = TRUE)
                    <=> (IF CanaryDue(o) THEN o.canary ELSE lastCanary) = "tampered"
               /\ ~(m.canaryOk = TRUE /\ m.tampered = TRUE)
               /\ m.failures = entry.failures
               /\ LET missed == Missed(o, table, Measuring(o, table))
                  IN  /\ m.dnsFailures = missed.dns /\ m.canaryFailures = missed.canary
                      /\ m.throughputFailures = missed.transfer
               /\ Failure(o, table) = NoLayer => ~(m.tampered = TRUE)
<1> DEFINE a == Canaried(o)
           b == CountedDns(o, table)
           m == Measured(o, table)
<1>1. entry \in ProviderState /\ o.canary \in CanaryOutcomes
    BY ObservationTypes DEF HealthInv, TypeOK, Anything
<1>2. /\ a \in ProviderState /\ a.state = entry.state /\ a.successes = entry.successes
      /\ a.dnsFailures = lost.dns /\ ~(a.canaryOk = TRUE /\ a.tampered = TRUE)
      /\ (a.tampered = TRUE) <=> (IF CanaryDue(o) THEN o.canary ELSE lastCanary) = "tampered"
      /\ a.failures = entry.failures /\ a.throughputFailures = lost.transfer
      /\ a.canaryFailures = IF CanaryDue(o)
                              THEN Streak(lost.canary, o.canary = "ok", CanaryThreshold)
                              ELSE lost.canary
    <2>1. CASE CanaryDue(o)
        <3>1. a = RunCanary(entry, o.canary)
            BY <2>1 DEF Canaried
        <3>2. /\ entry.dnsFailures = lost.dns /\ entry.throughputFailures = lost.transfer
              /\ entry.canaryFailures = lost.canary
            BY DEF HealthInv, LossCounted
        <3> HIDE DEF a
        <3>3. /\ a \in ProviderState /\ a.state = entry.state /\ a.successes = entry.successes
              /\ a.dnsFailures = lost.dns /\ ~(a.canaryOk = TRUE /\ a.tampered = TRUE)
              /\ (a.tampered = TRUE) <=> o.canary = "tampered"
              /\ a.failures = entry.failures /\ a.throughputFailures = lost.transfer
            BY <1>1, <3>1, <3>2, CanaryOfRound
        <3>4. a.canaryFailures = Streak(lost.canary, o.canary = "ok", CanaryThreshold)
            <4>1. a.canaryFailures
                    = Streak(entry.canaryFailures, o.canary = "ok", CanaryThreshold)
                BY ONLY <1>1, <3>1, CanaryCounts
            <4>2. QED
                BY ONLY <3>2, <4>1
        <3>5. QED
            BY <2>1, <3>3, <3>4
    <2>2. CASE ~CanaryDue(o)
        <3>1. a = entry
            BY <2>2 DEF Canaried
        <3> HIDE DEF a
        <3>2. QED
            BY <1>1, <2>2, <3>1 DEF HealthInv, LossCounted, Consistent, Proven
    <2>3. QED
        BY <2>1, <2>2
<1>3. b = CountDns(a, DnsAnswered(o, table)) /\ DnsAnswered(o, table) \in BOOLEAN
    BY DEF CountedDns, DnsAnswered
<1> HIDE DEF a
<1>4. /\ b \in ProviderState /\ b.state = entry.state /\ b.successes = entry.successes
      /\ b.tampered = a.tampered /\ b.canaryOk = a.canaryOk /\ b.failures = a.failures
      /\ b.canaryFailures = a.canaryFailures /\ b.throughputFailures = a.throughputFailures
      /\ b.dnsFailures = Streak(lost.dns, DnsAnswered(o, table), DnsThreshold)
    <2> HIDE DEF b
    <2>1. QED
        BY <1>2, <1>3, DnsOfRound DEF Streak
<1>5. /\ m \in ProviderState /\ m.state = b.state /\ m.successes = b.successes
      /\ m.tampered = b.tampered /\ m.canaryOk = b.canaryOk /\ m.dnsFailures = b.dnsFailures
      /\ m.failures = b.failures /\ m.canaryFailures = b.canaryFailures
      /\ m.throughputFailures =
           IF Measuring(o, table)
             THEN Streak(lost.transfer, o.transfer = "Ok" \/ BusyRatherThanCapped(o),
                         ThroughputThreshold)
             ELSE lost.transfer
    <2>1. m = IF Measuring(o, table) THEN RunThroughput(b, o) ELSE b
        BY DEF Measured, Measuring
    <2> HIDE DEF b, m
    <2>2. b \in ProviderState /\ b.throughputFailures = lost.transfer
        BY <1>2, <1>4
    <2>3. CASE ~Measuring(o, table)
        BY <2>1, <2>2, <2>3
    <2>4. CASE Measuring(o, table)
        BY <2>1, <2>2, <2>4, ThroughputOfRound DEF Streak
    <2>5. QED
        BY <2>3, <2>4
<1>6. /\ Reached(o, table) \in Layers \cup {NoLayer}
      /\ Reached(o, table) = NoLayer => ~(b.tampered = TRUE)
    BY CauseOfRound DEF Reached
<1>7. /\ Failure(o, table) \in Layers \cup {NoLayer}
      /\ Failure(o, table) = NoLayer => Reached(o, table) = NoLayer
    BY <1>5, <1>6, CapacityOfRound DEF Failure
<1>8. LET missed == Missed(o, table, Measuring(o, table))
      IN  /\ m.dnsFailures = missed.dns /\ m.canaryFailures = missed.canary
          /\ m.throughputFailures = missed.transfer
    <2> HIDE DEF b, m
    <2>1. QED
        BY <1>2, <1>4, <1>5 DEF Missed
<1> HIDE DEF b, m
<1>9. QED
    BY <1>2, <1>4, <1>5, <1>6, <1>7, <1>8 DEF m

-----------------------------------------------------------------------------
(***************************************************************************)
(* The invariant, and what the daemon may assume of a verdict.             *)
(***************************************************************************)
LEMMA InitIsHealthy == Init => HealthInv
BY ThresholdsAssumption
   DEF Init, HealthInv, TypeOK, ProviderState, NoLayer, CanaryOutcomes, Climbing, Proven,
       Consistent, LossCounted

LEMMA RoundKeepsTypes ==
    ASSUME HealthInv, NEW o \in Anything, Round(o) PROVE TypeOK'
<1>1. entry' \in ProviderState
    <2> DEFINE m == Measured(o, ready')
               failure == Failure(o, ready')
    <2>1. ready' \in BOOLEAN
        BY RoundIsStages DEF HealthInv, TypeOK
    <2>2. m \in ProviderState /\ failure \in Layers \cup {NoLayer}
        BY <2>1, StagesOfRound
    <2>3. entry' = ApplyProbeResult(m, failure)
        BY RoundIsStages
    <2> HIDE DEF m, failure
    <2>4. QED
        BY <2>2, <2>3, VerdictOfRound
<1>2. ready' \in BOOLEAN /\ weather' \in Weathers
    BY RoundIsStages DEF HealthInv, TypeOK
<1>3. sinceCanary' \in 1 .. CanaryEvery
    <2>1. sinceCanary' = IF CanaryDue(o) THEN 1 ELSE CountTo(sinceCanary, CanaryEvery)
        BY RoundIsStages
    <2>2. QED
        BY <2>1, ThresholdsAssumption DEF HealthInv, TypeOK, CountTo
<1>4. sinceThroughput' \in 1 .. ThroughputEvery
    <2>1. sinceThroughput' \in {1, CountTo(sinceThroughput, ThroughputEvery)}
        BY RoundIsStages
    <2>2. QED
        BY <2>1, ThresholdsAssumption DEF HealthInv, TypeOK, CountTo
<1>5. lost' \in [reach : 0 .. FailureThreshold, dns : 0 .. DnsThreshold,
                  canary : 0 .. CanaryThreshold, transfer : 0 .. ThroughputThreshold]
    <2>1. lost' = Missed(o, ready', Measuring(o, ready'))
        BY RoundIsStages
    <2>2. ASSUME NEW max \in Nat, NEW n \in 0 .. max, NEW answered
          PROVE  Streak(n, answered, max) \in 0 .. max
        BY CountsTo DEF Streak
    <2>3. /\ lost.reach \in 0 .. FailureThreshold /\ lost.dns \in 0 .. DnsThreshold
          /\ lost.canary \in 0 .. CanaryThreshold /\ lost.transfer \in 0 .. ThroughputThreshold
        BY DEF HealthInv, TypeOK
    <2>4. QED
        BY <2>1, <2>2, <2>3, ThresholdsAssumption DEF Missed
<1>6. lastCanary' \in CanaryOutcomes
    <2>1. lastCanary' = IF CanaryDue(o) THEN o.canary ELSE lastCanary
        BY RoundIsStages
    <2>2. QED
        BY <2>1, ObservationTypes DEF HealthInv, TypeOK, Anything
<1>7. held' \in 0 .. SuccessThreshold - 1
    <2>1. held' \in {0, CountTo(held, SuccessThreshold - 1)}
        BY RoundIsStages
    <2>2. QED
        BY <2>1, ThresholdsAssumption DEF HealthInv, TypeOK, CountTo
<1>8. QED
    BY <1>1, <1>2, <1>3, <1>4, <1>5, <1>6, <1>7 DEF TypeOK

LEMMA RoundIsHealthy ==
    ASSUME HealthInv, NEW o \in Anything, Round(o) PROVE HealthInv'
<1> DEFINE m == Measured(o, ready')
           failure == Failure(o, ready')
<1>1. ready' \in BOOLEAN
    BY RoundIsStages DEF HealthInv, TypeOK
<1>2. /\ m \in ProviderState /\ failure \in Layers \cup {NoLayer}
      /\ m.state = entry.state /\ m.successes = entry.successes
      /\ (m.tampered = TRUE) <=> (IF CanaryDue(o) THEN o.canary ELSE lastCanary) = "tampered"
      /\ ~(m.canaryOk = TRUE /\ m.tampered = TRUE)
      /\ LET missed == Missed(o, ready', Measuring(o, ready'))
         IN  /\ m.dnsFailures = missed.dns /\ m.canaryFailures = missed.canary
             /\ m.throughputFailures = missed.transfer
    BY <1>1, StagesOfRound
<1>3. entry' = ApplyProbeResult(m, failure)
    BY RoundIsStages
<1> HIDE DEF m, failure
<1>4. /\ entry'.tampered = m.tampered /\ entry'.canaryOk = m.canaryOk
      /\ entry'.dnsFailures = m.dnsFailures /\ entry'.canaryFailures = m.canaryFailures
      /\ entry'.throughputFailures = m.throughputFailures
      /\ entry'.state # "Up"
           => \/ entry'.successes = 0
              \/ /\ entry'.state = m.state
                 /\ entry'.successes = m.successes + 1 /\ entry'.successes < SuccessThreshold
    BY <1>2, <1>3, VerdictOfRound
<1>5. TypeOK'
    BY RoundKeepsTypes
<1>6. Climbing'
    <2> SUFFICES ASSUME entry'.state # "Up" PROVE entry'.successes <= held'
        BY DEF Climbing
    <2>1. held' \in 0 .. SuccessThreshold - 1 /\ SuccessThreshold \in Nat \ {0}
        BY <1>5, ThresholdsAssumption DEF TypeOK
    <2>2. CASE entry'.successes = 0
        BY <2>1, <2>2
    <2>3. CASE /\ entry'.state = m.state /\ entry'.successes = m.successes + 1
               /\ entry'.successes < SuccessThreshold
        <3>1. held' = CountTo(held, SuccessThreshold - 1)
            BY <1>2, <2>3, RoundIsStages
        <3>2. entry.successes <= held /\ entry'.successes = entry.successes + 1
            BY <1>2, <2>3 DEF HealthInv, Climbing
        <3>3. entry.successes \in Nat /\ held \in 0 .. SuccessThreshold - 1
            BY DEF HealthInv, TypeOK, ProviderState
        <3>4. QED
            BY <2>1, <2>3, <3>1, <3>2, <3>3 DEF CountTo
    <2>4. QED
        BY <1>4, <2>2, <2>3
<1>7. Proven' /\ Consistent' /\ LossCounted'
    <2>1. /\ lastCanary' = IF CanaryDue(o) THEN o.canary ELSE lastCanary
          /\ lost' = Missed(o, ready', Measuring(o, ready'))
        BY RoundIsStages
    <2>2. QED
        BY <1>2, <1>4, <2>1 DEF Proven, Consistent, LossCounted
<1>8. QED
    BY <1>5, <1>6, <1>7 DEF HealthInv

LEMMA HealthStep == HealthInv /\ [Next]_vars => HealthInv'
<1> SUFFICES ASSUME HealthInv, [Next]_vars PROVE HealthInv'
    OBVIOUS
<1>1. ASSUME NEW o \in Anything, Round(o) PROVE HealthInv'
    BY <1>1, RoundIsHealthy
<1>2. ASSUME NEW w \in WeatherKinds \ {"any"}, Settle(w) PROVE HealthInv'
    BY <1>2 DEF Settle, HealthInv, TypeOK, Climbing, Proven, Consistent, LossCounted
<1>3. CASE UNCHANGED vars
    BY <1>3 DEF vars, HealthInv, TypeOK, Climbing, Proven, Consistent, LossCounted
<1>4. QED
    BY <1>1, <1>2, <1>3 DEF Next

THEOREM Healthy == Spec => []HealthInv
BY InitIsHealthy, HealthStep, PTL DEF Spec

\* ProviderState and the timers of health_loop (core/balancer.rs) stay within
\* their thresholds.
THEOREM TypeCorrect == Spec => []TypeOK
BY Healthy, PTL DEF HealthInv

\* apply_probe_result: a verdict is given in rounds, never returns to Unknown,
\* and rises only after the rounds it takes.
THEOREM VerdictImplemented == Spec => VerdictSpec
<1>1. Init => Abstract!Init
    BY DEF Init, Abstract!Init
<1>2. HealthInv /\ [Next]_vars
        => [Abstract!Hold \/ Abstract!Rise \/ Abstract!Fall]_<<entry.state, held>>
    <2> SUFFICES ASSUME HealthInv, [Next]_vars
                 PROVE  \/ Abstract!Hold \/ Abstract!Rise \/ Abstract!Fall
                        \/ UNCHANGED <<entry.state, held>>
        OBVIOUS
    <2>1. ASSUME NEW o \in Anything, Round(o)
          PROVE  Abstract!Hold \/ Abstract!Rise \/ Abstract!Fall
        <3> DEFINE m == Measured(o, ready')
                   failure == Failure(o, ready')
        <3>1. ready' \in BOOLEAN
            BY <2>1, RoundIsStages DEF HealthInv, TypeOK
        <3>2. /\ m \in ProviderState /\ failure \in Layers \cup {NoLayer}
              /\ m.state = entry.state /\ m.successes = entry.successes
            BY <3>1, StagesOfRound
        <3>3. entry' = ApplyProbeResult(m, failure)
            BY <2>1, RoundIsStages
        <3> HIDE DEF m, failure
        <3>4. /\ entry'.state \in {entry.state, "Up", "Down"}
              /\ entry'.state = "Up" /\ entry.state # "Up"
                   => entry.successes >= SuccessThreshold - 1
            BY <3>2, <3>3, VerdictOfRound
        <3>5. held' = IF entry'.state # entry.state THEN 0
                      ELSE CountTo(held, SuccessThreshold - 1)
            BY <2>1, RoundIsStages
        <3>6. CASE entry'.state = entry.state
            <4>1. held' = IF held < SuccessThreshold - 1 THEN held + 1 ELSE SuccessThreshold - 1
                BY <3>5, <3>6 DEF CountTo
            <4>2. held \in 0 .. SuccessThreshold - 1 /\ SuccessThreshold \in Nat \ {0}
                BY ThresholdsAssumption DEF HealthInv, TypeOK
            <4>3. held' = Abstract!HeldLonger
                BY <4>1, <4>2 DEF Abstract!HeldLonger
            <4>4. QED
                BY <3>6, <4>3 DEF Abstract!Hold
        <3>7. CASE entry'.state = "Up" /\ entry.state # "Up"
            <4>1. entry.successes <= held /\ entry.successes >= SuccessThreshold - 1
                BY <3>4, <3>7 DEF HealthInv, Climbing
            <4>2. /\ held \in 0 .. SuccessThreshold - 1 /\ entry.successes \in Nat
                  /\ SuccessThreshold \in Nat \ {0}
                BY ThresholdsAssumption DEF HealthInv, TypeOK, ProviderState
            <4>3. held = SuccessThreshold - 1
                BY <4>1, <4>2
            <4>4. QED
                BY <3>5, <3>7, <4>3 DEF Abstract!Rise
        <3>8. CASE entry'.state = "Down" /\ entry.state # "Down"
            BY <3>5, <3>8 DEF Abstract!Fall
        <3>9. QED
            BY <3>4, <3>6, <3>7, <3>8
    <2>2. ASSUME NEW w \in WeatherKinds \ {"any"}, Settle(w)
          PROVE  UNCHANGED <<entry.state, held>>
        BY <2>2 DEF Settle
    <2>3. CASE UNCHANGED vars
        BY <2>3 DEF vars
    <2>4. QED
        BY <2>1, <2>2, <2>3 DEF Next
<1>3. QED
    BY <1>1, <1>2, Healthy, PTL DEF Spec, VerdictSpec, Abstract!Spec

\* ContentTampered outlives the canary round that proved it: a later round in
\* which no canary ran does not bring the provider up.
THEOREM TamperedNeverRises == Spec => NeverUpOnTamperedContent
<1>1. HealthInv /\ [Next]_vars
        => [entry'.state = "Up" /\ entry.state # "Up" => lastCanary' # "tampered"]_vars
    <2> SUFFICES ASSUME HealthInv, Next, entry'.state = "Up", entry.state # "Up"
                 PROVE  lastCanary' # "tampered"
        OBVIOUS
    <2>1. PICK o \in Anything : Round(o)
        BY DEF Next, Settle
    <2> DEFINE m == Measured(o, ready')
               failure == Failure(o, ready')
    <2>2. ready' \in BOOLEAN
        BY <2>1, RoundIsStages DEF HealthInv, TypeOK
    <2>3. /\ m \in ProviderState /\ failure \in Layers \cup {NoLayer}
          /\ m.state = entry.state
          /\ (m.tampered = TRUE)
               <=> (IF CanaryDue(o) THEN o.canary ELSE lastCanary) = "tampered"
          /\ failure = NoLayer => ~(m.tampered = TRUE)
        BY <2>2, StagesOfRound
    <2>4. /\ entry' = ApplyProbeResult(m, failure)
          /\ lastCanary' = IF CanaryDue(o) THEN o.canary ELSE lastCanary
        BY <2>1, RoundIsStages
    <2> HIDE DEF m, failure
    <2>5. failure = NoLayer
        BY <2>3, <2>4, VerdictOfRound
    <2>6. QED
        BY <2>3, <2>4, <2>5
<1>2. QED
    BY <1>1, Healthy, PTL DEF Spec, NeverUpOnTamperedContent

-----------------------------------------------------------------------------
(***************************************************************************)
(* The two nuisances.  An answer the configuration asks for has to pass:   *)
(* 511 is accepted as an expected status and then held to be a portal's.   *)
(***************************************************************************)
HonestAnswersPass == \A t \in DOMAIN CanaryTargets : CanaryTargets[t].expect # 511

\* A set of resolvers has a first one.
LEMMA FirstResolver ==
    ASSUME NEW N \in SUBSET Nat, N # {}
    PROVE  \E n \in N : \A m \in N : n <= m
<1> DEFINE less == OpToRel(<, Nat)
<1>1. /\ IsWellFoundedOn(less, Nat) /\ N \subseteq Nat
      /\ \A m, n \in Nat : m < n => <<m, n>> \in less
    BY NatLessThanWellFounded DEF OpToRel
<1> HIDE DEF less
<1>2. PICK n \in N : \A m \in N : ~(<<m, n>> \in less)
    <2>1. IsWellFoundedOn(less, Nat) /\ N \subseteq Nat
        BY <1>1
    <2>2. QED
        BY ONLY <2>1, N # {}, WFMin
<1>3. ASSUME NEW m \in N PROVE n <= m
    <2>1. m \in Nat /\ n \in Nat
        OBVIOUS
    <2>2. ~(m < n)
        BY <1>1, <1>2, <2>1, Zenon
    <2>3. QED
        BY <2>1, <2>2
<1>4. QED
    BY <1>3

\* resolve_a_via believes one of the addresses it was given.
LEMMA NameResolves ==
    ASSUME NEW r \in Replies(DnsReply)
    PROVE  \/ ResolveA(r) = "nothing" /\ \A i \in DOMAIN r : r[i] \notin Address
           \/ \E i \in DOMAIN r : ResolveA(r) = r[i] /\ r[i] \in Address
<1> DEFINE answering == {i \in DOMAIN r : r[i] \in Address}
<1>1. DOMAIN r = 1 .. Resolvers /\ Resolvers \in Nat
    BY ThresholdsAssumption DEF Replies
<1>2. CASE answering = {}
    BY <1>2 DEF ResolveA
<1>3. CASE answering # {}
    <2>1. answering \in SUBSET Nat
        BY <1>1
    <2>2. \E n \in answering : \A m \in answering : n <= m
        BY <1>3, <2>1, FirstResolver
    <2>3. (CHOOSE n \in answering : \A m \in answering : n <= m) \in answering
        BY <2>2
    <2>4. ResolveA(r) = r[CHOOSE n \in answering : \A m \in answering : n <= m]
        BY <1>3 DEF ResolveA
    <2>5. QED
        BY <2>3, <2>4
<1>4. QED
    BY <1>2, <1>3

LEMMA PublicName ==
    ASSUME NEW r \in Replies({"public"}) PROVE ResolveA(r) = "public"
<1>1. r \in Replies(DnsReply) /\ \A i \in DOMAIN r : r[i] = "public" /\ r[i] \in Address
    BY DEF Replies, DnsReply, Address
<1>2. 1 \in DOMAIN r
    BY ThresholdsAssumption DEF Replies
<1>3. QED
    BY <1>1, <1>2, NameResolves

LEMMA LostName ==
    ASSUME NEW r \in Replies({"public", "silence"})
    PROVE  ResolveA(r) \in {"public", "nothing"}
<1>1. /\ r \in Replies(DnsReply)
      /\ \A i \in DOMAIN r : r[i] \in Address => r[i] = "public"
    BY DEF Replies, DnsReply, Address
<1>2. QED
    BY <1>1, NameResolves

LEMMA NobodysName ==
    ASSUME NEW r \in Replies({"refused", "silence"})
    PROVE  ~(CheckDnsIntegrity(r) = "Hijacked")
<1>1. \A i \in DOMAIN r : r[i] \notin Address
    BY DEF Replies, Address
<1>2. ResolveA(r) = "nothing"
    BY <1>1 DEF ResolveA
<1>3. CheckDnsIntegrity(r) \in {"Clean", "NoAnswer"}
    BY <1>2 DEF CheckDnsIntegrity
<1>4. QED
    BY <1>3

LEMMA TargetsAnswer ==
    ASSUME NEW w, w.names = Replies({"public"}), w.echoes \subseteq {2, 3}
    PROVE  \A i \in InternetResults(w) : i = TRUE
<1> DEFINE answers == [hostname : BOOLEAN, replies : w.names, received : w.echoes]
<1>1. ASSUME NEW t \in answers PROVE TargetAnswers(t)
    <2>1. t.replies \in Replies({"public"}) /\ t.received \in {2, 3}
        OBVIOUS
    <2>2. ResolveA(t.replies) \in {a \in Address : ~NonRoutable(a)}
        BY <2>1, PublicName DEF Address, NonRoutable
    <2>3. PingBurst(3, 2, t.received)
        BY <2>1 DEF PingBurst, Clamped
    <2>4. QED
        BY <2>2, <2>3 DEF TargetAnswers
<1>2. ASSUME NEW a \in [DOMAIN ProbeTargets -> answers]
      PROVE  CheckInternet({a[t] : t \in DOMAIN a})
    <2> DEFINE targets == {a[t] : t \in DOMAIN a}
               names == {t \in targets : t.hostname}
    <2>1. targets # {} /\ targets \subseteq answers
        BY TargetsAssumption
    <2>2. (IF names = {} THEN targets ELSE names) # {}
        BY <2>1
    <2>3. (IF names = {} THEN targets ELSE names) \subseteq answers
        BY <2>1
    <2>4. QED
        BY <1>1, <2>2, <2>3 DEF CheckInternet
<1>3. QED
    BY <1>2 DEF InternetResults

LEMMA HonestTarget ==
    ASSUME HonestAnswersPass, NEW t \in DOMAIN CanaryTargets, NEW r \in Replies({"public"})
    PROVE  CheckOne(CanaryTargets[t], r, Honest(t)) = "Ok"
<1> DEFINE target == CanaryTargets[t]
           x == Honest(t)
<1>1. ResolveA(r) = "public"
    BY PublicName
<1>2. /\ x.ended = "closed" /\ x.status = target.expect /\ x.framing = "length"
      /\ x.whole = TRUE /\ x.fits = TRUE /\ x.ours = TRUE
    BY DEF Honest, Good
<1>3. target.expect \notin {301, 302, 303, 307, 308, 511}
    BY TargetsAssumption DEF HonestAnswersPass
<1> HIDE DEF target, x
<1>4. CheckStatus(target, x.status) = "Ok"
    BY <1>2, <1>3 DEF CheckStatus, IsRedirect
<1>5. CheckBody(target, x) = "Ok"
    <2>1. ~Truncated(x) /\ Matches(x)
        BY <1>2 DEF Truncated, Matches
    <2>2. CASE target.statusOnly
        BY <2>2 DEF CheckBody
    <2>3. CASE ~target.statusOnly
        BY <2>1, <2>3 DEF CheckBody
    <2>4. QED
        BY <2>2, <2>3
<1>6. ~(target.named /\ ResolveA(r) = "nothing") /\ ~(target.named /\ NonRoutable(ResolveA(r)))
    BY <1>1 DEF NonRoutable
<1>7. CheckOne(target, r, x) =
        IF x.ended # "closed" THEN "Unreachable"
        ELSE IF CheckStatus(target, x.status) # "Ok" THEN CheckStatus(target, x.status)
             ELSE CheckBody(target, x)
    BY <1>6 DEF CheckOne
<1>8. CheckOne(target, r, x) = "Ok"
    BY <1>2, <1>4, <1>5, <1>7
<1>9. QED
    BY <1>8 DEF target, x

LEMMA HonestCanary ==
    ASSUME HonestAnswersPass, NEW w, w.names = Replies({"public"}),
           w.canary = [t \in DOMAIN CanaryTargets |-> {Honest(t)}]
    PROVE  \A c \in CanaryResults(w) : c = "ok"
<1> DEFINE verdicts(t) == {CheckOne(CanaryTargets[t], r, x) : r \in w.names, x \in w.canary[t]}
           n == Cardinality(DOMAIN CanaryTargets)
<1>1. ASSUME NEW t \in DOMAIN CanaryTargets, NEW v \in verdicts(t) PROVE v = "Ok"
    BY HonestTarget
<1>2. n \in Nat /\ n >= 1
    <2>1. n \in Nat /\ n # 0
        BY TargetsAssumption, FS_CardinalityType, FS_EmptySet
    <2>2. QED
        BY <2>1
<1>3. Required(CanaryQuorum, n) <= n
    <2> HIDE DEF n
    <2>1. CASE CanaryQuorum = "any"
        BY <1>2, <2>1 DEF Required
    <2>2. CASE CanaryQuorum = "majority"
        <3>1. Required(CanaryQuorum, n) = n \div 2 + 1
            BY <2>2 DEF Required
        <3>2. n \div 2 + 1 <= n
            BY <1>2
        <3>3. QED
            BY <3>1, <3>2
    <2>3. CASE CanaryQuorum = "all"
        <3>1. Required(CanaryQuorum, n) = IF n = 0 THEN 1 ELSE n
            BY <2>3 DEF Required
        <3>2. QED
            BY <1>2, <3>1
    <2>4. QED
        BY <2>1, <2>2, <2>3, TargetsAssumption
<1>4. ASSUME NEW u, DOMAIN u = DOMAIN CanaryTargets, \A t \in DOMAIN u : u[t] = "Ok"
      PROVE  CanaryOutcome(u, CanaryQuorum) = "ok"
    <2>1. ~SomeTampered(u)
        BY <1>4 DEF SomeTampered
    <2>2. {t \in DOMAIN u : u[t] = "Ok"} = DOMAIN CanaryTargets
        BY <1>4
    <2>3. QuorumMet(u, CanaryQuorum)
        BY <1>2, <1>3, <1>4, <2>2 DEF QuorumMet, Passed
    <2>4. CanaryIsOk(u, CanaryQuorum) /\ ~ConclusiveTamper(u, CanaryQuorum)
        BY <2>1, <2>3 DEF CanaryIsOk, ConclusiveTamper
    <2>5. QED
        BY <2>4 DEF CanaryOutcome
<1> HIDE DEF n
<1>5. QED
    BY <1>1, <1>4 DEF CanaryResults

\* check_one of a target that answers honestly or not at all.
LEMMA LossyTarget ==
    ASSUME HonestAnswersPass, NEW t \in DOMAIN CanaryTargets,
           NEW r \in Replies({"public", "silence"}), NEW x \in {Honest(t), TimedOut}
    PROVE  CheckOne(CanaryTargets[t], r, x) \in {"Ok", "Unreachable"}
<1> DEFINE target == CanaryTargets[t]
<1>1. ~NonRoutable(ResolveA(r))
    BY LostName DEF NonRoutable
<1>2. CheckOne(target, r, x) =
        IF target.named /\ ResolveA(r) = "nothing" THEN "Unreachable"
        ELSE IF x.ended # "closed" THEN "Unreachable"
             ELSE IF CheckStatus(target, x.status) # "Ok" THEN CheckStatus(target, x.status)
                  ELSE CheckBody(target, x)
    BY <1>1 DEF CheckOne
<1>3. CASE x = TimedOut
    <2>1. x.ended = "timeout"
        BY <1>3 DEF TimedOut, Good
    <2> HIDE DEF target
    <2>2. QED
        BY <1>2, <2>1 DEF target
<1>4. CASE x = Honest(t)
    <2>1. /\ x.status = target.expect /\ x.framing = "length"
          /\ x.whole = TRUE /\ x.fits = TRUE /\ x.ours = TRUE
        BY <1>4 DEF Honest, Good
    <2>2. target.expect \notin {301, 302, 303, 307, 308, 511}
        BY TargetsAssumption DEF HonestAnswersPass
    <2> HIDE DEF target
    <2>3. CheckStatus(target, x.status) = "Ok"
        BY <2>1, <2>2 DEF CheckStatus, IsRedirect
    <2>4. ~Truncated(x) /\ Matches(x)
        BY <2>1 DEF Truncated, Matches
    <2>5. CheckBody(target, x) = "Ok"
        <3>1. CASE target.statusOnly
            BY <3>1 DEF CheckBody
        <3>2. CASE ~target.statusOnly
            BY <2>4, <3>2 DEF CheckBody
        <3>3. QED
            BY <3>1, <3>2
    <2>6. QED
        BY <1>2, <2>3, <2>5 DEF target
<1>5. QED
    BY <1>3, <1>4

\* No wrong content, no verdict of tampering.
LEMMA LossyCanary ==
    ASSUME HonestAnswersPass, NEW w, w.names = Replies({"public", "silence"}),
           w.canary = [t \in DOMAIN CanaryTargets |-> {Honest(t), TimedOut}]
    PROVE  \A c \in CanaryResults(w) : c \in {"ok", "unreachable"}
<1> DEFINE verdicts(t) == {CheckOne(CanaryTargets[t], r, x) : r \in w.names, x \in w.canary[t]}
<1>1. ASSUME NEW t \in DOMAIN CanaryTargets, NEW v \in verdicts(t)
      PROVE  v \in {"Ok", "Unreachable"}
    BY LossyTarget
<1>2. ASSUME NEW u, DOMAIN u = DOMAIN CanaryTargets,
             \A t \in DOMAIN u : u[t] \in {"Ok", "Unreachable"}
      PROVE  CanaryOutcome(u, CanaryQuorum) \in {"ok", "unreachable"}
    <2>1. ~SomeTampered(u)
        BY <1>2 DEF SomeTampered
    <2>2. ~ConclusiveTamper(u, CanaryQuorum)
        BY <2>1 DEF ConclusiveTamper
    <2>3. CASE CanaryIsOk(u, CanaryQuorum)
        BY <2>2, <2>3 DEF CanaryOutcome
    <2>4. CASE ~CanaryIsOk(u, CanaryQuorum)
        BY <2>1, <2>2, <2>4 DEF CanaryOutcome
    <2>5. QED
        BY <2>3, <2>4
<1>3. QED
    BY <1>1, <1>2 DEF CanaryResults

LEMMA TransferMeasured ==
    ASSUME NEW w, w.names = Replies({"public"}), w.payload = {Good},
           w.pace = {10, 1000}
    PROVE  ThroughputResults(w) \subseteq {"Ok", "TooSlow"}
<1> DEFINE Result(ms) == ClassifyThroughput(PayloadKiB * 1024, PayloadKiB * ms, Floor)
<1>1. ASSUME NEW r \in w.names, NEW ms \in w.pace
      PROVE  CheckThroughput(ResolveA(r), Good, PayloadKiB * 1024, PayloadKiB * ms, Floor)
               = Result(ms)
    <2>1. ResolveA(r) = "public"
        BY PublicName
    <2>2. Good.ended = "closed" /\ Good.status = 200
        BY DEF Good
    <2>3. CheckThroughput("public", Good, PayloadKiB * 1024, PayloadKiB * ms, Floor) =
            IF Good.status \in 200..299 THEN Result(ms) ELSE "Unmeasurable"
        BY <2>2 DEF CheckThroughput
    <2>4. QED
        BY <2>1, <2>2, <2>3
<1>2. ASSUME NEW ms \in {10, 1000} PROVE Result(ms) \in {"Ok", "TooSlow"}
    <2>1. ~(PayloadKiB * 1024 < MinMeasurableBytes \/ PayloadKiB * ms = 0)
        BY DEF PayloadKiB, MinMeasurableBytes
    <2>2. Result(ms) = IF Kbps(PayloadKiB * 1024, PayloadKiB * ms) < Floor THEN "TooSlow" ELSE "Ok"
        BY <2>1 DEF ClassifyThroughput
    <2>3. QED
        BY <2>2
<1> HIDE DEF Result
<1>3. QED
    BY <1>1, <1>2 DEF ThroughputResults

\* Nothing is wrong but what a nuisance costs: a layer either has its answer or
\* the patience to go without.
Harmless(o) ==
    /\ o.hijacked = FALSE /\ o.canary \in {"ok", "unreachable"}
    /\ o.internet => o.gateway
    /\ o.internet \/ lost.reach + 1 < FailureThreshold
    /\ o.internet => o.dns \/ lost.dns + 1 < DnsThreshold
    /\ o.canary = "ok" \/ lost.canary + 1 < CanaryThreshold
    /\ o.transfer = "Ok" \/ BusyRatherThanCapped(o) \/ lost.transfer + 1 < ThroughputThreshold

LEMMA LossyIsHarmless ==
    ASSUME HonestAnswersPass, NEW o \in Lossy PROVE Harmless(o)
<1> DEFINE w == LossyWire
<1>1. /\ w.names = Replies({"public", "silence"}) /\ w.nonsense = Replies({"refused", "silence"})
      /\ w.canary = [t \in DOMAIN CanaryTargets |-> {Honest(t), TimedOut}]
    BY DEF LossyWire, ClearWire
<1>2. o \in Observed(w) /\ WithinPatience(o)
    BY DEF Lossy, SomeLost
<1> HIDE DEF w
<1>3. o.hijacked = FALSE
    <2>1. PICK r \in w.nonsense : o.hijacked = (CheckDnsIntegrity(r) = "Hijacked")
        BY <1>2 DEF Observed
    <2>2. QED
        BY <1>1, <2>1, NobodysName
<1>4. o.canary \in {"ok", "unreachable"}
    BY <1>1, <1>2, LossyCanary DEF Observed
<1>5. o.internet => o.gateway
    BY <1>2 DEF Observed
<1>6. QED
    BY <1>2, <1>3, <1>4, <1>5 DEF Harmless, WithinPatience

LEMMA BusyIsHarmless ==
    ASSUME HonestAnswersPass, NEW o \in Busy PROVE Harmless(o)
<1> DEFINE w == BusyWire
<1>1. /\ w.hop = {1} /\ w.echoes = {3} /\ w.names = Replies({"public"})
      /\ w.dns = Replies({"public"}) /\ w.active = {TRUE}
      /\ w.nonsense = Replies({"refused"}) /\ w.payload = {Good} /\ w.pace = {10, 1000}
      /\ w.canary = [t \in DOMAIN CanaryTargets |-> {Honest(t)}]
    BY DEF BusyWire, ClearWire
<1>2. o \in Observed(w) /\ o.crowded = (o.transfer = "TooSlow")
    BY DEF Busy
<1> HIDE DEF w
<1>3. o.internet = TRUE /\ (o.internet => o.gateway) /\ o.canary = "ok"
    BY <1>1, <1>2, TargetsAnswer, HonestCanary DEF Observed
<1>4. o.hijacked = FALSE
    <2>1. PICK r \in w.nonsense : o.hijacked = (CheckDnsIntegrity(r) = "Hijacked")
        BY <1>2 DEF Observed
    <2>2. r \in Replies({"refused", "silence"})
        BY <1>1 DEF Replies
    <2>3. QED
        BY <2>1, <2>2, NobodysName
<1>5. o.dns = TRUE
    <2>1. PICK r \in w.dns : o.dns = CheckDns(r)
        BY <1>2 DEF Observed
    <2>2. r[1] = "public" /\ 1 \in DOMAIN r
        BY <1>1, ThresholdsAssumption DEF Replies
    <2>3. CheckDns(r)
        BY <2>2 DEF CheckDns, DnsReplyOk, Address
    <2>4. QED
        BY <2>1, <2>3
<1>6. o.transfer = "Ok" \/ BusyRatherThanCapped(o)
    <2>1. ThroughputResults(w) \subseteq {"Ok", "TooSlow"}
        BY <1>1, TransferMeasured
    <2>2. o.transfer \in {"Ok", "TooSlow"} /\ o.active = TRUE
        BY <1>1, <1>2, <2>1 DEF Observed
    <2>3. QED
        BY <1>2, <2>2 DEF BusyRatherThanCapped
<1>7. QED
    BY <1>3, <1>4, <1>5, <1>6 DEF Harmless

\* The canary of such a round holds nothing against the content.
LEMMA HarmlessCanary ==
    ASSUME HealthInv, NEW o, Harmless(o), entry.canaryOk = TRUE
    PROVE  LET a == Canaried(o)
           IN  /\ a \in ProviderState /\ a.canaryOk = TRUE /\ a.tampered = FALSE
               /\ a.throughputOk = entry.throughputOk
               /\ a.dnsFailures = lost.dns /\ a.throughputFailures = lost.transfer
<1> DEFINE a == Canaried(o)
<1>1. entry \in ProviderState /\ o.canary \in CanaryOutcomes
    BY DEF HealthInv, TypeOK, Harmless, CanaryOutcomes
<1>2. /\ entry.dnsFailures = lost.dns /\ entry.throughputFailures = lost.transfer
      /\ entry.canaryFailures = lost.canary /\ entry.tampered \in BOOLEAN
    BY <1>1 DEF HealthInv, LossCounted, ProviderState
<1>3. CASE ~CanaryDue(o)
    <2>1. a = entry
        BY <1>3 DEF Canaried
    <2> HIDE DEF a
    <2>2. QED
        BY <1>1, <1>2, <2>1 DEF HealthInv, Consistent, a
<1>4. CASE CanaryDue(o)
    <2>1. a = RunCanary(entry, o.canary)
        BY <1>4 DEF Canaried
    <2>2. o.canary = "ok" \/ (o.canary = "unreachable" /\ entry.canaryFailures + 1 < CanaryThreshold)
        BY <1>2 DEF Harmless
    <2> HIDE DEF a
    <2>3. /\ a \in ProviderState
          /\ a.throughputOk = entry.throughputOk /\ a.dnsFailures = entry.dnsFailures
          /\ a.throughputFailures = entry.throughputFailures
        BY <1>1, <2>1, CanaryOfRound
    <2>4. a.canaryOk = TRUE /\ a.tampered = FALSE
        <3>1. a.canaryOk = TRUE
            BY <1>1, <2>1, <2>2, CanaryCounts
        <3>2. (a.tampered = TRUE) <=> o.canary = "tampered"
            BY <1>1, <2>1, CanaryOfRound
        <3>3. QED
            BY <2>2, <2>3, <3>1, <3>2 DEF ProviderState
    <2>5. QED
        BY <1>2, <2>3, <2>4 DEF a
<1>5. QED
    BY <1>3, <1>4

\* A round in which nothing is wrong but answers lost within everybody's patience
\* names no failure but one of reachability, and leaves nothing else behind.
LEMMA HarmlessRound ==
    ASSUME HealthInv, NEW o \in Anything, NEW table, table = TRUE, Harmless(o),
           entry.canaryOk = TRUE, entry.throughputOk = TRUE
    PROVE  /\ Measured(o, table).canaryOk = TRUE /\ Measured(o, table).throughputOk = TRUE
           /\ o.internet => Failure(o, table) = NoLayer
           /\ ~o.internet => Failure(o, table) \in {"Gateway", "Internet"}
<1> DEFINE a == Canaried(o)
           b == CountedDns(o, table)
           m == Measured(o, table)
<1>1. /\ a \in ProviderState /\ a.canaryOk = TRUE /\ a.tampered = FALSE
      /\ a.throughputOk = TRUE
      /\ a.dnsFailures = lost.dns /\ a.throughputFailures = lost.transfer
    BY HarmlessCanary
<1>2. b = CountDns(a, DnsAnswered(o, table)) /\ DnsAnswered(o, table) \in BOOLEAN
    BY DEF CountedDns, DnsAnswered
<1> HIDE DEF a
<1>3. /\ b \in ProviderState /\ b.canaryOk = TRUE /\ b.tampered = FALSE
      /\ b.throughputOk = TRUE /\ b.throughputFailures = lost.transfer
      /\ b.dnsFailures = IF DnsAnswered(o, table) THEN 0 ELSE CountTo(lost.dns, DnsThreshold)
    <2> HIDE DEF b
    <2>1. QED
        BY <1>1, <1>2, DnsOfRound
<1>4. o.internet => Reached(o, table) = NoLayer
    <2> SUFFICES ASSUME o.internet PROVE Reached(o, table) = NoLayer
        OBVIOUS
    <2>1. Internet(o, table) /\ o.gateway /\ ~DnsHijacked(o, table)
        BY DEF Harmless, Internet, DnsHijacked
    <2>2. o.dns \/ ~(b.dnsFailures >= DnsThreshold)
        <3>1. CASE o.dns
            BY <3>1
        <3>2. CASE ~o.dns /\ lost.dns + 1 < DnsThreshold
            <4>1. lost.dns \in 0 .. DnsThreshold /\ DnsThreshold \in Nat
                BY ThresholdsAssumption DEF HealthInv, TypeOK
            <4> DEFINE n == lost.dns
                       failures == b.dnsFailures
            <4>2. failures = IF DnsAnswered(o, table) THEN 0 ELSE CountTo(n, DnsThreshold)
                BY <1>3
            <4> HIDE DEF n, failures
            <4>3. n \in Nat /\ n + 1 < DnsThreshold
                BY <3>2, <4>1 DEF n
            <4>9. failures \in {0, n + 1}
                <5>1. CountTo(n, DnsThreshold) = n + 1
                    BY <4>1, <4>3 DEF CountTo
                <5>2. QED
                    BY <4>2, <5>1
            <4>4. ~(failures >= DnsThreshold)
                BY <4>1, <4>3, <4>9
            <4>5. QED
                BY <4>4 DEF failures
        <3>3. QED
            BY <3>1, <3>2 DEF Harmless
    <2>3. QED
        BY <1>3, <2>1, <2>2, CauseOfRound DEF Reached
<1>5. ~o.internet => Reached(o, table) \in {"Gateway", "Internet"}
    <2> SUFFICES ASSUME ~o.internet PROVE Reached(o, table) \in {"Gateway", "Internet"}
        OBVIOUS
    <2>1. ~Internet(o, table)
        BY DEF Internet
    <2>2. Reached(o, table) = ReachabilityFailure(b, o, table)
        BY DEF Reached
    <2> HIDE DEF b
    <2>3. QED
        BY <2>1, <2>2, CauseOfRound
<1>6. m \in ProviderState /\ m.canaryOk = TRUE /\ m.throughputOk = TRUE
    <2>1. m = b \/ m = RunThroughput(b, o)
        BY DEF Measured
    <2>2. \/ o.transfer = "Ok" \/ BusyRatherThanCapped(o)
          \/ b.throughputFailures + 1 < ThroughputThreshold
        BY <1>3 DEF Harmless
    <2> HIDE DEF b, m
    <2>3. CASE m = b
        BY <1>3, <2>3
    <2>4. CASE m = RunThroughput(b, o)
        BY <1>3, <2>2, <2>4, ThroughputOfRound
    <2>5. QED
        BY <2>1, <2>3, <2>4
<1> HIDE DEF m
<1>7. o.internet => Failure(o, table) = NoLayer
    BY <1>4, <1>6, CapacityOfRound DEF Failure, m
<1>8. ~o.internet => Failure(o, table) \in {"Gateway", "Internet"}
    <2>1. "Gateway" # NoLayer /\ "Internet" # NoLayer
        BY DEF NoLayer
    <2>2. QED
        BY <1>5, <2>1 DEF Failure, CapacityFailure
<1>9. QED
    BY <1>6, <1>7, <1>8 DEF m

\* run_dns, run_canary, run_throughput and apply_probe_result: answers that are
\* lost, short of each layer's threshold, and the operator's own users never take
\* down a provider that nothing else stands against.
THEOREM NuisancesAreNoAlarm == HonestAnswersPass => (Spec => NoFalseAlarm)
<1> SUFFICES ASSUME HonestAnswersPass PROVE Spec => NoFalseAlarm
    OBVIOUS
<1>1. HealthInv /\ [Next]_vars
        => [ready /\ weather \in {"lossy", "busy"} /\ Unsuspected => Unsuspected']_vars
    <2> SUFFICES ASSUME HealthInv, Next, weather \in {"lossy", "busy"}, ready, Unsuspected
                 PROVE  Unsuspected'
        OBVIOUS
    <2>1. CASE \E w \in WeatherKinds \ {"any"} : Settle(w)
        BY <2>1 DEF Settle
    <2>2. ASSUME NEW o \in Anything, Round(o) PROVE Unsuspected'
        <3> DEFINE m == Measured(o, ready')
                   failure == Failure(o, ready')
        <3>1. /\ entry \in ProviderState /\ entry.state = "Up" /\ ready \in BOOLEAN
              /\ entry.canaryOk = TRUE /\ entry.throughputOk = TRUE
              /\ entry.failures <= lost.reach /\ entry.failures \in 0 .. FailureThreshold
              /\ lost.reach \in 0 .. FailureThreshold /\ FailureThreshold \in Nat
            BY ThresholdsAssumption DEF HealthInv, TypeOK, ProviderState, Unsuspected
        <3>2. ready' = TRUE /\ o \in Possible(weather)
            BY <2>2, <3>1, RoundIsStages DEF Round
        <3>3. Harmless(o)
            <4>1. o \in Busy \/ o \in Lossy
                BY <3>2 DEF Possible
            <4>2. QED
                BY <4>1, BusyIsHarmless, LossyIsHarmless
        <3>4. /\ m.canaryOk = TRUE /\ m.throughputOk = TRUE
              /\ o.internet => failure = NoLayer
              /\ ~o.internet => failure \in {"Gateway", "Internet"}
            BY <3>1, <3>2, <3>3, HarmlessRound
        <3>5. /\ m \in ProviderState /\ m.state = entry.state /\ m.failures = entry.failures
              /\ failure \in Layers \cup {NoLayer}
            BY <3>2, StagesOfRound
        <3>6. /\ entry' = ApplyProbeResult(m, failure)
              /\ lost'.reach = Streak(lost.reach, Internet(o, ready'), FailureThreshold)
            <4>1. entry' = ApplyProbeResult(m, failure)
                BY <2>2, RoundIsStages
            <4>2. lost' = Missed(o, ready', Measuring(o, ready'))
                BY <2>2, RoundIsStages
            <4>3. QED
                BY <4>1, <4>2 DEF Missed
        <3> HIDE DEF m, failure
        <3>7. /\ entry'.canaryOk = TRUE /\ entry'.throughputOk = TRUE
              /\ entry'.failures = IF failure = NoLayer THEN 0
                                   ELSE CountTo(entry.failures, FailureThreshold)
            BY <3>4, <3>5, <3>6, VerdictOfRound
        <3> DEFINE n == entry.failures
                   reach == lost.reach
        <3>8. CASE o.internet
            <4>1. entry'.state = "Up" /\ entry'.failures = 0
                BY <3>1, <3>4, <3>5, <3>6, <3>7, <3>8, VerdictOfRound
            <4>2. lost'.reach \in Nat
                BY <3>1, <3>6 DEF Streak, CountTo
            <4>3. QED
                BY <3>7, <4>1, <4>2 DEF Unsuspected
        <3>9. CASE ~o.internet
            <4>1. lost.reach + 1 < FailureThreshold /\ ~Internet(o, ready')
                BY <3>3, <3>9 DEF Harmless, Internet
            <4>2. failure \in {"Gateway", "Internet"} /\ failure # NoLayer
                BY <3>4, <3>9 DEF NoLayer
            <4>3. n <= reach /\ n \in Nat /\ reach \in Nat /\ reach + 1 < FailureThreshold
                BY <3>1, <4>1
            <4>4. entry'.failures = CountTo(n, FailureThreshold)
                BY <3>7, <4>2
            <4>5. lost'.reach = CountTo(reach, FailureThreshold)
                BY <3>6, <4>1 DEF Streak
            <4>6. m.failures + 1 < FailureThreshold
                BY <3>1, <3>5, <4>3
            <4>7. entry'.state = "Up"
                BY <3>1, <3>5, <3>6, <4>2, <4>6, VerdictOfRound
            <4> HIDE DEF n, reach
            <4>8. CountTo(n, FailureThreshold) <= CountTo(reach, FailureThreshold)
                BY <3>1, <4>3 DEF CountTo
            <4>9. QED
                BY <3>7, <4>4, <4>5, <4>7, <4>8 DEF Unsuspected
        <3>10. QED
            BY <3>8, <3>9
    <2>3. QED
        BY <2>1, <2>2 DEF Next
<1>2. QED
    BY <1>1, Healthy, PTL DEF Spec, NoFalseAlarm
=============================================================================

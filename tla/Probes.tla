------------------------------- MODULE Probes -------------------------------
(***************************************************************************)
(* What one probe makes of the network's answers: net/health.rs,           *)
(* net/canary.rs and net/http.rs as operators.  ProviderHealth runs them   *)
(* over time.                                                              *)
(*                                                                         *)
(* Packets, addresses and bodies are reduced to what the code tells apart. *)
(* A socket that cannot be given the provider's mark counts as silence or  *)
(* as an error: no probe leaves by another uplink.                         *)
(***************************************************************************)
EXTENDS Integers, FiniteSets

-----------------------------------------------------------------------------
(***************************************************************************)
(* DNS.  One resolver's reply to one query: nothing with our transaction   *)
(* id, an error code, no answers, answers that hold no address, or the     *)
(* first address.  Replies are in the order of the resolvers.              *)
(***************************************************************************)
Address == {"public", "private"}
DnsReply == {"silence", "refused", "empty", "alias"} \cup Address

\* non_routable_range: where no public name resolves to.
NonRoutable(address) == address = "private"

DnsReplyOk(reply) == reply \in {"alias"} \cup Address
DnsResponded(reply) == reply # "silence"

CheckDns(replies) == \E i \in DOMAIN replies : DnsReplyOk(replies[i])

ResolveA(replies) ==
  LET answering == {i \in DOMAIN replies : replies[i] \in Address}
  IN IF answering = {} THEN "nothing"
     ELSE replies[CHOOSE i \in answering : \A j \in answering : i <= j]

\* Asked for a name that cannot exist, only an address proves anything.
CheckDnsIntegrity(replies) ==
  IF ResolveA(replies) # "nothing" THEN "Hijacked"
  ELSE IF \E i \in DOMAIN replies : DnsResponded(replies[i]) THEN "Clean" ELSE "NoAnswer"

-----------------------------------------------------------------------------
(***************************************************************************)
(* ICMP.                                                                   *)
(***************************************************************************)
Clamped(n, least, most) == IF n < least THEN least ELSE IF n > most THEN most ELSE n

PingBurst(count, minSuccess, received) ==
  received >= Clamped(minSuccess, 1, Clamped(count, 1, count + 1))

CheckGateway(received) == PingBurst(1, 1, received)

\* A target is an address or a name; an answer to a name is not believed when
\* it points into private space.
TargetAnswers(t) ==
  /\ t.hostname => ResolveA(t.replies) \in {a \in Address : ~NonRoutable(a)}
  /\ PingBurst(3, 2, t.received)

\* One name has to answer if there are names, whatever the addresses do.
CheckInternet(targets) ==
  LET names == {t \in targets : t.hostname}
  IN \E t \in IF names = {} THEN targets ELSE names : TargetAnswers(t)

-----------------------------------------------------------------------------
(***************************************************************************)
(* HTTP.  An exchange is how it ended and what came back: how the body was *)
(* framed, whether it arrived whole and fits the cap, whether it is ours.  *)
(***************************************************************************)
Statuses == {200, 204, 302, 404, 511}

Exchange ==
  [ended : {"timeout", "error", "closed"}, status : Statuses,
   framing : {"chunked", "length"}, whole : BOOLEAN, fits : BOOLEAN, ours : BOOLEAN]

IsRedirect(status) == status \in {301, 302, 303, 307, 308}

\* parse_response.  Only the chunked framing notices a body that was cut short.
Truncated(x) == ~x.fits \/ (x.framing = "chunked" /\ ~x.whole)
Matches(x) == x.ours /\ x.whole

-----------------------------------------------------------------------------
(***************************************************************************)
(* check_one: one canary target, [named, expect, statusOnly].  Wrong       *)
(* content is told from a target that could not be asked.                  *)
(***************************************************************************)
Rejected(status) == status \in 400..599

CheckStatus(target, status) ==
  CASE IsRedirect(status) \/ status = 511 -> "Tampered"
    [] ~(IsRedirect(status) \/ status = 511) /\ status # target.expect ->
         IF Rejected(status) THEN "Unreachable" ELSE "Tampered"
    [] OTHER -> "Ok"

CheckBody(target, x) ==
  CASE target.statusOnly -> "Ok"
    [] ~target.statusOnly /\ Truncated(x) -> "Unreachable"
    [] OTHER -> IF Matches(x) THEN "Ok" ELSE "Tampered"

CheckOne(target, replies, x) ==
  LET address == ResolveA(replies)
      status == CheckStatus(target, x.status)
  IN CASE target.named /\ address = "nothing" -> "Unreachable"
       [] target.named /\ NonRoutable(address) -> "Tampered"
       [] OTHER -> IF x.ended # "closed" THEN "Unreachable"
                   ELSE IF status # "Ok" THEN status ELSE CheckBody(target, x)

-----------------------------------------------------------------------------
(***************************************************************************)
(* CanaryReport: the verdicts of all targets.  Proof of interception takes *)
(* wrong content and a failed quorum.                                      *)
(***************************************************************************)
Required(quorum, total) ==
  CASE quorum = "any" -> 1
    [] quorum = "majority" -> total \div 2 + 1
    [] quorum = "all" -> IF total = 0 THEN 1 ELSE total

Passed(verdicts) == Cardinality({t \in DOMAIN verdicts : verdicts[t] = "Ok"})
SomeTampered(verdicts) == \E t \in DOMAIN verdicts : verdicts[t] = "Tampered"
QuorumMet(verdicts, quorum) ==
  Passed(verdicts) >= Required(quorum, Cardinality(DOMAIN verdicts))

CanaryIsOk(verdicts, quorum) == ~SomeTampered(verdicts) /\ QuorumMet(verdicts, quorum)
ConclusiveTamper(verdicts, quorum) == SomeTampered(verdicts) /\ ~QuorumMet(verdicts, quorum)

\* What run_canary tells apart.  "partial": content came back wrong, but enough
\* other targets verified.
CanaryOutcomes == {"ok", "unreachable", "partial", "tampered"}

CanaryOutcome(verdicts, quorum) ==
  CASE ConclusiveTamper(verdicts, quorum) -> "tampered"
    [] CanaryIsOk(verdicts, quorum) -> "ok"
    [] OTHER -> IF SomeTampered(verdicts) THEN "partial" ELSE "unreachable"

-----------------------------------------------------------------------------
(***************************************************************************)
(* The throughput probe: bytes and milliseconds against a floor in kbit/s. *)
(* A transfer that did not finish in time was below the floor.             *)
(***************************************************************************)
MinMeasurableBytes == 16 * 1024

Kbps(bytes, millis) == (16 * bytes + millis) \div (2 * millis)

ClassifyThroughput(bytes, millis, floor) ==
  IF bytes < MinMeasurableBytes \/ millis = 0 THEN "Unmeasurable"
  ELSE IF Kbps(bytes, millis) < floor THEN "TooSlow" ELSE "Ok"

CheckThroughput(address, x, bytes, millis, floor) ==
  CASE address = "nothing" -> "Unmeasurable"
    [] address # "nothing" /\ x.ended # "closed" ->
         IF x.ended = "timeout" THEN "TooSlow" ELSE "Unmeasurable"
    [] OTHER -> IF x.status \in 200..299 THEN ClassifyThroughput(bytes, millis, floor)
                ELSE "Unmeasurable"
=============================================================================

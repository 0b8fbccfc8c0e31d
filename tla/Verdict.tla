------------------------------ MODULE Verdict ------------------------------
(***************************************************************************)
(* What the rest of the daemon may rely on about one provider's verdict,   *)
(* whatever the probes say: it is given in rounds, it never returns to     *)
(* Unknown, and it rises only after SuccessThreshold rounds of holding     *)
(* still.  ProviderHealth implements it; Gateway and Failover, which let a *)
(* verdict rise after any round, assume less than this.                    *)
(***************************************************************************)
EXTENDS Naturals

CONSTANT SuccessThreshold   \* health.success_threshold, at least 1

VARIABLES
  verdict,   \* ProviderState::state
  held       \* rounds it has been that, counted to SuccessThreshold - 1

Init == verdict = "Unknown" /\ held = 0

HeldLonger == IF held < SuccessThreshold - 1 THEN held + 1 ELSE held

Hold == verdict' = verdict /\ held' = HeldLonger

\* The successes that lift a provider all came since it was last failing.
Rise ==
  /\ verdict # "Up" /\ held = SuccessThreshold - 1
  /\ verdict' = "Up" /\ held' = 0

\* Proof of interception needs no repetition, so a fall may come any round.
Fall ==
  /\ verdict # "Down"
  /\ verdict' = "Down" /\ held' = 0

Spec == Init /\ [][Hold \/ Rise \/ Fall]_<<verdict, held>>
=============================================================================

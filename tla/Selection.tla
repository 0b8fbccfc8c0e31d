----------------------------- MODULE Selection -----------------------------
(***************************************************************************)
(* Provider selection and flap damping: the pure functions of              *)
(* src/src/core/selection.rs.  They hold no state; Gateway and Failover    *)
(* call them the way Balancer::reconcile_inner does.                       *)
(*                                                                         *)
(* A view of the providers is split in the two things a decision reads:    *)
(*   state    [Providers -> ProbeState]      ProviderView::state           *)
(*   settled  the providers whose up_since is at least the effective       *)
(*            failback window old            ProviderView::stable_for      *)
(* Reason strings and the countdowns shown to the operator are left out.   *)
(***************************************************************************)
EXTENDS Integers, FiniteSets, Sequences

CONSTANTS
  Providers,   \* the configured providers
  Priority,    \* Priority[p]: lower is preferred (ProviderView::priority)
  None         \* "no provider" (Option::None)

\* Config::validate rejects duplicate names and duplicate priorities.
ASSUME ProvidersAssumption ==
  /\ IsFiniteSet(Providers)
  /\ None \notin Providers

ASSUME PriorityAssumption ==
  /\ Priority \in [Providers -> Nat]
  /\ \A p, q \in Providers : Priority[p] = Priority[q] => p = q

ProbeState == {"Unknown", "Up", "Down"}

MaybeProvider == Providers \cup {None}

(***************************************************************************)
(* Views.                                                                  *)
(***************************************************************************)

\* ProviderView::is_up, over the whole view.
Healthy(state) == {p \in Providers : state[p] = "Up"}

\* The healthy provider with the lowest priority number.
BestHealthy(state) ==
  CHOOSE p \in Healthy(state) :
    \A q \in Healthy(state) : Priority[p] <= Priority[q]

\* Providers continuously healthy for at least `window`; `since` maps a
\* provider to the time it came up, or None while it is not up.  A clock that
\* stepped back makes the elapsed time negative, which is not stable.
Settled(since, now, window) ==
  {p \in Providers : since[p] # None /\ now - since[p] >= window}

(***************************************************************************)
(* The decision.                                                           *)
(***************************************************************************)

Decision == [kind : {"Keep", "Switch", "NoHealthyProvider", "WaitingForVerdict",
                     "WaitingForFirstVerdict", "WaitingForFailback"},
             to   : MaybeProvider]

\* `to` is the target of a switch, the candidate of a wait, None otherwise.
Outcome(kind, to) == [kind |-> kind, to |-> to]

SwitchOrKeep(current, target) ==
  IF current = target THEN Outcome("Keep", None) ELSE Outcome("Switch", target)

\* Providers preferred to `best` that have not been probed to a verdict.
BetterUnknown(state, best) ==
  {p \in Providers : state[p] = "Unknown" /\ Priority[p] < Priority[best]}

\* An operator pin is obeyed while it is usable; otherwise the best healthy
\* provider serves, with neither a stability window nor a wait for verdicts.
DecidePinned(current, forced, state) ==
  IF Healthy(state) = {} THEN Outcome("NoHealthyProvider", None)
  ELSE SwitchOrKeep(current, IF forced \in Healthy(state) THEN forced
                             ELSE BestHealthy(state))

\* Nothing installed yet: a better provider still unproven is waited for.
DecideColdStart(state, best) ==
  IF BetterUnknown(state, best) # {} THEN Outcome("WaitingForFirstVerdict", best)
  ELSE Outcome("Switch", best)

\* mutant: moves back as soon as a better provider is healthy
DecideIncumbentEager(current, state, settled, best) ==
  CASE current = best         -> Outcome("Keep", None)
    [] current # best         -> Outcome("Switch", best)

\* mutant: a broken incumbent is left only for a settled provider
DecideIncumbentPatient(current, state, settled, best) ==
  CASE current = best         -> Outcome("Keep", None)
    [] current # best /\ best \in settled -> Outcome("Switch", best)
    [] OTHER                  -> Outcome("WaitingForFailback", best)

\* Something installed: a provider that is gone or down is left at once, an
\* unproven one is kept, a healthy one is left only for a settled better one.
DecideIncumbent(current, state, settled, best) ==
  CASE current = best -> Outcome("Keep", None)
    [] current # best /\ current \notin Providers -> Outcome("Switch", best)
    [] current # best /\ current \in Providers ->
         CASE state[current] = "Down"    -> Outcome("Switch", best)
           [] state[current] = "Unknown" -> Outcome("WaitingForVerdict", best)
           [] state[current] = "Up"      ->
                IF best \in settled THEN Outcome("Switch", best)
                ELSE Outcome("WaitingForFailback", best)

Decide(current, forced, state, settled) ==
  IF forced # None THEN DecidePinned(current, forced, state)
  ELSE IF Healthy(state) = {} THEN Outcome("NoHealthyProvider", None)
  ELSE IF current = None THEN DecideColdStart(state, BestHealthy(state))
  ELSE DecideIncumbent(current, state, settled, BestHealthy(state))

(***************************************************************************)
(* FlapTracker: the times of recent switches, oldest first.                *)
(***************************************************************************)

Smaller(a, b) == IF a <= b THEN a ELSE b

\* The newest `cap` entries (256 in the code).
Newest(switches, cap) ==
  SubSeq(switches, 1 + Len(switches) - Smaller(Len(switches), cap), Len(switches))

RecordSwitch(switches, at, cap) == Newest(Append(switches, at), cap)

SwitchesInWindow(switches, now, window) ==
  Cardinality({i \in DOMAIN switches : switches[i] >= now - window})

\* `base`, doubled for every recent switch past `threshold`, at most `max`.
\* The code's 2^16 clamp and its saturation on overflow both lie past any cap.
EffectiveFailback(recent, base, threshold, max) ==
  IF recent <= threshold THEN Smaller(base, max)
  ELSE Smaller(base * 2 ^ Smaller(recent - threshold, 16), max)
=============================================================================

------------------------------ MODULE Gateway ------------------------------
(***************************************************************************)
(* What the gateway promises about which provider owns the default route,  *)
(* with real time but without concurrency: every handler that ends in      *)
(* Balancer::reconcile_inner is one step.  Failover splits the same        *)
(* handlers at their await points.                                         *)
(*                                                                         *)
(*   ProbeRound(p, s)  one tick of p's health_loop: the verdict is applied *)
(*                     (apply_probe_result) and the route reconciled       *)
(*   ForceProvider(p)  the operator's `vlb force`                          *)
(*   ClearForce        the operator's `vlb auto`                           *)
(*   Restart           a crash, reboot or update, then Balancer::new       *)
(*   Tick              one second passes; every loop may tick once in it   *)
(***************************************************************************)
EXTENDS Selection

CONSTANTS
  FailbackBase,    \* failover.failback_stable_secs
  FailbackMax,     \* failover.max_failback_stable_secs
  FlapThreshold,   \* failover.flap_threshold
  FlapWindow,      \* failover.flap_window_secs
  FlapCap,         \* switches remembered (256 in the code)
  Steady,          \* providers that never fail a verdict (an environment)
  Commands,        \* BOOLEAN: the operator uses force and auto
  Restarts,        \* BOOLEAN: the daemon is restarted
  SwitchBudget,    \* what SwitchRateIsDamped allows inside one FlapWindow
  MaxTime          \* bound: the clock stops here

\* Config::validate: the maximum is not below the base, the threshold not 0.
ASSUME FlapAssumption ==
  /\ FailbackBase \in Nat /\ FailbackMax \in Nat /\ FailbackBase <= FailbackMax
  /\ FlapThreshold \in Nat \ {0} /\ FlapWindow \in Nat /\ FlapCap \in Nat \ {0}

\* up_since is a time or nothing.
ASSUME NoneIsNoTime == None \notin Int

ASSUME EnvironmentAssumption ==
  /\ Steady \subseteq Providers
  /\ Commands \in BOOLEAN /\ Restarts \in BOOLEAN
  /\ SwitchBudget \in Nat /\ MaxTime \in Nat

VARIABLES
  now,       \* seconds since the start
  state,     \* ProviderState::state of each provider
  since,     \* ProviderState::up_since, None unless up
  probed,    \* providers whose health_loop has ticked in this second
  owner,     \* Balancer::active, which here also is the installed route
  forced,    \* force_override, which here also is its persisted copy
  switches,  \* FlapTracker::switches
  failovers  \* times of the newest FlapCap switches in the failovers
             \* table, oldest first: no query returns more

vars == <<now, state, since, probed, owner, forced, switches, failovers>>

TypeOK ==
  /\ now \in Nat
  /\ state \in [Providers -> ProbeState]
  /\ since \in [Providers -> Nat \cup {None}]
  /\ \A p \in Providers : since[p] = None <=> state[p] # "Up"
  /\ probed \subseteq Providers
  /\ owner \in MaybeProvider
  /\ forced \in MaybeProvider
  /\ switches \in Seq(Nat) /\ Len(switches) <= FlapCap
  /\ failovers \in Seq(Nat) /\ Len(failovers) <= FlapCap

-----------------------------------------------------------------------------
\* A started daemon knows nothing of its providers; it adopts an installed
\* route of its own making, restores the pin and the recent switches.
Fresh ==
  /\ state' = [p \in Providers |-> "Unknown"]
  /\ since' = [p \in Providers |-> None]

Init ==
  /\ now = 0
  /\ state = [p \in Providers |-> "Unknown"]
  /\ since = [p \in Providers |-> None]
  /\ probed = {}
  /\ owner \in MaybeProvider
  /\ forced \in IF Commands THEN MaybeProvider ELSE {None}
  /\ switches = << >>
  /\ failovers = << >>

\* mutant: doubling without the cap
UncappedWindow ==
  FailbackBase * 2 ^ SwitchesInWindow(switches, now, FlapWindow)

FailbackWindow ==
  EffectiveFailback(SwitchesInWindow(switches, now, FlapWindow),
                    FailbackBase, FlapThreshold, FailbackMax)

DecisionFor(st, si, pin) ==
  Decide(owner, pin, st, Settled(si, now, FailbackWindow))

\* reconcile_inner on the given view and pin.  The first installation of a
\* route is not a switch as far as flap damping is concerned.
Reconcile(st, si, pin) ==
  LET d == DecisionFor(st, si, pin)
      counted == d.kind = "Switch" /\ owner # None
  IN /\ owner' = IF d.kind = "Switch" THEN d.to ELSE owner
     /\ switches' = IF counted THEN RecordSwitch(switches, now, FlapCap)
                    ELSE switches
     /\ failovers' = IF counted THEN RecordSwitch(failovers, now, FlapCap)
                     ELSE failovers

\* The verdicts a round may leave p with: see module ProviderHealth.
Verdicts(p) ==
  {"Up"} \cup (IF state[p] = "Unknown" THEN {"Unknown"} ELSE {})
         \cup (IF p \in Steady THEN {} ELSE {"Down"})

\* mutant: up_since outlives the spell it belongs to
SinceAfterSticky(p, s) == IF s = "Up" /\ state[p] # "Up" THEN now ELSE since[p]

\* up_since is set on the way up and cleared on the way down.
SinceAfter(p, s) ==
  CASE s = "Up" /\ state[p] # "Up" -> now
    [] s = "Up" /\ state[p] = "Up" -> since[p]
    [] s # "Up"                    -> None

ProbeRound(p, s) ==
  /\ p \notin probed
  /\ s \in Verdicts(p)
  /\ probed' = probed \cup {p}
  /\ state' = [state EXCEPT ![p] = s]
  /\ since' = [since EXCEPT ![p] = SinceAfter(p, s)]
  /\ Reconcile(state', since', forced)
  /\ UNCHANGED <<now, forced>>

\* mutant: `force` waits for the next health tick to move the route
ForceProviderLazy(p) ==
  /\ forced' = p
  /\ UNCHANGED <<now, state, since, probed, owner, switches, failovers>>

\* force_provider accepts a provider in any state.
ForceProvider(p) ==
  /\ forced' = p
  /\ Reconcile(state, since, p)
  /\ UNCHANGED <<now, state, since, probed>>

\* clear_force
ClearForce ==
  /\ forced' = None
  /\ Reconcile(state, since, None)
  /\ UNCHANGED <<now, state, since, probed>>

\* mutant: the flap history is not restored
NoHistory == << >>

\* failover_times_since(now - window), then FlapTracker::with_history: the
\* recorded switches are in the order of their times.
RestoredHistory ==
  Newest(failovers, SwitchesInWindow(failovers, now, FlapWindow))

\* The route survives a restart of the process, not one of the machine.
Restart ==
  /\ Fresh
  /\ owner' \in {owner, None}
  /\ switches' = RestoredHistory
  /\ UNCHANGED <<now, probed, forced, failovers>>

Tick ==
  /\ now < MaxTime
  /\ now' = now + 1
  /\ probed' = {}
  /\ UNCHANGED <<state, since, owner, forced, switches, failovers>>

Next ==
  \/ \E p \in Providers, s \in ProbeState : ProbeRound(p, s)
  \/ Commands /\ \E p \in Providers : ForceProvider(p)
  \/ Commands /\ ClearForce
  \/ Restarts /\ Restart
  \/ Tick

Spec == Init /\ [][Next]_vars

-----------------------------------------------------------------------------
(***************************************************************************)
(* Properties.                                                             *)
(***************************************************************************)

\* Escaping a broken provider is unconditional and immediate: no step leaves
\* the route on a provider known to be down while a healthy one exists,
\* whatever the pin, the flap history or the unproven providers say.
EscapeIsImmediate ==
  owner # None /\ state[owner] = "Down" => Healthy(state) = {}

\* The operator's pin wins whenever it is usable: no step, not even a verdict
\* about another provider, leaves the route elsewhere while the pin is up.
PinWinsWhenUsable ==
  forced # None /\ state[forced] = "Up" => owner = forced

\* The route only ever moves onto a provider that is up after the step. Without
\* a pin an adopted incumbent is not abandoned before it has a verdict of its
\* own (an update costs no switch), and one that works is left only for a
\* preferred provider that has been up, without a break, for at least the base
\* failback window.
MovesAreJustified ==
  [][ owner' # owner /\ owner' # None
      => /\ state'[owner'] = "Up"
         /\ forced' = None /\ owner # None
            => /\ state'[owner] # "Unknown"
               /\ state'[owner] = "Up"
                  => /\ Priority[owner'] < Priority[owner]
                     /\ since'[owner'] # None
                     /\ now - since'[owner'] >= FailbackBase ]_vars

\* Damping never starves the failback: once the best provider has been up for
\* the maximum window, the first round of that second has moved the route to
\* it, however many switches the tracker remembers.
FailbackIsNotStarved ==
  LET best == BestHealthy(state)
  IN /\ probed # {} /\ forced = None /\ Healthy(state) # {}
     /\ owner # None /\ state[owner] # "Unknown"
     /\ now - since[best] >= FailbackMax
     => owner = best

\* One uplink flapping as fast as it can next to a steady backup causes at
\* most SwitchBudget switches in any flap window: across restarts too.
SwitchRateIsDamped ==
  SwitchesInWindow(failovers, now, FlapWindow) <= SwitchBudget
=============================================================================

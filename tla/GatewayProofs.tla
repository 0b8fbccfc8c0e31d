--------------------------- MODULE GatewayProofs ---------------------------
(***************************************************************************)
(* The promises of Gateway hold for any number of providers, any           *)
(* priorities, any windows and thresholds and an unbounded history.        *)
(***************************************************************************)
EXTENDS Gateway, SelectionProofs

-----------------------------------------------------------------------------
(***************************************************************************)
(* Types.                                                                  *)
(***************************************************************************)

\* The failback window in force lies between its configured bounds.
LEMMA WindowBounds ==
  ASSUME TypeOK
  PROVE  FailbackWindow \in Nat /\ FailbackBase <= FailbackWindow /\ FailbackWindow <= FailbackMax
<1>1. SwitchesInWindow(switches, now, FlapWindow) \in Nat
  BY FlapAssumption, SwitchesAreCounted DEF TypeOK
<1>2. QED
  BY <1>1, FlapAssumption, EffectiveFailbackBounds DEF FailbackWindow

\* Recording a switch leaves a bounded sequence of times.
LEMMA RecordSwitchType ==
  ASSUME NEW times \in Seq(Nat), NEW at \in Nat
  PROVE  /\ RecordSwitch(times, at, FlapCap) \in Seq(Nat)
         /\ Len(RecordSwitch(times, at, FlapCap)) <= FlapCap
<1>1. Append(times, at) \in Seq(Nat) /\ FlapCap \in Nat
  BY FlapAssumption
<1>2. QED
  BY <1>1, NewestIsBounded DEF RecordSwitch

\* A reconcile leaves its variables well typed, whatever view it is given.
LEMMA ReconcileType ==
  ASSUME TypeOK, NEW st \in [Providers -> ProbeState], NEW si, NEW pin,
         Reconcile(st, si, pin)
  PROVE  /\ owner' \in MaybeProvider
         /\ switches' \in Seq(Nat) /\ Len(switches') <= FlapCap
         /\ failovers' \in Seq(Nat) /\ Len(failovers') <= FlapCap
<1> DEFINE d == DecisionFor(st, si, pin)
<1>1. d.kind = "Switch" => d.to \in Providers
  BY SwitchIsToHealthy DEF DecisionFor, Healthy
<1>2. owner' = IF d.kind = "Switch" THEN d.to ELSE owner
  BY DEF Reconcile
<1>3. owner' \in MaybeProvider
  BY <1>1, <1>2 DEF TypeOK, MaybeProvider
<1>4. /\ switches' \in {switches, RecordSwitch(switches, now, FlapCap)}
      /\ failovers' \in {failovers, RecordSwitch(failovers, now, FlapCap)}
  BY DEF Reconcile
<1>5. QED
  BY <1>3, <1>4, RecordSwitchType DEF TypeOK

\* Every variable keeps its type, a provider has an up_since exactly while it
\* is up, and no history outgrows its cap.
THEOREM TypeCorrect == Spec => []TypeOK
<1>1. Init => TypeOK
  BY FlapAssumption DEF Init, TypeOK, ProbeState, MaybeProvider
<1>2. TypeOK /\ [Next]_vars => TypeOK'
  <2> SUFFICES ASSUME TypeOK, [Next]_vars PROVE TypeOK'
    OBVIOUS
  <2>1. ASSUME NEW p \in Providers, NEW s \in ProbeState, ProbeRound(p, s)
        PROVE  TypeOK'
    <3>1. state' \in [Providers -> ProbeState]
      BY <2>1 DEF ProbeRound, TypeOK
    <3>2. /\ since' \in [Providers -> Nat \cup {None}]
          /\ \A q \in Providers : since'[q] = None <=> state'[q] # "Up"
      BY <2>1, NoneIsNoTime DEF ProbeRound, TypeOK, SinceAfter, ProbeState
    <3>3. Reconcile(state', since', forced)
      BY <2>1 DEF ProbeRound
    <3>4. /\ owner' \in MaybeProvider
          /\ switches' \in Seq(Nat) /\ Len(switches') <= FlapCap
          /\ failovers' \in Seq(Nat) /\ Len(failovers') <= FlapCap
      BY <3>1, <3>3, ReconcileType
    <3>5. now' \in Nat /\ probed' \subseteq Providers /\ forced' \in MaybeProvider
      BY <2>1 DEF ProbeRound, TypeOK
    <3>6. QED
      BY <3>1, <3>2, <3>4, <3>5 DEF TypeOK
  <2>2. ASSUME NEW p \in Providers, ForceProvider(p) PROVE TypeOK'
    <3>1. state \in [Providers -> ProbeState]
      BY DEF TypeOK
    <3>2. /\ owner' \in MaybeProvider
          /\ switches' \in Seq(Nat) /\ Len(switches') <= FlapCap
          /\ failovers' \in Seq(Nat) /\ Len(failovers') <= FlapCap
      BY <2>2, <3>1, ReconcileType DEF ForceProvider
    <3>3. QED
      BY <2>2, <3>2 DEF ForceProvider, TypeOK, MaybeProvider
  <2>3. ASSUME ClearForce PROVE TypeOK'
    <3>1. state \in [Providers -> ProbeState]
      BY DEF TypeOK
    <3>2. /\ owner' \in MaybeProvider
          /\ switches' \in Seq(Nat) /\ Len(switches') <= FlapCap
          /\ failovers' \in Seq(Nat) /\ Len(failovers') <= FlapCap
      BY <2>3, <3>1, ReconcileType DEF ClearForce
    <3>3. QED
      BY <2>3, <3>2 DEF ClearForce, TypeOK, MaybeProvider
  <2>4. ASSUME Restart PROVE TypeOK'
    <3>1. SwitchesInWindow(failovers, now, FlapWindow) \in Nat
      BY FlapAssumption, SwitchesAreCounted DEF TypeOK
    <3>2. switches' \in Seq(Nat) /\ Len(switches') <= Len(failovers)
      BY <2>4, <3>1, NewestIsBounded DEF Restart, RestoredHistory, TypeOK
    <3>3. Len(switches') <= FlapCap
      BY <3>2, FlapAssumption DEF TypeOK
    <3>4. QED
      BY <2>4, <3>2, <3>3 DEF Restart, Fresh, TypeOK, ProbeState, MaybeProvider
  <2>5. ASSUME Tick PROVE TypeOK'
    BY <2>5 DEF Tick, TypeOK
  <2>6. ASSUME UNCHANGED vars PROVE TypeOK'
    BY <2>6 DEF vars, TypeOK
  <2>7. QED
    BY <2>1, <2>2, <2>3, <2>4, <2>5, <2>6 DEF Next
<1>3. QED
  BY <1>1, <1>2, PTL DEF Spec

-----------------------------------------------------------------------------
(***************************************************************************)
(* The promises.  All of them follow from what one reconcile guarantees of *)
(* the view and the pin it is given.                                       *)
(***************************************************************************)

\* reconcile_inner: where the route may be afterwards, and when it may move.
LEMMA ReconcileGuarantees ==
  ASSUME TypeOK, NEW st \in [Providers -> ProbeState], NEW si, NEW pin \in MaybeProvider,
         Reconcile(st, si, pin)
  PROVE  /\ owner' # None /\ st[owner'] = "Down" => Healthy(st) = {}
         /\ pin # None /\ st[pin] = "Up" => owner' = pin
         /\ owner' # owner => st[owner'] = "Up"
         /\ pin = None /\ owner # None /\ st[owner] = "Unknown" => owner' = owner
         /\ pin = None /\ owner # None /\ st[owner] = "Up" /\ owner' # owner
              => /\ owner' \in Settled(si, now, FailbackWindow)
                 /\ Priority[owner'] < Priority[owner]
<1> DEFINE settled == Settled(si, now, FailbackWindow)
           d == Decide(owner, pin, st, settled)
<1>1. owner' = IF d.kind = "Switch" THEN d.to ELSE owner
  BY DEF Reconcile, DecisionFor
<1>2. owner \in MaybeProvider
  BY DEF TypeOK
<1> HIDE DEF settled
<1>3. d.kind = "Switch" => d.to \in Healthy(st) /\ d.to # owner
  BY SwitchIsToHealthy
<1>4. owner' # owner => d.kind = "Switch" /\ owner' = d.to
  BY <1>1
<1>5. owner' # None /\ st[owner'] = "Down" => Healthy(st) = {}
  <2> SUFFICES ASSUME owner' # None, st[owner'] = "Down", Healthy(st) # {} PROVE FALSE
    OBVIOUS
  <2>1. owner' = owner
    BY <1>3, <1>4 DEF Healthy
  <2>2. owner \in Providers /\ st[owner] = "Down"
    BY <1>2, <2>1 DEF MaybeProvider
  <2>3. d.kind = "Switch"
    BY <2>2, DownIsEscaped
  <2>4. QED
    BY <1>1, <1>3, <2>1, <2>3
<1>6. pin # None /\ st[pin] = "Up" => owner' = pin
  <2> SUFFICES ASSUME pin # None, st[pin] = "Up" PROVE owner' = pin
    OBVIOUS
  <2>1. pin \in Providers
    BY DEF MaybeProvider
  <2>2. QED
    BY <1>1, <2>1, UsablePinIsObeyed
<1>7. owner' # owner => st[owner'] = "Up"
  BY <1>3, <1>4 DEF Healthy
<1>8. pin = None /\ owner # None /\ st[owner] = "Unknown" => owner' = owner
  BY <1>2, <1>4, UnprovenIsKept DEF MaybeProvider
<1>9. pin = None /\ owner # None /\ st[owner] = "Up" /\ owner' # owner
        => owner' \in settled /\ Priority[owner'] < Priority[owner]
  BY <1>2, <1>4, FailbackIsToSettled DEF MaybeProvider
<1>10. QED
  BY <1>5, <1>6, <1>7, <1>8, <1>9 DEF settled

\* No step leaves the route on a provider known to be down while another is
\* up: apply_probe_result and the commands all end in a reconcile.
THEOREM EscapesAtOnce == Spec => []EscapeIsImmediate
<1>1. Init => EscapeIsImmediate
  BY DEF Init, EscapeIsImmediate, Healthy
<1>2. TypeOK /\ TypeOK' /\ EscapeIsImmediate /\ [Next]_vars => EscapeIsImmediate'
  <2> SUFFICES ASSUME TypeOK, TypeOK', EscapeIsImmediate, [Next]_vars
               PROVE  EscapeIsImmediate'
    OBVIOUS
  <2>1. ASSUME NEW p \in Providers, NEW s \in ProbeState, ProbeRound(p, s)
        PROVE  EscapeIsImmediate'
    <3>1. /\ state' \in [Providers -> ProbeState] /\ forced \in MaybeProvider
          /\ Reconcile(state', since', forced)
      BY <2>1 DEF ProbeRound, TypeOK
    <3>2. owner' # None /\ state'[owner'] = "Down" => Healthy(state') = {}
      BY <3>1, ReconcileGuarantees
    <3>3. QED
      BY <3>2 DEF EscapeIsImmediate
  <2>2. ASSUME NEW p \in Providers, ForceProvider(p) PROVE EscapeIsImmediate'
    <3>1. /\ state \in [Providers -> ProbeState] /\ p \in MaybeProvider
          /\ Reconcile(state, since, p) /\ state' = state
      BY <2>2 DEF ForceProvider, TypeOK, MaybeProvider
    <3>2. owner' # None /\ state[owner'] = "Down" => Healthy(state) = {}
      BY <3>1, ReconcileGuarantees
    <3>3. QED
      BY <3>1, <3>2 DEF EscapeIsImmediate
  <2>3. ASSUME ClearForce PROVE EscapeIsImmediate'
    <3>1. /\ state \in [Providers -> ProbeState] /\ None \in MaybeProvider
          /\ Reconcile(state, since, None) /\ state' = state
      BY <2>3 DEF ClearForce, TypeOK, MaybeProvider
    <3>2. owner' # None /\ state[owner'] = "Down" => Healthy(state) = {}
      BY <3>1, ReconcileGuarantees
    <3>3. QED
      BY <3>1, <3>2 DEF EscapeIsImmediate
  <2>4. ASSUME Restart PROVE EscapeIsImmediate'
    BY <2>4 DEF Restart, Fresh, EscapeIsImmediate, Healthy
  <2>5. ASSUME Tick PROVE EscapeIsImmediate'
    BY <2>5 DEF Tick, EscapeIsImmediate
  <2>6. ASSUME UNCHANGED vars PROVE EscapeIsImmediate'
    BY <2>6 DEF vars, EscapeIsImmediate
  <2>7. QED
    BY <2>1, <2>2, <2>3, <2>4, <2>5, <2>6 DEF Next
<1>3. QED
  BY <1>1, <1>2, TypeCorrect, PTL DEF Spec

\* No step leaves the route elsewhere while the operator's pin is up.
THEOREM PinWins == Spec => []PinWinsWhenUsable
<1>1. Init => PinWinsWhenUsable
  BY DEF Init, PinWinsWhenUsable, MaybeProvider
<1>2. TypeOK /\ TypeOK' /\ PinWinsWhenUsable /\ [Next]_vars => PinWinsWhenUsable'
  <2> SUFFICES ASSUME TypeOK, TypeOK', PinWinsWhenUsable, [Next]_vars
               PROVE  PinWinsWhenUsable'
    OBVIOUS
  <2>1. ASSUME NEW p \in Providers, NEW s \in ProbeState, ProbeRound(p, s)
        PROVE  PinWinsWhenUsable'
    <3>1. /\ state' \in [Providers -> ProbeState] /\ forced \in MaybeProvider
          /\ Reconcile(state', since', forced) /\ forced' = forced
      BY <2>1 DEF ProbeRound, TypeOK
    <3>2. forced # None /\ state'[forced] = "Up" => owner' = forced
      BY <3>1, ReconcileGuarantees
    <3>3. QED
      BY <3>1, <3>2 DEF PinWinsWhenUsable
  <2>2. ASSUME NEW p \in Providers, ForceProvider(p) PROVE PinWinsWhenUsable'
    <3>1. /\ state \in [Providers -> ProbeState] /\ p \in MaybeProvider
          /\ Reconcile(state, since, p) /\ state' = state /\ forced' = p
      BY <2>2 DEF ForceProvider, TypeOK, MaybeProvider
    <3>2. p # None /\ state[p] = "Up" => owner' = p
      BY <3>1, ReconcileGuarantees
    <3>3. QED
      BY <3>1, <3>2 DEF PinWinsWhenUsable
  <2>3. ASSUME ClearForce PROVE PinWinsWhenUsable'
    BY <2>3 DEF ClearForce, PinWinsWhenUsable
  <2>4. ASSUME Restart PROVE PinWinsWhenUsable'
    BY <2>4 DEF Restart, Fresh, PinWinsWhenUsable, TypeOK, MaybeProvider
  <2>5. ASSUME Tick PROVE PinWinsWhenUsable'
    BY <2>5 DEF Tick, PinWinsWhenUsable
  <2>6. ASSUME UNCHANGED vars PROVE PinWinsWhenUsable'
    BY <2>6 DEF vars, PinWinsWhenUsable
  <2>7. QED
    BY <2>1, <2>2, <2>3, <2>4, <2>5, <2>6 DEF Next
<1>3. QED
  BY <1>1, <1>2, TypeCorrect, PTL DEF Spec

\* The steps that leave the route alone, and those that reconcile: what an
\* action property has to look at.
LEMMA OwnerMovesByReconcile ==
  ASSUME TypeOK, TypeOK', [Next]_vars, owner' # owner, owner' # None
  PROVE  /\ state' \in [Providers -> ProbeState] /\ forced' \in MaybeProvider
         /\ Reconcile(state', since', forced')
<1>1. state' \in [Providers -> ProbeState] /\ forced' \in MaybeProvider
  BY DEF TypeOK
<1>2. ASSUME NEW p \in Providers, NEW s \in ProbeState, ProbeRound(p, s)
      PROVE  Reconcile(state', since', forced')
  BY <1>2 DEF ProbeRound
<1>3. ASSUME NEW p \in Providers, ForceProvider(p)
      PROVE  Reconcile(state', since', forced')
  BY <1>3 DEF ForceProvider
<1>4. ASSUME ClearForce PROVE Reconcile(state', since', forced')
  BY <1>4 DEF ClearForce
<1>5. ~Restart /\ ~Tick /\ ~UNCHANGED vars
  BY DEF Restart, Tick, vars
<1>6. QED
  BY <1>1, <1>2, <1>3, <1>4, <1>5 DEF Next

\* The route moves only onto a provider that is up; without a pin it never
\* leaves an incumbent without a verdict, and leaves a working one only for a
\* preferred provider that has been up for the base window at least.
THEOREM OnlyJustifiedMoves == Spec => MovesAreJustified
<1>1. ASSUME TypeOK, TypeOK', [Next]_vars, owner' # owner, owner' # None
      PROVE  state'[owner'] = "Up"
  BY <1>1, OwnerMovesByReconcile, ReconcileGuarantees
<1>2. ASSUME TypeOK, TypeOK', [Next]_vars, owner' # owner, owner' # None,
             forced' = None, owner # None
      PROVE  state'[owner] # "Unknown"
  BY <1>2, OwnerMovesByReconcile, ReconcileGuarantees
<1>3. ASSUME TypeOK, TypeOK', [Next]_vars, owner' # owner, owner' # None,
             forced' = None, owner # None, state'[owner] = "Up"
      PROVE  /\ Priority[owner'] < Priority[owner]
             /\ since'[owner'] # None
             /\ now - since'[owner'] >= FailbackBase
  <2>1. /\ owner' \in Settled(since', now, FailbackWindow)
        /\ Priority[owner'] < Priority[owner]
    BY <1>3, OwnerMovesByReconcile, ReconcileGuarantees
  <2>2. /\ since'[owner'] \in Nat /\ since'[owner'] # None
        /\ now - since'[owner'] >= FailbackWindow
    BY <1>3, <2>1 DEF Settled, TypeOK
  <2>3. now \in Nat /\ FailbackBase \in Nat /\ FailbackWindow \in Nat
        /\ FailbackBase <= FailbackWindow
    BY <1>3, WindowBounds, FlapAssumption DEF TypeOK
  <2>4. QED
    BY <2>1, <2>2, <2>3
<1>4. TypeOK /\ TypeOK' /\ [Next]_vars
      => [ owner' # owner /\ owner' # None
           => /\ state'[owner'] = "Up"
              /\ forced' = None /\ owner # None
                 => /\ state'[owner] # "Unknown"
                    /\ state'[owner] = "Up"
                       => /\ Priority[owner'] < Priority[owner]
                          /\ since'[owner'] # None
                          /\ now - since'[owner'] >= FailbackBase ]_vars
  BY <1>1, <1>2, <1>3
<1>5. QED
  BY <1>4, TypeCorrect, PTL DEF Spec, MovesAreJustified

\* Once the best provider is settled, a reconcile without a pin leaves the
\* route on it, or nowhere, or on an incumbent still unproven.
LEMMA ReconcileFailsBack ==
  ASSUME TypeOK, NEW st \in [Providers -> ProbeState], NEW si,
         Reconcile(st, si, None), Healthy(st) # {},
         BestHealthy(st) \in Settled(si, now, FailbackWindow)
  PROVE  owner' # None /\ st[owner'] # "Unknown" => owner' = BestHealthy(st)
<1> DEFINE settled == Settled(si, now, FailbackWindow)
           best == BestHealthy(st)
           d == Decide(owner, None, st, settled)
<1>1. owner' = IF d.kind = "Switch" THEN d.to ELSE owner
  BY DEF Reconcile, DecisionFor
<1>2. owner \in MaybeProvider
  BY DEF TypeOK
<1>3. best \in settled
  OBVIOUS
<1> HIDE DEF settled, best
<1>4. CASE owner = None
  <2>1. d.kind = "Switch" => d.to = best
    BY <1>4 DEF Decide, DecideColdStart, Outcome, best
  <2>2. QED
    BY <1>1, <1>4, <2>1 DEF best
<1>5. CASE owner \in Providers
  <2>1. d = DecideIncumbent(owner, st, settled, best)
    BY <1>5, ProvidersAssumption DEF Decide, best
  <2>2. CASE st[owner] = "Unknown"
    BY <1>1, <1>5, <2>2, UnprovenIsKept
  <2>3. CASE st[owner] = "Down"
    <3>1. owner # best => d.kind = "Switch" /\ d.to = best
      BY <1>5, <2>1, <2>3 DEF DecideIncumbent, Outcome
    <3>2. owner = best => d.kind = "Keep"
      BY <2>1 DEF DecideIncumbent, Outcome
    <3>3. QED
      BY <1>1, <3>1, <3>2 DEF best
  <2>4. CASE st[owner] = "Up"
    <3>1. owner # best => d.kind = "Switch" /\ d.to = best
      BY <1>3, <1>5, <2>1, <2>4 DEF DecideIncumbent, Outcome
    <3>2. owner = best => d.kind = "Keep"
      BY <2>1 DEF DecideIncumbent, Outcome
    <3>3. QED
      BY <1>1, <3>1, <3>2 DEF best
  <2>5. QED
    BY <1>5, <2>2, <2>3, <2>4 DEF ProbeState
<1>6. QED
  BY <1>2, <1>4, <1>5 DEF MaybeProvider

\* Damping never starves the failback, however many switches are remembered:
\* the window in force never exceeds max_failback_stable_secs.
THEOREM FailbackHappens == Spec => []FailbackIsNotStarved
<1>1. Init => FailbackIsNotStarved
  BY DEF Init, FailbackIsNotStarved
<1>2. ASSUME TypeOK, TypeOK', NEW st \in [Providers -> ProbeState], st = state',
             Reconcile(st, since', None), now' = now, Healthy(st) # {},
             now' - since'[BestHealthy(st)] >= FailbackMax,
             owner' # None, st[owner'] # "Unknown"
      PROVE  owner' = BestHealthy(st)
  <2>1. BestHealthy(st) \in Providers /\ st[BestHealthy(st)] = "Up"
    BY <1>2, BestHealthyIsBest DEF Healthy
  <2>2. since'[BestHealthy(st)] \in Nat /\ since'[BestHealthy(st)] # None
    BY <1>2, <2>1 DEF TypeOK
  <2>3. /\ now \in Nat /\ FailbackWindow \in Nat /\ FailbackMax \in Nat
        /\ FailbackWindow <= FailbackMax
    BY <1>2, WindowBounds, FlapAssumption DEF TypeOK
  <2>4. now - since'[BestHealthy(st)] >= FailbackWindow
    BY <1>2, <2>2, <2>3
  <2>5. BestHealthy(st) \in Settled(since', now, FailbackWindow)
    BY <2>1, <2>2, <2>4 DEF Settled
  <2>6. QED
    BY <1>2, <2>5, ReconcileFailsBack
<1>3. TypeOK /\ TypeOK' /\ FailbackIsNotStarved /\ [Next]_vars => FailbackIsNotStarved'
  <2> SUFFICES ASSUME TypeOK, TypeOK', FailbackIsNotStarved, [Next]_vars
               PROVE  FailbackIsNotStarved'
    OBVIOUS
  <2> DEFINE st == state'
  <2>0. st \in [Providers -> ProbeState]
    BY DEF TypeOK
  <2>1. ASSUME NEW p \in Providers, NEW s \in ProbeState, ProbeRound(p, s)
        PROVE  FailbackIsNotStarved'
    <3>1. Reconcile(st, since', forced) /\ now' = now /\ forced' = forced
      BY <2>1 DEF ProbeRound
    <3>2. QED
      BY <1>2, <2>0, <3>1 DEF FailbackIsNotStarved, Healthy, BestHealthy
  <2>2. ASSUME NEW p \in Providers, ForceProvider(p) PROVE FailbackIsNotStarved'
    BY <2>2, ProvidersAssumption DEF ForceProvider, FailbackIsNotStarved
  <2>3. ASSUME ClearForce PROVE FailbackIsNotStarved'
    <3>1. Reconcile(st, since', None) /\ now' = now
      BY <2>3 DEF ClearForce
    <3>2. QED
      BY <1>2, <2>0, <3>1 DEF FailbackIsNotStarved, Healthy, BestHealthy
  <2>4. ASSUME Restart PROVE FailbackIsNotStarved'
    BY <2>4 DEF Restart, Fresh, FailbackIsNotStarved, Healthy
  <2>5. ASSUME Tick PROVE FailbackIsNotStarved'
    BY <2>5 DEF Tick, FailbackIsNotStarved
  <2>6. ASSUME UNCHANGED vars PROVE FailbackIsNotStarved'
    BY <2>6 DEF vars, FailbackIsNotStarved
  <2>7. QED
    BY <2>1, <2>2, <2>3, <2>4, <2>5, <2>6 DEF Next
<1>4. QED
  BY <1>1, <1>3, TypeCorrect, PTL DEF Spec

-----------------------------------------------------------------------------
(***************************************************************************)
(* Damping.  One uplink, `flapper`, is preferred to a backup that never    *)
(* fails.  Switches alternate, and one back to the flapper waits for it to *)
(* have been up for the effective window since the one away from it.       *)
(***************************************************************************)
Window(recent) == EffectiveFailback(recent, FailbackBase, FlapThreshold, FailbackMax)

\* The machine is not rebooted: a restarted daemon finds the route it left.
RouteSurvives == [][owner # None => owner' # None]_vars

Ordered == \A i, j \in DOMAIN failovers : i <= j => failovers[i] <= failovers[j]

\* What the tracker has is the newest part of the table, with all of the window.
Restored ==
  \E old \in 0 .. Len(failovers) :
    /\ Len(failovers) = Len(switches) + old
    /\ \A i \in DOMAIN switches : switches[i] = failovers[i + old]
    /\ \A i \in DOMAIN failovers : i <= old => failovers[i] < now - FlapWindow

\* Two switches on, a window has passed that counted all between them.
Spaced ==
  \A s, i \in DOMAIN failovers :
    s + 2 <= i /\ failovers[s] >= failovers[i] - FlapWindow
      => failovers[i] - failovers[i - 2] >= Window(i - 1 - s)

\* After a switch back the same is true of the last two.
Returned(flapper) ==
  owner = flapper =>
    LET n == Len(failovers)
    IN  \A s \in DOMAIN failovers :
          s < n /\ failovers[s] >= failovers[n] - FlapWindow
            => failovers[n] - failovers[n - 1] >= Window(n - s)

\* After a switch away the flapper has yet to come up.
Left(flapper) ==
  owner # flapper /\ failovers # << >> /\ since[flapper] # None
    => since[flapper] >= failovers[Len(failovers)]

Damping(flapper) ==
  /\ TypeOK
  /\ forced = None
  /\ owner = None => failovers = << >>
  /\ \A p \in Steady : state[p] # "Down"
  /\ \A i \in DOMAIN failovers : failovers[i] <= now
  /\ Ordered /\ Restored /\ Spaced /\ Returned(flapper) /\ Left(flapper)

\* More recent switches never shorten the failback window.
LEMMA WindowGrows ==
  ASSUME NEW few \in Nat, NEW many \in Nat, few <= many
  PROVE  Window(few) \in Nat /\ Window(many) \in Nat /\ Window(few) <= Window(many)
BY FlapAssumption, EffectiveFailbackBounds, EffectiveFailbackGrows DEF Window

\* The tracker counts at least the switches of the table since one of the window.
LEMMA TrackerCounts ==
  ASSUME NEW flapper, Damping(flapper),
         NEW s \in DOMAIN failovers, failovers[s] >= now - FlapWindow
  PROVE  /\ SwitchesInWindow(switches, now, FlapWindow) \in Nat
         /\ Len(failovers) - s + 1 <= SwitchesInWindow(switches, now, FlapWindow)
<1> DEFINE n == Len(failovers)
           kept == Len(switches)
           count == SwitchesInWindow(switches, now, FlapWindow)
<1>1. /\ switches \in Seq(Nat) /\ failovers \in Seq(Nat)
      /\ now \in Nat /\ FlapWindow \in Nat
  BY FlapAssumption DEF Damping, TypeOK
<1>2. /\ DOMAIN failovers = 1 .. n /\ n \in Nat
      /\ DOMAIN switches = 1 .. kept /\ kept \in Nat
  BY <1>1
<1>3. PICK old \in 0 .. n :
        /\ n = kept + old
        /\ \A i \in DOMAIN switches : switches[i] = failovers[i + old]
        /\ \A i \in DOMAIN failovers : i <= old => failovers[i] < now - FlapWindow
  BY DEF Damping, Restored
<1>4. \A i, j \in 1 .. n : i <= j => failovers[i] <= failovers[j]
  BY <1>2 DEF Damping, Ordered
<1>5. \A i, j \in DOMAIN switches : i <= j => switches[i] <= switches[j]
  <2> SUFFICES ASSUME NEW i \in 1 .. kept, NEW j \in 1 .. kept, i <= j
               PROVE  switches[i] <= switches[j]
    BY <1>2
  <2>1. i + old \in 1 .. n /\ j + old \in 1 .. n /\ i + old <= j + old
    BY <1>2, <1>3
  <2>2. QED
    BY <1>2, <1>3, <1>4, <2>1
<1>6. /\ count \in 0 .. kept
      /\ \A i \in DOMAIN switches :
           switches[i] >= now - FlapWindow <=> i > kept - count
  BY <1>1, <1>5, RecentAreNewest
<1>7. failovers[s] \in Nat /\ s \in 1 .. n
  BY <1>1, <1>2
<1>8. ~(s <= old)
  BY <1>1, <1>3, <1>7
<1>9. s - old \in 1 .. kept /\ s - old + old = s
  BY <1>2, <1>3, <1>7, <1>8
<1>10. switches[s - old] = failovers[s]
  BY <1>2, <1>3, <1>9
<1>11. s - old > kept - count
  BY <1>2, <1>6, <1>9, <1>10
<1> HIDE DEF n, kept, count
<1>12. count \in Nat /\ n - s + 1 <= count
  BY <1>2, <1>3, <1>6, <1>7, <1>11
<1>13. QED
  BY <1>12 DEF n, count

\* What a recorded switch leaves behind: a later entry in an ordered table the
\* tracker still agrees with, spaced if the switch waited its turn.
LEMMA RecordingKeepsPace ==
  ASSUME NEW flapper, Damping(flapper), now' = now,
         failovers' = RecordSwitch(failovers, now, FlapCap),
         switches' = RecordSwitch(switches, now, FlapCap),
         \A s \in DOMAIN failovers :
           s < Len(failovers) /\ failovers[s] >= now - FlapWindow
             => now - failovers[Len(failovers) - 1] >= Window(Len(failovers) - s)
  PROVE  /\ \A i \in DOMAIN failovers' : failovers'[i] <= now'
         /\ Ordered' /\ Restored' /\ Spaced'
         /\ \E lost \in {0, 1} :
              /\ Len(failovers') = Len(failovers) + 1 - lost
              /\ failovers' \in Seq(Nat) /\ Len(failovers') \in Nat \ {0}
              /\ failovers'[Len(failovers')] = now
              /\ \A i \in 1 .. Len(failovers') - 1 : failovers'[i] = failovers[i + lost]
<1> DEFINE n == Len(failovers)
           lost == Lost(failovers, FlapCap)
           m == n + 1 - lost
           old == failovers
           new == failovers'
<1>1. /\ old \in Seq(Nat) /\ n \in Nat /\ DOMAIN old = 1 .. n
      /\ now \in Nat /\ FlapCap \in Nat \ {0} /\ FlapWindow \in Nat
      /\ n <= FlapCap /\ \A i \in 1 .. n : old[i] \in Nat /\ old[i] <= now
  <2>1. /\ old \in Seq(Nat) /\ now \in Nat /\ n <= FlapCap
        /\ FlapCap \in Nat \ {0} /\ FlapWindow \in Nat
    BY FlapAssumption DEF Damping, TypeOK
  <2>2. DOMAIN old = 1 .. n /\ n \in Nat /\ \A i \in 1 .. n : old[i] \in Nat
    BY <2>1
  <2>3. \A i \in 1 .. n : old[i] <= now
    BY <2>2 DEF Damping
  <2>4. QED
    BY <2>1, <2>2, <2>3
<1>2. /\ new \in Seq(Nat) /\ Len(new) = m /\ new[m] = now
      /\ \A i \in 1 .. m - 1 : new[i] = old[i + lost]
  <2> DEFINE recorded == RecordSwitch(failovers, now, FlapCap)
  <2>1. /\ recorded \in Seq(Nat) /\ Len(recorded) = m /\ recorded[m] = now
        /\ \A i \in 1 .. n - lost : recorded[i] = old[i + lost]
    BY <1>1, RecordedElements
  <2>2. n - lost = m - 1 /\ new = recorded
    BY <1>1 DEF Lost
  <2> HIDE DEF recorded, m, n, lost, new, old
  <2>3. QED
    BY <2>1, <2>2
<1>3. DOMAIN new = 1 .. m
  BY <1>2
<1>4. /\ lost \in {0, 1} /\ m \in 1 .. n + 1 /\ m = n + 1 - lost
      /\ (n # FlapCap => lost = 0) /\ (n = FlapCap => lost = 1)
  <2>1. lost \in {0, 1} /\ (n # FlapCap => lost = 0) /\ (n = FlapCap => lost = 1)
    BY DEF Lost
  <2> HIDE DEF lost, n
  <2>2. m \in 1 .. n + 1
    BY <1>1, <2>1
  <2>3. QED
    BY <2>1, <2>2
<1>5. \A i, j \in 1 .. n : i <= j => old[i] <= old[j]
  BY <1>1 DEF Damping, Ordered
<1>6. \A s, i \in 1 .. n :
        s + 2 <= i /\ old[s] >= old[i] - FlapWindow
          => old[i] - old[i - 2] >= Window(i - 1 - s)
  BY <1>1 DEF Damping, Spaced
<1>7. \A s \in 1 .. n : s < n /\ old[s] >= now - FlapWindow
                          => now - old[n - 1] >= Window(n - s)
  BY <1>1
<1>8. \A i \in 1 .. m - 1 : i + lost \in 1 .. n
  <2> HIDE DEF lost, n, m
  <2>1. QED
    BY <1>1, <1>4
<1>9. PICK gone \in 0 .. n :
        /\ n = Len(switches) + gone
        /\ \A i \in DOMAIN switches : switches[i] = old[i + gone]
        /\ \A i \in DOMAIN old : i <= gone => old[i] < now - FlapWindow
  BY DEF Damping, Restored
<1> HIDE DEF n, m, lost, old
<1>10. \A i \in 1 .. m : new[i] \in Nat /\ new[i] <= now
  <2> TAKE i \in 1 .. m
  <2>1. CASE i = m
    BY <1>1, <1>2, <2>1
  <2>2. CASE i # m
    <3>1. i \in 1 .. m - 1
      BY <1>1, <1>4, <2>2
    <3>2. QED
      BY <1>1, <1>2, <1>8, <3>1
  <2>3. QED
    BY <2>1, <2>2
<1>11. \A i, j \in 1 .. m : i <= j => new[i] <= new[j]
  <2> SUFFICES ASSUME NEW i \in 1 .. m, NEW j \in 1 .. m, i <= j PROVE new[i] <= new[j]
    OBVIOUS
  <2>1. CASE j = m
    BY <1>2, <1>10, <2>1
  <2>2. CASE j # m
    <3>1. i \in 1 .. m - 1 /\ j \in 1 .. m - 1 /\ i + lost <= j + lost
      BY <1>1, <1>4, <2>2
    <3>2. QED
      BY <1>2, <1>5, <1>8, <3>1
  <2>3. QED
    BY <2>1, <2>2
<1>12. ASSUME NEW s \in 1 .. m, NEW i \in 1 .. m, s + 2 <= i,
              new[s] >= new[i] - FlapWindow
       PROVE  new[i] - new[i - 2] >= Window(i - 1 - s)
  <2>1. /\ s \in 1 .. m - 1 /\ s + lost \in 1 .. n /\ new[s] = old[s + lost]
        /\ i - 2 \in 1 .. m - 1 /\ i - 2 + lost \in 1 .. n
        /\ new[i - 2] = old[i - 2 + lost]
    <3>1. s \in 1 .. m - 1 /\ i - 2 \in 1 .. m - 1
      BY <1>1, <1>4, <1>12
    <3>2. QED
      BY <1>2, <1>8, <3>1
  <2>2. CASE i = m
    <3>1. s + lost < n /\ i - 2 + lost = n - 1 /\ n - (s + lost) = i - 1 - s
      BY <1>1, <1>4, <1>12, <2>2
    <3>2. old[s + lost] >= now - FlapWindow
      BY <1>2, <1>12, <2>1, <2>2
    <3>3. now - old[n - 1] >= Window(n - (s + lost))
      BY <1>7, <2>1, <3>1, <3>2
    <3>4. QED
      BY <1>2, <2>1, <2>2, <3>1, <3>3
  <2>3. CASE i # m
    <3>1. i \in 1 .. m - 1
      BY <1>1, <1>4, <2>3
    <3>2. i + lost \in 1 .. n /\ new[i] = old[i + lost]
      BY <1>2, <1>8, <3>1
    <3>3. /\ s + lost + 2 <= i + lost /\ i + lost - 2 = i - 2 + lost
          /\ i + lost - 1 - (s + lost) = i - 1 - s
      BY <1>1, <1>4, <1>12
    <3>4. old[s + lost] >= old[i + lost] - FlapWindow
      BY <1>12, <2>1, <3>2
    <3> DEFINE a == s + lost
               b == i + lost
    <3>5. old[b] - old[b - 2] >= Window(b - 1 - a)
      <4>1. /\ a \in 1 .. n /\ b \in 1 .. n /\ a + 2 <= b
            /\ old[a] >= old[b] - FlapWindow
        BY <2>1, <3>2, <3>3, <3>4
      <4> HIDE DEF a, b
      <4>2. QED
        BY <1>6, <4>1
    <3>6. b = i + lost /\ b - 2 = i - 2 + lost /\ b - 1 - a = i - 1 - s
      BY <1>1, <1>4, <3>3
    <3> HIDE DEF a, b
    <3>7. QED
      BY <2>1, <3>2, <3>5, <3>6
  <2>4. QED
    BY <2>2, <2>3
<1>13. Restored'
  <2> DEFINE kept == Len(switches)
             drop == Lost(switches, FlapCap)
             size == kept + 1 - drop
             left == IF n = FlapCap /\ kept # FlapCap THEN gone - 1 ELSE gone
  <2>1. switches \in Seq(Nat) /\ kept <= FlapCap /\ kept \in Nat
        /\ DOMAIN switches = 1 .. kept
    <3>1. switches \in Seq(Nat) /\ kept <= FlapCap
      BY DEF Damping, TypeOK
    <3>2. QED
      BY <3>1
  <2>2. /\ switches' \in Seq(Nat) /\ Len(switches') = size /\ switches'[size] = now
        /\ \A i \in 1 .. size - 1 : switches'[i] = switches[i + drop]
    <3> DEFINE recorded == RecordSwitch(switches, now, FlapCap)
    <3>1. /\ recorded \in Seq(Nat) /\ Len(recorded) = size /\ recorded[size] = now
          /\ \A i \in 1 .. kept - drop : recorded[i] = switches[i + drop]
      BY <1>1, <2>1, RecordedElements
    <3>2. kept - drop = size - 1 /\ switches' = recorded
      BY <2>1 DEF Lost
    <3> HIDE DEF recorded, size, drop, kept
    <3>3. QED
      BY <3>1, <3>2
  <2>3. n = kept + gone
    BY <1>9
  <2>4. \A i \in 1 .. kept : switches[i] = old[i + gone]
    BY <1>9, <2>1
  <2>5. DOMAIN switches' = 1 .. size
    BY <2>2
  <2>6. drop = IF kept = FlapCap THEN 1 ELSE 0
    BY DEF Lost
  <2> HIDE DEF kept, drop
  <2>7. /\ drop \in {0, 1} /\ left \in 0 .. gone /\ left \in 0 .. m /\ m = size + left
        /\ left + lost = gone + drop /\ size \in Nat \ {0} /\ size - 1 <= kept
        /\ \A i \in 1 .. size - 1 : i + drop \in 1 .. kept
        /\ (left > 0 => left + lost <= gone)
    BY <2>6, <1>1, <1>4, <2>1, <2>3
  <2> HIDE DEF size, left
  <2>8. ASSUME NEW i \in 1 .. size PROVE switches'[i] = new[i + left]
    <3>1. CASE i = size
      <4>1. i + left = m
        BY <2>7, <3>1
      <4>2. QED
        BY <1>2, <2>2, <3>1, <4>1
    <3>2. CASE i # size
      <4>1. i \in 1 .. size - 1 /\ i + left \in 1 .. m - 1
            /\ i + left + lost = i + drop + gone
        BY <1>1, <1>4, <2>7, <3>2
      <4>2. switches'[i] = switches[i + drop] /\ i + drop \in 1 .. kept
        BY <2>2, <2>7, <4>1
      <4>3. switches[i + drop] = old[i + drop + gone]
        BY <2>4, <4>2
      <4>4. new[i + left] = old[i + left + lost]
        BY <1>2, <4>1
      <4>5. QED
        BY <4>1, <4>2, <4>3, <4>4
    <3>3. QED
      BY <3>1, <3>2
  <2>9. ASSUME NEW i \in 1 .. m, i <= left PROVE new[i] < now - FlapWindow
    <3>1. i \in 1 .. m - 1 /\ i + lost \in 1 .. n /\ i + lost <= gone
      <4>1. i \in 1 .. m - 1
        BY <1>1, <1>4, <2>7, <2>9
      <4>2. left + lost <= gone
        BY <2>7, <2>9
      <4>3. QED
        BY <1>4, <1>8, <2>7, <2>9, <4>1, <4>2
    <3>2. QED
      BY <1>1, <1>2, <1>9, <3>1
  <2>10. left \in 0 .. Len(new) /\ Len(new) = Len(switches') + left
    BY <1>2, <2>2, <2>7
  <2>11. /\ \A i \in DOMAIN switches' : switches'[i] = new[i + left]
         /\ \A i \in DOMAIN new : i <= left => new[i] < now' - FlapWindow
    BY <1>3, <2>5, <2>8, <2>9
  <2>12. \E earlier \in 0 .. Len(failovers') :
           /\ Len(failovers') = Len(switches') + earlier
           /\ \A i \in DOMAIN switches' : switches'[i] = failovers'[i + earlier]
           /\ \A i \in DOMAIN failovers' : i <= earlier => failovers'[i] < now' - FlapWindow
    BY <2>10, <2>11, Zenon
  <2>13. QED
    BY <2>12 DEF Restored
<1>14. Ordered'
  BY <1>3, <1>11 DEF Ordered
<1>15. Spaced'
  BY <1>3, <1>12 DEF Spaced
<1>16. \A i \in DOMAIN new : new[i] <= now'
  BY <1>3, <1>10
<1>17. /\ Len(new) = n + 1 - lost /\ new \in Seq(Nat) /\ Len(new) \in Nat \ {0}
       /\ new[Len(new)] = now /\ lost \in {0, 1}
       /\ \A i \in 1 .. Len(new) - 1 : new[i] = old[i + lost]
  BY <1>1, <1>2, <1>4
<1> HIDE DEF new
<1>18. QED
  BY <1>13, <1>14, <1>15, <1>16, <1>17 DEF n, new, old

\* One uplink that may flap next to a steady backup it is preferred to.
FlappingUplink(flapper, backup) ==
  /\ flapper \in Providers /\ backup \in Steady
  /\ Providers = {flapper, backup} /\ flapper # backup
  /\ Priority[flapper] < Priority[backup]
  /\ Commands = FALSE

\* What a health tick may do: nothing that counts; an escape, from a flapper
\* that is down; or a return, to one that has been up for the window in force.
LEMMA RoundsOfTwo ==
  ASSUME NEW flapper, NEW backup, FlappingUplink(flapper, backup),
         Damping(flapper), TypeOK',
         NEW p \in Providers, NEW s \in ProbeState, ProbeRound(p, s)
  PROVE  /\ \A q \in Steady : state'[q] # "Down"
         /\ since'[flapper] \in {since[flapper], now, None}
         /\ \/ /\ owner' = owner \/ owner = None
               /\ switches' = switches /\ failovers' = failovers
            \/ /\ switches' = RecordSwitch(switches, now, FlapCap)
               /\ failovers' = RecordSwitch(failovers, now, FlapCap)
               /\ \/ owner = flapper /\ owner' = backup /\ since'[flapper] = None
                  \/ /\ owner = backup /\ owner' = flapper
                     /\ since'[flapper] \in Nat
                     /\ now - since'[flapper] >= FailbackWindow
<1>1. TypeOK /\ forced = None /\ \A q \in Steady : state[q] # "Down"
  BY DEF Damping
<1>2. ASSUME NEW q \in Steady PROVE state'[q] # "Down"
  <2>1. q \in Providers
    BY EnvironmentAssumption
  <2>2. s \in Verdicts(p) /\ state' = [state EXCEPT ![p] = s] /\ state \in [Providers -> ProbeState]
    BY <1>1 DEF ProbeRound, TypeOK
  <2>3. CASE q = p
    <3>1. s # "Down"
      BY <2>2, <2>3 DEF Verdicts
    <3>2. QED
      BY <2>2, <2>3, <3>1
  <2>4. CASE q # p
    BY <1>1, <2>1, <2>2, <2>4
  <2>5. QED
    BY <2>3, <2>4
<1>3. since'[flapper] \in {since[flapper], now, None}
  BY <1>1 DEF ProbeRound, SinceAfter, TypeOK, FlappingUplink, ProbeState
<1> DEFINE d == DecisionFor(state', since', forced)
           counted == d.kind = "Switch" /\ owner # None
<1>4. /\ Reconcile(state', since', None) /\ state' \in [Providers -> ProbeState]
      /\ None \in MaybeProvider
  BY <1>1 DEF ProbeRound, TypeOK, MaybeProvider
<1>5. /\ owner' = IF d.kind = "Switch" THEN d.to ELSE owner
      /\ switches' = IF counted THEN RecordSwitch(switches, now, FlapCap) ELSE switches
      /\ failovers' = IF counted THEN RecordSwitch(failovers, now, FlapCap) ELSE failovers
  BY <1>1, <1>4 DEF Reconcile
<1>6. d.kind = "Switch" => d.to \in Healthy(state') /\ d.to # owner
  BY <1>4, SwitchIsToHealthy DEF DecisionFor
<1> HIDE DEF d
<1>7. CASE ~counted
  BY <1>2, <1>3, <1>5, <1>7
<1>8. CASE counted
  <2>1. /\ switches' = RecordSwitch(switches, now, FlapCap)
        /\ failovers' = RecordSwitch(failovers, now, FlapCap)
        /\ owner' # owner /\ owner' \in Healthy(state')
        /\ owner # None
    BY <1>5, <1>6, <1>8
  <2>2. owner \in {flapper, backup} /\ owner' \in {flapper, backup}
    BY <1>1, <2>1 DEF TypeOK, MaybeProvider, Healthy, FlappingUplink
  <2>3. /\ state'[owner] # "Unknown"
        /\ state'[owner] = "Up" => /\ owner' \in Settled(since', now, FailbackWindow)
                                   /\ Priority[owner'] < Priority[owner]
    BY <1>1, <1>4, <2>1, ReconcileGuarantees
  <2>4. state'[owner] \in ProbeState
    BY <1>4, <2>2 DEF FlappingUplink
  <2>5. CASE owner = flapper
    <3>1. owner' = backup /\ ~(Priority[backup] < Priority[flapper])
      BY <2>1, <2>2, <2>5, PriorityAssumption DEF FlappingUplink
    <3>2. state'[flapper] # "Up"
      BY <2>3, <2>5, <3>1
    <3>3. since'[flapper] = None
      BY <3>2 DEF TypeOK, FlappingUplink
    <3>4. QED
      BY <1>2, <1>3, <2>1, <2>5, <3>1, <3>3
  <2>6. CASE owner = backup
    <3>1. owner' = flapper /\ state'[backup] # "Down" /\ state'[backup] \in ProbeState
      BY <1>2, <2>1, <2>2, <2>4, <2>6 DEF FlappingUplink
    <3>2. flapper \in Settled(since', now, FailbackWindow)
      BY <2>3, <2>6, <3>1 DEF ProbeState
    <3>3. since'[flapper] \in Nat /\ now - since'[flapper] >= FailbackWindow
      BY <3>2 DEF Settled, TypeOK
    <3>4. QED
      BY <1>2, <1>3, <2>1, <2>6, <3>1, <3>3
  <2>7. QED
    BY <2>2, <2>5, <2>6
<1>9. QED
  BY <1>7, <1>8

\* What the tracker restores from the table is what it had to know.
LEMMA RestartRestores ==
  ASSUME NEW flapper, Damping(flapper), Restart
  PROVE  Restored'
<1> DEFINE n == Len(failovers)
           count == SwitchesInWindow(failovers, now, FlapWindow)
<1>1. /\ failovers \in Seq(Nat) /\ now \in Nat /\ FlapWindow \in Nat
      /\ DOMAIN failovers = 1 .. n /\ n \in Nat
  BY FlapAssumption DEF Damping, TypeOK
<1>2. /\ count \in 0 .. n
      /\ \A i \in DOMAIN failovers :
           failovers[i] >= now - FlapWindow <=> i > n - count
  <2>1. \A i, j \in DOMAIN failovers : i <= j => failovers[i] <= failovers[j]
    BY DEF Damping, Ordered
  <2>2. /\ failovers \in Seq(Nat) /\ now \in Int /\ FlapWindow \in Int
    BY <1>1
  <2>3. QED
    BY ONLY <2>1, <2>2, RecentAreNewest
<1>3. /\ failovers' = failovers /\ now' = now
      /\ switches' = Newest(failovers, count)
  BY DEF Restart, RestoredHistory
<1> HIDE DEF count
<1>4. Smaller(n, count) = count /\ count \in Nat
  <2>1. n \in Nat /\ count \in 0 .. n
    BY <1>1, <1>2
  <2> HIDE DEF n
  <2>2. QED
    BY <2>1 DEF Smaller
<1>5. /\ switches' \in Seq(Nat) /\ Len(switches') = count
      /\ \A i \in 1 .. count : switches'[i] = failovers[i + (n - count)]
  <2> DEFINE kept == Smaller(Len(failovers), count)
             restored == Newest(failovers, count)
  <2>1. /\ restored \in Seq(Nat) /\ Len(restored) = kept
        /\ \A i \in 1 .. kept : restored[i] = failovers[i + (Len(failovers) - kept)]
    BY <1>1, <1>4, NewestElements
  <2>2. kept = count
    BY <1>4
  <2> HIDE DEF kept, restored
  <2>3. restored = switches'
    BY <1>3 DEF restored
  <2>4. QED
    BY <2>1, <2>2, <2>3
<1>6. DOMAIN switches' = 1 .. count
  BY <1>5
<1>7. n - count \in 0 .. n /\ n = count + (n - count)
  BY <1>1, <1>2
<1>8. \A i \in 1 .. n : i <= n - count => failovers[i] < now - FlapWindow
  <2> TAKE i \in 1 .. n
  <2> HAVE i <= n - count
  <2>1. failovers[i] \in Nat /\ now \in Nat /\ FlapWindow \in Nat
    BY <1>1
  <2>2. ~(i > n - count)
    BY <1>7
  <2>3. ~(failovers[i] >= now - FlapWindow)
    BY <1>1, <1>2, <2>2
  <2>4. QED
    BY ONLY <2>1, <2>3
<1> HIDE DEF n
<1>9. /\ Len(failovers') = Len(switches') + (n - count)
      /\ n - count \in 0 .. Len(failovers')
      /\ \A i \in DOMAIN switches' : switches'[i] = failovers'[i + (n - count)]
      /\ \A i \in DOMAIN failovers' : i <= n - count => failovers'[i] < now' - FlapWindow
  BY <1>1, <1>3, <1>5, <1>6, <1>7, <1>8 DEF n
<1>10. QED
  BY <1>9 DEF Restored

\* Steps that record nothing and leave the route where it is.
LEMMA QuietStepsKeepDamping ==
  ASSUME NEW flapper, Damping(flapper), TypeOK', forced' = forced,
         now' = now, failovers' = failovers, Restored',
         \A q \in Steady : state'[q] # "Down",
         owner' = owner \/ owner = None,
         since'[flapper] \in {since[flapper], now, None}
  PROVE  Damping(flapper)'
<1>1. owner' = None => failovers' = << >>
  BY DEF Damping
<1>2. Ordered' /\ Spaced' /\ \A i \in DOMAIN failovers' : failovers'[i] <= now'
  BY DEF Damping, Ordered, Spaced
<1>3. Returned(flapper)'
  <2>1. CASE owner' = owner
    BY <2>1 DEF Damping, Returned
  <2>2. CASE owner = None
    <3>1. failovers' = << >>
      BY <2>2 DEF Damping
    <3>2. DOMAIN failovers' = {}
      BY <3>1
    <3>3. QED
      BY <3>2 DEF Returned
  <2>3. QED
    BY <2>1, <2>2
<1>4. Left(flapper)'
  <2> SUFFICES ASSUME owner' # flapper, failovers' # << >>, since'[flapper] # None
               PROVE  since'[flapper] >= failovers'[Len(failovers')]
    BY DEF Left
  <2>1. owner = owner' /\ failovers # << >>
    BY DEF Damping
  <2>2. CASE since'[flapper] = since[flapper]
    BY <2>1, <2>2 DEF Damping, Left
  <2>3. CASE since'[flapper] = now
    <3>1. failovers \in Seq(Nat)
      BY DEF Damping, TypeOK
    <3>2. Len(failovers) \in DOMAIN failovers /\ failovers[Len(failovers)] \in Nat
      BY <2>1, <3>1
    <3>3. failovers[Len(failovers)] <= now /\ now \in Nat
      BY <3>2 DEF Damping, TypeOK
    <3>4. QED
      BY <2>3, <3>2, <3>3
  <2>4. QED
    BY <2>2, <2>3
<1>5. QED
  BY <1>1, <1>2, <1>3, <1>4 DEF Damping

\* Every step but a reboot of the machine keeps the switches spaced.
LEMMA DampingKept ==
  ASSUME NEW flapper, NEW backup, FlappingUplink(flapper, backup),
         Damping(flapper), TypeOK', [Next]_vars, owner # None => owner' # None
  PROVE  Damping(flapper)'
<1>1. /\ TypeOK /\ forced = None /\ Restored
      /\ \A q \in Steady : state[q] # "Down"
  BY DEF Damping
<1>2. ASSUME NEW p \in Providers, NEW s \in ProbeState, ProbeRound(p, s)
      PROVE  Damping(flapper)'
  <2>1. now' = now /\ forced' = forced
    BY <1>2 DEF ProbeRound
  <2>2. /\ \A q \in Steady : state'[q] # "Down"
        /\ since'[flapper] \in {since[flapper], now, None}
    BY <1>2, RoundsOfTwo
  <2>3. CASE (owner' = owner \/ owner = None)
             /\ switches' = switches /\ failovers' = failovers
    <3>1. Restored'
      BY <1>1, <2>1, <2>3 DEF Restored
    <3>2. QED
      BY <2>1, <2>2, <2>3, <3>1, QuietStepsKeepDamping
  <2>4. ASSUME switches' = RecordSwitch(switches, now, FlapCap),
               failovers' = RecordSwitch(failovers, now, FlapCap),
               \/ owner = flapper /\ owner' = backup /\ since'[flapper] = None
               \/ /\ owner = backup /\ owner' = flapper
                  /\ since'[flapper] \in Nat
                  /\ now - since'[flapper] >= FailbackWindow
        PROVE  Damping(flapper)'
    <3> DEFINE n == Len(failovers)
    <3>1. /\ failovers \in Seq(Nat) /\ now \in Nat /\ FlapWindow \in Nat
          /\ DOMAIN failovers = 1 .. n /\ n \in Nat
          /\ \A i \in 1 .. n : failovers[i] \in Nat /\ failovers[i] <= now
      <4>1. failovers \in Seq(Nat) /\ now \in Nat /\ FlapWindow \in Nat
        BY <1>1, FlapAssumption DEF TypeOK
      <4>2. DOMAIN failovers = 1 .. n /\ n \in Nat /\ \A i \in 1 .. n : failovers[i] \in Nat
        BY <4>1
      <4>3. QED
        BY <4>1, <4>2 DEF Damping
    <3>2. \A i, j \in 1 .. n : i <= j => failovers[i] <= failovers[j]
      BY <3>1 DEF Damping, Ordered
    \* A return waited for the flapper to be up since the last escape.
    <3>3. ASSUME owner = backup, NEW s_1 \in 1 .. n, failovers[s_1] >= now - FlapWindow
          PROVE  now - failovers[n] >= Window(n - s_1 + 1)
      <4> DEFINE count == SwitchesInWindow(switches, now, FlapWindow)
      <4>1. count \in Nat /\ n - s_1 + 1 <= count /\ n - s_1 + 1 \in Nat
        BY <3>1, <3>3, TrackerCounts
      <4>2. FailbackWindow = Window(count)
        BY DEF FailbackWindow, Window
      <4> HIDE DEF count
      <4>3. /\ Window(n - s_1 + 1) \in Nat /\ Window(count) \in Nat
            /\ Window(n - s_1 + 1) <= Window(count)
        BY <4>1, WindowGrows
      <4>4. since'[flapper] \in Nat /\ now - since'[flapper] >= Window(count)
        BY <2>4, <3>3, <4>2 DEF FlappingUplink
      <4>5. n \in 1 .. n /\ failovers # << >> /\ failovers[n] \in Nat /\ failovers[n] <= now
        BY <3>1
      <4>6. since'[flapper] >= failovers[n]
        <5>1. CASE since'[flapper] = since[flapper]
          <6>1. owner # flapper /\ since[flapper] # None
            BY <3>3, <4>4, <5>1, NoneIsNoTime DEF FlappingUplink
          <6>2. QED
            BY <4>5, <5>1, <6>1 DEF Damping, Left
        <5>2. CASE since'[flapper] = now
          BY <3>1, <4>5, <5>2
        <5>3. since'[flapper] # None
          BY <4>4, NoneIsNoTime
        <5>4. QED
          BY <2>2, <5>1, <5>2, <5>3
      <4>7. QED
        BY <3>1, <4>3, <4>4, <4>5, <4>6
    <3>4. ASSUME NEW s_1 \in DOMAIN failovers, s_1 < n, failovers[s_1] >= now - FlapWindow
          PROVE  now - failovers[n - 1] >= Window(n - s_1)
      <4>0. now \in Nat /\ FlapWindow \in Nat
        BY <3>1
      <4>1. /\ s_1 \in 1 .. n /\ n \in 1 .. n /\ n - 1 \in 1 .. n /\ n - 1 <= n
            /\ n - s_1 \in Nat /\ n - s_1 + 1 \in Nat /\ n - s_1 <= n - s_1 + 1
        BY <3>1, <3>4
      <4>2. /\ failovers[n] \in Nat /\ failovers[n] <= now /\ failovers[n - 1] \in Nat
            /\ failovers[n - 1] <= failovers[n] /\ failovers[s_1] \in Nat
        BY <3>1, <3>2, <4>1
      <4>3. CASE owner = flapper
        <5>1. failovers[s_1] >= failovers[n] - FlapWindow
          BY <3>1, <3>4, <4>2
        <5>2. failovers[n] - failovers[n - 1] >= Window(n - s_1)
          BY <3>4, <4>3, <5>1 DEF Damping, Returned
        <5>3. Window(n - s_1) \in Nat
          BY <4>1, WindowGrows
        <5>4. QED
          BY ONLY <4>0, <4>2, <5>2, <5>3
      <4>4. CASE owner = backup
        <5>1. now - failovers[n] >= Window(n - s_1 + 1)
          BY <3>3, <3>4, <4>1, <4>4
        <5>2. /\ Window(n - s_1) \in Nat /\ Window(n - s_1 + 1) \in Nat
              /\ Window(n - s_1) <= Window(n - s_1 + 1)
          BY <4>1, WindowGrows
        <5>3. QED
          BY ONLY <4>0, <4>2, <5>1, <5>2
      <4>5. QED
        BY <2>4, <4>3, <4>4
    <3>5. /\ \A i \in DOMAIN failovers' : failovers'[i] <= now'
          /\ Ordered' /\ Restored' /\ Spaced'
          /\ \E lost \in {0, 1} :
               /\ Len(failovers') = n + 1 - lost
               /\ failovers' \in Seq(Nat) /\ Len(failovers') \in Nat \ {0}
               /\ failovers'[Len(failovers')] = now
               /\ \A i \in 1 .. Len(failovers') - 1 : failovers'[i] = failovers[i + lost]
      BY <2>1, <2>4, <3>4, RecordingKeepsPace
    <3> DEFINE m == Len(failovers')
    <3>6. PICK lost \in {0, 1} :
            /\ m = n + 1 - lost
            /\ failovers' \in Seq(Nat) /\ m \in Nat \ {0}
            /\ failovers'[m] = now
            /\ \A i \in 1 .. m - 1 : failovers'[i] = failovers[i + lost]
      BY <3>5
    <3>7. DOMAIN failovers' = 1 .. m
      BY <3>6
    <3>8. owner' # None
      BY <1>1, <2>4, ProvidersAssumption, EnvironmentAssumption DEF FlappingUplink
    <3> HIDE DEF n, m
    <3>9. Returned(flapper)'
      <4> SUFFICES ASSUME owner' = flapper, NEW s_1 \in 1 .. m,
                          s_1 < m, failovers'[s_1] >= failovers'[m] - FlapWindow
                   PROVE  failovers'[m] - failovers'[m - 1] >= Window(m - s_1)
        BY <3>7 DEF Returned, m
      <4>1. owner = backup
        BY <2>4 DEF FlappingUplink
      <4>2. /\ s_1 \in 1 .. m - 1 /\ m - 1 \in 1 .. m - 1
            /\ s_1 + lost \in 1 .. n /\ m - 1 + lost = n
            /\ n - (s_1 + lost) + 1 = m - s_1
        BY <3>1, <3>6
      <4>3. failovers'[s_1] = failovers[s_1 + lost] /\ failovers'[m - 1] = failovers[n]
        BY <3>6, <4>2
      <4>4. failovers[s_1 + lost] >= now - FlapWindow
        BY <3>6, <4>3
      <4>5. now - failovers[n] >= Window(n - (s_1 + lost) + 1)
        BY <3>3, <4>1, <4>2, <4>4
      <4>6. QED
        BY <3>6, <4>2, <4>3, <4>5
    <3>10. Left(flapper)'
      <4>1. owner' # flapper => since'[flapper] = None
        BY <2>4
      <4>2. QED
        BY <4>1 DEF Left
    <3>11. QED
      BY <1>1, <2>1, <2>2, <3>5, <3>8, <3>9, <3>10 DEF Damping
  <2>5. QED
    BY <1>2, <2>3, <2>4, RoundsOfTwo
<1>3. ASSUME Restart PROVE Damping(flapper)'
  <2>1. Restored'
    BY <1>3, RestartRestores
  <2>2. /\ now' = now /\ forced' = forced /\ failovers' = failovers
        /\ state' = [p \in Providers |-> "Unknown"]
        /\ since' = [p \in Providers |-> None]
    BY <1>3 DEF Restart, Fresh
  <2>3. \A q \in Steady : state'[q] # "Down"
    BY <2>2, EnvironmentAssumption
  <2>4. since'[flapper] = None
    BY <2>2 DEF FlappingUplink
  <2>5. owner' = owner \/ owner = None
    BY <1>3 DEF Restart
  <2>6. QED
    BY <2>1, <2>2, <2>3, <2>4, <2>5, QuietStepsKeepDamping
<1>4. ASSUME Tick PROVE Damping(flapper)'
  <2>1. /\ now' = now + 1 /\ now \in Nat /\ FlapWindow \in Nat
        /\ failovers' = failovers /\ switches' = switches /\ owner' = owner
        /\ since' = since /\ state' = state /\ forced' = forced
        /\ failovers \in Seq(Nat)
    BY <1>1, <1>4, FlapAssumption DEF Tick, TypeOK
  <2>2. \A i \in DOMAIN failovers : failovers[i] \in Nat /\ failovers[i] <= now
    BY <2>1 DEF Damping
  <2>3. \A i \in DOMAIN failovers' : failovers'[i] <= now'
    BY <2>1, <2>2
  <2>4. Restored'
    <3>1. PICK old \in 0 .. Len(failovers) :
            /\ Len(failovers) = Len(switches) + old
            /\ \A i \in DOMAIN switches : switches[i] = failovers[i + old]
            /\ \A i \in DOMAIN failovers : i <= old => failovers[i] < now - FlapWindow
      BY <1>1 DEF Restored
    <3>2. \A i \in DOMAIN failovers' : i <= old => failovers'[i] < now' - FlapWindow
      BY <2>1, <2>2, <3>1
    <3>3. QED
      BY <2>1, <3>1, <3>2 DEF Restored
  <2>5. Ordered' /\ Spaced' /\ Returned(flapper)' /\ Left(flapper)'
    BY <2>1 DEF Damping, Ordered, Spaced, Returned, Left
  <2>6. forced' = None /\ (owner' = None => failovers' = << >>)
        /\ \A q \in Steady : state'[q] # "Down"
    BY <1>1, <2>1 DEF Damping
  <2>7. QED
    BY <2>3, <2>4, <2>5, <2>6 DEF Damping
<1>5. ASSUME UNCHANGED vars PROVE Damping(flapper)'
  BY <1>5 DEF vars, Damping, TypeOK, Ordered, Restored, Spaced, Returned, Left
<1>6. QED
  BY <1>2, <1>3, <1>4, <1>5 DEF Next, FlappingUplink

\* cost[n] bounds from below the seconds from the first of n switches of one
\* window to the last: two may share a second, and every further pair costs
\* the window that the switches before it ask for.  The budget is affordable
\* if one switch more takes longer than a window.
Priced(cost) ==
  /\ cost \in [Nat -> Nat]
  /\ cost[1] = 0 /\ cost[2] = 0
  /\ \A n \in Nat \ {0} : cost[n + 2] <= cost[n] + Window(n)
  /\ cost[SwitchBudget + 1] > FlapWindow

\* The price is paid by every run of switches inside one window.
LEMMA SwitchesTakeTime ==
  ASSUME NEW flapper, Damping(flapper), NEW cost, Priced(cost),
         NEW s \in DOMAIN failovers, failovers[s] >= now - FlapWindow,
         NEW n \in Nat \ {0}, s + n - 1 <= Len(failovers)
  PROVE  failovers[s + n - 1] - failovers[s] >= cost[n]
<1> DEFINE len == Len(failovers)
           cheap == {k \in Nat \ {0} : /\ s + k - 1 <= len
                                       /\ ~(failovers[s + k - 1] - failovers[s] >= cost[k])}
<1>1. /\ failovers \in Seq(Nat) /\ now \in Nat /\ FlapWindow \in Nat
      /\ DOMAIN failovers = 1 .. len /\ len \in Nat
      /\ \A i \in 1 .. len : failovers[i] \in Nat /\ failovers[i] <= now
  <2>1. failovers \in Seq(Nat) /\ now \in Nat /\ FlapWindow \in Nat
    BY FlapAssumption DEF Damping, TypeOK
  <2>2. DOMAIN failovers = 1 .. len /\ len \in Nat /\ \A i \in 1 .. len : failovers[i] \in Nat
    BY <2>1
  <2>3. QED
    BY <2>1, <2>2 DEF Damping
<1>2. s \in 1 .. len
  BY <1>1
<1> HIDE DEF len
<1>3. cheap = {}
  <2> SUFFICES ASSUME cheap # {} PROVE FALSE
    OBVIOUS
  <2>1. cheap \in SUBSET Nat
    OBVIOUS
  <2>2. PICK k \in cheap : \A j \in cheap : k <= j
    BY <2>1, LeastRank
  <2>3. /\ k \in Nat \ {0} /\ s + k - 1 <= len /\ s + k - 1 \in 1 .. len
        /\ ~(failovers[s + k - 1] - failovers[s] >= cost[k])
    <3>1. /\ k \in Nat \ {0} /\ s + k - 1 <= len
          /\ ~(failovers[s + k - 1] - failovers[s] >= cost[k])
      OBVIOUS
    <3> HIDE DEF cheap
    <3>2. s \in Nat /\ s >= 1 /\ len \in Nat
      BY <1>1, <1>2
    <3>3. s + k - 1 \in 1 .. len
      BY ONLY <3>1, <3>2
    <3>4. QED
      BY <3>1, <3>3
  <2>4. failovers[s] <= failovers[s + k - 1] /\ failovers[s] \in Nat
        /\ failovers[s + k - 1] \in Nat /\ failovers[s + k - 1] <= now
    BY <1>1, <1>2, <2>3 DEF Damping, Ordered
  <2>5. cost[1] = 0 /\ cost[2] = 0
    BY DEF Priced
  <2>6. k # 1 /\ k # 2
    BY ONLY <2>3, <2>4, <2>5
  <2> DEFINE j == k - 2
             i == s + k - 1
  <2>7. j \in Nat \ {0} /\ j < k /\ j + 2 = k /\ s + j - 1 <= len
        /\ i \in 1 .. len /\ s + 2 <= i /\ i - 2 = s + j - 1 /\ i - 1 - s = j
        /\ i - 2 \in 1 .. len
    <3> HIDE DEF cheap
    <3>1. /\ s \in Nat /\ s >= 1 /\ k \in Nat /\ k >= 3 /\ len \in Nat
          /\ s + k - 1 <= len
      BY <1>1, <1>2, <2>3, <2>6
    <3>2. QED
      BY ONLY <3>1
  <2>8. j \notin cheap
    BY <2>2, <2>3, <2>7
  <2>9. failovers[i] \in Nat /\ failovers[i] <= now /\ failovers[i - 2] \in Nat
        /\ i = s + k - 1
    BY <1>1, <2>7
  <2>10. failovers[i - 2] - failovers[s] >= cost[j]
    BY <2>7, <2>8
  <2> HIDE DEF cheap, i, j
  <2>11. failovers[s] >= failovers[i] - FlapWindow
    <3>1. now \in Nat /\ FlapWindow \in Nat
      BY <1>1
    <3>2. QED
      BY ONLY <2>4, <2>9, <3>1, failovers[s] >= now - FlapWindow
  <2>12. failovers[i] - failovers[i - 2] >= Window(i - 1 - s)
    BY <1>1, <1>2, <2>7, <2>11 DEF Damping, Spaced
  <2>13. Window(j) \in Nat /\ failovers[i] - failovers[i - 2] >= Window(j)
    <3>1. i - 1 - s = j /\ j \in Nat
      BY <2>7
    <3>2. Window(j) \in Nat
      BY <3>1, WindowGrows
    <3>3. QED
      BY <2>12, <3>1, <3>2
  <2>14. cost[k] <= cost[j] + Window(j) /\ cost[k] \in Nat /\ cost[j] \in Nat
    BY <2>3, <2>7 DEF Priced
  <2>15. ~(failovers[i] - failovers[s] >= cost[k])
    BY <2>3, <2>9
  <2>16. failovers[i] - failovers[s] >= cost[j] + Window(j)
    BY ONLY <2>4, <2>9, <2>10, <2>13, <2>14
  <2>17. QED
    BY ONLY <2>4, <2>9, <2>13, <2>14, <2>15, <2>16
<1>4. QED
  BY <1>3 DEF len

\* As long as the machine is not rebooted, a flapping uplink next to a steady
\* backup moves the route at most SwitchBudget times in any window, however
\* fast it flaps and however often the daemon restarts.
THEOREM SwitchesAreDamped ==
  ASSUME NEW flapper, NEW backup, FlappingUplink(flapper, backup),
         NEW cost, Priced(cost)
  PROVE  Spec /\ RouteSurvives => []SwitchRateIsDamped
<1>1. Init => Damping(flapper)
  <2> SUFFICES ASSUME Init PROVE Damping(flapper)
    OBVIOUS
  <2>1. TypeOK
    BY FlapAssumption DEF Init, TypeOK, ProbeState, MaybeProvider
  <2>2. failovers = << >> /\ switches = << >> /\ Len(failovers) = 0 /\ Len(switches) = 0
        /\ DOMAIN failovers = {} /\ DOMAIN switches = {}
    BY DEF Init
  <2>3. forced = None /\ \A q \in Steady : state[q] # "Down"
    BY EnvironmentAssumption DEF Init, FlappingUplink
  <2>4. Restored
    <3>1. /\ 0 \in 0 .. Len(failovers) /\ Len(failovers) = Len(switches) + 0
      BY <2>2
    <3>2. QED
      BY <2>2, <3>1 DEF Restored
  <2>5. QED
    BY <2>1, <2>2, <2>3, <2>4 DEF Damping, Ordered, Spaced, Returned, Left
<1>2. /\ Damping(flapper) /\ TypeOK' /\ [Next]_vars
      /\ [owner # None => owner' # None]_vars
      => Damping(flapper)'
  <2> SUFFICES ASSUME Damping(flapper), TypeOK', [Next]_vars,
                      [owner # None => owner' # None]_vars
               PROVE  Damping(flapper)'
    OBVIOUS
  <2>1. owner # None => owner' # None
    BY DEF vars
  <2>2. QED
    BY <2>1, DampingKept
<1>3. Damping(flapper) => SwitchRateIsDamped
  <2> SUFFICES ASSUME Damping(flapper),
                      ~(SwitchesInWindow(failovers, now, FlapWindow) <= SwitchBudget)
               PROVE  FALSE
    BY DEF SwitchRateIsDamped
  <2> DEFINE len == Len(failovers)
             count == SwitchesInWindow(failovers, now, FlapWindow)
             s == len - SwitchBudget
  <2>1. /\ failovers \in Seq(Nat) /\ now \in Nat /\ FlapWindow \in Nat
        /\ DOMAIN failovers = 1 .. len /\ len \in Nat /\ SwitchBudget \in Nat
        /\ len = Len(failovers)
    BY FlapAssumption, EnvironmentAssumption DEF Damping, TypeOK
  <2>2. /\ count \in 0 .. len
        /\ \A i \in DOMAIN failovers :
             failovers[i] >= now - FlapWindow <=> i > len - count
    <3>1. /\ failovers \in Seq(Nat) /\ now \in Int /\ FlapWindow \in Int
          /\ \A i, j \in DOMAIN failovers : i <= j => failovers[i] <= failovers[j]
      BY <2>1 DEF Damping, Ordered
    <3>2. QED
      BY ONLY <3>1, RecentAreNewest
  <2> HIDE DEF count, len
  <2>3. count > SwitchBudget
    BY <2>1, <2>2 DEF count
  <2>4. s \in 1 .. len /\ s > len - count /\ s + (SwitchBudget + 1) - 1 = len
        /\ SwitchBudget + 1 \in Nat \ {0} /\ len \in 1 .. len
    BY <2>1, <2>2, <2>3
  <2> HIDE DEF s
  <2>5. failovers[s] >= now - FlapWindow
    BY <2>1, <2>2, <2>4
  <2>6. failovers[len] - failovers[s] >= cost[SwitchBudget + 1]
    <3> DEFINE n == SwitchBudget + 1
    <3>1. n \in Nat \ {0} /\ s + n - 1 = len
      BY <2>4
    <3>2. s + n - 1 <= Len(failovers)
      BY <2>1, <3>1
    <3> HIDE DEF n
    <3>3. failovers[s + n - 1] - failovers[s] >= cost[n]
      BY <2>1, <2>4, <2>5, <3>1, <3>2, SwitchesTakeTime
    <3>4. QED
      BY <3>1, <3>3 DEF n
  <2>7. cost[SwitchBudget + 1] > FlapWindow /\ cost[SwitchBudget + 1] \in Nat
    BY <2>1 DEF Priced
  <2>8. failovers[len] <= now /\ failovers[len] \in Nat /\ failovers[s] \in Nat
    BY <2>1, <2>4 DEF Damping
  <2>9. QED
    BY <2>1, <2>5, <2>6, <2>7, <2>8
<1>4. QED
  BY <1>1, <1>2, <1>3, TypeCorrect, PTL DEF Spec, RouteSurvives
=============================================================================

------------------------------ MODULE Failover ------------------------------
(***************************************************************************)
(* The concurrent daemon of src/src/core/balancer.rs around the default    *)
(* route.  One health_loop per provider, one task per control connection   *)
(* and the route watchdog run on a multi-threaded runtime; each of them    *)
(* is split here at its await points.                                      *)
(*                                                                         *)
(*   shared memory   state/settled (providers), active/adopted, forced     *)
(*   on disk         stored (kv forced_provider)                           *)
(*   in the kernel   routes, chain (VLB_PIN), flows (conntrack)            *)
(*                                                                         *)
(* reconcile_inner reads the pin, then the providers, and only then takes  *)
(* the write side of `active`, which it holds while it decides, re-aims    *)
(* the pinning chain, installs the route, flushes and commits:             *)
(*                                                                         *)
(*  idle - (evict | persist) - readPin - readView - wait                   *)
(*       - repin - (verify - assert | install) - flush - commit - idle     *)
(***************************************************************************)
EXTENDS Selection

CONSTANTS
  Operators,     \* control connections; each runs one force or auto at a time
  Watchdog,      \* the route watchdog task
  Foreign,       \* a next hop that is no configured provider's
  Fallback,      \* next hop of a default at a higher metric, or None
  Pinning,       \* routing.pin_connections
  Commands,      \* what operators ask for: `force p`, or None for `auto`
  Faults,        \* best-effort steps that may fail in this instance
  MaxVerdicts,   \* bound: verdicts that change after the first one
  MaxExternal,   \* bound: edits of the routes by other tools
  MaxCrashes     \* bound: restarts of the daemon or the machine

Threads == Providers \cup Operators \cup {Watchdog}
Paths == Providers \cup {Foreign}
FaultKinds == {"route", "scrub", "read", "pin", "flush", "persist"}

ASSUME ThreadsAssumption ==
  /\ Operators \cap Providers = {}
  /\ Watchdog \notin Providers \cup Operators
  /\ None \notin Threads
  /\ Foreign \notin Providers \cup {None}

ASSUME ParametersAssumption ==
  /\ Fallback \in Paths \cup {None}
  /\ Pinning \in BOOLEAN
  /\ Commands \subseteq MaybeProvider
  /\ Faults \subseteq FaultKinds
  /\ MaxVerdicts \in Nat /\ MaxExternal \in Nat /\ MaxCrashes \in Nat

VARIABLES
  state,     \* ProviderState::state
  settled,   \* providers up for at least the current failback window
  active,    \* Balancer::active
  adopted,   \* Balancer::active_adopted
  forced,    \* Balancer::force_override
  stored,    \* the persisted pin
  routes,    \* the default routes at metric 0
  chain,     \* the provider whose mark VLB_PIN gives new connections
  flows,     \* next hops some tracked connection is bound to
  lock,      \* who holds `active` (the watchdog reads, the others write)
  pc, seen, plan,   \* each thread's place and local variables
  spent             \* how much of the three bounds is used up

shared == <<state, settled, active, adopted, forced, stored>>
kernel == <<routes, chain, flows>>
vars == <<shared, kernel, lock, pc, seen, plan, spent>>

(***************************************************************************)
(* Kernel state.  A default at metric 0 is replaced by one with the same   *)
(* protocol (`ours`, proto static) and sits beside one with another        *)
(* (`rival`); the kernel takes whichever it lists first.                   *)
(***************************************************************************)
RouteTable == [ours : Paths \cup {None}, rival : Paths \cup {None}, rivalFirst : BOOLEAN]

PathOf(r) ==
  CASE r.ours # None /\ (r.rival = None \/ ~r.rivalFirst) -> r.ours
    [] r.rival # None /\ (r.ours = None \/ r.rivalFirst)  -> r.rival
    [] OTHER                                              -> Fallback

Path == PathOf(routes)

\* The watchdog's questions about every default listed, at any metric.
OursPresent(p) == p \in {routes.ours, routes.rival, Fallback}
RivalPresent(p) == \E q \in {routes.ours, routes.rival} : q \notin {None, p}

(***************************************************************************)
(* Local variables.                                                        *)
(***************************************************************************)
View == [pin : MaybeProvider, state : [Providers -> ProbeState], settled : SUBSET Providers]
Plan == [kind : {"None", "Keep", "Switch", "Watch", "Command"},
         to : MaybeProvider, before : Paths \cup {None}]

Unproven == [p \in Providers |-> "Unknown"]
NoView == [pin |-> None, state |-> Unproven, settled |-> {}]
NoPlan == [kind |-> "None", to |-> None, before |-> None]

Places == {"idle", "evict", "persist", "readPin", "readView", "wait", "repin",
           "verify", "assert", "install", "flush", "commit"}

\* Places at which a thread holds `active`.
Critical == {"repin", "verify", "assert", "install", "flush", "commit"}

TypeOK ==
  /\ state \in [Providers -> ProbeState] /\ settled \subseteq Providers
  /\ active \in MaybeProvider /\ adopted \in BOOLEAN
  /\ forced \in MaybeProvider /\ stored \in MaybeProvider
  /\ routes \in RouteTable
  /\ chain \in MaybeProvider /\ flows \subseteq Paths
  /\ lock \in Threads \cup {None}
  /\ pc \in [Threads -> Places]
  /\ seen \in [Threads -> View]
  /\ plan \in [Threads -> Plan]
  /\ spent \in [verdicts : Nat, external : Nat, crashes : Nat]

-----------------------------------------------------------------------------
(***************************************************************************)
(* Start and restart (Balancer::new).                                      *)
(***************************************************************************)

\* The incumbent: the provider of the preferred default, if that default is
\* at metric 0.  A table that cannot be read counts as empty.
Incumbents(r) ==
  LET owner == IF r.ours = None /\ r.rival = None THEN None ELSE PathOf(r)
  IN {IF owner \in Providers THEN owner ELSE None}
     \cup (IF "read" \in Faults THEN {None} ELSE {})

StartRoutes == [ours |-> None, rival |-> None, rivalFirst |-> FALSE]

Init ==
  /\ state = Unproven /\ settled = {}
  /\ routes \in {[StartRoutes EXCEPT !.ours = q] : q \in Paths \cup {None}}
  /\ active \in Incumbents(routes) /\ adopted = (active # None)
  /\ stored \in Commands \cup {None} /\ forced = stored
  /\ chain = None
  /\ flows = IF Pinning \/ Path = None THEN {} ELSE {Path}
  /\ lock = None
  /\ pc = [t \in Threads |-> "idle"]
  /\ seen = [t \in Threads |-> NoView]
  /\ plan = [t \in Threads |-> NoPlan]
  /\ spent = [verdicts |-> 0, external |-> 0, crashes |-> 0]

\* The process dies at any point (a crash, or shutdown aborting its tasks)
\* and a new one starts on what the kernel and the disk still hold; a reboot
\* empties the kernel as well.
Restart ==
  /\ spent.crashes < MaxCrashes
  /\ spent' = [spent EXCEPT !.crashes = @ + 1]
  /\ \/ UNCHANGED kernel
     \/ routes' = StartRoutes /\ chain' = None /\ flows' = {}
  /\ state' = Unproven /\ settled' = {}
  /\ active' \in Incumbents(routes') /\ adopted' = (active' # None)
  /\ forced' = stored /\ UNCHANGED stored
  /\ lock' = None
  /\ pc' = [t \in Threads |-> "idle"]
  /\ seen' = [t \in Threads |-> NoView]
  /\ plan' = [t \in Threads |-> NoPlan]
-----------------------------------------------------------------------------
(***************************************************************************)
(* Steps shared by the tasks.                                              *)
(***************************************************************************)
Goto(t, place) == pc' = [pc EXCEPT ![t] = place]

\* The guard on `active` is dropped and the handler returns.
Release(t) ==
  /\ lock' = IF lock = t THEN None ELSE lock
  /\ Goto(t, "idle")
  /\ plan' = [plan EXCEPT ![t] = NoPlan]

\* Router::set_default_route: only `ip route replace` can fail it; removing
\* the competing defaults afterwards is best effort.
Installed(p) ==
  {[ours |-> p, rival |-> None, rivalFirst |-> FALSE]} \cup
  {[ours |-> p, rival |-> routes.rival, rivalFirst |-> b] :
     b \in IF "scrub" \notin Faults \/ routes.rival = None THEN {}
           ELSE IF routes.ours # None THEN {routes.rivalFirst} ELSE BOOLEAN}

SetDefaultRoute(p) == routes' \in Installed(p)

RouteRefused == "route" \in Faults /\ UNCHANGED routes

\* What Router::current_default answers.
CurrentDefault == {Path} \cup (IF "read" \in Faults THEN {None} ELSE {})

(***************************************************************************)
(* The health loop of provider p.                                          *)
(***************************************************************************)

\* One probe round and apply_probe_result, under the write side of
\* `providers`.  ProviderHealth says which verdicts a round can give.
Judge(p, s) ==
  /\ pc[p] = "idle"
  /\ s \in {"Up", "Down"} \/ s = state[p]
  /\ IF state[p] \in {s, "Unknown"} THEN UNCHANGED spent
     ELSE /\ spent.verdicts < MaxVerdicts
          /\ spent' = [spent EXCEPT !.verdicts = @ + 1]
  /\ state' = [state EXCEPT ![p] = s]
  /\ settled' = IF s = "Up" THEN settled ELSE settled \ {p}
  /\ Goto(p, IF Pinning /\ s = "Down" /\ state[p] # "Down" THEN "evict" ELSE "readPin")
  /\ UNCHANGED <<active, adopted, forced, stored, kernel, lock, seen, plan>>

\* p has been up for the failback window.
Settle(p) ==
  /\ state[p] = "Up" /\ p \notin settled
  /\ settled' = settled \cup {p}
  /\ UNCHANGED <<state, active, adopted, forced, stored, kernel, lock, pc, seen, plan, spent>>

\* evict_pinned: conntrack -D by p's mark, after the verdict is published.
Evict(p) ==
  /\ pc[p] = "evict"
  /\ flows' \in {flows \ {p}} \cup (IF "flush" \in Faults THEN {flows} ELSE {})
  /\ Goto(p, "readPin")
  /\ UNCHANGED <<shared, routes, chain, lock, seen, plan, spent>>

(***************************************************************************)
(* The operator's commands: force_provider and clear_force.                *)
(***************************************************************************)
Command(o, c) ==
  /\ pc[o] = "idle"
  /\ c \in Commands
  /\ forced' = c
  /\ plan' = [plan EXCEPT ![o] = [NoPlan EXCEPT !.kind = "Command", !.to = c]]
  /\ Goto(o, "persist")
  /\ UNCHANGED <<state, settled, active, adopted, stored, kernel, lock, seen, spent>>

\* mutant: `auto` forgets the key on disk
PersistForceOnly(o) ==
  /\ pc[o] = "persist"
  /\ stored' = IF plan[o].to = None THEN stored ELSE plan[o].to
  /\ plan' = [plan EXCEPT ![o] = NoPlan]
  /\ Goto(o, "readPin")
  /\ UNCHANGED <<state, settled, active, adopted, forced, kernel, lock, seen, spent>>

\* set_kv or del_kv, after the lock on force_override is gone.
Persist(o) ==
  /\ pc[o] = "persist"
  /\ stored' \in {plan[o].to} \cup (IF "persist" \in Faults THEN {stored} ELSE {})
  /\ plan' = [plan EXCEPT ![o] = NoPlan]
  /\ Goto(o, "readPin")
  /\ UNCHANGED <<state, settled, active, adopted, forced, kernel, lock, seen, spent>>

(***************************************************************************)
(* reconcile_inner.                                                        *)
(***************************************************************************)
ReadPin(t) ==
  /\ pc[t] = "readPin"
  /\ seen' = [seen EXCEPT ![t].pin = forced]
  /\ Goto(t, "readView")
  /\ UNCHANGED <<shared, kernel, lock, plan, spent>>

ReadView(t) ==
  /\ pc[t] = "readView"
  /\ seen' = [seen EXCEPT ![t].state = state, ![t].settled = settled]
  /\ Goto(t, "wait")
  /\ UNCHANGED <<shared, kernel, lock, plan, spent>>

\* mutant: decides on the incumbent it saw, without the write lock
AcquireUnlocked(t) ==
  /\ pc[t] = "wait"
  /\ LET d == Decide(active, seen[t].pin, seen[t].state, seen[t].settled)
     IN IF d.kind \in {"Keep", "Switch"}
          THEN /\ lock' = t
               /\ Goto(t, "repin")
               /\ \E before \in CurrentDefault :
                    plan' = [plan EXCEPT ![t] =
                      [kind |-> d.kind, before |-> before,
                       to |-> IF d.kind = "Keep" THEN active ELSE d.to]]
          ELSE Goto(t, "idle") /\ UNCHANGED <<lock, plan>>
  /\ seen' = [seen EXCEPT ![t] = NoView]
  /\ UNCHANGED <<shared, kernel, spent>>

\* The write side of `active` is granted: decide, and if the decision acts,
\* read back the default route before touching anything.
Acquire(t) ==
  /\ pc[t] = "wait" /\ lock = None
  /\ LET d == Decide(active, seen[t].pin, seen[t].state, seen[t].settled)
     IN IF d.kind \in {"Keep", "Switch"}
          THEN /\ lock' = t
               /\ Goto(t, "repin")
               /\ \E before \in CurrentDefault :
                    plan' = [plan EXCEPT ![t] =
                      [kind |-> d.kind, before |-> before,
                       to |-> IF d.kind = "Keep" THEN active ELSE d.to]]
          ELSE Goto(t, "idle") /\ UNCHANGED <<lock, plan>>
  /\ seen' = [seen EXCEPT ![t] = NoView]
  /\ UNCHANGED <<shared, kernel, spent>>

Keeping(t) == plan[t].kind = "Keep"
Switching(t) == plan[t].kind = "Switch"

\* The route this thread installs was not the one the kernel used before.
Moved(t) == plan[t].before # plan[t].to

\* mutant: only a switch aims the chain
RepinOnSwitchOnly(t) ==
  /\ pc[t] = "repin"
  /\ chain' = IF Pinning /\ Switching(t) THEN plan[t].to ELSE chain
  /\ \/ Switching(t) /\ Goto(t, "install") /\ UNCHANGED <<adopted, lock, plan>>
     \/ /\ Keeping(t) /\ adopted /\ adopted' = FALSE
        /\ Goto(t, "verify") /\ UNCHANGED <<lock, plan>>
     \/ /\ Keeping(t) /\ ~adopted /\ t \in Operators
        /\ Goto(t, "assert") /\ UNCHANGED <<adopted, lock, plan>>
     \/ Keeping(t) /\ ~adopted /\ t \notin Operators /\ Release(t) /\ UNCHANGED adopted
  /\ UNCHANGED <<state, settled, active, forced, stored, routes, flows, seen, spent>>

\* repin; in the Keep arm also the swap of active_adopted.
Repin(t) ==
  /\ pc[t] = "repin"
  /\ chain' \in (IF Pinning THEN {plan[t].to} ELSE {chain})
                \cup (IF "pin" \in Faults THEN {chain} ELSE {})
  /\ \/ Switching(t) /\ Goto(t, "install") /\ UNCHANGED <<adopted, lock, plan>>
     \/ /\ Keeping(t) /\ adopted /\ adopted' = FALSE
        /\ Goto(t, "verify") /\ UNCHANGED <<lock, plan>>
     \/ /\ Keeping(t) /\ ~adopted /\ t \in Operators
        /\ Goto(t, "assert") /\ UNCHANGED <<adopted, lock, plan>>
     \/ Keeping(t) /\ ~adopted /\ t \notin Operators /\ Release(t) /\ UNCHANGED adopted
  /\ UNCHANGED <<state, settled, active, forced, stored, routes, flows, seen, spent>>

\* Keep arm: the adopted route is asserted once.
Verify(t) ==
  /\ pc[t] = "verify"
  /\ \/ SetDefaultRoute(plan[t].to) /\ t \in Operators
        /\ Goto(t, "assert") /\ UNCHANGED <<lock, plan>>
     \/ SetDefaultRoute(plan[t].to) /\ t \notin Operators /\ Release(t)
     \/ RouteRefused /\ Release(t)
  /\ UNCHANGED <<shared, chain, flows, seen, spent>>

\* Keep arm, always_install: an operator command re-asserts the route.
Assert(t) ==
  /\ pc[t] = "assert"
  /\ \/ SetDefaultRoute(plan[t].to) /\ Moved(t)
        /\ Goto(t, "flush") /\ UNCHANGED <<lock, plan>>
     \/ SetDefaultRoute(plan[t].to) /\ ~Moved(t) /\ Release(t)
     \/ RouteRefused /\ Release(t)
  /\ UNCHANGED <<shared, chain, flows, seen, spent>>

\* mutant: a route the daemon adopted is taken over without a flush
InstallUnflushed(t) ==
  /\ pc[t] = "install"
  /\ \/ SetDefaultRoute(plan[t].to)
        /\ Goto(t, IF Moved(t) /\ ~Pinning /\ ~adopted THEN "flush" ELSE "commit")
        /\ UNCHANGED <<lock, plan>>
     \/ RouteRefused /\ Release(t)
  /\ UNCHANGED <<shared, chain, flows, seen, spent>>

\* mutant: every installation flushes
InstallFlushing(t) ==
  /\ pc[t] = "install"
  /\ \/ SetDefaultRoute(plan[t].to) /\ Goto(t, "flush") /\ UNCHANGED <<lock, plan>>
     \/ RouteRefused /\ Release(t)
  /\ UNCHANGED <<shared, chain, flows, seen, spent>>

\* Switch arm: move the route; with pinning nothing that runs is flushed.
Install(t) ==
  /\ pc[t] = "install"
  /\ \/ SetDefaultRoute(plan[t].to)
        /\ Goto(t, IF Moved(t) /\ ~Pinning THEN "flush" ELSE "commit")
        /\ UNCHANGED <<lock, plan>>
     \/ RouteRefused /\ Release(t)
  /\ UNCHANGED <<shared, chain, flows, seen, spent>>

\* conntrack -F, best effort; reconcile_inner or the watchdog.
Flush(t) ==
  /\ pc[t] = "flush"
  /\ flows' \in {{}} \cup (IF "flush" \in Faults THEN {flows} ELSE {})
  /\ \/ Switching(t) /\ Goto(t, "commit") /\ UNCHANGED <<lock, plan>>
     \/ ~Switching(t) /\ Release(t)
  /\ UNCHANGED <<shared, routes, chain, seen, spent>>

\* mutant: commits the next hop that was found instead of the one installed
CommitFound(t) ==
  /\ pc[t] = "commit"
  /\ active' = plan[t].before
  /\ adopted' = FALSE
  /\ settled' \in IF active = None THEN {settled} ELSE {settled, {}}
  /\ Release(t)
  /\ UNCHANGED <<state, forced, stored, kernel, seen, spent>>

\* Switch arm: the new incumbent.  A counted switch may stretch the failback
\* window, which un-settles providers.
Commit(t) ==
  /\ pc[t] = "commit"
  /\ active' = plan[t].to
  /\ adopted' = FALSE
  /\ settled' \in IF active = None THEN {settled} ELSE {settled, {}}
  /\ Release(t)
  /\ UNCHANGED <<state, forced, stored, kernel, seen, spent>>

(***************************************************************************)
(* The route watchdog, which holds the read side of `active` throughout.   *)
(***************************************************************************)

\* mutant: the incumbent is read and the lock given back
LookUnlocked ==
  /\ pc[Watchdog] = "idle" /\ active # None
  /\ ~OursPresent(active) \/ RivalPresent(active)
  /\ plan' = [plan EXCEPT ![Watchdog] =
       [kind |-> "Watch", to |-> active,
        before |-> IF OursPresent(active) THEN active ELSE None]]
  /\ Goto(Watchdog, "install")
  /\ UNCHANGED <<shared, kernel, lock, seen, spent>>

\* mutant: looks for our route only, not for a rival beside it
LookForOurs ==
  /\ pc[Watchdog] = "idle" /\ lock = None /\ active # None
  /\ ~OursPresent(active)
  /\ lock' = Watchdog
  /\ plan' = [plan EXCEPT ![Watchdog] = [kind |-> "Watch", to |-> active, before |-> None]]
  /\ Goto(Watchdog, "install")
  /\ UNCHANGED <<shared, kernel, seen, spent>>

Look ==
  /\ pc[Watchdog] = "idle" /\ lock = None /\ active # None
  /\ ~OursPresent(active) \/ RivalPresent(active)
  /\ lock' = Watchdog
  /\ plan' = [plan EXCEPT ![Watchdog] =
       [kind |-> "Watch", to |-> active,
        before |-> IF OursPresent(active) THEN active ELSE None]]
  /\ Goto(Watchdog, "install")
  /\ UNCHANGED <<shared, kernel, seen, spent>>

\* Re-install the incumbent; flush everything if our route was gone.
Reclaim ==
  /\ pc[Watchdog] = "install"
  /\ \/ SetDefaultRoute(plan[Watchdog].to) /\ Moved(Watchdog)
        /\ Goto(Watchdog, "flush") /\ UNCHANGED <<lock, plan>>
     \/ SetDefaultRoute(plan[Watchdog].to) /\ ~Moved(Watchdog) /\ Release(Watchdog)
     \/ RouteRefused /\ Release(Watchdog)
  /\ UNCHANGED <<shared, chain, flows, seen, spent>>

(***************************************************************************)
(* The world outside the daemon.                                           *)
(***************************************************************************)

\* netplan, NetworkManager or a DHCP client edits the defaults at metric 0.
External ==
  /\ spent.external < MaxExternal
  /\ spent' = [spent EXCEPT !.external = @ + 1]
  /\ \E q \in Paths, b \in BOOLEAN :
       routes' \in {StartRoutes, [StartRoutes EXCEPT !.ours = q],
                    [routes EXCEPT !.rival = q, !.rivalFirst = b /\ routes.ours # None]}
  /\ routes' # routes
  /\ UNCHANGED <<shared, chain, flows, lock, pc, seen, plan>>

\* A connection is opened: stamped with the mark in the chain if there is one,
\* otherwise bound to the NAT state of the next hop it is routed by.
Connect ==
  /\ LET hop == IF Pinning THEN chain ELSE Path
     IN hop # None /\ hop \notin flows /\ flows' = flows \cup {hop}
  /\ UNCHANGED <<shared, routes, chain, lock, pc, seen, plan, spent>>

-----------------------------------------------------------------------------
Reconciling(t) ==
  \/ ReadPin(t) \/ ReadView(t) \/ Acquire(t) \/ Repin(t) \/ Verify(t) \/ Assert(t)
  \/ Commit(t)

Next ==
  \/ \E p \in Providers, s \in ProbeState : Judge(p, s)
  \/ \E p \in Providers : Settle(p) \/ Evict(p) \/ Install(p)
  \/ \E o \in Operators, c \in Commands : Command(o, c)
  \/ \E o \in Operators : Persist(o) \/ Install(o)
  \/ \E t \in Providers \cup Operators : Reconciling(t)
  \/ \E t \in Threads : Flush(t)
  \/ Look \/ Reclaim
  \/ External \/ Connect \/ Restart

Spec == Init /\ [][Next]_vars

(***************************************************************************)
(* Fairness.  Every task is scheduled again and again and its child        *)
(* processes end.  Nothing is assumed of a health loop that waits for      *)
(* `active` while others take it; the watchdog's request is granted in     *)
(* the end, as tokio's RwLock queues its waiters.                          *)
(***************************************************************************)
HealthLoop(p) ==
  (\E s \in ProbeState : Judge(p, s)) \/ Evict(p) \/ Reconciling(p) \/ Install(p) \/ Flush(p)

Fairness ==
  /\ \A p \in Providers : WF_vars(HealthLoop(p)) /\ WF_vars(Settle(p))
  /\ \A o \in Operators : WF_vars(Persist(o) \/ Reconciling(o) \/ Install(o) \/ Flush(o))
  /\ SF_vars(Look)
  /\ WF_vars(Reclaim \/ Flush(Watchdog))

FairSpec == Spec /\ Fairness

-----------------------------------------------------------------------------
(***************************************************************************)
(* Properties.                                                             *)
(***************************************************************************)

\* Whenever nobody holds `active`, the kernel forwards through the provider
\* the daemon believes active: no await point inside a switch, a refused
\* route, a crash or a reboot separates the two.  (Of a gateway no other tool
\* interferes with.)
RouteFollowsActive == lock = None /\ active # None => Path = active

\* Until the daemon is first killed, and whenever nobody holds `active`, no
\* tracked connection is left bound to the NAT state of another next hop,
\* where it would black-hole.  (Of a gateway without pinning or interference.)
NoStaleFlows ==
  spent.crashes = 0 /\ lock = None /\ active # None => flows \subseteq {active}

\* Connections are reset only when the kernel's next hop really is another
\* one than when the handler took the lock: confirming an adopted route,
\* pinning the provider that is active, or starting on the routes a killed
\* daemon left costs nobody anything.
OnlyMovesResetFlows ==
  [][ ~(flows \subseteq flows') /\ spent'.crashes = spent.crashes
      => \E t \in Threads : pc[t] = "flush" /\ plan[t].before # Path ]_flows

\* A watchdog tick never undoes a switch: what it installs is the provider
\* that is active at that very step, not the one it read before the switch.
WatchdogNeverUndoesSwitch ==
  [][ /\ pc[Watchdog] = "install" /\ pc'[Watchdog] # "install"
      /\ routes' # routes /\ spent'.crashes = spent.crashes
      => routes'.ours = active ]_vars

\* While no command is under way the pin on disk is the pin in memory, so a
\* restart gives the operator back the choice made last.
PinIsDurable ==
  (\A o \in Operators : pc[o] # "persist") => stored = forced

\* Once verdicts and routes are left alone and every provider has a verdict,
\* the gateway ends up, for good, with the provider it should use active and
\* installed: no lost wake-up, no stale view and no rival survives.
Wanted ==
  IF forced \in Healthy(state) THEN forced ELSE BestHealthy(state)

Converges ==
  <>[](Healthy(state) # {} /\ (\A p \in Providers : state[p] # "Unknown")
         => active = Wanted /\ Path = active)

\* With pinning, a connection is dropped only if its own provider is down:
\* no switch, command or adoption touches the others.
SwitchSparesPinned ==
  [][ \A q \in Providers : q \in flows /\ q \notin flows' => state[q] = "Down" ]_flows

\* With pinning, new connections are stamped with the active provider's mark
\* whenever nobody holds `active`, once the chain exists.
ChainFollowsActive ==
  lock = None /\ active # None /\ ~adopted => chain = active
=============================================================================

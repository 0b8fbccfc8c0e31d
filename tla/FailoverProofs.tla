--------------------------- MODULE FailoverProofs ---------------------------
(***************************************************************************)
(* What holds of Failover for any number of providers, operators, faults,  *)
(* edits and crashes: its types, and the discipline of the lock on         *)
(* `active`, from which the safety properties follow.                      *)
(***************************************************************************)
EXTENDS Failover, SelectionProofs

-----------------------------------------------------------------------------
(***************************************************************************)
(* Types.                                                                  *)
(***************************************************************************)

\* Whatever defaults are installed, the next hop is a known one or none.
LEMMA PathType ==
  ASSUME NEW r \in RouteTable
  PROVE  PathOf(r) \in Paths \cup {None}
BY ParametersAssumption DEF PathOf, RouteTable

\* A started daemon adopts the provider the kernel forwards through, or none.
LEMMA IncumbentsType ==
  ASSUME NEW r \in RouteTable, NEW p \in Incumbents(r)
  PROVE  p \in MaybeProvider /\ (p # None => p = PathOf(r))
BY DEF Incumbents, MaybeProvider

\* Installing a provider's route leaves a well-formed table with that route
\* in it; a rival is there afterwards only if it was before.
LEMMA InstalledType ==
  ASSUME TypeOK, NEW p \in Providers, SetDefaultRoute(p)
  PROVE  /\ routes' \in RouteTable
         /\ routes'.ours = p
         /\ routes'.rival \in {None, routes.rival}
         /\ "scrub" \notin Faults => routes'.rival = None
<1>1. routes \in RouteTable /\ p \in Paths
  BY DEF TypeOK, Paths
<1>2. CASE routes' = [ours |-> p, rival |-> None, rivalFirst |-> FALSE]
  BY <1>1, <1>2 DEF RouteTable
<1>3. ASSUME NEW b \in BOOLEAN, "scrub" \in Faults,
             routes' = [ours |-> p, rival |-> routes.rival, rivalFirst |-> b]
      PROVE  routes' \in RouteTable /\ routes'.ours = p /\ routes'.rival = routes.rival
  BY <1>1, <1>3 DEF RouteTable
<1>4. routes.rivalFirst \in BOOLEAN
  BY <1>1 DEF RouteTable
<1>5. QED
  BY <1>2, <1>3, <1>4 DEF SetDefaultRoute, Installed

\* A plan made under the lock names a provider.
LEMMA AcquireType ==
  ASSUME TypeOK, NEW t \in Threads, Acquire(t)
  PROVE  \/ lock' = None /\ pc' = [pc EXCEPT ![t] = "idle"] /\ plan' = plan
         \/ /\ lock' = t /\ pc' = [pc EXCEPT ![t] = "repin"]
            /\ \E k \in {"Keep", "Switch"}, to \in Providers, before \in Paths \cup {None} :
                 /\ plan' = [plan EXCEPT ![t] = [kind |-> k, to |-> to, before |-> before]]
                 /\ k = "Keep" => to = active
                 /\ "read" \notin Faults => before = Path
<1> DEFINE d == Decide(active, seen[t].pin, seen[t].state, seen[t].settled)
<1>1. seen[t].state \in [Providers -> ProbeState]
  BY DEF TypeOK, View
<1>2. CASE d.kind \in {"Keep", "Switch"}
  <2>1. PICK before \in CurrentDefault :
          plan' = [plan EXCEPT ![t] = [kind |-> d.kind, before |-> before,
                                       to |-> IF d.kind = "Keep" THEN active ELSE d.to]]
    BY <1>2 DEF Acquire
  <2>2. before \in Paths \cup {None} /\ ("read" \notin Faults => before = Path)
    BY PathType DEF CurrentDefault, TypeOK, Path
  <2>3. (IF d.kind = "Keep" THEN active ELSE d.to) \in Providers
    BY <1>1, <1>2, SwitchIsToHealthy, KeepIsHealthy DEF Healthy
  <2>4. lock' = t /\ pc' = [pc EXCEPT ![t] = "repin"]
    BY <1>2 DEF Acquire, Goto
  <2>5. QED
    BY <1>2, <2>1, <2>2, <2>3, <2>4
<1>3. CASE d.kind \notin {"Keep", "Switch"}
  BY <1>3 DEF Acquire, Goto
<1>4. QED
  BY <1>2, <1>3

\* Releasing the lock keeps the types it touches.
LEMMA ReleaseType ==
  ASSUME TypeOK, NEW t \in Threads, Release(t)
  PROVE  /\ lock' \in Threads \cup {None}
         /\ pc' \in [Threads -> Places]
         /\ plan' \in [Threads -> Plan]
<1>1. NoPlan \in Plan
  BY DEF NoPlan, Plan, MaybeProvider
<1>2. QED
  BY <1>1 DEF Release, Goto, TypeOK, Places

\* So does going on to another place.
LEMMA GotoType ==
  ASSUME TypeOK, NEW t \in Threads, NEW place \in Places, Goto(t, place)
  PROVE  pc' \in [Threads -> Places]
BY DEF Goto, TypeOK

\* An installation may be refused, which leaves the table as it was.
LEMMA InstallType ==
  ASSUME TypeOK, NEW p \in Providers, SetDefaultRoute(p) \/ RouteRefused
  PROVE  routes' \in RouteTable
BY InstalledType DEF RouteRefused, TypeOK

\* The plan of a thread that installs a route names a provider.
PlansNameProviders ==
  \A t \in Threads : pc[t] \in Critical => plan[t].to \in Providers

TypeInv == TypeOK /\ PlansNameProviders

\* A thread that goes on under its lock keeps its plan, and one that releases
\* it is under no obligation any more.
LEMMA PlansKept ==
  ASSUME TypeInv, NEW t \in Threads, pc[t] \in Critical,
         \/ Release(t)
         \/ plan' = plan /\ \E place \in Places : Goto(t, place)
  PROVE  PlansNameProviders'
BY DEF TypeInv, TypeOK, PlansNameProviders, Release, Goto, Critical

\* The steps outside the lock do not touch the plans of those inside.
LEMMA PlansUntouched ==
  ASSUME TypeInv, NEW t \in Threads, NEW place \in Places \ Critical, Goto(t, place),
         \A u \in Threads \ {t} : plan'[u] = plan[u]
  PROVE  PlansNameProviders'
BY DEF TypeInv, TypeOK, PlansNameProviders, Goto

LEMMA TypeStep ==
  ASSUME TypeInv, [Next]_vars
  PROVE  TypeInv'
<1> USE DEF TypeInv
<1>0. /\ Providers \subseteq Threads /\ Operators \subseteq Threads /\ Watchdog \in Threads
      /\ Critical \subseteq Places
      /\ "idle" \in Places \ Critical /\ "evict" \in Places \ Critical
      /\ "persist" \in Places \ Critical /\ "readPin" \in Places \ Critical
      /\ "readView" \in Places \ Critical /\ "wait" \in Places \ Critical
      /\ "verify" \in Places /\ "assert" \in Places /\ "install" \in Places
      /\ "flush" \in Places /\ "commit" \in Places /\ "repin" \in Places
  BY DEF Threads, Places, Critical
<1>1. ASSUME NEW p \in Providers, NEW s \in ProbeState, Judge(p, s)
      PROVE  TypeInv'
  <2>1. state' \in [Providers -> ProbeState] /\ settled' \subseteq Providers
    BY <1>1 DEF Judge, TypeOK
  <2>2. spent' \in [verdicts : Nat, external : Nat, crashes : Nat]
    BY <1>1 DEF Judge, TypeOK
  <2>3. PICK place \in {"evict", "readPin"} : Goto(p, place)
    BY <1>1 DEF Judge
  <2>4. pc' \in [Threads -> Places] /\ PlansNameProviders'
    BY <1>0, <1>1, <2>3, GotoType, PlansUntouched DEF Judge
  <2>5. QED
    BY <1>1, <2>1, <2>2, <2>4 DEF Judge, TypeOK, kernel
<1>2. ASSUME NEW p \in Providers, Settle(p) PROVE TypeInv'
  BY <1>2 DEF Settle, TypeOK, PlansNameProviders, kernel
<1>3. ASSUME NEW p \in Providers, Evict(p) PROVE TypeInv'
  <2>1. pc' \in [Threads -> Places] /\ PlansNameProviders'
    BY <1>0, <1>3, GotoType, PlansUntouched DEF Evict
  <2>2. flows' \subseteq Paths
    BY <1>3 DEF Evict, TypeOK
  <2>3. QED
    BY <1>3, <2>1, <2>2 DEF Evict, TypeOK, shared
<1>4. ASSUME NEW o \in Operators, NEW c \in Commands, Command(o, c) PROVE TypeInv'
  <2>1. c \in MaybeProvider
    BY ParametersAssumption
  <2>2. [NoPlan EXCEPT !.kind = "Command", !.to = c] \in Plan
    BY <2>1 DEF NoPlan, Plan
  <2>3. plan' \in [Threads -> Plan]
    BY <1>0, <1>4, <2>2 DEF Command, TypeOK
  <2>4. pc' \in [Threads -> Places] /\ PlansNameProviders'
    <3>1. \A u \in Threads \ {o} : plan'[u] = plan[u]
      BY <1>4 DEF Command, TypeOK
    <3>2. QED
      BY <1>0, <1>4, <3>1, GotoType, PlansUntouched DEF Command
  <2>5. QED
    BY <1>4, <2>1, <2>3, <2>4 DEF Command, TypeOK, kernel
<1>5. ASSUME NEW o \in Operators, Persist(o) PROVE TypeInv'
  <2>1. NoPlan \in Plan /\ plan[o].to \in MaybeProvider
    BY <1>0 DEF NoPlan, Plan, MaybeProvider, TypeOK
  <2>2. plan' \in [Threads -> Plan] /\ stored' \in MaybeProvider
    BY <1>0, <1>5, <2>1 DEF Persist, TypeOK
  <2>3. pc' \in [Threads -> Places] /\ PlansNameProviders'
    <3>1. \A u \in Threads \ {o} : plan'[u] = plan[u]
      BY <1>5 DEF Persist, TypeOK
    <3>2. QED
      BY <1>0, <1>5, <3>1, GotoType, PlansUntouched DEF Persist
  <2>4. QED
    BY <1>5, <2>2, <2>3 DEF Persist, TypeOK, kernel
<1>6. ASSUME NEW t \in Threads, ReadPin(t) PROVE TypeInv'
  <2>1. seen' \in [Threads -> View]
    BY <1>6 DEF ReadPin, TypeOK, View
  <2>2. pc' \in [Threads -> Places] /\ PlansNameProviders'
    BY <1>0, <1>6, GotoType, PlansUntouched DEF ReadPin
  <2>3. QED
    BY <1>6, <2>1, <2>2 DEF ReadPin, TypeOK, shared, kernel
<1>7. ASSUME NEW t \in Threads, ReadView(t) PROVE TypeInv'
  <2>1. seen' \in [Threads -> View]
    BY <1>7 DEF ReadView, TypeOK, View
  <2>2. pc' \in [Threads -> Places] /\ PlansNameProviders'
    BY <1>0, <1>7, GotoType, PlansUntouched DEF ReadView
  <2>3. QED
    BY <1>7, <2>1, <2>2 DEF ReadView, TypeOK, shared, kernel
<1>8. ASSUME NEW t \in Threads, Acquire(t) PROVE TypeInv'
  <2>1. NoView \in View
    BY DEF NoView, View, Unproven, MaybeProvider, ProbeState
  <2>2. seen' \in [Threads -> View]
    BY <1>8, <2>1 DEF Acquire, TypeOK
  <2>3. CASE lock' = None /\ pc' = [pc EXCEPT ![t] = "idle"] /\ plan' = plan
    BY <1>0, <1>8, <2>2, <2>3, PlansUntouched DEF Acquire, Goto, TypeOK, shared, kernel
  <2>4. ASSUME lock' = t, pc' = [pc EXCEPT ![t] = "repin"],
               NEW k \in {"Keep", "Switch"}, NEW to \in Providers,
               NEW before \in Paths \cup {None},
               plan' = [plan EXCEPT ![t] = [kind |-> k, to |-> to, before |-> before]]
        PROVE  TypeInv'
    <3>1. [kind |-> k, to |-> to, before |-> before] \in Plan
      BY DEF Plan, MaybeProvider
    <3>2. plan' \in [Threads -> Plan]
      BY <2>4, <3>1 DEF TypeOK
    <3>3. PlansNameProviders'
      BY <1>0, <2>4 DEF TypeOK, PlansNameProviders
    <3>4. QED
      BY <1>0, <1>8, <2>2, <2>4, <3>2, <3>3 DEF Acquire, TypeOK, shared, kernel
  <2>5. QED
    BY <1>8, <2>3, <2>4, AcquireType
<1>9. ASSUME NEW t \in Threads, Repin(t) PROVE TypeInv'
  <2>1. pc[t] \in Critical /\ plan[t].to \in Providers
    BY <1>9 DEF Repin, Critical, PlansNameProviders
  <2>2. chain' \in MaybeProvider
    BY <1>9, <2>1 DEF Repin, TypeOK, MaybeProvider
  <2>3. /\ adopted' \in BOOLEAN
        /\ \/ Release(t)
           \/ plan' = plan /\ lock' = lock /\ \E place \in Places : Goto(t, place)
    BY <1>0, <1>9 DEF Repin, TypeOK
  <2>4. PlansNameProviders'
    BY <2>1, <2>3, PlansKept
  <2>5. lock' \in Threads \cup {None} /\ pc' \in [Threads -> Places]
        /\ plan' \in [Threads -> Plan]
    BY <2>3, ReleaseType, GotoType DEF TypeOK
  <2>6. QED
    BY <1>9, <2>2, <2>3, <2>4, <2>5 DEF Repin, TypeOK
<1>10. ASSUME NEW t \in Threads, Verify(t) \/ Assert(t) \/ Install(t)
       PROVE  TypeInv'
  <2>1. pc[t] \in Critical /\ plan[t].to \in Providers
    BY <1>10 DEF Verify, Assert, Install, Critical, PlansNameProviders
  <2>2. routes' \in RouteTable
    BY <1>10, <2>1, InstallType DEF Verify, Assert, Install
  <2>3. \/ Release(t)
        \/ plan' = plan /\ lock' = lock /\ \E place \in Places : Goto(t, place)
    BY <1>0, <1>10 DEF Verify, Assert, Install
  <2>4. PlansNameProviders'
    BY <2>1, <2>3, PlansKept
  <2>5. lock' \in Threads \cup {None} /\ pc' \in [Threads -> Places]
        /\ plan' \in [Threads -> Plan]
    BY <2>3, ReleaseType, GotoType DEF TypeOK
  <2>6. QED
    BY <1>10, <2>2, <2>4, <2>5 DEF Verify, Assert, Install, TypeOK, shared
<1>11. ASSUME NEW t \in Threads, Flush(t) PROVE TypeInv'
  <2>1. pc[t] \in Critical /\ flows' \subseteq Paths
    BY <1>11 DEF Flush, Critical, TypeOK
  <2>2. \/ Release(t)
        \/ plan' = plan /\ lock' = lock /\ \E place \in Places : Goto(t, place)
    BY <1>0, <1>11 DEF Flush
  <2>3. PlansNameProviders'
    BY <2>1, <2>2, PlansKept
  <2>4. lock' \in Threads \cup {None} /\ pc' \in [Threads -> Places]
        /\ plan' \in [Threads -> Plan]
    BY <2>2, ReleaseType, GotoType DEF TypeOK
  <2>5. QED
    BY <1>11, <2>1, <2>3, <2>4 DEF Flush, TypeOK, shared
<1>12. ASSUME NEW t \in Threads, Commit(t) PROVE TypeInv'
  <2>1. pc[t] \in Critical /\ plan[t].to \in Providers /\ Release(t)
    BY <1>12 DEF Commit, Critical, PlansNameProviders
  <2>2. PlansNameProviders'
    BY <2>1, PlansKept
  <2>3. lock' \in Threads \cup {None} /\ pc' \in [Threads -> Places]
        /\ plan' \in [Threads -> Plan]
    BY <2>1, ReleaseType
  <2>4. settled' \subseteq Providers
    BY <1>12 DEF Commit, TypeOK
  <2>5. QED
    BY <1>12, <2>1, <2>2, <2>3, <2>4 DEF Commit, TypeOK, kernel, MaybeProvider
<1>13. ASSUME Look PROVE TypeInv'
  <2>1. active \in Providers
    BY <1>13 DEF Look, TypeOK, MaybeProvider
  <2>2. [kind |-> "Watch", to |-> active,
         before |-> IF OursPresent(active) THEN active ELSE None] \in Plan
    BY <2>1 DEF Plan, MaybeProvider, Paths
  <2>3. plan' \in [Threads -> Plan] /\ pc' \in [Threads -> Places]
    BY <1>0, <1>13, <2>2 DEF Look, Goto, TypeOK
  <2>4. PlansNameProviders'
    BY <1>0, <1>13, <2>1 DEF Look, Goto, TypeOK, PlansNameProviders
  <2>5. QED
    BY <1>0, <1>13, <2>3, <2>4 DEF Look, TypeOK, shared, kernel
<1>14. ASSUME Reclaim PROVE TypeInv'
  <2>1. pc[Watchdog] \in Critical /\ plan[Watchdog].to \in Providers
    BY <1>0, <1>14 DEF Reclaim, Critical, PlansNameProviders
  <2>2. routes' \in RouteTable
    BY <1>14, <2>1, InstallType DEF Reclaim
  <2>3. \/ Release(Watchdog)
        \/ plan' = plan /\ lock' = lock /\ \E place \in Places : Goto(Watchdog, place)
    BY <1>0, <1>14 DEF Reclaim
  <2>4. PlansNameProviders'
    BY <1>0, <2>1, <2>3, PlansKept
  <2>5. lock' \in Threads \cup {None} /\ pc' \in [Threads -> Places]
        /\ plan' \in [Threads -> Plan]
    BY <1>0, <2>3, ReleaseType, GotoType DEF TypeOK
  <2>6. QED
    BY <1>14, <2>2, <2>4, <2>5 DEF Reclaim, TypeOK, shared
<1>15. ASSUME External PROVE TypeInv'
  <2>1. PICK q \in Paths, b \in BOOLEAN :
          routes' \in {StartRoutes, [StartRoutes EXCEPT !.ours = q],
                       [routes EXCEPT !.rival = q, !.rivalFirst = b /\ routes.ours # None]}
    BY <1>15 DEF External
  <2>3. StartRoutes \in RouteTable /\ [StartRoutes EXCEPT !.ours = q] \in RouteTable
    BY DEF StartRoutes, RouteTable
  <2>4. [routes EXCEPT !.rival = q, !.rivalFirst = b /\ routes.ours # None] \in RouteTable
    BY DEF TypeOK, RouteTable
  <2>5. routes' \in RouteTable
    BY <2>1, <2>3, <2>4
  <2>6. QED
    BY <1>15, <2>5 DEF External, TypeOK, PlansNameProviders, shared
<1>16. ASSUME Connect PROVE TypeInv'
  <2>1. flows' \subseteq Paths
    BY <1>16, PathType DEF Connect, TypeOK, Path, MaybeProvider, Paths
  <2>2. QED
    BY <1>16, <2>1 DEF Connect, TypeOK, PlansNameProviders, shared
<1>17. ASSUME Restart PROVE TypeInv'
  <2>1. routes' \in RouteTable /\ chain' \in MaybeProvider /\ flows' \subseteq Paths
    <3>1. StartRoutes \in RouteTable
      BY DEF StartRoutes, RouteTable
    <3>2. CASE UNCHANGED kernel
      BY <3>2 DEF TypeOK, kernel
    <3>3. CASE routes' = StartRoutes /\ chain' = None /\ flows' = {}
      BY <3>1, <3>3 DEF MaybeProvider
    <3>4. QED
      BY <1>17, <3>2, <3>3 DEF Restart
  <2>2. active' \in MaybeProvider
    BY <1>17, <2>1, IncumbentsType DEF Restart
  <2>3. /\ NoView \in View /\ NoPlan \in Plan
        /\ Unproven \in [Providers -> ProbeState]
    BY DEF NoView, View, Unproven, MaybeProvider, ProbeState, NoPlan, Plan
  <2>4. /\ pc' \in [Threads -> Places] /\ plan' \in [Threads -> Plan]
        /\ seen' \in [Threads -> View]
    BY <1>0, <1>17, <2>3 DEF Restart
  <2>5. PlansNameProviders'
    BY <1>0, <1>17 DEF Restart, PlansNameProviders
  <2>6. QED
    BY <1>17, <2>1, <2>2, <2>3, <2>4, <2>5 DEF Restart, TypeOK
<1>18. ASSUME UNCHANGED vars PROVE TypeInv'
  BY <1>18 DEF vars, shared, kernel, TypeOK, PlansNameProviders
<1>19. QED
  BY <1>0, <1>1, <1>2, <1>3, <1>4, <1>5, <1>6, <1>7, <1>8, <1>9, <1>10, <1>11, <1>12,
     <1>13, <1>14, <1>15, <1>16, <1>17, <1>18 DEF Next, Reconciling

\* The types and the plans made under the lock, from the start on.
LEMMA TypeInvariant == Spec => []TypeInv
<1>1. Init => TypeInv
  <2> SUFFICES ASSUME Init PROVE TypeInv
    OBVIOUS
  <2>1. routes \in RouteTable
    BY DEF Init, StartRoutes, RouteTable
  <2>2. active \in MaybeProvider /\ Path \in Paths \cup {None}
    BY <2>1, IncumbentsType, PathType DEF Init, Path
  <2>3. stored \in MaybeProvider
    BY ParametersAssumption DEF Init, MaybeProvider
  <2>4. flows \subseteq Paths
    BY <2>2 DEF Init
  <2>5. /\ NoView \in View /\ NoPlan \in Plan
        /\ Unproven \in [Providers -> ProbeState]
    BY DEF NoView, View, Unproven, MaybeProvider, ProbeState, NoPlan, Plan
  <2>6. QED
    BY <2>1, <2>2, <2>3, <2>4, <2>5
    DEF Init, TypeInv, TypeOK, PlansNameProviders, Places, Critical, MaybeProvider
<1>2. QED
  BY <1>1, TypeStep, PTL DEF Spec

\* Every variable keeps its type, whatever fails, crashes or interferes.
THEOREM TypeCorrect == Spec => []TypeOK
<1>1. TypeInv => TypeOK
  BY DEF TypeInv
<1>2. QED
  BY <1>1, TypeInvariant, PTL

-----------------------------------------------------------------------------
(***************************************************************************)
(* The lock on `active`.                                                   *)
(***************************************************************************)

\* A thread is inside reconcile_inner's critical section, or the watchdog in
\* its own, exactly while it holds the lock; what a thread that does not move
\* the gateway installs is then the active provider, and only a switch
\* commits.
LockInv ==
  /\ \A t \in Threads : pc[t] \in Critical <=> lock = t
  /\ \A t \in Threads : pc[t] \in Critical /\ ~Switching(t) => plan[t].to = active
  /\ \A t \in Threads : pc[t] \in {"verify", "assert"} => ~Switching(t)
  /\ \A t \in Threads : pc[t] = "commit" => Switching(t)
  /\ \A t \in Threads \ {Watchdog} : pc[t] = "install" => Switching(t)
  /\ pc[Watchdog] \in {"idle", "install", "flush"}
  /\ pc[Watchdog] # "idle" => ~Switching(Watchdog)

\* Giving up the lock leaves nobody inside.
LEMMA LockReleased ==
  ASSUME TypeOK, LockInv, NEW t \in Threads, pc[t] \in Critical, Release(t)
  PROVE  LockInv'
<1>1. \A u \in Threads : u # t => pc'[u] = pc[u] /\ pc[u] \notin Critical
  BY DEF Release, Goto, LockInv, TypeOK
<1>2. pc'[t] = "idle" /\ lock' = None
  BY DEF Release, Goto, LockInv, TypeOK
<1>3. \A u \in Threads : pc'[u] \notin Critical
  BY <1>1, <1>2 DEF Critical
<1>4. pc'[Watchdog] = "idle"
  BY <1>1, <1>2 DEF LockInv, Critical, Threads
<1>5. \A u \in Threads : pc'[u] \notin Critical <=> lock' # u
  BY <1>2, <1>3, ThreadsAssumption
<1>6. QED
  BY <1>3, <1>4, <1>5 DEF LockInv, Critical

\* Going on inside the critical section.
LEMMA LockHeld ==
  ASSUME TypeOK, LockInv, NEW t \in Threads, pc[t] \in Critical,
         NEW place \in Critical, Goto(t, place),
         plan' = plan, lock' = lock, active' = active,
         place \in {"verify", "assert"} => ~Switching(t),
         place = "commit" => Switching(t),
         place = "install" => Switching(t),
         t = Watchdog => place = "flush"
  PROVE  LockInv'
<1>1. pc'[t] = place /\ \A u \in Threads : u # t => pc'[u] = pc[u]
  BY DEF Goto, TypeOK
<1>2. Watchdog \in Threads
  BY DEF Threads
<1>3. QED
  BY <1>1, <1>2 DEF LockInv, Switching, Critical

\* A step outside the critical section.
LEMMA LockUntouched ==
  ASSUME TypeOK, LockInv, NEW t \in Threads \ {Watchdog}, pc[t] \notin Critical,
         NEW place \in Places \ Critical, Goto(t, place),
         \A u \in Threads \ {t} : plan'[u] = plan[u],
         lock' = lock, active' = active
  PROVE  LockInv'
<1>1. pc'[t] = place /\ \A u \in Threads : u # t => pc'[u] = pc[u]
  BY DEF Goto, TypeOK
<1>2. Watchdog \in Threads
  BY DEF Threads
<1>3. QED
  BY <1>1, <1>2 DEF LockInv, Switching, Critical

\* Taking the lock.
LEMMA LockTaken ==
  ASSUME TypeOK, LockInv, NEW t \in Threads \ {Watchdog}, Acquire(t)
  PROVE  LockInv'
<1>1. Watchdog \in Threads /\ t \in Threads /\ pc[t] = "wait" /\ lock = None
  BY DEF Threads, Acquire
<1>2. active' = active
  BY DEF Acquire, shared
<1>3. CASE lock' = None /\ pc' = [pc EXCEPT ![t] = "idle"] /\ plan' = plan
  <2>1. "idle" \in Places \ Critical /\ pc[t] \notin Critical /\ Goto(t, "idle")
    BY <1>1, <1>3 DEF Places, Critical, Goto
  <2>2. QED
    BY <1>1, <1>2, <1>3, <2>1, LockUntouched
<1>4. ASSUME lock' = t, pc' = [pc EXCEPT ![t] = "repin"],
             NEW k \in {"Keep", "Switch"}, NEW to \in Providers,
             NEW before \in Paths \cup {None},
             plan' = [plan EXCEPT ![t] = [kind |-> k, to |-> to, before |-> before]],
             k = "Keep" => to = active
      PROVE  LockInv'
  <2>1. /\ pc'[t] = "repin" /\ plan'[t].kind = k /\ plan'[t].to = to
        /\ \A u \in Threads : u # t => pc'[u] = pc[u] /\ plan'[u] = plan[u]
    BY <1>4 DEF TypeOK
  <2>2. \A u \in Threads : pc[u] \notin Critical
    BY <1>1, ThreadsAssumption DEF LockInv
  <2>3. QED
    BY <1>1, <1>2, <1>4, <2>1, <2>2 DEF LockInv, Switching, Critical
<1>5. QED
  BY <1>1, <1>3, <1>4, AcquireType

LEMMA LockStep ==
  ASSUME TypeOK, LockInv, [Next]_vars
  PROVE  LockInv'
<1>0. /\ Providers \subseteq Threads \ {Watchdog} /\ Operators \subseteq Threads \ {Watchdog}
      /\ Watchdog \in Threads
      /\ "idle" \in Places \ Critical /\ "evict" \in Places \ Critical
      /\ "persist" \in Places \ Critical /\ "readPin" \in Places \ Critical
      /\ "readView" \in Places \ Critical /\ "wait" \in Places \ Critical
  BY ThreadsAssumption DEF Threads, Places, Critical
<1>1. ASSUME NEW p \in Providers, NEW s \in ProbeState, Judge(p, s)
      PROVE  LockInv'
  <2>1. PICK place \in {"evict", "readPin"} : Goto(p, place)
    BY <1>1 DEF Judge
  <2>2. QED
    BY <1>0, <1>1, <2>1, LockUntouched DEF Judge
<1>2. ASSUME NEW p \in Providers, Settle(p) PROVE LockInv'
  BY <1>2 DEF Settle, LockInv, Switching
<1>3. ASSUME NEW p \in Providers, Evict(p) PROVE LockInv'
  BY <1>0, <1>3, LockUntouched DEF Evict, shared
<1>4. ASSUME NEW o \in Operators, NEW c \in Commands, Command(o, c) PROVE LockInv'
  <2>1. \A u \in Threads \ {o} : plan'[u] = plan[u]
    BY <1>4 DEF Command, TypeOK
  <2>2. QED
    BY <1>0, <1>4, <2>1, LockUntouched DEF Command
<1>5. ASSUME NEW o \in Operators, Persist(o) PROVE LockInv'
  <2>1. \A u \in Threads \ {o} : plan'[u] = plan[u]
    BY <1>5 DEF Persist, TypeOK
  <2>2. QED
    BY <1>0, <1>5, <2>1, LockUntouched DEF Persist
<1>6. ASSUME NEW t \in Threads \ {Watchdog}, ReadPin(t) \/ ReadView(t) PROVE LockInv'
  <2>1. PICK place \in {"readView", "wait"} : Goto(t, place)
    BY <1>6 DEF ReadPin, ReadView
  <2>2. QED
    BY <1>0, <1>6, <2>1, LockUntouched DEF ReadPin, ReadView, shared
<1>7. ASSUME NEW t \in Threads \ {Watchdog}, Acquire(t) PROVE LockInv'
  BY <1>7, LockTaken
<1>8. ASSUME NEW t \in Threads \ {Watchdog}, Repin(t) PROVE LockInv'
  <2>1. pc[t] \in Critical /\ active' = active /\ (Keeping(t) => ~Switching(t))
    BY <1>8 DEF Repin, Critical, Keeping, Switching
  <2>2. \/ Release(t)
        \/ /\ plan' = plan /\ lock' = lock
           /\ \/ ~Switching(t) /\ \E place \in {"verify", "assert"} : Goto(t, place)
              \/ Switching(t) /\ Goto(t, "install")
    BY <1>8, <2>1 DEF Repin
  <2>3. CASE Release(t)
    BY <2>1, <2>3, LockReleased
  <2>4. ASSUME plan' = plan, lock' = lock, ~Switching(t),
               NEW place \in {"verify", "assert"}, Goto(t, place)
        PROVE  LockInv'
    <3>1. place \in Critical
      BY DEF Critical
    <3>2. QED
      BY <2>1, <2>4, <3>1, LockHeld
  <2>5. CASE plan' = plan /\ lock' = lock /\ Switching(t) /\ Goto(t, "install")
    <3>1. "install" \in Critical
      BY DEF Critical
    <3>2. QED
      BY <2>1, <2>5, <3>1, LockHeld
  <2>6. QED
    BY <2>2, <2>3, <2>4, <2>5
<1>9. ASSUME NEW t \in Threads \ {Watchdog}, Verify(t) \/ Assert(t) PROVE LockInv'
  <2>1. pc[t] \in Critical /\ active' = active /\ ~Switching(t)
    BY <1>9 DEF Verify, Assert, Critical, LockInv, shared
  <2>2. \/ Release(t)
        \/ plan' = plan /\ lock' = lock /\ \E place \in {"assert", "flush"} : Goto(t, place)
    BY <1>9 DEF Verify, Assert
  <2>3. CASE Release(t)
    BY <2>1, <2>3, LockReleased
  <2>4. ASSUME plan' = plan, lock' = lock,
               NEW place \in {"assert", "flush"}, Goto(t, place)
        PROVE  LockInv'
    <3>1. place \in Critical
      BY DEF Critical
    <3>2. QED
      BY <2>1, <2>4, <3>1, LockHeld
  <2>5. QED
    BY <2>2, <2>3, <2>4
<1>10. ASSUME NEW t \in Threads \ {Watchdog}, Install(t) PROVE LockInv'
  <2>1. pc[t] \in Critical /\ active' = active /\ Switching(t)
    BY <1>10 DEF Install, Critical, LockInv, shared
  <2>2. \/ Release(t)
        \/ plan' = plan /\ lock' = lock /\ \E place \in {"flush", "commit"} : Goto(t, place)
    BY <1>10 DEF Install
  <2>3. CASE Release(t)
    BY <2>1, <2>3, LockReleased
  <2>4. ASSUME plan' = plan, lock' = lock,
               NEW place \in {"flush", "commit"}, Goto(t, place)
        PROVE  LockInv'
    <3>1. place \in Critical
      BY DEF Critical
    <3>2. QED
      BY <2>1, <2>4, <3>1, LockHeld
  <2>5. QED
    BY <2>2, <2>3, <2>4
<1>11. ASSUME NEW t \in Threads, Flush(t) PROVE LockInv'
  <2>1. pc[t] \in Critical /\ active' = active /\ (Switching(t) => t # Watchdog)
    BY <1>11 DEF Flush, Critical, LockInv, shared
  <2>2. \/ Release(t)
        \/ plan' = plan /\ lock' = lock /\ Switching(t) /\ Goto(t, "commit")
    BY <1>11 DEF Flush
  <2>3. "commit" \in Critical
    BY DEF Critical
  <2>4. QED
    BY <2>1, <2>2, <2>3, LockReleased, LockHeld
<1>12. ASSUME NEW t \in Threads, Commit(t) PROVE LockInv'
  <2>1. pc[t] \in Critical /\ Release(t)
    BY <1>12 DEF Commit, Critical
  <2>2. QED
    BY <2>1, LockReleased
<1>13. ASSUME Look PROVE LockInv'
  <2>1. \A u \in Threads : pc[u] \notin Critical
    BY <1>13, ThreadsAssumption DEF Look, LockInv
  <2>2. /\ pc'[Watchdog] = "install" /\ lock' = Watchdog /\ active' = active
        /\ plan'[Watchdog].kind = "Watch" /\ plan'[Watchdog].to = active
        /\ \A u \in Threads : u # Watchdog => pc'[u] = pc[u] /\ plan'[u] = plan[u]
    BY <1>0, <1>13 DEF Look, Goto, TypeOK, shared
  <2>3. QED
    BY <2>1, <2>2 DEF LockInv, Switching, Critical
<1>14. ASSUME Reclaim PROVE LockInv'
  <2>1. pc[Watchdog] \in Critical /\ active' = active
    BY <1>14 DEF Reclaim, Critical, shared
  <2>2. \/ Release(Watchdog)
        \/ plan' = plan /\ lock' = lock /\ Goto(Watchdog, "flush")
    BY <1>14 DEF Reclaim
  <2>3. "flush" \in Critical
    BY DEF Critical
  <2>4. QED
    BY <1>0, <2>1, <2>2, <2>3, LockReleased, LockHeld
<1>15. ASSUME External \/ Connect \/ UNCHANGED vars PROVE LockInv'
  BY <1>15 DEF External, Connect, vars, shared, LockInv, Switching
<1>16. ASSUME Restart PROVE LockInv'
  <2>1. lock' = None /\ \A t \in Threads : pc'[t] = "idle"
    BY <1>16 DEF Restart
  <2>2. QED
    BY <1>0, <2>1, ThreadsAssumption DEF LockInv, Critical
<1>17. QED
  BY <1>0, <1>1, <1>2, <1>3, <1>4, <1>5, <1>6, <1>7, <1>8, <1>9, <1>10, <1>11, <1>12,
     <1>13, <1>14, <1>15, <1>16 DEF Next, Reconciling

\* The critical sections of reconcile_inner and route_watchdog exclude each
\* other for as long as the daemon runs.
LEMMA LockInvariant == Spec => [](TypeInv /\ LockInv)
<1>1. Init => LockInv
  BY ThreadsAssumption DEF Init, LockInv, Critical, Threads
<1>2. QED
  BY <1>1, TypeInvariant, LockStep, PTL DEF Spec, TypeInv

\* A watchdog tick racing any number of switches installs the provider that
\* is active when it does: it holds the read side of `active` throughout.
THEOREM WatchdogIsHarmless == Spec => WatchdogNeverUndoesSwitch
<1>1. TypeInv /\ LockInv /\ [Next]_vars
        => [ /\ pc[Watchdog] = "install" /\ pc'[Watchdog] # "install"
             /\ routes' # routes /\ spent'.crashes = spent.crashes
             => routes'.ours = active ]_vars
  <2> SUFFICES ASSUME TypeInv, LockInv, [Next]_vars,
                      pc[Watchdog] = "install", pc'[Watchdog] # "install",
                      routes' # routes, spent'.crashes = spent.crashes
               PROVE  routes'.ours = active
    OBVIOUS
  <2>0. /\ Watchdog \in Threads /\ Providers \subseteq Threads \ {Watchdog}
        /\ Operators \subseteq Threads \ {Watchdog}
    BY ThreadsAssumption DEF Threads
  <2>1. ASSUME Reclaim PROVE routes'.ours = active
    <3>1. SetDefaultRoute(plan[Watchdog].to)
      BY <2>1 DEF Reclaim, RouteRefused
    <3>2. plan[Watchdog].to \in Providers /\ plan[Watchdog].to = active
      BY <2>0 DEF TypeInv, PlansNameProviders, LockInv, Critical
    <3>3. QED
      BY <3>1, <3>2, InstalledType DEF TypeInv
  <2>2. ~Restart
    BY DEF Restart, TypeInv, TypeOK
  <2>3. ASSUME NEW t \in Threads \ {Watchdog},
               Verify(t) \/ Assert(t) \/ Install(t)
        PROVE  FALSE
    <3>1. PICK place \in Places : Goto(t, place)
      BY <2>3 DEF Verify, Assert, Install, Release, Places
    <3>2. QED
      BY <2>0, <2>3, <3>1 DEF Goto, TypeInv, TypeOK
  <2>4. ~External
    BY DEF External
  <2>5. ASSUME NEW t \in Threads,
               \/ ReadPin(t) \/ ReadView(t) \/ Acquire(t) \/ Repin(t) \/ Flush(t) \/ Commit(t)
        PROVE  FALSE
    BY <2>5 DEF ReadPin, ReadView, Acquire, Repin, Flush, Commit, kernel
  <2>6. ASSUME NEW p \in Providers, NEW s \in ProbeState, Judge(p, s) \/ Settle(p) \/ Evict(p)
        PROVE  FALSE
    BY <2>6 DEF Judge, Settle, Evict, kernel
  <2>7. ASSUME NEW o \in Operators, NEW c \in Commands, Command(o, c) \/ Persist(o)
        PROVE  FALSE
    BY <2>7 DEF Command, Persist, kernel
  <2>8. ~Look /\ ~Connect /\ ~UNCHANGED vars
    BY DEF Look, Connect, vars, kernel
  <2>9. \A o \in Operators : ~Persist(o)
    BY DEF Persist, kernel
  <2>10. \A p \in Providers : ~Settle(p) /\ ~Evict(p)
    BY DEF Settle, Evict, kernel
  <2>11. QED
    BY <2>0, <2>1, <2>2, <2>3, <2>4, <2>5, <2>6, <2>7, <2>8, <2>9, <2>10
    DEF Next, Reconciling
<1>2. QED
  BY <1>1, LockInvariant, PTL DEF Spec, WatchdogNeverUndoesSwitch

-----------------------------------------------------------------------------
(***************************************************************************)
(* The route and the provider believed active, when no other tool edits    *)
(* the routes and competing defaults can be removed.                       *)
(***************************************************************************)
Undisturbed == MaxExternal = 0 /\ "scrub" \notin Faults

\* A thread that has installed the route of a switch and not committed it.
Moving(t) == pc[t] \in {"flush", "commit"} /\ Switching(t)

RouteInv ==
  /\ routes.rival = None
  /\ \A t \in Threads : Moving(t) => Path = plan[t].to
  /\ active # None => Path = active \/ \E t \in Threads : Moving(t)

\* With no rival the kernel forwards through the route just installed.
LEMMA InstalledPath ==
  ASSUME TypeOK, Undisturbed, NEW p \in Providers, SetDefaultRoute(p)
  PROVE  routes'.rival = None /\ Path' = p
<1>1. routes'.ours = p /\ routes'.rival = None
  BY InstalledType DEF Undisturbed
<1>2. p # None
  BY ProvidersAssumption
<1>3. QED
  BY <1>1, <1>2 DEF Path, PathOf

\* A step that neither routes nor decides, outside the section or before it.
LEMMA RouteUntouched ==
  ASSUME TypeOK, LockInv, RouteInv, NEW t \in Threads,
         ~Moving(t), ~Moving(t)',
         \A u \in Threads \ {t} : pc'[u] = pc[u] /\ plan'[u] = plan[u],
         routes' = routes, active' = active
  PROVE  RouteInv'
BY DEF RouteInv, Moving, Switching, Path

\* What holds for a thread that has the lock holds for it alone.
LEMMA OnlyHolderMoves ==
  ASSUME LockInv, NEW t \in Threads, pc[t] \in Critical
  PROVE  \A u \in Threads : Moving(u) => u = t
BY DEF LockInv, Moving, Critical

\* Both ways on leave the other threads where they are.
LEMMA OthersStay ==
  ASSUME TypeOK, NEW t \in Threads,
         \/ Release(t)
         \/ plan' = plan /\ \E place \in Places : Goto(t, place)
  PROVE  \A u \in Threads \ {t} : pc'[u] = pc[u] /\ plan'[u] = plan[u]
BY DEF Release, Goto, TypeOK

\* Nobody else is moving, the thread is not moving afterwards, and the route
\* is that of the active provider or untouched.
LEMMA RouteConfirmed ==
  ASSUME TypeOK, LockInv, Undisturbed, RouteInv, NEW t \in Threads,
         pc[t] \in Critical, ~Switching(t), ~Moving(t)', active' = active,
         plan[t].to \in Providers,
         SetDefaultRoute(plan[t].to) \/ routes' = routes,
         \A u \in Threads \ {t} : pc'[u] = pc[u] /\ plan'[u] = plan[u]
  PROVE  RouteInv'
<1>1. plan[t].to = active
  BY DEF LockInv
<1>2. \A u \in Threads : ~Moving(u)
  BY OnlyHolderMoves DEF Moving
<1>3. \A u \in Threads : ~Moving(u)'
  BY <1>2 DEF Moving, Switching
<1>4. routes'.rival = None /\ (active # None => Path' = active)
  <2>1. CASE SetDefaultRoute(plan[t].to)
    BY <1>1, <2>1, InstalledPath
  <2>2. CASE routes' = routes
    BY <1>2, <2>2 DEF RouteInv, Path
  <2>3. QED
    BY <2>1, <2>2
<1>5. QED
  BY <1>3, <1>4 DEF RouteInv

LEMMA RouteStep ==
  ASSUME Undisturbed, TypeInv, LockInv, RouteInv, [Next]_vars
  PROVE  RouteInv'
<1> USE DEF TypeInv
<1>0. /\ Watchdog \in Threads /\ Providers \subseteq Threads /\ Operators \subseteq Threads
      /\ {"idle", "evict", "persist", "readPin", "readView", "wait", "repin",
          "verify", "assert", "install", "flush", "commit"} \subseteq Places
  BY DEF Threads, Places
<1>1. ASSUME NEW p \in Providers, NEW s \in ProbeState, Judge(p, s)
      PROVE  RouteInv'
  <2>1. PICK place \in {"evict", "readPin"} : Goto(p, place)
    BY <1>1 DEF Judge
  <2>2. pc[p] = "idle" /\ pc'[p] = place /\ \A u \in Threads \ {p} : pc'[u] = pc[u]
    BY <1>0, <1>1, <2>1 DEF Judge, Goto, TypeOK
  <2>3. ~Moving(p) /\ ~Moving(p)'
    BY <2>2 DEF Moving
  <2>4. routes' = routes /\ active' = active /\ plan' = plan
    BY <1>1 DEF Judge, kernel
  <2>5. QED
    BY <1>0, <2>2, <2>3, <2>4, RouteUntouched
<1>2. ASSUME NEW p \in Providers, Settle(p) PROVE RouteInv'
  BY <1>2 DEF Settle, RouteInv, Moving, Switching, Path, kernel
<1>3. ASSUME NEW p \in Providers, Evict(p) PROVE RouteInv'
  <2>1. pc[p] = "evict" /\ pc'[p] = "readPin" /\ \A u \in Threads \ {p} : pc'[u] = pc[u]
    BY <1>0, <1>3 DEF Evict, Goto, TypeOK
  <2>2. ~Moving(p) /\ ~Moving(p)'
    BY <2>1 DEF Moving
  <2>3. routes' = routes /\ active' = active /\ plan' = plan
    BY <1>3 DEF Evict, shared
  <2>4. QED
    BY <1>0, <2>1, <2>2, <2>3, RouteUntouched
<1>4. ASSUME NEW o \in Operators, (\E c \in Commands : Command(o, c)) \/ Persist(o)
      PROVE  RouteInv'
  <2>1. /\ pc[o] \in {"idle", "persist"} /\ pc'[o] \in {"persist", "readPin"}
        /\ \A u \in Threads \ {o} : pc'[u] = pc[u] /\ plan'[u] = plan[u]
    BY <1>0, <1>4 DEF Command, Persist, Goto, TypeOK
  <2>2. ~Moving(o) /\ ~Moving(o)'
    BY <2>1 DEF Moving
  <2>3. routes' = routes /\ active' = active
    BY <1>4 DEF Command, Persist, kernel
  <2>4. QED
    BY <1>0, <2>1, <2>2, <2>3, RouteUntouched
<1>5. ASSUME NEW t \in Threads, ReadPin(t) \/ ReadView(t) PROVE RouteInv'
  <2>1. /\ pc[t] \in {"readPin", "readView"} /\ pc'[t] \in {"readView", "wait"}
        /\ \A u \in Threads \ {t} : pc'[u] = pc[u]
    BY <1>5 DEF ReadPin, ReadView, Goto, TypeOK
  <2>2. ~Moving(t) /\ ~Moving(t)'
    BY <2>1 DEF Moving
  <2>3. routes' = routes /\ active' = active /\ plan' = plan
    BY <1>5 DEF ReadPin, ReadView, kernel, shared
  <2>4. QED
    BY <2>1, <2>2, <2>3, RouteUntouched
<1>6. ASSUME NEW t \in Threads, Acquire(t) PROVE RouteInv'
  <2>1. /\ pc'[t] \in {"idle", "repin"}
        /\ \A u \in Threads \ {t} : pc'[u] = pc[u] /\ plan'[u] = plan[u]
    BY <1>6, AcquireType DEF TypeOK
  <2>2. pc[t] = "wait" /\ routes' = routes /\ active' = active
    BY <1>6 DEF Acquire, shared, kernel
  <2>3. ~Moving(t) /\ ~Moving(t)'
    BY <2>1, <2>2 DEF Moving
  <2>4. QED
    BY <2>1, <2>2, <2>3, RouteUntouched
<1>7. ASSUME NEW t \in Threads, Repin(t) PROVE RouteInv'
  <2>1. /\ pc[t] = "repin" /\ routes' = routes /\ active' = active
        /\ \/ Release(t)
           \/ plan' = plan /\ \E place \in {"install", "verify", "assert"} : Goto(t, place)
    BY <1>7 DEF Repin
  <2>2. \A u \in Threads \ {t} : pc'[u] = pc[u] /\ plan'[u] = plan[u]
    BY <1>0, <2>1, OthersStay
  <2>3. ~Moving(t) /\ ~Moving(t)'
    BY <2>1 DEF Moving, Release, Goto, TypeOK
  <2>4. QED
    BY <2>1, <2>2, <2>3, RouteUntouched
<1>8. ASSUME NEW t \in Threads,
             Verify(t) \/ Assert(t) \/ (t = Watchdog /\ Reclaim)
      PROVE  RouteInv'
  <2>1. /\ pc[t] \in Critical /\ ~Switching(t) /\ plan[t].to \in Providers
        /\ active' = active
    BY <1>8 DEF Verify, Assert, Reclaim, Critical, LockInv, PlansNameProviders, shared
  <2>2. \/ Release(t)
        \/ plan' = plan /\ \E place \in {"assert", "flush"} : Goto(t, place)
    BY <1>8 DEF Verify, Assert, Reclaim
  <2>3. \A u \in Threads \ {t} : pc'[u] = pc[u] /\ plan'[u] = plan[u]
    BY <1>0, <2>2, OthersStay
  <2>4. ~Moving(t)'
    BY <2>1, <2>2 DEF Moving, Switching, Release, Goto, TypeOK
  <2>5. SetDefaultRoute(plan[t].to) \/ routes' = routes
    BY <1>8 DEF Verify, Assert, Reclaim, RouteRefused
  <2>6. QED
    BY <2>1, <2>3, <2>4, <2>5, RouteConfirmed
<1>9. ASSUME NEW t \in Threads \ {Watchdog}, Install(t) PROVE RouteInv'
  <2>1. /\ pc[t] = "install" /\ pc[t] \in Critical /\ plan[t].to \in Providers
        /\ active' = active /\ Switching(t)
    BY <1>9 DEF Install, Critical, LockInv, PlansNameProviders, shared
  <2>2. \A u \in Threads : ~Moving(u)
    BY <2>1, OnlyHolderMoves DEF Moving
  <2>3. CASE /\ SetDefaultRoute(plan[t].to) /\ plan' = plan
             /\ \E place \in {"flush", "commit"} : Goto(t, place)
    <3>1. \A u \in Threads \ {t} : pc'[u] = pc[u] /\ plan'[u] = plan[u]
      BY <2>3 DEF Goto, TypeOK
    <3>2. Moving(t)' /\ plan'[t] = plan[t]
      BY <2>1, <2>3 DEF Moving, Switching, Goto, TypeOK
    <3>3. \A u \in Threads : Moving(u)' => u = t
      BY <2>2, <3>1 DEF Moving, Switching
    <3>4. routes'.rival = None /\ Path' = plan[t].to
      BY <2>1, <2>3, InstalledPath
    <3>5. QED
      BY <3>2, <3>3, <3>4 DEF RouteInv
  <2>4. CASE RouteRefused /\ Release(t)
    <3>1. \A u \in Threads \ {t} : pc'[u] = pc[u] /\ plan'[u] = plan[u]
      BY <2>4, OthersStay
    <3>2. ~Moving(t)' /\ routes' = routes
      BY <2>4 DEF Moving, Release, Goto, RouteRefused, TypeOK
    <3>3. QED
      BY <2>1, <2>2, <3>1, <3>2, RouteUntouched
  <2>5. QED
    BY <1>9, <2>3, <2>4 DEF Install
<1>10. ASSUME NEW t \in Threads, Flush(t) PROVE RouteInv'
  <2>1. /\ pc[t] = "flush" /\ pc[t] \in Critical /\ routes' = routes /\ active' = active
        /\ plan[t].to \in Providers
    BY <1>10 DEF Flush, Critical, PlansNameProviders, shared
  <2>2. CASE Switching(t) /\ Goto(t, "commit") /\ plan' = plan
    <3>1. pc'[t] = "commit" /\ \A u \in Threads \ {t} : pc'[u] = pc[u]
      BY <2>2 DEF Goto, TypeOK
    <3>2. \A u \in Threads : Moving(u)' <=> Moving(u)
      BY <2>1, <2>2, <3>1 DEF Moving, Switching
    <3>3. Path' = Path
      BY <2>1 DEF Path
    <3>4. QED
      BY <2>1, <2>2, <3>2, <3>3 DEF RouteInv
  <2>3. CASE ~Switching(t) /\ Release(t)
    <3>1. \A u \in Threads \ {t} : pc'[u] = pc[u] /\ plan'[u] = plan[u]
      BY <2>3, OthersStay
    <3>2. ~Moving(t)'
      BY <2>3 DEF Moving, Release, Goto, TypeOK
    <3>3. QED
      BY <2>1, <2>3, <3>1, <3>2, RouteConfirmed
  <2>4. QED
    BY <1>10, <2>2, <2>3 DEF Flush
<1>11. ASSUME NEW t \in Threads, Commit(t) PROVE RouteInv'
  <2>1. /\ pc[t] = "commit" /\ pc[t] \in Critical /\ Moving(t)
        /\ routes' = routes /\ active' = plan[t].to /\ Release(t)
    BY <1>11 DEF Commit, Critical, Moving, LockInv, kernel
  <2>2. \A u \in Threads \ {t} : pc'[u] = pc[u] /\ plan'[u] = plan[u] /\ ~Moving(u)
    BY <2>1, OthersStay, OnlyHolderMoves
  <2>3. ~Moving(t)'
    BY <2>1 DEF Moving, Release, Goto, TypeOK
  <2>4. \A u \in Threads : ~Moving(u)'
    BY <2>2, <2>3 DEF Moving, Switching
  <2>5. Path' = active' /\ routes'.rival = None
    BY <2>1 DEF RouteInv, Path
  <2>6. QED
    BY <2>4, <2>5 DEF RouteInv
<1>12. ASSUME Look PROVE RouteInv'
  <2>1. /\ pc[Watchdog] = "idle" /\ pc'[Watchdog] = "install"
        /\ \A u \in Threads \ {Watchdog} : pc'[u] = pc[u] /\ plan'[u] = plan[u]
        /\ routes' = routes /\ active' = active
    BY <1>0, <1>12 DEF Look, Goto, TypeOK, shared, kernel
  <2>2. ~Moving(Watchdog) /\ ~Moving(Watchdog)'
    BY <2>1 DEF Moving
  <2>3. QED
    BY <1>0, <2>1, <2>2, RouteUntouched
<1>13. ~External
  <2>1. spent.external \in Nat
    BY DEF TypeOK
  <2>2. External => spent.external < MaxExternal
    BY DEF External
  <2>3. MaxExternal = 0
    BY DEF Undisturbed
  <2>4. QED
    BY <2>1, <2>2, <2>3
<1>14. ASSUME Connect \/ UNCHANGED vars PROVE RouteInv'
  BY <1>14 DEF Connect, vars, shared, kernel, RouteInv, Moving, Switching, Path
<1>15. ASSUME Restart PROVE RouteInv'
  <2>1. \A t \in Threads : ~Moving(t)'
    BY <1>15 DEF Restart, Moving
  <2>2. routes'.rival = None /\ routes' \in RouteTable
    <3>1. StartRoutes \in RouteTable /\ StartRoutes.rival = None
      BY DEF StartRoutes, RouteTable
    <3>2. routes \in RouteTable /\ routes.rival = None
      BY DEF TypeOK, RouteInv
    <3>3. routes' = routes \/ routes' = StartRoutes
      BY <1>15 DEF Restart, kernel
    <3>4. QED
      BY <3>1, <3>2, <3>3
  <2>3. active' # None => active' = Path'
    BY <1>15, <2>2, IncumbentsType DEF Restart, Path
  <2>4. QED
    BY <2>1, <2>2, <2>3 DEF RouteInv
<1>16. Providers \subseteq Threads \ {Watchdog} /\ Operators \subseteq Threads \ {Watchdog}
  BY ThreadsAssumption DEF Threads
<1>17. QED
  BY <1>0, <1>1, <1>2, <1>3, <1>4, <1>5, <1>6, <1>7, <1>8, <1>9, <1>10, <1>11, <1>12,
     <1>13, <1>14, <1>15, <1>16 DEF Next, Reconciling

LEMMA RouteInvariant ==
  ASSUME Undisturbed
  PROVE  Spec => [](TypeInv /\ LockInv /\ RouteInv)
<1>1. Init => RouteInv
  <2> SUFFICES ASSUME Init PROVE RouteInv
    OBVIOUS
  <2>1. routes \in RouteTable /\ routes.rival = None
    BY DEF Init, StartRoutes, RouteTable
  <2>2. active # None => Path = active
    BY <2>1, IncumbentsType DEF Init, Path
  <2>3. \A t \in Threads : ~Moving(t)
    BY DEF Init, Moving
  <2>4. QED
    BY <2>1, <2>2, <2>3 DEF RouteInv
<1>2. TypeInv /\ LockInv /\ RouteInv /\ [Next]_vars => RouteInv'
  BY RouteStep
<1>3. QED
  BY <1>1, <1>2, LockInvariant, PTL DEF Spec

\* Nobody inside means nobody moving.
LEMMA NobodyMoves ==
  ASSUME LockInv, lock = None
  PROVE  \A t \in Threads : pc[t] \notin Critical /\ ~Moving(t)
BY ThreadsAssumption DEF LockInv, Moving, Critical

\* Outside the critical sections the kernel forwards through the provider the
\* daemon believes active: whatever routes are refused, whenever the daemon
\* is killed or the machine reboots, for any number of loops and operators.
THEOREM RouteIsActive ==
  ASSUME Undisturbed
  PROVE  Spec => []RouteFollowsActive
<1>1. LockInv /\ RouteInv => RouteFollowsActive
  BY NobodyMoves DEF RouteInv, RouteFollowsActive
<1>2. QED
  BY <1>1, RouteInvariant, PTL

-----------------------------------------------------------------------------
(***************************************************************************)
(* Tracked connections, on a gateway without pinning whose daemon can read *)
(* the routes and can flush.                                               *)
(***************************************************************************)
Reliable ==
  /\ Undisturbed /\ ~Pinning
  /\ "read" \notin Faults /\ "flush" \notin Faults

\* What was read under the lock stays the next hop until the route is
\* installed; as long as nothing was killed, only somebody who is about to
\* flush leaves stale connections; and the watchdog finds nothing to do.
FlowInv ==
  /\ pc[Watchdog] = "idle"
  /\ \A t \in Threads : pc[t] # "evict"
  /\ \A t \in Threads :
       pc[t] \in {"repin", "verify", "assert", "install"} => plan[t].before = Path
  /\ \A t \in Threads : pc[t] = "flush" => plan[t].before # Path
  /\ spent.crashes = 0 /\ (\A t \in Threads : pc[t] # "flush") => flows \subseteq {Path}

\* Only a restart counts as a crash.
LEMMA CrashesAreCounted ==
  ASSUME TypeOK, [Next]_vars, ~Restart
  PROVE  spent'.crashes = spent.crashes
<1>1. ASSUME NEW p \in Providers, NEW s \in ProbeState, Judge(p, s)
      PROVE  spent'.crashes = spent.crashes
  BY <1>1 DEF Judge, TypeOK
<1>2. ASSUME External PROVE spent'.crashes = spent.crashes
  BY <1>2 DEF External, TypeOK
<1>3. ASSUME NEW p \in Providers, Settle(p) \/ Evict(p) PROVE spent' = spent
  BY <1>3 DEF Settle, Evict
<1>4. ASSUME NEW o \in Operators, (\E c \in Commands : Command(o, c)) \/ Persist(o)
      PROVE  spent' = spent
  BY <1>4 DEF Command, Persist
<1>5. ASSUME NEW t \in Threads, Reconciling(t) PROVE spent' = spent
  BY <1>5 DEF Reconciling, ReadPin, ReadView, Acquire, Repin, Verify, Assert, Commit
<1>6. ASSUME NEW t \in Threads, Install(t) \/ Flush(t) PROVE spent' = spent
  BY <1>6 DEF Install, Flush
<1>7. ASSUME Look \/ Reclaim \/ Connect \/ UNCHANGED vars PROVE spent' = spent
  BY <1>7 DEF Look, Reclaim, Connect, vars
<1>8. Providers \subseteq Threads /\ Operators \subseteq Threads
  BY DEF Threads
<1>9. QED
  BY <1>1, <1>2, <1>3, <1>4, <1>5, <1>6, <1>7, <1>8 DEF Next

\* A step that neither routes, flushes nor goes on inside the section.
LEMMA FlowsUntouched ==
  ASSUME FlowInv, NEW t \in Threads \ {Watchdog}, pc[t] # "flush",
         pc'[t] \notin {"evict", "repin", "verify", "assert", "install", "flush"},
         \A u \in Threads \ {t} : pc'[u] = pc[u] /\ plan'[u] = plan[u],
         Path' = Path, flows' = flows, spent'.crashes = spent.crashes
  PROVE  FlowInv'
BY DEF FlowInv, Threads

\* Under a lock held for anything but a switch the kernel already forwards
\* through the provider the plan names.
LEMMA KeeperHasRoute ==
  ASSUME LockInv, RouteInv, NEW t \in Threads, pc[t] \in Critical, ~Switching(t),
         plan[t].to \in Providers
  PROVE  plan[t].to = Path
<1>1. plan[t].to = active /\ active # None
  BY ProvidersAssumption DEF LockInv
<1>2. \A u \in Threads : ~Moving(u)
  BY OnlyHolderMoves DEF Moving
<1>3. QED
  BY <1>1, <1>2 DEF RouteInv

\* Left alone, the watchdog never sees the incumbent's route missing.
LEMMA WatchdogSleeps ==
  ASSUME TypeOK, LockInv, RouteInv
  PROVE  ~Look
<1> SUFFICES ASSUME Look PROVE FALSE
  OBVIOUS
<1>1. lock = None /\ active # None /\ (~OursPresent(active) \/ RivalPresent(active))
  BY DEF Look
<1>2. Path = active /\ routes.rival = None
  BY <1>1, NobodyMoves DEF RouteInv
<1>3. CASE routes.ours = None
  BY <1>1, <1>2, <1>3 DEF Path, PathOf, OursPresent, RivalPresent
<1>4. CASE routes.ours # None
  BY <1>1, <1>2, <1>4 DEF Path, PathOf, OursPresent, RivalPresent
<1>5. QED
  BY <1>3, <1>4

\* A restart leaves no thread in a section, whatever it does to the flows.
LEMMA FlowRestart ==
  ASSUME TypeOK, FlowInv, Restart
  PROVE  FlowInv'
<1>1. \A t \in Threads : pc'[t] = "idle"
  BY DEF Restart
<1>2. spent'.crashes # 0
  BY DEF Restart, TypeOK
<1>3. QED
  BY <1>1, <1>2 DEF FlowInv, Threads

LEMMA FlowStep ==
  ASSUME Reliable, TypeInv, LockInv, RouteInv, FlowInv, [Next]_vars, ~Restart,
         spent'.crashes = spent.crashes
  PROVE  FlowInv'
<1> USE DEF TypeInv
<1>0. /\ Watchdog \in Threads /\ Undisturbed
      /\ Providers \subseteq Threads \ {Watchdog} /\ Operators \subseteq Threads \ {Watchdog}
      /\ {"idle", "evict", "persist", "readPin", "readView", "wait", "repin",
          "verify", "assert", "install", "flush", "commit"} \subseteq Places
  BY ThreadsAssumption DEF Threads, Places, Reliable
<1>1. ASSUME NEW p \in Providers, NEW s \in ProbeState, Judge(p, s)
      PROVE  FlowInv'
  <2>1. pc[p] = "idle" /\ Goto(p, "readPin") /\ plan' = plan /\ UNCHANGED kernel
    BY <1>1 DEF Judge, Reliable
  <2>2. /\ pc'[p] = "readPin" /\ \A u \in Threads \ {p} : pc'[u] = pc[u]
        /\ Path' = Path /\ flows' = flows
    BY <1>0, <2>1 DEF Goto, TypeOK, Path, kernel
  <2>3. QED
    BY <1>0, <2>1, <2>2, FlowsUntouched
<1>2. ASSUME NEW p \in Providers, Settle(p) PROVE FlowInv'
  BY <1>2 DEF Settle, FlowInv, Path, kernel
<1>3. ASSUME NEW p \in Providers, Evict(p) PROVE FALSE
  BY <1>0, <1>3 DEF Evict, FlowInv
<1>4. ASSUME NEW o \in Operators, (\E c \in Commands : Command(o, c)) \/ Persist(o)
      PROVE  FlowInv'
  <2>1. /\ pc[o] \in {"idle", "persist"} /\ pc'[o] \in {"persist", "readPin"}
        /\ \A u \in Threads \ {o} : pc'[u] = pc[u] /\ plan'[u] = plan[u]
    BY <1>0, <1>4 DEF Command, Persist, Goto, TypeOK
  <2>2. Path' = Path /\ flows' = flows
    BY <1>4 DEF Command, Persist, kernel, Path
  <2>3. QED
    BY <1>0, <2>1, <2>2, FlowsUntouched
<1>5. ASSUME NEW t \in Threads \ {Watchdog}, ReadPin(t) \/ ReadView(t) PROVE FlowInv'
  <2>1. /\ pc[t] \in {"readPin", "readView"} /\ pc'[t] \in {"readView", "wait"}
        /\ \A u \in Threads \ {t} : pc'[u] = pc[u] /\ plan'[u] = plan[u]
    BY <1>5 DEF ReadPin, ReadView, Goto, TypeOK
  <2>2. Path' = Path /\ flows' = flows
    BY <1>5 DEF ReadPin, ReadView, kernel, Path
  <2>3. QED
    BY <2>1, <2>2, FlowsUntouched
<1>6. ASSUME NEW t \in Threads \ {Watchdog}, Acquire(t) PROVE FlowInv'
  <2>1. pc[t] = "wait" /\ Path' = Path /\ flows' = flows
    BY <1>6 DEF Acquire, kernel, Path
  <2>2. CASE pc' = [pc EXCEPT ![t] = "idle"] /\ plan' = plan
    <3>1. pc'[t] = "idle" /\ \A u \in Threads \ {t} : pc'[u] = pc[u]
      BY <2>2 DEF TypeOK
    <3>2. QED
      BY <2>1, <2>2, <3>1, FlowsUntouched
  <2>3. ASSUME pc' = [pc EXCEPT ![t] = "repin"],
               NEW k, NEW to, NEW before, before = Path,
               plan' = [plan EXCEPT ![t] = [kind |-> k, to |-> to, before |-> before]]
        PROVE  FlowInv'
    <3>1. /\ pc'[t] = "repin" /\ plan'[t].before = Path
          /\ \A u \in Threads \ {t} : pc'[u] = pc[u] /\ plan'[u] = plan[u]
      BY <2>3 DEF TypeOK
    <3>2. QED
      BY <1>0, <2>1, <3>1 DEF FlowInv
  <2>4. QED
    BY <1>6, <2>2, <2>3, AcquireType DEF Reliable
<1>7. ASSUME NEW t \in Threads \ {Watchdog}, Repin(t) PROVE FlowInv'
  <2>1. pc[t] = "repin" /\ Path' = Path /\ flows' = flows
    BY <1>7 DEF Repin, Path
  <2>2. CASE Release(t)
    <3>1. pc'[t] = "idle" /\ \A u \in Threads \ {t} : pc'[u] = pc[u] /\ plan'[u] = plan[u]
      BY <2>2 DEF Release, Goto, TypeOK
    <3>2. QED
      BY <2>1, <3>1, FlowsUntouched
  <2>3. CASE plan' = plan /\ \E place \in {"install", "verify", "assert"} : Goto(t, place)
    <3>1. /\ pc'[t] \in {"install", "verify", "assert"}
          /\ \A u \in Threads \ {t} : pc'[u] = pc[u]
      BY <2>3 DEF Goto, TypeOK
    <3>2. QED
      BY <1>0, <2>1, <2>3, <3>1 DEF FlowInv
  <2>4. QED
    BY <1>7, <2>2, <2>3 DEF Repin
<1>8. ASSUME NEW t \in Threads \ {Watchdog}, Verify(t) \/ Assert(t) PROVE FlowInv'
  <2>1. /\ pc[t] \in {"verify", "assert"} /\ pc[t] \in Critical /\ ~Switching(t)
        /\ plan[t].to \in Providers /\ plan[t].before = Path /\ flows' = flows
    BY <1>8 DEF Verify, Assert, Critical, LockInv, PlansNameProviders, FlowInv
  <2>2. plan[t].to = Path /\ ~Moved(t)
    BY <2>1, KeeperHasRoute DEF Moved
  <2>3. SetDefaultRoute(plan[t].to) \/ routes' = routes
    BY <1>8 DEF Verify, Assert, RouteRefused
  <2>4. Path' = Path
    BY <1>0, <2>1, <2>2, <2>3, InstalledPath DEF Path
  <2>5. CASE Release(t)
    <3>1. pc'[t] = "idle" /\ \A u \in Threads \ {t} : pc'[u] = pc[u] /\ plan'[u] = plan[u]
      BY <2>5 DEF Release, Goto, TypeOK
    <3>2. QED
      BY <2>1, <2>4, <3>1, FlowsUntouched
  <2>6. CASE plan' = plan /\ Goto(t, "assert")
    <3>1. pc'[t] = "assert" /\ \A u \in Threads \ {t} : pc'[u] = pc[u]
      BY <2>6 DEF Goto, TypeOK
    <3>2. QED
      BY <1>0, <2>1, <2>4, <2>6, <3>1 DEF FlowInv
  <2>7. QED
    BY <1>8, <2>2, <2>5, <2>6 DEF Verify, Assert
<1>9. ASSUME NEW t \in Threads \ {Watchdog}, Install(t) PROVE FlowInv'
  <2>1. /\ pc[t] = "install" /\ pc[t] \in Critical /\ plan[t].to \in Providers
        /\ plan[t].before = Path /\ flows' = flows
    BY <1>9 DEF Install, Critical, PlansNameProviders, FlowInv
  <2>2. \A u \in Threads \ {t} : pc[u] \notin Critical
    BY <2>1 DEF LockInv
  <2>3. spent.crashes = 0 => flows \subseteq {Path}
    BY <2>1, <2>2 DEF FlowInv, Critical
  <2>4. CASE RouteRefused /\ Release(t)
    <3>1. pc'[t] = "idle" /\ \A u \in Threads \ {t} : pc'[u] = pc[u] /\ plan'[u] = plan[u]
      BY <2>4 DEF Release, Goto, TypeOK
    <3>2. Path' = Path
      BY <2>4 DEF RouteRefused, Path
    <3>3. QED
      BY <2>1, <3>1, <3>2, FlowsUntouched
  <2>5. CASE /\ SetDefaultRoute(plan[t].to) /\ plan' = plan
             /\ Goto(t, IF Moved(t) /\ ~Pinning THEN "flush" ELSE "commit")
    <3>1. Path' = plan[t].to
      BY <1>0, <2>1, <2>5, InstalledPath
    <3>2. /\ pc'[t] = IF Moved(t) THEN "flush" ELSE "commit"
          /\ \A u \in Threads \ {t} : pc'[u] = pc[u]
      BY <2>5 DEF Goto, TypeOK, Reliable
    <3>3. \A u \in Threads \ {t} :
            pc'[u] \notin {"repin", "verify", "assert", "install", "flush"}
      BY <2>2, <3>2 DEF Critical
    <3>4. CASE Moved(t)
      BY <1>0, <2>1, <2>5, <3>1, <3>2, <3>3, <3>4 DEF FlowInv, Moved
    <3>5. CASE ~Moved(t)
      BY <1>0, <2>1, <2>3, <2>5, <3>1, <3>2, <3>3, <3>5 DEF FlowInv, Moved
    <3>6. QED
      BY <3>4, <3>5
  <2>6. QED
    BY <1>9, <2>4, <2>5 DEF Install
<1>10. ASSUME NEW t \in Threads, Flush(t) PROVE FlowInv'
  <2>1. pc[t] = "flush" /\ pc[t] \in Critical /\ Path' = Path /\ flows' = {}
    BY <1>10 DEF Flush, Critical, Path, Reliable
  <2>2. t # Watchdog /\ \A u \in Threads \ {t} : pc[u] \notin Critical
    BY <2>1 DEF LockInv, FlowInv
  <2>3. pc'[t] \in {"commit", "idle"} /\ \A u \in Threads \ {t} : pc'[u] = pc[u]
    BY <1>10 DEF Flush, Release, Goto, TypeOK
  <2>4. \A u \in Threads : pc'[u] \notin {"repin", "verify", "assert", "install", "flush"}
    BY <2>2, <2>3 DEF Critical
  <2>5. QED
    BY <1>0, <2>1, <2>2, <2>3, <2>4 DEF FlowInv
<1>11. ASSUME NEW t \in Threads \ {Watchdog}, Commit(t) PROVE FlowInv'
  <2>1. pc[t] = "commit" /\ Path' = Path /\ flows' = flows /\ Release(t)
    BY <1>11 DEF Commit, kernel, Path
  <2>2. pc'[t] = "idle" /\ \A u \in Threads \ {t} : pc'[u] = pc[u] /\ plan'[u] = plan[u]
    BY <2>1 DEF Release, Goto, TypeOK
  <2>3. QED
    BY <2>1, <2>2, FlowsUntouched
<1>12. ~Look
  BY WatchdogSleeps
<1>13. ~Reclaim
  BY DEF Reclaim, FlowInv
<1>14. ~External
  <2>1. spent.external \in Nat
    BY DEF TypeOK
  <2>2. External => spent.external < MaxExternal
    BY DEF External
  <2>3. MaxExternal = 0
    BY <1>0 DEF Undisturbed
  <2>4. QED
    BY <2>1, <2>2, <2>3
<1>15. ASSUME Connect PROVE FlowInv'
  <2>1. flows' = flows \cup {Path} /\ Path' = Path /\ pc' = pc /\ plan' = plan
    BY <1>15 DEF Connect, Path, Reliable
  <2>2. QED
    BY <2>1 DEF FlowInv
<1>16. ASSUME UNCHANGED vars PROVE FlowInv'
  BY <1>16 DEF vars, kernel, FlowInv, Path
<1>17. QED
  BY <1>0, <1>1, <1>2, <1>3, <1>4, <1>5, <1>6, <1>7, <1>8, <1>9, <1>10, <1>11, <1>12,
     <1>13, <1>14, <1>15, <1>16 DEF Next, Reconciling

LEMMA FlowInvariant ==
  ASSUME Reliable
  PROVE  Spec => [](TypeInv /\ LockInv /\ RouteInv /\ FlowInv)
<1>1. Init => FlowInv
  <2> SUFFICES ASSUME Init PROVE FlowInv
    OBVIOUS
  <2>1. \A t \in Threads : pc[t] = "idle"
    BY DEF Init
  <2>2. flows \subseteq {Path}
    BY DEF Init
  <2>3. QED
    BY <2>1, <2>2 DEF FlowInv, Threads
<1>2. TypeInv /\ LockInv /\ RouteInv /\ FlowInv /\ [Next]_vars => FlowInv'
  BY FlowStep, FlowRestart, CrashesAreCounted DEF TypeInv
<1>3. Undisturbed
  BY DEF Reliable
<1>4. Spec => [](TypeInv /\ LockInv /\ RouteInv)
  BY <1>3, RouteInvariant
<1>5. QED
  BY <1>1, <1>2, <1>4, PTL DEF Spec

\* No connection is left black-holing on a next hop the gateway has left: a
\* switch flushes whenever it moved the route, and before it commits.
THEOREM FlowsAreFresh ==
  ASSUME Reliable
  PROVE  Spec => []NoStaleFlows
<1>1. LockInv /\ RouteInv /\ FlowInv => NoStaleFlows
  <2> SUFFICES ASSUME LockInv, RouteInv, FlowInv, lock = None, active # None,
                      spent.crashes = 0
               PROVE  flows \subseteq {active}
    BY DEF NoStaleFlows
  <2>1. Path = active
    BY NobodyMoves DEF RouteInv
  <2>2. flows \subseteq {Path}
    BY NobodyMoves DEF FlowInv, Critical
  <2>3. QED
    BY <2>1, <2>2
<1>2. QED
  BY <1>1, FlowInvariant, PTL

\* Connections are reset only by a thread that found another next hop in use
\* than the one it installed.
THEOREM ResetsAreMoves ==
  ASSUME Reliable
  PROVE  Spec => OnlyMovesResetFlows
<1>1. TypeInv /\ LockInv /\ RouteInv /\ FlowInv /\ [Next]_vars
        => [ ~(flows \subseteq flows') /\ spent'.crashes = spent.crashes
             => \E t \in Threads : pc[t] = "flush" /\ plan[t].before # Path ]_flows
  <2> SUFFICES ASSUME TypeInv, FlowInv, [Next]_vars, ~(flows \subseteq flows'),
                      spent'.crashes = spent.crashes,
                      \A t \in Threads : pc[t] # "flush"
               PROVE  FALSE
    BY DEF FlowInv
  <2>1. \A t \in Threads : ~Flush(t)
    BY DEF Flush
  <2>2. \A p \in Providers : ~Evict(p)
    BY DEF Evict, FlowInv, Threads
  <2>3. ~Connect
    BY DEF Connect
  <2>4. ~Restart
    BY DEF Restart, TypeInv, TypeOK
  <2>5. \A t \in Threads :
          /\ ~ReadPin(t) /\ ~ReadView(t) /\ ~Acquire(t) /\ ~Repin(t) /\ ~Verify(t)
          /\ ~Assert(t) /\ ~Install(t) /\ ~Commit(t)
    BY DEF ReadPin, ReadView, Acquire, Repin, Verify, Assert, Install, Commit, kernel
  <2>6. /\ \A p \in Providers, s \in ProbeState : ~Judge(p, s)
        /\ \A p \in Providers : ~Settle(p)
        /\ \A o \in Operators, c \in Commands : ~Command(o, c)
        /\ \A o \in Operators : ~Persist(o)
    BY DEF Judge, Settle, Command, Persist, kernel
  <2>7. ~Look /\ ~Reclaim /\ ~External /\ ~UNCHANGED vars
    BY DEF Look, Reclaim, External, vars, kernel
  <2>8. Providers \subseteq Threads /\ Operators \subseteq Threads
    BY DEF Threads
  <2>9. QED
    BY <2>1, <2>2, <2>3, <2>4, <2>5, <2>6, <2>7, <2>8 DEF Next, Reconciling
<1>2. QED
  BY <1>1, FlowInvariant, PTL DEF Spec, OnlyMovesResetFlows

-----------------------------------------------------------------------------
(***************************************************************************)
(* The pin on disk, with a single operator and a database that can be      *)
(* written; Failover_two_operators shows why the first is needed.          *)
(***************************************************************************)
OneAtATime ==
  /\ \A a, b \in Operators : a = b
  /\ "persist" \notin Faults

PinInv ==
  /\ PinIsDurable
  /\ \A o \in Operators : pc[o] = "persist" => plan[o].to = forced

\* A step of a thread that is not about to persist, before or after.
LEMMA PinUntouched ==
  ASSUME TypeOK, PinInv, NEW t \in Threads, pc[t] # "persist",
         NEW place \in Places \ {"persist"},
         \/ Release(t)
         \/ Goto(t, place) /\ \A u \in Threads \ {t} : plan'[u] = plan[u],
         forced' = forced, stored' = stored
  PROVE  PinInv'
<1>1. /\ pc'[t] # "persist"
      /\ \A u \in Threads \ {t} : pc'[u] = pc[u] /\ plan'[u] = plan[u]
  BY DEF Release, Goto, TypeOK
<1>2. Operators \subseteq Threads
  BY DEF Threads
<1>3. QED
  BY <1>1, <1>2 DEF PinInv, PinIsDurable

LEMMA PinStep ==
  ASSUME OneAtATime, TypeOK, PinInv, [Next]_vars
  PROVE  PinInv'
<1>0. /\ Watchdog \in Threads /\ Providers \subseteq Threads /\ Operators \subseteq Threads
      /\ {"idle", "evict", "readPin", "readView", "wait", "repin", "verify", "assert",
          "install", "flush", "commit"} \subseteq Places \ {"persist"}
  BY DEF Threads, Places
<1>1. ASSUME NEW p \in Providers, NEW s \in ProbeState, Judge(p, s) PROVE PinInv'
  <2>1. PICK place \in {"evict", "readPin"} : Goto(p, place)
    BY <1>1 DEF Judge
  <2>2. QED
    BY <1>0, <1>1, <2>1, PinUntouched DEF Judge
<1>2. ASSUME NEW p \in Providers, Settle(p) PROVE PinInv'
  BY <1>2 DEF Settle, PinInv, PinIsDurable
<1>3. ASSUME NEW p \in Providers, Evict(p) PROVE PinInv'
  BY <1>0, <1>3, PinUntouched DEF Evict, shared
<1>4. ASSUME NEW o \in Operators, NEW c \in Commands, Command(o, c) PROVE PinInv'
  <2>1. pc'[o] = "persist" /\ plan'[o].to = c /\ forced' = c
    BY <1>0, <1>4 DEF Command, Goto, TypeOK
  <2>2. QED
    BY <2>1 DEF PinInv, PinIsDurable, OneAtATime
<1>5. ASSUME NEW o \in Operators, Persist(o) PROVE PinInv'
  <2>1. plan[o].to = forced /\ stored' = plan[o].to /\ forced' = forced
    BY <1>5 DEF Persist, PinInv, OneAtATime
  <2>2. pc'[o] = "readPin"
    BY <1>0, <1>5 DEF Persist, Goto, TypeOK
  <2>3. QED
    BY <2>1, <2>2 DEF PinInv, PinIsDurable, OneAtATime
<1>6. ASSUME NEW t \in Threads, ReadPin(t) \/ ReadView(t) PROVE PinInv'
  <2>1. PICK place \in {"readView", "wait"} : Goto(t, place)
    BY <1>6 DEF ReadPin, ReadView
  <2>2. QED
    BY <1>0, <1>6, <2>1, PinUntouched DEF ReadPin, ReadView, shared
<1>7. ASSUME NEW t \in Threads, Acquire(t) PROVE PinInv'
  <2>1. \/ Goto(t, "idle") /\ plan' = plan
        \/ Goto(t, "repin") /\ \A u \in Threads \ {t} : plan'[u] = plan[u]
    BY <1>7, AcquireType DEF Goto, TypeOK
  <2>2. QED
    BY <1>0, <1>7, <2>1, PinUntouched DEF Acquire, shared
<1>8. ASSUME NEW t \in Threads,
             \/ Repin(t) \/ Verify(t) \/ Assert(t) \/ Install(t) \/ Flush(t) \/ Commit(t)
             \/ (t = Watchdog /\ Reclaim)
      PROVE  PinInv'
  <2>1. pc[t] # "persist" /\ forced' = forced /\ stored' = stored
    BY <1>8 DEF Repin, Verify, Assert, Install, Flush, Commit, Reclaim, shared
  <2>2. \/ Release(t)
        \/ plan' = plan /\ \E place \in {"verify", "assert", "install", "flush", "commit"} :
             Goto(t, place)
    BY <1>8 DEF Repin, Verify, Assert, Install, Flush, Commit, Reclaim
  <2>3. CASE Release(t)
    BY <1>0, <2>1, <2>3, PinUntouched
  <2>4. ASSUME plan' = plan,
               NEW place \in {"verify", "assert", "install", "flush", "commit"},
               Goto(t, place)
        PROVE  PinInv'
    BY <1>0, <2>1, <2>4, PinUntouched
  <2>5. QED
    BY <2>2, <2>3, <2>4
<1>9. ASSUME Look PROVE PinInv'
  <2>1. \A u \in Threads \ {Watchdog} : plan'[u] = plan[u]
    BY <1>9 DEF Look, TypeOK
  <2>2. QED
    BY <1>0, <1>9, <2>1, PinUntouched DEF Look, shared
<1>10. ASSUME External \/ Connect \/ UNCHANGED vars PROVE PinInv'
  BY <1>10 DEF External, Connect, vars, shared, PinInv, PinIsDurable
<1>11. ASSUME Restart PROVE PinInv'
  <2>1. forced' = stored /\ stored' = stored /\ \A o \in Operators : pc'[o] = "idle"
    BY <1>0, <1>11 DEF Restart
  <2>2. QED
    BY <2>1 DEF PinInv, PinIsDurable
<1>12. QED
  BY <1>0, <1>1, <1>2, <1>3, <1>4, <1>5, <1>6, <1>7, <1>8, <1>9, <1>10, <1>11
  DEF Next, Reconciling

\* A restart at any point between two commands gives back the last choice.
THEOREM PinOutlivesRestart ==
  ASSUME OneAtATime
  PROVE  Spec => []PinIsDurable
<1>1. Init => PinInv
  BY DEF Init, PinInv, PinIsDurable, Threads
<1>2. TypeOK /\ PinInv /\ [Next]_vars => PinInv'
  BY PinStep
<1>3. PinInv => PinIsDurable
  BY DEF PinInv
<1>4. QED
  BY <1>1, <1>2, <1>3, TypeCorrect, PTL DEF Spec

-----------------------------------------------------------------------------
(***************************************************************************)
(* The pinning chain, where it can be written and routes are not refused:  *)
(* a refused route leaves the chain on the provider that was not switched  *)
(* to.  Other tools, restarts and reboots may do what they like.           *)
(***************************************************************************)
Aimed == Pinning /\ "pin" \notin Faults /\ "route" \notin Faults

\* A thread that has aimed the chain at the target of a switch and not
\* committed the switch.
Aiming(t) == pc[t] \in {"install", "flush", "commit"} /\ Switching(t)

ChainInv ==
  /\ \A t \in Threads : Aiming(t) => chain = plan[t].to
  /\ active # None /\ ~adopted => chain = active \/ \E t \in Threads : Aiming(t)

LEMMA OnlyHolderAims ==
  ASSUME LockInv, NEW t \in Threads, pc[t] \in Critical
  PROVE  \A u \in Threads : Aiming(u) => u = t
BY DEF LockInv, Aiming, Critical

\* A step that neither aims nor decides, of a thread that is not aiming.
LEMMA ChainUntouched ==
  ASSUME ChainInv, NEW t \in Threads, ~Aiming(t), ~Aiming(t)',
         \A u \in Threads \ {t} : pc'[u] = pc[u] /\ plan'[u] = plan[u],
         chain' = chain, active' = active, adopted' = adopted
  PROVE  ChainInv'
BY DEF ChainInv, Aiming, Switching

\* A thread that is aiming goes on to the next step of its switch.
LEMMA ChainHeld ==
  ASSUME TypeOK, ChainInv, NEW t \in Threads, Aiming(t),
         NEW place \in {"flush", "commit"}, Goto(t, place), plan' = plan,
         chain' = chain, active' = active, adopted' = adopted
  PROVE  ChainInv'
<1>1. pc'[t] = place /\ \A u \in Threads \ {t} : pc'[u] = pc[u]
  BY DEF Goto, TypeOK
<1>2. \A u \in Threads : Aiming(u)' <=> Aiming(u)
  BY <1>1 DEF Aiming, Switching
<1>3. QED
  BY <1>2 DEF ChainInv

LEMMA ChainStep ==
  ASSUME Aimed, TypeInv, LockInv, ChainInv, [Next]_vars
  PROVE  ChainInv'
<1> USE DEF TypeInv
<1>0. /\ Watchdog \in Threads /\ Providers \subseteq Threads /\ Operators \subseteq Threads
      /\ {"idle", "evict", "persist", "readPin", "readView", "wait", "repin",
          "verify", "assert", "install", "flush", "commit"} \subseteq Places
  BY DEF Threads, Places
<1>1. ASSUME NEW p \in Providers, NEW s \in ProbeState, Judge(p, s)
      PROVE  ChainInv'
  <2>1. PICK place \in {"evict", "readPin"} : Goto(p, place)
    BY <1>1 DEF Judge
  <2>2. pc[p] = "idle" /\ pc'[p] = place /\ \A u \in Threads \ {p} : pc'[u] = pc[u]
    BY <1>0, <1>1, <2>1 DEF Judge, Goto, TypeOK
  <2>3. ~Aiming(p) /\ ~Aiming(p)'
    BY <2>2 DEF Aiming
  <2>4. chain' = chain /\ active' = active /\ adopted' = adopted /\ plan' = plan
    BY <1>1 DEF Judge, kernel
  <2>5. QED
    BY <1>0, <2>2, <2>3, <2>4, ChainUntouched
<1>2. ASSUME NEW p \in Providers, Settle(p) PROVE ChainInv'
  BY <1>2 DEF Settle, ChainInv, Aiming, Switching, kernel
<1>3. ASSUME NEW p \in Providers, Evict(p) PROVE ChainInv'
  <2>1. pc[p] = "evict" /\ pc'[p] = "readPin" /\ \A u \in Threads \ {p} : pc'[u] = pc[u]
    BY <1>0, <1>3 DEF Evict, Goto, TypeOK
  <2>2. ~Aiming(p) /\ ~Aiming(p)'
    BY <2>1 DEF Aiming
  <2>3. chain' = chain /\ active' = active /\ adopted' = adopted /\ plan' = plan
    BY <1>3 DEF Evict, shared
  <2>4. QED
    BY <1>0, <2>1, <2>2, <2>3, ChainUntouched
<1>4. ASSUME NEW o \in Operators, (\E c \in Commands : Command(o, c)) \/ Persist(o)
      PROVE  ChainInv'
  <2>1. /\ pc[o] \in {"idle", "persist"} /\ pc'[o] \in {"persist", "readPin"}
        /\ \A u \in Threads \ {o} : pc'[u] = pc[u] /\ plan'[u] = plan[u]
    BY <1>0, <1>4 DEF Command, Persist, Goto, TypeOK
  <2>2. ~Aiming(o) /\ ~Aiming(o)'
    BY <2>1 DEF Aiming
  <2>3. chain' = chain /\ active' = active /\ adopted' = adopted
    BY <1>4 DEF Command, Persist, kernel
  <2>4. QED
    BY <1>0, <2>1, <2>2, <2>3, ChainUntouched
<1>5. ASSUME NEW t \in Threads, ReadPin(t) \/ ReadView(t) PROVE ChainInv'
  <2>1. /\ pc[t] \in {"readPin", "readView"} /\ pc'[t] \in {"readView", "wait"}
        /\ \A u \in Threads \ {t} : pc'[u] = pc[u]
    BY <1>5 DEF ReadPin, ReadView, Goto, TypeOK
  <2>2. ~Aiming(t) /\ ~Aiming(t)'
    BY <2>1 DEF Aiming
  <2>3. chain' = chain /\ active' = active /\ adopted' = adopted /\ plan' = plan
    BY <1>5 DEF ReadPin, ReadView, kernel, shared
  <2>4. QED
    BY <2>1, <2>2, <2>3, ChainUntouched
<1>6. ASSUME NEW t \in Threads, Acquire(t) PROVE ChainInv'
  <2>1. /\ pc'[t] \in {"idle", "repin"}
        /\ \A u \in Threads \ {t} : pc'[u] = pc[u] /\ plan'[u] = plan[u]
    BY <1>6, AcquireType DEF TypeOK
  <2>2. pc[t] = "wait" /\ chain' = chain /\ active' = active /\ adopted' = adopted
    BY <1>6 DEF Acquire, shared, kernel
  <2>3. ~Aiming(t) /\ ~Aiming(t)'
    BY <2>1, <2>2 DEF Aiming
  <2>4. QED
    BY <2>1, <2>2, <2>3, ChainUntouched
<1>7. ASSUME NEW t \in Threads, Repin(t) PROVE ChainInv'
  <2>1. pc[t] = "repin" /\ pc[t] \in Critical /\ active' = active
    BY <1>7 DEF Repin, Critical
  <2>2. chain' = plan[t].to
    BY <1>7 DEF Repin, Aimed
  <2>3. \A u \in Threads : ~Aiming(u)
    BY <2>1, OnlyHolderAims DEF Aiming
  <2>4. CASE Switching(t)
    <3>1. Goto(t, "install") /\ plan' = plan
      BY <1>7, <2>4 DEF Repin, Keeping, Switching
    <3>2. pc'[t] = "install" /\ \A u \in Threads \ {t} : pc'[u] = pc[u]
      BY <3>1 DEF Goto, TypeOK
    <3>3. Aiming(t)' /\ \A u \in Threads : Aiming(u)' => u = t
      BY <2>3, <2>4, <3>1, <3>2 DEF Aiming, Switching
    <3>4. plan'[t].to = plan[t].to
      BY <3>1
    <3>5. QED
      BY <2>2, <3>3, <3>4 DEF ChainInv
  <2>5. CASE ~Switching(t)
    <3>1. chain' = active'
      BY <2>1, <2>2, <2>5 DEF LockInv
    <3>2. \/ Release(t)
          \/ plan' = plan /\ \E place \in {"verify", "assert"} : Goto(t, place)
      BY <1>7, <2>5 DEF Repin
    <3>3. \A u \in Threads \ {t} : pc'[u] = pc[u] /\ plan'[u] = plan[u]
      BY <1>0, <3>2, OthersStay
    <3>4. ~Aiming(t)'
      BY <3>2 DEF Aiming, Release, Goto, TypeOK
    <3>5. \A u \in Threads : ~Aiming(u)'
      BY <2>3, <3>3, <3>4 DEF Aiming, Switching
    <3>6. QED
      BY <3>1, <3>5 DEF ChainInv
  <2>6. QED
    BY <2>4, <2>5
<1>8. ASSUME NEW t \in Threads,
             Verify(t) \/ Assert(t) \/ (t = Watchdog /\ Reclaim)
      PROVE  ChainInv'
  <2>1. pc[t] \in Critical /\ ~Switching(t)
    BY <1>8 DEF Verify, Assert, Reclaim, Critical, LockInv
  <2>2. chain' = chain /\ active' = active /\ adopted' = adopted
    BY <1>8 DEF Verify, Assert, Reclaim, shared
  <2>3. \/ Release(t)
        \/ plan' = plan /\ \E place \in {"assert", "flush"} : Goto(t, place)
    BY <1>8 DEF Verify, Assert, Reclaim
  <2>4. \A u \in Threads \ {t} : pc'[u] = pc[u] /\ plan'[u] = plan[u]
    BY <1>0, <2>3, OthersStay
  <2>5. ~Aiming(t) /\ ~Aiming(t)'
    BY <2>1, <2>3 DEF Aiming, Switching, Release, Goto, TypeOK
  <2>6. QED
    BY <2>2, <2>4, <2>5, ChainUntouched
<1>9. ASSUME NEW t \in Threads \ {Watchdog}, Install(t) PROVE ChainInv'
  <2>1. /\ Aiming(t) /\ chain' = chain /\ active' = active /\ adopted' = adopted
        /\ ~RouteRefused
    BY <1>9 DEF Install, Aiming, LockInv, Aimed, RouteRefused, shared
  <2>2. plan' = plan /\ \E place \in {"flush", "commit"} : Goto(t, place)
    BY <1>9, <2>1 DEF Install
  <2>3. QED
    BY <2>1, <2>2, ChainHeld
<1>10. ASSUME NEW t \in Threads, Flush(t) PROVE ChainInv'
  <2>1. /\ pc[t] = "flush" /\ pc[t] \in Critical
        /\ chain' = chain /\ active' = active /\ adopted' = adopted
    BY <1>10 DEF Flush, Critical, shared
  <2>2. CASE Switching(t) /\ Goto(t, "commit") /\ plan' = plan
    <3>1. Aiming(t)
      BY <2>1, <2>2 DEF Aiming
    <3>2. QED
      BY <2>1, <2>2, <3>1, ChainHeld
  <2>3. CASE ~Switching(t) /\ Release(t)
    <3>1. \A u \in Threads \ {t} : pc'[u] = pc[u] /\ plan'[u] = plan[u]
      BY <2>3, OthersStay
    <3>2. ~Aiming(t) /\ ~Aiming(t)'
      BY <2>3 DEF Aiming, Release, Goto, TypeOK
    <3>3. QED
      BY <2>1, <3>1, <3>2, ChainUntouched
  <2>4. QED
    BY <1>10, <2>2, <2>3 DEF Flush
<1>11. ASSUME NEW t \in Threads, Commit(t) PROVE ChainInv'
  <2>1. /\ pc[t] = "commit" /\ pc[t] \in Critical /\ Aiming(t)
        /\ chain' = chain /\ active' = plan[t].to /\ Release(t)
    BY <1>11 DEF Commit, Critical, Aiming, LockInv, kernel
  <2>2. \A u \in Threads \ {t} : pc'[u] = pc[u] /\ plan'[u] = plan[u] /\ ~Aiming(u)
    BY <2>1, OthersStay, OnlyHolderAims
  <2>3. ~Aiming(t)'
    BY <2>1 DEF Aiming, Release, Goto, TypeOK
  <2>4. \A u \in Threads : ~Aiming(u)'
    BY <2>2, <2>3 DEF Aiming, Switching
  <2>5. chain' = active'
    BY <2>1 DEF ChainInv
  <2>6. QED
    BY <2>4, <2>5 DEF ChainInv
<1>12. ASSUME Look PROVE ChainInv'
  <2>1. /\ pc[Watchdog] = "idle" /\ ~Aiming(Watchdog)'
        /\ \A u \in Threads \ {Watchdog} : pc'[u] = pc[u] /\ plan'[u] = plan[u]
        /\ chain' = chain /\ active' = active /\ adopted' = adopted
    BY <1>0, <1>12 DEF Look, Goto, TypeOK, Aiming, Switching, shared, kernel
  <2>2. ~Aiming(Watchdog)
    BY <2>1 DEF Aiming
  <2>3. QED
    BY <1>0, <2>1, <2>2, ChainUntouched
<1>13. ASSUME External \/ Connect \/ UNCHANGED vars PROVE ChainInv'
  BY <1>13 DEF External, Connect, vars, shared, kernel, ChainInv, Aiming, Switching
<1>14. ASSUME Restart PROVE ChainInv'
  <2>1. \A t \in Threads : ~Aiming(t)'
    BY <1>14 DEF Restart, Aiming
  <2>2. adopted' = (active' # None)
    BY <1>14 DEF Restart
  <2>3. QED
    BY <2>1, <2>2 DEF ChainInv
<1>15. Providers \subseteq Threads \ {Watchdog} /\ Operators \subseteq Threads \ {Watchdog}
  BY ThreadsAssumption DEF Threads
<1>16. QED
  BY <1>0, <1>1, <1>2, <1>3, <1>4, <1>5, <1>6, <1>7, <1>8, <1>9, <1>10, <1>11, <1>12,
     <1>13, <1>14, <1>15 DEF Next, Reconciling

\* New connections are stamped with the active provider's mark outside the
\* critical sections: the chain is aimed before the route moves and under the
\* same lock, whatever other tools do to the routes and whenever the daemon is
\* killed.
THEOREM ChainIsActive ==
  ASSUME Aimed
  PROVE  Spec => []ChainFollowsActive
<1>1. Init => ChainInv
  <2> SUFFICES ASSUME Init PROVE ChainInv
    OBVIOUS
  <2>1. \A t \in Threads : ~Aiming(t)
    BY DEF Init, Aiming
  <2>2. adopted = (active # None)
    BY DEF Init
  <2>3. QED
    BY <2>1, <2>2 DEF ChainInv
<1>2. TypeInv /\ LockInv /\ ChainInv /\ [Next]_vars => ChainInv'
  BY ChainStep
<1>3. LockInv /\ ChainInv => ChainFollowsActive
  <2> SUFFICES ASSUME LockInv, ChainInv, lock = None PROVE ChainFollowsActive
    BY DEF ChainFollowsActive
  <2>1. \A t \in Threads : ~Aiming(t)
    BY NobodyMoves DEF Aiming, Critical
  <2>2. QED
    BY <2>1 DEF ChainInv, ChainFollowsActive
<1>4. QED
  BY <1>1, <1>2, <1>3, LockInvariant, PTL DEF Spec

-----------------------------------------------------------------------------
(***************************************************************************)
(* Pinned connections, of a gateway nobody interferes with and that is not *)
(* restarted.                                                              *)
(***************************************************************************)
Spared == Undisturbed /\ Pinning /\ "read" \notin Faults /\ MaxCrashes = 0

\* Nobody has a reason to flush, and only a provider that is down has its
\* connections evicted.
SpareInv ==
  /\ pc[Watchdog] = "idle"
  /\ \A t \in Threads : pc[t] # "flush"
  /\ \A t \in Threads :
       pc[t] \in {"repin", "verify", "assert", "install"} => plan[t].before = Path
  /\ \A p \in Providers : pc[p] = "evict" => state[p] = "Down"

\* A thread goes on to a place that asks nothing of the route it found.
LEMMA SparingMove ==
  ASSUME SpareInv, NEW t \in Threads \ {Watchdog},
         pc'[t] \notin {"evict", "repin", "verify", "assert", "install", "flush"},
         \A u \in Threads \ {t} : pc'[u] = pc[u] /\ plan'[u] = plan[u],
         Path' = Path, state' = state
  PROVE  SpareInv'
<1>1. Providers \subseteq Threads /\ Watchdog \in Threads
  BY DEF Threads
<1>2. QED
  BY <1>1 DEF SpareInv

\* Or it goes on within its section, with the plan it made.
LEMMA SparingPlan ==
  ASSUME SpareInv, NEW t \in Threads \ {Watchdog},
         pc'[t] \in {"repin", "verify", "assert", "install"}, plan'[t].before = Path,
         \A u \in Threads \ {t} : pc'[u] = pc[u] /\ plan'[u] = plan[u],
         Path' = Path, state' = state
  PROVE  SpareInv'
<1>1. Providers \subseteq Threads /\ Watchdog \in Threads
  BY DEF Threads
<1>2. QED
  BY <1>1 DEF SpareInv

LEMMA SpareStep ==
  ASSUME Spared, TypeInv, LockInv, RouteInv, SpareInv, [Next]_vars
  PROVE  SpareInv'
<1> USE DEF TypeInv
<1>0. /\ Watchdog \in Threads /\ Undisturbed
      /\ Providers \subseteq Threads \ {Watchdog} /\ Operators \subseteq Threads \ {Watchdog}
      /\ {"idle", "evict", "persist", "readPin", "readView", "wait", "repin",
          "verify", "assert", "install", "flush", "commit"} \subseteq Places
  BY ThreadsAssumption DEF Threads, Places, Spared
<1>1. ASSUME NEW p \in Providers, NEW s \in ProbeState, Judge(p, s)
      PROVE  SpareInv'
  <2>1. /\ plan' = plan /\ UNCHANGED kernel /\ state' = [state EXCEPT ![p] = s]
        /\ Goto(p, "readPin") \/ (Goto(p, "evict") /\ s = "Down")
    BY <1>1 DEF Judge
  <2>2. /\ pc'[p] \in {"readPin", "evict"} /\ (pc'[p] = "evict" => s = "Down")
        /\ \A u \in Threads \ {p} : pc'[u] = pc[u]
        /\ state'[p] = s /\ \A q \in Providers \ {p} : state'[q] = state[q]
    BY <1>0, <2>1 DEF Goto, TypeOK
  <2>3. Path' = Path
    BY <2>1 DEF Path, kernel
  <2>4. QED
    BY <1>0, <2>1, <2>2, <2>3 DEF SpareInv
<1>2. ASSUME NEW p \in Providers, Settle(p) PROVE SpareInv'
  BY <1>2 DEF Settle, SpareInv, Path, kernel
<1>3. ASSUME NEW p \in Providers, Evict(p) PROVE SpareInv'
  <2>1. /\ pc'[p] = "readPin" /\ plan' = plan /\ \A u \in Threads \ {p} : pc'[u] = pc[u]
        /\ Path' = Path /\ state' = state
    BY <1>0, <1>3 DEF Evict, Goto, TypeOK, shared, Path
  <2>2. QED
    BY <1>0, <2>1, SparingMove
<1>4. ASSUME NEW o \in Operators, (\E c \in Commands : Command(o, c)) \/ Persist(o)
      PROVE  SpareInv'
  <2>1. /\ pc'[o] \in {"persist", "readPin"}
        /\ \A u \in Threads \ {o} : pc'[u] = pc[u] /\ plan'[u] = plan[u]
    BY <1>0, <1>4 DEF Command, Persist, Goto, TypeOK
  <2>2. Path' = Path /\ state' = state
    BY <1>4 DEF Command, Persist, kernel, Path
  <2>3. QED
    BY <1>0, <2>1, <2>2, SparingMove
<1>5. ASSUME NEW t \in Threads \ {Watchdog}, ReadPin(t) \/ ReadView(t) PROVE SpareInv'
  <2>1. /\ pc'[t] \in {"readView", "wait"}
        /\ \A u \in Threads \ {t} : pc'[u] = pc[u] /\ plan'[u] = plan[u]
    BY <1>5 DEF ReadPin, ReadView, Goto, TypeOK
  <2>2. Path' = Path /\ state' = state
    BY <1>5 DEF ReadPin, ReadView, shared, kernel, Path
  <2>3. QED
    BY <2>1, <2>2, SparingMove
<1>6. ASSUME NEW t \in Threads \ {Watchdog}, Acquire(t) PROVE SpareInv'
  <2>1. Path' = Path /\ state' = state
    BY <1>6 DEF Acquire, shared, kernel, Path
  <2>2. CASE pc' = [pc EXCEPT ![t] = "idle"] /\ plan' = plan
    <3>1. pc'[t] = "idle" /\ \A u \in Threads \ {t} : pc'[u] = pc[u]
      BY <2>2 DEF TypeOK
    <3>2. QED
      BY <2>1, <2>2, <3>1, SparingMove
  <2>3. ASSUME pc' = [pc EXCEPT ![t] = "repin"],
               NEW k, NEW to, NEW before, before = Path,
               plan' = [plan EXCEPT ![t] = [kind |-> k, to |-> to, before |-> before]]
        PROVE  SpareInv'
    <3>1. /\ pc'[t] = "repin" /\ plan'[t].before = Path
          /\ \A u \in Threads \ {t} : pc'[u] = pc[u] /\ plan'[u] = plan[u]
      BY <2>3 DEF TypeOK
    <3>2. QED
      BY <2>1, <3>1, SparingPlan
  <2>4. QED
    BY <1>6, <2>2, <2>3, AcquireType DEF Spared
<1>7. ASSUME NEW t \in Threads \ {Watchdog}, Repin(t) PROVE SpareInv'
  <2>1. pc[t] = "repin" /\ plan[t].before = Path /\ Path' = Path /\ state' = state
    BY <1>7 DEF Repin, Path, SpareInv
  <2>2. CASE Release(t)
    <3>1. pc'[t] = "idle" /\ \A u \in Threads \ {t} : pc'[u] = pc[u] /\ plan'[u] = plan[u]
      BY <2>2 DEF Release, Goto, TypeOK
    <3>2. QED
      BY <2>1, <3>1, SparingMove
  <2>3. CASE plan' = plan /\ \E place \in {"install", "verify", "assert"} : Goto(t, place)
    <3>1. /\ pc'[t] \in {"install", "verify", "assert"}
          /\ \A u \in Threads \ {t} : pc'[u] = pc[u]
      BY <2>3 DEF Goto, TypeOK
    <3>2. QED
      BY <2>1, <2>3, <3>1, SparingPlan
  <2>4. QED
    BY <1>7, <2>2, <2>3 DEF Repin
<1>8. ASSUME NEW t \in Threads \ {Watchdog}, Verify(t) \/ Assert(t) PROVE SpareInv'
  <2>1. /\ pc[t] \in {"verify", "assert"} /\ pc[t] \in Critical /\ ~Switching(t)
        /\ plan[t].to \in Providers /\ plan[t].before = Path /\ state' = state
    BY <1>8 DEF Verify, Assert, Critical, LockInv, PlansNameProviders, SpareInv, shared
  <2>2. plan[t].to = Path /\ ~Moved(t)
    BY <2>1, KeeperHasRoute DEF Moved
  <2>3. SetDefaultRoute(plan[t].to) \/ routes' = routes
    BY <1>8 DEF Verify, Assert, RouteRefused
  <2>4. Path' = Path
    BY <1>0, <2>1, <2>2, <2>3, InstalledPath DEF Path
  <2>5. CASE Release(t)
    <3>1. pc'[t] = "idle" /\ \A u \in Threads \ {t} : pc'[u] = pc[u] /\ plan'[u] = plan[u]
      BY <2>5 DEF Release, Goto, TypeOK
    <3>2. QED
      BY <2>1, <2>4, <3>1, SparingMove
  <2>6. CASE plan' = plan /\ Goto(t, "assert")
    <3>1. pc'[t] = "assert" /\ \A u \in Threads \ {t} : pc'[u] = pc[u]
      BY <2>6 DEF Goto, TypeOK
    <3>2. QED
      BY <2>1, <2>4, <2>6, <3>1, SparingPlan
  <2>7. QED
    BY <1>8, <2>2, <2>5, <2>6 DEF Verify, Assert
<1>9. ASSUME NEW t \in Threads \ {Watchdog}, Install(t) PROVE SpareInv'
  <2>1. /\ pc[t] = "install" /\ pc[t] \in Critical /\ plan[t].to \in Providers
        /\ state' = state
    BY <1>9 DEF Install, Critical, PlansNameProviders, shared
  <2>2. \A u \in Threads \ {t} : pc[u] \notin Critical
    BY <2>1 DEF LockInv
  <2>3. /\ pc'[t] \in {"idle", "commit"}
        /\ \A u \in Threads \ {t} : pc'[u] = pc[u]
    BY <1>9 DEF Install, Release, Goto, TypeOK, Spared
  <2>4. \A u \in Threads : pc'[u] \notin {"repin", "verify", "assert", "install", "flush"}
    BY <2>2, <2>3 DEF Critical
  <2>5. QED
    BY <1>0, <2>1, <2>3, <2>4 DEF SpareInv
<1>10. \A t \in Threads : ~Flush(t)
  BY DEF Flush, SpareInv
<1>11. ASSUME NEW t \in Threads \ {Watchdog}, Commit(t) PROVE SpareInv'
  <2>1. Path' = Path /\ state' = state /\ Release(t)
    BY <1>11 DEF Commit, kernel, Path
  <2>2. pc'[t] = "idle" /\ \A u \in Threads \ {t} : pc'[u] = pc[u] /\ plan'[u] = plan[u]
    BY <2>1 DEF Release, Goto, TypeOK
  <2>3. QED
    BY <2>1, <2>2, SparingMove
<1>12. ~Look
  BY WatchdogSleeps
<1>13. ~Reclaim
  BY DEF Reclaim, SpareInv
<1>14. ~External
  <2>1. spent.external \in Nat
    BY DEF TypeOK
  <2>2. External => spent.external < MaxExternal
    BY DEF External
  <2>3. MaxExternal = 0
    BY <1>0 DEF Undisturbed
  <2>4. QED
    BY <2>1, <2>2, <2>3
<1>15. ASSUME Connect \/ UNCHANGED vars PROVE SpareInv'
  BY <1>15 DEF Connect, vars, shared, kernel, SpareInv, Path
<1>16. ~Restart
  <2>1. spent.crashes \in Nat
    BY DEF TypeOK
  <2>2. Restart => spent.crashes < MaxCrashes
    BY DEF Restart
  <2>3. MaxCrashes = 0
    BY DEF Spared
  <2>4. QED
    BY <2>1, <2>2, <2>3
<1>17. QED
  BY <1>0, <1>1, <1>2, <1>3, <1>4, <1>5, <1>6, <1>7, <1>8, <1>9, <1>10, <1>11, <1>12,
     <1>13, <1>14, <1>15, <1>16 DEF Next, Reconciling

\* A switch, a command and the adoption of a route leave every connection of a
\* provider that is not down alone; only the eviction after a failure drops any.
THEOREM PinnedAreSpared ==
  ASSUME Spared
  PROVE  Spec => SwitchSparesPinned
<1>1. Init => SpareInv
  <2> SUFFICES ASSUME Init PROVE SpareInv
    OBVIOUS
  <2>1. \A t \in Threads : pc[t] = "idle"
    BY DEF Init
  <2>2. QED
    BY <2>1 DEF SpareInv, Threads
<1>2. TypeInv /\ LockInv /\ RouteInv /\ SpareInv /\ [Next]_vars => SpareInv'
  BY SpareStep
<1>3. TypeInv /\ LockInv /\ RouteInv /\ SpareInv /\ [Next]_vars
        => [ \A q \in Providers : q \in flows /\ q \notin flows' => state[q] = "Down" ]_flows
  <2> SUFFICES ASSUME TypeInv, LockInv, RouteInv, SpareInv, [Next]_vars,
                      NEW q \in Providers, q \in flows, q \notin flows', state[q] # "Down"
               PROVE  FALSE
    OBVIOUS
  <2>1. \A t \in Threads : ~Flush(t)
    BY DEF Flush, SpareInv
  <2>2. \A p \in Providers : ~Evict(p)
    <3> SUFFICES ASSUME NEW p \in Providers, Evict(p) PROVE FALSE
      OBVIOUS
    <3>1. pc[p] = "evict" /\ (flows' = flows \/ flows' = flows \ {p})
      BY DEF Evict
    <3>2. QED
      BY <3>1 DEF SpareInv
  <2>3. ~Connect
    BY DEF Connect
  <2>4. ~Restart
    <3>1. spent.crashes \in Nat
      BY DEF TypeInv, TypeOK
    <3>2. Restart => spent.crashes < MaxCrashes
      BY DEF Restart
    <3>3. MaxCrashes = 0
      BY DEF Spared
    <3>4. QED
      BY <3>1, <3>2, <3>3
  <2>5. \A t \in Threads :
          /\ ~ReadPin(t) /\ ~ReadView(t) /\ ~Acquire(t) /\ ~Repin(t) /\ ~Verify(t)
          /\ ~Assert(t) /\ ~Install(t) /\ ~Commit(t)
    BY DEF ReadPin, ReadView, Acquire, Repin, Verify, Assert, Install, Commit, kernel
  <2>6. /\ \A p \in Providers, s \in ProbeState : ~Judge(p, s)
        /\ \A p \in Providers : ~Settle(p)
        /\ \A o \in Operators, c \in Commands : ~Command(o, c)
        /\ \A o \in Operators : ~Persist(o)
    BY DEF Judge, Settle, Command, Persist, kernel
  <2>7. ~Look /\ ~Reclaim /\ ~External /\ ~UNCHANGED vars
    BY DEF Look, Reclaim, External, vars, kernel
  <2>8. Providers \subseteq Threads /\ Operators \subseteq Threads
    BY DEF Threads
  <2>9. QED
    BY <2>1, <2>2, <2>3, <2>4, <2>5, <2>6, <2>7, <2>8 DEF Next, Reconciling
<1>4. Undisturbed
  BY DEF Spared
<1>5. Spec => [](TypeInv /\ LockInv /\ RouteInv)
  BY <1>4, RouteInvariant
<1>6. QED
  BY <1>1, <1>2, <1>3, <1>5, PTL DEF Spec, SwitchSparesPinned
=============================================================================

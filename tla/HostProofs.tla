----------------------------- MODULE HostProofs -----------------------------
(***************************************************************************)
(* What an accepted configuration guarantees to the modules that use its   *)
(* numbers, and the promises of Host for any configurations, any number of *)
(* providers and any sequence of starts, refusals, kills, reboots and link *)
(* changes: a daemon that is up has applied its settings, it never takes   *)
(* away the last default route, no rule or route piles up, and marks       *)
(* select uplinks.                                                         *)
(***************************************************************************)
EXTENDS Host, FiniteSetTheorems, SequenceTheorems, WellFoundedInduction, TLAPS

-----------------------------------------------------------------------------
(***************************************************************************)
(* The configuration.                                                      *)
(***************************************************************************)
\* Within its width a number is not changed by the arithmetic of the code.
LEMMA NoWrap ==
    ASSUME NEW n \in U32 PROVE Wrap(n) = n
<1>1. U32Max \in Nat /\ n \in Nat /\ n < U32Max + 1
    BY WidthAssumption DEF U32
<1>2. QED
    BY <1>1 DEF Wrap

\* None of the numbers of an accepted configuration wraps around.
LEMMA PlainNumbers ==
    ASSUME NEW c, Typed(c), Accepted(c), NEW p \in ProviderSet(c)
    PROVE  /\ p.priority \in Nat
           /\ c.routing.table_base \in Nat /\ c.routing.fwmark_base \in Nat
           /\ c.routing.rule_pref \in Nat
           /\ TableFor(c, p) = c.routing.table_base + p.priority
           /\ MarkFor(c, p) = c.routing.fwmark_base + p.priority
           /\ RulePrefFor(c, p) = c.routing.rule_pref + p.priority
<1>1. /\ p.priority \in Nat /\ c.routing.table_base \in Nat
      /\ c.routing.fwmark_base \in Nat /\ c.routing.rule_pref \in Nat
    BY DEF Typed, U32
<1>2. c.routing.table_base + p.priority \in U32
    <2>1. c.routing.table_base + p.priority < U32Max
        BY DEF Accepted, TablesAccepted
    <2>2. QED
        BY <1>1, <2>1, WidthAssumption DEF U32
<1>3. c.routing.fwmark_base + p.priority \in U32
    <2>1. c.routing.fwmark_base + p.priority <= U32Max
        BY DEF Accepted, MarksAccepted
    <2>2. QED
        BY <1>1, <2>1, WidthAssumption DEF U32
<1>4. c.routing.rule_pref + p.priority \in U32
    <2>1. c.routing.rule_pref + p.priority < MainPref
        BY DEF Accepted, PrefsAccepted
    <2>2. QED
        BY <1>1, <2>1, WidthAssumption DEF U32, MainPref
<1>5. QED
    BY <1>1, <1>2, <1>3, <1>4, NoWrap DEF TableFor, MarkFor, RulePrefFor

\* validate and table_for, mark_for, rule_pref_for (core/config.rs): two
\* providers of an accepted configuration share no table, no mark and no rule
\* preference, in spite of the wrapping arithmetic.
THEOREM NumbersAreDistinct ==
    ASSUME NEW c, Typed(c), Accepted(c),
           NEW i \in DOMAIN c.providers, NEW j \in DOMAIN c.providers, i # j
    PROVE  LET p == c.providers[i]
               q == c.providers[j]
           IN  /\ TableFor(c, p) # TableFor(c, q)
               /\ MarkFor(c, p) # MarkFor(c, q)
               /\ RulePrefFor(c, p) # RulePrefFor(c, q)
<1> DEFINE p == c.providers[i]
           q == c.providers[j]
<1>1. p \in ProviderSet(c) /\ q \in ProviderSet(c)
    BY DEF ProviderSet
<1>2. p.priority # q.priority
    BY DEF Accepted, ProvidersAccepted
<1>3. /\ p.priority \in Nat /\ q.priority \in Nat
      /\ c.routing.table_base \in Nat /\ c.routing.fwmark_base \in Nat
      /\ c.routing.rule_pref \in Nat
    BY <1>1, PlainNumbers
<1>4. /\ TableFor(c, p) = c.routing.table_base + p.priority
      /\ TableFor(c, q) = c.routing.table_base + q.priority
      /\ MarkFor(c, p) = c.routing.fwmark_base + p.priority
      /\ MarkFor(c, q) = c.routing.fwmark_base + q.priority
      /\ RulePrefFor(c, p) = c.routing.rule_pref + p.priority
      /\ RulePrefFor(c, q) = c.routing.rule_pref + q.priority
    BY <1>1, PlainNumbers
<1>5. QED
    BY <1>2, <1>3, <1>4

\* No provider gets a table the kernel reserves or the mark of unmarked
\* packets, and every provider's rule comes after the suppress rule and before
\* the one of the main table.
THEOREM NumbersAreUsable ==
    ASSUME NEW c, Typed(c), Accepted(c), NEW p \in ProviderSet(c)
    PROVE  /\ TableFor(c, p) \notin ReservedTables \cup {0}
           /\ MarkFor(c, p) # 0
           /\ 0 < SuppressPref(c)
           /\ SuppressPref(c) < RulePrefFor(c, p)
           /\ RulePrefFor(c, p) < MainPref
<1>1. /\ p.priority \in Nat /\ c.routing.table_base \in Nat
      /\ c.routing.fwmark_base \in Nat /\ c.routing.rule_pref \in Nat
      /\ TableFor(c, p) = c.routing.table_base + p.priority
      /\ MarkFor(c, p) = c.routing.fwmark_base + p.priority
      /\ RulePrefFor(c, p) = c.routing.rule_pref + p.priority
    BY PlainNumbers
<1>2. TableFor(c, p) \notin ReservedTables \cup {0}
    <2>1. c.routing.table_base # 0
        BY DEF Accepted, TablesAccepted
    <2>2. \A t \in ReservedTables :
              t \notin c.routing.table_base..(c.routing.table_base + p.priority)
        BY DEF Accepted, TablesAccepted
    <2>3. c.routing.table_base + p.priority
              \in c.routing.table_base..(c.routing.table_base + p.priority)
        BY <1>1
    <2>4. QED
        BY <1>1, <2>1, <2>2, <2>3
<1>3. MarkFor(c, p) # 0
    <2>1. c.routing.fwmark_base # 0
        BY DEF Accepted, MarksAccepted
    <2>2. QED
        BY <1>1, <2>1
<1>4. c.routing.rule_pref >= 100 /\ c.routing.rule_pref + p.priority < MainPref
    BY DEF Accepted, PrefsAccepted
<1>5. QED
    BY <1>1, <1>2, <1>3, <1>4 DEF SuppressPref

\* Quorum::required with validate: a canary that is accepted can be passed, and
\* not by nobody.
THEOREM QuorumCanBeMet ==
    ASSUME NEW s, CanaryAccepted(s), Len(s.targets) \in Nat
    PROVE  Required(s.quorum, Len(s.targets)) \in 1..Len(s.targets)
<1>1. /\ s.quorum \in {"any", "majority", "all"}
      /\ Required(s.quorum, Len(s.targets)) <= Len(s.targets)
    BY DEF CanaryAccepted
<1>2. /\ Required(s.quorum, Len(s.targets)) \in Nat
      /\ Required(s.quorum, Len(s.targets)) >= 1
    <2>1. CASE s.quorum = "any"
        BY <2>1 DEF Required
    <2>2. CASE s.quorum = "majority"
        <3> DEFINE half == Len(s.targets) \div 2
        <3>1. Required(s.quorum, Len(s.targets)) = half + 1
            BY <2>2 DEF Required
        <3>2. half \in Nat
            <4>1. ASSUME NEW n \in Nat PROVE n \div 2 \in Nat
                OBVIOUS
            <4>2. QED
                BY <4>1
        <3> HIDE DEF half
        <3>3. QED
            BY <3>1, <3>2
    <2>3. CASE s.quorum = "all"
        <3>1. Required(s.quorum, Len(s.targets))
                  = IF Len(s.targets) = 0 THEN 1 ELSE Len(s.targets)
            BY <2>3 DEF Required
        <3>2. QED
            BY <3>1
    <2>4. QED
        BY <1>1, <2>1, <2>2, <2>3
<1>3. QED
    BY <1>1, <1>2

-----------------------------------------------------------------------------
(***************************************************************************)
(* The settings.  What each step of a start has applied stays applied      *)
(* until the daemon is gone.                                               *)
(***************************************************************************)
FirewallShape ==
    firewall = [forward |-> firewall.forward, accept |-> firewall.accept, nat |-> firewall.nat]

Forwarding == pc \notin {"down", "sysctl"} => firewall.forward = TRUE

Translating ==
    pc \notin {"down", "sysctl", "nat"} /\ C.firewall.manage
        => firewall.accept = TRUE /\ NatInterfaces(C) \subseteq firewall.nat

Unstamped ==
    (/\ pc \in {"bootstrap", "up", "replace", "tidy"}
     /\ ~C.routing.pin_connections /\ "pinning" \notin refused)
        => pinning.mark = None

Applied == FirewallShape /\ Forwarding /\ Translating /\ Unstamped

\* A daemon that is gone has promised nothing.
LEMMA GoneIsApplied ==
    ASSUME FirewallShape', pc' = "down" PROVE Applied'
BY DEF Applied, Forwarding, Translating, Unstamped

\* A step that leaves settings, firewall and chain alone and takes the start no
\* further than its stage keeps what is applied.
LEMMA UntouchedIsApplied ==
    ASSUME Applied, firewall' = firewall, cfg' = cfg, pinning' = pinning,
           "pinning" \in refused => "pinning" \in refused',
           pc' = pc \/ pc \in {"bootstrap", "up", "replace", "tidy"}
                    \/ (pc = "policy" /\ pc' = "suppress") \/ (pc = "suppress" /\ pc' = "pin")
    PROVE  Applied'
<1>1. FirewallShape'
    BY DEF Applied, FirewallShape
<1>2. C' = C /\ NatInterfaces(C)' = NatInterfaces(C)
    BY DEF C, NatInterfaces
<1>3. Forwarding'
    BY DEF Applied, Forwarding
<1>4. Translating'
    BY <1>2 DEF Applied, Translating
<1>5. Unstamped'
    BY <1>2 DEF Applied, Unstamped
<1>6. QED
    BY <1>1, <1>3, <1>4, <1>5 DEF Applied

LEMMA AppliedStep == Applied /\ [Next]_vars => Applied'
<1> SUFFICES ASSUME Applied, [Next]_vars PROVE Applied'
    OBVIOUS
<1>1. ASSUME NEW f \in Settings, Edit(f) PROVE Applied'
    BY <1>1, GoneIsApplied DEF Edit, daemon, kernel, Applied, FirewallShape
<1>2. CASE Start
    BY <1>2 DEF Start, kernel, Applied, FirewallShape, Forwarding, Translating, Unstamped
<1>3. CASE TuneSysctl
    <2>1. CASE pc' = "down"
        BY <1>3, <2>1, GoneIsApplied DEF TuneSysctl, Refused, Applied, FirewallShape
    <2>2. CASE pc' # "down"
        <3>1. /\ firewall' = [firewall EXCEPT !.forward = TRUE]
              /\ pc' = IF C.firewall.manage THEN "nat" ELSE "policy"
              /\ cfg' = cfg
            BY <1>3, <2>2 DEF TuneSysctl, Refused, Dead
        <3>2. FirewallShape' /\ firewall'.forward = TRUE
            BY <3>1 DEF Applied, FirewallShape
        <3>3. C' = C
            BY <3>1 DEF C
        <3>4. QED
            BY <3>1, <3>2, <3>3 DEF Applied, Forwarding, Translating, Unstamped
    <2>3. QED
        BY <2>1, <2>2
<1>4. CASE ConfigureNat
    <2>1. CASE pc' = "down"
        BY <1>4, <2>1, GoneIsApplied DEF ConfigureNat, Applied, FirewallShape
    <2>2. CASE pc' # "down"
        <3>1. /\ firewall' = [firewall EXCEPT !.nat = @ \cup NatInterfaces(C), !.accept = TRUE]
              /\ pc = "nat" /\ pc' = "policy" /\ cfg' = cfg
            BY <1>4, <2>2 DEF ConfigureNat, Refused, Dead
        <3>2. /\ FirewallShape' /\ firewall'.forward = firewall.forward
              /\ firewall'.accept = TRUE /\ NatInterfaces(C) \subseteq firewall'.nat
            BY <3>1 DEF Applied, FirewallShape
        <3>3. C' = C /\ NatInterfaces(C)' = NatInterfaces(C)
            BY <3>1 DEF C, NatInterfaces
        <3>4. QED
            BY <3>1, <3>2, <3>3 DEF Applied, Forwarding, Translating, Unstamped
    <2>3. QED
        BY <2>1, <2>2
<1>5. CASE SetUpPolicyRouting
    BY <1>5, UntouchedIsApplied DEF SetUpPolicyRouting
<1>6. CASE SetUpSuppress
    BY <1>6, UntouchedIsApplied DEF SetUpSuppress
<1>7. CASE PreparePinning
    <2>1. CASE pc' = "down"
        BY <1>7, <2>1, GoneIsApplied DEF PreparePinning, Applied, FirewallShape
    <2>2. CASE pc' # "down"
        <3>1. /\ \/ C.routing.pin_connections
                 \/ pinning' = Removed(C.general.lan_interface)
                 \/ pinning'.mark = None \/ "pinning" \in refused'
              /\ pc = "pin" /\ pc' = "bootstrap" /\ cfg' = cfg /\ firewall' = firewall
            BY <1>7, <2>2 DEF PreparePinning, RemovalRefused, Refused, Dead
        <3>2. C' = C /\ NatInterfaces(C)' = NatInterfaces(C)
            BY <3>1 DEF C, NatInterfaces
        <3>3. Unstamped'
            BY <3>1, <3>2 DEF Unstamped, Removed
        <3>4. FirewallShape' /\ Forwarding' /\ Translating'
            BY <3>1, <3>2 DEF Applied, FirewallShape, Forwarding, Translating
        <3>5. QED
            BY <3>3, <3>4 DEF Applied
    <2>3. QED
        BY <2>1, <2>2
<1>8. CASE Bootstrap
    BY <1>8, UntouchedIsApplied DEF Bootstrap
<1>9. ASSUME NEW p \in ProviderSet(C), Retry(p) PROVE Applied'
    BY <1>9, UntouchedIsApplied DEF Retry
<1>10. ASSUME NEW p \in ProviderSet(C), Aim(p) PROVE Applied'
    <2>1. /\ C.routing.pin_connections \/ pinning' = pinning
          /\ pc = "up" /\ pc' = "replace" /\ cfg' = cfg /\ firewall' = firewall
        BY <1>10 DEF Aim
    <2> refused' = refused
        BY <1>10 DEF Aim
    <2>2. C' = C /\ NatInterfaces(C)' = NatInterfaces(C)
        BY <2>1 DEF C, NatInterfaces
    <2>3. QED
        BY <2>1, <2>2 DEF Applied, FirewallShape, Forwarding, Translating, Unstamped
<1>11. ASSUME NEW p \in ProviderSet(C), Replace(p) PROVE Applied'
    BY <1>11, UntouchedIsApplied DEF Replace
<1>12. CASE DropBootstrap
    BY <1>12, UntouchedIsApplied DEF DropBootstrap
<1>13. ASSUME NEW i \in Interfaces, LinkUp(i) \/ LinkDown(i) PROVE Applied'
    BY <1>13, UntouchedIsApplied DEF LinkUp, LinkDown, daemon
<1>14. CASE Kill
    BY <1>14, GoneIsApplied DEF Kill, Dead, Applied, FirewallShape
<1>15. CASE Reboot
    BY <1>15, GoneIsApplied DEF Reboot, Dead, FirewallShape
<1>16. CASE UNCHANGED vars
    BY <1>16, UntouchedIsApplied DEF vars, daemon, kernel
<1>17. QED
    BY <1>1, <1>2, <1>3, <1>4, <1>5, <1>6, <1>7, <1>8, <1>9, <1>10, <1>11, <1>12,
       <1>13, <1>14, <1>15, <1>16 DEF Next, Prepare

\* Whatever an earlier run with other settings left, whatever was refused and
\* whenever it was killed: a daemon that is up forwards, accepts and translates
\* for every uplink as its configuration says, and stamps nothing with pinning
\* off, unless this start was refused the flush of the chain (system::prepare,
\* pin::remove).
THEOREM SettingsApply == Spec => []SettingsAreApplied
<1>1. Init => Applied
    BY DEF Init, Applied, FirewallShape, Forwarding, Translating, Unstamped
<1>2. Applied => SettingsAreApplied
    <2> SUFFICES ASSUME Applied, Running PROVE SettingsAreApplied
        BY DEF SettingsAreApplied
    <2>1. /\ firewall.forward = TRUE
          /\ ~C.routing.pin_connections /\ "pinning" \notin refused => pinning.mark = None
        BY DEF Applied, Running, Forwarding, Unstamped
    <2>2. ASSUME C.firewall.manage, C.firewall.wan_interface = Unset
          PROVE  /\ firewall.accept = TRUE
                 /\ \A p \in ProviderSet(C) : p.interface \in firewall.nat
        BY <2>2 DEF Applied, Running, Translating, NatInterfaces
    <2>3. QED
        BY <2>1, <2>2 DEF SettingsAreApplied
<1>3. QED
    BY <1>1, <1>2, AppliedStep, PTL DEF Spec

-----------------------------------------------------------------------------
(***************************************************************************)
(* The last default.  Every default leads over a usable interface, so a    *)
(* reboot that takes one away takes an interface with it; and the elected  *)
(* provider's route is there when the provisional one is dropped, unless   *)
(* its link was lost in between.                                           *)
(***************************************************************************)
MemoryShape ==
    memory = [pending |-> memory.pending, owns |-> memory.owns, active |-> memory.active]

Usable == \A r \in main : r.hop.dev \in links

Aimed == pc = "replace" => target \notin memory.pending

ElectedRoute == \E p \in ProviderSet(C) : /\ p.name = memory.active
                                         /\ [kind |-> "vlb", hop |-> Hop(p)] \in main

Tidying == pc = "tidy" => /\ memory.active \notin memory.pending
                          /\ memory.active \in flapped \/ ElectedRoute

Kept == MemoryShape /\ Usable /\ Aimed /\ Tidying

\* A start and its steps before the last one elect nobody.
LEMMA StartingKeeps ==
    ASSUME Kept, MemoryShape', pc' \notin {"replace", "tidy"},
           main' = main, links' = links
    PROVE  Kept'
BY DEF Kept, Usable, Aimed, Tidying

LEMMA UntouchedKeeps ==
    ASSUME Kept, UNCHANGED <<cfg, pc, target, memory, flapped, main, links>> PROVE Kept'
<1>1. C' = C /\ (ElectedRoute' <=> ElectedRoute)
    BY DEF C, ElectedRoute
<1>2. QED
    BY <1>1 DEF Kept, MemoryShape, Usable, Aimed, Tidying

LEMMA KeptStep == Kept /\ [Next]_vars => Kept'
<1> SUFFICES ASSUME Kept, [Next]_vars PROVE Kept'
    OBVIOUS
<1>1. ASSUME NEW f \in Settings, Edit(f) PROVE Kept'
    BY <1>1, UntouchedKeeps DEF Edit, daemon, kernel, routing
<1>2. CASE Start
    <2>1. MemoryShape'
        BY <1>2 DEF Start, Kept, MemoryShape
    <2>2. QED
        BY <1>2, <2>1, StartingKeeps DEF Start, kernel, routing
<1>3. ASSUME Prepare, ~Bootstrap PROVE Kept'
    <2>1. /\ memory' = memory \/ memory' = NoMemory
             \/ \E x : memory' = [memory EXCEPT !.pending = x]
          /\ main' = main /\ links' = links
          /\ pc' \notin {"replace", "tidy"}
        <3>1. CASE TuneSysctl
            BY <3>1 DEF TuneSysctl, Refused, Dead, routing
        <3>2. CASE ConfigureNat
            BY <3>2 DEF ConfigureNat, Refused, Dead, routing
        <3>3. CASE SetUpPolicyRouting
            BY <3>3 DEF SetUpPolicyRouting
        <3>4. CASE SetUpSuppress
            BY <3>4 DEF SetUpSuppress
        <3>5. CASE PreparePinning
            BY <3>5 DEF PreparePinning, Refused, Dead, routing
        <3>6. QED
            BY <1>3, <3>1, <3>2, <3>3, <3>4, <3>5 DEF Prepare
    <2>2. MemoryShape'
        BY <2>1 DEF Kept, MemoryShape, NoMemory
    <2>3. QED
        BY <2>1, <2>2, StartingKeeps
<1>4. CASE Bootstrap
    <2>1. main' = Bootstrapped /\ links' = links /\ pc' = "up"
          /\ \E o, a : memory' = [memory EXCEPT !.owns = o, !.active = a]
        BY <1>4 DEF Bootstrap
    <2>2. MemoryShape'
        BY <2>1 DEF Kept, MemoryShape
    <2>3. Usable'
        BY <2>1 DEF Bootstrapped, Kept, Usable, Hop
    <2>4. QED
        BY <2>1, <2>2, <2>3 DEF Kept, Aimed, Tidying
<1>5. ASSUME NEW p \in ProviderSet(C), Retry(p) PROVE Kept'
    <2>0. /\ p.name \in memory.pending
          /\ UNCHANGED <<cfg, pc, target, links, main>>
          /\ \/ SetUp(p) /\ memory' = [memory EXCEPT !.pending = @ \ {p.name}]
             \/ SetUpHalf(p) /\ UNCHANGED memory
        BY <1>5 DEF Retry
    <2> SUFFICES ASSUME SetUp(p), memory' = [memory EXCEPT !.pending = @ \ {p.name}]
                 PROVE  Kept'
        BY <2>0, UntouchedKeeps DEF SetUpHalf
    <2>1. flapped' = flapped \ {p.name} /\ p.name \in memory.pending
          /\ UNCHANGED <<cfg, pc, target, links, main>>
        BY <2>0 DEF SetUp
    <2>2. /\ MemoryShape' /\ memory'.pending = memory.pending \ {p.name}
          /\ memory'.active = memory.active
        BY <2>1 DEF Kept, MemoryShape
    <2>3. C' = C
        BY <2>1 DEF C
    <2>4. ElectedRoute' <=> ElectedRoute
        BY <2>1, <2>2, <2>3 DEF ElectedRoute
    <2>5. QED
        BY <2>1, <2>2, <2>4 DEF Kept, Usable, Aimed, Tidying
<1>6. ASSUME NEW p \in ProviderSet(C), Aim(p) PROVE Kept'
    BY <1>6 DEF Aim, ProbesPass, routing, Kept, MemoryShape, Usable, Aimed, Tidying
<1>7. ASSUME NEW p \in ProviderSet(C), Replace(p) PROVE Kept'
    <2>1. /\ pc = "replace" /\ p.name = target /\ links' = links /\ cfg' = cfg
          /\ p.name \notin memory.pending
        BY <1>7 DEF Replace, Kept, Aimed
    <2>2. CASE p.interface \in links
        <3>1. /\ main' = (main \ Defaults0("vlb")) \cup {[kind |-> "vlb", hop |-> Hop(p)]}
              /\ memory' = [memory EXCEPT !.active = p.name]
              /\ pc' = "tidy"
            BY <1>7, <2>2 DEF Replace
        <3>2. /\ MemoryShape' /\ memory'.active = p.name
              /\ memory'.pending = memory.pending
            BY <3>1 DEF Kept, MemoryShape
        <3>3. Usable'
            BY <2>1, <2>2, <3>1 DEF Kept, Usable, Hop
        <3>4. ElectedRoute'
            BY <2>1, <3>1, <3>2 DEF ElectedRoute, C
        <3>5. QED
            BY <2>1, <3>1, <3>2, <3>3, <3>4 DEF Kept, Aimed, Tidying
    <2>3. CASE p.interface \notin links
        BY <1>7, <2>1, <2>3 DEF Replace, Kept, MemoryShape, Usable, Aimed, Tidying
    <2>4. QED
        BY <2>2, <2>3
<1>8. CASE DropBootstrap
    <2>1. /\ main' \subseteq main /\ links' = links /\ pc' = "up"
          /\ memory' = [memory EXCEPT !.owns = FALSE]
        BY <1>8 DEF DropBootstrap
    <2>2. QED
        BY <2>1 DEF Kept, MemoryShape, Usable, Aimed, Tidying
<1>9. ASSUME NEW i \in Interfaces, LinkUp(i) PROVE Kept'
    <2>1. /\ links' = links \cup {i}
          /\ main' = main \/ main' = main \cup {[kind |-> "other", hop |-> [via |-> "dhcp", dev |-> i]]}
          /\ UNCHANGED <<cfg, pc, target, memory, flapped>>
        BY <1>9 DEF LinkUp, daemon
    <2>2. Usable'
        BY <2>1 DEF Kept, Usable
    <2>3. C' = C /\ (ElectedRoute => ElectedRoute')
        BY <2>1 DEF ElectedRoute, C
    <2>4. QED
        BY <2>1, <2>2, <2>3 DEF Kept, MemoryShape, Aimed, Tidying
<1>10. ASSUME NEW i \in Interfaces, LinkDown(i) PROVE Kept'
    <2>1. /\ links' = links \ {i}
          /\ flapped' = IF pc = "down" THEN {}
                        ELSE flapped \cup {p.name : p \in {q \in ProviderSet(C) : q.interface = i}}
          /\ main' = {r \in main : r.hop.dev # i}
          /\ UNCHANGED <<cfg, pc, target, memory>>
        BY <1>10 DEF LinkDown, daemon
    <2>2. Usable'
        BY <2>1 DEF Kept, Usable
    <2>3. C' = C
        BY <2>1 DEF C
    <2>4. ASSUME pc = "tidy", ElectedRoute PROVE memory.active \in flapped' \/ ElectedRoute'
        <3>1. PICK p \in ProviderSet(C) : /\ p.name = memory.active
                                          /\ [kind |-> "vlb", hop |-> Hop(p)] \in main
            BY <2>4 DEF ElectedRoute
        <3>2. CASE p.interface = i
            BY <2>1, <2>4, <3>1, <3>2
        <3>3. CASE p.interface # i
            <4>1. [kind |-> "vlb", hop |-> Hop(p)] \in main'
                BY <2>1, <3>1, <3>3 DEF Hop
            <4>2. QED
                BY <2>1, <2>3, <3>1, <4>1 DEF ElectedRoute
        <3>4. QED
            BY <3>2, <3>3
    <2>5. pc = "tidy" => flapped \subseteq flapped'
        BY <2>1
    <2>6. QED
        BY <2>1, <2>2, <2>4, <2>5 DEF Kept, MemoryShape, Aimed, Tidying
<1>11. CASE Kill
    BY <1>11, StartingKeeps DEF Kill, Dead, routing, MemoryShape, NoMemory
<1>12. CASE Reboot
    BY <1>12 DEF Reboot, Dead, NoMemory, Kept, MemoryShape, Usable, Aimed, Tidying
<1>13. CASE UNCHANGED vars
    BY <1>13, UntouchedKeeps DEF vars, daemon, kernel, routing
<1>14. QED
    BY <1>1, <1>2, <1>3, <1>4, <1>5, <1>6, <1>7, <1>8, <1>9, <1>10, <1>11, <1>12,
       <1>13 DEF Next

\* The one step of the daemon that only removes routes finds the elected one.
LEMMA StepLeavesDefault ==
    ASSUME Kept, Next, main # {}, main' = {}
    PROVE  links' # links \/ memory.active \in flapped
<1>1. CASE \E f \in Settings : Edit(f)
    BY <1>1 DEF Edit, kernel, routing
<1>2. CASE Start
    BY <1>2 DEF Start, kernel, routing
<1>3. CASE Prepare
    <2>1. CASE Bootstrap
        BY <2>1 DEF Bootstrap, Bootstrapped
    <2>2. CASE ~Bootstrap
        BY <1>3, <2>2 DEF Prepare, TuneSysctl, ConfigureNat, SetUpPolicyRouting,
           SetUpSuppress, PreparePinning, Refused, routing
    <2>3. QED
        BY <2>1, <2>2
<1>4. ASSUME NEW p \in ProviderSet(C), Retry(p) \/ Aim(p) \/ Replace(p) PROVE FALSE
    BY <1>4 DEF Retry, Aim, Replace, routing
<1>5. CASE DropBootstrap
    <2>1. /\ pc = "tidy"
          /\ main' = IF memory.owns THEN main \ Defaults0("bootstrap") ELSE main
        BY <1>5 DEF DropBootstrap
    <2>2. ASSUME NEW r \in main, r.kind = "vlb" PROVE FALSE
        BY <2>1, <2>2 DEF Defaults0
    <2>3. QED
        BY <2>1, <2>2 DEF Kept, Tidying, ElectedRoute
<1>6. ASSUME NEW i \in Interfaces, LinkUp(i) \/ LinkDown(i) PROVE links' # links
    BY <1>6 DEF LinkUp, LinkDown
<1>7. CASE Kill
    BY <1>7 DEF Kill, routing
<1>8. CASE Reboot
    BY <1>8 DEF Reboot, Kept, Usable
<1>9. QED
    BY <1>1, <1>2, <1>3, <1>4, <1>5, <1>6, <1>7, <1>8 DEF Next

\* Replies to the probes need a default route (system::ensure_bootstrap_default):
\* from a start with none to an election, through kills between any two of its
\* commands, the daemon takes away no default before another one is there.
THEOREM LastDefaultStays == Spec => NeverWithoutDefault
<1>1. Init => Kept
    BY DEF Init, NoMemory, Kept, MemoryShape, Usable, Aimed, Tidying
<1>2. Kept /\ [Next]_vars
      => [main # {} /\ main' = {} => links' # links \/ memory.active \in flapped]_vars
    BY StepLeavesDefault
<1>3. QED
    BY <1>1, <1>2, KeptStep, PTL DEF Spec, NeverWithoutDefault

-----------------------------------------------------------------------------
(***************************************************************************)
(* `ip rule`.  Whatever is deleted and added, the rules stay in the order  *)
(* of their preference and each is there once.                             *)
(***************************************************************************)

\* A set of numbers has a least one.
LEMMA LeastNumber ==
    ASSUME NEW N \in SUBSET Nat, N # {}
    PROVE  \E n \in N : \A m \in N : n <= m
<1>1. IsWellFoundedOn(OpToRel(<, Nat), Nat)
    BY NatLessThanWellFounded
<1> DEFINE less == OpToRel(<, Nat)
<1>2. \A m, n \in Nat : m < n => <<m, n>> \in less
    BY DEF OpToRel
<1> HIDE DEF less
<1>3. PICK n \in N : \A m \in N : ~(<<m, n>> \in less)
    <2>1. N \subseteq Nat /\ IsWellFoundedOn(less, Nat)
        BY <1>1 DEF less
    <2>2. QED
        BY ONLY <2>1, N # {}, WFMin
<1>4. ASSUME NEW m \in N PROVE n <= m
    <2>1. m \in Nat /\ n \in Nat
        OBVIOUS
    <2>2. ~(m < n)
        BY <1>2, <1>3, <2>1, Zenon
    <2>3. QED
        BY <2>1, <2>2
<1>5. QED
    BY <1>4

\* How many positions of P are not past i.
Rank(P, i) == Cardinality({j \in P : j <= i})

LEMMA RankGrows ==
    ASSUME NEW n \in Nat, NEW P \in SUBSET (1..n), NEW i \in 1..n
    PROVE  /\ Rank(P, i - 1) \in Nat
           /\ Rank(P, i) = IF i \in P THEN Rank(P, i - 1) + 1 ELSE Rank(P, i - 1)
<1> DEFINE before == {j \in P : j <= i - 1}
           upto == {j \in P : j <= i}
<1>1. IsFiniteSet(1..n)
    BY FS_Interval
<1>2. IsFiniteSet(before)
    BY <1>1, FS_Subset
<1>3. Cardinality(before) \in Nat
    BY <1>2, FS_CardinalityType
<1>a. \A j \in P : j \in Int /\ (j <= i <=> j <= i - 1 \/ j = i)
    OBVIOUS
<1>4. CASE i \in P
    <2>1. upto = before \cup {i}
        BY <1>a, <1>4, Zenon
    <2>2. i \notin before
        OBVIOUS
    <2> HIDE DEF upto, before
    <2>3. Cardinality(upto) = Cardinality(before) + 1
        BY <1>2, <2>1, <2>2, FS_AddElement
    <2>4. QED
        BY <1>3, <1>4, <2>3 DEF Rank, upto, before
<1>5. CASE i \notin P
    <2>1. upto = before
        BY <1>a, <1>5, Zenon
    <2>2. QED
        BY <1>3, <1>5, <2>1 DEF Rank
<1>6. QED
    BY <1>4, <1>5

LEMMA RankIsMonotone ==
    ASSUME NEW n \in Nat, NEW P \in SUBSET (1..n), NEW i \in P, NEW j \in P, i < j
    PROVE  Rank(P, i) < Rank(P, j)
<1> DEFINE upto == {k \in P : k <= i}
           further == {k \in P : k <= j}
<1>1. IsFiniteSet(1..n) /\ i \in 1..n /\ j \in 1..n
    BY FS_Interval
<1>2. IsFiniteSet(upto) /\ IsFiniteSet(further)
    BY <1>1, FS_Subset
<1>3. upto \in SUBSET further /\ upto # further
    <2>1. j \in further /\ j \notin upto
        BY <1>1
    <2>2. \A k \in upto : k \in further
        BY <1>1
    <2>3. QED
        BY <2>1, <2>2
<1> HIDE DEF upto, further
<1>4. /\ Cardinality(upto) <= Cardinality(further)
      /\ Cardinality(further) # Cardinality(upto)
    BY <1>2, <1>3, FS_Subset
<1>5. Cardinality(upto) \in Nat /\ Cardinality(further) \in Nat
    BY <1>2, FS_CardinalityType
<1>6. QED
    BY <1>4, <1>5 DEF Rank, upto, further

\* Every rank up to the number of positions is taken.
LEMMA RankIsTaken ==
    ASSUME NEW n \in Nat, NEW P \in SUBSET (1..n), NEW r \in 1..Cardinality(P)
    PROVE  \E i \in P : Rank(P, i) = r
<1> DEFINE enough == {i \in 0..n : Rank(P, i) >= r}
<1>1. IsFiniteSet(1..n)
    BY FS_Interval
<1>2. Cardinality(P) \in Nat
    BY <1>1, FS_Subset, FS_CardinalityType
<1>3. n \in enough
    <2>0. \A j \in P : j <= n
        OBVIOUS
    <2>1. {j \in P : j <= n} = P
        BY <2>0, Zenon
    <2>2. Rank(P, n) = Cardinality(P)
        BY <2>1 DEF Rank
    <2>3. QED
        BY <1>2, <2>2
<1>4. enough \in SUBSET Nat
    OBVIOUS
<1>5. PICK i \in enough : \A m \in enough : i <= m
    BY <1>3, <1>4, LeastNumber
<1>6. i \in 0..n /\ Rank(P, i) >= r
    OBVIOUS
<1>7. i # 0
    <2>0. \A j \in P : ~(j <= 0)
        OBVIOUS
    <2>1. {j \in P : j <= 0} = {}
        BY <2>0, Zenon
    <2>2. Rank(P, 0) = 0
        BY <2>1, FS_EmptySet DEF Rank
    <2>3. QED
        BY <1>2, <1>6, <2>2
<1>8. i \in 1..n /\ i - 1 \in 0..n /\ ~(i <= i - 1)
    BY <1>6, <1>7
<1>9. ~(Rank(P, i - 1) >= r)
    BY <1>5, <1>8
<1> HIDE DEF enough
<1>10. /\ Rank(P, i - 1) \in Nat
       /\ Rank(P, i) = IF i \in P THEN Rank(P, i - 1) + 1 ELSE Rank(P, i - 1)
    BY <1>8, RankGrows
<1>11. i \in P /\ Rank(P, i) = r
    BY <1>2, <1>6, <1>9, <1>10
<1>12. QED
    BY <1>11

\* Sifting keeps what is at the positions, all of it, in its order.
LEMMA SiftKeepsOrder ==
    ASSUME NEW S, NEW rs \in Seq(S), NEW P \in SUBSET (DOMAIN rs)
    PROVE  \E at \in [1..Cardinality(P) -> P] :
               /\ Cardinality(P) \in Nat
               /\ Sift(rs, P) = [n \in 1..Cardinality(P) |-> rs[at[n]]]
               /\ \A m, n \in 1..Cardinality(P) : m < n => at[m] < at[n]
               /\ \A i \in P : \E n \in 1..Cardinality(P) : at[n] = i
<1> DEFINE len == Len(rs)
           k == Cardinality(P)
           nth(n) == CHOOSE i \in P : Rank(P, i) = n
           at == [n \in 1..k |-> nth(n)]
<1>1. len \in Nat /\ DOMAIN rs = 1..len /\ P \in SUBSET (1..len)
    OBVIOUS
<1>2. IsFiniteSet(P) /\ k \in Nat
    <2>1. IsFiniteSet(1..len)
        BY <1>1, FS_Interval
    <2>2. QED
        BY <1>1, <2>1, FS_Subset, FS_CardinalityType
<1>3. \A n \in 1..k : nth(n) \in P /\ Rank(P, nth(n)) = n
    <2> TAKE n \in 1..k
    <2>1. \E i \in P : Rank(P, i) = n
        BY <1>1, RankIsTaken
    <2>2. QED
        BY <2>1
<1>4. Sift(rs, P) = [n \in 1..k |-> rs[at[n]]]
    BY DEF Sift, Rank
<1> HIDE DEF nth
<1>5. at \in [1..k -> P]
    BY <1>3
<1>6. \A n \in 1..k : at[n] \in P /\ Rank(P, at[n]) = n
    BY <1>3
<1> HIDE DEF at
<1>7. ASSUME NEW m \in 1..k, NEW n \in 1..k, m < n PROVE at[m] < at[n]
    <2>1. at[m] \in 1..len /\ at[n] \in 1..len
        BY <1>1, <1>6
    <2>2. CASE at[m] = at[n]
        BY <1>6, <1>7, <2>2
    <2>3. CASE at[n] < at[m]
        <3>1. Rank(P, at[n]) < Rank(P, at[m])
            BY <1>1, <1>6, <2>3, RankIsMonotone
        <3>2. QED
            BY <1>2, <1>6, <1>7, <3>1
    <2>4. QED
        BY <2>1, <2>2, <2>3
<1>8. ASSUME NEW i \in P PROVE \E n \in 1..k : at[n] = i
    <2>1. Rank(P, i) \in 1..k
        <3>1. {j \in P : j <= i} \in SUBSET P /\ i \in {j \in P : j <= i}
            BY <1>1
        <3>2. /\ IsFiniteSet({j \in P : j <= i})
              /\ Cardinality({j \in P : j <= i}) <= k
            BY <1>2, <3>1, FS_Subset
        <3>3. Cardinality({j \in P : j <= i}) # 0
            BY <3>1, <3>2, FS_EmptySet
        <3>4. Cardinality({j \in P : j <= i}) \in Nat
            BY <3>2, FS_CardinalityType
        <3>5. QED
            BY <1>2, <3>2, <3>3, <3>4 DEF Rank
    <2> DEFINE n == Rank(P, i)
    <2>2. at[n] \in P /\ Rank(P, at[n]) = n
        BY <1>6, <2>1
    <2>3. ~(at[n] < i) /\ ~(i < at[n])
        <3>1. n \in Nat
            BY <1>2, <2>1
        <3> DEFINE a == at[n]
        <3>2. a \in P /\ Rank(P, a) = Rank(P, i) /\ Rank(P, i) \in Nat
            BY <2>2, <3>1
        <3> HIDE DEF a, n
        <3>3. ASSUME a < i PROVE FALSE
            <4>1. Rank(P, a) < Rank(P, i)
                BY <1>1, <3>2, <3>3, RankIsMonotone
            <4>2. QED
                BY ONLY <3>2, <4>1
        <3>5. ASSUME i < a PROVE FALSE
            <4>1. Rank(P, i) < Rank(P, a)
                BY <1>1, <3>2, <3>5, RankIsMonotone
            <4>2. QED
                BY ONLY <3>2, <4>1
        <3>4. QED
            BY <3>3, <3>5 DEF a
    <2>4. at[n] = i
        BY <1>1, <2>2, <2>3
    <2>5. QED
        BY <2>1, <2>4
<1>9. QED
    BY <1>2, <1>4, <1>5, <1>7, <1>8

InOrder(rs) ==
    \A i, j \in DOMAIN rs : i < j => rs[i] # rs[j] /\ rs[i].pref <= rs[j].pref

Listed(rs) == {rs[i] : i \in DOMAIN rs}

LEMMA SiftInOrder ==
    ASSUME NEW S, NEW rs \in Seq(S), InOrder(rs), NEW P \in SUBSET (DOMAIN rs)
    PROVE  /\ Sift(rs, P) \in Seq(S) /\ InOrder(Sift(rs, P))
           /\ Listed(Sift(rs, P)) = {rs[i] : i \in P}
<1> DEFINE k == Cardinality(P)
<1>1. PICK at \in [1..k -> P] :
          /\ k \in Nat
          /\ Sift(rs, P) = [n \in 1..k |-> rs[at[n]]]
          /\ \A m, n \in 1..k : m < n => at[m] < at[n]
          /\ \A i \in P : \E n \in 1..k : at[n] = i
    BY SiftKeepsOrder
<1>2. \A n \in 1..k : at[n] \in P /\ at[n] \in DOMAIN rs /\ rs[at[n]] \in S
    OBVIOUS
<1> HIDE DEF k
<1> DEFINE out == [n \in 1..k |-> rs[at[n]]]
<1>3. out \in Seq(S) /\ DOMAIN out = 1..k
    BY <1>1, <1>2
<1>4. \A n \in 1..k : out[n] = rs[at[n]]
    OBVIOUS
<1> HIDE DEF out
<1>5. InOrder(out)
    <2> SUFFICES ASSUME NEW m \in 1..k, NEW n \in 1..k, m < n
                 PROVE  out[m] # out[n] /\ out[m].pref <= out[n].pref
        BY <1>3 DEF InOrder
    <2>1. at[m] \in DOMAIN rs /\ at[n] \in DOMAIN rs /\ at[m] < at[n]
        BY <1>1, <1>2
    <2>2. QED
        BY <1>4, <2>1 DEF InOrder
<1>6. Listed(out) = {rs[i] : i \in P}
    <2>1. ASSUME NEW n \in 1..k PROVE out[n] \in {rs[i] : i \in P}
        BY <1>2, <1>4
    <2>2. ASSUME NEW i \in P PROVE \E n \in 1..k : out[n] = rs[i]
        BY <1>1, <1>4
    <2>3. QED
        BY <1>3, <2>1, <2>2, Zenon DEF Listed
<1>7. QED
    BY <1>1, <1>3, <1>5, <1>6 DEF out

LEMMA ConcatInOrder ==
    ASSUME NEW S, NEW a \in Seq(S), NEW b \in Seq(S), InOrder(a), InOrder(b),
           \A r \in Listed(a), s \in Listed(b) : r # s /\ r.pref <= s.pref
    PROVE  /\ a \o b \in Seq(S) /\ InOrder(a \o b)
           /\ Listed(a \o b) = Listed(a) \cup Listed(b)
<1> DEFINE k == Len(a)
           l == Len(b)
           ab == a \o b
<1>1. /\ k \in Nat /\ l \in Nat /\ DOMAIN a = 1..k /\ DOMAIN b = 1..l
      /\ ab \in Seq(S) /\ DOMAIN ab = 1..(k + l)
    OBVIOUS
<1>2. \A n \in 1..(k + l) : ab[n] = IF n <= k THEN a[n] ELSE b[n - k]
    OBVIOUS
<1> HIDE DEF k, l, ab
<1>3. ASSUME NEW m \in 1..(k + l), NEW n \in 1..(k + l), m < n
      PROVE  ab[m] # ab[n] /\ ab[m].pref <= ab[n].pref
    <2>1. CASE n <= k
        <3>1. m \in 1..k /\ n \in 1..k /\ ab[m] = a[m] /\ ab[n] = a[n]
            BY <1>1, <1>2, <1>3, <2>1
        <3>2. QED
            BY <1>1, <1>3, <3>1 DEF InOrder
    <2>2. CASE m <= k /\ ~(n <= k)
        <3>1. m \in 1..k /\ n - k \in 1..l /\ ab[m] = a[m] /\ ab[n] = b[n - k]
            BY <1>1, <1>2, <2>2
        <3>2. a[m] \in Listed(a) /\ b[n - k] \in Listed(b)
            BY <1>1, <3>1 DEF Listed
        <3>3. QED
            BY <3>1, <3>2
    <2>3. CASE ~(m <= k)
        <3>0. m \in Int /\ n \in Int /\ k \in Int /\ l \in Int /\ ~(n <= k)
            BY <1>1, <1>3, <2>3
        <3>1. m - k \in 1..l /\ n - k \in 1..l /\ m - k < n - k
            BY <1>3, <2>3, <3>0
        <3>2. ab[m] = b[m - k] /\ ab[n] = b[n - k]
            BY <1>2, <2>3, <3>0
        <3>3. QED
            BY <1>1, <3>1, <3>2 DEF InOrder
    <2>4. QED
        BY <1>1, <2>1, <2>2, <2>3
<1>4. ASSUME NEW n \in 1..(k + l) PROVE ab[n] \in Listed(a) \cup Listed(b)
    <2>1. CASE n <= k
        <3>1. n \in 1..k /\ ab[n] = a[n]
            BY <1>1, <1>2, <2>1
        <3>2. QED
            BY <1>1, <3>1 DEF Listed
    <2>2. CASE ~(n <= k)
        <3>1. n - k \in 1..l /\ ab[n] = b[n - k]
            BY <1>1, <1>2, <2>2
        <3>2. QED
            BY <1>1, <3>1 DEF Listed
    <2>3. QED
        BY <2>1, <2>2
<1>5. ASSUME NEW n \in 1..k PROVE a[n] \in Listed(ab)
    <2>1. n \in 1..(k + l) /\ ab[n] = a[n]
        BY <1>1, <1>2
    <2>2. QED
        BY <1>1, <2>1 DEF Listed
<1>6. ASSUME NEW n \in 1..l PROVE b[n] \in Listed(ab)
    <2>1. n + k \in 1..(k + l) /\ ab[n + k] = b[n]
        BY <1>1, <1>2
    <2>2. QED
        BY <1>1, <2>1 DEF Listed
<1>7. InOrder(ab)
    BY <1>1, <1>3 DEF InOrder
<1>8. Listed(ab) = Listed(a) \cup Listed(b)
    BY <1>1, <1>4, <1>5, <1>6, Zenon DEF Listed
<1>9. QED
    BY <1>1, <1>7, <1>8 DEF ab

\* `ip rule del` until it is gone.
LEMMA DrainedInOrder ==
    ASSUME NEW S, NEW rs \in Seq(S), InOrder(rs), NEW rule
    PROVE  /\ Drained(rs, rule) \in Seq(S) /\ InOrder(Drained(rs, rule))
           /\ Listed(Drained(rs, rule)) = Listed(rs) \ {rule}
<1> DEFINE ds == Drained(rs, rule)
           P == {i \in DOMAIN rs : rs[i] # rule}
<1>1. ds = Sift(rs, P) /\ P \in SUBSET (DOMAIN rs)
    BY DEF Drained
<1>2. ds \in Seq(S) /\ InOrder(ds) /\ Listed(ds) = {rs[i] : i \in P}
    BY ONLY <1>1, SiftInOrder, rs \in Seq(S), InOrder(rs)
<1>3. Listed(ds) = Listed(rs) \ {rule}
    BY <1>2, Zenon DEF Listed
<1>4. QED
    BY <1>2, <1>3

\* `ip rule del` until it is gone, `ip rule add` once
\* (system::setup_provider_policy_route): the rule is there, once, in its place,
\* and nothing else changed.
LEMMA RefreshedInOrder ==
    ASSUME NEW S, \A r \in S : r.pref \in Int,
           NEW rs \in Seq(S), InOrder(rs), NEW rule \in S
    PROVE  /\ Refreshed(rs, rule) \in Seq(S) /\ InOrder(Refreshed(rs, rule))
           /\ Listed(Refreshed(rs, rule)) = Listed(rs) \cup {rule}
<1> DEFINE ds == Drained(rs, rule)
<1>2. ds \in Seq(S) /\ InOrder(ds)
    BY ONLY rs \in Seq(S), InOrder(rs), DrainedInOrder
<1>3. Listed(ds) = Listed(rs) \ {rule}
    BY ONLY rs \in Seq(S), InOrder(rs), DrainedInOrder
<1> HIDE DEF ds
<1> DEFINE E == {i \in DOMAIN ds : ds[i].pref <= rule.pref}
           F == DOMAIN ds \ E
           a == Sift(ds, E)
           b == Sift(ds, F)
<1>4. E \in SUBSET (DOMAIN ds) /\ F \in SUBSET (DOMAIN ds)
    OBVIOUS
<1>5. \A i \in DOMAIN ds : ds[i] \in S /\ ds[i].pref \in Int /\ ds[i] # rule
    <2>1. \A i \in DOMAIN ds : ds[i] \in S
        BY <1>2
    <2>2. \A i \in DOMAIN ds : ds[i] \in Listed(ds)
        BY DEF Listed
    <2>3. QED
        BY <1>3, <2>1, <2>2
<1>6. \A i \in E : ds[i].pref <= rule.pref
    OBVIOUS
<1>7. \A i \in F : rule.pref < ds[i].pref
    BY <1>5
<1>8. Refreshed(rs, rule) = (a \o <<rule>>) \o b
    BY DEF Refreshed, Added, ds
<1>9. a \in Seq(S) /\ InOrder(a) /\ Listed(a) = {ds[i] : i \in E}
    BY ONLY <1>2, <1>4, SiftInOrder
<1>10. b \in Seq(S) /\ InOrder(b) /\ Listed(b) = {ds[i] : i \in F}
    <2> HIDE DEF F
    <2>1. QED
        BY ONLY <1>2, <1>4, SiftInOrder
<1> HIDE DEF a, b
<1>11. /\ \A r \in Listed(a) : r # rule /\ r.pref \in Int /\ r.pref <= rule.pref
       /\ \A r \in Listed(b) : r # rule /\ r.pref \in Int /\ rule.pref < r.pref
       /\ Listed(a) \cup Listed(b) = Listed(ds)
    <2>1. \A r \in Listed(a) : r # rule /\ r.pref \in Int /\ r.pref <= rule.pref
        BY <1>4, <1>5, <1>6, <1>9
    <2>2. \A r \in Listed(b) : r # rule /\ r.pref \in Int /\ rule.pref < r.pref
        BY <1>4, <1>5, <1>7, <1>10
    <2>3. Listed(a) \cup Listed(b) = Listed(ds)
        BY <1>9, <1>10 DEF Listed
    <2>4. QED
        BY <2>1, <2>2, <2>3
<1> HIDE DEF E, F
<1> DEFINE one == <<rule>>
<1>12. one \in Seq(S) /\ InOrder(one) /\ Listed(one) = {rule}
    <2>1. one \in Seq(S) /\ DOMAIN one = 1..1 /\ one[1] = rule
        OBVIOUS
    <2>2. QED
        BY <2>1 DEF InOrder, Listed
<1> HIDE DEF one
<1>13. /\ a \o one \in Seq(S) /\ InOrder(a \o one)
       /\ Listed(a \o one) = Listed(a) \cup {rule}
    <2>1. \A r \in Listed(a), s \in Listed(one) : r # s /\ r.pref <= s.pref
        BY <1>11, <1>12
    <2>2. QED
        BY ONLY <1>9, <1>12, <2>1, ConcatInOrder
<1> DEFINE front == a \o one
<1>14. front \in Seq(S) /\ InOrder(front) /\ Listed(front) = Listed(a) \cup {rule}
    BY <1>13
<1> HIDE DEF front
<1>15. \A r \in Listed(front), s \in Listed(b) : r # s /\ r.pref <= s.pref
    <2> SUFFICES ASSUME NEW r \in Listed(front), NEW s \in Listed(b)
                 PROVE  r # s /\ r.pref <= s.pref
        OBVIOUS
    <2>1. r.pref \in Int /\ r.pref <= rule.pref /\ rule.pref \in Int
        BY <1>11, <1>14
    <2>2. s.pref \in Int /\ rule.pref < s.pref
        BY <1>11
    <2>3. QED
        BY <2>1, <2>2
<1>16. /\ front \o b \in Seq(S) /\ InOrder(front \o b)
       /\ Listed(front \o b) = Listed(front) \cup Listed(b)
    BY ONLY <1>10, <1>14, <1>15, ConcatInOrder
<1>17. Listed(front) \cup Listed(b) = Listed(rs) \cup {rule}
    BY <1>3, <1>11, <1>14
<1>18. QED
    BY <1>8, <1>16, <1>17 DEF front, one

-----------------------------------------------------------------------------
(***************************************************************************)
(* Types.  The daemon runs with settings that were accepted, and whatever  *)
(* it finds in the kernel some accepted settings put there.                *)
(***************************************************************************)
Started == {s \in Settings : Accepted(Setting[s])}

RuleOf(c, p) ==
    [pref |-> RulePrefFor(c, p), mark |-> MarkFor(c, p), mask |-> c.routing.fwmark_mask,
     table |-> TableFor(c, p)]

SuppressOf(c) == [pref |-> SuppressPref(c), mark |-> 0, mask |-> 0, table |-> MainTable]

Known ==
    {SuppressOf(Setting[s]) : s \in Started}
    \cup UNION {{RuleOf(Setting[s], p) : p \in ProviderSet(Setting[s])} : s \in Started}

Position ==
    /\ file \in Settings /\ cfg \in Started \cup {None}
    /\ pc \in {"down", "sysctl", "nat", "policy", "suppress", "pin", "bootstrap",
               "up", "replace", "tidy"}
    /\ cfg = None <=> pc = "down"
    /\ IF pc = "policy" THEN next \in 1..Len(C.providers) ELSE next = 1

RulesOK == rules \in Seq(Known) /\ InOrder(rules)

\* What is true of every provider of an accepted configuration.
LEMMA AcceptedProviders ==
    ASSUME NEW s \in Started, NEW p \in ProviderSet(Setting[s])
    PROVE  /\ p.name \in Names /\ p.name # None
           /\ p.interface \in Interfaces
           /\ Hop(p) \in Hops /\ Hop(p) # None
           /\ TableFor(Setting[s], p) \in U32 /\ MarkFor(Setting[s], p) \in U32
           /\ RuleOf(Setting[s], p) \in Known
<1>1. s \in Settings /\ Accepted(Setting[s]) /\ Typed(Setting[s])
    BY SettingAssumption DEF Started
<1>2. p.name \in Names /\ p.interface \in Interfaces
    BY <1>1 DEF Names, Interfaces
<1>3. p.name # None /\ Hop(p) # None
    BY <1>1, SettingAssumption DEF Hop
<1>4. Hop(p) \in Hops
    <2>1. p \in UNION {ProviderSet(Setting[t]) : t \in Settings}
        BY <1>1
    <2>2. QED
        BY <1>2, <2>1 DEF Hop, Hops
<1>5. TableFor(Setting[s], p) \in U32 /\ MarkFor(Setting[s], p) \in U32
    <2> DEFINE c == Setting[s]
    <2>1. /\ p.priority \in Nat /\ c.routing.table_base \in Nat
          /\ c.routing.fwmark_base \in Nat
          /\ TableFor(c, p) = c.routing.table_base + p.priority
          /\ MarkFor(c, p) = c.routing.fwmark_base + p.priority
        BY <1>1, PlainNumbers
    <2>2. c.routing.table_base + p.priority < U32Max
        BY <1>1 DEF Accepted, TablesAccepted
    <2>3. c.routing.fwmark_base + p.priority <= U32Max
        BY <1>1 DEF Accepted, MarksAccepted
    <2>4. QED
        BY <2>1, <2>2, <2>3, WidthAssumption DEF U32
<1>6. RuleOf(Setting[s], p) \in Known
    BY DEF Known
<1>7. QED
    BY <1>2, <1>3, <1>4, <1>5, <1>6

LEMMA KnownPreferences == \A r \in Known : r.pref \in Int
<1>1. ASSUME NEW s \in Started PROVE SuppressOf(Setting[s]).pref \in Int
    <2>1. Setting[s].routing.rule_pref \in Int
        BY SettingAssumption DEF Started, Typed, U32
    <2>2. QED
        BY <2>1 DEF SuppressOf, SuppressPref
<1>2. ASSUME NEW s \in Started, NEW p \in ProviderSet(Setting[s])
      PROVE  RuleOf(Setting[s], p).pref \in Int
    <2>1. /\ p.priority \in Nat /\ Setting[s].routing.rule_pref \in Nat
          /\ RulePrefFor(Setting[s], p) = Setting[s].routing.rule_pref + p.priority
        BY PlainNumbers, SettingAssumption DEF Started
    <2>2. QED
        BY <2>1 DEF RuleOf
<1>3. QED
    BY <1>1, <1>2 DEF Known

LEMMA ListOfProviders ==
    ASSUME NEW s \in Started
    PROVE  /\ Len(Setting[s].providers) \in Nat \ {0}
           /\ \A n \in 1..Len(Setting[s].providers) :
                 Setting[s].providers[n] \in ProviderSet(Setting[s])
           /\ \A p \in ProviderSet(Setting[s]) :
                 \E n \in 1..Len(Setting[s].providers) : Setting[s].providers[n] = p
<1> DEFINE c == Setting[s]
<1>1. c.providers \in Seq(ProviderSet(c)) /\ c.providers # <<>>
    BY SettingAssumption DEF Started, Typed, Accepted, ProvidersAccepted
<1>2. DOMAIN c.providers = 1..Len(c.providers) /\ Len(c.providers) \in Nat \ {0}
    BY <1>1
<1>3. QED
    BY <1>2 DEF ProviderSet

LEMMA PositionStep == Position /\ [Next]_vars => Position'
<1> SUFFICES ASSUME Position, [Next]_vars PROVE Position'
    OBVIOUS
<1> USE SettingAssumption
<1>1. ASSUME NEW f \in Settings, Edit(f) PROVE Position'
    BY <1>1 DEF Edit, daemon, Position, C
<1>2. CASE Start
    BY <1>2 DEF Start, Position, Started
<1>3. ASSUME Dead, file' = file PROVE Position'
    BY <1>3 DEF Dead, Position
<1>4. ASSUME pc # "down", pc' # "down", pc' # "policy", pc # "policy",
             pc' \in {"nat", "suppress", "pin", "bootstrap", "up", "replace", "tidy"},
             UNCHANGED <<file, cfg, next>>
      PROVE  Position'
    BY <1>4 DEF Position
<1>5. CASE TuneSysctl \/ ConfigureNat
    <2>1. CASE Dead
        BY <1>3, <1>5, <2>1 DEF TuneSysctl, ConfigureNat, Refused
    <2>2. CASE ~Dead
        <3>1. /\ UNCHANGED <<file, cfg, next>> /\ pc \in {"sysctl", "nat"}
              /\ pc' \in {"nat", "policy"}
            BY <1>5, <2>2 DEF TuneSysctl, ConfigureNat, Refused
        <3>2. cfg \in Started
            BY <3>1 DEF Position
        <3>3. 1 \in 1..Len(C.providers)
            BY <3>2, ListOfProviders DEF C
        <3>4. QED
            BY <3>1, <3>2, <3>3 DEF Position, C
    <2>3. QED
        BY <2>1, <2>2
<1>6. CASE SetUpPolicyRouting
    <2>1. /\ pc = "policy" /\ UNCHANGED <<file, cfg>>
          /\ IF next < Len(C.providers) THEN next' = next + 1 /\ UNCHANGED pc
             ELSE next' = 1 /\ pc' = "suppress"
        BY <1>6 DEF SetUpPolicyRouting
    <2>2. cfg \in Started /\ next \in 1..Len(C.providers)
        BY <2>1 DEF Position
    <2>3. Len(C.providers) \in Nat
        BY <2>2, ListOfProviders DEF C
    <2>4. C' = C
        BY <2>1 DEF C
    <2>5. next < Len(C.providers) => next + 1 \in 1..Len(C.providers)
        BY <2>2, <2>3
    <2>6. QED
        BY <2>1, <2>2, <2>4, <2>5 DEF Position
<1>7. CASE SetUpSuppress
    BY <1>4, <1>7 DEF SetUpSuppress
<1>8. CASE PreparePinning
    <2>1. CASE Dead
        BY <1>3, <1>8, <2>1 DEF PreparePinning, Refused
    <2>2. CASE ~Dead
        BY <1>4, <1>8, <2>2 DEF PreparePinning, Refused
    <2>3. QED
        BY <2>1, <2>2
<1>9. CASE Bootstrap
    BY <1>4, <1>9 DEF Bootstrap
<1>10. ASSUME UNCHANGED <<file, daemon>> PROVE Position'
    BY <1>10 DEF daemon, Position, C
<1>11. ASSUME NEW p \in ProviderSet(C), Retry(p) \/ Aim(p) \/ Replace(p) PROVE Position'
    <2>1. Running /\ Running' /\ UNCHANGED <<file, cfg, next>>
        BY <1>11 DEF Retry, Aim, Replace, Running
    <2>2. QED
        BY <1>4, <2>1 DEF Running
<1>12. CASE DropBootstrap
    BY <1>4, <1>12 DEF DropBootstrap
<1>13. ASSUME NEW i \in Interfaces, LinkUp(i) \/ LinkDown(i) PROVE Position'
    BY <1>10, <1>13 DEF LinkUp, LinkDown
<1>14. CASE Kill \/ Reboot
    BY <1>3, <1>14 DEF Kill, Reboot
<1>15. CASE UNCHANGED vars
    BY <1>10, <1>15 DEF vars
<1>16. QED
    BY <1>1, <1>2, <1>5, <1>6, <1>7, <1>8, <1>9, <1>11, <1>12, <1>13, <1>14, <1>15
       DEF Next, Prepare

\* A provider whose set-up was refused is, or stays, among the pending ones.
StillPending(p) ==
    \/ memory' = [memory EXCEPT !.pending = @ \cup {p.name}]
    \/ p.name \in memory.pending /\ UNCHANGED memory

\* What a step does to the rules: nothing, one of them anew, one drained and not
\* added again, or, when the machine goes down, everything.
LEMMA RulesChange ==
    ASSUME Position, [Next]_vars
    PROVE  \/ UNCHANGED rules
           \/ rules' = <<>> /\ pc' = "down"
           \/ cfg # None /\ \E p \in ProviderSet(C) : rules' = Refreshed(rules, ProviderRule(p))
           \/ cfg # None /\ rules' = Refreshed(rules, SuppressRule)
           \/ /\ cfg # None
              /\ \E p \in ProviderSet(C) : /\ rules' = Drained(rules, ProviderRule(p))
                                          /\ StillPending(p)
           \/ cfg # None /\ pc = "suppress" /\ rules' = Drained(rules, SuppressRule)
<1>1. CASE SetUpPolicyRouting
    <2> DEFINE p == C.providers[next]
    <2>1. \/ rules' = Refreshed(rules, ProviderRule(p))
          \/ UNCHANGED rules
          \/ rules' = Drained(rules, ProviderRule(p)) /\ StillPending(p)
        BY <1>1 DEF SetUpPolicyRouting, SetUp, SetUpHalf, StillPending
    <2>2. cfg \in Started /\ next \in 1..Len(C.providers) /\ cfg # None
        BY <1>1, SettingAssumption DEF Position, SetUpPolicyRouting, Started
    <2>3. p \in ProviderSet(C)
        BY <2>2, ListOfProviders DEF C
    <2>4. QED
        BY <2>1, <2>2, <2>3
<1>2. CASE SetUpSuppress
    BY <1>2, SettingAssumption DEF Position, SetUpSuppress
<1>3. ASSUME cfg # None, NEW p \in ProviderSet(C), Retry(p) \/ Aim(p) \/ Replace(p)
      PROVE  \/ UNCHANGED rules \/ rules' = Refreshed(rules, ProviderRule(p))
             \/ rules' = Drained(rules, ProviderRule(p)) /\ StillPending(p)
    BY <1>3 DEF Retry, Aim, Replace, routing, SetUp, SetUpHalf, StillPending
<1>4. CASE TuneSysctl \/ ConfigureNat \/ PreparePinning \/ Bootstrap \/ DropBootstrap
    BY <1>4 DEF TuneSysctl, ConfigureNat, PreparePinning, Bootstrap, DropBootstrap,
       Refused, routing
<1>5. ASSUME NEW i \in Interfaces, LinkUp(i) \/ LinkDown(i) PROVE UNCHANGED rules
    BY <1>5 DEF LinkUp, LinkDown
<1>6. CASE Start \/ Kill \/ Reboot \/ UNCHANGED vars
    BY <1>6 DEF Start, Kill, Reboot, Dead, vars, kernel, routing
<1>7. ASSUME NEW f \in Settings, Edit(f) PROVE UNCHANGED rules
    BY <1>7 DEF Edit, kernel, routing
<1>8. QED
    BY <1>1, <1>2, <1>3, <1>4, <1>5, <1>6, <1>7 DEF Next, Prepare

LEMMA RulesStep == Position /\ RulesOK /\ [Next]_vars => RulesOK'
<1> SUFFICES ASSUME Position, RulesOK, [Next]_vars PROVE RulesOK'
    OBVIOUS
<1>1. rules \in Seq(Known) /\ InOrder(rules)
    BY DEF RulesOK
<1>2. ASSUME NEW rule \in Known, rules' = Refreshed(rules, rule) PROVE RulesOK'
    <2>1. Refreshed(rules, rule) \in Seq(Known) /\ InOrder(Refreshed(rules, rule))
        BY ONLY <1>1, KnownPreferences, RefreshedInOrder, rule \in Known
    <2>2. rules' \in Seq(Known) /\ InOrder(rules')
        BY <1>2, <2>1
    <2>3. QED
        BY <2>2 DEF RulesOK, InOrder
<1>8. ASSUME NEW rule, rules' = Drained(rules, rule) PROVE RulesOK'
    <2>1. Drained(rules, rule) \in Seq(Known) /\ InOrder(Drained(rules, rule))
        BY ONLY <1>1, DrainedInOrder
    <2>2. rules' \in Seq(Known) /\ InOrder(rules')
        BY <1>8, <2>1
    <2>3. QED
        BY <2>2 DEF RulesOK, InOrder
<1>3. ASSUME cfg # None, NEW p \in ProviderSet(C), rules' = Refreshed(rules, ProviderRule(p))
      PROVE  RulesOK'
    <2>1. ProviderRule(p) \in Known
        BY <1>3, AcceptedProviders DEF Position, ProviderRule, RuleOf, C
    <2>2. QED
        BY <1>2, <1>3, <2>1
<1>4. ASSUME cfg # None, rules' = Refreshed(rules, SuppressRule) PROVE RulesOK'
    <2>1. SuppressRule \in Known
        BY <1>4 DEF Position, SuppressRule, SuppressOf, Known, C
    <2>2. QED
        BY <1>2, <1>4, <2>1
<1>5. CASE UNCHANGED rules
    BY <1>1, <1>5 DEF RulesOK, InOrder
<1>6. CASE rules' = <<>>
    BY <1>6 DEF RulesOK, InOrder
<1>7. QED
    BY <1>3, <1>4, <1>5, <1>6, <1>8, RulesChange

TargetOK == target \in Names \cup {None} /\ (pc = "replace" <=> target # None)

MemoryOK == memory \in [pending : SUBSET Names, owns : BOOLEAN, active : Names \cup {None}]

LinksOK == links \subseteq Interfaces

TablesOK == DOMAIN tables \subseteq U32 /\ \A t \in DOMAIN tables : tables[t] \in Hops

MainOK ==
    /\ main \subseteq [kind : {"vlb", "other", "bootstrap"}, hop : Hops]
    /\ \A r, s \in main : r.kind = s.kind => r = s

FirewallOK == FirewallShape /\ firewall.forward \in BOOLEAN /\ firewall.accept \in BOOLEAN

MarkOK == pinning.mark = None \/ pinning.mark \in U32

\* What the steps of the daemon know of the provider they are about.
LEMMA PresentProvider ==
    ASSUME Position, cfg # None
    PROVE  /\ cfg \in Started
           /\ \A p \in ProviderSet(C) :
                 /\ p.name \in Names /\ p.name # None
                 /\ p.interface \in Interfaces
                 /\ Hop(p) \in Hops /\ Hop(p) # None
                 /\ TableFor(C, p) \in U32 /\ MarkFor(C, p) \in U32
           /\ pc = "policy" => C.providers[next] \in ProviderSet(C)
<1>1. cfg \in Started
    BY DEF Position
<1>2. pc = "policy" => C.providers[next] \in ProviderSet(C)
    BY <1>1, ListOfProviders DEF Position, C
<1>3. QED
    BY <1>1, <1>2, AcceptedProviders DEF C

LEMMA TargetStep == Position /\ TargetOK /\ [Next]_vars => TargetOK'
<1> SUFFICES ASSUME Position, TargetOK, [Next]_vars PROVE TargetOK'
    OBVIOUS
<1>1. ASSUME Dead PROVE TargetOK'
    BY <1>1 DEF Dead, TargetOK
<1>2. ASSUME UNCHANGED target, pc # "replace", pc' # "replace" PROVE TargetOK'
    BY <1>2 DEF TargetOK
<1>3. ASSUME UNCHANGED <<pc, target>> PROVE TargetOK'
    BY <1>3 DEF TargetOK
<1>4. CASE Start \/ Prepare
    <2>1. CASE Dead
        BY <1>1, <2>1
    <2>2. CASE ~Dead
        BY <1>2, <1>4, <2>2 DEF Start, Prepare, TuneSysctl, ConfigureNat,
           SetUpPolicyRouting, SetUpSuppress, PreparePinning, Bootstrap, Refused
    <2>3. QED
        BY <2>1, <2>2
<1>5. ASSUME cfg # None, NEW p \in ProviderSet(C), Retry(p) PROVE TargetOK'
    BY <1>3, <1>5 DEF Retry
<1>6. ASSUME cfg # None, NEW p \in ProviderSet(C), Aim(p) PROVE TargetOK'
    <2>1. pc' = "replace" /\ target' = p.name
        BY <1>6 DEF Aim
    <2>2. p.name \in Names /\ p.name # None
        BY <1>6, PresentProvider
    <2>3. QED
        BY <2>1, <2>2 DEF TargetOK
<1>7. ASSUME NEW p \in ProviderSet(C), Replace(p) PROVE TargetOK'
    BY <1>7 DEF Replace, TargetOK
<1>8. CASE DropBootstrap
    BY <1>2, <1>8 DEF DropBootstrap
<1>9. CASE Kill \/ Reboot
    BY <1>1, <1>9 DEF Kill, Reboot
<1>10. ASSUME UNCHANGED daemon PROVE TargetOK'
    BY <1>3, <1>10 DEF daemon
<1>11. QED
    BY <1>4, <1>5, <1>6, <1>7, <1>8, <1>9, <1>10
       DEF Next, Edit, LinkUp, LinkDown, vars

\* What the daemon remembers, field by field.
LEMMA MemoryStep == Position /\ MemoryOK /\ [Next]_vars => MemoryOK'
<1> SUFFICES ASSUME Position, MemoryOK, [Next]_vars PROVE MemoryOK'
    OBVIOUS
<1> DEFINE Fields(m) == m.pending \in SUBSET Names /\ m.owns \in BOOLEAN
                        /\ m.active \in Names \cup {None}
<1>0. /\ memory = [pending |-> memory.pending, owns |-> memory.owns,
                   active |-> memory.active]
      /\ Fields(memory)
    BY DEF MemoryOK
<1>1. CASE Dead
    BY <1>1 DEF Dead, NoMemory, MemoryOK
<1>2. CASE UNCHANGED memory
    BY <1>2 DEF MemoryOK
<1>3. CASE SetUpPolicyRouting
    <2> DEFINE p == C.providers[next]
    <2>1. p.name \in Names
        BY <1>3, PresentProvider DEF SetUpPolicyRouting, Position
    <2>2. CASE memory' = [memory EXCEPT !.pending = @ \cup {p.name}]
        <3>1. memory' = [pending |-> memory.pending \cup {p.name}, owns |-> memory.owns,
                         active |-> memory.active]
            BY <1>0, <2>2
        <3>2. QED
            BY <1>0, <2>1, <3>1 DEF MemoryOK
    <2>3. QED
        BY <1>2, <1>3, <2>2 DEF SetUpPolicyRouting
<1>4. CASE Bootstrap
    <2> DEFINE active == IF Adopted(main') = {} THEN None
                         ELSE (CHOOSE p \in Adopted(main') : TRUE).name
    <2>1. memory' = [memory EXCEPT !.owns = OwnsBootstrap, !.active = active]
        BY <1>4 DEF Bootstrap
    <2>2. active \in Names \cup {None}
        <3>1. CASE Adopted(main') # {}
            <4>1. (CHOOSE p \in Adopted(main') : TRUE) \in ProviderSet(C)
                BY <3>1 DEF Adopted
            <4>2. cfg # None
                BY <1>4 DEF Bootstrap, Position
            <4>3. QED
                BY <4>1, <4>2, PresentProvider
        <3>2. QED
            BY <3>1
    <2> HIDE DEF active
    <2>3. memory' = [pending |-> memory.pending, owns |-> OwnsBootstrap, active |-> active]
        BY <1>0, <2>1
    <2>4. OwnsBootstrap \in BOOLEAN
        BY DEF OwnsBootstrap
    <2>5. QED
        BY <1>0, <2>2, <2>3, <2>4 DEF MemoryOK
<1>5. ASSUME cfg # None, NEW p \in ProviderSet(C), Retry(p) PROVE MemoryOK'
    <2>1. memory' = [memory EXCEPT !.pending = @ \ {p.name}] \/ UNCHANGED memory
        BY <1>5 DEF Retry
    <2>2. CASE memory' = [memory EXCEPT !.pending = @ \ {p.name}]
        <3>1. memory' = [pending |-> memory.pending \ {p.name}, owns |-> memory.owns,
                         active |-> memory.active]
            BY <1>0, <2>2
        <3>2. QED
            BY <1>0, <3>1 DEF MemoryOK
    <2>3. QED
        BY <1>2, <2>1, <2>2
<1>6. ASSUME cfg # None, NEW p \in ProviderSet(C), Replace(p) PROVE MemoryOK'
    <2>1. \/ memory' = [memory EXCEPT !.active = p.name]
          \/ UNCHANGED memory
        BY <1>6 DEF Replace
    <2>2. p.name \in Names
        BY <1>6, PresentProvider
    <2>3. CASE memory' = [memory EXCEPT !.active = p.name]
        <3>1. memory' = [pending |-> memory.pending, owns |-> memory.owns, active |-> p.name]
            BY <1>0, <2>3
        <3>2. QED
            BY <1>0, <2>2, <3>1 DEF MemoryOK
    <2>4. QED
        BY <1>2, <2>1, <2>3
<1>7. CASE DropBootstrap
    <2>1. memory' = [pending |-> memory.pending, owns |-> FALSE, active |-> memory.active]
        BY <1>0, <1>7 DEF DropBootstrap
    <2>2. QED
        BY <1>0, <2>1 DEF MemoryOK
<1>8. CASE TuneSysctl \/ ConfigureNat \/ PreparePinning
    BY <1>1, <1>2, <1>8 DEF TuneSysctl, ConfigureNat, PreparePinning, Refused
<1>9. CASE Start \/ SetUpSuppress
    BY <1>2, <1>9 DEF Start, SetUpSuppress
<1>10. ASSUME NEW p \in ProviderSet(C), Aim(p) PROVE MemoryOK'
    BY <1>2, <1>10 DEF Aim
<1>11. CASE Kill \/ Reboot
    BY <1>1, <1>11 DEF Kill, Reboot
<1>12. ASSUME UNCHANGED daemon PROVE MemoryOK'
    BY <1>2, <1>12 DEF daemon
<1>13. QED
    BY <1>3, <1>4, <1>5, <1>6, <1>7, <1>8, <1>9, <1>10, <1>11, <1>12
       DEF Next, Prepare, Edit, LinkUp, LinkDown, vars

\* What a step does to the tables: nothing, one of them set up, or some lost.
LEMMA TablesChange ==
    ASSUME Position, [Next]_vars
    PROVE  \/ UNCHANGED tables
           \/ cfg # None /\ \E p \in ProviderSet(C) :
                 tables' = [t \in DOMAIN tables \cup {TableFor(C, p)} |->
                              IF t = TableFor(C, p) THEN Hop(p) ELSE tables[t]]
           \/ \E T \in SUBSET DOMAIN tables : tables' = [t \in T |-> tables[t]]
<1>1. CASE SetUpPolicyRouting
    <2>1. cfg # None /\ C.providers[next] \in ProviderSet(C)
        BY <1>1, PresentProvider DEF SetUpPolicyRouting, Position
    <2>2. QED
        BY <1>1, <2>1 DEF SetUpPolicyRouting, SetUp, SetUpHalf, Routed
<1>2. ASSUME cfg # None, NEW p \in ProviderSet(C), Retry(p)
      PROVE  \/ tables' = [t \in DOMAIN tables \cup {TableFor(C, p)} |->
                             IF t = TableFor(C, p) THEN Hop(p) ELSE tables[t]]
             \/ UNCHANGED tables
    BY <1>2 DEF Retry, SetUp, SetUpHalf, Routed
<1>3. ASSUME cfg # None, NEW p \in ProviderSet(C), Aim(p) \/ Replace(p)
      PROVE  UNCHANGED tables
    BY <1>3 DEF Aim, Replace, routing
<1>4. CASE TuneSysctl \/ ConfigureNat \/ PreparePinning \/ Bootstrap \/ DropBootstrap
           \/ SetUpSuppress
    BY <1>4 DEF TuneSysctl, ConfigureNat, PreparePinning, Bootstrap, DropBootstrap,
       SetUpSuppress, Refused, routing
<1>5. ASSUME NEW i \in Interfaces, LinkUp(i) PROVE UNCHANGED tables
    BY <1>5 DEF LinkUp
<1>6. ASSUME NEW i \in Interfaces, LinkDown(i)
      PROVE  \E T \in SUBSET DOMAIN tables : tables' = [t \in T |-> tables[t]]
    <2> DEFINE T == {t \in DOMAIN tables : tables[t].dev # i}
    <2>1. tables' = [t \in T |-> tables[t]] /\ T \in SUBSET DOMAIN tables
        BY <1>6 DEF LinkDown
    <2> HIDE DEF T
    <2>2. QED
        BY <2>1
<1>7. CASE Reboot
    <2>1. tables' = [t \in {} |-> None]
        BY <1>7 DEF Reboot
    <2>2. tables' = [t \in {} |-> tables[t]]
        BY <2>1
    <2>3. QED
        BY <2>2
<1>8. CASE Start \/ Kill \/ UNCHANGED vars
    BY <1>8 DEF Start, Kill, vars, kernel, routing
<1>9. ASSUME NEW f \in Settings, Edit(f) PROVE UNCHANGED tables
    BY <1>9 DEF Edit, kernel, routing
<1>10. QED
    BY <1>1, <1>2, <1>3, <1>4, <1>5, <1>6, <1>7, <1>8, <1>9 DEF Next, Prepare

LEMMA TablesStep == Position /\ TablesOK /\ [Next]_vars => TablesOK'
<1> SUFFICES ASSUME Position, TablesOK, [Next]_vars PROVE TablesOK'
    OBVIOUS
<1>1. ASSUME cfg # None, NEW p \in ProviderSet(C),
             tables' = [t \in DOMAIN tables \cup {TableFor(C, p)} |->
                          IF t = TableFor(C, p) THEN Hop(p) ELSE tables[t]]
      PROVE  TablesOK'
    <2>1. TableFor(C, p) \in U32 /\ Hop(p) \in Hops
        BY <1>1, PresentProvider
    <2>2. QED
        BY <1>1, <2>1 DEF TablesOK
<1>2. ASSUME NEW T \in SUBSET DOMAIN tables, tables' = [t \in T |-> tables[t]]
      PROVE  TablesOK'
    BY <1>2 DEF TablesOK
<1>3. CASE UNCHANGED tables
    BY <1>3 DEF TablesOK
<1>4. QED
    BY <1>1, <1>2, <1>3, TablesChange

\* The provider a provisional default leads to is one of the configuration.
LEMMA FirstIsAProvider ==
    ASSUME Position, cfg # None PROVE First \in ProviderSet(C)
<1>1. cfg \in Started
    BY DEF Position
<1>2. \A p \in ProviderSet(C) : p.priority \in Nat
    BY <1>1, SettingAssumption DEF Started, Typed, U32, C
<1> DEFINE N == {p.priority : p \in ProviderSet(C)}
<1>3. 1 \in 1..Len(C.providers)
    BY <1>1, ListOfProviders DEF C
<1>4. C.providers[1] \in ProviderSet(C)
    BY <1>1, <1>3, ListOfProviders DEF C
<1>5. N \in SUBSET Nat /\ N # {}
    BY <1>2, <1>4
<1>6. PICK n \in N : \A m \in N : n <= m
    BY ONLY <1>5, LeastNumber
<1>7. \E p \in ProviderSet(C) : \A q \in ProviderSet(C) : p.priority <= q.priority
    BY <1>6
<1>8. QED
    BY <1>7 DEF First

\* Of the default routes there is one of each kind: the kernel replaces, and the
\* daemon adds none beside another.
LEMMA MainStep == Position /\ MainOK /\ [Next]_vars => MainOK'
<1> SUFFICES ASSUME Position, MainOK, [Next]_vars PROVE MainOK'
    OBVIOUS
<1>1. ASSUME main' \subseteq main PROVE MainOK'
    BY <1>1 DEF MainOK
<1>2. ASSUME NEW kind \in {"vlb", "other", "bootstrap"}, NEW hop \in Hops,
             NEW rest \in SUBSET main, \A r \in rest : r.kind # kind,
             main' = rest \cup {[kind |-> kind, hop |-> hop]}
      PROVE  MainOK'
    <2> DEFINE new == [kind |-> kind, hop |-> hop]
    <2>1. new \in [kind : {"vlb", "other", "bootstrap"}, hop : Hops] /\ new.kind = kind
        OBVIOUS
    <2> HIDE DEF new
    <2>2. main' = rest \cup {new}
        BY <1>2 DEF new
    <2>3. QED
        BY <1>2, <2>1, <2>2 DEF MainOK
<1>3. CASE Bootstrap
    <2>1. CASE main = {} /\ First.interface \in links
        <3>1. main' = {[kind |-> "bootstrap", hop |-> Hop(First)]}
            BY <1>3, <2>1 DEF Bootstrap, Bootstrapped
        <3>2. First \in ProviderSet(C) /\ cfg # None
            BY <1>3, FirstIsAProvider DEF Bootstrap, Position
        <3>3. Hop(First) \in Hops
            BY <3>2, PresentProvider
        <3>4. main' = {} \cup {[kind |-> "bootstrap", hop |-> Hop(First)]}
            BY <3>1
        <3>5. {} \in SUBSET main /\ \A r \in {} : r.kind # "bootstrap"
            OBVIOUS
        <3>6. QED
            BY <1>2, <3>3, <3>4, <3>5, Zenon
    <2>2. QED
        BY <1>1, <1>3, <2>1 DEF Bootstrap, Bootstrapped
<1>4. ASSUME cfg # None, NEW p \in ProviderSet(C), Replace(p) PROVE MainOK'
    <2>1. \/ main' = (main \ Defaults0("vlb")) \cup {[kind |-> "vlb", hop |-> Hop(p)]}
          \/ UNCHANGED main
        BY <1>4 DEF Replace
    <2>2. Hop(p) \in Hops
        BY <1>4, PresentProvider
    <2>3. \A r \in main \ Defaults0("vlb") : r.kind # "vlb"
        BY DEF Defaults0
    <2>4. QED
        BY <1>1, <1>2, <2>1, <2>2, <2>3
<1>5. ASSUME NEW i \in Interfaces, LinkUp(i) PROVE MainOK'
    <2> DEFINE hop == [via |-> "dhcp", dev |-> i]
    <2>1. \/ UNCHANGED main
          \/ /\ Defaults0("other") = {}
             /\ main' = main \cup {[kind |-> "other", hop |-> hop]}
        BY <1>5 DEF LinkUp
    <2>2. hop \in Hops
        BY DEF Hops
    <2> HIDE DEF hop
    <2>3. Defaults0("other") = {} => \A r \in main : r.kind # "other"
        BY DEF Defaults0
    <2>4. QED
        BY <1>1, <1>2, <2>1, <2>2, <2>3
<1>6. ASSUME NEW i \in Interfaces, LinkDown(i) PROVE MainOK'
    BY <1>1, <1>6 DEF LinkDown
<1>7. CASE DropBootstrap
    BY <1>1, <1>7 DEF DropBootstrap
<1>8. CASE Reboot
    BY <1>1, <1>8 DEF Reboot
<1>9. ASSUME cfg # None, NEW p \in ProviderSet(C), Retry(p) \/ Aim(p) PROVE MainOK'
    BY <1>1, <1>9 DEF Retry, Aim, routing
<1>10. CASE TuneSysctl \/ ConfigureNat \/ PreparePinning \/ SetUpPolicyRouting
            \/ SetUpSuppress
    BY <1>1, <1>10 DEF TuneSysctl, ConfigureNat, PreparePinning, SetUpPolicyRouting,
       SetUpSuppress, Refused, routing
<1>11. CASE Start \/ Kill \/ UNCHANGED vars
    BY <1>1, <1>11 DEF Start, Kill, vars, kernel, routing
<1>12. ASSUME NEW f \in Settings, Edit(f) PROVE MainOK'
    BY <1>1, <1>12 DEF Edit, kernel, routing
<1>13. QED
    BY <1>3, <1>4, <1>5, <1>6, <1>7, <1>8, <1>9, <1>10, <1>11, <1>12 DEF Next, Prepare

LEMMA FirewallStep == FirewallOK /\ [Next]_vars => FirewallOK'
<1> SUFFICES ASSUME FirewallOK, [Next]_vars PROVE FirewallOK'
    OBVIOUS
<1>1. CASE UNCHANGED firewall
    BY <1>1 DEF FirewallOK, FirewallShape
<1>2. ASSUME NEW forward \in BOOLEAN, NEW accept \in BOOLEAN, NEW nat,
             firewall' = [forward |-> forward, accept |-> accept, nat |-> nat]
      PROVE  FirewallOK'
    BY <1>2 DEF FirewallOK, FirewallShape
<1>3. CASE TuneSysctl
    <2>1. CASE firewall' = [firewall EXCEPT !.forward = TRUE]
        <3>1. firewall' = [forward |-> TRUE, accept |-> firewall.accept, nat |-> firewall.nat]
            BY <2>1 DEF FirewallOK, FirewallShape
        <3>2. QED
            BY <1>2, <3>1 DEF FirewallOK
    <2>2. QED
        BY <1>1, <1>3, <2>1 DEF TuneSysctl
<1>4. CASE ConfigureNat
    <2>1. ASSUME firewall' = [firewall EXCEPT !.nat = @ \cup NatInterfaces(C), !.accept = TRUE]
          PROVE  FirewallOK'
        <3>1. firewall' = [forward |-> firewall.forward, accept |-> TRUE,
                           nat |-> firewall.nat \cup NatInterfaces(C)]
            BY <2>1 DEF FirewallOK, FirewallShape
        <3>2. QED
            BY <1>2, <3>1 DEF FirewallOK
    <2>2. ASSUME NEW done, firewall' = [firewall EXCEPT !.nat = @ \cup done]
          PROVE  FirewallOK'
        <3>1. firewall' = [forward |-> firewall.forward, accept |-> firewall.accept,
                           nat |-> firewall.nat \cup done]
            BY <2>2 DEF FirewallOK, FirewallShape
        <3>2. QED
            BY <1>2, <3>1 DEF FirewallOK
    <2>3. QED
        BY <1>4, <2>1, <2>2 DEF ConfigureNat
<1>5. CASE Reboot
    <2>1. PICK kept \in {FALSE, firewall.forward} :
              firewall' = [forward |-> kept, accept |-> FALSE, nat |-> {}]
        BY <1>5 DEF Reboot
    <2>2. kept \in BOOLEAN
        BY DEF FirewallOK
    <2>3. QED
        BY <1>2, <2>1, <2>2
<1>6. CASE Start \/ SetUpPolicyRouting \/ SetUpSuppress \/ PreparePinning \/ Bootstrap
           \/ DropBootstrap
    BY <1>1, <1>6 DEF Start, SetUpPolicyRouting, SetUpSuppress, PreparePinning, Bootstrap,
       DropBootstrap, kernel
<1>7. ASSUME NEW p \in ProviderSet(C), Retry(p) \/ Aim(p) \/ Replace(p) PROVE FirewallOK'
    BY <1>1, <1>7 DEF Retry, Aim, Replace
<1>8. ASSUME NEW i \in Interfaces, LinkUp(i) \/ LinkDown(i) PROVE FirewallOK'
    BY <1>1, <1>8 DEF LinkUp, LinkDown
<1>9. CASE Kill \/ UNCHANGED vars \/ \E f \in Settings : Edit(f)
    BY <1>1, <1>9 DEF Kill, vars, kernel, Edit
<1>10. QED
    BY <1>3, <1>4, <1>5, <1>6, <1>7, <1>8, <1>9 DEF Next, Prepare

LEMMA MarkStep == Position /\ MarkOK /\ [Next]_vars => MarkOK'
<1> SUFFICES ASSUME Position, MarkOK, [Next]_vars PROVE MarkOK'
    OBVIOUS
<1>1. CASE UNCHANGED pinning
    BY <1>1 DEF MarkOK
<1>2. ASSUME pinning'.mark = None PROVE MarkOK'
    BY <1>2 DEF MarkOK
<1>3. CASE PreparePinning
    <2>1. \/ UNCHANGED pinning \/ pinning'.mark = None
          \/ pinning'.mark = pinning.mark
        BY <1>3 DEF PreparePinning, Removed, RemovalRefused, Refused
    <2>2. QED
        BY <1>1, <1>2, <2>1 DEF MarkOK
<1>4. ASSUME cfg # None, NEW p \in ProviderSet(C), Aim(p) PROVE MarkOK'
    <2>1. pinning'.mark = MarkFor(C, p) \/ pinning' = pinning
        BY <1>4 DEF Aim
    <2>2. MarkFor(C, p) \in U32
        BY <1>4, PresentProvider
    <2>3. QED
        BY <1>1, <2>1, <2>2 DEF MarkOK
<1>5. CASE Reboot
    BY <1>2, <1>5 DEF Reboot
<1>6. CASE Start \/ TuneSysctl \/ ConfigureNat \/ SetUpPolicyRouting \/ SetUpSuppress
           \/ Bootstrap \/ DropBootstrap
    BY <1>1, <1>6 DEF Start, TuneSysctl, ConfigureNat, SetUpPolicyRouting, SetUpSuppress,
       Bootstrap, DropBootstrap, Refused, kernel
<1>7. ASSUME NEW p \in ProviderSet(C), Retry(p) \/ Replace(p) PROVE MarkOK'
    BY <1>1, <1>7 DEF Retry, Replace
<1>8. ASSUME NEW i \in Interfaces, LinkUp(i) \/ LinkDown(i) PROVE MarkOK'
    BY <1>1, <1>8 DEF LinkUp, LinkDown
<1>9. CASE Kill \/ UNCHANGED vars \/ \E f \in Settings : Edit(f)
    BY <1>1, <1>9 DEF Kill, vars, kernel, Edit
<1>10. QED
    BY <1>3, <1>4, <1>5, <1>6, <1>7, <1>8, <1>9 DEF Next, Prepare

LEMMA LinksStep == LinksOK /\ [Next]_vars => LinksOK'
<1> SUFFICES ASSUME LinksOK, [Next]_vars PROVE LinksOK'
    OBVIOUS
<1>1. CASE UNCHANGED links \/ links' = {}
    BY <1>1 DEF LinksOK
<1>2. ASSUME NEW i \in Interfaces, LinkUp(i) \/ LinkDown(i) PROVE LinksOK'
    BY <1>2 DEF LinkUp, LinkDown, LinksOK
<1>3. ASSUME NEW p \in ProviderSet(C), Retry(p) \/ Aim(p) \/ Replace(p) PROVE LinksOK'
    BY <1>1, <1>3 DEF Retry, Aim, Replace
<1>4. CASE Start \/ Prepare \/ DropBootstrap \/ Kill \/ Reboot \/ UNCHANGED vars
           \/ \E f \in Settings : Edit(f)
    BY <1>1, <1>4 DEF Start, Prepare, TuneSysctl, ConfigureNat, SetUpPolicyRouting,
       SetUpSuppress, PreparePinning, Bootstrap, DropBootstrap, Kill, Reboot, Refused,
       vars, kernel, Edit
<1>5. QED
    BY <1>2, <1>3, <1>4 DEF Next

RefusedOK == refused \subseteq {"suppress", "pinning"}

LEMMA RefusedStep == RefusedOK /\ [Next]_vars => RefusedOK'
<1> SUFFICES ASSUME RefusedOK, [Next]_vars PROVE RefusedOK'
    OBVIOUS
<1>1. CASE UNCHANGED refused \/ refused' = {}
    BY <1>1 DEF RefusedOK
<1>2. CASE SetUpSuppress \/ PreparePinning
    BY <1>1, <1>2 DEF SetUpSuppress, PreparePinning, RemovalRefused, Refused, Dead, RefusedOK
<1>3. ASSUME NEW p \in ProviderSet(C), Retry(p) \/ Aim(p) \/ Replace(p) PROVE RefusedOK'
    BY <1>1, <1>3 DEF Retry, Aim, Replace
<1>4. CASE \/ Start \/ TuneSysctl \/ ConfigureNat \/ SetUpPolicyRouting \/ Bootstrap
           \/ DropBootstrap \/ Kill \/ Reboot \/ UNCHANGED vars
           \/ \E f \in Settings : Edit(f)
           \/ \E i \in Interfaces : LinkUp(i) \/ LinkDown(i)
    BY <1>1, <1>4 DEF Start, TuneSysctl, ConfigureNat, SetUpPolicyRouting, Bootstrap,
       DropBootstrap, Kill, Reboot, Refused, Dead, vars, daemon, Edit, LinkUp, LinkDown
<1>5. QED
    BY <1>2, <1>3, <1>4 DEF Next, Prepare

TypeInv ==
    /\ Position /\ RulesOK /\ TargetOK /\ MemoryOK /\ LinksOK /\ TablesOK /\ MainOK
    /\ FirewallOK /\ MarkOK /\ RefusedOK

LEMMA TypeInvInit == Init => TypeInv
BY SettingAssumption DEF Init, NoMemory, TypeInv, Position, RulesOK, InOrder, TargetOK,
   MemoryOK, LinksOK, TablesOK, MainOK, FirewallOK, FirewallShape, MarkOK,
   RefusedOK

LEMMA TypeInvStep == TypeInv /\ [Next]_vars => TypeInv'
BY PositionStep, RulesStep, TargetStep, MemoryStep, LinksStep, TablesStep, MainStep,
   FirewallStep, MarkStep, RefusedStep DEF TypeInv

\* Types; and through starts with any sequence of configurations, refusals,
\* kills and reboots no rule and no default route piles up: a refreshed rule is
\* drained before it is added (system::setup_provider_policy_route), a default is
\* replaced (router::set_default_route), a provisional one taken over.
THEOREM TypeCorrect == Spec => []TypeOK
<1>1. TypeInv => TypeOK
    <2> SUFFICES ASSUME TypeInv PROVE TypeOK
        OBVIOUS
    <2>1. file \in Settings /\ cfg \in Settings \cup {None} /\ (cfg = None <=> pc = "down")
        BY DEF TypeInv, Position, Started
    <2>2. QED
        BY <2>1 DEF TypeOK, TypeInv, Position, RulesOK, InOrder, TargetOK, MemoryOK,
           LinksOK, TablesOK, MainOK, FirewallOK, MarkOK, RefusedOK
<1>2. QED
    BY <1>1, TypeInvInit, TypeInvStep, PTL DEF Spec

-----------------------------------------------------------------------------
(***************************************************************************)
(* Marks and uplinks.                                                      *)
(***************************************************************************)
\* The settings the operator tries number their providers from the same bases,
\* and `fwmark_mask` tells the marks apart.  validate promises neither: a base
\* may be changed between two starts, which leaves the rules of the old one, and
\* of the marks only the first and the last are looked at.
OneNumbering ==
    \A s, t \in Started :
        /\ Setting[s].routing.table_base = Setting[t].routing.table_base
        /\ Setting[s].routing.fwmark_mask = Setting[t].routing.fwmark_mask
        /\ Setting[s].routing.rule_pref = Setting[t].routing.rule_pref
        /\ \A p \in ProviderSet(Setting[s]), q \in ProviderSet(Setting[t]) :
              Masked(MarkFor(Setting[s], p), Setting[s].routing.fwmark_mask)
                  = Masked(MarkFor(Setting[t], q), Setting[s].routing.fwmark_mask)
              => p.priority = q.priority

\* The stages of a start that come after the tables.
Late == {"suppress", "pin", "bootstrap", "up", "replace", "tidy"}

\* The providers whose turn this start has had.
Done ==
    IF pc = "policy" THEN {C.providers[n] : n \in 1..(next - 1)}
    ELSE IF pc \in Late THEN ProviderSet(C) ELSE {}

Ready(p) ==
    /\ ProviderRule(p) \in Listed(rules)
    /\ TableFor(C, p) \in DOMAIN tables /\ tables[TableFor(C, p)] = Hop(p)

TablesReady == \A p \in Done : p.name \notin memory.pending \cup flapped => Ready(p)

SuppressReady ==
    pc \in Late \ {"suppress"} /\ "suppress" \notin refused => SuppressRule \in Listed(rules)

\* Two providers of the configuration differ in what tells them apart.
LEMMA ProvidersDiffer ==
    ASSUME Position, cfg # None, NEW p \in ProviderSet(C), NEW q \in ProviderSet(C), p # q
    PROVE  p.name # q.name /\ TableFor(C, p) # TableFor(C, q)
<1>1. cfg \in Started /\ Accepted(C) /\ Typed(C)
    BY SettingAssumption DEF Position, Started, C
<1>2. PICK i \in DOMAIN C.providers : C.providers[i] = p
    BY DEF ProviderSet
<1>3. PICK j \in DOMAIN C.providers : C.providers[j] = q
    BY DEF ProviderSet
<1>4. i # j
    BY <1>2, <1>3
<1>5. p.name # q.name
    BY <1>1, <1>2, <1>3, <1>4 DEF Accepted, ProvidersAccepted
<1>6. TableFor(C, p) # TableFor(C, q)
    BY <1>1, <1>2, <1>3, <1>4, NumbersAreDistinct
<1>7. QED
    BY <1>5, <1>6

LEMMA RulesDiffer ==
    ASSUME Position, cfg # None, NEW p \in ProviderSet(C)
    PROVE  /\ ProviderRule(p) # SuppressRule
           /\ \A q \in ProviderSet(C) : q # p => ProviderRule(p) # ProviderRule(q)
<1>1. Accepted(C) /\ Typed(C)
    BY SettingAssumption DEF Position, Started, C
<1>2. TableFor(C, p) # MainTable
    BY <1>1, NumbersAreUsable DEF ReservedTables, MainTable
<1>3. ProviderRule(p) # SuppressRule
    BY <1>2 DEF ProviderRule, SuppressRule
<1>4. QED
    BY <1>3, ProvidersDiffer DEF ProviderRule

\* A step takes no rule away but the one whose refresh is refused.
LEMMA RulesStay ==
    ASSUME Position, RulesOK, MemoryOK, [Next]_vars, cfg # None, pc' # "down"
    PROVE  /\ \A q \in ProviderSet(C) :
                 q.name \notin memory'.pending /\ ProviderRule(q) \in Listed(rules)
                    => ProviderRule(q) \in Listed(rules')
           /\ pc # "suppress" /\ SuppressRule \in Listed(rules)
                 => SuppressRule \in Listed(rules')
<1>1. rules \in Seq(Known) /\ InOrder(rules)
    BY DEF RulesOK
<1>2. ASSUME NEW rule \in Known, rules' = Refreshed(rules, rule)
      PROVE  Listed(rules) \subseteq Listed(rules')
    <2>1. Listed(Refreshed(rules, rule)) = Listed(rules) \cup {rule}
        BY ONLY <1>1, KnownPreferences, RefreshedInOrder, rule \in Known
    <2>2. QED
        BY <1>2, <2>1
<1>3. ASSUME NEW rule, rules' = Drained(rules, rule)
      PROVE  Listed(rules') = Listed(rules) \ {rule}
    <2>1. Listed(Drained(rules, rule)) = Listed(rules) \ {rule}
        BY ONLY <1>1, DrainedInOrder
    <2>2. QED
        BY <1>3, <2>1
<1>4. ASSUME NEW p \in ProviderSet(C) PROVE ProviderRule(p) \in Known
    BY <1>4, AcceptedProviders DEF Position, ProviderRule, RuleOf, C
<1>5. SuppressRule \in Known
    BY DEF Position, SuppressRule, SuppressOf, Known, C
<1>6. ASSUME NEW p \in ProviderSet(C), StillPending(p) PROVE p.name \in memory'.pending
    BY <1>6 DEF StillPending, MemoryOK
<1>7. CASE Listed(rules) \subseteq Listed(rules')
    BY <1>7
<1>8. ASSUME NEW p \in ProviderSet(C), rules' = Drained(rules, ProviderRule(p)), StillPending(p)
      PROVE  /\ \A q \in ProviderSet(C) :
                   q.name \notin memory'.pending /\ ProviderRule(q) \in Listed(rules)
                      => ProviderRule(q) \in Listed(rules')
             /\ SuppressRule \in Listed(rules) => SuppressRule \in Listed(rules')
    <2>1. Listed(rules') = Listed(rules) \ {ProviderRule(p)}
        BY <1>3, <1>8
    <2>2. \A q \in ProviderSet(C) : q.name \notin memory'.pending
                                       => ProviderRule(q) # ProviderRule(p)
        BY <1>6, <1>8, RulesDiffer
    <2>3. SuppressRule # ProviderRule(p)
        BY RulesDiffer
    <2>4. QED
        BY <2>1, <2>2, <2>3
<1>9. CASE pc = "suppress" /\ rules' = Drained(rules, SuppressRule)
    <2>1. Listed(rules') = Listed(rules) \ {SuppressRule}
        BY <1>3, <1>9
    <2>2. QED
        BY <1>9, <2>1, RulesDiffer
<1>10. \/ Listed(rules) \subseteq Listed(rules')
       \/ \E p \in ProviderSet(C) : rules' = Drained(rules, ProviderRule(p)) /\ StillPending(p)
       \/ pc = "suppress" /\ rules' = Drained(rules, SuppressRule)
    BY <1>2, <1>4, <1>5, RulesChange
<1>11. QED
    BY <1>7, <1>8, <1>9, <1>10

\* A set-up that is refused half way leaves the other providers as they are.
LEMMA SetUpHalfLeaves ==
    ASSUME Position, RulesOK, MemoryOK, [Next]_vars, cfg # None, cfg' = cfg, pc' # "down",
           NEW p \in ProviderSet(C), SetUpHalf(p),
           NEW q \in ProviderSet(C), q # p, q.name \notin memory'.pending, Ready(q)
    PROVE  Ready(q)'
<1>1. ProviderRule(q)' = ProviderRule(q) /\ TableFor(C, q)' = TableFor(C, q) /\ Hop(q)' = Hop(q)
    BY DEF C, ProviderRule, RulePrefFor, MarkFor, TableFor, Hop
<1>2. ProviderRule(q) \in Listed(rules')
    BY RulesStay DEF Ready
<1>3. TableFor(C, q) \in DOMAIN tables' /\ tables'[TableFor(C, q)] = Hop(q)
    BY ProvidersDiffer DEF SetUpHalf, Routed, Ready
<1>4. Listed(rules)' = Listed(rules')
    BY DEF Listed
<1>5. QED
    BY <1>1, <1>2, <1>3, <1>4 DEF Ready

\* Setting a table up makes its provider ready and leaves the others as they are.
LEMMA SetUpReadies ==
    ASSUME Position, RulesOK, [Next]_vars, cfg # None, cfg' = cfg, pc' # "down",
           NEW p \in ProviderSet(C), SetUp(p)
    PROVE  /\ Ready(p)'
           /\ \A q \in ProviderSet(C) : q # p /\ Ready(q) => Ready(q)'
<1>1. C' = C
    BY DEF C
<1>2. rules \in Seq(Known) /\ InOrder(rules)
    BY DEF RulesOK
<1>3. ProviderRule(p) \in Known
    BY AcceptedProviders DEF Position, ProviderRule, RuleOf, C
<1>4. Listed(rules') = Listed(rules) \cup {ProviderRule(p)}
    <2> DEFINE rule == ProviderRule(p)
    <2>1. rule \in Known
        BY <1>3
    <2>2. rules' = Refreshed(rules, rule)
        BY DEF SetUp
    <2> HIDE DEF rule
    <2>3. Listed(Refreshed(rules, rule)) = Listed(rules) \cup {rule}
        BY ONLY <1>2, <2>1, KnownPreferences, RefreshedInOrder
    <2>4. QED
        BY <2>2, <2>3 DEF rule
<1>5. tables' = [t \in DOMAIN tables \cup {TableFor(C, p)} |->
                   IF t = TableFor(C, p) THEN Hop(p) ELSE tables[t]]
    BY DEF SetUp, Routed
<1>6. \A q \in ProviderSet(C) : /\ ProviderRule(q)' = ProviderRule(q)
                                /\ TableFor(C, q)' = TableFor(C, q) /\ Hop(q)' = Hop(q)
    BY <1>1 DEF ProviderRule, RulePrefFor, MarkFor, TableFor, Hop
<1>7. Ready(p)'
    <2>1. TableFor(C, p) \in DOMAIN tables' /\ tables'[TableFor(C, p)] = Hop(p)
        BY <1>5
    <2>2. ProviderRule(p) \in Listed(rules')
        BY <1>4
    <2>3. Listed(rules)' = Listed(rules')
        BY DEF Listed
    <2>4. QED
        BY <1>6, <2>1, <2>2, <2>3 DEF Ready
<1>8. ASSUME NEW q \in ProviderSet(C), q # p, Ready(q) PROVE Ready(q)'
    <2>1. TableFor(C, q) # TableFor(C, p)
        BY <1>8, ProvidersDiffer
    <2>2. TableFor(C, q) \in DOMAIN tables' /\ tables'[TableFor(C, q)] = Hop(q)
        BY <1>5, <1>8, <2>1 DEF Ready
    <2>3. ProviderRule(q) \in Listed(rules')
        BY <1>4, <1>8 DEF Ready
    <2>4. Listed(rules)' = Listed(rules')
        BY DEF Listed
    <2>5. QED
        BY <1>6, <2>2, <2>3, <2>4 DEF Ready
<1>9. QED
    BY <1>7, <1>8

LEMMA TablesReadyStep == TypeInv /\ TablesReady /\ [Next]_vars => TablesReady'
<1> SUFFICES ASSUME TypeInv, TablesReady, [Next]_vars PROVE TablesReady'
    OBVIOUS
<1>0. Position /\ RulesOK /\ MemoryOK
    BY DEF TypeInv
\* Nothing is promised before the first table.
<1>1. ASSUME pc' \in {"down", "sysctl", "nat"} \/ (pc' = "policy" /\ next' = 1)
      PROVE  TablesReady'
    <2>1. 1..(1 - 1) = {}
        OBVIOUS
    <2>2. Done' = {}
        BY <1>1, <2>1 DEF Done, Late
    <2>3. QED
        BY <2>2 DEF TablesReady
\* What neither goes back nor touches a table keeps them ready.
<1>2. ASSUME UNCHANGED <<cfg, tables>>, memory'.pending = memory.pending,
             flapped \subseteq flapped', pc' # "down", Done' \subseteq Done
      PROVE  TablesReady'
    <2>1. C' = C
        BY <1>2 DEF C
    <2>2. cfg # None /\ Done \subseteq ProviderSet(C)
        <3>1. cfg # None /\ cfg \in Started
            BY <1>0, <1>2, PositionStep, SettingAssumption DEF Position
        <3>2. pc = "policy" => \A n \in 1..(next - 1) : n \in 1..Len(C.providers)
            BY <1>0, <3>1, ListOfProviders DEF Position, C
        <3>3. QED
            BY <3>1, <3>2, ListOfProviders DEF Done, C
    <2>5. Listed(rules)' = Listed(rules')
        BY DEF Listed
    <2>3. \A p \in Done : Ready(p) /\ p.name \notin memory'.pending => Ready(p)'
        BY <1>0, <1>2, <2>1, <2>2, <2>5, RulesStay
           DEF Ready, ProviderRule, RulePrefFor, MarkFor, TableFor, Hop
    <2>4. QED
        BY <1>2, <2>3 DEF TablesReady
<1>3. ASSUME UNCHANGED cfg, pc \in Late, pc' \in Late PROVE Done' = Done
    BY <1>3 DEF Done, C, Late
<1>4. ASSUME UNCHANGED <<cfg, pc, next>> PROVE Done' = Done
    BY <1>4 DEF Done, C
<1>5. CASE Start \/ TuneSysctl \/ ConfigureNat \/ Kill \/ Reboot
    <2>1. pc' \in {"down", "sysctl", "nat"} \/ (pc' = "policy" /\ next' = 1)
        BY <1>0, <1>5 DEF Start, TuneSysctl, ConfigureNat, Kill, Reboot, Refused, Dead,
           Position
    <2>2. QED
        BY <1>1, <2>1
<1>6. CASE SetUpPolicyRouting
    <2>1. pc = "policy" /\ UNCHANGED cfg /\ cfg # None
        BY <1>0, <1>6 DEF SetUpPolicyRouting, Position
    <2>2. C.providers[next] \in ProviderSet(C) /\ cfg \in Started
        BY <1>0, <2>1, PresentProvider
    <2>3. PICK p \in ProviderSet(C) : p = C.providers[next]
        BY <2>2
    <2>4. C' = C /\ next \in 1..Len(C.providers) /\ Len(C.providers) \in Nat
        BY <1>0, <2>1, <2>2, ListOfProviders DEF C, Position
    <2>5. pc' \in {"policy", "suppress"}
        BY <1>6 DEF SetUpPolicyRouting
    <2>6. Done' = Done \cup {p} /\ Done \subseteq ProviderSet(C)
        <3>1. CASE next < Len(C.providers)
            <4>1. next' = next + 1 /\ pc' = pc
                BY <1>6, <3>1 DEF SetUpPolicyRouting
            <4>2. 1..(next' - 1) = (1..(next - 1)) \cup {next}
                BY <2>4, <4>1
            <4>3. Done' = {C.providers[n] : n \in (1..(next - 1)) \cup {next}}
                BY <2>1, <2>4, <2>3, <4>1, <4>2 DEF Done
            <4>4. Done = {C.providers[n] : n \in 1..(next - 1)}
                BY <2>1 DEF Done
            <4>5. \A n \in 1..(next - 1) : n \in 1..Len(C.providers)
                BY <2>4
            <4>6. Done \subseteq ProviderSet(C)
                BY <2>2, <4>4, <4>5, ListOfProviders DEF C
            <4>7. QED
                BY <2>3, <4>3, <4>4, <4>6
        <3>2. CASE ~(next < Len(C.providers))
            <4>1. pc' = "suppress" /\ next = Len(C.providers)
                BY <1>6, <2>4, <3>2 DEF SetUpPolicyRouting
            <4>2. Done' = ProviderSet(C)
                BY <2>4, <4>1 DEF Done, Late
            <4>3. \A n \in 1..Len(C.providers) : n \in 1..(next - 1) \/ n = next
                BY <2>4, <4>1
            <4>4. \A n \in 1..(next - 1) : n \in 1..Len(C.providers)
                BY <2>4
            <4>5. Done = {C.providers[n] : n \in 1..(next - 1)}
                BY <2>1 DEF Done
            <4>6. Done \subseteq ProviderSet(C)
                BY <2>2, <4>4, <4>5, ListOfProviders DEF C
            <4>7. \A q \in ProviderSet(C) : q \in Done \/ q = p
                BY <2>2, <2>3, <4>3, <4>5, ListOfProviders DEF C
            <4>8. QED
                BY <2>2, <4>2, <4>6, <4>7
        <3>3. QED
            BY <3>1, <3>2
    <2>7. CASE SetUp(p) /\ UNCHANGED memory
        <3>1. SetUp(p) /\ UNCHANGED memory
            BY <2>7
        <3>2. flapped' = flapped \ {p.name}
            BY <3>1 DEF SetUp
        <3>3. /\ Ready(p)'
              /\ \A q \in ProviderSet(C) : q # p /\ Ready(q) => Ready(q)'
            BY <1>0, <2>1, <2>2, <2>5, <3>1, SetUpReadies
        <3>4. ASSUME NEW q \in Done, q # p, q.name \notin memory'.pending \cup flapped'
              PROVE  Ready(q)'
            <4>1. q.name # p.name
                BY <1>0, <2>1, <2>2, <2>6, <3>4, ProvidersDiffer
            <4>2. Ready(q)
                BY <3>1, <3>2, <3>4, <4>1 DEF TablesReady
            <4>3. QED
                BY <2>6, <3>3, <3>4, <4>2
        <3>5. QED
            BY <2>6, <3>3, <3>4 DEF TablesReady
    <2>8. CASE /\ memory' = [memory EXCEPT !.pending = @ \cup {p.name}]
               /\ UNCHANGED <<rules, tables, flapped>>
        <3>1. /\ memory' = [memory EXCEPT !.pending = @ \cup {p.name}]
              /\ UNCHANGED <<rules, tables, flapped>>
            BY <2>8
        <3>2. memory'.pending = memory.pending \cup {p.name}
            BY <3>1 DEF TypeInv, MemoryOK
        <3>3. \A q \in Done : Ready(q) => Ready(q)'
            BY <2>4, <3>1 DEF Ready, ProviderRule, RulePrefFor, MarkFor, TableFor, Hop,
               Listed
        <3>4. QED
            BY <2>6, <3>1, <3>2, <3>3 DEF TablesReady
    <2>9. CASE SetUpHalf(p) /\ memory' = [memory EXCEPT !.pending = @ \cup {p.name}]
        <3>1. memory'.pending = memory.pending \cup {p.name} /\ flapped' = flapped
            BY <2>9 DEF TypeInv, MemoryOK, SetUpHalf
        <3>2. ASSUME NEW q \in Done, q # p, q.name \notin memory'.pending \cup flapped'
              PROVE  Ready(q)'
            BY <1>0, <2>1, <2>2, <2>4, <2>5, <2>6, <2>9, <3>1, <3>2, SetUpHalfLeaves
               DEF TablesReady
        <3>3. QED
            BY <2>6, <3>1, <3>2 DEF TablesReady
    <2>10. \/ SetUp(p) /\ UNCHANGED memory
           \/ /\ memory' = [memory EXCEPT !.pending = @ \cup {p.name}]
              /\ UNCHANGED <<rules, tables, flapped>> \/ SetUpHalf(p)
        BY <1>6, <2>3 DEF SetUpPolicyRouting
    <2>11. QED
        BY <2>7, <2>8, <2>9, <2>10
<1>7. CASE SetUpSuppress \/ Bootstrap \/ DropBootstrap
    <2>1. /\ UNCHANGED <<cfg, tables, flapped>> /\ pc \in Late /\ pc' \in Late
          /\ memory'.pending = memory.pending
        BY <1>7 DEF SetUpSuppress, Bootstrap, DropBootstrap, Late, TypeInv, MemoryOK
    <2>2. QED
        BY <1>2, <1>3, <2>1 DEF Late
<1>8. CASE PreparePinning
    <2>1. CASE Dead
        BY <1>1, <2>1 DEF Dead
    <2>2. CASE ~Dead
        <3>1. UNCHANGED <<cfg, tables, flapped, memory>> /\ pc \in Late /\ pc' \in Late
            BY <1>8, <2>2 DEF PreparePinning, Refused, Late, routing
        <3>2. QED
            BY <1>2, <1>3, <3>1 DEF Late
    <2>3. QED
        BY <2>1, <2>2
<1>9. ASSUME cfg # None, NEW p \in ProviderSet(C), Retry(p) PROVE TablesReady'
    <2>0. /\ UNCHANGED <<cfg, pc, next>> /\ Running /\ p.name \in memory.pending
          /\ \/ SetUp(p) /\ memory' = [memory EXCEPT !.pending = @ \ {p.name}]
             \/ SetUpHalf(p) /\ UNCHANGED memory
        BY <1>9 DEF Retry
    <2>8. CASE SetUpHalf(p) /\ UNCHANGED memory
        <3>1. Done' = Done /\ Done = ProviderSet(C) /\ pc' # "down"
            BY <1>4, <2>0 DEF Done, Running, Late
        <3>2. ASSUME NEW q \in Done, q.name \notin memory'.pending \cup flapped'
              PROVE  Ready(q)'
            <4>1. q # p /\ Ready(q)
                BY <2>0, <2>8, <3>2 DEF TablesReady, SetUpHalf
            <4>2. QED
                BY <1>0, <1>9, <2>0, <2>8, <3>1, <3>2, <4>1, SetUpHalfLeaves
        <3>3. QED
            BY <3>1, <3>2 DEF TablesReady
    <2> SUFFICES ASSUME SetUp(p), memory' = [memory EXCEPT !.pending = @ \ {p.name}]
                 PROVE  TablesReady'
        BY <2>0, <2>8
    <2>1. /\ SetUp(p) /\ UNCHANGED <<cfg, pc, next>> /\ Running
          /\ memory' = [memory EXCEPT !.pending = @ \ {p.name}]
        BY <2>0
    <2>2. memory'.pending = memory.pending \ {p.name}
        BY <2>1 DEF TypeInv, MemoryOK
    <2>3. flapped' = flapped \ {p.name}
        BY <2>1 DEF SetUp
    <2>4. Done' = ProviderSet(C) /\ Done = ProviderSet(C) /\ pc' # "down"
        BY <1>4, <2>1 DEF Done, Running, Late
    <2>5. /\ Ready(p)'
          /\ \A q \in ProviderSet(C) : q # p /\ Ready(q) => Ready(q)'
        BY <1>0, <1>9, <2>1, <2>4, SetUpReadies
    <2>6. ASSUME NEW q \in ProviderSet(C), q # p, q.name \notin memory'.pending \cup flapped'
          PROVE  Ready(q)'
        <3>1. q.name # p.name
            BY <1>0, <1>9, <2>6, ProvidersDiffer
        <3>2. Ready(q)
            BY <2>2, <2>3, <2>4, <2>6, <3>1 DEF TablesReady
        <3>3. QED
            BY <2>5, <2>6, <3>2
    <2>7. QED
        BY <2>4, <2>5, <2>6 DEF TablesReady
<1>10. ASSUME cfg # None, NEW p \in ProviderSet(C), Aim(p) \/ Replace(p) PROVE TablesReady'
    <2>1. /\ UNCHANGED <<cfg, tables, flapped>> /\ pc \in Late /\ pc' \in Late
          /\ memory'.pending = memory.pending
        BY <1>10 DEF Aim, Replace, Late, routing, TypeInv, MemoryOK
    <2>2. QED
        BY <1>2, <1>3, <2>1 DEF Late
<1>11. ASSUME NEW i \in Interfaces, LinkUp(i) PROVE TablesReady'
    <2>1. UNCHANGED <<daemon, tables, flapped>>
        BY <1>11 DEF LinkUp
    <2>2. CASE pc' = "down"
        BY <1>1, <2>2
    <2>3. QED
        BY <1>2, <1>4, <2>1, <2>2 DEF daemon
<1>12. ASSUME NEW i \in Interfaces, LinkDown(i) PROVE TablesReady'
    <2>1. CASE pc = "down"
        BY <1>1, <1>12, <2>1 DEF LinkDown, daemon
    <2>2. CASE pc # "down"
        <3>1. /\ UNCHANGED <<cfg, pc, next, memory, rules>>
              /\ flapped' = flapped \cup {p.name : p \in {q \in ProviderSet(C) : q.interface = i}}
              /\ tables' = [t \in {t \in DOMAIN tables : tables[t].dev # i} |-> tables[t]]
            BY <1>12, <2>2 DEF LinkDown, daemon
        <3>2. Done' = Done /\ C' = C
            BY <1>4, <3>1 DEF C
        <3>3. Done \subseteq ProviderSet(C)
            <4>1. cfg \in Started
                BY <1>0, <2>2 DEF Position
            <4>2. pc = "policy" => \A n \in 1..(next - 1) : n \in 1..Len(C.providers)
                BY <1>0, <4>1, ListOfProviders DEF Position, C
            <4>3. QED
                BY <4>1, <4>2, ListOfProviders DEF Done, C
        <3>4. ASSUME NEW p \in Done, p.name \notin memory'.pending \cup flapped'
              PROVE  Ready(p)'
            <4>1. p.interface # i /\ Ready(p)
                BY <3>1, <3>3, <3>4 DEF TablesReady
            <4>2. Hop(p).dev = p.interface
                BY DEF Hop
            <4>3. TableFor(C, p) \in DOMAIN tables' /\ tables'[TableFor(C, p)] = Hop(p)
                BY <3>1, <4>1, <4>2 DEF Ready
            <4>4. QED
                BY <3>1, <3>2, <4>1, <4>3 DEF Ready, ProviderRule, RulePrefFor, MarkFor,
                   TableFor, Hop, Listed
        <3>5. QED
            BY <3>2, <3>4 DEF TablesReady
    <2>3. QED
        BY <2>1, <2>2
<1>13. CASE UNCHANGED vars \/ \E f \in Settings : Edit(f)
    <2>1. UNCHANGED <<daemon, tables, flapped>>
        BY <1>13 DEF vars, Edit, kernel, routing
    <2>2. CASE pc' = "down"
        BY <1>1, <2>2
    <2>3. QED
        BY <1>2, <1>4, <2>1, <2>2 DEF daemon
<1>14. QED
    BY <1>5, <1>6, <1>7, <1>8, <1>9, <1>10, <1>11, <1>12, <1>13 DEF Next, Prepare

LEMMA SuppressReadyStep == TypeInv /\ SuppressReady /\ [Next]_vars => SuppressReady'
<1> SUFFICES ASSUME TypeInv, SuppressReady, [Next]_vars,
                    (pc \in Late \ {"suppress"})', "suppress" \notin refused'
             PROVE  (SuppressRule \in Listed(rules))'
    BY DEF SuppressReady
<1>0. Position /\ RulesOK /\ MemoryOK
    BY DEF TypeInv
<1>1. CASE SetUpSuppress
    <2>1. rules' = Refreshed(rules, SuppressRule) /\ UNCHANGED cfg /\ cfg # None
        BY <1>0, <1>1 DEF SetUpSuppress, Position
    <2> DEFINE rule == SuppressRule
    <2>2. rule \in Known
        BY <1>0, <2>1 DEF Position, SuppressRule, SuppressOf, Known, C
    <2>3. rules \in Seq(Known) /\ InOrder(rules)
        BY <1>0 DEF RulesOK
    <2>4. SuppressRule' = rule
        BY <2>1 DEF SuppressRule, SuppressPref, C
    <2>5. rules' = Refreshed(rules, rule)
        BY <2>1
    <2> HIDE DEF rule
    <2>6. Listed(Refreshed(rules, rule)) = Listed(rules) \cup {rule}
        BY ONLY <2>2, <2>3, KnownPreferences, RefreshedInOrder
    <2>7. QED
        BY <2>4, <2>5, <2>6 DEF Listed
<1>2. ASSUME pc \in Late \ {"suppress"}, UNCHANGED cfg, refused \subseteq refused'
      PROVE  (SuppressRule \in Listed(rules))'
    <2>1. SuppressRule \in Listed(rules) /\ SuppressRule' = SuppressRule
        BY <1>2 DEF SuppressReady, SuppressRule, SuppressPref, C
    <2>2. cfg # None /\ pc' # "down"
        BY <1>0, <1>2 DEF Position, Late
    <2>3. SuppressRule \in Listed(rules')
        BY <1>0, <1>2, <2>1, <2>2, RulesStay
    <2>4. QED
        BY <2>1, <2>3 DEF Listed
<1>3. CASE Start \/ TuneSysctl \/ ConfigureNat \/ SetUpPolicyRouting \/ Kill \/ Reboot
    BY <1>3 DEF Start, TuneSysctl, ConfigureNat, SetUpPolicyRouting, Kill, Reboot, Refused,
       Dead, Late
<1>4. CASE PreparePinning \/ Bootstrap \/ DropBootstrap
    <2>1. pc \in Late \ {"suppress"} /\ UNCHANGED cfg /\ refused \subseteq refused'
        BY <1>4 DEF PreparePinning, RemovalRefused, Bootstrap, DropBootstrap, Refused, Dead,
           Late
    <2>2. QED
        BY <1>2, <2>1
<1>5. ASSUME NEW p \in ProviderSet(C), Retry(p) \/ Aim(p) \/ Replace(p)
      PROVE  (SuppressRule \in Listed(rules))'
    <2>1. pc \in Late \ {"suppress"} /\ UNCHANGED <<cfg, refused>>
        BY <1>5 DEF Retry, Aim, Replace, Running, Late
    <2>2. QED
        BY <1>2, <2>1
<1>6. CASE UNCHANGED daemon
    BY <1>2, <1>6 DEF daemon
<1>7. QED
    BY <1>1, <1>3, <1>4, <1>5, <1>6 DEF Next, Prepare, Edit, LinkUp, LinkDown, vars

\* The three answers a rule can give.
LEMMA AnswerOfSuppress ==
    ASSUME NEW r, NEW mark, r.table = MainTable
    PROVE  Answer(r, mark, "local") = Direct /\ Answer(r, mark, "internet") = None
BY DEF Answer

LEMMA AnswerOfProvider ==
    ASSUME NEW r, NEW mark, r.table # MainTable
    PROVE  Answer(r, mark, "internet") =
               IF /\ Masked(mark, r.mask) = Masked(r.mark, r.mask)
                  /\ r.table \in DOMAIN tables
               THEN tables[r.table] ELSE None
BY DEF Answer

\* The suppress rule is the first of all.
LEMMA SuppressAnswersFirst ==
    ASSUME OneNumbering, TypeInv, SuppressReady, Running, "suppress" \notin refused, NEW mark
    PROVE  Egress(mark, "local") = Direct
<1> DEFINE answering == {i \in DOMAIN rules : Answer(rules[i], mark, "local") # None}
           first == CHOOSE i \in answering : \A j \in answering : i <= j
<1>1. cfg \in Started /\ rules \in Seq(Known) /\ InOrder(rules)
    BY DEF TypeInv, Position, RulesOK, Running
<1>2. PICK k \in DOMAIN rules : rules[k] = SuppressRule
    BY DEF SuppressReady, Running, Late, Listed
<1>3. DOMAIN rules = 1..Len(rules) /\ Len(rules) \in Nat
    BY <1>1
<1>4. Direct # None
    BY SettingAssumption DEF Direct
<1>5. Answer(rules[k], mark, "local") = Direct
    BY <1>2, AnswerOfSuppress DEF SuppressRule
<1>6. ASSUME NEW i \in DOMAIN rules, i < k PROVE FALSE
    <2>1. rules[i] # SuppressRule /\ rules[i].pref <= SuppressPref(C)
        BY <1>1, <1>2, <1>6 DEF InOrder, SuppressRule
    <2>2. rules[i] \in Known
        BY <1>1
    <2>3. ASSUME NEW s \in Started, rules[i] = SuppressOf(Setting[s]) PROVE FALSE
        <3>1. Setting[s].routing.rule_pref = C.routing.rule_pref
            BY <1>1 DEF OneNumbering, C
        <3>2. QED
            BY <2>1, <2>3, <3>1 DEF SuppressOf, SuppressRule, SuppressPref
    <2>4. ASSUME NEW s \in Started, NEW p \in ProviderSet(Setting[s]),
                 rules[i] = RuleOf(Setting[s], p)
          PROVE  FALSE
        <3>1. Setting[s].routing.rule_pref = C.routing.rule_pref
            BY <1>1 DEF OneNumbering, C
        <3>2. Typed(Setting[s]) /\ Accepted(Setting[s])
            BY SettingAssumption DEF Started
        <3>3. SuppressPref(Setting[s]) < RulePrefFor(Setting[s], p)
            BY <3>2, NumbersAreUsable
        <3>4. rules[i].pref = RulePrefFor(Setting[s], p)
            BY <2>4 DEF RuleOf
        <3>5. Setting[s].routing.rule_pref \in Int /\ RulePrefFor(Setting[s], p) \in Int
            <4>1. /\ p.priority \in Nat /\ Setting[s].routing.rule_pref \in Nat
                  /\ RulePrefFor(Setting[s], p) = Setting[s].routing.rule_pref + p.priority
                BY <3>2, PlainNumbers
            <4>2. QED
                BY <4>1
        <3>6. QED
            BY <2>1, <3>1, <3>3, <3>4, <3>5 DEF SuppressPref
    <2>5. QED
        BY <2>2, <2>3, <2>4 DEF Known
<1>7. k \in answering /\ \A j \in answering : k <= j
    <2>1. k \in answering
        BY <1>4, <1>5
    <2>2. \A j \in answering : j \in DOMAIN rules
        OBVIOUS
    <2>3. \A j \in DOMAIN rules : k <= j
        BY <1>3, <1>6
    <2>4. QED
        BY <2>1, <2>2, <2>3
<1>8. answering \subseteq Int
    BY <1>3
<1>9. Egress(mark, "local") = IF answering # {} THEN Answer(rules[first], mark, "local")
                              ELSE Direct
    BY DEF Egress
<1> HIDE DEF answering
<1>10. first = k
    <2>1. first \in answering /\ \A j \in answering : first <= j
        BY <1>7
    <2>2. QED
        BY <1>7, <1>8, <2>1
<1> HIDE DEF first
<1>11. QED
    BY <1>5, <1>7, <1>9, <1>10

\* Whatever answers a provider's mark, answers with the provider's route.
LEMMA MarkAnswersAlike ==
    ASSUME OneNumbering, TypeInv, Running, NEW p \in ProviderSet(C), Ready(p)
    PROVE  Egress(MarkFor(C, p), "internet") = Hop(p)
<1> DEFINE mark == MarkFor(C, p)
           answering == {i \in DOMAIN rules : Answer(rules[i], mark, "internet") # None}
           first == CHOOSE i \in answering : \A j \in answering : i <= j
<1>1. cfg \in Started /\ rules \in Seq(Known) /\ Position /\ cfg # None
    BY DEF TypeInv, Position, RulesOK, Running
<1>2. Typed(C) /\ Accepted(C)
    BY <1>1, SettingAssumption DEF Started, C
<1>3. DOMAIN rules = 1..Len(rules) /\ Len(rules) \in Nat
    BY <1>1
<1>4. Hop(p) # None
    BY <1>1, PresentProvider
<1>5. PICK k \in DOMAIN rules : rules[k] = ProviderRule(p)
    BY DEF Ready, Listed
<1>6. Answer(rules[k], mark, "internet") = Hop(p)
    <2>1. TableFor(C, p) # MainTable
        BY <1>2, NumbersAreUsable DEF ReservedTables, MainTable
    <2>2. /\ rules[k].table = TableFor(C, p) /\ rules[k].mark = mark
        BY <1>5 DEF ProviderRule
    <2>3. QED
        BY <2>1, <2>2, AnswerOfProvider DEF Ready
<1>7. ASSUME NEW i \in answering PROVE Answer(rules[i], mark, "internet") = Hop(p)
    <2>1. rules[i] \in Known /\ Answer(rules[i], mark, "internet") # None
        BY <1>1
    <2>2. ASSUME NEW s \in Started, rules[i] = SuppressOf(Setting[s]) PROVE FALSE
        BY <2>1, <2>2, AnswerOfSuppress DEF SuppressOf
    <2>3. ASSUME NEW s \in Started, NEW q \in ProviderSet(Setting[s]),
                 rules[i] = RuleOf(Setting[s], q)
          PROVE  Answer(rules[i], mark, "internet") = Hop(p)
        <3> DEFINE c == Setting[s]
                   mask == c.routing.fwmark_mask
        <3>1. Typed(c) /\ Accepted(c)
            BY SettingAssumption DEF Started
        <3>2. TableFor(c, q) # MainTable
            BY <3>1, NumbersAreUsable DEF ReservedTables, MainTable
        <3>3. /\ rules[i].table = TableFor(c, q) /\ rules[i].mark = MarkFor(c, q)
              /\ rules[i].mask = mask
            BY <2>3 DEF RuleOf
        <3>4. /\ Masked(mark, mask) = Masked(MarkFor(c, q), mask)
              /\ Answer(rules[i], mark, "internet") = tables[TableFor(c, q)]
            BY <2>1, <3>2, <3>3, AnswerOfProvider
        <3>5. /\ c.routing.table_base = C.routing.table_base
              /\ q.priority = p.priority
            BY <1>1, <3>4 DEF OneNumbering, C
        <3>6. TableFor(c, q) = TableFor(C, p)
            BY <3>5 DEF TableFor
        <3>7. QED
            BY <3>4, <3>6 DEF Ready
    <2>4. QED
        BY <2>1, <2>2, <2>3 DEF Known
<1>8. answering # {} /\ answering \in SUBSET Nat
    BY <1>3, <1>4, <1>6
<1>9. Egress(mark, "internet") = IF answering # {}
                                 THEN Answer(rules[first], mark, "internet")
                                 ELSE IF main = {} THEN None
                                      ELSE (CHOOSE r \in Best : TRUE).hop
    BY DEF Egress
<1> HIDE DEF answering, mark
<1>10. first \in answering
    <2>1. \E n \in answering : \A m \in answering : n <= m
        BY ONLY <1>8, LeastNumber
    <2>2. QED
        BY <2>1
<1> HIDE DEF first
<1>11. Egress(mark, "internet") = Hop(p)
    BY <1>7, <1>8, <1>9, <1>10
<1>12. QED
    BY <1>11 DEF mark

\* setup_provider_policy_route and the suppress rule (system::prepare) for any
\* sequence of configurations that number alike, through refusals, kills, reboots
\* and lost links: a marked probe leaves through its own provider whatever rules,
\* tables and routes earlier runs have left, and marked packets for a destination
\* that main knows specifically stay off the uplinks, unless this start was
\* refused the suppress rule.
THEOREM MarksSelect == ASSUME OneNumbering PROVE Spec => []MarksSelectUplinks
<1>1. Init => TablesReady /\ SuppressReady
    BY DEF Init, TablesReady, Done, SuppressReady, Late
<1>2. TypeInv /\ TablesReady /\ SuppressReady => MarksSelectUplinks
    <2> SUFFICES ASSUME TypeInv, TablesReady, SuppressReady, Running, NEW p \in ProviderSet(C)
                 PROVE  /\ "suppress" \notin refused => Egress(MarkFor(C, p), "local") = Direct
                        /\ p.name \notin memory.pending \cup flapped
                           => Egress(MarkFor(C, p), "internet") = Hop(p)
        BY DEF MarksSelectUplinks
    <2>1. p \in Done
        BY DEF Done, Running, Late
    <2>2. QED
        BY <2>1, SuppressAnswersFirst, MarkAnswersAlike DEF TablesReady
<1>3. QED
    BY <1>1, <1>2, TypeInvInit, TypeInvStep, TablesReadyStep, SuppressReadyStep, PTL DEF Spec
=============================================================================

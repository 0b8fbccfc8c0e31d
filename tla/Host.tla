-------------------------------- MODULE Host --------------------------------
(***************************************************************************)
(* What the daemon makes of the machine it runs on: system::prepare        *)
(* (net/system.rs) step by step, the switching on and off of connection    *)
(* pinning (net/pin.rs), the adoption of what a previous run left, and the *)
(* two later changes of policy routing and of the provisional default:     *)
(* the retries of the health loops and the first elected route.            *)
(*                                                                         *)
(* The kernel outlives the daemon.  Between two runs the operator may edit *)
(* the configuration, so a start meets the rules, tables and routes of     *)
(* another one.  Which provider is elected, and when, is Gateway's and     *)
(* Failover's matter: any one whose probes can pass may be.                *)
(***************************************************************************)
EXTENDS Config

CONSTANTS
    None,
    Settings,   \* configuration files the operator tries
    Setting,    \* what each of them says
    Faults

ASSUME HostAssumption ==
    /\ DOMAIN Setting = Settings
    /\ Faults \subseteq {"refuse", "kill", "reboot", "link"}

\* Numbers have the width serde gives them; None is none of the values it
\* stands beside.
ASSUME SettingAssumption ==
    /\ None \notin Settings /\ None # [via |-> None, dev |-> None]
    /\ \A s \in Settings :
          /\ Typed(Setting[s])
          /\ \A p \in ProviderSet(Setting[s]) :
                /\ None # p.name
                /\ None # [via |-> p.gateway, dev |-> p.interface]

VARIABLES
    file,      \* what the configuration file says now
    cfg,       \* what the daemon read at its start
    pc,        \* how far prepare is; "up", "replace" or "tidy" later
    next,      \* the provider whose table prepare sets up next
    target,    \* the provider being elected
    memory,    \* policy_pending, owns_bootstrap and active
    refused,   \* history: what this start was refused and went on without
    flapped,   \* history: providers whose link was lost after their table was set up
    links,     \* interfaces that can be used
    rules,     \* `ip rule` between local and main, in order
    tables,    \* the default route of each table that has one
    main,      \* the default routes of the main table
    firewall,  \* IP forwarding, the FORWARD policy and MASQUERADE rules
    pinning    \* the LAN interfaces hooked to VLB_PIN, the mark it gives

daemon == <<cfg, pc, next, target, memory, refused>>
routing == <<rules, tables, main>>
kernel == <<flapped, links, routing, firewall, pinning>>
vars == <<file, daemon, kernel>>

C == Setting[cfg]
Fault(f) == f \in Faults

Hop(p) == [via |-> p.gateway, dev |-> p.interface]
Interfaces == UNION {{p.interface : p \in ProviderSet(Setting[s])} : s \in Settings}

\* Metric 0 is the balancer's, 4096 the provisional route's.
Ranks == <<"vlb", "other", "bootstrap">>
Better(a, b) ==
    \E i, j \in DOMAIN Ranks : i < j /\ Ranks[i] = a.kind /\ Ranks[j] = b.kind

Defaults0(kind) == {r \in main : r.kind = kind}
Best == {r \in main : \A s \in main : ~Better(s, r)}

NoMemory == [pending |-> {}, owns |-> FALSE, active |-> None]

Init ==
    /\ file \in Settings
    /\ cfg = None /\ pc = "down" /\ next = 1 /\ target = None /\ memory = NoMemory
    /\ links \in SUBSET Interfaces /\ flapped = {} /\ refused = {}
    /\ rules = <<>> /\ tables = [t \in {} |-> None] /\ main = {}
    /\ firewall = [forward |-> FALSE, accept |-> FALSE, nat |-> {}]
    /\ pinning = [jump |-> {}, mark |-> None]

Dead ==
    /\ cfg' = None /\ pc' = "down" /\ next' = 1 /\ target' = None
    /\ memory' = NoMemory /\ flapped' = {} /\ refused' = {}

-----------------------------------------------------------------------------
(***************************************************************************)
(* `ip rule`: rules are tried in the order of their preference, those of   *)
(* one preference in the order they were added.                            *)
(***************************************************************************)
MainTable == 254

ProviderRule(p) ==
    [pref |-> RulePrefFor(C, p), mark |-> MarkFor(C, p), mask |-> C.routing.fwmark_mask,
     table |-> TableFor(C, p)]

SuppressRule ==
    [pref |-> SuppressPref(C), mark |-> 0, mask |-> 0, table |-> MainTable]

\* The rules at the positions P, in their order.
Sift(rs, P) ==
    LET nth(n) == CHOOSE i \in P : Cardinality({j \in P : j <= i}) = n
    IN  [n \in 1..Cardinality(P) |-> rs[nth(n)]]

\* mutant: what an earlier run left is not drained.
DrainedNone(rs, rule) == rs

Drained(rs, rule) == Sift(rs, {i \in DOMAIN rs : rs[i] # rule})

Added(rs, rule) ==
    LET earlier == {i \in DOMAIN rs : rs[i].pref <= rule.pref}
    IN  Sift(rs, earlier) \o <<rule>> \o Sift(rs, DOMAIN rs \ earlier)

Refreshed(rs, rule) == Added(Drained(rs, rule), rule)

\* What rule r says of a packet with this mark: the suppress rule declines to
\* answer with a default route, a provider's table has nothing else.
Direct == [via |-> None, dev |-> None]
Answer(r, mark, dest) ==
    CASE r.table = MainTable -> IF dest = "local" THEN Direct ELSE None
      [] r.table # MainTable ->
            IF /\ Masked(mark, r.mask) = Masked(r.mark, r.mask)
               /\ r.table \in DOMAIN tables
            THEN tables[r.table] ELSE None

\* Where the kernel sends a packet with this mark.
Egress(mark, dest) ==
    LET answering == {i \in DOMAIN rules : Answer(rules[i], mark, dest) # None}
    IN  IF answering # {}
        THEN LET first == CHOOSE i \in answering : \A j \in answering : i <= j
             IN  Answer(rules[first], mark, dest)
        ELSE IF dest = "local" THEN Direct
        ELSE IF main = {} THEN None ELSE (CHOOSE r \in Best : TRUE).hop

-----------------------------------------------------------------------------
(***************************************************************************)
(* The start, in the order of `prepare`.  What may refuse ends it, and the *)
(* service manager tries again.                                            *)
(***************************************************************************)
Start ==
    /\ pc = "down"
    /\ Accepted(Setting[file])
    /\ cfg' = file /\ pc' = "sysctl"
    /\ UNCHANGED <<file, next, target, memory, refused, kernel>>

Refused == Fault("refuse") /\ Dead /\ UNCHANGED <<file, links, routing, pinning>>

\* Already set is as good as settable.
TuneSysctl ==
    /\ pc = "sysctl"
    /\ \/ /\ firewall' = [firewall EXCEPT !.forward = TRUE]
          /\ pc' = IF C.firewall.manage THEN "nat" ELSE "policy"
          /\ UNCHANGED <<file, refused, cfg, next, target, memory, flapped, links, routing, pinning>>
       \/ ~firewall.forward /\ Refused /\ UNCHANGED firewall

NatInterfaces(c) ==
    IF c.firewall.wan_interface = Unset THEN {p.interface : p \in ProviderSet(c)}
    ELSE {c.firewall.wan_interface}

ConfigureNat ==
    /\ pc = "nat"
    /\ \/ /\ firewall' = [firewall EXCEPT !.nat = @ \cup NatInterfaces(C), !.accept = TRUE]
          /\ pc' = "policy"
          /\ UNCHANGED <<file, refused, cfg, next, target, memory, flapped, links, routing, pinning>>
       \/ \E done \in SUBSET NatInterfaces(C) :
             firewall' = [firewall EXCEPT !.nat = @ \cup done] /\ Refused

\* mutant: a table that has a route keeps it.
SetUpKeeping(p) ==
    /\ tables' = [t \in DOMAIN tables \cup {TableFor(C, p)} |->
                    IF t \in DOMAIN tables THEN tables[t] ELSE Hop(p)]
    /\ rules' = Refreshed(rules, ProviderRule(p))
    /\ flapped' = flapped \ {p.name}

\* setup_provider_policy_route; fails while the interface is not usable.
Routed(p) ==
    [t \in DOMAIN tables \cup {TableFor(C, p)} |->
        IF t = TableFor(C, p) THEN Hop(p) ELSE tables[t]]

SetUp(p) ==
    /\ tables' = Routed(p)
    /\ rules' = Refreshed(rules, ProviderRule(p))
    /\ flapped' = flapped \ {p.name}

\* A rule that could not be deleted cannot be added a second time either.
SetUpHalf(p) ==
    /\ Fault("refuse")
    /\ tables' \in {tables, Routed(p)}
    /\ rules' \in {rules, Drained(rules, ProviderRule(p))}
    /\ tables' = tables => rules' = rules
    /\ UNCHANGED flapped

SetUpPolicyRouting ==
    /\ pc = "policy"
    /\ LET p == C.providers[next]
       IN  \/ p.interface \in links /\ SetUp(p) /\ UNCHANGED memory
          \/ /\ \/ p.interface \notin links /\ UNCHANGED <<rules, tables, flapped>>
                \/ p.interface \in links /\ SetUpHalf(p)
             /\ memory' = [memory EXCEPT !.pending = @ \cup {p.name}]
    /\ IF next < Len(C.providers)
       THEN next' = next + 1 /\ UNCHANGED pc
       ELSE next' = 1 /\ pc' = "suppress"
    /\ UNCHANGED <<file, refused, cfg, target, links, main, firewall, pinning>>

\* The only step of the start that is warned about and gone without.
SetUpSuppress ==
    /\ pc = "suppress"
    /\ \/ rules' = Refreshed(rules, SuppressRule) /\ UNCHANGED refused
       \/ /\ Fault("refuse")
          /\ rules' \in {rules, Drained(rules, SuppressRule)}
          /\ refused' = refused \cup {"suppress"}
    /\ pc' = "pin"
    /\ UNCHANGED <<file, cfg, next, target, memory, flapped, links, tables, main, firewall, pinning>>

\* mutant: the hook is removed and the chain is left as it is.
RemovedUnflushed(lan) == [pinning EXCEPT !.jump = @ \ {lan}]

\* pin::remove.  A chain that is still hooked elsewhere is emptied and stays.
Removed(lan) == [jump |-> pinning.jump \ {lan}, mark |-> None]

\* Nothing it does is looked at: the hook or what the chain says may stay.
RemovalRefused(lan) ==
    /\ Fault("refuse")
    /\ pinning' \in [jump : {pinning.jump, pinning.jump \ {lan}}, mark : {pinning.mark, None}]
    /\ refused' = IF pinning'.mark = None THEN refused ELSE refused \cup {"pinning"}

PreparePinning ==
    /\ pc = "pin"
    /\ \/ /\ \/ C.routing.pin_connections /\ UNCHANGED <<pinning, refused>>
             \/ /\ ~C.routing.pin_connections
                /\ \/ pinning' = Removed(C.general.lan_interface) /\ UNCHANGED refused
                   \/ RemovalRefused(C.general.lan_interface)
          /\ pc' = "bootstrap"
          /\ UNCHANGED <<file, cfg, next, target, memory, flapped, links, routing, firewall>>
       \/ C.routing.pin_connections /\ Refused /\ UNCHANGED firewall

\* The provider with the lowest number.
First == CHOOSE p \in ProviderSet(C) : \A q \in ProviderSet(C) : p.priority <= q.priority

\* ensure_bootstrap_default: a default of any kind is left alone, and one that
\* has the shape of a provisional one is taken over.
Bootstrapped ==
    IF main = {} /\ First.interface \in links
    THEN {[kind |-> "bootstrap", hop |-> Hop(First)]} ELSE main

OwnsBootstrap ==
    \/ main = {} /\ First.interface \in links
    \/ main # {} /\ \A r \in main : r.kind = "bootstrap"

\* Balancer::new: a route that vlb installed is adopted, if it is a provider's.
Adopted(routes) ==
    {p \in ProviderSet(C) : [kind |-> "vlb", hop |-> Hop(p)] \in routes}


Bootstrap ==
    /\ pc = "bootstrap"
    /\ main' = Bootstrapped
    /\ memory' = [memory EXCEPT !.owns = OwnsBootstrap,
                    !.active = IF Adopted(main') = {} THEN None
                               ELSE (CHOOSE p \in Adopted(main') : TRUE).name]
    /\ pc' = "up"
    /\ UNCHANGED <<file, refused, cfg, next, target, flapped, links, rules, tables, firewall, pinning>>

-----------------------------------------------------------------------------
(***************************************************************************)
(* Up: tables that could not be set up are tried again, and a provider     *)
(* whose probes pass may be elected.  A probe carries its provider's mark; *)
(* its reply does not, and rp_filter drops it when main has no default.    *)
(***************************************************************************)
Running == pc \in {"up", "replace", "tidy"}

Retry(p) ==
    /\ Running /\ p.name \in memory.pending /\ p.interface \in links
    /\ \/ SetUp(p) /\ memory' = [memory EXCEPT !.pending = @ \ {p.name}]
       \/ SetUpHalf(p) /\ UNCHANGED memory
    /\ UNCHANGED <<file, refused, cfg, pc, next, target, links, main, firewall, pinning>>

ProbesPass(p) ==
    /\ p.name \notin memory.pending
    /\ p.interface \in links
    /\ Egress(MarkFor(C, p), "internet") # None
    /\ main # {}

\* mutant: the provisional route goes first.
AimTidying(p) ==
    /\ pc = "up" /\ ProbesPass(p)
    /\ pc' = "replace" /\ target' = p.name
    /\ main' = IF memory.owns THEN main \ Defaults0("bootstrap") ELSE main
    /\ UNCHANGED <<file, refused, cfg, next, memory, flapped, links, rules, tables, firewall, pinning>>

Aim(p) ==
    /\ pc = "up" /\ ProbesPass(p)
    /\ pc' = "replace" /\ target' = p.name
    /\ pinning' = IF C.routing.pin_connections /\ C.general.lan_interface # Unset
                  THEN [jump |-> pinning.jump \cup {C.general.lan_interface},
                        mark |-> MarkFor(C, p)]
                  ELSE pinning
    /\ UNCHANGED <<file, refused, cfg, next, memory, flapped, links, routing, firewall>>

Replace(p) ==
    /\ pc = "replace" /\ p.name = target
    /\ IF p.interface \in links
       THEN /\ main' = (main \ Defaults0("vlb")) \cup {[kind |-> "vlb", hop |-> Hop(p)]}
            /\ memory' = [memory EXCEPT !.active = p.name]
            /\ pc' = "tidy"
       ELSE pc' = "up" /\ UNCHANGED <<main, memory>>
    /\ target' = None
    /\ UNCHANGED <<file, refused, cfg, next, flapped, links, rules, tables, firewall, pinning>>

DropBootstrap ==
    /\ pc = "tidy"
    /\ main' = IF memory.owns THEN main \ Defaults0("bootstrap") ELSE main
    /\ memory' = [memory EXCEPT !.owns = FALSE]
    /\ pc' = "up"
    /\ UNCHANGED <<file, refused, cfg, next, target, flapped, links, rules, tables, firewall, pinning>>

-----------------------------------------------------------------------------
(***************************************************************************)
(* Surroundings.  An interface that comes up may bring a default route     *)
(* with it; the kernel drops the routes over one that goes down.           *)
(***************************************************************************)
Edit(f) ==
    /\ pc = "down" /\ f # file
    /\ file' = f
    /\ UNCHANGED <<daemon, kernel>>

LinkUp(i) ==
    /\ i \notin links
    /\ links' = links \cup {i}
    /\ \/ UNCHANGED main
       \/ /\ Defaults0("other") = {}
          /\ main' = main \cup {[kind |-> "other", hop |-> [via |-> "dhcp", dev |-> i]]}
    /\ UNCHANGED <<file, daemon, flapped, rules, tables, firewall, pinning>>

LinkDown(i) ==
    /\ Fault("link") /\ i \in links
    /\ links' = links \ {i}
    /\ flapped' = IF pc = "down" THEN {}
                  ELSE flapped \cup {p.name : p \in {q \in ProviderSet(C) : q.interface = i}}
    /\ main' = {r \in main : r.hop.dev # i}
    /\ tables' = [t \in {t \in DOMAIN tables : tables[t].dev # i} |-> tables[t]]
    /\ UNCHANGED <<file, daemon, rules, firewall, pinning>>

Kill ==
    /\ Fault("kill") /\ pc # "down" /\ Dead
    /\ UNCHANGED <<file, links, routing, firewall, pinning>>

\* Only what was written to /etc/sysctl.d survives a reboot.
Reboot ==
    /\ Fault("reboot")
    /\ Dead
    /\ links' = {} /\ rules' = <<>> /\ tables' = [t \in {} |-> None] /\ main' = {}
    /\ \E kept \in {FALSE, firewall.forward} :
          firewall' = [forward |-> kept, accept |-> FALSE, nat |-> {}]
    /\ pinning' = [jump |-> {}, mark |-> None]
    /\ UNCHANGED file

Prepare ==
    \/ TuneSysctl \/ ConfigureNat \/ SetUpPolicyRouting \/ SetUpSuppress
    \/ PreparePinning \/ Bootstrap

Next ==
    \/ \E f \in Settings : Edit(f)
    \/ Start \/ Prepare
    \/ cfg # None /\ \E p \in ProviderSet(C) : Retry(p) \/ Aim(p) \/ Replace(p)
    \/ DropBootstrap
    \/ \E i \in Interfaces : LinkUp(i) \/ LinkDown(i)
    \/ Kill \/ Reboot

Spec == Init /\ [][Next]_vars

-----------------------------------------------------------------------------
Hops == [via : {p.gateway : p \in UNION {ProviderSet(Setting[s]) : s \in Settings}}
               \cup {"dhcp"},
         dev : Interfaces]

Names == UNION {{p.name : p \in ProviderSet(Setting[s])} : s \in Settings}

(***************************************************************************)
(* Types; and starting again, with the same or another configuration, does *)
(* not pile up rules or routes: every rule is there once, and of the       *)
(* default routes one of each kind.                                        *)
(***************************************************************************)
TypeOK ==
    /\ file \in Settings /\ cfg \in Settings \cup {None}
    /\ pc \in {"down", "sysctl", "nat", "policy", "suppress", "pin", "bootstrap",
               "up", "replace", "tidy"}
    /\ cfg = None <=> pc = "down"
    /\ target \in Names \cup {None} /\ (pc = "replace" <=> target # None)
    /\ memory \in [pending : SUBSET Names, owns : BOOLEAN, active : Names \cup {None}]
    /\ links \subseteq Interfaces /\ refused \subseteq {"suppress", "pinning"}
    /\ DOMAIN tables \subseteq U32 /\ \A t \in DOMAIN tables : tables[t] \in Hops
    /\ main \subseteq [kind : {"vlb", "other", "bootstrap"}, hop : Hops]
    /\ \A r, s \in main : r.kind = s.kind => r = s
    /\ firewall.forward \in BOOLEAN /\ firewall.accept \in BOOLEAN
    /\ pinning.mark = None \/ pinning.mark \in U32
    /\ \A i, j \in DOMAIN rules : i < j => /\ rules[i] # rules[j]
                                           /\ rules[i].pref <= rules[j].pref

(***************************************************************************)
(* Policy routing does what its marks are for, whatever an earlier run     *)
(* with another configuration left behind: a probe of a provider whose     *)
(* table is set up goes out through that provider and no other, "letting   *)
(* us verify each provider's internet reachability independently"          *)
(* (core/config.rs:706); and a marked packet for a destination that main   *)
(* knows specifically stays off every uplink (net/system.rs:641), unless   *)
(* this start was refused the suppress rule and went on with a warning.    *)
(***************************************************************************)
MarksSelectUplinks ==
    Running =>
        \A p \in ProviderSet(C) :
            /\ "suppress" \notin refused => Egress(MarkFor(C, p), "local") = Direct
            /\ /\ p.name \notin memory.pending \cup flapped
               /\ p.interface \in links
               => Egress(MarkFor(C, p), "internet") = Hop(p)

(***************************************************************************)
(* "Any uplink can be verified at any time" (README.md:76).  Not one whose *)
(* link went down and came back: the kernel dropped the route of its       *)
(* table, a table that was set up is not looked at again, and its probes   *)
(* go out through whichever provider main prefers.                         *)
(***************************************************************************)
ProbesTestTheirOwnUplink ==
    Running =>
        \A p \in ProviderSet(C) :
            p.name \notin memory.pending /\ p.interface \in links
                => Egress(MarkFor(C, p), "internet") = Hop(p)

(***************************************************************************)
(* A daemon that is up has applied what its configuration says, through    *)
(* refusals, kills and leftovers: clients are forwarded and, where it      *)
(* manages the firewall, accepted and translated on every uplink, also one *)
(* that is not usable yet; and with pinning off nothing is stamped,        *)
(* whatever the configuration before stamped and on whatever LAN, unless   *)
(* this start was refused the flush of the chain: pin::remove looks at no  *)
(* result, although "turning the feature off has to actually turn it off"  *)
(* (net/system.rs:176).                                                    *)
(***************************************************************************)
SettingsAreApplied ==
    Running =>
        /\ firewall.forward
        /\ C.firewall.manage /\ C.firewall.wan_interface = Unset =>
              /\ firewall.accept
              /\ \A p \in ProviderSet(C) : p.interface \in firewall.nat
        /\ ~C.routing.pin_connections /\ "pinning" \notin refused => pinning.mark = None

(***************************************************************************)
(* The daemon never takes away the last default route: replies to its      *)
(* probes need one (net/system.rs:195), so without it no provider could be *)
(* found to work.  Only an elected uplink that is lost between the two     *)
(* commands of its installation leaves none.                               *)
(***************************************************************************)
NeverWithoutDefault ==
    [][main # {} /\ main' = {} => links' # links \/ memory.active \in flapped]_vars
=============================================================================

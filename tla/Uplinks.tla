------------------------------ MODULE Uplinks ------------------------------
(***************************************************************************)
(* Traffic per provider: net/uplinks.rs, net/traffic.rs, `traffic_loop`    *)
(* and `traffic_rows` of core/balancer.rs.                                 *)
(*                                                                         *)
(* Every packet is counted by its interface and, if it is forwarded, by    *)
(* the chain VLB_UPLINKS, under its connection's mark or as unmarked.  A   *)
(* tick is three steps: Snapshot reads the interfaces, ReadChain the       *)
(* chain, and Record waits for the lock on `active` and records one row    *)
(* per provider.  When the chain cannot be read, RecordByInterface records *)
(* what the interfaces tell.                                               *)
(*                                                                         *)
(* Bytes and packets, download and upload are one counter, and provider    *)
(* and mark are one name (Config: no two providers share a mark).  Left    *)
(* out: retention, and a tick whose snapshot cannot be read, which does    *)
(* nothing.  Time is counted in ticks.                                     *)
(***************************************************************************)
EXTENDS Integers, FiniteSets

CONSTANTS
    Providers,
    Interface,  \* the interface of each provider
    None,       \* no reading, no chain, nobody; the unmarked pair of rules
    Cooldown,   \* ticks between two attempts to put the chain back: 60 s
    MaxBytes,   \* bound: what a counter reads
    MaxPassed,  \* bound: bytes from one snapshot to the next
    Faults

Interfaces == {Interface[p] : p \in Providers}
Keys == Providers \cup {None}

ASSUME UplinksAssumption ==
    /\ None \notin Providers \cup Interfaces \cup Nat
    /\ {Cooldown, MaxBytes, MaxPassed} \subseteq Nat \ {0}
    /\ Faults \subseteq {"install", "read", "reload", "interface"}

VARIABLES
    net,       \* /proc/net/dev: counter of each interface, None if it is away
    chain,     \* VLB_UPLINKS: is it hooked into FORWARD, what it counted
    active,    \* Balancer.active
    daemon,    \* traffic_loop: "down", "idle", "read" (it has the interfaces)
               \* or "count" (it has the chain, and waits for `active`)
    prev,      \* last reading of each interface
    delta,     \* iface_delta of this tick
    counters,  \* is the chain in use, and its last reading, if any
    grown,     \* what each counter of the chain grew by, None for a baseline
    cool,      \* ticks since the chain was last installed, at most Cooldown
    rows,      \* traffic_samples: what the last tick recorded
    passed,    \* history: bytes before and after this tick's snapshot
    carried,   \* history: bytes each provider forwarded while steady
    steady,    \* history: the chain was read, and since then nobody switched or
               \* touched it
    owed       \* history: what was carried when the chain was last read, None if
               \* not steady then or somebody switched since

outside == <<net, chain, active>>
memory == <<daemon, prev, delta, counters, grown, cool, rows>>
history == <<passed, carried, steady, owed>>
vars == <<outside, memory, history>>

Fault(f) == f \in Faults

Zeros == [k \in Keys |-> 0]
Nothing == [p \in Providers |-> 0]
Unread == [i \in Interfaces |-> None]
Unused == [on |-> FALSE, last |-> [k \in Keys |-> None]]
Empty == [on |-> TRUE, last |-> [k \in Keys |-> None]]

Init ==
    /\ net = [i \in Interfaces |-> 0]
    /\ chain = None
    /\ active = None
    /\ daemon = "down"
    /\ prev = Unread /\ delta = Unread
    /\ counters = Unused /\ grown = None /\ cool = 0
    /\ rows = {}
    /\ passed = [before |-> 0, after |-> 0]
    /\ carried = Nothing /\ steady = FALSE /\ owed = None

-----------------------------------------------------------------------------
(***************************************************************************)
(* The network.  An unmarked connection follows the default route; with    *)
(* nobody active that may be anyone's.                                     *)
(***************************************************************************)
Disturb == steady' = FALSE /\ carried' = Nothing

Hooked == chain # None /\ chain.hooked

Count(i) ==
    /\ net[i] # None
    /\ net[i] < MaxBytes /\ passed.after < MaxPassed
    /\ net' = [net EXCEPT ![i] = @ + 1]
    /\ passed' = IF daemon = "down" THEN passed ELSE [passed EXCEPT !.after = @ + 1]

Forward(p, k) ==
    /\ k = None => active \in {p, None}
    /\ Count(Interface[p])
    /\ IF Hooked
       THEN /\ chain.count[k] < MaxBytes
            /\ chain' = [chain EXCEPT !.count[k] = @ + 1]
            /\ carried' = IF steady /\ (k = p \/ active = p)
                          THEN [carried EXCEPT ![p] = @ + 1] ELSE carried
            /\ UNCHANGED steady
       ELSE Disturb /\ UNCHANGED chain
    /\ UNCHANGED <<active, memory, owed>>

\* The host's own traffic, and what a shared interface carries for the LAN.
Local(i) ==
    /\ Count(i)
    /\ UNCHANGED <<chain, active, memory, carried, steady, owed>>

Unplug(i) ==
    /\ Fault("interface")
    /\ net[i] # None
    /\ net' = [net EXCEPT ![i] = None]
    /\ UNCHANGED <<chain, active, memory, history>>

Plug(i) ==
    /\ net[i] = None
    /\ net' = [net EXCEPT ![i] = 0]
    /\ UNCHANGED <<chain, active, memory, history>>

\* Another tool flushes the table, flushes FORWARD or restores a saved
\* ruleset, whose counters begin at zero.
Reload ==
    /\ Fault("reload")
    /\ chain # None
    /\ chain' \in {None, [chain EXCEPT !.hooked = FALSE], [chain EXCEPT !.count = Zeros]}
    /\ Disturb
    /\ UNCHANGED <<net, active, memory, passed, owed>>

\* A switch holds the lock on `active` from before the route moves until it has
\* written it: a tick that has read the chain waits, and attributes to the new
\* provider.
Switch ==
    /\ daemon # "down"
    /\ active' \in Keys \ {active}
    /\ Disturb /\ owed' = None
    /\ UNCHANGED <<net, chain, memory, passed>>

-----------------------------------------------------------------------------
(***************************************************************************)
(* uplinks::install.  Declaring the chain replaces its rules and zeroes    *)
(* their counters in one step; hooking it may be refused after that.       *)
(***************************************************************************)
Declared(hooked) == [hooked |-> hooked, count |-> Zeros]

Installs ==
    {[ok |-> TRUE, chain |-> Declared(TRUE)]}
    \cup IF ~Fault("install") THEN {}
         ELSE {[ok |-> FALSE, chain |-> c] :
                  c \in {chain} \cup (IF Hooked THEN {} ELSE {Declared(FALSE)})}

\* The chain of a run that managed the firewall is taken away by one that does
\* not.  A chain that cannot be installed at the start is not tried again.
Start ==
    /\ daemon = "down"
    /\ daemon' = "idle"
    /\ active' \in Keys
    /\ \/ \E i \in Installs :
             /\ chain' = i.chain
             /\ counters' = IF i.ok THEN Empty ELSE Unused
       \/ chain' = None /\ counters' = Unused
    /\ UNCHANGED <<net, prev, delta, grown, cool, rows, history>>

Forgets ==
    /\ prev' = Unread /\ delta' = Unread
    /\ counters' = Unused /\ grown' = None /\ cool' = 0
    /\ rows' = {}
    /\ passed' = [before |-> 0, after |-> 0]
    /\ carried' = Nothing /\ steady' = FALSE /\ owed' = None

\* A shutdown or a crash: the chain stays, and nobody reads it.
Stop ==
    /\ daemon # "down"
    /\ daemon' = "down"
    /\ active' = None
    /\ Forgets
    /\ UNCHANGED <<net, chain>>

-----------------------------------------------------------------------------
(***************************************************************************)
(* traffic::delta and the first half of a tick.  A counter that went       *)
(* backwards gives nothing for the interval; a missing interface keeps its *)
(* last reading.                                                           *)
(***************************************************************************)
\* mutant: a reset is not noticed.
DeltaUnchecked(before, now) ==
    IF None \in {before, now} THEN None ELSE now - before

Delta(before, now) ==
    IF None \in {before, now} THEN None ELSE IF now < before THEN None ELSE now - before

Snapshot ==
    /\ daemon = "idle"
    /\ daemon' = "read"
    /\ delta' = [i \in Interfaces |-> Delta(prev[i], net[i])]
    /\ prev' = [i \in Interfaces |-> IF net[i] = None THEN prev[i] ELSE net[i]]
    /\ cool' = IF cool < Cooldown THEN cool + 1 ELSE cool
    /\ rows' = {}
    /\ passed' = [before |-> passed.after, after |-> 0]
    /\ UNCHANGED <<outside, counters, grown, carried, steady, owed>>

-----------------------------------------------------------------------------
(***************************************************************************)
(* uplinks::read.  The first reading after the chain was installed is a    *)
(* baseline, and its interval has no rows.                                 *)
(***************************************************************************)
Bytes(before, now, k) ==
    LET d == Delta(before[k], now[k]) IN IF d = None THEN 0 ELSE d

ReadChain ==
    /\ daemon = "read"
    /\ counters.on
    /\ chain # None
    /\ daemon' = "count"
    /\ grown' = IF counters = Empty THEN None
               ELSE [k \in Keys |-> Bytes(counters.last, chain.count, k)]
    /\ counters' = [on |-> TRUE, last |-> chain.count]
    /\ owed' = IF steady THEN carried ELSE None
    /\ carried' = Nothing
    /\ steady' = TRUE
    /\ UNCHANGED <<outside, prev, delta, cool, rows, passed>>

-----------------------------------------------------------------------------
(***************************************************************************)
(* uplinks::attribute and traffic_rows.  What is unmarked went out through *)
(* the default route: it is the active provider's, or nobody's.            *)
(***************************************************************************)
Row(p, i, bytes) == [provider |-> p, interface |-> i, bytes |-> bytes]

\* mutant: what is unmarked goes to everybody on the active interface.
AttributeByInterface(bytes) ==
    [p \in Providers |->
        bytes[p] + (IF active # None /\ Interface[active] = Interface[p]
                    THEN bytes[None] ELSE 0)]

Attribute(bytes) ==
    [p \in Providers |-> bytes[p] + (IF active = p THEN bytes[None] ELSE 0)]

PerProvider(bytes) == {Row(p, Interface[p], bytes[p]) : p \in Providers}

Alone(p) == \A q \in Providers \ {p} : Interface[q] # Interface[p]

\* A shared interface has one row, without a provider.
PerInterface ==
    {Row(IF Alone(p) THEN p ELSE None, Interface[p], delta[Interface[p]]) :
        p \in {q \in Providers : delta[Interface[q]] # None}}

Record ==
    /\ daemon = "count"
    /\ daemon' = "idle"
    /\ rows' = IF grown = None THEN {} ELSE PerProvider(Attribute(grown))
    /\ grown' = None /\ delta' = Unread /\ owed' = None
    /\ UNCHANGED <<outside, prev, counters, cool, passed, carried, steady>>

\* mutant: the baseline stays.
LostChainKeeping ==
    /\ counters.on
    /\ chain = None \/ Fault("read")
    /\ UNCHANGED <<chain, cool, counters, carried, steady>>

\* A chain that cannot be read is put back, once in a while; the baseline
\* goes, whether or not that works.
LostChain ==
    /\ counters.on
    /\ chain = None \/ Fault("read")
    /\ counters' = Empty /\ Disturb
    /\ IF cool < Cooldown
       THEN UNCHANGED <<chain, cool>>
       ELSE /\ cool' = 0
            /\ \E i \in Installs : chain' = i.chain

NoChain ==
    /\ ~counters.on
    /\ UNCHANGED <<chain, cool, counters, carried, steady>>

RecordByInterface ==
    /\ daemon = "read"
    /\ daemon' = "idle"
    /\ rows' = PerInterface
    /\ LostChain \/ NoChain
    /\ delta' = Unread
    /\ UNCHANGED <<net, active, prev, grown, passed, owed>>

Next ==
    \/ \E p \in Providers : \E k \in {p, None} : Forward(p, k)
    \/ \E i \in Interfaces : Local(i) \/ Unplug(i) \/ Plug(i)
    \/ Reload \/ Switch
    \/ Start \/ Stop
    \/ Snapshot \/ ReadChain \/ Record \/ RecordByInterface

Spec == Init /\ [][Next]_vars

-----------------------------------------------------------------------------
Reading(S) == [S -> Nat \cup {None}]

TypeOK ==
    /\ net \in Reading(Interfaces) /\ prev \in Reading(Interfaces)
    /\ delta \in Reading(Interfaces)
    /\ chain \in [hooked : BOOLEAN, count : [Keys -> Nat]] \cup {None}
    /\ active \in Keys
    /\ daemon \in {"down", "idle", "read", "count"}
    /\ counters \in [on : BOOLEAN, last : Reading(Keys)]
    /\ grown \in [Keys -> Nat] \cup {None}
    /\ cool \in 0..Cooldown
    /\ \A r \in rows : r \in [provider : Keys, interface : Interfaces, bytes : Nat]
    /\ passed \in [before : Nat, after : Nat]
    /\ carried \in [Providers -> Nat]
    /\ steady \in BOOLEAN
    /\ owed \in [Providers -> Nat] \cup {None}

(***************************************************************************)
(* "Crediting each of them with the whole interface multiplied the real    *)
(* traffic by their number" (core/balancer.rs:458).  What a tick records   *)
(* never exceeds what passed since the tick before it began: a shared      *)
(* interface is counted once, and neither the change from one kind of      *)
(* counter to the other, a chain that was lost, put back or restored with  *)
(* other counters, nor an interface that went away and came back, records  *)
(* an interval's bytes again.                                              *)
(***************************************************************************)
Recorded == UNION {{r} \X (1..r.bytes) : r \in rows}   \* byte by byte

RowsFitTheInterval == Cardinality(Recorded) <= passed.before + passed.after

(***************************************************************************)
(* "The attribution is exact" (net/uplinks.rs:27): a tick that records per *)
(* provider credits each provider with exactly what it forwarded from one  *)
(* reading of the chain to the next, its own marked connections and the    *)
(* unmarked ones of the active one, when nobody touched the chain in       *)
(* between and nobody switched from the first reading until this tick has  *)
(* the lock on `active` (core/balancer.rs:3087).  The switch that comes    *)
(* after the second reading and before that lock counts: it has the whole  *)
(* interval's unmarked bytes recorded as the new provider's.               *)
(***************************************************************************)
EachToItsOwn ==
    [][Record /\ grown # None /\ owed # None => rows' = PerProvider(owed)]_vars
=============================================================================

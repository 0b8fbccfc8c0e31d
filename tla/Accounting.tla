----------------------------- MODULE Accounting -----------------------------
(***************************************************************************)
(* Client accounting: net/clients.rs, `clients_loop` and                   *)
(* `flush_client_buckets` of core/balancer.rs, and the client tables of    *)
(* obs/stats.rs.                                                           *)
(*                                                                         *)
(* Bytes travel from the kernel's counting rules through the monitor's     *)
(* baselines and the buckets in memory to the database; presence travels   *)
(* from the neighbour table to sessions.  A tick of the loop is three      *)
(* steps: Discover, up to the rules it installs; Sample, up to the release *)
(* of the lock on the live state; Write, the database.  Traffic, hosts     *)
(* that come and go, an emptied chain, the shutdown's flush and a kill     *)
(* fall between them.                                                      *)
(*                                                                         *)
(* Every command may be refused: of a client's two rules, one for each     *)
(* direction, iptables may add or delete none or one, and counters that    *)
(* cannot be read are taken for zero.  The code goes on in each case.      *)
(*                                                                         *)
(* Left out: names and rates, which decide nothing; retention; a neighbour *)
(* table that cannot be read and a database that refuses a write.  What    *)
(* the two rules of a client read is one counter.  Time is counted in      *)
(* ticks.                                                                  *)
(***************************************************************************)
EXTENDS Integers, FiniteSets

CONSTANTS
    Clients,       \* addresses that pass SampleParams::accepts
    None,          \* no baseline; not in the live state
    MaxTracked,    \* clients.max_tracked
    MaxNewRules,   \* MAX_NEW_RULES_PER_TICK
    MaxProbes,     \* MAX_PROBES_PER_TICK
    ProbeEvery,    \* PRESENCE_PROBE_EVERY
    OfflineAfter,  \* clients.offline_after_secs
    PersistEvery,  \* clients.persist_every_secs
    ForgetAfter,   \* 24 hours
    MaxBytes,      \* bound: bytes that a counter reads
    MaxSpoilt,     \* bound: clients of which a rule is left behind, or a reading lost
    Faults

Entry == [online : BOOLEAN, session : BOOLEAN, pending : Nat, old : Nat,
          seen : 0..(ForgetAfter + 1), since : 0..PersistEvery]

ASSUME AccountingAssumption ==
    /\ IsFiniteSet(Clients)
    /\ None \notin Nat \cup Entry
    /\ {MaxTracked, MaxNewRules, MaxProbes} \subseteq Nat \ {0}
    /\ {ProbeEvery, OfflineAfter, PersistEvery, ForgetAfter, MaxBytes} \subseteq Nat \ {0}
    /\ MaxSpoilt \in Nat
    /\ Faults \subseteq {"rule", "read", "reload", "kill"}

VARIABLES
    here,     \* hosts on the LAN
    neigh,    \* the neighbour table
    chain,    \* VLB_CLIENTS: who has a rule, and what the last of them read
    daemon,   \* "down", "up" or "stopping"
    pc,       \* the loop: "idle", "sample" or "write"
    found,    \* the neighbours this tick has read
    monitor,  \* ClientMonitor
    live,     \* Balancer.clients
    todo,     \* what this tick has yet to write
    sessions, \* client_sessions: how many of each client's are open
    due,      \* history: bytes counted, and neither recorded nor lost yet
    back,     \* history: hosts that came since they were last seen
    spoilt    \* history: clients of which a rule was left behind, or a reading lost

kernel == <<here, neigh, chain>>
memory == <<pc, found, monitor, live, todo>>
vars == <<kernel, daemon, memory, sessions, due, back, spoilt>>

\* "fresh" is an entry confirmed since the table was last read.
Neighbour == {"absent", "stale", "reachable", "fresh"}

Nobody == [c \in Clients |-> None]
NoBytes == [c \in Clients |-> 0]
NotFound == [c \in Clients |-> "absent"]
Idle == [open |-> {}, close |-> {}, flush |-> NoBytes, forget |-> {}]
NoMonitor == [ready |-> FALSE, tracked |-> {}, prev |-> Nobody, probed |-> NoBytes]

Init ==
    /\ here = {} /\ neigh = NotFound
    /\ chain = [rule |-> {}, count |-> NoBytes]
    /\ daemon = "down" /\ pc = "idle"
    /\ found = NotFound /\ monitor = NoMonitor /\ live = Nobody /\ todo = Idle
    /\ sessions = NoBytes
    /\ due = NoBytes
    /\ back = {} /\ spoilt = {}

Fault(f) == f \in Faults
Older(age, most) == IF age < most THEN age + 1 ELSE most
Least(a, b) == IF a < b THEN a ELSE b

-----------------------------------------------------------------------------
(***************************************************************************)
(* Counting.  A missing rule reads as zero; a counter that went backwards  *)
(* gives nothing for the interval.                                         *)
(***************************************************************************)
\* mutant: a reset is not noticed.
DeltaUnchecked(prev, curr) == IF prev = None THEN curr ELSE curr - prev

Delta(prev, curr) ==
    IF prev = None THEN curr ELSE IF curr < prev THEN 0 ELSE curr - prev

Reads(c) == IF c \in chain.rule THEN chain.count[c] ELSE 0

\* Bytes counted since the last reading.
Unread(c) == IF monitor.ready THEN Delta(monitor.prev[c], Reads(c)) ELSE 0

Pending(c) == IF live[c] = None THEN 0 ELSE live[c].pending

-----------------------------------------------------------------------------
(***************************************************************************)
(* The LAN and the kernel.  A rule counts what passes whether or not       *)
(* anyone reads it; what passes across a reset is skipped by design.       *)
(***************************************************************************)
Arrive(c) ==
    /\ c \notin here
    /\ here' = here \cup {c}
    /\ back' = back \cup {c}
    /\ neigh' = [neigh EXCEPT ![c] = "fresh"]
    /\ UNCHANGED <<chain, daemon, memory, sessions, due, spoilt>>

Leave(c) ==
    /\ c \in here
    /\ here' = here \ {c}
    /\ back' = back \ {c}
    /\ UNCHANGED <<neigh, chain, daemon, memory, sessions, due, spoilt>>

\* An entry nobody confirmed goes stale, then away if the host is not there.
Quiet(c) ==
    /\ neigh[c] \in IF c \in here THEN {"reachable"} ELSE Neighbour \ {"absent"}
    /\ neigh' = [neigh EXCEPT ![c] =
                    IF neigh[c] = "stale" THEN "absent" ELSE "stale"]
    /\ UNCHANGED <<here, chain, daemon, memory, sessions, due, back, spoilt>>

Spoil(more) == spoilt' = spoilt \cup more /\ Cardinality(spoilt') <= MaxSpoilt

\* What is due is not said of a client that is spoilt.
Owed(owed, among) == [c \in Clients |-> IF c \in among THEN 0 ELSE owed[c]]

Move(c) ==
    /\ c \in here
    /\ c \in chain.rule /\ chain.count[c] < MaxBytes
    /\ neigh' = [neigh EXCEPT ![c] = "fresh"]
    /\ chain' = [chain EXCEPT !.count[c] = @ + 1]
    /\ due' = IF /\ c \notin spoilt /\ monitor.ready
                 /\ monitor.prev[c] = None \/ chain.count[c] >= monitor.prev[c]
              THEN [due EXCEPT ![c] = @ + 1]
              ELSE due
    /\ UNCHANGED <<here, daemon, memory, sessions, back, spoilt>>

\* Traffic that no rule counts: of a client, or a direction, that has none, or
\* to the gateway itself.
Talk(c) ==
    /\ c \in here
    /\ neigh' = [neigh EXCEPT ![c] = "fresh"]
    /\ UNCHANGED <<here, chain, daemon, memory, sessions, due, back, spoilt>>

\* Somebody empties the chain, or reloads the firewall without it.
Reload ==
    /\ Fault("reload")
    /\ chain' = [rule |-> {}, count |-> NoBytes]
    /\ due' = Owed([c \in Clients |-> due[c] - Unread(c)], spoilt)
    /\ UNCHANGED <<here, neigh, daemon, memory, sessions, back, spoilt>>

-----------------------------------------------------------------------------
(***************************************************************************)
(* The live state of one client, step by step through a tick.  `old` is    *)
(* history: the part of `pending` that is from before the current session. *)
(***************************************************************************)
Fresh == [online |-> FALSE, session |-> FALSE, pending |-> 0, old |-> 0,
          seen |-> 0, since |-> 0]

Aged(c) ==
    IF live[c] = None THEN Fresh
    ELSE [live[c] EXCEPT !.seen = Older(@, ForgetAfter + 1),
                         !.since = Older(@, PersistEvery)]

\* A client the sample lists; one it lists and saw is online.
Observed(e, bytes, seen) ==
    [e EXCEPT !.pending = @ + bytes,
              !.seen = IF seen THEN 0 ELSE @,
              !.online = @ \/ seen]

\* mutant: no grace period.
DepartsAtOnce(e) == e.online /\ e.seen > 0

Departs(e) == e.online /\ e.seen > OfflineAfter

WithoutAbsent(e) ==
    IF Departs(e)
    THEN [e EXCEPT !.online = FALSE, !.session = FALSE, !.old = e.pending]
    ELSE e

Due(e) == e.since >= PersistEvery

Persisted(e) ==
    IF Due(e) THEN [e EXCEPT !.pending = 0, !.old = 0, !.since = 0] ELSE e

Forgotten(e) == ~e.online /\ e.seen > ForgetAfter

-----------------------------------------------------------------------------
(***************************************************************************)
(* `ClientMonitor::sample`, first half.  The first tick takes what the     *)
(* chain reads as the baseline.  New clients get rules, a few per tick and *)
(* never more than the ceiling.  A client of which a rule is refused stays *)
(* untracked, with the rule that was not; the next tick tries both again.  *)
(***************************************************************************)
\* mutant: nothing left by the previous run is adopted.
AdoptedNothing == [monitor EXCEPT !.ready = TRUE]

Adopted ==
    IF monitor.ready THEN monitor
    ELSE [monitor EXCEPT !.ready = TRUE, !.tracked = chain.rule,
                         !.prev = [c \in Clients |-> IF c \in chain.rule
                                                     THEN chain.count[c] ELSE None]]

\* Counters that cannot be read are taken for an empty chain.
Adoptions ==
    {Adopted} \cup
    IF ~monitor.ready /\ Fault("read") THEN {[monitor EXCEPT !.ready = TRUE]} ELSE {}

NewRules(tracked, fresh, new, half) ==
    LET room == IF Cardinality(tracked) < MaxTracked
                THEN MaxTracked - Cardinality(tracked) ELSE 0
        most == Least(Cardinality(fresh), Least(MaxNewRules, room))
    IN  /\ new \subseteq fresh /\ half \subseteq fresh \ new
        /\ Cardinality(new) <= most
        /\ Cardinality(new) = most \/ Fault("rule")
        /\ half # {} => most > 0 /\ Fault("rule")

Candidates == {c \in Clients : neigh[c] # "absent"}

\* What is left to read when rules of these clients were added or deleted and
\* others were not.
Remains(among) ==
    {n \in [among -> 0..MaxBytes] : \A c \in among : n[c] <= chain.count[c]}

Discover ==
    /\ daemon # "down" /\ pc = "idle"
    /\ \E m \in Adoptions :
       LET fresh == Candidates \ m.tracked
           missed == IF m = Adopted THEN {} ELSE chain.rule
       IN  \E new, half \in SUBSET fresh : \E n \in Remains(half) :
               /\ NewRules(m.tracked, fresh, new, half)
               /\ monitor' = [m EXCEPT !.tracked = @ \cup new]
               /\ chain' = [rule  |-> chain.rule \cup new \cup half,
                            count |-> [c \in Clients |-> IF c \in new THEN 0
                                                         ELSE IF c \in half THEN n[c]
                                                         ELSE chain.count[c]]]
               /\ Spoil(missed \cup half)
               /\ due' = Owed([c \in Clients |-> IF c \in new THEN due[c] - Unread(c)
                                                 ELSE due[c]], spoilt')
    /\ neigh' = [c \in Clients |-> IF neigh[c] = "fresh" THEN "reachable" ELSE neigh[c]]
    /\ found' = neigh'
    /\ pc' = "sample"
    /\ UNCHANGED <<here, daemon, live, todo, sessions, back>>

-----------------------------------------------------------------------------
(***************************************************************************)
(* Second half of the sample, and the fold.  A client is seen when the     *)
(* kernel confirmed it or it moved bytes.  Stale neighbours are nudged, so *)
(* that the next table tells who is there.                                 *)
(***************************************************************************)
\* mutant: nobody is nudged.
NoNudges == {{}}

Nudges ==
    LET quiet == {c \in Clients : found[c] = "stale" /\ monitor.probed[c] = 0}
    IN  {n \in SUBSET quiet : Cardinality(n) = Least(MaxProbes, Cardinality(quiet))}

\* mutant: only clients in the sample are looked at.
KnownListed == {c \in Clients : found[c] # "absent"}

Known == {c \in Clients : found[c] # "absent" \/ live[c] # None}

\* Counters that cannot be read are taken for zeroes.
Readings ==
    {[c \in Clients |-> Reads(c)]} \cup IF Fault("read") THEN {NoBytes} ELSE {}

SampleOf(curr) ==
    LET listed == {c \in Clients : found[c] # "absent"}
        delta == [c \in Clients |-> IF c \in listed THEN Delta(monitor.prev[c], curr[c])
                                    ELSE 0]
        seen == {c \in listed : found[c] # "stale" \/ delta[c] > 0}
        e == [c \in Clients |-> IF c \in listed THEN Observed(Aged(c), delta[c], c \in seen)
                                ELSE Aged(c)]
        p == [c \in Clients |-> WithoutAbsent(e[c])]
        q == [c \in Clients |-> Persisted(p[c])]
        forget == {c \in Known : Forgotten(q[c])}
    IN  /\ pc = "sample"
        /\ live' = [c \in Clients |-> IF c \notin Known THEN live[c]
                                      ELSE IF c \in forget THEN None ELSE q[c]]
        /\ todo' = [open   |-> {c \in seen : ~Aged(c).online},
                    close  |-> {c \in Known : Departs(e[c]) /\ e[c].session},
                    flush  |-> [c \in Clients |-> IF c \in Known /\ Due(p[c])
                                                  THEN p[c].pending ELSE 0],
                    forget |-> forget]
        /\ Spoil({c \in listed : curr[c] # Reads(c)})
        /\ due' = Owed([c \in Clients |-> IF c \in forget THEN due[c] - q[c].pending
                                          ELSE due[c]], spoilt')
        /\ back' = back \ seen
        /\ \E nudged \in Nudges :
               /\ neigh' = [c \in Clients |-> IF c \notin nudged THEN neigh[c]
                                              ELSE IF c \in here THEN "fresh" ELSE "absent"]
               /\ monitor' = [monitor EXCEPT
                    !.prev = [c \in Clients |-> IF c \in listed THEN curr[c] ELSE @[c]],
                    !.probed = [c \in Clients |-> IF c \in nudged THEN ProbeEvery - 1
                                                  ELSE IF @[c] > 0 THEN @[c] - 1 ELSE 0]]
    /\ found' = NotFound
    /\ pc' = "write"
    /\ UNCHANGED <<here, chain, daemon, sessions>>

Sample == \E curr \in Readings : SampleOf(curr)

-----------------------------------------------------------------------------
(***************************************************************************)
(* The writes of the tick, outside the lock.  `forget` drops a client from *)
(* the monitor whether or not its two rules could be deleted, and deletes  *)
(* one of each only.                                                       *)
(***************************************************************************)
Open(c) ==
    sessions[c] + (IF c \in todo.open THEN 1 ELSE 0) - (IF c \in todo.close THEN 1 ELSE 0)

Write ==
    LET dropped == todo.forget \cap monitor.tracked
    IN  \E stay \in SUBSET (dropped \cap chain.rule) : \E n \in Remains(stay) :
        /\ pc = "write"
        /\ stay \subseteq spoilt \/ Fault("rule")
        /\ sessions' = [c \in Clients |-> Open(c)]
        /\ live' = [c \in Clients |-> IF c \in todo.open /\ live[c] # None
                                      THEN [live[c] EXCEPT !.session = TRUE] ELSE live[c]]
        /\ monitor' = [monitor EXCEPT
                          !.tracked = @ \ todo.forget,
                          !.prev = [c \in Clients |-> IF c \in todo.forget THEN None ELSE @[c]],
                          !.probed = [c \in Clients |-> IF c \in todo.forget THEN 0 ELSE @[c]]]
        /\ chain' = [rule  |-> chain.rule \ (dropped \ stay),
                     count |-> [c \in Clients |-> IF c \in stay THEN n[c]
                                                  ELSE IF c \in dropped THEN 0
                                                  ELSE chain.count[c]]]
        /\ Spoil(stay)
        /\ due' = Owed([c \in Clients |-> due[c] - todo.flush[c]
                                            - (IF c \in dropped THEN Unread(c) ELSE 0)],
                       spoilt')
        /\ todo' = Idle
        /\ pc' = "idle"
        /\ UNCHANGED <<here, neigh, daemon, found, back>>

-----------------------------------------------------------------------------
(***************************************************************************)
(* Starts and stops.  Sessions left open are resumed; the rules stay in    *)
(* the chain.  A shutdown hands over the buckets before the loop is        *)
(* aborted, wherever it is; what a tick has in hand dies with it.          *)
(***************************************************************************)
\* mutant: a restart begins with nobody.
ResumedNobody == Nobody

Resumed ==
    [c \in Clients |-> IF sessions[c] = 0 THEN None
                       ELSE [Fresh EXCEPT !.online = TRUE, !.session = TRUE]]

Start ==
    /\ daemon = "down"
    /\ daemon' = "up"
    /\ live' = Resumed
    /\ UNCHANGED <<kernel, pc, found, monitor, todo, sessions, due, back, spoilt>>

\* mutant: the buckets are read, not taken.
FlushKeeping ==
    /\ daemon = "up"
    /\ daemon' = "stopping"
    /\ due' = Owed([c \in Clients |-> due[c] - Pending(c)], spoilt)
    /\ UNCHANGED <<kernel, memory, sessions, back, spoilt>>

Flush ==
    /\ daemon = "up"
    /\ daemon' = "stopping"
    /\ due' = Owed([c \in Clients |-> due[c] - Pending(c)], spoilt)
    /\ live' = [c \in Clients |->
                  IF Pending(c) = 0 THEN live[c]
                  ELSE [live[c] EXCEPT !.pending = 0, !.old = 0, !.since = 0]]
    /\ UNCHANGED <<kernel, pc, found, monitor, todo, sessions, back, spoilt>>

Gone ==
    /\ daemon' = "down" /\ pc' = "idle"
    /\ found' = NotFound /\ monitor' = NoMonitor /\ live' = Nobody /\ todo' = Idle
    /\ due' = NoBytes
    /\ UNCHANGED <<kernel, sessions, back, spoilt>>

Abort == daemon = "stopping" /\ Gone
Kill == Fault("kill") /\ daemon # "down" /\ Gone

Loop == Discover \/ Sample \/ Write

Next ==
    \/ \E c \in Clients : Arrive(c) \/ Leave(c) \/ Quiet(c) \/ Move(c) \/ Talk(c)
    \/ Reload
    \/ Loop
    \/ Start \/ Flush \/ Abort \/ Kill

Spec == Init /\ [][Next]_vars

-----------------------------------------------------------------------------
TypeOK ==
    /\ here \subseteq Clients /\ back \subseteq here /\ spoilt \subseteq Clients
    /\ neigh \in [Clients -> Neighbour] /\ found \in [Clients -> Neighbour]
    /\ chain \in [rule : SUBSET Clients, count : [Clients -> Nat]]
    /\ daemon \in {"down", "up", "stopping"}
    /\ pc \in {"idle", "sample", "write"}
    /\ monitor \in [ready : BOOLEAN, tracked : SUBSET Clients,
                    prev : [Clients -> Nat \cup {None}],
                    probed : [Clients -> 0..(ProbeEvery - 1)]]
    /\ live \in [Clients -> Entry \cup {None}]
    /\ todo \in [open : SUBSET Clients, close : SUBSET Clients,
                 flush : [Clients -> Nat], forget : SUBSET Clients]
    /\ sessions \in [Clients -> Nat]
    /\ due \in [Clients -> Int]

(***************************************************************************)
(* Every byte a rule counted while the monitor was reading is in exactly   *)
(* one place until it is recorded: unread in the kernel, in the client's   *)
(* bucket, or in the writes of a tick.  Neither a restart, an emptied      *)
(* chain, a client that is forgotten and comes back, nor the shutdown's    *)
(* flush between two steps of a tick records one twice or drops one that   *)
(* was not in flight.  It is said of the clients of which no rule was left *)
(* behind and no reading lost, whatever became of the others: a refused    *)
(* deletion leaves a count without its baseline (net/clients.rs:382), and  *)
(* counters taken for zeroes (:489) have the next reading record the whole *)
(* of them again.                                                          *)
(***************************************************************************)
EveryByteIsAccountedFor ==
    \A c \in Clients \ spoilt : due[c] = Unread(c) + Pending(c) + todo.flush[c]

(***************************************************************************)
(* The open sessions of the database agree with presence in memory once a  *)
(* tick has been written, through restarts too: while the daemon runs, a   *)
(* client has an open session exactly as long as it is counted as online,  *)
(* never two, so that no moment counts twice in its availability           *)
(* (obs/stats.rs:659), and none outlives the grace period, whether or not  *)
(* the sample still lists the client.  The period of a resumed session     *)
(* runs from the restart, for the code does not know when its client was   *)
(* last seen (core/balancer.rs:2496).  Nor does a session's total include  *)
(* traffic from before it began: buckets are handed over before their      *)
(* session can end.                                                        *)
(***************************************************************************)
SessionsMatchPresence ==
    \A c \in Clients :
        /\ sessions[c] \in {0, 1}
        /\ daemon # "down" /\ pc # "write" =>
              /\ sessions[c] = 1 <=> live[c] # None /\ live[c].online
              /\ sessions[c] = 1 => live[c].seen <= OfflineAfter
        /\ live[c] # None /\ live[c].session => live[c].old = 0

(***************************************************************************)
(* "Silence alone would show every idle laptop as disconnected"            *)
(* (net/clients.rs:44): the session of a host that has been on the LAN     *)
(* since it was last seen is never closed.                                 *)
(***************************************************************************)
HereIsNeverGone ==
    [][\A c \in todo'.close \ todo.close : c \notin here \/ c \in back]_vars

(***************************************************************************)
(* "A rogue LAN cannot grow the ruleset without bound"                     *)
(* (net/clients.rs:200): however many hosts come and go, however often the *)
(* daemon restarts and whatever is refused, the chain has rules for no     *)
(* more than max_tracked clients besides those of which a rule was left    *)
(* behind, which the code does not count.                                  *)
(***************************************************************************)
RulesStayBounded == Cardinality(chain.rule \ spoilt) <= MaxTracked
=============================================================================

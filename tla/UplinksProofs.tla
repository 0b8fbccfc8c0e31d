---------------------------- MODULE UplinksProofs ----------------------------
(***************************************************************************)
(* The attribution of Uplinks is exact for any providers and interfaces,   *)
(* any counters and any sequence of switches, reloads, lost chains and     *)
(* restarts.  Between two readings that nobody disturbed, what a provider  *)
(* forwarded is, at every moment, the growth of its own counter, and of    *)
(* the unmarked one if it is active; and it stays so until `active` is     *)
(* read, unless somebody switches first.  Every row is well formed, and the    *)
(* rows of a tick are no more than what passed since the one before began. *)
(***************************************************************************)
EXTENDS Uplinks, FiniteSetTheorems, TLAPS

Growth(k) == chain.count[k] - counters.last[k]

ChainShape ==
    chain # None => chain = [hooked |-> chain.hooked, count |-> chain.count]
                    /\ chain.count \in [Keys -> Nat]

Measured ==
    /\ daemon # "down" /\ counters.on
    /\ counters.last \in [Keys -> Nat]
    /\ \A k \in Keys : counters.last[k] <= chain.count[k]
    /\ \A p \in Providers : carried[p] = Growth(p) + (IF active = p THEN Growth(None) ELSE 0)

Exact ==
    /\ ChainShape
    /\ carried \in [Providers -> Nat]
    /\ steady \in BOOLEAN
    /\ steady => Measured

\* A step that disturbs has nothing to account for.
LEMMA DisturbedIsExact ==
    ASSUME ChainShape', steady' = FALSE, carried' = Nothing PROVE Exact'
BY DEF Exact, Nothing

LEMMA UntouchedIsExact ==
    ASSUME Exact, UNCHANGED <<chain, active, counters, carried, steady>>,
           daemon' = daemon \/ daemon' # "down"
    PROVE  Exact'
BY DEF Exact, ChainShape, Measured, Growth

LEMMA InstalledShape ==
    ASSUME ChainShape, NEW i \in Installs, chain' = i.chain PROVE ChainShape'
<1>1. ASSUME NEW h, chain' = Declared(h) PROVE ChainShape'
    BY <1>1 DEF ChainShape, Declared, Zeros
<1>2. CASE chain' = chain
    BY <1>2 DEF ChainShape
<1>3. i.chain \in {Declared(TRUE), Declared(FALSE), chain}
    <2>1. CASE i = [ok |-> TRUE, chain |-> Declared(TRUE)]
        BY <2>1
    <2>2. ASSUME NEW c \in {chain} \cup (IF Hooked THEN {} ELSE {Declared(FALSE)}),
                 i = [ok |-> FALSE, chain |-> c]
          PROVE  i.chain \in {Declared(FALSE), chain}
        BY <2>2
    <2>3. QED
        BY <2>1, <2>2 DEF Installs
<1>4. QED
    BY <1>1, <1>2, <1>3

\* One more forwarded packet: its counter and what its provider carried grow
\* together.
LEMMA ForwardIsExact ==
    ASSUME Exact, NEW p \in Providers, NEW k \in {p, None}, Forward(p, k) PROVE Exact'
<1>1. CASE ~Hooked
    <2>1. UNCHANGED chain /\ Disturb
        BY <1>1 DEF Forward
    <2>2. ChainShape'
        BY <2>1 DEF Exact, ChainShape
    <2>3. QED
        BY <2>1, <2>2, DisturbedIsExact DEF Disturb
<1>2. CASE Hooked
    <2> DEFINE Credited == steady /\ (k = p \/ active = p)
    <2>1. /\ chain' = [chain EXCEPT !.count[k] = @ + 1]
          /\ carried' = IF Credited THEN [carried EXCEPT ![p] = @ + 1] ELSE carried
          /\ UNCHANGED <<steady, active, daemon, counters>>
          /\ k = None => active \in {p, None}
        BY <1>2 DEF Forward, memory
    <2>2. chain # None /\ None \notin Providers /\ k \in Keys
        BY <1>2, UplinksAssumption DEF Hooked, Keys
    <2>3. /\ chain = [hooked |-> chain.hooked, count |-> chain.count]
          /\ chain.count \in [Keys -> Nat]
        BY <2>2 DEF Exact, ChainShape
    <2>4. /\ chain' = [hooked |-> chain.hooked, count |-> [chain.count EXCEPT ![k] = @ + 1]]
        BY <2>1, <2>3
    <2>5. /\ chain'.count = [chain.count EXCEPT ![k] = @ + 1]
          /\ chain'.hooked = chain.hooked
        BY <2>4
    <2>6. chain'.count \in [Keys -> Nat]
        BY <2>2, <2>3, <2>5
    <2>7. ChainShape'
        BY <2>4, <2>5, <2>6 DEF ChainShape
    <2>8. carried' \in [Providers -> Nat]
        BY <2>1 DEF Exact
    <2>9. ASSUME steady PROVE Measured'
        <3>1. Measured
            BY <2>9 DEF Exact
        <3>2. \A j \in Keys : /\ counters'.last[j] <= chain'.count[j]
                              /\ Growth(j)' = IF j = k THEN Growth(j) + 1 ELSE Growth(j)
                              /\ Growth(j) \in Nat
            BY <2>1, <2>2, <2>3, <2>5, <3>1 DEF Measured, Growth
        <3>3. ASSUME NEW q \in Providers
              PROVE  carried'[q] = Growth(q)' + (IF active' = q THEN Growth(None)' ELSE 0)
            <4>1. carried[q] = Growth(q) + (IF active = q THEN Growth(None) ELSE 0)
                BY <3>1 DEF Measured
            <4>2. q \in Keys /\ None \in Keys /\ q # None
                BY UplinksAssumption DEF Keys
            <4>3. carried[q] \in Nat /\ carried \in [Providers -> Nat]
                BY DEF Exact
            <4>4. carried'[q] = IF q = p /\ Credited THEN carried[q] + 1 ELSE carried[q]
                BY <2>1, <4>3
            <4>5. CASE k = p
                <5>1. Growth(None)' = Growth(None)
                    BY <3>2, <4>2, <4>5, <2>2
                <5>2. QED
                    BY <2>1, <2>9, <3>2, <4>1, <4>2, <4>4, <4>5, <5>1
            <4>6. CASE k = None
                <5>1. Growth(None)' = Growth(None) + 1 /\ Growth(q)' = Growth(q)
                    BY <3>2, <4>2, <4>6
                <5>2. QED
                    BY <2>1, <2>2, <2>9, <3>2, <4>1, <4>2, <4>4, <4>6, <5>1
            <4>7. QED
                BY <4>5, <4>6
        <3>4. QED
            BY <2>1, <3>1, <3>2, <3>3 DEF Measured
    <2>10. QED
        BY <2>1, <2>7, <2>8, <2>9 DEF Exact
<1>3. QED
    BY <1>1, <1>2

LEMMA ExactStep == Exact /\ [Next]_vars => Exact'
<1> SUFFICES ASSUME Exact, [Next]_vars PROVE Exact'
    OBVIOUS
<1>1. ASSUME NEW p \in Providers, NEW k \in {p, None}, Forward(p, k) PROVE Exact'
    BY <1>1, ForwardIsExact
<1>2. ASSUME NEW i \in Interfaces, Local(i) \/ Unplug(i) \/ Plug(i) PROVE Exact'
    BY <1>2, UntouchedIsExact DEF Local, Unplug, Plug, memory, history
<1>3. CASE Reload
    <2>1. ChainShape'
        <3>1. CASE chain' = None
            BY <3>1 DEF ChainShape
        <3>2. CASE chain' = [chain EXCEPT !.hooked = FALSE]
            BY <1>3, <3>2 DEF Reload, Exact, ChainShape
        <3>3. CASE chain' = [chain EXCEPT !.count = Zeros]
            BY <1>3, <3>3 DEF Reload, Exact, ChainShape, Zeros
        <3>4. QED
            BY <1>3, <3>1, <3>2, <3>3 DEF Reload
    <2>2. QED
        BY <1>3, <2>1, DisturbedIsExact DEF Reload, Disturb
<1>4. CASE Switch
    <2>1. ChainShape'
        BY <1>4 DEF Switch, Exact, ChainShape
    <2>2. QED
        BY <1>4, <2>1, DisturbedIsExact DEF Switch, Disturb
<1>5. CASE Start
    <2>1. ~steady /\ steady' = steady /\ carried' = carried
        BY <1>5 DEF Start, Exact, Measured, history
    <2>2. ChainShape'
        <3>1. CASE chain' = None
            BY <3>1 DEF ChainShape
        <3>2. CASE \E i \in Installs : chain' = i.chain
            BY <3>2, InstalledShape DEF Exact
        <3>3. QED
            BY <1>5, <3>1, <3>2 DEF Start
    <2>3. QED
        BY <2>1, <2>2 DEF Exact
<1>6. CASE Stop
    <2>1. ChainShape'
        BY <1>6 DEF Stop, Exact, ChainShape
    <2>2. QED
        BY <1>6, <2>1, DisturbedIsExact DEF Stop, Forgets
<1>7. CASE Snapshot
    BY <1>7, UntouchedIsExact DEF Snapshot, outside
<1>8. CASE ReadChain
    <2>1. /\ chain # None /\ chain' = chain /\ active' = active
          /\ counters' = [on |-> TRUE, last |-> chain.count]
          /\ carried' = Nothing /\ steady' = TRUE /\ daemon' = "count"
        BY <1>8 DEF ReadChain, outside
    <2>2. ChainShape' /\ chain.count \in [Keys -> Nat]
        BY <2>1 DEF Exact, ChainShape
    <2>3. Measured'
        BY <2>1, <2>2 DEF Measured, Growth, Nothing, Keys
    <2>4. QED
        BY <2>1, <2>2, <2>3 DEF Exact, Nothing
<1>9. CASE Record
    BY <1>9, UntouchedIsExact DEF Record, outside
<1>10. CASE RecordByInterface
    <2>1. CASE LostChain
        <3>1. ChainShape'
            <4>1. CASE chain' = chain
                BY <4>1 DEF Exact, ChainShape
            <4>2. CASE \E i \in Installs : chain' = i.chain
                BY <4>2, InstalledShape DEF Exact
            <4>3. QED
                BY <2>1, <4>1, <4>2 DEF LostChain
        <3>2. QED
            BY <2>1, <3>1, DisturbedIsExact DEF LostChain, Disturb
    <2>2. CASE NoChain
        BY <1>10, <2>2, UntouchedIsExact DEF RecordByInterface, NoChain
    <2>3. QED
        BY <1>10, <2>1, <2>2 DEF RecordByInterface
<1>11. CASE UNCHANGED vars
    BY <1>11, UntouchedIsExact DEF vars, outside, memory, history
<1>12. QED
    BY <1>1, <1>2, <1>3, <1>4, <1>5, <1>6, <1>7, <1>8, <1>9, <1>10, <1>11 DEF Next

\* What the readings tell is what was forwarded.
LEMMA AttributeIsExact ==
    ASSUME Exact, steady, chain # None
    PROVE  Attribute([k \in Keys |-> Bytes(counters.last, chain.count, k)]) = carried
<1> DEFINE bytes == [k \in Keys |-> Bytes(counters.last, chain.count, k)]
<1>1. /\ Measured /\ chain.count \in [Keys -> Nat] /\ carried \in [Providers -> Nat]
    BY DEF Exact, ChainShape
<1>2. ASSUME NEW k \in Keys PROVE bytes[k] = Growth(k)
    <2>1. counters.last[k] \in Nat /\ chain.count[k] \in Nat /\ counters.last[k] <= chain.count[k]
        BY <1>1 DEF Measured
    <2>2. None \notin {counters.last[k], chain.count[k]}
        BY <2>1, UplinksAssumption
    <2>3. Delta(counters.last[k], chain.count[k]) = Growth(k) /\ Growth(k) \in Nat
        BY <2>1, <2>2 DEF Delta, Growth
    <2>4. QED
        BY <2>3, UplinksAssumption DEF Bytes
<1>3. \A p \in Providers : p \in Keys /\ None \in Keys
    BY DEF Keys
<1> HIDE DEF bytes
<1>4. Attribute(bytes) =
          [p \in Providers |-> Growth(p) + (IF active = p THEN Growth(None) ELSE 0)]
    BY <1>2, <1>3 DEF Attribute
<1>5. Attribute(bytes) = carried
    BY <1>1, <1>4 DEF Measured
<1>6. QED
    BY <1>5 DEF bytes

\* From the reading of the chain to the lock on `active`: what is owed is what the
\* attribution will give, as long as nobody switches.
Settled == daemon = "count" /\ grown # None /\ owed # None => owed = Attribute(grown)

LEMMA SettledStep == Exact /\ Settled /\ [Next]_vars => Settled'
<1> SUFFICES ASSUME Exact, Settled, [Next]_vars PROVE Settled'
    OBVIOUS
<1>1. ASSUME UNCHANGED <<daemon, grown, owed, active>> PROVE Settled'
    BY <1>1 DEF Settled, Attribute
<1>2. ASSUME NEW p \in Providers, NEW k \in {p, None}, Forward(p, k) PROVE Settled'
    BY <1>1, <1>2 DEF Forward, memory
<1>3. ASSUME NEW i \in Interfaces, Local(i) \/ Unplug(i) \/ Plug(i) PROVE Settled'
    BY <1>1, <1>3 DEF Local, Unplug, Plug, memory, history
<1>4. CASE Reload
    BY <1>1, <1>4 DEF Reload, memory
<1>5. CASE Switch
    BY <1>5 DEF Switch, Settled
<1>6. CASE Start \/ Stop \/ Snapshot \/ Record \/ RecordByInterface
    BY <1>6 DEF Start, Stop, Snapshot, Record, RecordByInterface, Settled
<1>7. CASE ReadChain
    <2>1. /\ chain # None /\ active' = active
          /\ grown' = IF counters = Empty THEN None
                     ELSE [k \in Keys |-> Bytes(counters.last, chain.count, k)]
          /\ owed' = IF steady THEN carried ELSE None
        BY <1>7 DEF ReadChain, outside
    <2>2. ASSUME grown' # None, owed' # None PROVE owed' = Attribute(grown')
        <3>1. steady /\ owed' = carried
            BY <2>1, <2>2
        <3>2. grown' = [k \in Keys |-> Bytes(counters.last, chain.count, k)]
            BY <2>1, <2>2
        <3>3. QED
            BY <2>1, <3>1, <3>2, AttributeIsExact
    <2>3. Attribute(grown)' = Attribute(grown')
        BY <2>1 DEF Attribute
    <2>4. QED
        BY <2>2, <2>3 DEF Settled
<1>8. CASE UNCHANGED vars
    BY <1>1, <1>8 DEF vars, outside, memory, history
<1>9. QED
    BY <1>2, <1>3, <1>4, <1>5, <1>6, <1>7, <1>8 DEF Next

\* A tick credits each provider with exactly what it forwarded between the two
\* readings (uplinks::attribute, traffic_rows), unless somebody switched before
\* the tick had read `active` or touched the chain between the readings.
THEOREM AttributionIsExact == Spec => EachToItsOwn
<1>1. Init => Exact /\ Settled
    <2> SUFFICES ASSUME Init PROVE Exact /\ Settled
        OBVIOUS
    <2>1. chain = None /\ carried = Nothing /\ steady = FALSE /\ daemon = "down"
        BY DEF Init
    <2>2. QED
        BY <2>1 DEF Exact, ChainShape, Nothing, Settled
<1>2. Settled /\ [Next]_vars
      => [Record /\ grown # None /\ owed # None => rows' = PerProvider(owed)]_vars
    BY DEF Record, Settled
<1>3. QED
    BY <1>1, <1>2, ExactStep, SettledStep, PTL DEF Spec, EachToItsOwn

-----------------------------------------------------------------------------
(***************************************************************************)
(* Types.  A delta is a number or nothing, and what a row records is a     *)
(* number whatever could not be read.                                      *)
(***************************************************************************)
Chains == [hooked : BOOLEAN, count : [Keys -> Nat]] \cup {None}
Rows == [provider : Keys, interface : Interfaces, bytes : Nat]

LEMMA DeltaIsReading ==
    ASSUME NEW before \in Nat \cup {None}, NEW now \in Nat \cup {None}
    PROVE  Delta(before, now) \in Nat \cup {None}
BY DEF Delta

LEMMA InstallsAreChains ==
    ASSUME chain \in Chains, NEW i \in Installs
    PROVE  i.chain \in Chains
<1>1. Declared(TRUE) \in Chains /\ Declared(FALSE) \in Chains
    BY DEF Declared, Zeros, Chains
<1>2. CASE i = [ok |-> TRUE, chain |-> Declared(TRUE)]
    BY <1>1, <1>2
<1>3. ASSUME NEW c \in {chain} \cup (IF Hooked THEN {} ELSE {Declared(FALSE)}),
             i = [ok |-> FALSE, chain |-> c]
      PROVE  i.chain \in Chains
    BY <1>1, <1>3
<1>4. QED
    BY <1>2, <1>3 DEF Installs

LEMMA BytesAreNat ==
    ASSUME NEW before \in Reading(Keys), NEW now \in [Keys -> Nat], NEW k \in Keys
    PROVE  Bytes(before, now, k) \in Nat
<1>1. Delta(before[k], now[k]) \in Nat \cup {None}
    BY DeltaIsReading DEF Reading
<1>2. QED
    BY <1>1 DEF Bytes

LEMMA PerProviderRows ==
    ASSUME NEW bytes \in [Keys -> Nat], NEW r \in PerProvider(Attribute(bytes))
    PROVE  r \in Rows
<1>1. PICK p \in Providers : r = Row(p, Interface[p], Attribute(bytes)[p])
    BY DEF PerProvider
<1>2. p \in Keys /\ None \in Keys /\ Interface[p] \in Interfaces
    BY DEF Keys, Interfaces
<1>3. Attribute(bytes)[p] = bytes[p] + (IF active = p THEN bytes[None] ELSE 0)
    BY DEF Attribute
<1>4. Attribute(bytes)[p] \in Nat
    BY <1>2, <1>3
<1>5. QED
    BY <1>1, <1>2, <1>4 DEF Row, Rows

LEMMA PerInterfaceRows ==
    ASSUME delta \in Reading(Interfaces), NEW r \in PerInterface
    PROVE  r \in Rows
<1>1. PICK p \in {q \in Providers : delta[Interface[q]] # None} :
          r = Row(IF Alone(p) THEN p ELSE None, Interface[p], delta[Interface[p]])
    BY DEF PerInterface
<1>2. (IF Alone(p) THEN p ELSE None) \in Keys /\ Interface[p] \in Interfaces
    BY DEF Keys, Interfaces
<1>3. delta[Interface[p]] \in Nat
    BY <1>1, <1>2 DEF Reading
<1>4. QED
    BY <1>1, <1>2, <1>3 DEF Row, Rows

LEMMA CountIsTyped ==
    ASSUME TypeOK, NEW i \in Interfaces, Count(i)
    PROVE  net' \in Reading(Interfaces) /\ passed' \in [before : Nat, after : Nat]
<1>1. net[i] \in Nat /\ passed \in [before : Nat, after : Nat]
    BY DEF TypeOK, Reading, Count
<1>2. net' = [net EXCEPT ![i] = @ + 1]
      /\ passed' = IF daemon = "down" THEN passed ELSE [passed EXCEPT !.after = @ + 1]
    BY DEF Count
<1>3. net' \in Reading(Interfaces)
    BY <1>1, <1>2 DEF TypeOK, Reading
<1>4. passed' \in [before : Nat, after : Nat]
    BY <1>1, <1>2
<1>5. QED
    BY <1>3, <1>4

LEMMA ForwardIsTyped ==
    ASSUME TypeOK, NEW p \in Providers, NEW k \in {p, None}, Forward(p, k)
    PROVE  TypeOK'
<1>1. Interface[p] \in Interfaces /\ k \in Keys
    BY DEF Interfaces, Keys
<1>2. net' \in Reading(Interfaces) /\ passed' \in [before : Nat, after : Nat]
    BY <1>1, CountIsTyped DEF Forward
<1>3. chain' \in Chains
    <2>1. CASE UNCHANGED chain
        BY <2>1 DEF TypeOK, Chains
    <2>2. CASE Hooked
        <3>1. chain \in [hooked : BOOLEAN, count : [Keys -> Nat]]
            BY <2>2 DEF Hooked, TypeOK
        <3>2. chain' = [chain EXCEPT !.count[k] = @ + 1]
            BY <2>2 DEF Forward
        <3>3. chain' = [hooked |-> chain.hooked, count |-> [chain.count EXCEPT ![k] = @ + 1]]
            BY <3>1, <3>2
        <3>4. [chain.count EXCEPT ![k] = @ + 1] \in [Keys -> Nat]
            BY <1>1, <3>1
        <3>5. QED
            BY <3>1, <3>3, <3>4 DEF Chains
    <2>3. QED
        BY <2>1, <2>2 DEF Forward
<1>4. carried' \in [Providers -> Nat] /\ steady' \in BOOLEAN
    <2>1. CASE Disturb
        BY <2>1 DEF Disturb, Nothing
    <2>2. CASE carried' \in {carried, [carried EXCEPT ![p] = @ + 1]} /\ UNCHANGED steady
        BY <2>2 DEF TypeOK
    <2>3. QED
        BY <2>1, <2>2 DEF Forward
<1>5. UNCHANGED <<active, memory, owed>>
    BY DEF Forward
<1>6. QED
    BY <1>2, <1>3, <1>4, <1>5 DEF TypeOK, Chains, memory

LEMMA ReadChainIsTyped == ASSUME TypeOK, ReadChain PROVE TypeOK'
<1>1. /\ chain # None /\ daemon' = "count"
      /\ grown' = IF counters = Empty THEN None
                 ELSE [k \in Keys |-> Bytes(counters.last, chain.count, k)]
      /\ counters' = [on |-> TRUE, last |-> chain.count]
      /\ owed' = IF steady THEN carried ELSE None
      /\ carried' = Nothing /\ steady' = TRUE
      /\ UNCHANGED <<net, chain, active, prev, delta, cool, rows, passed>>
    BY DEF ReadChain, outside
<1>2. chain.count \in [Keys -> Nat] /\ counters.last \in Reading(Keys)
    BY <1>1 DEF TypeOK
<1>3. grown' \in [Keys -> Nat] \cup {None}
    BY <1>1, <1>2, BytesAreNat
<1>4. chain.count \in Reading(Keys) /\ Nothing \in [Providers -> Nat]
    BY <1>2 DEF Reading, Nothing
<1>5. QED
    BY <1>1, <1>3, <1>4 DEF TypeOK

LEMMA RecordIsTyped == ASSUME TypeOK, Record PROVE TypeOK'
<1>1. /\ daemon' = "idle" /\ grown' = None /\ delta' = Unread /\ owed' = None
      /\ rows' = IF grown = None THEN {} ELSE PerProvider(Attribute(grown))
      /\ UNCHANGED <<net, chain, active, prev, counters, cool, passed, carried, steady>>
    BY DEF Record, outside
<1>2. \A r \in rows' : r \in Rows
    BY <1>1, PerProviderRows DEF TypeOK
<1>3. delta' \in Reading(Interfaces)
    BY <1>1 DEF Unread, Reading
<1>4. QED
    BY <1>1, <1>2, <1>3 DEF TypeOK, Rows

LEMMA RecordByInterfaceIsTyped == ASSUME TypeOK, RecordByInterface PROVE TypeOK'
<1>1. chain \in Chains /\ counters \in [on : BOOLEAN, last : Reading(Keys)]
      /\ delta \in Reading(Interfaces) /\ cool \in 0..Cooldown
      /\ carried \in [Providers -> Nat] /\ steady \in BOOLEAN
    BY DEF TypeOK, Chains
<1>2. /\ daemon' = "idle" /\ delta' = Unread /\ rows' = PerInterface
      /\ UNCHANGED <<net, active, prev, grown, passed, owed>>
    BY DEF RecordByInterface
<1>3. Empty \in [on : BOOLEAN, last : Reading(Keys)] /\ 0 \in 0..Cooldown
    BY UplinksAssumption DEF Empty, Reading
<1>4. \A r \in rows' : r \in Rows
    BY <1>1, <1>2, PerInterfaceRows
<1>5. /\ chain' \in Chains /\ counters' \in [on : BOOLEAN, last : Reading(Keys)]
      /\ cool' \in 0..Cooldown /\ carried' \in [Providers -> Nat] /\ steady' \in BOOLEAN
    <2>1. CASE LostChain
        <3>1. /\ counters' = Empty /\ Disturb
              /\ \/ UNCHANGED <<chain, cool>>
                 \/ cool' = 0 /\ \E i \in Installs : chain' = i.chain
            BY <2>1 DEF LostChain
        <3>2. chain' \in Chains
            BY <1>1, <3>1, InstallsAreChains
        <3>3. QED
            BY <1>1, <1>3, <3>1, <3>2 DEF Disturb, Nothing
    <2>2. CASE NoChain
        BY <1>1, <2>2 DEF NoChain
    <2>3. QED
        BY <2>1, <2>2 DEF RecordByInterface
<1>6. delta' \in Reading(Interfaces)
    BY <1>2 DEF Unread, Reading
<1>7. QED
    BY <1>2, <1>4, <1>5, <1>6 DEF TypeOK, Chains, Rows

LEMMA TypeStep == TypeOK /\ [Next]_vars => TypeOK'
<1> SUFFICES ASSUME TypeOK, [Next]_vars PROVE TypeOK'
    OBVIOUS
<1>1. /\ 0 \in 0..Cooldown /\ 0 \in Nat
      /\ Unused \in [on : BOOLEAN, last : Reading(Keys)]
      /\ Empty \in [on : BOOLEAN, last : Reading(Keys)]
      /\ Unread \in Reading(Interfaces) /\ Nothing \in [Providers -> Nat]
      /\ [before |-> 0, after |-> 0] \in [before : Nat, after : Nat]
    BY UplinksAssumption DEF Unused, Empty, Unread, Reading, Nothing
<1>2. ASSUME NEW p \in Providers, NEW k \in {p, None}, Forward(p, k) PROVE TypeOK'
    BY <1>2, ForwardIsTyped
<1>3. ASSUME NEW i \in Interfaces, Local(i) PROVE TypeOK'
    BY <1>3, CountIsTyped DEF Local, TypeOK, memory
<1>4. ASSUME NEW i \in Interfaces, Unplug(i) \/ Plug(i) PROVE TypeOK'
    BY <1>4 DEF Unplug, Plug, TypeOK, Reading, memory, history
<1>5. CASE Reload
    <2>1. chain \in [hooked : BOOLEAN, count : [Keys -> Nat]] /\ Zeros \in [Keys -> Nat]
        BY <1>5 DEF Reload, TypeOK, Zeros
    <2>2. chain' \in Chains
        <3>1. CASE chain' = None
            BY <3>1 DEF Chains
        <3>2. CASE chain' = [chain EXCEPT !.hooked = FALSE]
            BY <2>1, <3>2 DEF Chains
        <3>3. CASE chain' = [chain EXCEPT !.count = Zeros]
            BY <2>1, <3>3 DEF Chains
        <3>4. QED
            BY <1>5, <3>1, <3>2, <3>3 DEF Reload
    <2>3. QED
        BY <1>1, <1>5, <2>2 DEF Reload, Disturb, TypeOK, Chains, memory
<1>6. CASE Switch
    BY <1>1, <1>6 DEF Switch, Disturb, TypeOK, memory
<1>7. CASE Start
    <2>1. /\ daemon' = "idle" /\ active' \in Keys
          /\ UNCHANGED <<net, prev, delta, grown, cool, rows, history>>
          /\ counters' \in {Empty, Unused}
          /\ chain' = None \/ \E i \in Installs : chain' = i.chain
        BY <1>7 DEF Start
    <2>2. chain' \in Chains
        <3>1. chain \in Chains
            BY DEF TypeOK, Chains
        <3>2. QED
            BY <2>1, <3>1, InstallsAreChains DEF Chains
    <2>3. QED
        BY <1>1, <2>1, <2>2 DEF TypeOK, Chains, history
<1>8. CASE Stop
    BY <1>1, <1>8 DEF Stop, Forgets, TypeOK, Keys
<1>9. CASE Snapshot
    <2>1. /\ delta' = [i \in Interfaces |-> Delta(prev[i], net[i])]
          /\ prev' = [i \in Interfaces |-> IF net[i] = None THEN prev[i] ELSE net[i]]
          /\ cool' = IF cool < Cooldown THEN cool + 1 ELSE cool
          /\ rows' = {} /\ daemon' = "read"
          /\ passed' = [before |-> passed.after, after |-> 0]
          /\ UNCHANGED <<outside, counters, grown, carried, steady, owed>>
        BY <1>9 DEF Snapshot
    <2>2. delta' \in Reading(Interfaces) /\ prev' \in Reading(Interfaces)
        BY <2>1, DeltaIsReading DEF TypeOK, Reading
    <2>3. cool' \in 0..Cooldown
        BY <2>1, UplinksAssumption DEF TypeOK
    <2>4. passed' \in [before : Nat, after : Nat]
        BY <2>1 DEF TypeOK
    <2>5. QED
        BY <2>1, <2>2, <2>3, <2>4 DEF TypeOK, outside
<1>10. CASE ReadChain \/ Record \/ RecordByInterface
    BY <1>10, ReadChainIsTyped, RecordIsTyped, RecordByInterfaceIsTyped
<1>11. CASE UNCHANGED vars
    BY <1>11 DEF vars, outside, memory, history, TypeOK
<1>12. QED
    BY <1>2, <1>3, <1>4, <1>5, <1>6, <1>7, <1>8, <1>9, <1>10, <1>11 DEF Next

LEMMA TypeInit == Init => TypeOK
<1> SUFFICES ASSUME Init PROVE TypeOK
    OBVIOUS
<1>1. net \in Reading(Interfaces) /\ Unread \in Reading(Interfaces)
    BY DEF Init, Reading, Unread
<1>2. Unused \in [on : BOOLEAN, last : Reading(Keys)] /\ 0 \in 0..Cooldown
    BY UplinksAssumption DEF Unused, Reading
<1>3. passed \in [before : Nat, after : Nat] /\ Nothing \in [Providers -> Nat]
    BY DEF Init, Nothing
<1>4. QED
    BY <1>1, <1>2, <1>3 DEF Init, TypeOK, Keys

\* Types, of which the rows say most: whatever chain or interface could not be
\* read, what a tick records is a number of bytes under a provider or nobody
\* (`traffic::delta`, `traffic_rows`).
THEOREM TypeCorrect == Spec => []TypeOK
BY TypeInit, TypeStep, PTL DEF Spec

-----------------------------------------------------------------------------
(***************************************************************************)
(* No interval is recorded again.  Every byte of a row is one of those     *)
(* that a counter has climbed past since its last reading, and every step  *)
(* of a counter is a byte that passed.  Sets of bytes are compared instead *)
(* of sums, so there may be any number of providers.                       *)
(***************************************************************************)
Within(B, n) == IsFiniteSet(B) /\ Cardinality(B) <= n

LEMMA WithinEmpty == ASSUME NEW n \in Nat PROVE Within({}, n)
BY FS_EmptySet DEF Within

LEMMA WithinFewer ==
    ASSUME NEW n \in Nat, NEW m \in Nat, n <= m, NEW B, Within(B, n), NEW A \in SUBSET B
    PROVE  Within(A, m)
<1>1. IsFiniteSet(A) /\ Cardinality(A) <= Cardinality(B)
    BY FS_Subset DEF Within
<1>2. Cardinality(A) \in Nat /\ Cardinality(B) \in Nat /\ Cardinality(B) <= n
    BY <1>1, FS_CardinalityType DEF Within
<1>3. QED
    BY <1>1, <1>2 DEF Within

LEMMA WithinOneMore ==
    ASSUME NEW n \in Nat, NEW B, Within(B, n), NEW x, NEW A \in SUBSET (B \cup {x})
    PROVE  Within(A, n + 1)
<1>1. /\ IsFiniteSet(B \cup {x})
      /\ Cardinality(B \cup {x}) = IF x \in B THEN Cardinality(B) ELSE Cardinality(B) + 1
    BY FS_AddElement DEF Within
<1>2. Cardinality(B) \in Nat /\ Cardinality(B) <= n
    BY FS_CardinalityType DEF Within
<1>3. Within(B \cup {x}, n + 1)
    BY <1>1, <1>2 DEF Within
<1> DEFINE C == B \cup {x}
<1>4. Within(C, n + 1) /\ A \in SUBSET C /\ n + 1 \in Nat /\ n + 1 <= n + 1
    BY <1>3
<1> HIDE DEF C
<1>5. QED
    BY <1>4, WithinFewer

LEMMA WithinInjection ==
    ASSUME NEW n \in Nat, NEW B, Within(B, n), NEW A, NEW f \in [A -> B],
           \A a, b \in A : f[a] = f[b] => a = b
    PROVE  Within(A, n)
<1>1. f \in Injection(A, B)
    BY DEF Injection, IsInjective
<1>2. IsFiniteSet(A) /\ Cardinality(A) <= Cardinality(B)
    BY <1>1, FS_Injection DEF Within
<1>3. Cardinality(A) \in Nat /\ Cardinality(B) \in Nat /\ Cardinality(B) <= n
    BY <1>2, FS_CardinalityType DEF Within
<1>4. QED
    BY <1>2, <1>3 DEF Within

\* What the counters S have climbed past, from one reading to the other.
Climbed(before, now, S) ==
    {b \in S \X Nat : /\ before[b[1]] # None /\ now[b[1]] # None
                      /\ before[b[1]] < b[2] /\ b[2] <= now[b[1]]}

DeltaBytes ==
    {b \in Interfaces \X Nat : delta[b[1]] # None /\ 0 < b[2] /\ b[2] <= delta[b[1]]}

ChainBytes == IF chain = None THEN {} ELSE Climbed(counters.last, chain.count, Keys)

OnInterfaces == Within(Climbed(prev, net, Interfaces), passed.after)
InDelta == Within(DeltaBytes, passed.before)
InChain ==
    Within(ChainBytes, IF daemon = "read" THEN passed.before + passed.after ELSE passed.after)
GrownBytes ==
    IF grown = None THEN {} ELSE {b \in Keys \X Nat : 0 < b[2] /\ b[2] <= grown[b[1]]}
InGrown == Within(GrownBytes, passed.before + passed.after)
InRows == Within(Recorded, passed.before + passed.after)

\* Who does not run remembers nothing, a chain out of use has no baseline, and
\* between two ticks nothing waits to be attributed.
Clean ==
    /\ daemon = "down" => prev = Unread /\ counters = Unused
    /\ counters.on = TRUE \/ counters = Unused
    /\ daemon # "count" => grown = None

Fits == OnInterfaces /\ InDelta /\ InChain /\ InGrown /\ InRows /\ Clean

LEMMA NothingClimbed ==
    ASSUME NEW S, NEW now, NEW before, \A i \in S : before[i] = None
    PROVE  Climbed(before, now, S) = {}
BY DEF Climbed

LEMMA PassedIsNat ==
    ASSUME TypeOK
    PROVE  /\ passed.before \in Nat /\ passed.after \in Nat
           /\ passed = [before |-> passed.before, after |-> passed.after]
BY DEF TypeOK

\* A byte that is counted is one that passed.
LEMMA CountFits ==
    ASSUME TypeOK, OnInterfaces, Clean, NEW i \in Interfaces, Count(i),
           UNCHANGED <<daemon, prev>>
    PROVE  /\ OnInterfaces'
           /\ passed'.before = passed.before
           /\ passed'.after = IF daemon = "down" THEN passed.after ELSE passed.after + 1
<1>1. /\ net[i] \in Nat /\ net' = [net EXCEPT ![i] = @ + 1] /\ DOMAIN net = Interfaces
      /\ passed' = IF daemon = "down" THEN passed ELSE [passed EXCEPT !.after = @ + 1]
    BY DEF Count, TypeOK, Reading
<1>2. /\ passed'.before = passed.before
      /\ passed'.after = IF daemon = "down" THEN passed.after ELSE passed.after + 1
    BY <1>1, PassedIsNat
<1>3. CASE daemon = "down"
    <2>1. \A j \in Interfaces : prev'[j] = None
        BY <1>3 DEF Clean, Unread
    <2>2. Climbed(prev', net', Interfaces) = {}
        BY <2>1, NothingClimbed
    <2>3. passed'.after \in Nat
        BY <1>2, <1>3, PassedIsNat
    <2>4. Within({}, passed'.after)
        BY <2>3, WithinEmpty
    <2>5. QED
        BY <1>2, <2>2, <2>4 DEF OnInterfaces, Climbed
<1>4. CASE daemon # "down"
    <2> DEFINE old == Climbed(prev, net, Interfaces)
               new == Climbed(prev, net', Interfaces)
               byte == <<i, net[i] + 1>>
    <2>1. new \in SUBSET (old \cup {byte})
        <3> SUFFICES ASSUME NEW b \in new, b \notin old PROVE b = byte
            OBVIOUS
        <3>1. /\ b \in Interfaces \X Nat /\ b[1] \in Interfaces /\ b[2] \in Nat
              /\ prev[b[1]] # None /\ net'[b[1]] # None
              /\ prev[b[1]] < b[2] /\ b[2] <= net'[b[1]]
            BY DEF Climbed
        <3>2. ~(net[b[1]] # None /\ b[2] <= net[b[1]])
            BY <3>1 DEF Climbed
        <3>3. b[1] = i
            BY <1>1, <3>1, <3>2
        <3>4. b[2] <= net[i] + 1 /\ ~(b[2] <= net[i])
            BY <1>1, <3>1, <3>2, <3>3, UplinksAssumption
        <3>5. b[2] = net[i] + 1
            BY <1>1, <3>1, <3>4
        <3>6. b = <<b[1], b[2]>>
            BY <3>1
        <3>7. QED
            BY <3>3, <3>5, <3>6
    <2>2. Within(old, passed.after) /\ passed.after \in Nat
        BY PassedIsNat DEF OnInterfaces
    <2>3. passed'.after = passed.after + 1
        BY <1>2, <1>4
    <2> HIDE DEF old, new, byte
    <2>4. Within(new, passed.after + 1)
        BY <2>1, <2>2, WithinOneMore
    <2>5. Climbed(prev', net', Interfaces) = new
        BY DEF new
    <2>6. Within(Climbed(prev', net', Interfaces), passed'.after)
        BY <2>3, <2>4, <2>5
    <2>7. QED
        BY <1>2, <2>6 DEF OnInterfaces, Climbed
<1>5. QED
    BY <1>2, <1>3, <1>4

LEMMA DeltaFits == ASSUME TypeOK, Fits, Snapshot PROVE InDelta' /\ OnInterfaces'
<1>1. /\ delta' = [i \in Interfaces |-> Delta(prev[i], net[i])]
      /\ prev' = [i \in Interfaces |-> IF net[i] = None THEN prev[i] ELSE net[i]]
      /\ passed'.before = passed.after /\ passed'.after = 0 /\ net' = net
    BY DEF Snapshot, outside
<1>2. passed.after \in Nat
    BY PassedIsNat
<1>3. \A i \in Interfaces : prev[i] \in Nat \cup {None} /\ net[i] \in Nat \cup {None}
    BY DEF TypeOK, Reading
<1>4. InDelta'
    <2> DEFINE A == DeltaBytes'
               B == Climbed(prev, net, Interfaces)
               f == [b \in A |-> <<b[1], prev[b[1]] + b[2]>>]
    <2>1. ASSUME NEW b \in A
          PROVE  /\ b[1] \in Interfaces /\ b[2] \in Nat /\ b = <<b[1], b[2]>>
                 /\ prev[b[1]] \in Nat /\ f[b] \in B
                 /\ f[b] = <<b[1], prev[b[1]] + b[2]>>
        <3>1. /\ b \in Interfaces \X Nat /\ delta'[b[1]] # None
              /\ 0 < b[2] /\ b[2] <= delta'[b[1]]
            BY DEF DeltaBytes
        <3>2. b[1] \in Interfaces /\ b[2] \in Nat /\ b = <<b[1], b[2]>>
            BY <3>1
        <3> DEFINE i == b[1]
        <3>3. /\ prev[i] \in Nat /\ net[i] \in Nat /\ prev[i] # None /\ net[i] # None
              /\ delta'[i] = net[i] - prev[i]
            BY <1>1, <1>3, <3>1, <3>2, UplinksAssumption DEF Delta
        <3>4. /\ prev[i] + b[2] \in Nat /\ prev[i] < prev[i] + b[2]
              /\ prev[i] + b[2] <= net[i]
            BY <3>1, <3>2, <3>3
        <3>5. <<i, prev[i] + b[2]>> \in B
            BY <3>2, <3>3, <3>4 DEF Climbed
        <3>6. QED
            BY <3>2, <3>3, <3>5
    <2>2. f \in [A -> B]
        BY <2>1
    <2>3. \A a, b \in A : f[a] = f[b] => a = b
        <3> SUFFICES ASSUME NEW a \in A, NEW b \in A, f[a] = f[b] PROVE a = b
            OBVIOUS
        <3>1. a[1] = b[1] /\ prev[a[1]] + a[2] = prev[b[1]] + b[2]
            BY <2>1
        <3>2. a[2] = b[2]
            BY <2>1, <3>1
        <3>3. QED
            BY <2>1, <3>1, <3>2
    <2>4. Within(B, passed.after)
        BY DEF Fits, OnInterfaces
    <2> HIDE DEF f, A, B
    <2>5. Within(A, passed.after)
        BY <1>2, <2>2, <2>3, <2>4, WithinInjection
    <2>6. QED
        BY <1>1, <2>5 DEF InDelta, A
<1>5. OnInterfaces'
    <2>1. ASSUME NEW b \in Climbed(prev', net', Interfaces) PROVE FALSE
        <3>1. /\ b[1] \in Interfaces /\ b[2] \in Nat /\ net[b[1]] # None
              /\ prev'[b[1]] < b[2] /\ b[2] <= net[b[1]]
            BY <1>1, <2>1 DEF Climbed
        <3>2. prev'[b[1]] = net[b[1]] /\ net[b[1]] \in Nat
            BY <1>1, <1>3, <3>1
        <3>3. QED
            BY <3>1, <3>2
    <2>2. Climbed(prev', net', Interfaces) = {}
        BY <2>1
    <2>3. Within({}, 0)
        BY WithinEmpty
    <2>4. QED
        BY <1>1, <2>2, <2>3 DEF OnInterfaces, Climbed
<1>6. QED
    BY <1>4, <1>5

LEMMA RowsOfInterfaces ==
    ASSUME TypeOK, Fits, rows' = PerInterface
    PROVE  Within(Recorded', passed.before)
<1> DEFINE A == Recorded'
           f == [b \in A |-> <<b[1].interface, b[2]>>]
<1>1. ASSUME NEW r \in PerInterface
      PROVE  \E p \in Providers :
                /\ r = Row(IF Alone(p) THEN p ELSE None, Interface[p], delta[Interface[p]])
                /\ delta[Interface[p]] # None /\ Interface[p] \in Interfaces
                /\ delta[Interface[p]] \in Nat
    <2>1. PICK p \in {q \in Providers : delta[Interface[q]] # None} :
              r = Row(IF Alone(p) THEN p ELSE None, Interface[p], delta[Interface[p]])
        BY DEF PerInterface
    <2>2. Interface[p] \in Interfaces
        BY DEF Interfaces
    <2>3. delta[Interface[p]] \in Nat
        BY <2>1, <2>2 DEF TypeOK, Reading
    <2>4. QED
        BY <2>1, <2>2, <2>3
<1>2. ASSUME NEW r \in PerInterface, NEW s \in PerInterface, r.interface = s.interface
      PROVE  r = s
    <2>1. PICK p \in Providers :
              r = Row(IF Alone(p) THEN p ELSE None, Interface[p], delta[Interface[p]])
        BY <1>1
    <2>2. PICK q \in Providers :
              s = Row(IF Alone(q) THEN q ELSE None, Interface[q], delta[Interface[q]])
        BY <1>1
    <2>3. Interface[p] = Interface[q]
        BY <1>2, <2>1, <2>2 DEF Row
    <2>4. p = q \/ (~Alone(p) /\ ~Alone(q))
        BY <2>3 DEF Alone
    <2>5. QED
        BY <2>1, <2>2, <2>3, <2>4
<1>3. ASSUME NEW b \in A
      PROVE  /\ b[1] \in PerInterface /\ b[2] \in Nat /\ b = <<b[1], b[2]>>
             /\ f[b] \in DeltaBytes /\ f[b] = <<b[1].interface, b[2]>>
    <2>1. PICK r \in PerInterface : b \in {r} \X (1..r.bytes)
        BY DEF Recorded
    <2>2. PICK p \in Providers :
              /\ r = Row(IF Alone(p) THEN p ELSE None, Interface[p], delta[Interface[p]])
              /\ delta[Interface[p]] # None /\ Interface[p] \in Interfaces
              /\ delta[Interface[p]] \in Nat
        BY <1>1
    <2>3. r.interface = Interface[p] /\ r.bytes = delta[Interface[p]]
        BY <2>2 DEF Row
    <2>4. b[1] = r /\ b[2] \in 1..r.bytes /\ b = <<b[1], b[2]>>
        BY <2>1
    <2>5. b[2] \in Nat /\ 0 < b[2] /\ b[2] <= delta[Interface[p]]
        BY <2>2, <2>3, <2>4
    <2>6. <<r.interface, b[2]>> \in DeltaBytes
        BY <2>2, <2>3, <2>5 DEF DeltaBytes
    <2>7. QED
        BY <2>4, <2>5, <2>6
<1>4. f \in [A -> DeltaBytes]
    BY <1>3
<1>5. \A a, b \in A : f[a] = f[b] => a = b
    <2> SUFFICES ASSUME NEW a \in A, NEW b \in A, f[a] = f[b] PROVE a = b
        OBVIOUS
    <2>1. a[1].interface = b[1].interface /\ a[2] = b[2]
        BY <1>3
    <2>2. a[1] = b[1]
        BY <1>2, <1>3, <2>1
    <2>3. QED
        BY <1>3, <2>1, <2>2
<1>6. Within(DeltaBytes, passed.before) /\ passed.before \in Nat
    BY PassedIsNat DEF Fits, InDelta
<1> HIDE DEF f, A
<1>7. Within(A, passed.before)
    BY <1>4, <1>5, <1>6, WithinInjection
<1>8. QED
    BY <1>7 DEF A

LEMMA PairsAgree ==
    ASSUME NEW i, NEW m, NEW j, NEW n, <<i, m>> = <<j, n>> PROVE i = j /\ m = n
OBVIOUS

\* What a counter grew by, it climbed past.
LEMMA GrownFits == ASSUME TypeOK, Fits, ReadChain PROVE InGrown'
<1> DEFINE last == counters.last
           now == chain.count
           A == GrownBytes'
           f == [b \in A |-> <<b[1], last[b[1]] + b[2]>>]
<1>1. /\ chain # None /\ daemon = "read" /\ UNCHANGED passed
      /\ grown' = IF counters = Empty THEN None ELSE [k \in Keys |-> Bytes(last, now, k)]
    BY DEF ReadChain
<1>2. /\ now \in [Keys -> Nat] /\ last \in [Keys -> Nat \cup {None}]
      /\ passed.before + passed.after \in Nat
    BY <1>1, PassedIsNat DEF TypeOK, Reading
<1>3. CASE grown' = None
    <2>1. GrownBytes' = {}
        BY <1>3 DEF GrownBytes
    <2>2. Within({}, passed.before + passed.after)
        BY <1>2, WithinEmpty
    <2>3. QED
        BY <1>1, <2>1, <2>2 DEF InGrown
<1>4. CASE grown' # None
    <2>1. ASSUME NEW b \in A
          PROVE  /\ b[1] \in Keys /\ b[2] \in Nat /\ b = <<b[1], b[2]>>
                 /\ last[b[1]] \in Nat
                 /\ <<b[1], last[b[1]] + b[2]>> \in ChainBytes
        <3>1. /\ b[1] \in Keys /\ b[2] \in Nat /\ b = <<b[1], b[2]>> /\ 0 < b[2]
              /\ b[2] <= Bytes(last, now, b[1])
            BY <1>1, <1>4 DEF GrownBytes
        <3> DEFINE k == b[1]
                   n == b[2]
        <3>2. Delta(last[k], now[k]) # None
            BY <3>1 DEF Bytes
        <3>3. last[k] # None /\ now[k] # None /\ last[k] \in Nat /\ now[k] \in Nat
            BY <1>2, <3>1, <3>2, UplinksAssumption DEF Delta
        <3>4. Bytes(last, now, k) = now[k] - last[k]
            BY <3>2, <3>3 DEF Bytes, Delta
        <3>5. last[k] < last[k] + n /\ last[k] + n <= now[k] /\ last[k] + n \in Nat
            BY <3>1, <3>3, <3>4
        <3>6. <<k, last[k] + n>> \in Climbed(last, now, Keys)
            BY <3>1, <3>3, <3>5 DEF Climbed
        <3>7. QED
            BY <1>1, <3>1, <3>3, <3>6 DEF ChainBytes
    <2>2. f \in [A -> ChainBytes]
        BY <2>1
    <2>3. \A a, b \in A : f[a] = f[b] => a = b
        <3> SUFFICES ASSUME NEW a \in A, NEW b \in A, f[a] = f[b] PROVE a = b
            OBVIOUS
        <3>1. a[1] = b[1] /\ last[a[1]] + a[2] = last[b[1]] + b[2]
            BY PairsAgree
        <3>2. a[2] = b[2]
            BY <2>1, <3>1
        <3>3. QED
            BY <2>1, <3>1, <3>2
    <2>4. Within(ChainBytes, passed.before + passed.after)
        BY <1>1 DEF Fits, InChain
    <2> HIDE DEF f, A
    <2>5. Within(A, passed.before + passed.after)
        BY <1>2, <2>2, <2>3, <2>4, WithinInjection
    <2>6. QED
        BY <1>1, <2>5 DEF InGrown, A
<1>5. QED
    BY <1>3, <1>4

\* The unmarked bytes go to one provider, those of a mark to its own.
LEMMA RowsOfProviders ==
    ASSUME TypeOK, Fits, grown # None, rows' = PerProvider(Attribute(grown))
    PROVE  Within(Recorded', passed.before + passed.after)
<1> DEFINE A == Recorded'
           f == [b \in A |-> LET p == b[1].provider
                             IN  IF b[2] <= grown[p] THEN <<p, b[2]>>
                                 ELSE <<None, b[2] - grown[p]>>]
<1>1. grown \in [Keys -> Nat]
    BY DEF TypeOK
<1>2. \A k \in Keys, n \in Nat : 0 < n /\ n <= grown[k] => <<k, n>> \in GrownBytes
    BY DEF GrownBytes
<1>3. \A p \in Providers : p \in Keys /\ p # None /\ grown[p] \in Nat
    BY <1>1, UplinksAssumption DEF Keys
<1>4. None \in Keys /\ grown[None] \in Nat
    BY <1>1 DEF Keys
<1>5. ASSUME NEW b \in A
      PROVE  \E p \in Providers :
                /\ b[1] = Row(p, Interface[p], Attribute(grown)[p]) /\ b[1].provider = p
                /\ b[2] \in Nat /\ 0 < b[2] /\ b = <<b[1], b[2]>>
                /\ b[2] <= grown[p] + (IF active = p THEN grown[None] ELSE 0)
    <2>1. PICK r \in PerProvider(Attribute(grown)) : b \in {r} \X (1..r.bytes)
        BY DEF Recorded
    <2>2. PICK p \in Providers : r = Row(p, Interface[p], Attribute(grown)[p])
        BY DEF PerProvider
    <2>3. r.provider = p /\ r.bytes = Attribute(grown)[p]
        BY <2>2 DEF Row
    <2>4. Attribute(grown)[p] = grown[p] + (IF active = p THEN grown[None] ELSE 0)
        BY DEF Attribute
    <2>5. b[1] = r /\ b[2] \in 1..r.bytes /\ b = <<b[1], b[2]>>
        BY <2>1
    <2>6. b[2] \in Nat /\ 0 < b[2] /\ b[2] <= grown[p] + (IF active = p THEN grown[None] ELSE 0)
        BY <1>3, <1>4, <2>3, <2>4, <2>5
    <2>7. QED
        BY <2>2, <2>3, <2>5, <2>6
<1>6. \A b \in A : f[b] = IF b[2] <= grown[b[1].provider] THEN <<b[1].provider, b[2]>>
                          ELSE <<None, b[2] - grown[b[1].provider]>>
    OBVIOUS
<1>7. DOMAIN f = A /\ f = [b \in A |-> f[b]]
    OBVIOUS
<1> HIDE DEF f, A
<1>8. ASSUME NEW b \in A, ~(b[2] <= grown[b[1].provider])
      PROVE  /\ active = b[1].provider
             /\ b[2] - grown[b[1].provider] \in Nat
             /\ 0 < b[2] - grown[b[1].provider]
             /\ b[2] - grown[b[1].provider] <= grown[None]
    <2>1. PICK p \in Providers :
              /\ b[1].provider = p /\ b[2] \in Nat
              /\ b[2] <= grown[p] + (IF active = p THEN grown[None] ELSE 0)
        BY <1>5
    <2>2. QED
        BY <1>3, <1>4, <1>8, <2>1
<1>9. ASSUME NEW b \in A PROVE f[b] \in GrownBytes
    <2>1. PICK p \in Providers : b[1].provider = p /\ b[2] \in Nat /\ 0 < b[2]
        BY <1>5
    <2>2. CASE b[2] <= grown[p]
        BY <1>2, <1>3, <1>6, <2>1, <2>2
    <2>3. CASE ~(b[2] <= grown[p])
        BY <1>2, <1>4, <1>6, <1>8, <2>1, <2>3
    <2>4. QED
        BY <2>2, <2>3
<1>10. f \in [A -> GrownBytes]
    BY <1>7, <1>9
<1>11. ASSUME NEW a \in A, NEW b \in A, f[a] = f[b] PROVE a = b
    <2>1. PICK p \in Providers :
              /\ a[1] = Row(p, Interface[p], Attribute(grown)[p]) /\ a[1].provider = p
              /\ a[2] \in Nat /\ a = <<a[1], a[2]>>
        BY <1>5
    <2>2. PICK q \in Providers :
              /\ b[1] = Row(q, Interface[q], Attribute(grown)[q]) /\ b[1].provider = q
              /\ b[2] \in Nat /\ b = <<b[1], b[2]>>
        BY <1>5
    <2>3. /\ p \in Providers /\ q \in Providers /\ p # None /\ q # None
          /\ grown[p] \in Nat /\ grown[q] \in Nat
        BY <1>3
    <2>4. /\ f[a] = IF a[2] <= grown[p] THEN <<p, a[2]>> ELSE <<None, a[2] - grown[p]>>
          /\ f[b] = IF b[2] <= grown[q] THEN <<q, b[2]>> ELSE <<None, b[2] - grown[q]>>
        BY <1>6, <2>1, <2>2
    <2>5. p = q /\ a[2] = b[2]
        <3>1. CASE a[2] <= grown[p] /\ b[2] <= grown[q]
            <4>1. <<p, a[2]>> = <<q, b[2]>>
                BY <1>11, <2>4, <3>1
            <4>2. QED
                BY ONLY <4>1, PairsAgree
        <3>2. CASE ~(a[2] <= grown[p]) /\ ~(b[2] <= grown[q])
            <4> DEFINE m == a[2] - grown[p]
                       n == b[2] - grown[q]
            <4>1. p = q
                BY <1>8, <2>1, <2>2, <3>2
            <4>2. <<None, m>> = <<None, n>>
                BY <1>11, <2>4, <3>2
            <4> HIDE DEF m, n
            <4>3. m = n
                BY ONLY <4>2, PairsAgree
            <4>4. QED
                BY <2>1, <2>2, <2>3, <4>1, <4>3 DEF m, n
        <3>3. CASE a[2] <= grown[p] /\ ~(b[2] <= grown[q])
            <4>1. <<p, a[2]>> = <<None, b[2] - grown[q]>>
                BY <1>11, <2>4, <3>3
            <4>2. p = None
                BY ONLY <4>1, PairsAgree
            <4>3. QED
                BY <2>3, <4>2
        <3>4. CASE ~(a[2] <= grown[p]) /\ b[2] <= grown[q]
            <4>1. <<q, b[2]>> = <<None, a[2] - grown[p]>>
                BY <1>11, <2>4, <3>4
            <4>2. q = None
                BY ONLY <4>1, PairsAgree
            <4>3. QED
                BY <2>3, <4>2
        <3>5. QED
            BY <3>1, <3>2, <3>3, <3>4
    <2>6. QED
        BY <2>1, <2>2, <2>5
<1>12. Within(GrownBytes, passed.before + passed.after) /\ passed.before + passed.after \in Nat
    BY PassedIsNat DEF Fits, InGrown
<1>13. Within(A, passed.before + passed.after)
    BY <1>10, <1>11, <1>12, WithinInjection
<1>14. QED
    BY <1>13 DEF A

LEMMA ReadChainFits == ASSUME TypeOK, Fits, ReadChain PROVE Fits'
<1>1. /\ chain # None /\ daemon' = "count"
      /\ counters' = [on |-> TRUE, last |-> chain.count]
      /\ UNCHANGED <<net, chain, active, prev, delta, rows, passed>>
    BY DEF ReadChain, outside
<1>2. OnInterfaces' /\ InDelta' /\ InRows'
    BY <1>1 DEF Fits, OnInterfaces, Climbed, InDelta, DeltaBytes, InRows, Recorded
<1>3. ChainBytes' = {}
    <2>1. chain.count \in [Keys -> Nat]
        BY <1>1 DEF TypeOK
    <2>2. ASSUME NEW b \in Climbed(chain.count, chain.count, Keys) PROVE FALSE
        BY <2>1, <2>2 DEF Climbed
    <2>3. ChainBytes' = Climbed(chain.count, chain.count, Keys)
        BY <1>1 DEF ChainBytes, Climbed
    <2>4. QED
        BY <2>2, <2>3
<1>4. InChain'
    <2>1. Within({}, passed.after)
        BY PassedIsNat, WithinEmpty
    <2>2. QED
        BY <1>1, <1>3, <2>1 DEF InChain
<1>5. QED
    BY <1>1, <1>2, <1>4, GrownFits DEF Fits, Clean

\* What a tick leaves behind: nothing between the interfaces' readings, nothing to
\* attribute.
LEMMA TickIsOver ==
    ASSUME TypeOK, Fits, grown' = None, delta' = Unread, UNCHANGED <<net, prev, passed>>
    PROVE  OnInterfaces' /\ InDelta' /\ InGrown'
<1>1. OnInterfaces'
    BY DEF Fits, OnInterfaces, Climbed
<1>2. /\ passed.before \in Nat /\ passed.before + passed.after \in Nat
    BY PassedIsNat
<1>3. DeltaBytes' = {} /\ GrownBytes' = {}
    BY DEF DeltaBytes, Unread, GrownBytes
<1>4. Within({}, passed.before) /\ Within({}, passed.before + passed.after)
    BY <1>2, WithinEmpty
<1>5. QED
    BY <1>1, <1>3, <1>4 DEF InDelta, InGrown

LEMMA RecordFits == ASSUME TypeOK, Fits, Record PROVE Fits'
<1>1. /\ daemon = "count" /\ daemon' = "idle" /\ grown' = None /\ delta' = Unread
      /\ rows' = IF grown = None THEN {} ELSE PerProvider(Attribute(grown))
      /\ UNCHANGED <<net, chain, active, prev, counters, passed>>
    BY DEF Record, outside
<1>2. OnInterfaces' /\ InDelta' /\ InGrown'
    BY <1>1, TickIsOver
<1>3. InChain'
    BY <1>1 DEF Fits, InChain, ChainBytes, Climbed
<1>4. InRows'
    <2>1. CASE grown = None
        <3>1. Recorded' = {}
            BY <1>1, <2>1 DEF Recorded
        <3>2. Within({}, passed.before + passed.after)
            BY PassedIsNat, WithinEmpty
        <3>3. QED
            BY <1>1, <3>1, <3>2 DEF InRows
    <2>2. CASE grown # None
        BY <1>1, <2>2, RowsOfProviders DEF InRows
    <2>3. QED
        BY <2>1, <2>2
<1>5. QED
    BY <1>1, <1>2, <1>3, <1>4 DEF Fits, Clean

LEMMA RecordByInterfaceFits == ASSUME TypeOK, Fits, RecordByInterface PROVE Fits'
<1>1. /\ daemon = "read" /\ daemon' = "idle" /\ delta' = Unread /\ rows' = PerInterface
      /\ grown' = None
      /\ UNCHANGED <<net, active, prev, passed>>
    BY DEF RecordByInterface, Fits, Clean
<1>2. /\ passed.before \in Nat /\ passed.after \in Nat
      /\ passed.before + passed.after \in Nat /\ passed.before <= passed.before + passed.after
    BY PassedIsNat
<1>3. OnInterfaces' /\ InDelta' /\ InGrown'
    BY <1>1, TickIsOver
<1>4. InRows'
    <2> DEFINE A == Recorded'
    <2>1. Within(A, passed.before)
        BY <1>1, RowsOfInterfaces
    <2>2. A \in SUBSET A
        OBVIOUS
    <2> HIDE DEF A
    <2>3. Within(A, passed.before + passed.after)
        BY ONLY <1>2, <2>1, <2>2, WithinFewer
    <2>4. QED
        BY <1>1, <2>3 DEF InRows, A
<1>5. ASSUME counters' \in {Empty, Unused} PROVE InChain'
    <2>1. \A k \in Keys : counters'.last[k] = None
        BY <1>5 DEF Empty, Unused
    <2>2. \A now : Climbed(counters'.last, now, Keys) = {}
        BY <2>1, NothingClimbed
    <2>3. ChainBytes' = {}
        BY <2>2 DEF ChainBytes, Climbed
    <2>4. Within({}, passed.after)
        BY <1>2, WithinEmpty
    <2>5. QED
        BY <1>1, <2>3, <2>4 DEF InChain
<1>6. counters' \in {Empty, Unused} /\ (counters'.on = TRUE \/ counters' = Unused)
    <2>1. CASE LostChain
        BY <2>1 DEF LostChain, Empty
    <2>2. CASE NoChain
        BY <2>2 DEF NoChain, Fits, Clean
    <2>3. QED
        BY <2>1, <2>2 DEF RecordByInterface
<1>7. QED
    BY <1>1, <1>3, <1>4, <1>5, <1>6 DEF Fits, Clean

\* A chain that counts one more byte has climbed past one more.
LEMMA StillWithin ==
    ASSUME NEW n \in Nat, n = passed.before + passed.after,
           NEW m \in Nat, m = passed'.before + passed'.after, n <= m,
           InRows, InGrown, UNCHANGED <<rows, grown>>
    PROVE  InRows' /\ InGrown'
<1> DEFINE A == Recorded
           B == GrownBytes
<1>1. Within(A, n) /\ A \in SUBSET A /\ Within(B, n) /\ B \in SUBSET B
    BY DEF InRows, InGrown
<1>2. A' = A /\ B' = B
    BY DEF Recorded, GrownBytes
<1> HIDE DEF A, B
<1>3. Within(A, m) /\ Within(B, m)
    BY ONLY n \in Nat, m \in Nat, n <= m, <1>1, WithinFewer
<1>4. QED
    BY <1>2, <1>3 DEF InRows, InGrown, A, B

LEMMA ForwardFits ==
    ASSUME TypeOK, Fits, NEW p \in Providers, NEW k \in {p, None}, Forward(p, k)
    PROVE  Fits'
<1>1. Interface[p] \in Interfaces /\ k \in Keys
    BY DEF Interfaces, Keys
<1>2. /\ Count(Interface[p])
      /\ UNCHANGED <<active, daemon, prev, delta, counters, grown, cool, rows>>
    BY DEF Forward, memory
<1>3. /\ OnInterfaces'
      /\ passed'.before = passed.before
      /\ passed'.after = IF daemon = "down" THEN passed.after ELSE passed.after + 1
    BY <1>1, <1>2, CountFits DEF Fits
<1>4. /\ passed.before \in Nat /\ passed.after \in Nat
      /\ passed'.after \in Nat /\ passed.after <= passed'.after
      /\ passed.before + passed.after \in Nat
      /\ passed'.before + passed'.after \in Nat
      /\ passed.before + passed.after <= passed'.before + passed'.after
    BY <1>3, PassedIsNat
<1>5. InDelta'
    BY <1>2, <1>3 DEF Fits, InDelta, DeltaBytes
<1>6. InRows' /\ InGrown'
    BY <1>2, <1>4, StillWithin DEF Fits
<1> DEFINE now == IF daemon = "read" THEN passed.before + passed.after ELSE passed.after
           then == IF daemon = "read" THEN passed'.before + passed'.after ELSE passed'.after
<1>7. /\ now \in Nat /\ then \in Nat /\ now <= then
      /\ daemon # "down" => then = now + 1
    BY <1>3, <1>4
<1>8. Within(ChainBytes, now)
    BY DEF Fits, InChain
<1>9. InChain' = Within(ChainBytes', then)
    BY <1>2 DEF InChain
<1> HIDE DEF now, then
<1>10. CASE daemon = "down"
    <2>1. counters' = Unused
        BY <1>2, <1>10 DEF Fits, Clean
    <2>2. \A j \in Keys : Unused.last[j] = None
        BY DEF Unused
    <2>3. \A c : Climbed(Unused.last, c, Keys) = {}
        BY <2>2, NothingClimbed
    <2>4. ChainBytes' = {}
        BY <2>1, <2>3 DEF ChainBytes, Climbed
    <2>5. Within({}, then)
        BY <1>7, WithinEmpty
    <2>6. QED
        BY <1>2, <1>3, <1>5, <1>6, <1>9, <2>4, <2>5 DEF Fits, Clean
<1>11. CASE daemon # "down" /\ Hooked
    <2>1. /\ chain \in [hooked : BOOLEAN, count : [Keys -> Nat]]
          /\ chain' = [chain EXCEPT !.count[k] = @ + 1]
        BY <1>11 DEF Forward, Hooked, TypeOK
    <2>2. chain' = [hooked |-> chain.hooked, count |-> [chain.count EXCEPT ![k] = @ + 1]]
        BY <2>1
    <2> DEFINE last == counters.last
               old == Climbed(last, chain.count, Keys)
               count == [chain.count EXCEPT ![k] = @ + 1]
               new == Climbed(last, count, Keys)
               byte == <<k, chain.count[k] + 1>>
    <2>3. ChainBytes = old /\ ChainBytes' \in SUBSET new
        <3>1. ChainBytes = old
            BY <1>11 DEF ChainBytes, Hooked
        <3>2. chain'.count = count /\ counters' = counters
            BY <1>2, <2>2
        <3>3. ChainBytes' = IF chain' = None THEN {} ELSE new
            BY <3>2 DEF ChainBytes, Climbed
        <3>4. QED
            BY <3>1, <3>3
    <2>4. /\ chain.count[k] \in Nat /\ count[k] = chain.count[k] + 1
          /\ \A j \in Keys \ {k} : count[j] = chain.count[j]
          /\ \A j \in Keys : chain.count[j] # None /\ last[j] \in Nat \cup {None}
        BY <1>1, <2>1, UplinksAssumption DEF TypeOK, Reading
    <2> HIDE DEF count, last
    <2>5. new \in SUBSET (old \cup {byte})
        <3> SUFFICES ASSUME NEW b \in new, b \notin old PROVE b = byte
            OBVIOUS
        <3>1. /\ b \in Keys \X Nat /\ b[1] \in Keys /\ b[2] \in Nat
              /\ last[b[1]] # None /\ last[b[1]] < b[2] /\ b[2] <= count[b[1]]
            BY DEF Climbed
        <3>2. ~(b[2] <= chain.count[b[1]])
            BY <2>4, <3>1 DEF Climbed
        <3>3. b[1] = k
            BY <2>4, <3>1, <3>2
        <3>4. b[2] = chain.count[k] + 1
            BY <2>4, <3>1, <3>2, <3>3
        <3>5. b = <<b[1], b[2]>>
            BY <3>1
        <3>6. QED
            BY <3>3, <3>4, <3>5
    <2>6. Within(old, now)
        BY <1>8, <2>3
    <2> HIDE DEF old, new, byte
    <2>7. Within(new, now + 1)
        BY ONLY <1>7, <2>5, <2>6, WithinOneMore
    <2>8. InChain'
        <3> DEFINE A == ChainBytes'
        <3>1. A \in SUBSET new /\ now + 1 \in Nat /\ then \in Nat /\ now + 1 <= then
            BY <1>7, <1>11, <2>3
        <3> HIDE DEF A
        <3>2. Within(A, then)
            BY ONLY <2>7, <3>1, WithinFewer
        <3>3. QED
            BY <1>9, <3>2 DEF A
    <2>9. QED
        BY <1>2, <1>3, <1>5, <1>6, <2>8 DEF Fits, Clean
<1>12. CASE daemon # "down" /\ ~Hooked
    <2> DEFINE A == ChainBytes
    <2>1. A \in SUBSET A /\ Within(A, now)
        BY <1>8
    <2>2. UNCHANGED chain
        BY <1>12 DEF Forward
    <2> HIDE DEF A
    <2>3. Within(A, then)
        BY ONLY <1>7, <2>1, WithinFewer
    <2>4. ChainBytes' = A
        BY <1>2, <2>2 DEF A, ChainBytes, Climbed
    <2>5. QED
        BY <1>2, <1>3, <1>5, <1>6, <1>9, <2>3, <2>4 DEF Fits, Clean
<1>13. QED
    BY <1>10, <1>11, <1>12

LEMMA FitsStep == TypeOK /\ Fits /\ [Next]_vars => Fits'
<1> SUFFICES ASSUME TypeOK, Fits, [Next]_vars PROVE Fits'
    OBVIOUS
<1>0. /\ passed.before \in Nat /\ passed.after \in Nat
      /\ passed.before + passed.after \in Nat
    BY PassedIsNat
\* Where nothing passes, what a step leaves is within what was.
<1>1. ASSUME UNCHANGED <<daemon, prev, delta, grown, rows, passed>>,
             Climbed(prev, net', Interfaces) \in SUBSET Climbed(prev, net, Interfaces),
             ChainBytes' \in SUBSET ChainBytes, Clean'
      PROVE  Fits'
    <2>1. OnInterfaces'
        <3> DEFINE A == Climbed(prev, net', Interfaces)
                   B == Climbed(prev, net, Interfaces)
        <3>1. A \in SUBSET B /\ Within(B, passed.after) /\ passed.after <= passed.after
            BY <1>0, <1>1 DEF Fits, OnInterfaces
        <3> HIDE DEF A, B
        <3>2. Within(A, passed.after)
            BY ONLY <1>0, <3>1, WithinFewer
        <3>3. QED
            BY <1>1, <3>2 DEF OnInterfaces, Climbed, A
    <2>2. InChain'
        <3> DEFINE A == ChainBytes'
                   B == ChainBytes
                   n == IF daemon = "read" THEN passed.before + passed.after
                        ELSE passed.after
        <3>1. A \in SUBSET B /\ Within(B, n) /\ n \in Nat /\ n <= n
            BY <1>0, <1>1 DEF Fits, InChain
        <3>2. InChain' = Within(A, n)
            BY <1>1 DEF InChain
        <3> HIDE DEF A, B, n
        <3>3. Within(A, n)
            BY ONLY <3>1, WithinFewer
        <3>4. QED
            BY <3>2, <3>3
    <2>3. InDelta' /\ InRows' /\ InGrown'
        BY <1>1 DEF Fits, InDelta, DeltaBytes, InRows, Recorded, InGrown, GrownBytes
    <2>4. QED
        BY <1>1, <2>1, <2>2, <2>3 DEF Fits
<1>2. ASSUME NEW n \in Nat PROVE Within({}, n)
    BY WithinEmpty
<1>3. ASSUME NEW c \in {Empty, Unused} PROVE \A now : Climbed(c.last, now, Keys) = {}
    <2>1. \A k \in Keys : c.last[k] = None
        BY DEF Empty, Unused
    <2>2. QED
        BY <2>1, NothingClimbed
<1>4. ASSUME NEW p \in Providers, NEW k \in {p, None}, Forward(p, k) PROVE Fits'
    BY <1>4, ForwardFits
<1>5. ASSUME NEW i \in Interfaces, Local(i) PROVE Fits'
    <2>1. /\ Count(i)
          /\ UNCHANGED <<chain, daemon, prev, delta, counters, grown, rows>>
        BY <1>5 DEF Local, memory
    <2>2. /\ OnInterfaces'
          /\ passed'.before = passed.before
          /\ passed'.after = IF daemon = "down" THEN passed.after ELSE passed.after + 1
        BY <2>1, CountFits DEF Fits
    <2>3. InDelta' /\ Clean'
        BY <2>1, <2>2 DEF Fits, InDelta, DeltaBytes, Clean
    <2> DEFINE then == IF daemon = "read" THEN passed'.before + passed'.after
                       ELSE passed'.after
               now == IF daemon = "read" THEN passed.before + passed.after
                      ELSE passed.after
               C == ChainBytes
    <2>4. /\ now \in Nat /\ then \in Nat /\ now <= then
          /\ passed'.before + passed'.after \in Nat
          /\ passed.before + passed.after <= passed'.before + passed'.after
        BY <1>0, <2>2
    <2>5. C \in SUBSET C
        OBVIOUS
    <2>6. Within(C, now)
        BY DEF Fits, InChain
    <2>7. ChainBytes' = C
        BY <2>1 DEF ChainBytes, Climbed
    <2>8. InChain' = Within(ChainBytes', then)
        BY <2>1 DEF InChain
    <2> HIDE DEF now, then, C
    <2>9. Within(C, then)
        BY ONLY <2>4, <2>5, <2>6, WithinFewer
    <2>10. InRows' /\ InGrown'
        BY <1>0, <2>1, <2>4, StillWithin DEF Fits
    <2>11. QED
        BY <2>2, <2>3, <2>7, <2>8, <2>9, <2>10 DEF Fits
<1>6. ASSUME NEW i \in Interfaces, Unplug(i) \/ Plug(i) PROVE Fits'
    <2>1. /\ UNCHANGED <<chain, daemon, prev, delta, counters, grown, rows, passed>>
          /\ net' = [net EXCEPT ![i] = None] \/ net' = [net EXCEPT ![i] = 0]
        BY <1>6 DEF Unplug, Plug, memory, history
    <2>2. net \in Reading(Interfaces) /\ prev \in Reading(Interfaces)
        BY DEF TypeOK
    <2>3. Climbed(prev, net', Interfaces) \in SUBSET Climbed(prev, net, Interfaces)
        <3> SUFFICES ASSUME NEW b \in Climbed(prev, net', Interfaces)
                     PROVE  b \in Climbed(prev, net, Interfaces)
            OBVIOUS
        <3>1. /\ b \in Interfaces \X Nat /\ b[1] \in Interfaces /\ b[2] \in Nat
              /\ prev[b[1]] # None /\ net'[b[1]] # None
              /\ prev[b[1]] < b[2] /\ b[2] <= net'[b[1]]
            BY DEF Climbed
        <3>2. prev[b[1]] \in Nat
            BY <2>2, <3>1 DEF Reading
        <3>3. b[1] # i
            BY <2>1, <2>2, <3>1, <3>2 DEF Reading
        <3>4. net'[b[1]] = net[b[1]]
            BY <2>1, <2>2, <3>1, <3>3 DEF Reading
        <3>5. QED
            BY <3>1, <3>4 DEF Climbed
    <2>4. ChainBytes' = ChainBytes /\ Clean'
        BY <2>1 DEF ChainBytes, Climbed, Fits, Clean
    <2>5. QED
        BY <1>1, <2>1, <2>3, <2>4
<1>7. CASE Reload
    <2>1. /\ UNCHANGED <<net, daemon, prev, delta, counters, grown, rows, passed>>
          /\ chain' \in {None, [chain EXCEPT !.hooked = FALSE], [chain EXCEPT !.count = Zeros]}
          /\ chain \in [hooked : BOOLEAN, count : [Keys -> Nat]] /\ chain # None
        BY <1>7 DEF Reload, memory, TypeOK
    <2>2. ChainBytes' \in SUBSET ChainBytes
        <3>1. CASE chain' = None
            BY <3>1 DEF ChainBytes
        <3>2. CASE chain' = [chain EXCEPT !.hooked = FALSE]
            <4>1. chain'.count = chain.count
                BY <2>1, <3>2
            <4>2. QED
                BY <2>1, <4>1 DEF ChainBytes, Climbed
        <3>3. CASE chain' = [chain EXCEPT !.count = Zeros]
            <4>1. chain'.count = Zeros
                BY <2>1, <3>3
            <4>2. ASSUME NEW b \in Climbed(counters.last, Zeros, Keys) PROVE FALSE
                <5>1. /\ b[1] \in Keys /\ b[2] \in Nat /\ counters.last[b[1]] # None
                      /\ counters.last[b[1]] < b[2] /\ b[2] <= 0
                    BY <4>2 DEF Climbed, Zeros
                <5>2. counters.last[b[1]] \in Nat
                    BY <5>1 DEF TypeOK, Reading
                <5>3. QED
                    BY <5>1, <5>2
            <4>3. ChainBytes' \in SUBSET Climbed(counters.last, Zeros, Keys)
                BY <2>1, <4>1 DEF ChainBytes, Climbed
            <4>4. QED
                BY <4>2, <4>3
        <3>4. QED
            BY <2>1, <3>1, <3>2, <3>3
    <2>3. Clean' /\ Climbed(prev, net', Interfaces) = Climbed(prev, net, Interfaces)
        BY <2>1 DEF Fits, Clean
    <2>4. QED
        BY <1>1, <2>1, <2>2, <2>3
<1>8. CASE Switch
    <2>1. UNCHANGED <<net, chain, daemon, prev, delta, counters, grown, rows, passed>>
        BY <1>8 DEF Switch, memory
    <2>2. ChainBytes' = ChainBytes /\ Clean'
        BY <2>1 DEF ChainBytes, Climbed, Fits, Clean
    <2>3. QED
        BY <1>1, <2>1, <2>2
<1>9. CASE Start
    <2>1. /\ daemon = "down" /\ daemon' = "idle" /\ counters' \in {Empty, Unused}
          /\ UNCHANGED <<net, prev, delta, grown, rows, passed>>
        BY <1>9 DEF Start, history
    <2>2. ChainBytes' = {}
        BY <1>3, <2>1 DEF ChainBytes, Climbed
    <2>3. InChain'
        BY <1>0, <1>2, <2>1, <2>2 DEF InChain
    <2>4. Clean'
        BY <2>1 DEF Fits, Clean, Empty
    <2>5. OnInterfaces' /\ InDelta' /\ InRows' /\ InGrown'
        BY <2>1 DEF Fits, OnInterfaces, Climbed, InDelta, DeltaBytes, InRows, Recorded,
                    InGrown, GrownBytes
    <2>6. QED
        BY <2>3, <2>4, <2>5 DEF Fits
<1>10. CASE Stop
    <2>1. /\ daemon' = "down" /\ prev' = Unread /\ delta' = Unread /\ counters' = Unused
          /\ grown' = None /\ rows' = {} /\ passed' = [before |-> 0, after |-> 0]
        BY <1>10 DEF Stop, Forgets
    <2>2. Climbed(prev', net', Interfaces) = {}
        BY <2>1, NothingClimbed DEF Unread
    <2>3. DeltaBytes' = {} /\ Recorded' = {} /\ GrownBytes' = {}
        BY <2>1 DEF DeltaBytes, Unread, Recorded, GrownBytes
    <2>4. ChainBytes' = {}
        BY <1>3, <2>1 DEF ChainBytes, Climbed
    <2>5. Within({}, 0) /\ Within({}, 0 + 0)
        BY <1>2
    <2>6. OnInterfaces' /\ InDelta' /\ InChain' /\ InRows' /\ InGrown'
        BY <2>1, <2>2, <2>3, <2>4, <2>5
           DEF OnInterfaces, Climbed, InDelta, InChain, InRows, InGrown
    <2>7. QED
        BY <2>1, <2>6 DEF Fits, Clean
<1>11. CASE Snapshot
    <2>1. /\ daemon = "idle" /\ daemon' = "read" /\ rows' = {}
          /\ passed' = [before |-> passed.after, after |-> 0]
          /\ UNCHANGED <<chain, counters>>
        BY <1>11 DEF Snapshot, outside
    <2>2. InDelta' /\ OnInterfaces'
        BY <1>11, DeltaFits
    <2>3. InChain'
        <3>1. Within(ChainBytes, passed.after)
            BY <2>1 DEF Fits, InChain
        <3>2. ChainBytes' = ChainBytes
            BY <2>1 DEF ChainBytes, Climbed
        <3>3. passed'.before + passed'.after = passed.after
            BY <1>0, <2>1
        <3>4. QED
            BY <2>1, <3>1, <3>2, <3>3 DEF InChain
    <2>4. InRows' /\ InGrown'
        <3>1. Recorded' = {} /\ GrownBytes' = {}
            BY <1>11 DEF Snapshot, Recorded, GrownBytes, Fits, Clean
        <3>2. passed'.before + passed'.after \in Nat
            BY <1>0, <2>1
        <3>3. Within({}, passed'.before + passed'.after)
            BY <1>2, <3>2
        <3>4. QED
            BY <3>1, <3>3 DEF InRows, InGrown
    <2>5. Clean'
        BY <1>11, <2>1 DEF Snapshot, Fits, Clean
    <2>6. QED
        BY <2>2, <2>3, <2>4, <2>5 DEF Fits
<1>12. CASE ReadChain \/ Record \/ RecordByInterface
    BY <1>12, ReadChainFits, RecordFits, RecordByInterfaceFits
<1>13. CASE UNCHANGED vars
    <2>1. UNCHANGED <<net, chain, daemon, prev, delta, counters, grown, rows, passed>>
        BY <1>13 DEF vars, outside, memory, history
    <2>2. ChainBytes' = ChainBytes /\ Clean'
        BY <2>1 DEF ChainBytes, Climbed, Fits, Clean
    <2>3. QED
        BY <1>1, <2>1, <2>2
<1>14. QED
    BY <1>4, <1>5, <1>6, <1>7, <1>8, <1>9, <1>10, <1>11, <1>12, <1>13 DEF Next

\* traffic_rows and uplinks::attribute: whatever becomes of the interfaces and the
\* chain between two ticks and however many providers share an interface, what a
\* tick records is at most what passed since the tick before it began.
THEOREM RowsFit == Spec => []RowsFitTheInterval
<1>1. Init => TypeOK /\ Fits
    <2> SUFFICES ASSUME Init PROVE TypeOK /\ Fits
        OBVIOUS
    <2>1. TypeOK
        BY TypeInit
    <2>2. /\ prev = Unread /\ delta = Unread /\ chain = None /\ rows = {}
          /\ passed = [before |-> 0, after |-> 0] /\ daemon = "down" /\ counters = Unused
          /\ grown = None
        BY DEF Init
    <2>3. Climbed(prev, net, Interfaces) = {}
        BY <2>2, NothingClimbed DEF Unread
    <2>4. DeltaBytes = {} /\ ChainBytes = {} /\ Recorded = {} /\ GrownBytes = {}
        BY <2>2 DEF DeltaBytes, Unread, ChainBytes, Recorded, GrownBytes
    <2>5. Within({}, 0) /\ Within({}, 0 + 0)
        BY WithinEmpty
    <2>6. OnInterfaces /\ InDelta /\ InChain /\ InRows /\ InGrown
        BY <2>2, <2>3, <2>4, <2>5 DEF OnInterfaces, InDelta, InChain, InRows, InGrown
    <2>7. QED
        BY <2>1, <2>2, <2>6 DEF Fits, Clean
<1>2. TypeOK /\ Fits => RowsFitTheInterval
    BY DEF Fits, InRows, Within, RowsFitTheInterval
<1>3. QED
    BY <1>1, <1>2, TypeStep, FitsStep, PTL DEF Spec
=============================================================================

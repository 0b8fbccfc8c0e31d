-------------------------- MODULE AccountingProofs --------------------------
(***************************************************************************)
(* What Accounting promises for any number of clients, any limits and      *)
(* thresholds, and any sequence of hosts, refused commands, lost readings, *)
(* reloads, restarts and kills: no byte of a client that is not spoilt is  *)
(* recorded twice or lost on its way, the rules of such clients stay       *)
(* bounded, and the sessions agree with presence.                          *)
(***************************************************************************)
EXTENDS Accounting, FiniteSetTheorems, TLAPS

-----------------------------------------------------------------------------
(***************************************************************************)
(* The live state of one client.  The steps of a tick keep its bytes, and  *)
(* what a due entry gives up is what it had.                               *)
(***************************************************************************)
LEMMA Thresholds ==
    /\ MaxTracked \in Nat /\ MaxNewRules \in Nat
    /\ ForgetAfter \in Nat /\ PersistEvery \in Nat
    /\ 0 \in 0..(ForgetAfter + 1) /\ 0 \in 0..PersistEvery
BY AccountingAssumption

LEMMA ObservedBytes ==
    ASSUME NEW e \in Entry, NEW b \in Nat, NEW s \in BOOLEAN
    PROVE  Observed(e, b, s) \in Entry /\ Observed(e, b, s).pending = e.pending + b
<1> DEFINE n == IF s THEN 0 ELSE e.seen
           o == e.online \/ s
<1>1. /\ e = [online |-> e.online, session |-> e.session, pending |-> e.pending,
              old |-> e.old, seen |-> e.seen, since |-> e.since]
      /\ e.pending + b \in Nat
    BY DEF Entry
<1>2. o \in BOOLEAN
    OBVIOUS
<1>3. n \in 0..(ForgetAfter + 1)
    BY Thresholds DEF Entry
<1>4. Observed(e, b, s) = [online |-> o, session |-> e.session, pending |-> e.pending + b,
                           old |-> e.old, seen |-> n, since |-> e.since]
    <2> HIDE DEF o, n
    <2>1. Observed(e, b, s) = [e EXCEPT !.pending = e.pending + b, !.seen = n, !.online = o]
        BY DEF Observed, o, n
    <2>2. QED
        BY <1>1, <2>1
<1> HIDE DEF o, n
<1>5. QED
    BY <1>1, <1>2, <1>3, <1>4 DEF Entry

LEMMA WithoutAbsentBytes ==
    ASSUME NEW e \in Entry
    PROVE  WithoutAbsent(e) \in Entry /\ WithoutAbsent(e).pending = e.pending
BY DEF WithoutAbsent, Entry

LEMMA PersistedBytes ==
    ASSUME NEW e \in Entry
    PROVE  /\ Persisted(e) \in Entry
           /\ Persisted(e).pending = IF Due(e) THEN 0 ELSE e.pending
BY Thresholds DEF Persisted, Entry

LEMMA FreshIsEntry == Fresh \in Entry /\ Fresh.pending = 0
BY Thresholds DEF Fresh, Entry

LEMMA AgedBytes ==
    ASSUME live \in [Clients -> Entry \cup {None}], NEW c \in Clients
    PROVE  Aged(c) \in Entry /\ Aged(c).pending = Pending(c)
<1>1. CASE live[c] = None
    BY <1>1, FreshIsEntry DEF Aged, Pending
<1>2. CASE live[c] # None
    <2>1. live[c] \in Entry
        BY <1>2
    <2>2. ASSUME NEW n \in Nat, NEW m \in Nat, n \in 0..m PROVE Older(n, m) \in 0..m
        BY <2>2 DEF Older
    <2>3. /\ Older(live[c].seen, ForgetAfter + 1) \in 0..(ForgetAfter + 1)
          /\ Older(live[c].since, PersistEvery) \in 0..PersistEvery
        BY <2>1, <2>2, AccountingAssumption DEF Entry
    <2>4. QED
        BY <1>2, <2>1, <2>3 DEF Aged, Pending, Entry
<1>3. QED
    BY <1>1, <1>2

LEMMA DeltaIsNat ==
    ASSUME NEW p \in Nat \cup {None}, NEW n \in Nat
    PROVE  /\ Delta(p, n) \in Nat
           /\ Delta(n, n) = 0 /\ Delta(p, 0) = 0
           /\ p = None \/ n >= p => Delta(p, n + 1) = Delta(p, n) + 1
           /\ ~(p = None \/ n >= p) => Delta(p, n + 1) = Delta(p, n)
BY AccountingAssumption DEF Delta

-----------------------------------------------------------------------------
Shapes ==
    /\ chain \in [rule : SUBSET Clients, count : [Clients -> Nat]]
    /\ monitor = [ready |-> monitor.ready, tracked |-> monitor.tracked,
                  prev |-> monitor.prev, probed |-> monitor.probed]
    /\ monitor.ready \in BOOLEAN /\ monitor.tracked \subseteq Clients
    /\ monitor.prev \in [Clients -> Nat \cup {None}]
    /\ live \in [Clients -> Entry \cup {None}]
    /\ todo.flush \in [Clients -> Nat] /\ todo.forget \subseteq Clients
    /\ due \in [Clients -> Int] /\ spoilt \subseteq Clients

\* Where the loop may be, and what it has in hand there.
Stages ==
    /\ daemon = "down" => pc = "idle" /\ live = Nobody
    /\ pc # "idle" => monitor.ready = TRUE
    /\ pc # "write" => todo.flush = NoBytes
    /\ monitor.ready = TRUE => chain.rule \ spoilt \subseteq monitor.tracked

Counted == Shapes /\ Stages /\ EveryByteIsAccountedFor

LEMMA ReadsAreNat ==
    ASSUME Shapes, NEW c \in Clients
    PROVE  Reads(c) \in Nat /\ Unread(c) \in Nat /\ Pending(c) \in Nat
<1>1. Reads(c) \in Nat
    BY DEF Shapes, Reads
<1>2. monitor.prev[c] \in Nat \cup {None}
    BY DEF Shapes
<1>3. Unread(c) \in Nat
    BY <1>1, <1>2, DeltaIsNat DEF Unread
<1>4. Pending(c) \in Nat
    BY DEF Shapes, Pending, Entry
<1>5. QED
    BY <1>1, <1>3, <1>4

\* Spoilt clients owe nothing; the others what they did.
LEMMA OwedByTheRest ==
    ASSUME NEW owed \in [Clients -> Int], NEW among \in SUBSET Clients
    PROVE  /\ Owed(owed, among) \in [Clients -> Int]
           /\ \A c \in Clients \ among : Owed(owed, among)[c] = owed[c]
BY DEF Owed

LEMMA WhatRemains ==
    ASSUME NEW among \in SUBSET Clients, NEW n \in Remains(among), NEW c \in among
    PROVE  n[c] \in Nat
BY AccountingAssumption DEF Remains

LEMMA ReadingsAreNat ==
    ASSUME Shapes, NEW curr \in Readings, NEW c \in Clients
    PROVE  curr[c] \in Nat
BY ReadsAreNat DEF Readings, NoBytes

LEMMA UntouchedCounts ==
    ASSUME Counted,
           UNCHANGED <<chain, monitor, live, todo, due, pc, spoilt>>,
           daemon' = daemon \/ daemon' # "down"
    PROVE  Counted'
BY DEF Counted, Shapes, Stages, EveryByteIsAccountedFor, Unread, Reads, Pending

LEMMA MoveCounts == ASSUME Counted, NEW c \in Clients, Move(c) PROVE Counted'
<1>1. UNCHANGED <<monitor, live, todo, pc, daemon, spoilt>> /\ Shapes /\ c \in chain.rule
    BY DEF Move, memory, Counted
<1>2. /\ chain' = [chain EXCEPT !.count[c] = @ + 1]
      /\ due' = IF /\ c \notin spoilt /\ monitor.ready
                   /\ monitor.prev[c] = None \/ chain.count[c] >= monitor.prev[c]
                THEN [due EXCEPT ![c] = @ + 1] ELSE due
    BY DEF Move
<1>3. /\ chain'.rule = chain.rule
      /\ chain'.count = [chain.count EXCEPT ![c] = @ + 1]
      /\ chain' \in [rule : SUBSET Clients, count : [Clients -> Nat]]
    BY <1>1, <1>2 DEF Shapes
<1>4. Shapes'
    BY <1>1, <1>2, <1>3 DEF Shapes
<1>5. ASSUME NEW d \in Clients \ spoilt
      PROVE  due'[d] - due[d] = Unread(d)' - Unread(d) /\ Unread(d)' \in Nat
    <2>1. /\ monitor.prev[d] \in Nat \cup {None} /\ chain.count[d] \in Nat
          /\ due[d] \in Int /\ due \in [Clients -> Int]
        BY <1>1 DEF Shapes
    <2>2. CASE d # c
        BY <1>1, <1>2, <1>3, <2>1, <2>2, ReadsAreNat DEF Unread, Reads
    <2>3. CASE d = c
        <3>1. Reads(c) = chain.count[c] /\ Reads(c)' = chain.count[c] + 1
            BY <1>1, <1>3 DEF Reads, Shapes
        <3>2. CASE ~monitor.ready
            BY <1>1, <1>2, <2>1, <2>3, <3>2 DEF Unread
        <3>3. CASE monitor.ready = TRUE
            <4>1. /\ Unread(c) = Delta(monitor.prev[c], chain.count[c])
                  /\ Unread(c)' = Delta(monitor.prev[c], chain.count[c] + 1)
                BY <1>1, <3>1, <3>3 DEF Unread
            <4>2. Unread(c) \in Nat
                BY <2>1, <2>3, <4>1, DeltaIsNat
            <4>3. CASE monitor.prev[c] = None \/ chain.count[c] >= monitor.prev[c]
                <5>1. due'[c] = due[c] + 1
                    BY <1>2, <2>1, <2>3, <3>3, <4>3
                <5>2. Unread(c)' = Unread(c) + 1
                    BY <2>1, <2>3, <4>1, <4>3, DeltaIsNat
                <5>3. QED
                    BY <2>1, <2>3, <4>2, <5>1, <5>2
            <4>4. CASE ~(monitor.prev[c] = None \/ chain.count[c] >= monitor.prev[c])
                <5>1. due' = due
                    BY <1>2, <4>4
                <5>2. Unread(c)' = Unread(c)
                    BY <2>1, <2>3, <4>1, <4>4, DeltaIsNat
                <5>3. QED
                    BY <2>1, <2>3, <4>2, <5>1, <5>2
            <4>5. QED
                BY <4>3, <4>4
        <3>4. QED
            BY <1>1, <3>2, <3>3 DEF Shapes
    <2>4. QED
        BY <2>2, <2>3
<1>6. EveryByteIsAccountedFor'
    <2> SUFFICES ASSUME NEW d \in Clients \ spoilt'
                 PROVE  due'[d] = Unread(d)' + Pending(d)' + todo'.flush[d]
        BY DEF EveryByteIsAccountedFor
    <2>1. Pending(d)' = Pending(d) /\ todo'.flush[d] = todo.flush[d]
        BY <1>1 DEF Pending
    <2>2. /\ due[d] = Unread(d) + Pending(d) + todo.flush[d]
          /\ Unread(d) \in Nat /\ Pending(d) \in Nat /\ todo.flush[d] \in Nat
          /\ due'[d] \in Int
        BY <1>1, <1>4, ReadsAreNat DEF Counted, EveryByteIsAccountedFor, Shapes
    <2>3. QED
        BY <1>1, <1>5, <2>1, <2>2
<1>7. QED
    BY <1>1, <1>3, <1>4, <1>6 DEF Counted, Stages

LEMMA ReloadCounts == ASSUME Counted, Reload PROVE Counted'
<1> DEFINE owed == [c \in Clients |-> due[c] - Unread(c)]
<1>1. /\ Shapes /\ UNCHANGED <<monitor, live, todo, pc, daemon, spoilt>>
      /\ chain' = [rule |-> {}, count |-> NoBytes]
      /\ due' = Owed(owed, spoilt)
    BY DEF Reload, memory, Counted
<1>2. owed \in [Clients -> Int]
    BY <1>1, ReadsAreNat DEF Shapes
<1>3. Shapes'
    <2>1. due' \in [Clients -> Int]
        BY <1>1, <1>2, OwedByTheRest DEF Shapes
    <2>2. QED
        BY <1>1, <2>1 DEF Shapes, NoBytes
<1>4. ASSUME NEW c \in Clients \ spoilt'
      PROVE  due'[c] = Unread(c)' + Pending(c)' + todo'.flush[c]
    <2>1. Unread(c)' = 0
        <3>1. Reads(c)' = 0 /\ monitor.prev[c] \in Nat \cup {None}
            BY <1>1 DEF Reads, Shapes
        <3>2. QED
            BY <1>1, <3>1, DeltaIsNat DEF Unread
    <2>2. Pending(c)' = Pending(c) /\ todo'.flush[c] = todo.flush[c]
        BY <1>1 DEF Pending
    <2>3. due[c] = Unread(c) + Pending(c) + todo.flush[c] /\ todo.flush[c] \in Nat
        BY <1>1 DEF Counted, EveryByteIsAccountedFor, Shapes
    <2>4. due'[c] = due[c] - Unread(c)
        BY <1>1, <1>2, OwedByTheRest DEF Shapes
    <2>5. QED
        BY <1>1, <2>1, <2>2, <2>3, <2>4, ReadsAreNat
<1>5. QED
    BY <1>1, <1>3, <1>4 DEF Counted, Stages, EveryByteIsAccountedFor

LEMMA AdoptionShape ==
    ASSUME Shapes, NEW m \in Adoptions
    PROVE  /\ m = [ready |-> TRUE, tracked |-> m.tracked, prev |-> m.prev, probed |-> m.probed]
           /\ m.tracked \subseteq Clients
           /\ m.prev \in [Clients -> Nat \cup {None}]
           /\ monitor.ready = TRUE => m = monitor /\ m = Adopted
           /\ monitor.ready = FALSE /\ m = Adopted =>
                 /\ m.tracked = chain.rule
                 /\ m.prev = [c \in Clients |-> IF c \in chain.rule
                                               THEN chain.count[c] ELSE None]
<1>1. CASE monitor.ready = TRUE
    BY <1>1 DEF Adoptions, Adopted, Shapes
<1>2. CASE monitor.ready = FALSE
    <2>1. CASE m = Adopted
        BY <1>2, <2>1 DEF Adopted, Shapes
    <2>2. CASE m = [monitor EXCEPT !.ready = TRUE] /\ m # Adopted
        BY <1>2, <2>2 DEF Shapes
    <2>3. QED
        BY <2>1, <2>2 DEF Adoptions
<1>3. QED
    BY <1>1, <1>2 DEF Shapes

\* What a reading at the start could not adopt is spoilt; so is what was half
\* installed.
LEMMA DiscoverCounts == ASSUME Counted, Discover PROVE Counted'
<1>1. Shapes /\ pc = "idle" /\ daemon # "down"
    BY DEF Discover, Counted
<1>a. PICK m \in Adoptions : \E new, half \in SUBSET (Candidates \ m.tracked) :
         \E n \in Remains(half) :
            /\ monitor' = [m EXCEPT !.tracked = @ \cup new]
            /\ chain' = [rule  |-> chain.rule \cup new \cup half,
                         count |-> [c \in Clients |-> IF c \in new THEN 0
                                                      ELSE IF c \in half THEN n[c]
                                                      ELSE chain.count[c]]]
            /\ spoilt' = spoilt \cup ((IF m = Adopted THEN {} ELSE chain.rule) \cup half)
            /\ due' = Owed([c \in Clients |-> IF c \in new THEN due[c] - Unread(c)
                                              ELSE due[c]], spoilt')
    BY DEF Discover, Spoil
<1>b. PICK new, half \in SUBSET (Candidates \ m.tracked) : \E n \in Remains(half) :
         /\ monitor' = [m EXCEPT !.tracked = @ \cup new]
         /\ chain' = [rule  |-> chain.rule \cup new \cup half,
                      count |-> [c \in Clients |-> IF c \in new THEN 0
                                                   ELSE IF c \in half THEN n[c]
                                                   ELSE chain.count[c]]]
         /\ spoilt' = spoilt \cup ((IF m = Adopted THEN {} ELSE chain.rule) \cup half)
         /\ due' = Owed([c \in Clients |-> IF c \in new THEN due[c] - Unread(c)
                                           ELSE due[c]], spoilt')
    BY <1>a
<1>2. PICK n \in Remains(half) :
         /\ monitor' = [m EXCEPT !.tracked = @ \cup new]
         /\ chain' = [rule  |-> chain.rule \cup new \cup half,
                      count |-> [c \in Clients |-> IF c \in new THEN 0
                                                   ELSE IF c \in half THEN n[c]
                                                   ELSE chain.count[c]]]
         /\ spoilt' = spoilt \cup ((IF m = Adopted THEN {} ELSE chain.rule) \cup half)
         /\ due' = Owed([c \in Clients |-> IF c \in new THEN due[c] - Unread(c)
                                           ELSE due[c]], spoilt')
    BY <1>b
<1>3. /\ UNCHANGED <<live, todo, daemon>> /\ pc' = "sample"
    BY DEF Discover
<1>4. /\ m.tracked \subseteq Clients /\ m.prev \in [Clients -> Nat \cup {None}]
      /\ monitor.ready = TRUE => m = monitor /\ m = Adopted
      /\ monitor.ready = FALSE /\ m = Adopted =>
            /\ m.tracked = chain.rule
            /\ m.prev = [c \in Clients |-> IF c \in chain.rule THEN chain.count[c] ELSE None]
    BY <1>1, AdoptionShape
<1>5. monitor' = [ready |-> TRUE, tracked |-> m.tracked \cup new,
                  prev |-> m.prev, probed |-> m.probed]
    <2>1. /\ m = [ready |-> m.ready, tracked |-> m.tracked, prev |-> m.prev,
                  probed |-> m.probed]
          /\ m.ready = TRUE
        <3>1. m = [ready |-> TRUE, tracked |-> m.tracked, prev |-> m.prev,
                   probed |-> m.probed]
            BY <1>1, AdoptionShape, Zenon
        <3>2. m.ready = TRUE
            BY <3>1
        <3>3. QED
            BY <3>1, <3>2, Zenon
    <2>2. monitor' = [m EXCEPT !.tracked = @ \cup new]
        BY <1>2
    <2>3. monitor' = [ready |-> m.ready, tracked |-> m.tracked \cup new,
                      prev |-> m.prev, probed |-> m.probed]
        BY <2>1, <2>2
    <2>4. QED
        BY <2>1, <2>3
<1>6. new \subseteq Clients /\ half \subseteq Clients
    BY DEF Candidates
<1>7. \A c \in half : n[c] \in Nat
    BY <1>6, WhatRemains
<1>8. chain'.rule = chain.rule \cup new \cup half
      /\ chain'.count = [c \in Clients |-> IF c \in new THEN 0
                                           ELSE IF c \in half THEN n[c] ELSE chain.count[c]]
      /\ chain' \in [rule : SUBSET Clients, count : [Clients -> Nat]]
    BY <1>1, <1>2, <1>6, <1>7 DEF Shapes
<1>9. monitor' = [ready |-> monitor'.ready, tracked |-> monitor'.tracked,
                  prev |-> monitor'.prev, probed |-> monitor'.probed]
      /\ monitor'.ready = TRUE /\ monitor'.prev = m.prev
      /\ monitor'.tracked = m.tracked \cup new
    BY <1>5
<1>10. /\ spoilt' \subseteq Clients /\ spoilt \cup half \subseteq spoilt'
       /\ m # Adopted => chain.rule \subseteq spoilt'
    BY <1>1, <1>2, <1>6 DEF Shapes
<1>11. /\ due' \in [Clients -> Int]
       /\ \A c \in Clients \ spoilt' :
             due'[c] = IF c \in new THEN due[c] - Unread(c) ELSE due[c]
    <2> DEFINE owed == [c \in Clients |-> IF c \in new THEN due[c] - Unread(c) ELSE due[c]]
    <2>1. owed \in [Clients -> Int]
        BY <1>1, ReadsAreNat DEF Shapes
    <2>2. due' = Owed(owed, spoilt')
        BY <1>2
    <2>3. \A c \in Clients : owed[c] = IF c \in new THEN due[c] - Unread(c) ELSE due[c]
        OBVIOUS
    <2> HIDE DEF owed
    <2>4. QED
        BY <1>10, <2>1, <2>2, <2>3, OwedByTheRest
<1>12. Shapes'
    BY <1>1, <1>3, <1>4, <1>6, <1>8, <1>9, <1>10, <1>11 DEF Shapes
<1>13. Stages'
    <2>1. chain'.rule \ spoilt' \subseteq monitor'.tracked
        BY <1>1, <1>4, <1>8, <1>9, <1>10 DEF Counted, Stages, Shapes
    <2>2. QED
        BY <1>1, <1>3, <1>9, <2>1 DEF Counted, Stages
<1>14. ASSUME NEW c \in Clients \ spoilt'
       PROVE  due'[c] = Unread(c)' + Pending(c)' + todo'.flush[c]
    <2>1. Pending(c)' = Pending(c) /\ todo'.flush[c] = todo.flush[c]
        BY <1>3 DEF Pending
    <2>2. due[c] = Unread(c) + Pending(c) + todo.flush[c] /\ todo.flush[c] \in Nat
        BY <1>1, <1>10 DEF Counted, EveryByteIsAccountedFor, Shapes
    <2>3. m.prev[c] \in Nat \cup {None} /\ chain.count[c] \in Nat
        BY <1>1, <1>4 DEF Shapes
    <2>4. Unread(c)' = Delta(m.prev[c], Reads(c)')
        BY <1>9 DEF Unread
    <2>5. CASE c \in new
        <3>1. Reads(c)' = 0
            BY <1>8, <2>5 DEF Reads
        <3>2. Unread(c)' = 0
            BY <2>3, <2>4, <3>1, DeltaIsNat
        <3>3. due'[c] = due[c] - Unread(c)
            BY <1>11, <2>5
        <3>4. QED
            BY <1>1, <2>1, <2>2, <3>2, <3>3, ReadsAreNat
    <2>6. CASE c \notin new
        <3>1. Reads(c)' = Reads(c) /\ due'[c] = due[c]
            BY <1>8, <1>10, <1>11, <2>6 DEF Reads
        <3>2. CASE monitor.ready = TRUE
            <4>1. Unread(c)' = Unread(c)
                BY <1>4, <2>4, <3>1, <3>2 DEF Unread
            <4>2. QED
                BY <2>1, <2>2, <3>1, <4>1
        <3>3. CASE monitor.ready = FALSE
            <4>1. Unread(c) = 0
                BY <3>3 DEF Unread
            <4>2. CASE c \in chain.rule
                <5>1. m.prev[c] = chain.count[c] /\ Reads(c) = chain.count[c]
                    BY <1>4, <1>10, <3>3, <4>2 DEF Reads
                <5>2. QED
                    BY <2>1, <2>2, <2>3, <2>4, <3>1, <4>1, <5>1, DeltaIsNat
            <4>3. CASE c \notin chain.rule
                <5>1. Reads(c) = 0
                    BY <4>3 DEF Reads
                <5>2. QED
                    BY <2>1, <2>2, <2>3, <2>4, <3>1, <4>1, <5>1, DeltaIsNat
            <4>4. QED
                BY <4>2, <4>3
        <3>4. QED
            BY <1>1, <3>2, <3>3 DEF Shapes
    <2>7. QED
        BY <2>5, <2>6
<1>15. QED
    BY <1>12, <1>13, <1>14 DEF Counted, EveryByteIsAccountedFor

\* One client's share of a tick: what it had and what it moved is in its bucket,
\* in the writes, or forgotten with it.
LEMMA SampleCounts == ASSUME Counted, Sample PROVE Counted'
<1>0. PICK curr \in Readings : SampleOf(curr)
    BY DEF Sample
<1> DEFINE listed == {c \in Clients : found[c] # "absent"}
           delta == [c \in Clients |-> IF c \in listed THEN Delta(monitor.prev[c], curr[c])
                                      ELSE 0]
           seen == {c \in listed : found[c] # "stale" \/ delta[c] > 0}
           e == [c \in Clients |-> IF c \in listed THEN Observed(Aged(c), delta[c], c \in seen)
                                  ELSE Aged(c)]
           p == [c \in Clients |-> WithoutAbsent(e[c])]
           q == [c \in Clients |-> Persisted(p[c])]
           forget == {c \in Known : Forgotten(q[c])}
           flush == [c \in Clients |-> IF c \in Known /\ Due(p[c]) THEN p[c].pending ELSE 0]
           prev == [c \in Clients |-> IF c \in listed THEN curr[c] ELSE monitor.prev[c]]
<1>1. Shapes /\ pc = "sample" /\ UNCHANGED <<chain, daemon>> /\ pc' = "write"
      /\ daemon # "down" /\ monitor.ready = TRUE /\ todo.flush = NoBytes
      /\ spoilt' = spoilt \cup {c \in listed : curr[c] # Reads(c)}
    BY <1>0 DEF SampleOf, Spoil, Counted, Stages
<1>2. live' = [c \in Clients |-> IF c \notin Known THEN live[c]
                                 ELSE IF c \in forget THEN None ELSE q[c]]
    BY <1>0 DEF SampleOf
<1>3. todo'.flush = flush /\ todo'.forget = forget
    BY <1>0 DEF SampleOf
<1>4. due' = Owed([c \in Clients |-> IF c \in forget THEN due[c] - q[c].pending
                                    ELSE due[c]], spoilt')
    BY <1>0 DEF SampleOf
<1>5. \E probed : monitor' = [monitor EXCEPT !.prev = prev, !.probed = probed]
    BY <1>0 DEF SampleOf
<1>6. monitor' = [ready |-> monitor'.ready, tracked |-> monitor'.tracked,
                  prev |-> monitor'.prev, probed |-> monitor'.probed]
      /\ monitor'.ready = monitor.ready /\ monitor'.prev = prev
      /\ monitor'.tracked = monitor.tracked
    <2> HIDE DEF prev
    <2>1. QED
        BY <1>1, <1>5 DEF Shapes
<1>7. ASSUME NEW c \in Clients
      PROVE  /\ p[c] \in Entry /\ q[c] \in Entry
             /\ q[c].pending = IF Due(p[c]) THEN 0 ELSE p[c].pending
             /\ delta[c] \in Nat /\ p[c].pending = Pending(c) + delta[c]
             /\ Pending(c) \in Nat /\ Reads(c) \in Nat /\ Unread(c) \in Nat
             /\ monitor.prev[c] \in Nat \cup {None}
             /\ curr[c] \in Nat
             /\ c \in listed \ spoilt' => delta[c] = Unread(c) /\ curr[c] = Reads(c)
             /\ c \notin listed => delta[c] = 0
             /\ c \notin Known => Pending(c) = 0 /\ c \notin listed
    <2>1. Aged(c) \in Entry /\ Aged(c).pending = Pending(c)
        BY <1>1, AgedBytes DEF Shapes
    <2>2. /\ Pending(c) \in Nat /\ Reads(c) \in Nat /\ Unread(c) \in Nat
          /\ monitor.prev[c] \in Nat \cup {None}
          /\ curr[c] \in Nat
        BY <1>1, ReadsAreNat, ReadingsAreNat DEF Shapes
    <2>3. /\ c \in listed => delta[c] = Delta(monitor.prev[c], curr[c])
          /\ c \in listed \ spoilt' => delta[c] = Unread(c) /\ curr[c] = Reads(c)
          /\ c \notin listed => delta[c] = 0
        BY <1>1 DEF Unread
    <2>4. delta[c] \in Nat
        BY <2>2, <2>3, DeltaIsNat
    <2>5. (c \in seen) \in BOOLEAN
        OBVIOUS
    <2>6. e[c] \in Entry /\ e[c].pending = Pending(c) + delta[c]
        <3> HIDE DEF delta, seen
        <3>1. CASE c \in listed
            <4>1. e[c] = Observed(Aged(c), delta[c], c \in seen)
                BY <3>1
            <4> DEFINE a == Aged(c)
                       b == delta[c]
                       s == c \in seen
            <4>2. a \in Entry /\ b \in Nat /\ s \in BOOLEAN
                BY <2>1, <2>4, <2>5
            <4> HIDE DEF a, b, s
            <4>3. Observed(a, b, s) \in Entry /\ Observed(a, b, s).pending = a.pending + b
                BY <4>2, ObservedBytes
            <4>4. QED
                BY <2>1, <4>1, <4>3 DEF a, b, s
        <3>2. CASE c \notin listed
            BY <2>1, <2>2, <2>3, <3>2
        <3>3. QED
            BY <3>1, <3>2
    <2>7. p[c] \in Entry /\ p[c].pending = e[c].pending
        <3> HIDE DEF e
        <3>1. QED
            BY <2>6, WithoutAbsentBytes
    <2>8. q[c] \in Entry /\ q[c].pending = IF Due(p[c]) THEN 0 ELSE p[c].pending
        <3> HIDE DEF p
        <3>1. QED
            BY <2>7, PersistedBytes
    <2>9. c \notin Known => Pending(c) = 0 /\ c \notin listed
        BY DEF Known, Pending
    <2> HIDE DEF delta, e, p, q, listed
    <2>10. QED
        BY <2>2, <2>3, <2>4, <2>6, <2>7, <2>8, <2>9
<1>8. forget \subseteq Known /\ Known \subseteq Clients
    BY DEF Known
<1>9. ASSUME NEW c \in Clients
      PROVE  prev[c] = IF c \in listed THEN curr[c] ELSE monitor.prev[c]
    OBVIOUS
<1>10. ASSUME NEW c \in Clients
       PROVE  flush[c] = IF c \in Known /\ Due(p[c]) THEN p[c].pending ELSE 0
    OBVIOUS
<1> HIDE DEF delta, e, p, q, forget, listed
<1>a. spoilt' \subseteq Clients /\ spoilt \subseteq spoilt'
    BY <1>1 DEF Shapes, listed
<1>b. /\ due' \in [Clients -> Int]
      /\ \A c \in Clients \ spoilt' :
            due'[c] = IF c \in forget THEN due[c] - q[c].pending ELSE due[c]
    <2> DEFINE owed == [c \in Clients |-> IF c \in forget THEN due[c] - q[c].pending
                                         ELSE due[c]]
    <2>1. owed \in [Clients -> Int]
        BY <1>1, <1>7 DEF Shapes, Entry
    <2>2. due' = Owed(owed, spoilt')
        BY <1>4
    <2>3. \A c \in Clients : owed[c] = IF c \in forget THEN due[c] - q[c].pending
                                       ELSE due[c]
        OBVIOUS
    <2> HIDE DEF owed
    <2>4. QED
        BY <1>a, <2>1, <2>2, <2>3, OwedByTheRest
<1>11. Shapes'
    <2>1. prev \in [Clients -> Nat \cup {None}]
        BY <1>7
    <2>2. flush \in [Clients -> Nat]
        BY <1>7 DEF Entry
    <2>3. live' \in [Clients -> Entry \cup {None}]
        BY <1>1, <1>2, <1>7 DEF Shapes
    <2> HIDE DEF prev, flush
    <2>4. QED
        BY <1>1, <1>3, <1>6, <1>8, <1>a, <1>b, <2>1, <2>2, <2>3 DEF Shapes
<1>12. ASSUME NEW c \in Clients \ spoilt' PROVE due'[c] = Unread(c)' + Pending(c)' + todo'.flush[c]
    <2>1. due[c] = Unread(c) + Pending(c)
        BY <1>1, <1>7, <1>a DEF Counted, EveryByteIsAccountedFor, NoBytes
    <2>2. Unread(c)' = IF c \in listed THEN 0 ELSE Unread(c)
        <3>1. Unread(c)' = Delta(prev[c], Reads(c))
              /\ Unread(c) = Delta(monitor.prev[c], Reads(c))
            <4> HIDE DEF prev
            <4>1. Reads(c)' = Reads(c)
                BY <1>1 DEF Reads
            <4>2. QED
                BY <1>1, <1>6, <4>1 DEF Unread
        <3>2. QED
            BY <1>7, <1>9, <3>1, DeltaIsNat
    <2>3. CASE c \notin Known
        <3>1. Pending(c)' = Pending(c) /\ due'[c] = due[c] /\ flush[c] = 0
            BY <1>2, <1>8, <1>10, <1>b, <2>3 DEF Pending
        <3>2. QED
            BY <1>3, <1>7, <2>1, <2>2, <2>3, <3>1
    <2>4. CASE c \in Known
        <3>1. flush[c] + q[c].pending = Pending(c) + delta[c] /\ q[c].pending \in Nat
            BY <1>7, <1>10, <2>4 DEF Entry
        <3>2. Unread(c)' + delta[c] = Unread(c)
            BY <1>7, <2>2
        <3>3. CASE c \in forget
            <4>1. Pending(c)' = 0 /\ due'[c] = due[c] - q[c].pending
                BY <1>2, <1>b, <2>4, <3>3 DEF Pending
            <4>2. flush[c] \in Nat /\ Unread(c)' \in Nat
                BY <1>7, <1>10, <2>2 DEF Entry
            <4> HIDE DEF flush
            <4>3. QED
                BY <1>3, <1>7, <2>1, <3>1, <3>2, <4>1, <4>2
        <3>4. CASE c \notin forget
            <4>1. Pending(c)' = q[c].pending /\ due'[c] = due[c]
                BY <1>2, <1>7, <1>b, <2>4, <3>4, AccountingAssumption DEF Pending
            <4>2. flush[c] \in Nat /\ Unread(c)' \in Nat
                BY <1>7, <1>10, <2>2 DEF Entry
            <4> HIDE DEF flush
            <4>3. QED
                BY <1>3, <1>7, <2>1, <3>1, <3>2, <4>1, <4>2
        <3>5. QED
            BY <3>3, <3>4
    <2>5. QED
        BY <2>3, <2>4
<1>13. Stages'
    BY <1>1, <1>6, <1>a DEF Counted, Stages
<1>14. QED
    BY <1>11, <1>12, <1>13 DEF Counted, EveryByteIsAccountedFor

\* A client that is not spoilt is forgotten with its rule, so nothing of it stays
\* unread.
LEMMA WriteCounts == ASSUME Counted, Write PROVE Counted'
<1> DEFINE dropped == todo.forget \cap monitor.tracked
<1>a. PICK stay \in SUBSET (dropped \cap chain.rule) : \E n \in Remains(stay) :
         /\ chain' = [rule  |-> chain.rule \ (dropped \ stay),
                      count |-> [c \in Clients |-> IF c \in stay THEN n[c]
                                                   ELSE IF c \in dropped THEN 0
                                                   ELSE chain.count[c]]]
         /\ spoilt' = spoilt \cup stay
         /\ due' = Owed([c \in Clients |-> due[c] - todo.flush[c]
                                            - (IF c \in dropped THEN Unread(c) ELSE 0)],
                        spoilt')
    BY DEF Write, Spoil
<1>b. PICK n \in Remains(stay) :
         /\ chain' = [rule  |-> chain.rule \ (dropped \ stay),
                      count |-> [c \in Clients |-> IF c \in stay THEN n[c]
                                                   ELSE IF c \in dropped THEN 0
                                                   ELSE chain.count[c]]]
         /\ spoilt' = spoilt \cup stay
         /\ due' = Owed([c \in Clients |-> due[c] - todo.flush[c]
                                            - (IF c \in dropped THEN Unread(c) ELSE 0)],
                        spoilt')
    BY <1>a
<1> DEFINE prev == [c \in Clients |-> IF c \in todo.forget THEN None ELSE monitor.prev[c]]
<1>1. /\ Shapes /\ pc = "write" /\ pc' = "idle" /\ daemon' = daemon /\ daemon # "down"
      /\ monitor.ready = TRUE /\ chain.rule \ spoilt \subseteq monitor.tracked
      /\ todo' = Idle
    BY DEF Write, Counted, Stages
<1>2. live' = [c \in Clients |-> IF c \in todo.open /\ live[c] # None
                                 THEN [live[c] EXCEPT !.session = TRUE] ELSE live[c]]
    BY DEF Write
<1>3. \E probed : monitor' = [monitor EXCEPT !.tracked = @ \ todo.forget,
                                             !.prev = prev, !.probed = probed]
    BY DEF Write
<1>4. stay \subseteq Clients /\ spoilt' \subseteq Clients /\ spoilt \cup stay \subseteq spoilt'
    BY <1>1, <1>b DEF Shapes
<1>5. /\ due' \in [Clients -> Int]
      /\ \A c \in Clients \ spoilt' :
            due'[c] = due[c] - todo.flush[c] - (IF c \in dropped THEN Unread(c) ELSE 0)
    <2> DEFINE owed == [c \in Clients |-> due[c] - todo.flush[c]
                                            - (IF c \in dropped THEN Unread(c) ELSE 0)]
    <2>1. owed \in [Clients -> Int]
        BY <1>1, ReadsAreNat DEF Shapes
    <2>2. due' = Owed(owed, spoilt')
        BY <1>b
    <2>3. \A c \in Clients :
            owed[c] = due[c] - todo.flush[c] - (IF c \in dropped THEN Unread(c) ELSE 0)
        OBVIOUS
    <2> HIDE DEF owed
    <2>4. QED
        BY <1>4, <2>1, <2>2, <2>3, OwedByTheRest
<1>6. monitor' = [ready |-> monitor'.ready, tracked |-> monitor'.tracked,
                  prev |-> monitor'.prev, probed |-> monitor'.probed]
      /\ monitor'.ready = monitor.ready /\ monitor'.prev = prev
      /\ monitor'.tracked = monitor.tracked \ todo.forget
    <2> HIDE DEF prev
    <2>1. QED
        BY <1>1, <1>3 DEF Shapes
<1>7. /\ chain'.rule = chain.rule \ (dropped \ stay)
      /\ chain'.count = [c \in Clients |-> IF c \in stay THEN n[c]
                                           ELSE IF c \in dropped THEN 0 ELSE chain.count[c]]
      /\ chain' \in [rule : SUBSET Clients, count : [Clients -> Nat]]
    <2>1. \A c \in stay : n[c] \in Nat
        BY <1>4, WhatRemains
    <2>2. QED
        BY <1>1, <1>b, <2>1 DEF Shapes
<1>8. todo'.flush = NoBytes /\ todo'.forget = {}
    BY <1>1 DEF Idle
<1>9. ASSUME NEW c \in Clients
      PROVE  live'[c] \in Entry \cup {None} /\ Pending(c)' = Pending(c)
    <2>1. live'[c] = IF c \in todo.open /\ live[c] # None
                     THEN [live[c] EXCEPT !.session = TRUE] ELSE live[c]
        BY <1>2
    <2>2. CASE c \in todo.open /\ live[c] # None
        <3>1. live[c] \in Entry
            BY <1>1, <2>2 DEF Shapes
        <3>2. live'[c] \in Entry /\ live'[c].pending = live[c].pending
            BY <2>1, <2>2, <3>1 DEF Entry
        <3>3. live'[c] # None
            BY <3>2, AccountingAssumption
        <3>4. QED
            BY <2>2, <3>2, <3>3 DEF Pending
    <2>3. CASE ~(c \in todo.open /\ live[c] # None)
        BY <1>1, <2>1, <2>3 DEF Shapes, Pending
    <2>4. QED
        BY <2>2, <2>3
<1>10. Shapes'
    <2>1. prev \in [Clients -> Nat \cup {None}]
        BY <1>1 DEF Shapes
    <2>2. live' \in [Clients -> Entry \cup {None}]
        BY <1>2, <1>9
    <2>3. monitor'.ready \in BOOLEAN /\ monitor'.tracked \subseteq Clients
        BY <1>1, <1>6 DEF Shapes
    <2> HIDE DEF prev
    <2>4. QED
        BY <1>4, <1>5, <1>6, <1>7, <1>8, <2>1, <2>2, <2>3 DEF Shapes, NoBytes
<1>11. ASSUME NEW c \in Clients \ spoilt'
       PROVE  due'[c] = Unread(c)' + Pending(c)' + todo'.flush[c]
    <2>1. due[c] = Unread(c) + Pending(c) + todo.flush[c] /\ todo.flush[c] \in Nat
        BY <1>1, <1>4 DEF Counted, EveryByteIsAccountedFor, Shapes
    <2>2. Unread(c) \in Nat /\ Pending(c) \in Nat
        BY <1>1, ReadsAreNat
    <2>3. monitor.prev[c] \in Nat \cup {None} /\ Reads(c) \in Nat
        BY <1>1, ReadsAreNat DEF Shapes
    <2>4. Unread(c)' = Delta(prev[c], Reads(c)')
        <3> HIDE DEF prev
        <3>1. QED
            BY <1>1, <1>6 DEF Unread
    <2>5. CASE c \in dropped
        <3>1. Reads(c)' = 0
            BY <1>4, <1>7, <2>5 DEF Reads
        <3>2. Unread(c)' = 0
            BY <2>4, <2>5, <3>1, DeltaIsNat
        <3>3. due'[c] = due[c] - todo.flush[c] - Unread(c)
            BY <1>5, <2>5
        <3>4. QED
            BY <1>8, <1>9, <2>1, <2>2, <3>2, <3>3 DEF NoBytes
    <2>6. CASE c \notin dropped
        <3>1. Reads(c)' = Reads(c)
            BY <1>4, <1>7, <2>6 DEF Reads
        <3>2. Unread(c) = Delta(monitor.prev[c], Reads(c))
            BY <1>1 DEF Unread
        <3>3. Unread(c)' = Unread(c)
            <4>1. CASE c \in todo.forget
                <5>1. Reads(c) = 0
                    BY <1>1, <1>4, <2>6, <4>1 DEF Reads
                <5>2. QED
                    BY <2>3, <2>4, <3>1, <3>2, <4>1, <5>1, DeltaIsNat
            <4>2. CASE c \notin todo.forget
                BY <2>4, <3>1, <3>2, <4>2
            <4>3. QED
                BY <4>1, <4>2
        <3>4. due'[c] = due[c] - todo.flush[c]
            BY <1>5, <2>1, <2>2, <2>6, <1>1 DEF Shapes
        <3>5. QED
            BY <1>8, <1>9, <2>1, <2>2, <3>3, <3>4 DEF NoBytes
    <2>7. QED
        BY <2>5, <2>6
<1>12. Stages'
    BY <1>1, <1>4, <1>6, <1>7, <1>8 DEF Stages
<1>13. QED
    BY <1>10, <1>11, <1>12 DEF Counted, EveryByteIsAccountedFor

LEMMA StartCounts == ASSUME Counted, Start PROVE Counted'
<1>1. /\ Shapes /\ live = Nobody /\ live' = Resumed /\ daemon' = "up"
      /\ UNCHANGED <<chain, monitor, todo, due, pc, spoilt>>
    BY DEF Start, kernel, Counted, Stages
<1>2. ASSUME NEW c \in Clients
      PROVE  live'[c] \in Entry \cup {None} /\ Pending(c)' = 0 /\ Pending(c) = 0
    <2>1. /\ [Fresh EXCEPT !.online = TRUE, !.session = TRUE] \in Entry
          /\ [Fresh EXCEPT !.online = TRUE, !.session = TRUE].pending = 0
        BY FreshIsEntry DEF Fresh, Entry
    <2>2. QED
        BY <1>1, <2>1 DEF Resumed, Pending, Nobody
<1>3. Shapes'
    BY <1>1, <1>2 DEF Shapes, Resumed
<1>4. ASSUME NEW c \in Clients PROVE Unread(c)' = Unread(c)
    BY <1>1 DEF Unread, Reads
<1>5. EveryByteIsAccountedFor'
    BY <1>1, <1>2, <1>4 DEF Counted, EveryByteIsAccountedFor
<1>6. QED
    BY <1>1, <1>3, <1>5 DEF Counted, Stages

LEMMA FlushCounts == ASSUME Counted, Flush PROVE Counted'
<1> DEFINE owed == [c \in Clients |-> due[c] - Pending(c)]
<1>1. /\ Shapes /\ daemon' # "down"
      /\ live' = [c \in Clients |->
                    IF Pending(c) = 0 THEN live[c]
                    ELSE [live[c] EXCEPT !.pending = 0, !.old = 0, !.since = 0]]
      /\ due' = Owed(owed, spoilt)
      /\ UNCHANGED <<chain, monitor, todo, pc, spoilt>>
    BY DEF Flush, kernel, Counted
<1>2. ASSUME NEW c \in Clients PROVE live'[c] \in Entry \cup {None} /\ Pending(c)' = 0
    <2>1. CASE Pending(c) = 0
        BY <1>1, <2>1 DEF Pending, Shapes
    <2>2. CASE Pending(c) # 0
        <3>1. live[c] \in Entry
            BY <1>1, <2>2 DEF Pending, Shapes
        <3>2. live'[c] \in Entry /\ live'[c].pending = 0
            BY <1>1, <2>2, <3>1, Thresholds DEF Entry
        <3>3. QED
            BY <3>2, AccountingAssumption DEF Pending
    <2>3. QED
        BY <2>1, <2>2
<1>3. owed \in [Clients -> Int]
    <2>1. ASSUME NEW c \in Clients PROVE due[c] - Pending(c) \in Int
        <3>1. Pending(c) \in Nat /\ due[c] \in Int
            BY <1>1, ReadsAreNat DEF Shapes
        <3>2. QED
            BY <3>1
    <2>2. QED
        BY <2>1
<1>a. /\ due' \in [Clients -> Int]
      /\ \A c \in Clients \ spoilt' : due'[c] = due[c] - Pending(c)
    BY <1>1, <1>3, OwedByTheRest DEF Shapes
<1>b. Shapes'
    <2>1. live' \in [Clients -> Entry \cup {None}]
        BY <1>1, <1>2
    <2>2. QED
        BY <1>1, <1>a, <2>1 DEF Shapes
<1>4. ASSUME NEW c \in Clients \ spoilt' PROVE due'[c] = Unread(c)' + Pending(c)' + todo'.flush[c]
    <2>1. Unread(c)' = Unread(c) /\ todo'.flush = todo.flush
        BY <1>1 DEF Unread, Reads
    <2>2. due[c] = Unread(c) + Pending(c) + todo.flush[c] /\ todo.flush[c] \in Nat
        BY <1>1 DEF Counted, EveryByteIsAccountedFor, Shapes
    <2>3. due'[c] = due[c] - Pending(c) /\ Pending(c)' = 0
        BY <1>2, <1>a
    <2>4. Unread(c) \in Nat /\ Pending(c) \in Nat
        BY <1>1, ReadsAreNat
    <2>5. QED
        BY <2>1, <2>2, <2>3, <2>4
<1>5. QED
    BY <1>1, <1>b, <1>4 DEF Counted, Stages, EveryByteIsAccountedFor

\* Nothing is owed to a daemon that is gone.
NobodyOwed ==
    /\ chain \in [rule : SUBSET Clients, count : [Clients -> Nat]]
    /\ monitor = NoMonitor /\ live = Nobody /\ todo = Idle /\ due = NoBytes /\ pc = "idle"
    /\ spoilt \subseteq Clients

LEMMA NobodyIsOwed == NobodyOwed => Counted
<1> SUFFICES ASSUME NobodyOwed PROVE Counted
    OBVIOUS
<1> USE DEF NobodyOwed
<1>1. Shapes
    BY DEF Shapes, NoMonitor, Nobody, Idle, NoBytes
<1>2. Stages
    BY DEF Stages, NoMonitor, Idle
<1>3. ASSUME NEW c \in Clients PROVE due[c] = Unread(c) + Pending(c) + todo.flush[c]
    <2>1. Unread(c) = 0 /\ Pending(c) = 0 /\ todo.flush[c] = 0 /\ due[c] = 0
        BY DEF Unread, Pending, NoMonitor, Nobody, Idle, NoBytes
    <2>2. QED
        BY <2>1
<1>4. QED
    BY <1>1, <1>2, <1>3 DEF Counted, EveryByteIsAccountedFor

LEMMA CountedStep == Counted /\ [Next]_vars => Counted'
<1> SUFFICES ASSUME Counted, [Next]_vars PROVE Counted'
    OBVIOUS
<1>1. ASSUME NEW c \in Clients, Arrive(c) \/ Leave(c) \/ Quiet(c) \/ Talk(c)
      PROVE  Counted'
    BY <1>1, UntouchedCounts DEF Arrive, Leave, Quiet, Talk, memory
<1>2. ASSUME NEW c \in Clients, Move(c) PROVE Counted'
    BY <1>2, MoveCounts
<1>3. CASE Gone
    <2>1. NobodyOwed'
        BY <1>3 DEF Gone, kernel, Counted, Shapes, NobodyOwed, NoMonitor, Nobody, Idle, NoBytes
    <2>2. QED
        BY <2>1, NobodyIsOwed, PTL
<1>4. CASE UNCHANGED vars
    BY <1>4, UntouchedCounts DEF vars, kernel, memory
<1>5. QED
    BY <1>1, <1>2, <1>3, <1>4, ReloadCounts, DiscoverCounts, SampleCounts, WriteCounts,
       StartCounts, FlushCounts DEF Next, Loop, Abort, Kill

\* Through readings, folds, writes, a flush between any two of them, reloads,
\* forgotten clients, restarts and kills (`ClientMonitor::sample`, `clients_loop`,
\* `flush_client_buckets`), what is still owed to the database is exactly what is
\* unread, in a bucket or in hand, for every client of which no rule was left
\* behind and no reading lost; what becomes of the others does not disturb it.
THEOREM BytesAreConserved == Spec => []EveryByteIsAccountedFor
<1>1. Init => Counted
    <2> SUFFICES ASSUME Init PROVE Counted
        OBVIOUS
    <2>1. chain \in [rule : SUBSET Clients, count : [Clients -> Nat]]
        BY DEF Init, NoBytes
    <2>2. QED
        BY <2>1, NobodyIsOwed DEF Init, NobodyOwed
<1>2. Counted => EveryByteIsAccountedFor
    BY DEF Counted
<1>3. QED
    BY <1>1, <1>2, CountedStep, PTL DEF Spec

-----------------------------------------------------------------------------
(***************************************************************************)
(* The ceiling.  A monitor that has read the chain tracks every client     *)
(* with a rule that is not spoilt, and it is the tracked ones it counts    *)
(* before it gives a client its rules.                                     *)
(***************************************************************************)
Bounded == Counted /\ Cardinality(chain.rule \ spoilt) <= MaxTracked

LEMMA ClientsAreFinite ==
    ASSUME NEW S, S \subseteq Clients
    PROVE  IsFiniteSet(S) /\ Cardinality(S) \in Nat
BY AccountingAssumption, FS_Subset, FS_CardinalityType

\* Whatever leaves fewer rules.
LEMMA FewerIsBounded ==
    ASSUME Bounded, Counted', chain'.rule \ spoilt' \subseteq chain.rule \ spoilt
    PROVE  Bounded'
<1>1. Shapes /\ Shapes'
    BY DEF Bounded, Counted
<1>2. /\ IsFiniteSet(chain.rule \ spoilt) /\ Cardinality(chain.rule \ spoilt) \in Nat
      /\ Cardinality(chain'.rule \ spoilt') \in Nat
    BY <1>1, ClientsAreFinite DEF Shapes
<1>3. Cardinality(chain'.rule \ spoilt') <= Cardinality(chain.rule \ spoilt)
    BY <1>2, FS_Subset
<1>4. QED
    BY <1>2, <1>3, Thresholds DEF Bounded

LEMMA DiscoverIsBounded == ASSUME Bounded, Counted', Discover PROVE Bounded'
<1>1. Shapes /\ Stages /\ Shapes' /\ Stages'
    BY DEF Bounded, Counted
<1>2. PICK m \in Adoptions : \E new, half \in SUBSET (Candidates \ m.tracked) :
         \E count, missed :
            /\ NewRules(m.tracked, Candidates \ m.tracked, new, half)
            /\ monitor' = [m EXCEPT !.tracked = @ \cup new]
            /\ chain' = [rule |-> chain.rule \cup new \cup half, count |-> count]
            /\ spoilt' = spoilt \cup (missed \cup half)
    BY DEF Discover, Spoil
<1>a. PICK new, half \in SUBSET (Candidates \ m.tracked) : \E count, missed :
         /\ NewRules(m.tracked, Candidates \ m.tracked, new, half)
         /\ monitor' = [m EXCEPT !.tracked = @ \cup new]
         /\ chain' = [rule |-> chain.rule \cup new \cup half, count |-> count]
         /\ spoilt' = spoilt \cup (missed \cup half)
    BY <1>2
<1>3. PICK count, missed :
         /\ NewRules(m.tracked, Candidates \ m.tracked, new, half)
         /\ monitor' = [m EXCEPT !.tracked = @ \cup new]
         /\ chain' = [rule |-> chain.rule \cup new \cup half, count |-> count]
         /\ spoilt' = spoilt \cup (missed \cup half)
    BY <1>a
<1>4. /\ m.tracked \subseteq Clients /\ new \subseteq Clients
      /\ Candidates \ m.tracked \subseteq Clients
    BY <1>1, AdoptionShape DEF Candidates
<1>5. monitor'.tracked = m.tracked \cup new /\ monitor'.ready = TRUE
    <2>1. /\ m = [ready |-> m.ready, tracked |-> m.tracked, prev |-> m.prev,
                  probed |-> m.probed]
          /\ m.ready = TRUE
        <3>1. m = [ready |-> TRUE, tracked |-> m.tracked, prev |-> m.prev,
                   probed |-> m.probed]
            BY <1>1, AdoptionShape, Zenon
        <3>2. m.ready = TRUE
            BY <3>1
        <3>3. QED
            BY <3>1, <3>2, Zenon
    <2>2. monitor' = [m EXCEPT !.tracked = @ \cup new]
        BY <1>3
    <2>3. QED
        BY <2>1, <2>2
<1>6. CASE new = {}
    <2>1. chain'.rule \ spoilt' \subseteq chain.rule \ spoilt
        BY <1>3, <1>6
    <2>2. QED
        BY <2>1, FewerIsBounded
<1>7. CASE new # {}
    <2> DEFINE t == Cardinality(m.tracked)
               f == Cardinality(Candidates \ m.tracked)
               room == IF t < MaxTracked THEN MaxTracked - t ELSE 0
    <2>1. /\ t \in Nat /\ f \in Nat /\ Cardinality(new) \in Nat /\ Cardinality(new) # 0
          /\ IsFiniteSet(m.tracked) /\ IsFiniteSet(new)
          /\ Cardinality(m.tracked \cap new) \in Nat
        BY <1>4, <1>7, ClientsAreFinite, FS_EmptySet
    <2>2. Cardinality(new) <= Least(f, Least(MaxNewRules, room))
        BY <1>3 DEF NewRules
    <2>3. Cardinality(new) + t <= MaxTracked
        <3> HIDE DEF t, f
        <3>1. QED
            BY <2>1, <2>2, Thresholds DEF Least
    <2>4. Cardinality(monitor'.tracked) = t + Cardinality(new) - Cardinality(m.tracked \cap new)
        BY <1>5, <2>1, FS_Union
    <2>5. Cardinality(monitor'.tracked) <= MaxTracked
        <3> HIDE DEF t
        <3>1. QED
            BY <2>1, <2>3, <2>4, Thresholds
    <2>6. chain'.rule \ spoilt' \subseteq monitor'.tracked /\ monitor'.tracked \subseteq Clients
        BY <1>1, <1>5 DEF Stages, Shapes
    <2>7. /\ IsFiniteSet(monitor'.tracked) /\ Cardinality(monitor'.tracked) \in Nat
          /\ Cardinality(chain'.rule \ spoilt') \in Nat
        BY <2>6, ClientsAreFinite
    <2>8. Cardinality(chain'.rule \ spoilt') <= Cardinality(monitor'.tracked)
        BY <2>6, <2>7, FS_Subset
    <2>9. QED
        BY <2>5, <2>7, <2>8, Thresholds DEF Bounded
<1>8. QED
    BY <1>6, <1>7

LEMMA BoundedStep == Bounded /\ [Next]_vars => Bounded'
<1> SUFFICES ASSUME Bounded, [Next]_vars PROVE Bounded'
    OBVIOUS
<1>1. Counted' /\ Shapes
    BY CountedStep DEF Bounded, Counted
<1>2. CASE Discover
    BY <1>1, <1>2, DiscoverIsBounded
<1>3. CASE ~Discover
    <2>1. chain'.rule \subseteq chain.rule /\ spoilt \subseteq spoilt'
        <3>1. ASSUME NEW c \in Clients, Move(c)
              PROVE  chain'.rule \subseteq chain.rule /\ spoilt \subseteq spoilt'
            <4>1. chain' = [chain EXCEPT !.count[c] = @ + 1] /\ spoilt' = spoilt
                BY <3>1 DEF Move
            <4>2. QED
                BY <1>1, <4>1 DEF Shapes
        <3>2. CASE Write
            <4>1. \E gone, count, stay : /\ chain' = [rule |-> chain.rule \ gone, count |-> count]
                                         /\ spoilt' = spoilt \cup stay
                BY <3>2 DEF Write, Spoil
            <4>2. QED
                BY <4>1
        <3>3. CASE Reload
            BY <3>3 DEF Reload
        <3>4. CASE Sample
            BY <3>4 DEF Sample, SampleOf, Spoil
        <3>5. CASE Start \/ Flush \/ Abort \/ Kill \/ UNCHANGED vars
            BY <3>5 DEF Start, Flush, Abort, Kill, Gone, kernel, vars
        <3>6. ASSUME NEW c \in Clients, Arrive(c) \/ Leave(c) \/ Quiet(c) \/ Talk(c)
              PROVE  chain'.rule \subseteq chain.rule /\ spoilt \subseteq spoilt'
            BY <3>6 DEF Arrive, Leave, Quiet, Talk
        <3>7. QED
            BY <1>3, <3>1, <3>2, <3>3, <3>4, <3>5, <3>6 DEF Next, Loop
    <2>2. QED
        BY <1>1, <2>1, FewerIsBounded
<1>4. QED
    BY <1>2, <1>3

\* However many hosts come and go, however often the daemon is started again and
\* whatever is refused, the ceiling holds for the rules of all its runs together
\* (`ClientMonitor::sample` adopts what the chain has), those of clients that are
\* spoilt apart: `add_rules` and `forget` leave them behind uncounted.
THEOREM RulesAreBounded == Spec => []RulesStayBounded
<1>1. Init => Bounded
    <2> SUFFICES ASSUME Init PROVE Bounded
        OBVIOUS
    <2>1. NobodyOwed
        BY DEF Init, NobodyOwed, NoBytes
    <2>2. chain.rule \ spoilt = {}
        BY DEF Init
    <2>3. QED
        BY <2>1, <2>2, NobodyIsOwed, FS_EmptySet, Thresholds DEF Bounded
<1>2. Bounded => RulesStayBounded
    BY DEF Bounded, RulesStayBounded
<1>3. QED
    BY <1>1, <1>2, BoundedStep, PTL DEF Spec
-----------------------------------------------------------------------------
(***************************************************************************)
(* Presence.  What the database has open and what is online in memory      *)
(* differ by what the tick in hand is about to write, and by nothing else. *)
(***************************************************************************)
Online(c) == live[c] # None /\ live[c].online = TRUE

Kinds ==
    /\ here \subseteq Clients /\ back \subseteq here
    /\ neigh \in [Clients -> Neighbour] /\ found \in [Clients -> Neighbour]
    /\ daemon \in {"down", "up", "stopping"}
    /\ pc \in {"idle", "sample", "write"}
    /\ monitor.probed \in [Clients -> 0..(ProbeEvery - 1)]
    /\ todo = [open |-> todo.open, close |-> todo.close,
               flush |-> todo.flush, forget |-> todo.forget]
    /\ todo.open \subseteq Clients /\ todo.close \subseteq Clients
    /\ sessions \in [Clients -> {0, 1}]

InHand ==
    /\ pc # "write" => todo.open = {} /\ todo.close = {}
    /\ daemon = "down" => monitor = NoMonitor

Agrees(c) ==
    /\ c \in todo.open => sessions[c] = 0 /\ Online(c)
    /\ c \in todo.close => sessions[c] = 1 /\ ~Online(c)
    /\ c \notin todo.open /\ c \notin todo.close => (sessions[c] = 1 <=> Online(c))
    /\ Online(c) => live[c].seen <= OfflineAfter
    /\ live[c] # None => (live[c].session = TRUE <=> Online(c) /\ c \notin todo.open)

Present ==
    /\ Counted /\ Kinds /\ InHand
    /\ daemon # "down" => \A c \in Clients : Agrees(c)

\* Buckets are handed over no later than their session can end.
HandedOver == PersistEvery <= OfflineAfter + 1

Settled ==
    \A c \in Clients : live[c] # None =>
        /\ live[c].old = 0
        /\ live[c].pending > 0 => live[c].seen <= live[c].since

\* The sample's LETs, one client at a time.
SeenNow(curr) ==
    {c \in Clients : /\ found[c] # "absent"
                     /\ found[c] # "stale" \/ Delta(monitor.prev[c], curr[c]) > 0}

Bytes(curr, c) == IF found[c] # "absent" THEN Delta(monitor.prev[c], curr[c]) ELSE 0

Sampled(curr, c) ==
    IF found[c] # "absent" THEN Observed(Aged(c), Bytes(curr, c), c \in SeenNow(curr)) ELSE Aged(c)

After(curr, c) == Persisted(WithoutAbsent(Sampled(curr, c)))

Goes(curr, c) == Online(c) /\ c \notin SeenNow(curr) /\ Aged(c).seen > OfflineAfter

LEMMA OldThresholds ==
    /\ OfflineAfter \in Nat /\ ProbeEvery \in Nat \ {0} /\ PersistEvery \in Nat \ {0}
    /\ ForgetAfter \in Nat \ {0} /\ 0 \in 0..(ProbeEvery - 1)
    /\ None \notin Entry
BY AccountingAssumption

LEMMA ObservedFields ==
    ASSUME NEW e \in Entry, NEW b \in Nat, NEW s \in BOOLEAN
    PROVE  /\ Observed(e, b, s).online = TRUE <=> e.online = TRUE \/ s
           /\ Observed(e, b, s).session = e.session
           /\ Observed(e, b, s).pending = e.pending + b
           /\ Observed(e, b, s).old = e.old /\ Observed(e, b, s).since = e.since
           /\ Observed(e, b, s).seen = IF s THEN 0 ELSE e.seen
<1> DEFINE n == IF s THEN 0 ELSE e.seen
           o == e.online \/ s
<1>1. /\ e = [online |-> e.online, session |-> e.session, pending |-> e.pending,
              old |-> e.old, seen |-> e.seen, since |-> e.since]
      /\ e.online \in BOOLEAN
    BY DEF Entry
<1>2. o = TRUE <=> e.online = TRUE \/ s
    BY <1>1
<1>3. Observed(e, b, s) = [e EXCEPT !.pending = e.pending + b, !.seen = n, !.online = o]
    BY DEF Observed
<1> HIDE DEF o
<1>4. /\ Observed(e, b, s).online = o /\ Observed(e, b, s).session = e.session
      /\ Observed(e, b, s).pending = e.pending + b
      /\ Observed(e, b, s).old = e.old /\ Observed(e, b, s).since = e.since
      /\ Observed(e, b, s).seen = n
    <2> HIDE DEF n
    <2>1. QED
        BY <1>1, <1>3
<1>5. QED
    BY <1>2, <1>4

LEMMA AgedFields ==
    ASSUME live \in [Clients -> Entry \cup {None}], NEW c \in Clients
    PROVE  /\ Aged(c) \in Entry
           /\ Aged(c).online = TRUE <=> Online(c)
           /\ live[c] = None => /\ Aged(c).session = FALSE /\ Aged(c).old = 0
                                /\ Aged(c).pending = 0
           /\ live[c] # None =>
                /\ live[c] \in Entry
                /\ Aged(c).session = live[c].session /\ Aged(c).old = live[c].old
                /\ Aged(c).pending = live[c].pending
                /\ Aged(c).seen <= live[c].seen + 1
                /\ Aged(c).since = live[c].since + 1 \/ Aged(c).since = PersistEvery
<1>1. Aged(c) \in Entry
    BY AgedBytes
<1>2. CASE live[c] = None
    BY <1>1, <1>2, OldThresholds DEF Aged, Fresh, Online
<1>3. CASE live[c] # None
    <2>1. live[c] \in Entry
        BY <1>3
    <2> DEFINE s == Older(live[c].seen, ForgetAfter + 1)
               t == Older(live[c].since, PersistEvery)
    <2>2. /\ live[c] = [online |-> live[c].online, session |-> live[c].session,
                        pending |-> live[c].pending, old |-> live[c].old,
                        seen |-> live[c].seen, since |-> live[c].since]
          /\ live[c].online \in BOOLEAN
          /\ live[c].seen \in Nat /\ live[c].since \in 0..PersistEvery
          /\ live[c].seen <= ForgetAfter + 1
        BY <2>1, OldThresholds DEF Entry
    <2>3. s <= live[c].seen + 1
        BY <2>2, OldThresholds DEF Older
    <2>4. t = live[c].since + 1 \/ t = PersistEvery
        BY <2>2, OldThresholds DEF Older
    <2>5. Aged(c) = [live[c] EXCEPT !.seen = s, !.since = t]
        BY <1>3 DEF Aged
    <2> HIDE DEF s, t
    <2>6. /\ Aged(c).online = live[c].online /\ Aged(c).session = live[c].session
          /\ Aged(c).pending = live[c].pending /\ Aged(c).old = live[c].old
          /\ Aged(c).seen = s /\ Aged(c).since = t
        BY <2>2, <2>5
    <2>7. QED
        BY <1>1, <1>3, <2>1, <2>3, <2>4, <2>6 DEF Online
<1>4. QED
    BY <1>2, <1>3

\* What the sample makes of one client, before it is forgotten.
LEMMA AfterFields ==
    ASSUME Shapes, Kinds, NEW curr \in Readings, NEW c \in Clients
    PROVE  /\ Sampled(curr, c) \in Entry /\ After(curr, c) \in Entry
           /\ Departs(Sampled(curr, c)) <=> Goes(curr, c)
           /\ Sampled(curr, c).session = Aged(c).session
           /\ After(curr, c).online = TRUE <=> (Online(c) \/ c \in SeenNow(curr)) /\ ~Goes(curr, c)
           /\ After(curr, c).session = TRUE <=> Aged(c).session = TRUE /\ ~Goes(curr, c)
           /\ After(curr, c).seen = IF c \in SeenNow(curr) THEN 0 ELSE Aged(c).seen
<1>1. /\ Aged(c) \in Entry
      /\ Aged(c).online = TRUE <=> Online(c)
    BY AgedFields DEF Shapes
<1>2. Bytes(curr, c) \in Nat
    <2>1. monitor.prev[c] \in Nat \cup {None} /\ curr[c] \in Nat
        BY ReadingsAreNat DEF Shapes
    <2>2. QED
        BY <2>1, DeltaIsNat DEF Bytes
<1>3. c \in SeenNow(curr) => found[c] # "absent"
    BY DEF SeenNow
<1>4. (c \in SeenNow(curr)) \in BOOLEAN
    OBVIOUS
<1>5. /\ Sampled(curr, c) \in Entry
      /\ Sampled(curr, c).online = TRUE <=> Online(c) \/ c \in SeenNow(curr)
      /\ Sampled(curr, c).session = Aged(c).session
      /\ Sampled(curr, c).seen = IF c \in SeenNow(curr) THEN 0 ELSE Aged(c).seen
    <2>1. CASE found[c] # "absent"
        <3>1. Sampled(curr, c) = Observed(Aged(c), Bytes(curr, c), c \in SeenNow(curr))
            BY <2>1 DEF Sampled
        <3> DEFINE a == Aged(c)
                   b == Bytes(curr, c)
                   s == c \in SeenNow(curr)
        <3>2. a \in Entry /\ b \in Nat /\ s \in BOOLEAN
            BY <1>1, <1>2, <1>4
        <3> HIDE DEF a, b, s
        <3>3. /\ Observed(a, b, s) \in Entry
              /\ Observed(a, b, s).online = TRUE <=> a.online = TRUE \/ s
              /\ Observed(a, b, s).session = a.session
              /\ Observed(a, b, s).seen = IF s THEN 0 ELSE a.seen
            BY <3>2, ObservedBytes, ObservedFields
        <3> USE DEF a, b, s
        <3>4. QED
            BY <1>1, <3>1, <3>3
    <2>2. CASE found[c] = "absent"
        BY <1>1, <1>3, <2>2 DEF Sampled
    <2>3. QED
        BY <2>1, <2>2
<1> DEFINE e == Sampled(curr, c)
           w == WithoutAbsent(e)
<1>6. e \in Entry /\ Aged(c).seen \in Nat
    BY <1>1, <1>5 DEF Entry
<1>7. Departs(e) <=> Goes(curr, c)
    <2>1. e.online \in BOOLEAN
        BY <1>6 DEF Entry
    <2>2. Departs(e) <=> e.online = TRUE /\ e.seen > OfflineAfter
        BY <2>1 DEF Departs
    <2> HIDE DEF e
    <2>3. QED
        BY <1>5, <1>6, <2>2, OldThresholds DEF Goes, e
<1> HIDE DEF e
<1>8. /\ w \in Entry
      /\ w.online = IF Departs(e) THEN FALSE ELSE e.online
      /\ w.session = IF Departs(e) THEN FALSE ELSE e.session
      /\ w.seen = e.seen
    BY <1>6 DEF WithoutAbsent, Entry
<1> HIDE DEF w
<1>9. /\ Persisted(w) \in Entry
      /\ Persisted(w).online = w.online /\ Persisted(w).session = w.session
      /\ Persisted(w).seen = w.seen
    BY <1>8, PersistedBytes DEF Persisted, Entry
<1>10. After(curr, c) = Persisted(w) /\ Sampled(curr, c) = e
    BY DEF After, w, e
<1>11. QED
    BY <1>5, <1>7, <1>8, <1>9, <1>10

LEMMA SampleReads ==
    ASSUME Shapes, Kinds, NEW curr \in Readings, SampleOf(curr), NEW c \in Clients
    PROVE  /\ pc = "sample" /\ pc' = "write" /\ UNCHANGED <<here, chain, daemon, sessions>>
           /\ found' = NotFound
           /\ back' = back \ SeenNow(curr)
           /\ live'[c] = IF c \notin Known THEN live[c]
                         ELSE IF Forgotten(After(curr, c)) THEN None ELSE After(curr, c)
           /\ c \in todo'.open <=> c \in SeenNow(curr) /\ ~Aged(c).online
           /\ c \in todo'.close <=>
                 c \in Known /\ Departs(Sampled(curr, c)) /\ Sampled(curr, c).session
<1> DEFINE listed == {d \in Clients : found[d] # "absent"}
           delta == [d \in Clients |-> IF d \in listed THEN Delta(monitor.prev[d], curr[d])
                                      ELSE 0]
           seen == {d \in listed : found[d] # "stale" \/ delta[d] > 0}
           e == [d \in Clients |-> IF d \in listed THEN Observed(Aged(d), delta[d], d \in seen)
                                  ELSE Aged(d)]
           p == [d \in Clients |-> WithoutAbsent(e[d])]
           q == [d \in Clients |-> Persisted(p[d])]
           forget == {d \in Known : Forgotten(q[d])}
<1>1. seen = SeenNow(curr)
    BY DEF SeenNow
<1>2. seen \subseteq listed /\ listed \subseteq Clients /\ Known \subseteq Clients
    BY DEF Known
<1>3. /\ pc = "sample" /\ pc' = "write" /\ UNCHANGED <<here, chain, daemon, sessions>>
      /\ found' = NotFound
      /\ back' = back \ seen
      /\ live' = [d \in Clients |-> IF d \notin Known THEN live[d]
                                    ELSE IF d \in forget THEN None ELSE q[d]]
      /\ \E flush : todo' = [open   |-> {d \in seen : ~Aged(d).online},
                             close  |-> {d \in Known : Departs(e[d]) /\ e[d].session},
                             flush  |-> flush, forget |-> forget]
    BY DEF SampleOf
<1>4. ASSUME NEW d \in Clients PROVE e[d] = Sampled(curr, d) /\ q[d] = After(curr, d)
    <2>1. d \in listed <=> found[d] # "absent"
        OBVIOUS
    <2>2. d \in listed => delta[d] = Bytes(curr, d)
        BY DEF Bytes
    <2> HIDE DEF delta, seen, listed
    <2>3. e[d] = IF d \in listed THEN Observed(Aged(d), delta[d], d \in seen) ELSE Aged(d)
        OBVIOUS
    <2>4. e[d] = Sampled(curr, d)
        BY <1>1, <2>1, <2>2, <2>3 DEF Sampled
    <2>5. q[d] = Persisted(WithoutAbsent(e[d]))
        OBVIOUS
    <2>6. QED
        BY <2>4, <2>5 DEF After
<1> HIDE DEF e, q, p, seen, listed
<1>5. live'[c] = IF c \notin Known THEN live[c]
                 ELSE IF Forgotten(After(curr, c)) THEN None ELSE After(curr, c)
    BY <1>3, <1>4
<1>6. /\ c \in todo'.open <=> c \in seen /\ ~Aged(c).online
      /\ c \in todo'.close <=> c \in Known /\ Departs(e[c]) /\ e[c].session
    <2>1. PICK flush : todo' = [open   |-> {d \in seen : ~Aged(d).online},
                                close  |-> {d \in Known : Departs(e[d]) /\ e[d].session},
                                flush  |-> flush, forget |-> forget]
        BY <1>3
    <2> HIDE DEF forget
    <2>2. QED
        BY <1>2, <2>1
<1>7. QED
    BY <1>1, <1>3, <1>4, <1>5, <1>6

LEMMA SampleHands ==
    ASSUME NEW curr \in Readings, SampleOf(curr)
    PROVE  /\ todo' = [open |-> todo'.open, close |-> todo'.close,
                       flush |-> todo'.flush, forget |-> todo'.forget]
           /\ todo'.open \subseteq Clients /\ todo'.close \subseteq Clients
<1> DEFINE listed == {d \in Clients : found[d] # "absent"}
           delta == [d \in Clients |-> IF d \in listed THEN Delta(monitor.prev[d], curr[d])
                                      ELSE 0]
           seen == {d \in listed : found[d] # "stale" \/ delta[d] > 0}
           e == [d \in Clients |-> IF d \in listed THEN Observed(Aged(d), delta[d], d \in seen)
                                  ELSE Aged(d)]
           open == {d \in seen : ~Aged(d).online}
           close == {d \in Known : Departs(e[d]) /\ e[d].session}
<1>1. \E flush, forget :
          todo' = [open |-> open, close |-> close, flush |-> flush, forget |-> forget]
    BY DEF SampleOf
<1>2. open \subseteq Clients /\ close \subseteq Clients
    BY DEF Known
<1> HIDE DEF open, close
<1>3. QED
    BY <1>1, <1>2

\* The nudges, which come last.
LEMMA SampleNudges ==
    ASSUME Shapes, Kinds, NEW curr \in Readings, SampleOf(curr)
    PROVE  \E nudged \in Nudges :
               /\ neigh' = [c \in Clients |-> IF c \notin nudged THEN neigh[c]
                                              ELSE IF c \in here THEN "fresh" ELSE "absent"]
               /\ monitor'.probed =
                     [c \in Clients |-> IF c \in nudged THEN ProbeEvery - 1
                                        ELSE IF monitor.probed[c] > 0
                                             THEN monitor.probed[c] - 1 ELSE 0]
<1> DEFINE listed == {d \in Clients : found[d] # "absent"}
           prev == [c \in Clients |-> IF c \in listed THEN curr[c] ELSE monitor.prev[c]]
           probed(n) == [c \in Clients |-> IF c \in n THEN ProbeEvery - 1
                                           ELSE IF monitor.probed[c] > 0
                                                THEN monitor.probed[c] - 1 ELSE 0]
<1>1. PICK n \in Nudges :
          /\ neigh' = [c \in Clients |-> IF c \notin n THEN neigh[c]
                                         ELSE IF c \in here THEN "fresh" ELSE "absent"]
          /\ monitor' = [monitor EXCEPT !.prev = prev, !.probed = probed(n)]
    BY DEF SampleOf
<1> HIDE DEF prev, probed
<1>2. monitor'.probed = probed(n)
    BY <1>1 DEF Shapes
<1>3. QED
    BY <1>1, <1>2 DEF probed

LEMMA UntouchedPresence ==
    ASSUME Present, NEW c \in Clients, daemon # "down",
           live'[c] = live[c], todo'.open = todo.open, todo'.close = todo.close,
           sessions' = sessions
    PROVE  Agrees(c)'
BY DEF Present, Agrees, Online

LEMMA LanIsPresence ==
    ASSUME Present, Counted',
           \/ \E c \in Clients : Arrive(c) \/ Leave(c) \/ Quiet(c) \/ Move(c) \/ Talk(c)
           \/ Reload
    PROVE  Present'
<1>1. UNCHANGED <<daemon, pc, found, monitor, live, todo, sessions>>
    BY DEF Arrive, Leave, Quiet, Move, Talk, Reload, memory
<1>2. neigh' \in [Clients -> Neighbour]
    BY DEF Present, Kinds, Arrive, Leave, Quiet, Move, Talk, Reload, Neighbour
<1>3. here' \subseteq Clients /\ back' \subseteq here'
    BY DEF Present, Kinds, Arrive, Leave, Quiet, Move, Talk, Reload
<1>4. Kinds'
    BY <1>1, <1>2, <1>3 DEF Present, Kinds
<1>5. QED
    BY <1>1, <1>4 DEF Present, InHand, Agrees, Online

LEMMA DiscoverIsPresence == ASSUME Present, Counted', Discover PROVE Present'
<1>1. /\ daemon # "down" /\ pc = "idle" /\ pc' = "sample" /\ found' = neigh'
      /\ UNCHANGED <<here, daemon, live, todo, sessions, back>>
      /\ neigh' = [c \in Clients |-> IF neigh[c] = "fresh" THEN "reachable" ELSE neigh[c]]
    BY DEF Discover
<1>2. PICK m \in Adoptions : \E new : monitor' = [m EXCEPT !.tracked = @ \cup new]
    BY DEF Discover
<1>3. monitor'.probed = monitor.probed
    <2>1. m.probed = monitor.probed
        BY DEF Adoptions, Adopted, Present, Counted, Shapes
    <2>2. m = [ready |-> TRUE, tracked |-> m.tracked, prev |-> m.prev, probed |-> m.probed]
        BY AdoptionShape, Zenon DEF Present, Counted
    <2>3. QED
        BY <1>2, <2>1, <2>2
<1>4. neigh' \in [Clients -> Neighbour]
    BY <1>1 DEF Present, Kinds, Neighbour
<1>5. Kinds'
    BY <1>1, <1>3, <1>4 DEF Present, Kinds
<1>6. QED
    BY <1>1, <1>5 DEF Present, InHand, Agrees, Online

\* A client that was seen is online and stays; one that was not goes only
\* after the grace period, with its session.
LEMMA SampleIsPresence == ASSUME Present, Counted', Sample PROVE Present'
<1>0. PICK curr \in Readings : SampleOf(curr)
    BY DEF Sample
<1>1. /\ pc = "sample" /\ pc' = "write" /\ UNCHANGED <<here, chain, daemon, sessions>>
      /\ found' = NotFound
      /\ back' = back \ SeenNow(curr)
      /\ Shapes /\ Kinds /\ todo.open = {} /\ todo.close = {} /\ daemon # "down"
      /\ live \in [Clients -> Entry \cup {None}]
    <2>1. Shapes /\ Kinds
        BY DEF Present, Counted
    <2>2. todo.open = {} /\ todo.close = {} /\ daemon # "down"
        BY <1>0 DEF SampleOf, Present, InHand, Counted, Stages
    <2>3. /\ pc = "sample" /\ pc' = "write" /\ UNCHANGED <<here, chain, daemon, sessions>>
          /\ found' = NotFound
          /\ back' = back \ SeenNow(curr)
        BY <1>0 DEF SampleOf, SeenNow
    <2>4. QED
        BY <2>1, <2>2, <2>3 DEF Shapes
<1>2. Kinds'
    <2>1. PICK nudged \in Nudges :
               /\ neigh' = [c \in Clients |-> IF c \notin nudged THEN neigh[c]
                                              ELSE IF c \in here THEN "fresh" ELSE "absent"]
               /\ monitor'.probed =
                     [c \in Clients |-> IF c \in nudged THEN ProbeEvery - 1
                                        ELSE IF monitor.probed[c] > 0
                                             THEN monitor.probed[c] - 1 ELSE 0]
        BY <1>0, <1>1, SampleNudges
    <2>2. neigh' \in [Clients -> Neighbour]
        BY <1>1, <2>1 DEF Kinds, Neighbour
    <2>3. monitor'.probed \in [Clients -> 0..(ProbeEvery - 1)]
        BY <1>1, <2>1, OldThresholds DEF Kinds
    <2>4. found' \in [Clients -> Neighbour] /\ back' \subseteq here'
        BY <1>1 DEF Kinds, NotFound, Neighbour
    <2>5. /\ todo' = [open |-> todo'.open, close |-> todo'.close,
                      flush |-> todo'.flush, forget |-> todo'.forget]
          /\ todo'.open \subseteq Clients /\ todo'.close \subseteq Clients
        BY <1>0, SampleHands
    <2>6. QED
        BY <1>1, <2>2, <2>3, <2>4, <2>5 DEF Kinds
<1>3. ASSUME NEW c \in Clients PROVE Agrees(c)'
    <2>1. /\ live'[c] = IF c \notin Known THEN live[c]
                        ELSE IF Forgotten(After(curr, c)) THEN None ELSE After(curr, c)
          /\ c \in todo'.open <=> c \in SeenNow(curr) /\ ~Aged(c).online
          /\ c \in todo'.close <=>
                c \in Known /\ Departs(Sampled(curr, c)) /\ Sampled(curr, c).session
        BY <1>0, <1>1, SampleReads
    <2>2. /\ Aged(c) \in Entry
          /\ Aged(c).online = TRUE <=> Online(c)
          /\ live[c] = None => Aged(c).session = FALSE
          /\ live[c] # None => live[c] \in Entry /\ Aged(c).session = live[c].session
        BY <1>1, AgedFields
    <2>3. /\ Sampled(curr, c) \in Entry /\ After(curr, c) \in Entry
          /\ Departs(Sampled(curr, c)) <=> Goes(curr, c)
          /\ Sampled(curr, c).session = Aged(c).session
          /\ After(curr, c).online = TRUE <=> (Online(c) \/ c \in SeenNow(curr)) /\ ~Goes(curr, c)
          /\ After(curr, c).session = TRUE <=> Aged(c).session = TRUE /\ ~Goes(curr, c)
          /\ After(curr, c).seen = IF c \in SeenNow(curr) THEN 0 ELSE Aged(c).seen
        BY <1>0, <1>1, AfterFields
    <2>4. /\ sessions[c] = 1 <=> Online(c)
          /\ sessions[c] \in {0, 1}
          /\ Aged(c).session = TRUE <=> Online(c)
        BY <1>1, <2>2 DEF Present, Agrees, Online, Kinds
    <2>5. c \in SeenNow(curr) => c \in Known
        BY DEF SeenNow, Known
    <2>6. Online(c) => c \in Known
        BY DEF Online, Known
    <2>7. Aged(c).session \in BOOLEAN /\ Aged(c).online \in BOOLEAN
          /\ After(curr, c).online \in BOOLEAN /\ Aged(c).seen \in Nat
        BY <2>2, <2>3 DEF Entry
    <2>8. /\ c \in todo'.open <=> c \in SeenNow(curr) /\ ~Online(c)
          /\ c \in todo'.close <=> Goes(curr, c)
        <3>1. Goes(curr, c) => Online(c)
            BY DEF Goes
        <3>2. QED
            BY <2>1, <2>2, <2>3, <2>4, <2>6, <2>7, <3>1
    <2>9. Forgotten(After(curr, c)) => After(curr, c).online = FALSE
        BY <2>7 DEF Forgotten
    <2>10. Online(c)' <=> (Online(c) \/ c \in SeenNow(curr)) /\ ~Goes(curr, c)
        <3>1. CASE c \notin Known
            BY <2>1, <2>5, <2>6, <3>1 DEF Online
        <3>2. CASE c \in Known /\ Forgotten(After(curr, c))
            BY <2>1, <2>3, <2>9, <3>2 DEF Online
        <3>3. CASE c \in Known /\ ~Forgotten(After(curr, c))
            <4>1. live'[c] = After(curr, c) /\ live'[c] # None
                BY <2>1, <2>3, <3>3, OldThresholds
            <4>2. QED
                BY <2>3, <4>1 DEF Online
        <3>4. QED
            BY <3>1, <3>2, <3>3
    <2>11. live'[c] # None => live'[c] = After(curr, c)
        BY <2>1 DEF Known
    <2>12. Online(c)' => live'[c].seen <= OfflineAfter
        <3>1. SUFFICES ASSUME Online(c)' PROVE After(curr, c).seen <= OfflineAfter
            BY <2>11 DEF Online
        <3>2. CASE c \in SeenNow(curr)
            BY <2>3, <3>2, OldThresholds
        <3>3. CASE c \notin SeenNow(curr)
            BY <2>3, <2>7, <2>10, <3>1, <3>3, OldThresholds DEF Goes
        <3>4. QED
            BY <3>2, <3>3
    <2>13. live'[c] # None =>
              (live'[c].session = TRUE <=> Online(c)' /\ c \notin todo'.open)
        BY <2>3, <2>4, <2>8, <2>10, <2>11 DEF Goes
    <2>14. QED
        BY <1>1, <2>4, <2>8, <2>10, <2>12, <2>13 DEF Agrees, Goes
<1>4. InHand'
    BY <1>1 DEF InHand
<1>5. QED
    BY <1>2, <1>3, <1>4 DEF Present

LEMMA WriteIsPresence == ASSUME Present, Counted', Write PROVE Present'
<1>1. /\ pc = "write" /\ pc' = "idle" /\ todo' = Idle
      /\ UNCHANGED <<here, neigh, daemon, found, back>>
      /\ sessions' = [c \in Clients |-> Open(c)]
      /\ live' = [c \in Clients |-> IF c \in todo.open /\ live[c] # None
                                    THEN [live[c] EXCEPT !.session = TRUE] ELSE live[c]]
    BY DEF Write
<1>2. daemon # "down" /\ live \in [Clients -> Entry \cup {None}] /\ Kinds
    BY <1>1 DEF Present, Counted, Stages, Shapes
<1>3. monitor'.probed = [c \in Clients |-> IF c \in todo.forget THEN 0 ELSE monitor.probed[c]]
    <2>1. \E t, p : monitor' = [monitor EXCEPT
              !.tracked = t, !.prev = p,
              !.probed = [c \in Clients |-> IF c \in todo.forget THEN 0 ELSE monitor.probed[c]]]
        BY DEF Write
    <2>2. QED
        BY <2>1 DEF Present, Counted, Shapes
<1>4. ASSUME NEW c \in Clients
      PROVE  /\ sessions'[c] = 1 <=> Online(c)
             /\ sessions'[c] \in {0, 1}
    <2>1. sessions'[c] = sessions[c] + (IF c \in todo.open THEN 1 ELSE 0)
                                     - (IF c \in todo.close THEN 1 ELSE 0)
        BY <1>1 DEF Open
    <2>2. sessions[c] \in {0, 1} /\ Agrees(c)
        BY <1>2 DEF Kinds, Present
    <2>3. CASE c \in todo.open
        BY <2>1, <2>2, <2>3 DEF Agrees
    <2>4. CASE c \in todo.close
        BY <2>1, <2>2, <2>4 DEF Agrees
    <2>5. CASE c \notin todo.open /\ c \notin todo.close
        BY <2>1, <2>2, <2>5 DEF Agrees
    <2>6. QED
        BY <2>3, <2>4, <2>5
<1>5. /\ todo'.open = {} /\ todo'.close = {}
      /\ todo' = [open |-> todo'.open, close |-> todo'.close,
                  flush |-> todo'.flush, forget |-> todo'.forget]
    BY <1>1 DEF Idle
<1>6. Kinds'
    <2>1. monitor'.probed \in [Clients -> 0..(ProbeEvery - 1)]
        BY <1>2, <1>3, OldThresholds DEF Kinds
    <2>2. sessions' \in [Clients -> {0, 1}]
        BY <1>1, <1>4
    <2>3. QED
        BY <1>1, <1>2, <1>5, <2>1, <2>2 DEF Kinds
<1>7. ASSUME NEW c \in Clients PROVE Agrees(c)'
    <2>1. /\ live[c] = None <=> live'[c] = None
          /\ live[c] # None => /\ live'[c].online = live[c].online
                               /\ live'[c].seen = live[c].seen
                               /\ live'[c].session = IF c \in todo.open THEN TRUE
                                                     ELSE live[c].session
        <3>1. CASE live[c] = None
            BY <1>1, <3>1
        <3>2. CASE live[c] # None
            <4>1. live[c] \in Entry
                BY <1>2, <3>2
            <4>2. live'[c] = IF c \in todo.open THEN [live[c] EXCEPT !.session = TRUE]
                             ELSE live[c]
                BY <1>1, <3>2
            <4>3. live'[c] \in Entry
                BY <4>1, <4>2 DEF Entry
            <4>4. QED
                BY <3>2, <4>1, <4>2, <4>3, OldThresholds DEF Entry
        <3>3. QED
            BY <3>1, <3>2
    <2>2. Online(c)' <=> Online(c)
        BY <2>1 DEF Online
    <2>3. Agrees(c)
        BY <1>2 DEF Present
    <2>4. Online(c) => live'[c].seen <= OfflineAfter
        BY <2>1, <2>3 DEF Agrees, Online
    <2>5. live'[c] # None => (live'[c].session = TRUE <=> Online(c))
        BY <2>1, <2>3 DEF Agrees
    <2>6. QED
        BY <1>4, <1>5, <2>2, <2>4, <2>5 DEF Agrees
<1>8. InHand'
    BY <1>1, <1>2, <1>5 DEF InHand
<1>9. QED
    BY <1>6, <1>7, <1>8 DEF Present

\* Sessions left open are resumed, and only those.
LEMMA StartIsPresence == ASSUME Present, Counted', Start PROVE Present'
<1>1. /\ daemon = "down" /\ daemon' = "up" /\ live' = Resumed
      /\ UNCHANGED <<kernel, pc, found, monitor, todo, sessions, due, back>>
    BY DEF Start
<1>2. pc = "idle" /\ todo.open = {} /\ todo.close = {} /\ Kinds
    BY <1>1 DEF Present, InHand, Counted, Stages
<1>3. Kinds'
    BY <1>1, <1>2 DEF Kinds, kernel
<1>4. ASSUME NEW c \in Clients PROVE Agrees(c)'
    <2> DEFINE r == [Fresh EXCEPT !.online = TRUE, !.session = TRUE]
    <2>1. live'[c] = IF sessions[c] = 0 THEN None ELSE r
        BY <1>1 DEF Resumed
    <2>2. r \in Entry /\ r.online = TRUE /\ r.session = TRUE /\ r.seen = 0
        <3>1. Fresh \in Entry /\ Fresh.seen = 0
            BY Thresholds DEF Fresh, Entry
        <3>2. QED
            BY <3>1 DEF Entry
    <2> HIDE DEF r
    <2>3. sessions[c] \in {0, 1}
        BY <1>2 DEF Kinds
    <2>4. CASE sessions[c] = 0
        BY <1>1, <1>2, <2>1, <2>4 DEF Agrees, Online
    <2>5. CASE sessions[c] = 1
        <3>1. live'[c] = r /\ r # None
            BY <2>1, <2>2, <2>5, OldThresholds
        <3>2. Online(c)' /\ live'[c].seen = 0 /\ live'[c].session = TRUE
            BY <2>2, <3>1 DEF Online
        <3>3. QED
            BY <1>1, <1>2, <2>5, <3>2, OldThresholds DEF Agrees
    <2>6. QED
        BY <2>3, <2>4, <2>5
<1>5. QED
    BY <1>1, <1>2, <1>3, <1>4 DEF Present, InHand

LEMMA FlushIsPresence == ASSUME Present, Counted', Flush PROVE Present'
<1>1. /\ daemon = "up" /\ daemon' = "stopping"
      /\ live' = [c \in Clients |->
                    IF Pending(c) = 0 THEN live[c]
                    ELSE [live[c] EXCEPT !.pending = 0, !.old = 0, !.since = 0]]
      /\ UNCHANGED <<kernel, pc, found, monitor, todo, sessions, back>>
    BY DEF Flush
<1>2. Kinds /\ live \in [Clients -> Entry \cup {None}]
    BY DEF Present, Counted, Shapes
<1>3. Kinds'
    BY <1>1, <1>2 DEF Kinds, kernel
<1>4. ASSUME NEW c \in Clients PROVE Agrees(c)'
    <2>1. Agrees(c)
        BY <1>1 DEF Present
    <2>2. CASE Pending(c) = 0
        BY <1>1, <2>1, <2>2 DEF Agrees, Online
    <2>3. CASE Pending(c) # 0
        <3>1. live[c] # None /\ live[c] \in Entry
            BY <1>2, <2>3 DEF Pending
        <3>2. live'[c] = [live[c] EXCEPT !.pending = 0, !.old = 0, !.since = 0]
            BY <1>1, <2>3
        <3>3. live'[c] = [online |-> live[c].online, session |-> live[c].session,
                          pending |-> 0, old |-> 0, seen |-> live[c].seen, since |-> 0]
            <4>1. live[c] = [online |-> live[c].online, session |-> live[c].session,
                             pending |-> live[c].pending, old |-> live[c].old,
                             seen |-> live[c].seen, since |-> live[c].since]
                BY <3>1 DEF Entry
            <4>2. QED
                BY <3>2, <4>1
        <3>4. live'[c] \in Entry
            BY <3>1, <3>3, Thresholds DEF Entry
        <3>5. /\ live'[c] # None /\ live'[c].online = live[c].online
              /\ live'[c].seen = live[c].seen /\ live'[c].session = live[c].session
            BY <3>3, <3>4, OldThresholds
        <3>6. Online(c)' <=> Online(c)
            BY <3>1, <3>5 DEF Online
        <3>7. QED
            BY <1>1, <2>1, <3>1, <3>5, <3>6 DEF Agrees
    <2>4. QED
        BY <2>2, <2>3
<1>5. QED
    BY <1>1, <1>3, <1>4 DEF Present, InHand

LEMMA GoneIsPresence == ASSUME Present, Counted', Gone PROVE Present'
<1>1. /\ daemon' = "down" /\ pc' = "idle" /\ found' = NotFound /\ monitor' = NoMonitor
      /\ todo' = Idle
      /\ UNCHANGED <<kernel, sessions, back>>
    BY DEF Gone
<1>2. Kinds'
    BY <1>1, OldThresholds
    DEF Present, Kinds, kernel, NotFound, Neighbour, NoMonitor, NoBytes, Idle
<1>3. InHand'
    BY <1>1 DEF InHand, Idle
<1>4. QED
    BY <1>1, <1>2, <1>3 DEF Present

LEMMA PresentStep == Present /\ [Next]_vars => Present'
<1> SUFFICES ASSUME Present, [Next]_vars PROVE Present'
    OBVIOUS
<1>1. Counted'
    BY CountedStep DEF Present
<1>2. CASE \/ \E c \in Clients : Arrive(c) \/ Leave(c) \/ Quiet(c) \/ Move(c) \/ Talk(c)
           \/ Reload
    BY <1>1, <1>2, LanIsPresence
<1>3. CASE Discover
    BY <1>1, <1>3, DiscoverIsPresence
<1>4. CASE Sample
    BY <1>1, <1>4, SampleIsPresence
<1>5. CASE Write
    BY <1>1, <1>5, WriteIsPresence
<1>6. CASE Start
    BY <1>1, <1>6, StartIsPresence
<1>7. CASE Flush
    BY <1>1, <1>7, FlushIsPresence
<1>8. CASE Abort \/ Kill
    BY <1>1, <1>8, GoneIsPresence DEF Abort, Kill
<1>9. CASE UNCHANGED vars
    BY <1>1, <1>9
    DEF vars, kernel, memory, Present, Kinds, InHand, Agrees, Online
<1>10. QED
    BY <1>2, <1>3, <1>4, <1>5, <1>6, <1>7, <1>8, <1>9 DEF Next, Loop

LEMMA PresentInit == Init => Present
<1> SUFFICES ASSUME Init PROVE Present
    OBVIOUS
<1>1. Counted
    <2>1. chain \in [rule : SUBSET Clients, count : [Clients -> Nat]]
        BY DEF Init, NoBytes
    <2>2. QED
        BY <2>1, NobodyIsOwed DEF Init, NobodyOwed
<1>2. Kinds
    BY OldThresholds DEF Init, Kinds, NotFound, Neighbour, NoMonitor, NoBytes, Idle
<1>3. QED
    BY <1>1, <1>2 DEF Init, Present, InHand, Idle

\* Types, with no more than one session open for a client (`open_client_session`
\* and `close_client_session` of obs/stats.rs alternate), and presence that agrees
\* with the sessions as soon as a tick is written: no assumption on the settings.
THEOREM TypeCorrect == Spec => []TypeOK
<1>1. Present => TypeOK
    <2> SUFFICES ASSUME Present PROVE TypeOK
        OBVIOUS
    <2>1. Shapes /\ Kinds
        BY DEF Present, Counted
    <2>2. monitor \in [ready : BOOLEAN, tracked : SUBSET Clients,
                       prev : [Clients -> Nat \cup {None}],
                       probed : [Clients -> 0..(ProbeEvery - 1)]]
        BY <2>1 DEF Shapes, Kinds
    <2>3. todo \in [open : SUBSET Clients, close : SUBSET Clients,
                    flush : [Clients -> Nat], forget : SUBSET Clients]
        BY <2>1 DEF Shapes, Kinds
    <2>4. sessions \in [Clients -> Nat]
        BY <2>1 DEF Kinds
    <2>5. QED
        BY <2>1, <2>2, <2>3, <2>4 DEF TypeOK, Shapes, Kinds
<1>2. QED
    BY <1>1, PresentInit, PresentStep, PTL DEF Spec

-----------------------------------------------------------------------------
(***************************************************************************)
(* Buckets and sessions.  A bucket with bytes in it is at least as old as  *)
(* the last sighting, so it is due before its client can be gone.          *)
(***************************************************************************)
LEMMA SampledBucket ==
    ASSUME Shapes, Kinds, Settled, NEW curr \in Readings, NEW c \in Clients
    PROVE  /\ Sampled(curr, c) \in Entry /\ Sampled(curr, c).old = 0
           /\ Sampled(curr, c).pending > 0 =>
                 \/ Sampled(curr, c).seen <= Sampled(curr, c).since
                 \/ Sampled(curr, c).since = PersistEvery
<1>1. /\ Aged(c) \in Entry /\ Aged(c).old = 0
      /\ Aged(c).pending > 0 => Aged(c).seen <= Aged(c).since \/ Aged(c).since = PersistEvery
    <2>1. live \in [Clients -> Entry \cup {None}]
        BY DEF Shapes
    <2>2. CASE live[c] = None
        <3>1. Aged(c) \in Entry /\ Aged(c).old = 0 /\ Aged(c).pending = 0
            BY <2>1, <2>2, AgedFields
        <3>2. QED
            BY <3>1
    <2>3. CASE live[c] # None
        <3>1. /\ Aged(c) \in Entry /\ live[c] \in Entry
              /\ Aged(c).old = live[c].old
              /\ Aged(c).pending = live[c].pending
              /\ Aged(c).seen <= live[c].seen + 1
              /\ Aged(c).since = live[c].since + 1 \/ Aged(c).since = PersistEvery
            BY <2>1, <2>3, AgedFields
        <3>2. live[c].old = 0 /\ (live[c].pending > 0 => live[c].seen <= live[c].since)
            BY <2>3 DEF Settled
        <3>3. live[c].seen \in Nat /\ live[c].since \in Nat /\ Aged(c).seen \in Nat
            BY <3>1, OldThresholds DEF Entry
        <3>4. QED
            BY <3>1, <3>2, <3>3
    <2>4. QED
        BY <2>2, <2>3
<1>2. Bytes(curr, c) \in Nat
    <2>1. monitor.prev[c] \in Nat \cup {None} /\ curr[c] \in Nat
        BY ReadingsAreNat DEF Shapes
    <2>2. QED
        BY <2>1, DeltaIsNat DEF Bytes
<1>3. found[c] # "absent" /\ Bytes(curr, c) > 0 => c \in SeenNow(curr)
    BY DEF SeenNow, Bytes
<1>4. CASE found[c] = "absent"
    BY <1>1, <1>4 DEF Sampled
<1>5. CASE found[c] # "absent"
    <2>1. Sampled(curr, c) = Observed(Aged(c), Bytes(curr, c), c \in SeenNow(curr))
        BY <1>5 DEF Sampled
    <2> DEFINE a == Aged(c)
               b == Bytes(curr, c)
               s == c \in SeenNow(curr)
    <2>2. a \in Entry /\ b \in Nat /\ s \in BOOLEAN
        BY <1>1, <1>2
    <2>3. (b > 0 => s) /\ Sampled(curr, c) = Observed(a, b, s)
        BY <1>3, <1>5, <2>1
    <2>4. a.old = 0 /\ (a.pending > 0 => a.seen <= a.since \/ a.since = PersistEvery)
        BY <1>1
    <2> HIDE DEF a, b, s
    <2>5. /\ Observed(a, b, s) \in Entry
          /\ Observed(a, b, s).pending = a.pending + b
          /\ Observed(a, b, s).old = a.old /\ Observed(a, b, s).since = a.since
          /\ Observed(a, b, s).seen = IF s THEN 0 ELSE a.seen
        BY <2>2, ObservedBytes, ObservedFields
    <2>6. a.pending \in Nat /\ a.seen \in Nat /\ a.since \in Nat
        BY <2>2, OldThresholds DEF Entry
    <2>7. QED
        BY <2>2, <2>3, <2>4, <2>5, <2>6
<1>6. QED
    BY <1>4, <1>5

LEMMA AfterBucket ==
    ASSUME Shapes, Kinds, Settled, HandedOver, NEW curr \in Readings, NEW c \in Clients
    PROVE  /\ After(curr, c).old = 0
           /\ After(curr, c).pending > 0 => After(curr, c).seen <= After(curr, c).since
<1> DEFINE e == Sampled(curr, c)
           w == WithoutAbsent(e)
<1>1. /\ e \in Entry /\ e.old = 0
      /\ e.pending > 0 => e.seen <= e.since \/ e.since = PersistEvery
    BY SampledBucket
<1>2. After(curr, c) = Persisted(w)
    BY DEF After
<1> HIDE DEF e
<1>3. /\ w \in Entry /\ w.pending = e.pending /\ w.seen = e.seen /\ w.since = e.since
      /\ w.old = IF Departs(e) THEN e.pending ELSE e.old
    BY <1>1 DEF WithoutAbsent, Entry
<1>4. /\ e.seen \in Nat /\ e.since \in Nat /\ e.since <= PersistEvery /\ e.pending \in Nat
    BY <1>1, OldThresholds DEF Entry
<1>5. Departs(e) => e.seen > OfflineAfter
    BY DEF Departs
<1> HIDE DEF w
<1>6. CASE Due(w)
    BY <1>2, <1>3, <1>6, Thresholds DEF Persisted, Entry
<1>7. CASE ~Due(w)
    <2>1. Persisted(w) = w /\ e.since < PersistEvery
        BY <1>3, <1>4, <1>7, OldThresholds DEF Persisted, Due
    <2>2. Departs(e) => e.pending = 0
        BY <1>1, <1>4, <1>5, <2>1, OldThresholds DEF HandedOver
    <2>3. QED
        BY <1>1, <1>2, <1>3, <1>4, <2>1, <2>2
<1>8. QED
    BY <1>6, <1>7

LEMMA SettledStep ==
    ASSUME Present, Settled, HandedOver, [Next]_vars
    PROVE  Settled'
<1>1. Shapes /\ Kinds /\ live \in [Clients -> Entry \cup {None}]
    BY DEF Present, Counted, Shapes
<1>2. CASE UNCHANGED live
    BY <1>2 DEF Settled
<1>3. CASE Sample
    <2>0. PICK curr \in Readings : SampleOf(curr)
        BY <1>3 DEF Sample
    <2>1. ASSUME NEW c \in Clients, live'[c] # None PROVE live'[c] = After(curr, c)
        <3>1. live'[c] = IF c \notin Known THEN live[c]
                         ELSE IF Forgotten(After(curr, c)) THEN None ELSE After(curr, c)
            BY <1>1, <2>0, SampleReads
        <3>2. QED
            BY <2>1, <3>1 DEF Known
    <2>2. ASSUME NEW c \in Clients
          PROVE  /\ After(curr, c).old = 0
                 /\ After(curr, c).pending > 0 => After(curr, c).seen <= After(curr, c).since
        BY <1>1, AfterBucket
    <2>3. QED
        BY <2>1, <2>2 DEF Settled
<1>4. CASE Write
    <2>1. ASSUME NEW c \in Clients, live'[c] # None
          PROVE  /\ live[c] # None /\ live'[c].old = live[c].old
                 /\ live'[c].pending = live[c].pending
                 /\ live'[c].seen = live[c].seen /\ live'[c].since = live[c].since
        <3>1. live'[c] = IF c \in todo.open /\ live[c] # None
                         THEN [live[c] EXCEPT !.session = TRUE] ELSE live[c]
            BY <1>4 DEF Write
        <3>2. live[c] \in Entry
            BY <1>1, <2>1, <3>1
        <3>3. QED
            BY <2>1, <3>1, <3>2, OldThresholds DEF Entry
    <2>2. QED
        BY <2>1 DEF Settled
<1>5. CASE Start
    <2>1. ASSUME NEW c \in Clients, live'[c] # None
          PROVE  live'[c].old = 0 /\ live'[c].pending = 0
        <3>1. live'[c] = [Fresh EXCEPT !.online = TRUE, !.session = TRUE]
            BY <1>5, <2>1 DEF Start, Resumed
        <3>2. Fresh \in Entry /\ Fresh.old = 0 /\ Fresh.pending = 0
            BY Thresholds DEF Fresh, Entry
        <3>3. QED
            BY <3>1, <3>2 DEF Entry
    <2>2. QED
        BY <2>1 DEF Settled
<1>6. CASE Flush
    <2>1. ASSUME NEW c \in Clients, live'[c] # None
          PROVE  /\ live[c] # None
                 /\ \/ live'[c] = live[c]
                    \/ live'[c].old = 0 /\ live'[c].pending = 0
        <3>1. live'[c] = IF Pending(c) = 0 THEN live[c]
                         ELSE [live[c] EXCEPT !.pending = 0, !.old = 0, !.since = 0]
            BY <1>6 DEF Flush
        <3>2. live[c] # None
            BY <2>1, <3>1 DEF Pending
        <3>3. live[c] \in Entry
            BY <1>1, <3>2
        <3>4. QED
            BY <3>1, <3>2, <3>3 DEF Entry
    <2>2. QED
        BY <2>1 DEF Settled
<1>7. CASE Gone
    BY <1>7 DEF Gone, Nobody, Settled
<1>8. QED
    BY <1>2, <1>3, <1>4, <1>5, <1>6, <1>7
    DEF Next, Loop, Abort, Kill, Arrive, Leave, Quiet, Move, Talk, Reload, Discover, memory, vars

\* The sessions a client has in the database are its presence, through restarts
\* and kills at any step (`clients_loop`, `open_client_sessions`), and none is
\* credited with bytes from before it began.  The last part needs that
\* clients.persist_every_secs is no longer than clients.offline_after_secs and a
\* tick, which `Config::validate` leaves to the operator.
THEOREM SessionsAgree == ASSUME HandedOver PROVE Spec => []SessionsMatchPresence
<1>1. Init => Present /\ Settled
    BY PresentInit DEF Init, Nobody, Settled
<1>2. Present /\ Settled => SessionsMatchPresence
    <2> SUFFICES ASSUME Present, Settled, NEW c \in Clients
                 PROVE  /\ sessions[c] \in {0, 1}
                        /\ daemon # "down" /\ pc # "write" =>
                              /\ sessions[c] = 1 <=> live[c] # None /\ live[c].online
                              /\ sessions[c] = 1 => live[c].seen <= OfflineAfter
                        /\ live[c] # None /\ live[c].session => live[c].old = 0
        BY DEF SessionsMatchPresence
    <2>1. sessions[c] \in {0, 1}
        BY DEF Present, Kinds
    <2>2. live[c] # None => live[c].online \in BOOLEAN
        BY DEF Present, Counted, Shapes, Entry
    <2>3. ASSUME daemon # "down", pc # "write"
          PROVE  /\ sessions[c] = 1 <=> live[c] # None /\ live[c].online
                 /\ sessions[c] = 1 => live[c].seen <= OfflineAfter
        BY <2>2, <2>3 DEF Present, InHand, Agrees, Online
    <2>4. live[c] # None => live[c].old = 0
        BY DEF Settled
    <2>5. QED
        BY <2>1, <2>3, <2>4
<1>3. Present /\ Settled /\ [Next]_vars => (Present /\ Settled)'
    BY PresentStep, SettledStep
<1>4. QED
    BY <1>1, <1>2, <1>3, PTL DEF Spec
=============================================================================

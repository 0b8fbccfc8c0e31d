-------------------------- MODULE SelectionProofs --------------------------
(***************************************************************************)
(* Facts about the operators of Selection, for every set of providers and  *)
(* every assignment of priorities.                                         *)
(***************************************************************************)
EXTENDS Selection, FiniteSetTheorems, SequenceTheorems, WellFoundedInduction, TLAPS

\* A set of ranks has a least one, given any relation that orders them.
LEMMA LeastByOrder ==
  ASSUME NEW ranks \in SUBSET Nat, ranks # {},
         NEW less, IsWellFoundedOn(less, Nat),
         \A m, n \in Nat : m < n => <<m, n>> \in less
  PROVE  \E n \in ranks : \A m \in ranks : n <= m
<1>1. ranks \subseteq Nat
  OBVIOUS
<1>2. \E n \in ranks : \A m \in ranks : ~(<<m, n>> \in less)
  BY ONLY <1>1, ranks # {}, IsWellFoundedOn(less, Nat), WFMin
<1>3. PICK n \in ranks : \A m \in ranks : ~(<<m, n>> \in less)
  BY <1>2
<1>4. ASSUME NEW m \in ranks
      PROVE  n <= m
  <2>1. m \in Nat /\ n \in Nat
    BY <1>1
  <2>2. ~(m < n)
    BY <1>3, <2>1, Zenon
  <2>3. QED
    BY <2>1, <2>2
<1>5. QED
  BY <1>4

\* Any set of ranks has a least one.
LEMMA LeastRank ==
  ASSUME NEW ranks \in SUBSET Nat, ranks # {}
  PROVE  \E n \in ranks : \A m \in ranks : n <= m
<1>1. \A m, n \in Nat : m < n => <<m, n>> \in OpToRel(<, Nat)
  BY DEF OpToRel
<1>2. QED
  BY <1>1, NatLessThanWellFounded, LeastByOrder

\* best_healthy finds a provider whenever one is up, and none is preferred to
\* the one it finds (selection.rs, best_healthy).
LEMMA BestHealthyIsBest ==
  ASSUME NEW state, Healthy(state) # {}
  PROVE  /\ BestHealthy(state) \in Healthy(state)
         /\ \A q \in Healthy(state) : Priority[BestHealthy(state)] <= Priority[q]
<1> DEFINE ranks == {Priority[p] : p \in Healthy(state)}
<1>1. ranks \in SUBSET Nat /\ ranks # {}
  BY PriorityAssumption DEF Healthy
<1>2. PICK n \in ranks : \A m \in ranks : n <= m
  BY <1>1, LeastRank
<1>3. PICK p \in Healthy(state) : Priority[p] = n
  BY <1>2
<1>4. \A q \in Healthy(state) : Priority[p] <= Priority[q]
  BY <1>2, <1>3
<1>5. QED
  BY <1>3, <1>4 DEF BestHealthy

-----------------------------------------------------------------------------
(***************************************************************************)
(* What a decision (selection.rs, decide) may say, of any view of the      *)
(* providers, however old it is: Failover needs that.                      *)
(***************************************************************************)

\* A switch goes to a provider that is up in the view, and is a change.
LEMMA SwitchIsToHealthy ==
  ASSUME NEW current, NEW forced, NEW settled,
         NEW state \in [Providers -> ProbeState],
         Decide(current, forced, state, settled).kind = "Switch"
  PROVE  /\ Decide(current, forced, state, settled).to \in Healthy(state)
         /\ Decide(current, forced, state, settled).to # current
<1>1. Healthy(state) # {}
  BY DEF Decide, DecidePinned, Outcome
<1>2. BestHealthy(state) \in Healthy(state)
  BY <1>1, BestHealthyIsBest
<1>3. CASE forced # None
  BY <1>1, <1>2, <1>3 DEF Decide, DecidePinned, SwitchOrKeep, Outcome
<1>4. CASE forced = None /\ current = None
  BY <1>1, <1>2, <1>4, ProvidersAssumption
     DEF Decide, DecideColdStart, Outcome, Healthy
<1>5. CASE forced = None /\ current # None
  BY <1>1, <1>2, <1>5 DEF Decide, DecideIncumbent, Outcome, ProbeState
<1>6. QED
  BY <1>3, <1>4, <1>5

\* An incumbent is confirmed only if it is up in the view.
LEMMA KeepIsHealthy ==
  ASSUME NEW current, NEW forced, NEW settled,
         NEW state \in [Providers -> ProbeState],
         Decide(current, forced, state, settled).kind = "Keep"
  PROVE  current \in Healthy(state)
<1>1. Healthy(state) # {}
  BY DEF Decide, DecidePinned, Outcome
<1>2. BestHealthy(state) \in Healthy(state)
  BY <1>1, BestHealthyIsBest
<1>3. CASE forced # None
  BY <1>1, <1>2, <1>3 DEF Decide, DecidePinned, SwitchOrKeep, Outcome
<1>4. CASE forced = None /\ current = None
  BY <1>1, <1>4 DEF Decide, DecideColdStart, Outcome
<1>5. CASE forced = None /\ current # None
  BY <1>1, <1>2, <1>5 DEF Decide, DecideIncumbent, Outcome, ProbeState
<1>6. QED
  BY <1>3, <1>4, <1>5

\* A usable pin is obeyed.
LEMMA UsablePinIsObeyed ==
  ASSUME NEW current, NEW forced \in Providers, NEW state, NEW settled,
         state[forced] = "Up"
  PROVE  IF current = forced
           THEN Decide(current, forced, state, settled).kind = "Keep"
           ELSE /\ Decide(current, forced, state, settled).kind = "Switch"
                /\ Decide(current, forced, state, settled).to = forced
<1>1. forced \in Healthy(state) /\ forced # None
  BY ProvidersAssumption DEF Healthy
<1>2. QED
  BY <1>1 DEF Decide, DecidePinned, SwitchOrKeep, Outcome

\* A provider known to be down is left as soon as another one is up.
LEMMA DownIsEscaped ==
  ASSUME NEW current \in Providers, NEW forced, NEW state, NEW settled,
         state[current] = "Down", Healthy(state) # {}
  PROVE  Decide(current, forced, state, settled).kind = "Switch"
<1>1. BestHealthy(state) \in Healthy(state) /\ current \notin Healthy(state)
  BY BestHealthyIsBest DEF Healthy
<1>2. current # None
  BY ProvidersAssumption
<1>3. QED
  BY <1>1, <1>2
     DEF Decide, DecidePinned, SwitchOrKeep, DecideIncumbent, Outcome

\* Without a pin an unproven incumbent is never left.
LEMMA UnprovenIsKept ==
  ASSUME NEW current \in Providers, NEW state, NEW settled,
         state[current] = "Unknown"
  PROVE  Decide(current, None, state, settled).kind # "Switch"
<1>1. current # None
  BY ProvidersAssumption
<1>2. CASE Healthy(state) = {}
  BY <1>2 DEF Decide, Outcome
<1>3. CASE Healthy(state) # {}
  <2>1. current # BestHealthy(state)
    BY <1>3, BestHealthyIsBest DEF Healthy
  <2>2. QED
    BY <1>1, <1>3, <2>1 DEF Decide, DecideIncumbent, Outcome
<1>4. QED
  BY <1>2, <1>3

\* Without a pin a healthy incumbent is left only for a settled provider that
\* is preferred to it.
LEMMA FailbackIsToSettled ==
  ASSUME NEW current \in Providers, NEW state, NEW settled,
         state[current] = "Up",
         Decide(current, None, state, settled).kind = "Switch"
  PROVE  LET to == Decide(current, None, state, settled).to
         IN to \in settled /\ Priority[to] < Priority[current]
<1> DEFINE best == BestHealthy(state)
<1>1. current \in Healthy(state) /\ current # None
  BY ProvidersAssumption DEF Healthy
<1>2. best \in Providers /\ Priority[best] <= Priority[current]
  BY <1>1, BestHealthyIsBest DEF Healthy
<1>3. current # best /\ best \in settled
      /\ Decide(current, None, state, settled).to = best
  BY <1>1 DEF Decide, DecideIncumbent, Outcome
<1>4. Priority[best] # Priority[current]
  BY <1>2, <1>3, PriorityAssumption
<1>5. QED
  BY <1>2, <1>3, <1>4, PriorityAssumption

-----------------------------------------------------------------------------
(***************************************************************************)
(* Flap damping (selection.rs, FlapTracker).                               *)
(***************************************************************************)

\* The factors effective_failback multiplies with.
LEMMA PowersOfTwo ==
  ASSUME NEW k \in 0 .. 16
  PROVE  2 ^ k \in Nat /\ 2 ^ k >= 1
<1>0. CASE k = 0  BY <1>0
<1>1. CASE k = 1  BY <1>1
<1>2. CASE k = 2  BY <1>2
<1>3. CASE k = 3  BY <1>3
<1>4. CASE k = 4  BY <1>4
<1>5. CASE k = 5  BY <1>5
<1>6. CASE k = 6  BY <1>6
<1>7. CASE k = 7  BY <1>7
<1>8. CASE k = 8  BY <1>8
<1>9. CASE k = 9  BY <1>9
<1>10. CASE k = 10  BY <1>10
<1>11. CASE k = 11  BY <1>11
<1>12. CASE k = 12  BY <1>12
<1>13. CASE k = 13  BY <1>13
<1>14. CASE k = 14  BY <1>14
<1>15. CASE k = 15  BY <1>15
<1>16. CASE k = 16  BY <1>16
<1>17. QED
  BY <1>0, <1>1, <1>2, <1>3, <1>4, <1>5, <1>6, <1>7, <1>8,
     <1>9, <1>10, <1>11, <1>12, <1>13, <1>14, <1>15, <1>16

\* The effective window lies between the configured base and maximum.
LEMMA EffectiveFailbackBounds ==
  ASSUME NEW recent \in Nat, NEW threshold \in Nat,
         NEW base \in Nat, NEW max \in Nat, base <= max
  PROVE  /\ EffectiveFailback(recent, base, threshold, max) \in Nat
         /\ base <= EffectiveFailback(recent, base, threshold, max)
         /\ EffectiveFailback(recent, base, threshold, max) <= max
<1>1. CASE recent <= threshold
  BY <1>1 DEF EffectiveFailback, Smaller
<1>2. CASE recent > threshold
  <2> DEFINE k == Smaller(recent - threshold, 16)
             factor == 2 ^ k
  <2>1. k \in 0 .. 16
    BY <1>2 DEF Smaller
  <2>2. factor \in Nat /\ factor >= 1
    BY <2>1, PowersOfTwo
  <2>3. EffectiveFailback(recent, base, threshold, max) = Smaller(base * factor, max)
    BY <1>2 DEF EffectiveFailback
  <2> HIDE DEF factor
  <2>4. base * factor \in Nat /\ base * factor >= base
    BY <2>2
  <2>5. QED
    BY <2>3, <2>4 DEF Smaller
<1>3. QED
  BY <1>1, <1>2

\* The tracker counts a number of switches.
LEMMA SwitchesAreCounted ==
  ASSUME NEW switches \in Seq(Nat), NEW now \in Int, NEW window \in Int
  PROVE  SwitchesInWindow(switches, now, window) \in Nat
<1> DEFINE recent == {i \in DOMAIN switches : switches[i] >= now - window}
<1>1. DOMAIN switches = 1 .. Len(switches) /\ Len(switches) \in Nat
  OBVIOUS
<1>2. IsFiniteSet(1 .. Len(switches))
  BY <1>1, FS_Interval
<1>3. IsFiniteSet(recent)
  BY <1>1, <1>2, FS_Subset
<1>4. QED
  BY <1>3, FS_CardinalityType DEF SwitchesInWindow

\* The tracker keeps at most the newest `cap` times, and only times.
LEMMA NewestIsBounded ==
  ASSUME NEW switches \in Seq(Nat), NEW cap \in Nat
  PROVE  /\ Newest(switches, cap) \in Seq(Nat)
         /\ Len(Newest(switches, cap)) <= cap
         /\ Len(Newest(switches, cap)) <= Len(switches)
<1> DEFINE len == Len(switches)
           kept == Smaller(len, cap)
           from == 1 + len - kept
<1>1. len \in Nat /\ \A i \in 1 .. len : switches[i] \in Nat
  OBVIOUS
<1>2. Newest(switches, cap) = SubSeq(switches, from, len)
  BY DEF Newest
<1> HIDE DEF len
<1>3. kept \in Nat /\ kept <= cap /\ kept <= len
  BY <1>1 DEF Smaller
<1> HIDE DEF kept
<1>4. from \in 1 .. len + 1 /\ (IF from <= len THEN len - from + 1 ELSE 0) = kept
  BY <1>1, <1>3
<1> HIDE DEF from
<1>5. /\ SubSeq(switches, from, len) \in Seq(Nat)
      /\ Len(SubSeq(switches, from, len)) = kept
  <2>1. from \in Int /\ len \in Int /\ \A i \in from .. len : switches[i] \in Nat
    BY <1>1, <1>4
  <2>2. QED
    BY <2>1, <1>4, SubSeqProperties
<1>6. QED
  BY <1>2, <1>3, <1>5 DEF len

\* The newest `cap` times keep their order: an entry moves down by the number
\* of older ones dropped.
LEMMA NewestElements ==
  ASSUME NEW switches \in Seq(Nat), NEW cap \in Nat
  PROVE  LET kept == Smaller(Len(switches), cap)
         IN  /\ Newest(switches, cap) \in Seq(Nat)
             /\ Len(Newest(switches, cap)) = kept
             /\ \A i \in 1 .. kept :
                  Newest(switches, cap)[i] = switches[i + (Len(switches) - kept)]
<1> DEFINE len == Len(switches)
           kept == Smaller(len, cap)
           from == 1 + len - kept
<1>1. len \in Nat /\ \A i \in 1 .. len : switches[i] \in Nat
  OBVIOUS
<1>2. Newest(switches, cap) = SubSeq(switches, from, len)
  BY DEF Newest
<1> HIDE DEF len
<1>3. kept \in Nat /\ kept <= cap /\ kept <= len
  BY <1>1 DEF Smaller
<1> HIDE DEF kept
<1>4. /\ from \in 1 .. len + 1 /\ (IF from <= len THEN len - from + 1 ELSE 0) = kept
      /\ from = 1 + len - kept
  BY <1>1, <1>3
<1> HIDE DEF from
<1>5. /\ SubSeq(switches, from, len) \in Seq(Nat)
      /\ Len(SubSeq(switches, from, len)) = kept
      /\ \A i \in 1 .. kept : SubSeq(switches, from, len)[i] = switches[from + i - 1]
  <2>1. from \in Int /\ len \in Int /\ \A i \in from .. len : switches[i] \in Nat
    BY <1>1, <1>4
  <2>2. QED
    BY <2>1, <1>4, SubSeqProperties
<1>6. ASSUME NEW i \in 1 .. kept PROVE from + i - 1 = i + (len - kept)
  BY <1>1, <1>3, <1>4
<1>7. QED
  BY <1>2, <1>5, <1>6 DEF len, kept

\* How many old times one more pushes out of the history.
Lost(switches, cap) == IF Len(switches) = cap THEN 1 ELSE 0

\* Recording appends the time, and drops the oldest one if the history was full.
LEMMA RecordedElements ==
  ASSUME NEW switches \in Seq(Nat), NEW at \in Nat, NEW cap \in Nat \ {0},
         Len(switches) <= cap
  PROVE  /\ RecordSwitch(switches, at, cap) \in Seq(Nat)
         /\ Len(RecordSwitch(switches, at, cap)) = Len(switches) + 1 - Lost(switches, cap)
         /\ RecordSwitch(switches, at, cap)[Len(switches) + 1 - Lost(switches, cap)] = at
         /\ \A i \in 1 .. Len(switches) - Lost(switches, cap) :
              RecordSwitch(switches, at, cap)[i] = switches[i + Lost(switches, cap)]
<1> DEFINE len == Len(switches)
           lost == Lost(switches, cap)
           longer == Append(switches, at)
           recorded == RecordSwitch(switches, at, cap)
<1>1. /\ longer \in Seq(Nat) /\ Len(longer) = len + 1 /\ len \in Nat
      /\ longer[len + 1] = at /\ \A i \in 1 .. len : longer[i] = switches[i]
  OBVIOUS
<1>2. recorded = Newest(longer, cap) /\ len <= cap /\ cap \in Nat
  BY DEF RecordSwitch
<1>0. lost = IF len = cap THEN 1 ELSE 0
  BY DEF Lost
<1> HIDE DEF longer, len, lost, recorded
<1>3. Smaller(len + 1, cap) = len + 1 - lost
  BY <1>0, <1>1, <1>2 DEF Smaller
<1>4. /\ recorded \in Seq(Nat) /\ Len(recorded) = len + 1 - lost
      /\ \A i \in 1 .. len + 1 - lost : recorded[i] = longer[i + (len + 1 - (len + 1 - lost))]
  <2> DEFINE kept == Smaller(Len(longer), cap)
  <2>1. kept = len + 1 - lost /\ Len(longer) = len + 1
    BY <1>1, <1>3
  <2>2. /\ Newest(longer, cap) \in Seq(Nat) /\ Len(Newest(longer, cap)) = kept
        /\ \A i \in 1 .. kept :
             Newest(longer, cap)[i] = longer[i + (Len(longer) - kept)]
    BY <1>1, <1>2, NewestElements
  <2>3. lost \in Nat
    BY <1>0
  <2> HIDE DEF kept
  <2>4. Len(longer) - kept = len + 1 - (len + 1 - lost)
    BY <1>1, <2>1, <2>3
  <2>5. QED
    BY <1>2, <2>1, <2>2, <2>4
<1>5. /\ lost \in {0, 1} /\ len + 1 - lost \in 1 .. len + 1
      /\ len + 1 - (len + 1 - lost) = lost
  BY <1>0, <1>1, <1>2
<1>6. \A i \in 1 .. len + 1 - lost : recorded[i] = longer[i + lost]
  BY ONLY <1>4, <1>5
<1>7. recorded[len + 1 - lost] = at
  <2>1. len + 1 - lost \in 1 .. len + 1 - lost /\ len + 1 - lost + lost = len + 1
    BY ONLY <1>1, <1>5
  <2>2. QED
    BY ONLY <1>1, <1>4, <1>6, <2>1
<1>8. ASSUME NEW i \in 1 .. len - lost PROVE recorded[i] = switches[i + lost]
  <2>1. i \in 1 .. len + 1 - lost /\ i + lost \in 1 .. len
    BY <1>1, <1>4, <1>5
  <2>2. QED
    BY ONLY <1>1, <1>6, <2>1
<1>9. QED
  BY <1>4, <1>7, <1>8 DEF len, lost, recorded

\* The switches of the window are the newest ones.
LEMMA RecentAreNewest ==
  ASSUME NEW switches \in Seq(Nat), NEW now \in Int, NEW window \in Int,
         \A i, j \in DOMAIN switches : i <= j => switches[i] <= switches[j]
  PROVE  LET count == SwitchesInWindow(switches, now, window)
         IN  /\ count \in 0 .. Len(switches)
             /\ \A i \in DOMAIN switches :
                  switches[i] >= now - window <=> i > Len(switches) - count
<1> DEFINE len == Len(switches)
           recent == {i \in DOMAIN switches : switches[i] >= now - window}
<1>1. /\ DOMAIN switches = 1 .. len /\ len \in Nat
      /\ \A i \in 1 .. len : switches[i] \in Nat
  OBVIOUS
<1>2. SwitchesInWindow(switches, now, window) = Cardinality(recent)
  BY DEF SwitchesInWindow
<1>3. CASE recent = {}
  <2>1. Cardinality(recent) = 0
    BY <1>3, FS_EmptySet
  <2>2. \A i \in DOMAIN switches : ~(switches[i] >= now - window)
    BY <1>3
  <2>3. \A i \in 1 .. len : ~(i > len - 0) /\ 0 \in 0 .. len
    BY <1>1
  <2> HIDE DEF recent, len
  <2>4. QED
    BY <1>1, <1>2, <2>1, <2>2, <2>3 DEF len
<1>4. CASE recent # {}
  <2>1. recent \in SUBSET Nat
    BY <1>1
  <2>2. PICK m \in recent : \A i \in recent : m <= i
    BY <1>4, <2>1, LeastRank
  <2>3. m \in 1 .. len /\ switches[m] >= now - window
    BY <1>1, <2>2
  <2>4. ASSUME NEW i \in 1 .. len
        PROVE  switches[i] >= now - window <=> i >= m
    <3>1. CASE i >= m
      <4>1. switches[m] <= switches[i]
        BY <1>1, <2>3, <3>1
      <4>2. QED
        BY <1>1, <2>3, <3>1, <4>1
    <3>2. CASE ~(i >= m)
      BY <1>1, <2>2, <2>3, <3>2
    <3>3. QED
      BY <3>1, <3>2
  <2>5. recent = m .. len
    BY <1>1, <2>3, <2>4
  <2>6. Cardinality(recent) = len - m + 1
    <3>1. m \in Int /\ len \in Int /\ ~(m > len)
      BY <1>1, <2>3
    <3>2. Cardinality(m .. len) = IF m > len THEN 0 ELSE len - m + 1
      BY <3>1, FS_Interval
    <3> HIDE DEF recent, len
    <3>3. QED
      BY <2>5, <3>1, <3>2
  <2> HIDE DEF recent
  <2>7. /\ len - m + 1 \in 0 .. len
        /\ \A i \in 1 .. len : i >= m <=> i > len - (len - m + 1)
    BY <1>1, <2>3
  <2>8. QED
    BY <1>1, <1>2, <2>4, <2>6, <2>7
<1>5. QED
  BY <1>3, <1>4

\* The doubled windows grow with the number of doublings.
LEMMA PowersGrow ==
  ASSUME NEW j \in 0 .. 16, NEW k \in 0 .. 16, j <= k
  PROVE  2 ^ j <= 2 ^ k
<1>1. ASSUME NEW i \in 0 .. 15 PROVE 2 ^ i <= 2 ^ (i + 1)
  <2>0. CASE i = 0  BY <2>0
  <2>1. CASE i = 1  BY <2>1
  <2>2. CASE i = 2  BY <2>2
  <2>3. CASE i = 3  BY <2>3
  <2>4. CASE i = 4  BY <2>4
  <2>5. CASE i = 5  BY <2>5
  <2>6. CASE i = 6  BY <2>6
  <2>7. CASE i = 7  BY <2>7
  <2>8. CASE i = 8  BY <2>8
  <2>9. CASE i = 9  BY <2>9
  <2>10. CASE i = 10  BY <2>10
  <2>11. CASE i = 11  BY <2>11
  <2>12. CASE i = 12  BY <2>12
  <2>13. CASE i = 13  BY <2>13
  <2>14. CASE i = 14  BY <2>14
  <2>15. CASE i = 15  BY <2>15
  <2>16. QED
    BY <2>0, <2>1, <2>2, <2>3, <2>4, <2>5, <2>6, <2>7, <2>8,
       <2>9, <2>10, <2>11, <2>12, <2>13, <2>14, <2>15
<1> DEFINE shrunk == {n \in 0 .. 16 : j <= n /\ ~(2 ^ j <= 2 ^ n)}
<1>2. shrunk = {}
  <2> SUFFICES ASSUME shrunk # {} PROVE FALSE
    OBVIOUS
  <2>1. shrunk \in SUBSET Nat
    OBVIOUS
  <2>2. PICK n \in shrunk : \A m \in shrunk : n <= m
    BY <2>1, LeastRank
  <2>3. n \in 0 .. 16 /\ j <= n /\ ~(2 ^ j <= 2 ^ n)
    OBVIOUS
  <2>4. 2 ^ n \in Nat /\ 2 ^ j \in Nat
    BY <2>3, PowersOfTwo
  <2>5. n # j
    BY <2>3, <2>4
  <2>6. n - 1 \in 0 .. 15 /\ n - 1 + 1 = n /\ j <= n - 1 /\ n - 1 < n
    BY <2>3, <2>5
  <2>7. n - 1 \notin shrunk
    BY <2>2, <2>3, <2>6
  <2>8. 2 ^ j <= 2 ^ (n - 1) /\ 2 ^ (n - 1) \in Nat
    <3>1. n - 1 \in 0 .. 16
      BY <2>6
    <3>2. 2 ^ j <= 2 ^ (n - 1)
      BY <2>6, <2>7, <3>1
    <3>3. QED
      BY <3>1, <3>2, PowersOfTwo
  <2>9. 2 ^ (n - 1) <= 2 ^ n
    BY <1>1, <2>6
  <2>10. QED
    BY <2>3, <2>4, <2>8, <2>9
<1>3. QED
  BY <1>2

\* More recent switches never shorten the failback window.
LEMMA EffectiveFailbackGrows ==
  ASSUME NEW few \in Nat, NEW many \in Nat, few <= many, NEW threshold \in Nat,
         NEW base \in Nat, NEW max \in Nat, base <= max
  PROVE  EffectiveFailback(few, base, threshold, max)
           <= EffectiveFailback(many, base, threshold, max)
<1>1. CASE few <= threshold
  <2>1. EffectiveFailback(few, base, threshold, max) = base
    BY <1>1 DEF EffectiveFailback, Smaller
  <2>2. QED
    BY <2>1, EffectiveFailbackBounds
<1>2. CASE few > threshold
  <2> DEFINE j == Smaller(few - threshold, 16)
             k == Smaller(many - threshold, 16)
             slow == 2 ^ j
             fast == 2 ^ k
  <2>1. j \in 0 .. 16 /\ k \in 0 .. 16 /\ j <= k
    BY <1>2 DEF Smaller
  <2>2. slow \in Nat /\ fast \in Nat /\ slow <= fast
    BY <2>1, PowersOfTwo, PowersGrow
  <2>3. /\ EffectiveFailback(few, base, threshold, max) = Smaller(base * slow, max)
        /\ EffectiveFailback(many, base, threshold, max) = Smaller(base * fast, max)
    BY <1>2 DEF EffectiveFailback
  <2> HIDE DEF slow, fast
  <2>4. base * slow <= base * fast /\ base * slow \in Nat /\ base * fast \in Nat
    BY <2>2
  <2>5. QED
    BY <2>3, <2>4 DEF Smaller
<1>3. QED
  BY <1>1, <1>2
=============================================================================

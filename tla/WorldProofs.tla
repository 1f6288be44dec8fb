---------------------------- MODULE WorldProofs ----------------------------
(***************************************************************************)
(* Whole-world runs, for every roster, rule value, schedule and choice of  *)
(* players: how a run scores, and that what the policy decides on can be   *)
(* paid, a batch at a time, whatever the other players send meanwhile.     *)
(***************************************************************************)
EXTENDS World, MarketProofs

\* The failures noted beside the economy are those in it.
FailuresNoted ==
    failedAt = [s \in {p \in Station : stations[p].failedOnce} |->
                  stations[s].firstFailureTick]

\* Every station keeps the record of its failure.
HasRecords ==
    \A s \in Station : {"failedOnce", "firstFailureTick"} \subseteq DOMAIN stations[s]

\* A step in which nobody fails keeps what has been noted.
LEMMA NobodyFails ==
    ASSUME FailuresNoted, HasRecords, failedAt' = failedAt,
           \A s \in Station :
              /\ {"failedOnce", "firstFailureTick"} \subseteq DOMAIN stations'[s]
              /\ stations'[s].failedOnce = stations[s].failedOnce
              /\ stations'[s].firstFailureTick = stations[s].firstFailureTick
    PROVE  FailuresNoted' /\ HasRecords'
<1>1. {p \in Station : stations'[p].failedOnce} = {p \in Station : stations[p].failedOnce}
  OBVIOUS
<1>2. FailuresNoted'
  BY <1>1 DEF FailuresNoted
<1> QED
  BY <1>2 DEF HasRecords

\* Goods change hands; failures are not touched.
LEMMA SwapKeeps ==
    ASSUME NEW st, {"failedOnce", "firstFailureTick"} \subseteq DOMAIN st,
           NEW out, NEW in
    PROVE  LET z == Swap(st, out, in)
           IN /\ {"failedOnce", "firstFailureTick"} \subseteq DOMAIN z
              /\ z.failedOnce = st.failedOnce
              /\ z.firstFailureTick = st.firstFailureTick
BY DEF Swap

LEMMA ExecuteKeeps ==
    ASSUME FailuresNoted, HasRecords, failedAt' = failedAt, NEW s, NEW cmd,
           Execute(s, cmd)
    PROVE  FailuresNoted' /\ HasRecords'
<1>1. CASE stations' = stations
  BY <1>1, NobodyFails DEF HasRecords
<1>2. CASE \E i : Settle(i)
  <2>1. PICK i : Settle(i)
    BY <1>2
  <2>2. \A p \in Station : \/ stations'[p] = stations[p]
                           \/ \E out, in : stations'[p] = Swap(stations[p], out, in)
    BY <2>1 DEF Settle
  <2> QED
    BY <2>2, SwapKeeps, NobodyFails DEF HasRecords
<1>3. stations' = stations \/ \E i : Settle(i)
  BY DEF Execute, Advertise, PostOffer, Accept, Withdraw
<1> QED
  BY <1>1, <1>2, <1>3

\* Those who fail in this tick are noted with it.
LEMMA AdvanceNotes ==
    ASSUME FailuresNoted, HasRecords, NEW production, Advance(production),
           failedAt' = Noted(tick')
    PROVE  FailuresNoted' /\ HasRecords'
<1> DEFINE Out(s) == SaturatingSub(Upkeep[s], Add(stations[s].inventory,
                                    Single(Specialty[s], production[s])))
           Failed == {p \in Station : stations[p].failedOnce}
           Next0 == {p \in Station : stations'[p].failedOnce}
           new == {s \in Station \ DOMAIN failedAt : stations'[s].failedOnce}
<1>1. tick' = tick + 1 /\ stations' = [s \in Station |->
                           SettleTick(stations[s], s, production[s], tick + 1)]
  BY DEF Advance
<1>2. ASSUME NEW s \in Station
      PROVE  /\ {"failedOnce", "firstFailureTick"} \subseteq DOMAIN stations'[s]
             /\ stations'[s].failedOnce = (stations[s].failedOnce \/ Fails(stations[s], Out(s)))
             /\ stations'[s].firstFailureTick =
                    IF Fails(stations[s], Out(s)) THEN tick' ELSE stations[s].firstFailureTick
  BY <1>1 DEF SettleTick, FailedAfter
<1>3. \A s \in Station : Fails(stations[s], Out(s)) => ~stations[s].failedOnce
  BY DEF Fails
<1> HIDE DEF Out
<1>4. DOMAIN failedAt = Failed /\ \A s \in Failed : failedAt[s] = stations[s].firstFailureTick
  BY DEF FailuresNoted
<1>5. Next0 = DOMAIN failedAt \cup new
  BY <1>2, <1>4
<1>6. \A s \in Next0 : stations'[s].firstFailureTick =
                           IF s \in new THEN tick' ELSE failedAt[s]
  BY <1>2, <1>3, <1>4
<1>7. failedAt' = [s \in DOMAIN failedAt \cup new |->
                     IF s \in new THEN tick' ELSE failedAt[s]]
  BY DEF Noted
<1>8. failedAt' = [s \in Next0 |-> stations'[s].firstFailureTick]
  BY <1>5, <1>6, <1>7
<1>9. FailuresNoted'
  BY <1>8 DEF FailuresNoted
<1> QED
  BY <1>2, <1>9 DEF HasRecords

LEMMA WorldNotes ==
    ASSUME FailuresNoted, HasRecords, [WorldNext]_worldVars
    PROVE  FailuresNoted' /\ HasRecords'
<1>1. CASE \E s \in Station : TraderDecides(s) \/ StandInDecides(s) \/ HandsOver(s)
  <2>1. stations' = stations /\ failedAt' = failedAt
    BY <1>1 DEF TraderDecides, StandInDecides, HandsOver, Carries, vars
  <2> QED
    BY <2>1, NobodyFails DEF HasRecords
<1>2. ASSUME NEW s \in Station, Apply(s)
      PROVE  FailuresNoted' /\ HasRecords'
  <2>1. Execute(s, Head(batch)) \/ UNCHANGED vars
    BY <1>2 DEF Apply
  <2>2. failedAt' = failedAt
    BY <1>2 DEF Apply
  <2>3. CASE UNCHANGED vars
    BY <2>2, <2>3, NobodyFails DEF HasRecords, vars
  <2> QED
    BY <2>1, <2>2, <2>3, ExecuteKeeps
<1>3. CASE AdvanceTick
  <2>1. /\ Advance([s \in Station |-> Production(tick, s)])
        /\ failedAt' = Noted(tick')
    BY <1>3 DEF AdvanceTick
  <2> QED
    BY <2>1, AdvanceNotes
<1>4. CASE UNCHANGED worldVars
  <2>1. stations' = stations /\ failedAt' = failedAt
    BY <1>4 DEF worldVars, vars
  <2> QED
    BY <2>1, NobodyFails DEF HasRecords
<1> QED
  BY <1>1, <1>2, <1>3, <1>4 DEF WorldNext

\* A run is scored the same from the failures it noted tick by tick and from
\* the finished economy (run_world, score_economy), whatever the players did.
THEOREM BothScoresAgree == WorldSpec => []ScoresAgree
<1>1. WorldInit => FailuresNoted /\ HasRecords
  <2> SUFFICES ASSUME WorldInit
               PROVE  FailuresNoted /\ HasRecords
    OBVIOUS
  <2>1. failedAt = [s \in {} |-> 0]
    BY DEF WorldInit
  <2>2. \A s \in Station : stations[s].failedOnce = FALSE
    BY DEF WorldInit, NewStation
  <2>3. HasRecords
    BY DEF WorldInit, NewStation, HasRecords
  <2>4. {p \in Station : stations[p].failedOnce} = {}
    BY <2>2
  <2> QED
    BY <2>1, <2>3, <2>4 DEF FailuresNoted
<1>2. FailuresNoted /\ HasRecords /\ [WorldNext]_worldVars => (FailuresNoted /\ HasRecords)'
  BY WorldNotes
<1>3. FailuresNoted => ScoresAgree
  <2> SUFFICES ASSUME FailuresNoted
               PROVE  OutcomeScore = EconomyScore
    BY DEF ScoresAgree
  <2> DEFINE failed == {s \in Station : stations[s].failedOnce}
             alive == [s \in Station |-> IF s \in failed THEN stations[s].firstFailureTick
                                         ELSE DurationTicks]
  <2>1. DOMAIN failedAt = failed
    BY DEF FailuresNoted
  <2>2. [s \in Station |-> AliveTicks(s)] = alive
    <3>1. \A s \in failed : failedAt[s] = stations[s].firstFailureTick
      BY DEF FailuresNoted
    <3> HIDE DEF failed
    <3> QED
      BY <2>1, <3>1 DEF AliveTicks
  <2>3. EconomyScore = [success |-> failed = {}, survivors |-> Cardinality(Station \ failed),
                        alive |-> SumFunction(alive), shortage |-> SumFunction(Shortages)]
    BY DEF EconomyScore
  <2> HIDE DEF failed, alive
  <2> QED
    BY <2>1, <2>2, <2>3 DEF OutcomeScore
<1> QED
  BY <1>1, <1>2, <1>3, PTL DEF WorldSpec

-----------------------------------------------------------------------------
(* What the policy observes *)

\* Identifiers in the order the engine gave them out: all of them, and nothing else.
LEMMA OrderedIds ==
    ASSUME NEW ids \in SUBSET Nat, IsFiniteSet(ids)
    PROVE  Ordered(ids) \in Seq(ids) /\ Range(Ordered(ids)) = ids
<1> DEFINE n == Cardinality(ids)
           upTo(i) == {j \in ids : j <= i}
           place == [i \in ids |-> Cardinality(upTo(i)) - 1]
<1>1. n \in Nat
  BY FS_CardinalityType
<1>2. ASSUME NEW i \in ids
      PROVE  IsFiniteSet(upTo(i)) /\ Cardinality(upTo(i)) \in 1..n
  <2>1. IsFiniteSet(upTo(i)) /\ Cardinality(upTo(i)) <= n
    BY FS_Subset
  <2>2. i \in upTo(i)
    OBVIOUS
  <2>3. Cardinality(upTo(i)) \in Nat /\ Cardinality(upTo(i)) # 0
    BY <2>1, <2>2, FS_CardinalityType, FS_EmptySet
  <2> QED
    BY <1>1, <2>1, <2>3
<1>3. ASSUME NEW i \in ids, NEW j \in ids, i < j
      PROVE  Cardinality(upTo(i)) # Cardinality(upTo(j))
  <2>1. i \in Nat /\ j \in Nat /\ \A k \in ids : k \in Nat
    OBVIOUS
  <2>2. \A k \in ids : k <= i => k <= j
    BY <1>3, <2>1
  <2>3. upTo(i) \subseteq upTo(j)
    BY <2>2
  <2>4. j \in upTo(j) /\ j \notin upTo(i)
    BY <1>3, <2>1
  <2> QED
    BY <1>2, <2>3, <2>4, FS_Subset
<1>4. \A i, j \in ids : Cardinality(upTo(i)) = Cardinality(upTo(j)) => i = j
  <2> SUFFICES ASSUME NEW i \in ids, NEW j \in ids, i # j
               PROVE  Cardinality(upTo(i)) # Cardinality(upTo(j))
    OBVIOUS
  <2>1. i < j \/ j < i
    OBVIOUS
  <2> QED
    BY <1>3, <2>1
<1> HIDE DEF upTo
<1>5. \A k \in 0..(n - 1) : \E i \in ids : place[i] = k
  <2>1. place \in [ids -> 0..(n - 1)]
    BY <1>1, <1>2
  <2>2. \A i, j \in ids : place[i] = place[j] => i = j
    BY <1>1, <1>2, <1>4
  <2> HIDE DEF place
  <2> QED
    BY <2>1, <2>2, PlacesAreTaken
<1>6. ASSUME NEW k \in 1..n
      PROVE  \E i \in ids : Cardinality(upTo(i)) = k
  <2>1. k - 1 \in 0..(n - 1)
    BY <1>1
  <2>2. PICK i \in ids : place[i] = k - 1
    BY <1>5, <2>1
  <2> QED
    BY <1>2, <2>2
<1>7. Ordered(ids) = [k \in 1..n |-> CHOOSE i \in ids : Cardinality(upTo(i)) = k]
  BY DEF Ordered, upTo
<1>8. ASSUME NEW k \in 1..n
      PROVE  Ordered(ids)[k] \in ids /\ Cardinality(upTo(Ordered(ids)[k])) = k
  BY <1>6, <1>7
<1>9. Ordered(ids) \in Seq(ids)
  BY <1>1, <1>7, <1>8
<1>10. \A i \in ids : \E k \in 1..n : Ordered(ids)[k] = i
  BY <1>2, <1>4, <1>8
<1>11. DOMAIN Ordered(ids) = 1..n
  BY <1>7
<1>12. Range(Ordered(ids)) = {Ordered(ids)[k] : k \in DOMAIN Ordered(ids)}
  BY DEF Range
<1> QED
  BY <1>8, <1>9, <1>10, <1>11, <1>12

\* An observation that shows stocks, offers and deals as they can be.
View(o) ==
    /\ o.tick \in Nat /\ o.specialty \in Resource
    /\ o.upkeep \in Bundle /\ o.inventory \in Bundle
    /\ o.incoming \in Seq(DOMAIN o.offers) /\ o.outgoing \in Seq(DOMAIN o.offers)
    /\ \A i \in DOMAIN o.offers : /\ o.offers[i].give \in Bundle
                                  /\ o.offers[i].receive \in Bundle
                                  /\ o.offers[i].created \in Nat
    /\ DOMAIN o.transactions \in SUBSET Nat /\ IsFiniteSet(DOMAIN o.transactions)
    /\ \A t \in DOMAIN o.transactions : o.transactions[t].settled \in Nat

LEMMA ObservedIsView ==
    ASSUME TypeOK, OfferInv, NEW s \in Station
    PROVE  /\ View(Observed(s))
           /\ Observed(s).tick = tick /\ Observed(s).station = s
           /\ Observed(s).inventory = stations[s].inventory
           /\ DOMAIN Observed(s).offers \subseteq DOMAIN offers
           /\ \A i \in DOMAIN Observed(s).offers : Observed(s).offers[i] = offers[i]
           /\ Range(Observed(s).outgoing) = OpenOutgoing(s)
<1> DEFINE produced == IF tick = 0 THEN 0 ELSE Production(tick - 1, s)
           mine == {i \in DOMAIN offers : s \in Parties(offers[i])}
           open == {i \in mine : /\ offers[i].status = "OPEN"
                                 /\ ~IsExpiredAt(offers[i], tick)}
           in == {i \in open : offers[i].recipient = s}
           out == {i \in open : offers[i].proposer = s}
           deals == {t \in DOMAIN transactions : s \in Parties(transactions[t])}
           o == Observed(s)
<1> HIDE DEF produced
<1>1. /\ nextId \in Nat /\ tick \in Nat
      /\ DOMAIN offers \subseteq 1..(nextId - 1)
      /\ DOMAIN transactions \subseteq 1..(nextId - 1)
  BY RulesAssumption DEF TypeOK, Id
<1>2. /\ IsFiniteSet(DOMAIN offers) /\ DOMAIN offers \subseteq Nat
      /\ IsFiniteSet(DOMAIN transactions) /\ DOMAIN transactions \subseteq Nat
  <2>1. IsFiniteSet(1..(nextId - 1)) /\ 1..(nextId - 1) \subseteq Nat
    BY <1>1, FS_Interval
  <2> QED
    BY <1>1, <2>1, FS_Subset
<1>3. o = [station |-> s, tick |-> tick, specialty |-> Specialty[s],
           upkeep |-> Upkeep[s], inventory |-> stations[s].inventory,
           health |-> stations[s].health, failed |-> stations[s].failedOnce,
           produced |-> produced, offers |-> Only(offers, mine),
           incoming |-> Ordered(in), outgoing |-> Ordered(out),
           ads |-> advertisements, transactions |-> Only(transactions, deals)]
  BY DEF Observed, Observation, produced
<1>4. /\ in \subseteq mine /\ out \subseteq mine /\ mine \subseteq DOMAIN offers
      /\ deals \subseteq DOMAIN transactions
  OBVIOUS
<1>5. out = OpenOutgoing(s)
  <2>1. \A i \in DOMAIN offers : offers[i].expires \in Nat
    BY DEF TypeOK, OfferRecord
  <2>2. \A i \in DOMAIN offers : offers[i].status = "OPEN" => tick < offers[i].expires
    BY DEF OfferInv
  <2>3. \A i \in DOMAIN offers : offers[i].status = "OPEN" => ~IsExpiredAt(offers[i], tick)
    BY <1>1, <2>1, <2>2 DEF IsExpiredAt
  <2>4. \A i : i \in out <=> i \in OpenOutgoing(s)
    BY <2>3 DEF OpenOutgoing, OpenIds, Parties
  <2> QED
    BY <2>4
<1> HIDE DEF o, mine, open, in, out, deals
<1>6. DOMAIN o.offers = mine /\ \A i \in mine : o.offers[i] = offers[i]
  BY <1>3, <1>4 DEF Only
<1>7. DOMAIN o.transactions = deals /\ \A t \in deals : o.transactions[t] = transactions[t]
  BY <1>3, <1>4 DEF Only
<1>8. IsFiniteSet(in) /\ IsFiniteSet(out) /\ IsFiniteSet(deals) /\ deals \subseteq Nat
      /\ in \subseteq Nat /\ out \subseteq Nat
  BY <1>2, <1>4, FS_Subset
<1>9. /\ Ordered(in) \in Seq(in) /\ Ordered(out) \in Seq(out)
      /\ Range(Ordered(out)) = out
  BY <1>8, OrderedIds
<1>10. Ordered(in) \in Seq(mine) /\ Ordered(out) \in Seq(mine)
  BY <1>4, <1>9
<1>11. /\ stations[s].inventory \in Bundle
       /\ Specialty[s] \in Resource /\ Upkeep[s] \in Bundle
  BY RosterAssumption DEF TypeOK, StationRecord
<1>12. \A i \in mine : /\ offers[i].give \in Bundle /\ offers[i].receive \in Bundle
                       /\ offers[i].created \in Nat
  BY <1>4 DEF TypeOK, OfferRecord
<1>13. \A t \in deals : transactions[t].settled \in Nat
  BY <1>4 DEF TypeOK, TransactionRecord
<1>14. View(o)
  BY <1>1, <1>3, <1>6, <1>7, <1>8, <1>10, <1>11, <1>12, <1>13 DEF View
<1>15. /\ o.tick = tick /\ o.station = s /\ o.inventory = stations[s].inventory
       /\ o.outgoing = Ordered(out)
  BY <1>3
<1> QED
  BY <1>4, <1>5, <1>6, <1>9, <1>14, <1>15 DEF o

\* What a station's open offers promise of a resource, and what they leave.
Gives(r) == [i \in DOMAIN offers |-> offers[i].give[r]]

LEMMA OpenIsSummable ==
    ASSUME TypeOK, NEW s \in Station, NEW r \in Resource
    PROVE  /\ Summable(Gives(r), OpenOutgoing(s))
           /\ OpenOutgoing(s) \subseteq DOMAIN offers
           /\ Free(s)[r] = stations[s].inventory[r]
                             - SumFunctionOnSet(Gives(r), OpenOutgoing(s))
           /\ Free(s)[r] \in Int /\ stations[s].inventory \in Bundle
           /\ SumFunctionOnSet(Gives(r), OpenOutgoing(s)) \in Nat
<1>1. nextId \in Nat /\ DOMAIN offers \subseteq 1..(nextId - 1)
  BY DEF TypeOK, Id
<1>2. IsFiniteSet(DOMAIN offers)
  <2>1. IsFiniteSet(1..(nextId - 1))
    BY <1>1, FS_Interval
  <2> QED
    BY <1>1, <2>1, FS_Subset
<1>3. OpenOutgoing(s) \subseteq DOMAIN offers
  BY DEF OpenOutgoing, OpenIds
<1>4. \A i \in DOMAIN offers : offers[i].give[r] \in Nat
  BY DEF TypeOK, OfferRecord, Bundle
<1>5. Summable(Gives(r), OpenOutgoing(s))
  BY <1>2, <1>3, <1>4, FS_Subset DEF Summable, Gives
<1>6. SumFunctionOnSet(Gives(r), OpenOutgoing(s)) \in Nat
  BY <1>5, SumTakesOut
<1>7. stations[s].inventory \in Bundle
  BY DEF TypeOK, StationRecord
<1>8. stations[s].inventory[r] \in Nat
  BY <1>7 DEF Bundle
<1>9. Free(s)[r] = stations[s].inventory[r]
                     - SumFunctionOnSet(Gives(r), OpenOutgoing(s))
  BY DEF Free, Gives
<1> QED
  BY <1>3, <1>5, <1>6, <1>7, <1>8, <1>9

\* What the policy takes to be available is what is free, and nothing where more is
\* promised than there is.
LEMMA AvailableIsFree ==
    ASSUME TypeOK, OfferInv, NEW s \in Station
    PROVE  LET o == Observed(s)
               available == SaturatingSub(o.inventory, Promised(o))
           IN /\ available \in Bundle
              /\ \A r \in Resource :
                    available[r] = IF Free(s)[r] > 0 THEN Free(s)[r] ELSE 0
<1> DEFINE o == Observed(s)
           Seen(r) == [i \in DOMAIN o.offers |-> o.offers[i].give[r]]
           Sum(r) == SumFunctionOnSet(Gives(r), OpenOutgoing(s))
<1>1. /\ View(o) /\ o.inventory = stations[s].inventory
      /\ DOMAIN o.offers \subseteq DOMAIN offers
      /\ \A i \in DOMAIN o.offers : o.offers[i] = offers[i]
      /\ Range(o.outgoing) = OpenOutgoing(s)
  BY ObservedIsView
<1>2. Range(o.outgoing) \subseteq DOMAIN o.offers
  BY <1>1 DEF View, Range
<1> HIDE DEF o
<1>3. ASSUME NEW r \in Resource
      PROVE  Promised(o)[r] = Sum(r) /\ Sum(r) \in Nat
  <2>1. Promised(o)[r] = SumFunctionOnSet(Seen(r), Range(o.outgoing))
    BY DEF Promised, Bundled
  <2>2. Agree(Seen(r), Gives(r), OpenOutgoing(s)) /\ IsFiniteSet(OpenOutgoing(s))
    BY <1>1, <1>2, OpenIsSummable DEF Agree, Gives, Summable
  <2> HIDE DEF Seen
  <2>3. SumFunctionOnSet(Seen(r), OpenOutgoing(s)) = Sum(r)
    BY <2>2, SumsAgree
  <2> QED
    BY <1>1, <2>1, <2>3, OpenIsSummable
<1>4. \A r \in Resource : Free(s)[r] = o.inventory[r] - Sum(r)
  BY <1>1, OpenIsSummable
<1> HIDE DEF Sum
<1>5. o.inventory \in Bundle
  BY <1>1, OpenIsSummable DEF View
<1> DEFINE available == SaturatingSub(o.inventory, Promised(o))
<1>6. ASSUME NEW r \in Resource
      PROVE  /\ available[r] \in Nat
             /\ available[r] = IF Free(s)[r] > 0 THEN Free(s)[r] ELSE 0
  <2>1. o.inventory[r] \in Nat
    BY <1>5 DEF Bundle
  <2> QED
    BY <1>3, <1>4, <2>1 DEF SaturatingSub
<1>7. available = [r \in Resource |-> available[r]]
  BY DEF SaturatingSub
<1> HIDE DEF available
<1>8. available \in Bundle
  BY <1>6, <1>7 DEF Bundle
<1> QED
  BY <1>6, <1>8 DEF available, o

-----------------------------------------------------------------------------
(* The reserve *)

\* Of integers at some places of a sequence, one is the least.
LEMMA LeastValue ==
    ASSUME NEW n \in Nat, NEW P \in SUBSET (1..n), NEW f, P # {},
           \A p \in P : f[p] \in Int
    PROVE  \E p \in P : \A q \in P : f[p] <= f[q]
<1> DEFINE Some(k) == \E p \in P : p <= k
           Least(k) == \E x \in P : x <= k /\ \A q \in P : q <= k => f[x] <= f[q]
           Bad == {k \in 0..n : Some(k) /\ ~Least(k)}
<1>0. \A p \in P : p \in 1..n /\ p \in Nat
  OBVIOUS
<1>1. Bad = {}
  <2> SUFFICES ASSUME Bad # {}
               PROVE  FALSE
    OBVIOUS
  <2> HIDE DEF Some, Least
  <2>1. Bad \in SUBSET Nat
    OBVIOUS
  <2>2. PICK k \in Bad : \A j \in Bad : k <= j
    BY <2>1, LeastNumber
  <2>3. k \in 1..n /\ k - 1 \in 0..n /\ (Some(k - 1) => Least(k - 1))
    <3>1. k \in 0..n /\ Some(k)
      BY <2>2
    <3>2. k \in 1..n /\ k - 1 \in 0..n
      BY <1>0, <3>1 DEF Some
    <3>3. k - 1 \notin Bad
      BY <2>2, <3>2
    <3> QED
      BY <3>2, <3>3
  <2> USE DEF Some, Least
  <2>4. CASE k \notin P
    <3>1. \A q \in P : q <= k <=> q <= k - 1
      <4> SUFFICES ASSUME NEW q \in P
                   PROVE  q <= k <=> q <= k - 1
        OBVIOUS
      <4>1. q # k /\ q \in Nat /\ k \in Nat
        BY <1>0, <2>3, <2>4
      <4> QED
        BY <4>1
    <3>2. Some(k) => Some(k - 1)
      BY <3>1
    <3>3. Least(k - 1) => Least(k)
      BY <3>1
    <3> HIDE DEF Some, Least
    <3> QED
      BY <2>2, <2>3, <3>2, <3>3
  <2>5. CASE k \in P /\ \A p \in P : ~(p <= k - 1)
    <3>1. \A q \in P : q <= k => q = k
      BY <2>3, <2>5
    <3> QED
      BY <2>2, <2>3, <2>5, <3>1
  <2>6. CASE k \in P /\ \E p \in P : p <= k - 1
    <3>1. PICK x \in P : x <= k - 1 /\ \A q \in P : q <= k - 1 => f[x] <= f[q]
      BY <2>3, <2>6
    <3>2. \A q \in P : q <= k => q <= k - 1 \/ q = k
      BY <2>3
    <3>3. x <= k /\ k <= k
      BY <2>3, <3>1
    <3>4. CASE f[x] <= f[k]
      BY <2>2, <3>1, <3>2, <3>3, <3>4
    <3>5. CASE ~(f[x] <= f[k])
      <4>1. \A q \in P : q <= k => f[k] <= f[q]
        BY <2>6, <3>1, <3>2, <3>5
      <4> QED
        BY <2>2, <2>6, <3>3, <4>1
    <3> QED
      BY <3>4, <3>5
  <2> QED
    BY <2>4, <2>5, <2>6
<1> HIDE DEF Some, Least
<1>2. Some(n) => Least(n)
  BY <1>1
<1>3. \A p \in P : p <= n
  BY <1>0
<1> QED
  BY <1>2, <1>3 DEF Some, Least

\* The k-th smallest of some samples is one of them.
LEMMA SmallestIsSample ==
    ASSUME NEW samples \in Seq(Int), NEW k \in 1..Len(samples)
    PROVE  Smallest(samples, k) \in Int
<1> DEFINE n == Len(samples)
           upTo(x) == {i \in DOMAIN samples : samples[i] <= x}
           S == {x \in Range(samples) : Cardinality(upTo(x)) >= k}
           minus == [i \in 1..n |-> -samples[i]]
           P == {j \in 1..n : samples[j] \in S}
<1>1. n \in Nat /\ k \in 1..n /\ DOMAIN samples = 1..n /\ \A i \in 1..n : samples[i] \in Int
  OBVIOUS
<1>2. Range(samples) = {samples[i] : i \in 1..n}
  BY <1>1 DEF Range
<1>3. \E x \in Range(samples) : \A i \in 1..n : samples[i] <= x
  <2>1. 1..n # {} /\ \A i \in 1..n : minus[i] \in Int
    BY <1>1
  <2> HIDE DEF minus, n
  <2>2. PICK p \in 1..n : \A q \in 1..n : minus[p] <= minus[q]
    BY <1>1, <2>1, LeastValue
  <2>3. \A q \in 1..n : samples[q] <= samples[p]
    BY <1>1, <2>2 DEF minus
  <2> QED
    BY <1>2, <2>3
<1>4. S # {}
  <2>1. PICK x \in Range(samples) : \A i \in 1..n : samples[i] <= x
    BY <1>3
  <2>2. upTo(x) = 1..n
    BY <1>1, <2>1
  <2>3. Cardinality(1..n) >= k
    <3> HIDE DEF n
    <3> QED
      BY <1>1, FS_Interval
  <2>4. Cardinality(upTo(x)) >= k
    <3> HIDE DEF n, upTo
    <3> QED
      BY <2>2, <2>3
  <2> QED
    BY <2>1, <2>4
<1> HIDE DEF upTo, minus
<1>5. S \subseteq Range(samples)
  OBVIOUS
<1>6. P \in SUBSET (1..n) /\ P # {} /\ \A p \in P : samples[p] \in Int /\ samples[p] \in S
  BY <1>1, <1>2, <1>4, <1>5
<1>7. \A x \in S : \E p \in P : x = samples[p]
  BY <1>2, <1>5
<1>8. Smallest(samples, k) = Min(S)
  BY DEF Smallest, upTo
<1> HIDE DEF n, S, P
<1>9. PICK p \in P : \A q \in P : samples[p] <= samples[q]
  BY <1>1, <1>6, LeastValue
<1>10. samples[p] \in S /\ \A x \in S : samples[p] <= x
  BY <1>6, <1>7, <1>9
<1>11. Min(S) \in S
  BY <1>10 DEF Min
<1> QED
  BY <1>6, <1>7, <1>8, <1>11

LEMMA MedianIsInteger ==
    ASSUME NEW m, m.roundTrips \in Seq(Int)
    PROVE  MedianRoundTrip(m) \in Int
<1> DEFINE n == Len(m.roundTrips)
           low == Smallest(m.roundTrips, (n + 1) \div 2)
           high == Smallest(m.roundTrips, n \div 2 + 1)
<1>1. n \in Nat
  OBVIOUS
<1>2. CASE n < 3
  BY <1>2 DEF MedianRoundTrip, NoValue
<1>3. CASE ~(n < 3)
  <2>1. (n + 1) \div 2 \in 1..n /\ n \div 2 + 1 \in 1..n
    <3> HIDE DEF n
    <3> QED
      BY <1>1, <1>3
  <2>2. low \in Int /\ high \in Int
    BY <2>1, SmallestIsSample
  <2>3. MedianRoundTrip(m) = RoundHalf(low + high)
    BY <1>3 DEF MedianRoundTrip
  <2> HIDE DEF low, high
  <2> DEFINE sum == low + high
  <2>4. sum \in Int /\ sum \div 2 \in Int
    BY <2>2
  <2> HIDE DEF sum
  <2>5. RoundHalf(sum) \in Int
    BY <2>4 DEF RoundHalf
  <2> QED
    BY <2>3, <2>5 DEF sum
<1> QED
  BY <1>2, <1>3

\* The base reserve is up to fifteen units.
LEMMA BaseIsBounded ==
    ASSUME NEW o, View(o), NEW m, m.roundTrips \in Seq(Int), NEW r \in Resource
    PROVE  BaseReserve(r, o, m) \in 0..15
<1>1. MedianRoundTrip(m) \in Int
  BY MedianIsInteger
<1>2. SafetyTicks(r, o, m) \in Nat
  <2> DEFINE poor == IF o.health < MaxHealth \div 2 THEN 2 ELSE 0
             dipped == IF r = o.specialty /\ ProductionDipped(o, m) THEN 1 ELSE 0
             median == MedianRoundTrip(m)
  <2>1. poor \in Nat /\ dipped \in Nat /\ median \in Int
    BY <1>1
  <2>2. SafetyTicks(r, o, m) = Min2(10, Max2(3, median + 1) + poor + dipped)
    BY DEF SafetyTicks, MaxSafetyTicks, MinSafetyTicks
  <2> HIDE DEF poor, dipped, median
  <2> QED
    BY <2>1, <2>2 DEF Min2, Max2
<1>3. o.upkeep[r] \in Nat
  BY DEF View, Bundle
<1> DEFINE ticks == SafetyTicks(r, o, m)
           upkeep == o.upkeep[r]
<1> HIDE DEF ticks, upkeep
<1>4. upkeep * ticks \in Nat
  BY <1>2, <1>3 DEF ticks, upkeep
<1>5. BaseReserve(r, o, m) = Min2(15, upkeep * ticks)
  BY DEF BaseReserve, MaxReserveUnits, ticks, upkeep
<1> QED
  BY <1>4, <1>5 DEF Min2

\* What the reserve needs of a memory.
MemoryOK(m) ==
    /\ "roundTrips" \in DOMAIN m /\ "stored" \in DOMAIN m
    /\ m.roundTrips \in Seq(Int) /\ m.stored \in Bundle

LEMMA LeastOfThree ==
    ASSUME NEW a \in Int, NEW b \in Int, NEW c \in Int
    PROVE  /\ Min({a, b, c}) \in {a, b, c}
           /\ Min({a, b, c}) <= a /\ Min({a, b, c}) <= b /\ Min({a, b, c}) <= c
<1> DEFINE S == {a, b, c}
<1>1. \E x \in S : \A y \in S : x <= y
  OBVIOUS
<1>2. Min(S) \in S /\ \A y \in S : Min(S) <= y
  BY <1>1 DEF Min
<1> QED
  BY <1>2

\* What is banked fits beside the base reserve, so the whole reserve is up to
\* fifteen units of each resource.
LEMMA ReserveIsBounded ==
    ASSUME NEW o, View(o), NEW m, MemoryOK(m), NEW available \in Bundle
    PROVE  LET kept == Stocked(o, m, available)
           IN /\ MemoryOK(kept) /\ Reserve(o, kept) \in Bundle
              /\ \A r \in Resource : Reserve(o, kept)[r] <= 15
<1> DEFINE stored == StoredReserve(o, m, available)
           kept == [m EXCEPT !.stored = stored]
           room(r) == 15 - BaseReserve(r, o, m)
           saved(r) == Min({m.stored[r], available[r], room(r)})
           excess(r) == Max2(0, available[r] - saved(r) - StorageThreshold)
<1>1. \A r \in Resource : BaseReserve(r, o, m) \in 0..15
  BY BaseIsBounded DEF MemoryOK
<1>2. \A r \in Resource : stored[r] = Min2(room(r), saved(r) + excess(r))
  BY DEF StoredReserve, Bundled, MaxReserveUnits
<1>3. stored = [r \in Resource |-> stored[r]]
  BY DEF StoredReserve, Bundled
<1> HIDE DEF stored
<1>4. ASSUME NEW r \in Resource
      PROVE  stored[r] \in Nat /\ stored[r] + BaseReserve(r, o, m) <= 15
  <2>1. m.stored[r] \in Nat /\ available[r] \in Nat /\ room(r) \in Nat
    <3>1. m.stored \in [Resource -> Nat] /\ available \in [Resource -> Nat]
      BY DEF MemoryOK, Bundle
    <3>2. m.stored[r] \in Nat /\ available[r] \in Nat
      BY <3>1
    <3>3. BaseReserve(r, o, m) \in 0..15
      BY <1>1
    <3> QED
      BY <3>2, <3>3
  <2>2. saved(r) \in Nat
    <3> DEFINE a == m.stored[r]
               b == available[r]
               c == room(r)
    <3>1. a \in Int /\ b \in Int /\ c \in Int /\ a \in Nat /\ b \in Nat /\ c \in Nat
      BY <2>1
    <3> HIDE DEF a, b, c
    <3>2. Min({a, b, c}) \in {a, b, c}
      BY <3>1, LeastOfThree
    <3>3. Min({a, b, c}) \in Nat
      BY <3>1, <3>2
    <3> QED
      BY <3>3 DEF a, b, c
  <2> HIDE DEF saved
  <2>3. excess(r) \in Nat
    BY <2>1, <2>2 DEF Max2, StorageThreshold
  <2> HIDE DEF excess
  <2>4. Min2(room(r), saved(r) + excess(r)) \in 0..room(r)
    BY <2>1, <2>2, <2>3 DEF Min2
  <2> QED
    BY <1>1, <1>2, <2>4
<1>5. stored \in Bundle
  BY <1>3, <1>4 DEF Bundle
<1>6. /\ DOMAIN kept = DOMAIN m
      /\ kept.stored = stored /\ kept.roundTrips = m.roundTrips
  BY DEF MemoryOK
<1>7. MemoryOK(kept)
  BY <1>5, <1>6 DEF MemoryOK
<1> HIDE DEF kept
<1>8. ASSUME NEW r \in Resource
      PROVE  Reserve(o, kept)[r] = BaseReserve(r, o, kept) + stored[r]
  BY <1>6 DEF Reserve, Bundled
<1>9. \A r \in Resource : BaseReserve(r, o, kept) = BaseReserve(r, o, m)
  <2>0. ProductionDipped(o, kept) = ProductionDipped(o, m)
    BY DEF kept, ProductionDipped, MemoryOK
  <2>1. MedianRoundTrip(kept) = MedianRoundTrip(m)
    BY <1>6 DEF MedianRoundTrip
  <2> QED
    BY <2>0, <2>1 DEF BaseReserve, SafetyTicks
<1>10. ASSUME NEW r \in Resource
       PROVE  Reserve(o, kept)[r] \in 0..15
  <2>1. BaseReserve(r, o, m) \in 0..15
    BY <1>1
  <2>2. Reserve(o, kept)[r] = BaseReserve(r, o, m) + stored[r]
    BY <1>8, <1>9
  <2> QED
    BY <1>4, <2>1, <2>2
<1>11. Reserve(o, kept) = [r \in Resource |-> Reserve(o, kept)[r]]
  BY DEF Reserve, Bundled
<1>12. Reserve(o, kept) \in Bundle
  BY <1>10, <1>11 DEF Bundle
<1> QED
  BY <1>7, <1>10, <1>12 DEF Stocked, kept, stored

\* Round trips, one after the other.
TripOp(o, b, c, d, acc, t) == RoundTrip(o, acc, t)
TripHolds(ctx, k, acc) == acc \in Seq(Int)

Trips == INSTANCE FoldProofs WITH Op <- TripOp, Holds <- TripHolds

LEMMA AppendedIsSeq ==
    ASSUME NEW samples \in Seq(Int), NEW v \in Int
    PROVE  Appended(samples, v) \in Seq(Int)
<1> DEFINE all == Append(samples, v)
<1>1. all \in Seq(Int) /\ Len(all) = Len(samples) + 1 /\ Len(samples) \in Nat
  OBVIOUS
<1> HIDE DEF all
<1>2. Tail(all) \in Seq(Int)
  BY <1>1
<1>3. Appended(samples, v) = IF Len(all) > Samples THEN Tail(all) ELSE all
  BY DEF Appended, all
<1> QED
  BY <1>1, <1>2, <1>3

LEMMA ObserveKeeps ==
    ASSUME NEW o, View(o), NEW m, MemoryOK(m)
    PROVE  MemoryOK(Observe(m, o))
<1> DEFINE ids == {t \in DOMAIN o.transactions \ m.measured :
                     /\ o.transactions[t].proposer = o.station
                     /\ o.transactions[t].offer \in DOMAIN o.offers}
           trips == NewTrades(o, m)
           measured == FoldLeft(LAMBDA acc, t : RoundTrip(o, acc, t), m.roundTrips, trips)
<1>1. trips \in Seq(ids)
  <2>1. ids \in SUBSET Nat /\ IsFiniteSet(ids)
    BY FS_Subset DEF View
  <2> QED
    BY <2>1, OrderedIds DEF NewTrades
<1>2. ASSUME NEW k \in 1..Len(trips), NEW acc \in Seq(Int)
      PROVE  RoundTrip(o, acc, trips[k]) \in Seq(Int)
  <2> DEFINE t == trips[k]
             i == o.transactions[t].offer
  <2>1. t \in ids
    BY <1>1
  <2>2. o.transactions[t].settled \in Nat /\ o.offers[i].created \in Nat
    BY <2>1 DEF View
  <2> HIDE DEF t, i
  <2>3. o.transactions[t].settled - o.offers[i].created \in Int
    BY <2>2
  <2> QED
    BY <2>3, AppendedIsSeq DEF RoundTrip, t, i
<1> HIDE DEF trips, ids
<1>3. Trips!Folded(o, 0, 0, 0, m.roundTrips, trips) = measured
  BY DEF Trips!Folded, FoldLeft, MapThenFoldSet, Trips!FoldLeft, Trips!MapThenFoldSet,
         Max, Trips!Max, TripOp
<1>4. TripHolds(0, Len(trips), Trips!Folded(o, 0, 0, 0, m.roundTrips, trips))
  <2>1. TripHolds(0, 0, m.roundTrips)
    BY DEF TripHolds, MemoryOK
  <2>2. \A k \in 1..Len(trips) : \A acc :
            TripHolds(0, k - 1, acc) => TripHolds(0, k, TripOp(o, 0, 0, 0, acc, trips[k]))
    BY <1>2 DEF TripHolds, TripOp
  <2> QED
    BY <1>1, <2>1, <2>2, Trips!FoldKeeps
<1>5. measured \in Seq(Int)
  BY <1>3, <1>4 DEF TripHolds
<1> HIDE DEF measured
<1>6. /\ DOMAIN Observe(m, o) = DOMAIN m
      /\ Observe(m, o).stored = m.stored
      /\ Observe(m, o).roundTrips = measured
  BY DEF Observe, MemoryOK, measured, trips
<1> QED
  BY <1>5, <1>6 DEF MemoryOK

-----------------------------------------------------------------------------
(* Paying for a batch *)

\* What a command may take out of the stock that is free, and bring.
Cost(os, cmd) == IF cmd.kind = "OFFER" THEN Give(cmd)
                 ELSE IF cmd.kind = "ACCEPT" THEN os[cmd.id].receive ELSE Zero

Gain(os, cmd) == IF cmd.kind = "ACCEPT" THEN os[cmd.id].give ELSE Zero

\* Of the stock a, the command leaves b; and where it costs more than it brings it
\* does not reach into the reserve.
Affords(os, cmd, a, b, reserve) ==
    /\ WellFormed(cmd) /\ (cmd.kind = "ACCEPT" => cmd.id \in DOMAIN os)
    /\ \A r \in Resource :
          /\ Cost(os, cmd)[r] <= a[r] /\ b[r] = a[r] - Cost(os, cmd)[r]
          /\ \/ Cost(os, cmd)[r] <= Gain(os, cmd)[r]
             \/ a[r] - Cost(os, cmd)[r] + Gain(os, cmd)[r] >= reserve[r]

\* The commands cmds, one after the other, take the stock from a to b.
Paid(os, cmds, a, b, reserve) ==
    /\ \E T : cmds \in Seq(T)
    /\ \E L \in [0..Len(cmds) -> Bundle] :
          /\ L[0] = a /\ L[Len(cmds)] = b
          /\ \A k \in 1..Len(cmds) : Affords(os, cmds[k], L[k - 1], L[k], reserve)

LEMMA AppendAny ==
    ASSUME NEW T, NEW q \in Seq(T), NEW x
    PROVE  /\ Append(q, x) \in Seq(T \cup {x})
           /\ Len(q) \in Nat /\ Len(Append(q, x)) = Len(q) + 1
           /\ \A k \in 1..Len(q) : Append(q, x)[k] = q[k]
           /\ Append(q, x)[Len(q) + 1] = x
<1>1. q \in Seq(T \cup {x})
  OBVIOUS
<1> QED
  BY <1>1

LEMMA NothingPaid ==
    ASSUME NEW os, NEW a \in Bundle, NEW reserve
    PROVE  Paid(os, <<>>, a, a, reserve)
<1>1. <<>> \in Seq({}) /\ Len(<<>>) = 0
  OBVIOUS
<1> DEFINE L == [k \in 0..0 |-> a]
<1>2. L \in [0..Len(<<>>) -> Bundle] /\ L[0] = a /\ L[Len(<<>>)] = a
  BY <1>1
<1>3. 1..Len(<<>>) = {}
  BY <1>1
<1> HIDE DEF L
<1> QED
  BY <1>1, <1>2, <1>3 DEF Paid

LEMMA OneMorePaid ==
    ASSUME NEW os, NEW cmds, NEW a, NEW b, NEW c \in Bundle, NEW reserve, NEW cmd,
           Paid(os, cmds, a, b, reserve), Affords(os, cmd, b, c, reserve)
    PROVE  Paid(os, Append(cmds, cmd), a, c, reserve)
<1>1. PICK T : cmds \in Seq(T)
  BY DEF Paid
<1> DEFINE n == Len(cmds)
           more == Append(cmds, cmd)
<1>2. PICK L \in [0..n -> Bundle] :
          /\ L[0] = a /\ L[n] = b
          /\ \A k \in 1..n : Affords(os, cmds[k], L[k - 1], L[k], reserve)
  BY DEF Paid
<1> DEFINE M == [k \in 0..(n + 1) |-> IF k = n + 1 THEN c ELSE L[k]]
<1>3. /\ more \in Seq(T \cup {cmd}) /\ n \in Nat /\ Len(more) = n + 1
      /\ \A k \in 1..n : more[k] = cmds[k]
      /\ more[n + 1] = cmd
  BY <1>1, AppendAny
<1> HIDE DEF n, more
<1>4. M \in [0..(n + 1) -> Bundle]
  <2>1. \A k \in 0..(n + 1) : k # n + 1 => k \in 0..n
    BY <1>3
  <2> QED
    BY <1>2, <2>1
<1>5. M[0] = a /\ M[n + 1] = c
  BY <1>2, <1>3
<1>6. ASSUME NEW k \in 1..(n + 1)
      PROVE  Affords(os, more[k], M[k - 1], M[k], reserve)
  <2>1. k - 1 \in 0..n /\ k - 1 \in 0..(n + 1) /\ k - 1 # n + 1 /\ k \in 0..(n + 1)
    BY <1>3
  <2>2. M[k - 1] = L[k - 1]
    BY <2>1
  <2>3. CASE k = n + 1
    <3>1. M[k] = c /\ k - 1 = n /\ more[k] = cmd
      BY <1>3, <2>1, <2>3
    <3> HIDE DEF M
    <3> QED
      BY <1>2, <2>2, <3>1
  <2>4. CASE k # n + 1
    <3>1. M[k] = L[k] /\ k \in 1..n
      BY <1>3, <2>1, <2>4
    <3> HIDE DEF M
    <3> QED
      BY <1>2, <1>3, <2>2, <3>1
  <2> QED
    BY <2>3, <2>4
<1> HIDE DEF M
<1> QED
  BY <1>3, <1>4, <1>5, <1>6 DEF Paid, more

LEMMA FirstIsPaid ==
    ASSUME NEW os, NEW cmds, NEW a, NEW b, NEW reserve,
           Paid(os, cmds, a, b, reserve), cmds # <<>>
    PROVE  \E c \in Bundle : /\ Affords(os, Head(cmds), a, c, reserve)
                             /\ Paid(os, Tail(cmds), c, b, reserve)
<1>1. PICK T : cmds \in Seq(T)
  BY DEF Paid
<1> DEFINE n == Len(cmds)
           rest == Tail(cmds)
<1>2. PICK L \in [0..n -> Bundle] :
          /\ L[0] = a /\ L[n] = b
          /\ \A k \in 1..n : Affords(os, cmds[k], L[k - 1], L[k], reserve)
  BY DEF Paid
<1>3. /\ rest \in Seq(T) /\ n \in Nat /\ n >= 1 /\ Len(rest) = n - 1
      /\ \A k \in 1..(n - 1) : rest[k] = cmds[k + 1]
      /\ Head(cmds) = cmds[1]
  BY <1>1
<1> DEFINE M == [k \in 0..(n - 1) |-> L[k + 1]]
<1> HIDE DEF n, rest
<1>4. M \in [0..(n - 1) -> Bundle] /\ M[0] = L[1] /\ M[n - 1] = b
  <2>1. \A k \in 0..(n - 1) : k + 1 \in 0..n
    BY <1>3
  <2>2. 0 \in 0..(n - 1) /\ n - 1 \in 0..(n - 1) /\ (n - 1) + 1 = n
    BY <1>3
  <2> QED
    BY <1>2, <2>1, <2>2
<1>5. ASSUME NEW k \in 1..(n - 1)
      PROVE  Affords(os, rest[k], M[k - 1], M[k], reserve)
  <2>1. k - 1 \in 0..(n - 1) /\ k \in 0..(n - 1) /\ (k - 1) + 1 = k /\ k + 1 \in 1..n
        /\ (k + 1) - 1 = k
    BY <1>3
  <2>2. M[k - 1] = L[k] /\ M[k] = L[k + 1]
    BY <2>1
  <2>3. Affords(os, cmds[k + 1], L[k], L[k + 1], reserve)
    BY <1>2, <2>1
  <2> HIDE DEF M
  <2> QED
    BY <1>3, <2>2, <2>3
<1> HIDE DEF M
<1>6. L[1] \in Bundle /\ Affords(os, cmds[1], a, L[1], reserve)
  <2>1. 1 \in 1..n /\ 1 \in 0..n /\ 1 - 1 = 0
    BY <1>3
  <2> QED
    BY <1>2, <2>1
<1>7. Paid(os, rest, L[1], b, reserve)
  BY <1>3, <1>4, <1>5 DEF Paid
<1> QED
  BY <1>3, <1>6, <1>7 DEF rest

\* Offers keep their terms, so what was paid for stays so.
LEMMA StaysPaid ==
    ASSUME NEW os, NEW other, NEW cmds, NEW a, NEW b, NEW reserve,
           Paid(os, cmds, a, b, reserve),
           \A i \in DOMAIN os : /\ i \in DOMAIN other
                                /\ other[i].give = os[i].give
                                /\ other[i].receive = os[i].receive
    PROVE  Paid(other, cmds, a, b, reserve)
<1>1. ASSUME NEW cmd, NEW x, NEW y, Affords(os, cmd, x, y, reserve)
      PROVE  Affords(other, cmd, x, y, reserve)
  <2>1. Cost(other, cmd) = Cost(os, cmd) /\ Gain(other, cmd) = Gain(os, cmd)
    BY <1>1 DEF Affords, Cost, Gain
  <2> QED
    BY <1>1, <2>1 DEF Affords
<1> QED
  BY <1>1 DEF Paid

-----------------------------------------------------------------------------
(* The stages of a decision *)

\* What each stage passes on: commands that take the stock from a to what is
\* available, and never into the reserve for less than they bring.
StageOK(o, a, reserve, d) ==
    /\ DOMAIN d = {"budget", "available", "memory", "commands", "deferred"}
    /\ MemoryOK(d.memory) /\ d.available \in Bundle
    /\ d.deferred \in Seq(DOMAIN o.offers)
    /\ Paid(o.offers, d.commands, a, d.available, reserve)

\* One more command that can be paid for.
LEMMA StageChooses ==
    ASSUME NEW o, NEW a, NEW reserve, NEW d, StageOK(o, a, reserve, d), NEW cmd,
           NEW left \in Bundle, Affords(o.offers, cmd, d.available, left, reserve)
    PROVE  StageOK(o, a, reserve, [Chosen(d, cmd) EXCEPT !.available = left])
<1> DEFINE e == [Chosen(d, cmd) EXCEPT !.available = left]
<1>1. /\ DOMAIN e = {"budget", "available", "memory", "commands", "deferred"}
      /\ e.available = left /\ e.memory = d.memory /\ e.deferred = d.deferred
      /\ e.commands = Append(d.commands, cmd)
  BY DEF Chosen, StageOK
<1>2. Paid(o.offers, Append(d.commands, cmd), a, left, reserve)
  BY OneMorePaid DEF StageOK
<1> HIDE DEF e
<1>3. StageOK(o, a, reserve, e)
  BY <1>1, <1>2 DEF StageOK
<1> QED
  BY <1>3 DEF e

\* One more that costs nothing.
LEMMA StageAdds ==
    ASSUME NEW o, NEW a, NEW reserve, NEW d, StageOK(o, a, reserve, d), NEW cmd,
           WellFormed(cmd), cmd.kind \notin {"OFFER", "ACCEPT"}
    PROVE  StageOK(o, a, reserve, Chosen(d, cmd))
<1> DEFINE e == Chosen(d, cmd)
<1>1. /\ DOMAIN e = {"budget", "available", "memory", "commands", "deferred"}
      /\ e.available = d.available /\ e.memory = d.memory /\ e.deferred = d.deferred
      /\ e.commands = Append(d.commands, cmd)
  BY DEF Chosen, StageOK
<1>2. d.available \in Bundle
  BY DEF StageOK
<1>3. Affords(o.offers, cmd, d.available, d.available, reserve)
  <2>1. Cost(o.offers, cmd) = Zero /\ Gain(o.offers, cmd) = Zero /\ cmd.kind # "ACCEPT"
    BY DEF Cost, Gain
  <2>2. \A r \in Resource : Zero[r] = 0 /\ d.available[r] \in Nat
    BY <1>2 DEF Zero, Bundle
  <2> QED
    BY <2>1, <2>2 DEF Affords
<1>4. Paid(o.offers, Append(d.commands, cmd), a, d.available, reserve)
  BY <1>2, <1>3, OneMorePaid DEF StageOK
<1> HIDE DEF e
<1>5. StageOK(o, a, reserve, e)
  BY <1>1, <1>2, <1>4 DEF StageOK
<1> QED
  BY <1>5 DEF e

\* An offer of goods that are there, beside the reserve.
LEMMA OfferIsAfforded ==
    ASSUME NEW os, NEW cmd, cmd.kind = "OFFER", Receive(cmd) \in Bundle,
           cmd.expires \in Nat, Give(cmd) \in Bundle, NEW a \in Bundle,
           NEW reserve \in Bundle,
           \A r \in Resource : Give(cmd)[r] <= SaturatingSub(a, reserve)[r]
    PROVE  /\ SaturatingSub(a, Give(cmd)) \in Bundle
           /\ Affords(os, cmd, a, SaturatingSub(a, Give(cmd)), reserve)
<1> DEFINE give == Give(cmd)
           left == SaturatingSub(a, give)
<1>1. Cost(os, cmd) = give /\ Gain(os, cmd) = Zero
  BY DEF Cost, Gain
<1>2. WellFormed(cmd) /\ cmd.kind # "ACCEPT"
  BY DEF WellFormed
<1>3. left \in Bundle
  BY BundleArithmetic
<1> HIDE DEF give
<1>4. give \in Bundle /\ \A r \in Resource : give[r] <= SaturatingSub(a, reserve)[r]
  BY DEF give
<1>5. ASSUME NEW r \in Resource
      PROVE  /\ give[r] <= a[r] /\ left[r] = a[r] - give[r]
             /\ give[r] <= Zero[r] \/ a[r] - give[r] + Zero[r] >= reserve[r]
  <2>1. a[r] \in Nat /\ reserve[r] \in Nat /\ give[r] \in Nat /\ Zero[r] = 0
    BY <1>4 DEF Bundle, Zero
  <2>2. give[r] <= IF a[r] > reserve[r] THEN a[r] - reserve[r] ELSE 0
    BY <1>4 DEF SaturatingSub
  <2>3. left[r] = IF a[r] > give[r] THEN a[r] - give[r] ELSE 0
    BY DEF SaturatingSub
  <2> QED
    BY <2>1, <2>2, <2>3
<1> HIDE DEF left
<1>6. Affords(os, cmd, a, left, reserve)
  BY <1>1, <1>2, <1>5 DEF Affords
<1> QED
  BY <1>3, <1>6 DEF give, left

-----------------------------------------------------------------------------
(* Accepting *)

\* What evaluate_incoming lets pass can be paid for.
LEMMA AcceptIsAfforded ==
    ASSUME NEW o, View(o), NEW i \in DOMAIN o.offers, NEW a \in Bundle,
           NEW reserve \in Bundle, NEW urgency, NEW limit, NEW end,
           EvaluateIncoming(o, o.offers[i], a, reserve, urgency, limit, end)
    PROVE  LET cmd == [kind |-> "ACCEPT", id |-> i]
               left == SaturatingSub(a, o.offers[i].receive)
           IN left \in Bundle /\ Affords(o.offers, cmd, a, left, reserve)
<1> DEFINE cmd == [kind |-> "ACCEPT", id |-> i]
           cost == o.offers[i].receive
           gain == o.offers[i].give
           left == SaturatingSub(a, cost)
           remaining == Add(left, gain)
<1>1. cost \in Bundle /\ gain \in Bundle
  BY DEF View
<1>2. \/ IsZero(cost)
      \/ Dominates(a, cost) /\ \A r \in Resource : remaining[r] >= Min2(a[r], reserve[r])
  BY DEF EvaluateIncoming
<1>3. Cost(o.offers, cmd) = cost /\ Gain(o.offers, cmd) = gain
  BY DEF Cost, Gain
<1>4. WellFormed(cmd) /\ cmd.id \in DOMAIN o.offers
  BY DEF WellFormed
<1> HIDE DEF cmd, cost, gain
<1>5. left \in Bundle
  BY <1>1, BundleArithmetic
<1>6. ASSUME NEW r \in Resource
      PROVE  /\ cost[r] <= a[r] /\ left[r] = a[r] - cost[r]
             /\ cost[r] <= gain[r] \/ a[r] - cost[r] + gain[r] >= reserve[r]
  <2>1. a[r] \in Nat /\ reserve[r] \in Nat /\ cost[r] \in Nat /\ gain[r] \in Nat
    BY <1>1 DEF Bundle
  <2>2. left[r] = IF a[r] > cost[r] THEN a[r] - cost[r] ELSE 0
    BY DEF SaturatingSub
  <2>3. remaining[r] = left[r] + gain[r]
    BY DEF Add
  <2>4. cost[r] = 0 \/ (cost[r] <= a[r] /\ remaining[r] >= Min2(a[r], reserve[r]))
    BY <1>2, <2>1 DEF IsZero, Dominates
  <2> HIDE DEF left, remaining
  <2> QED
    BY <2>1, <2>2, <2>3, <2>4 DEF Min2
<1> HIDE DEF left
<1>7. Affords(o.offers, cmd, a, left, reserve)
  BY <1>3, <1>4, <1>6 DEF Affords
<1> QED
  BY <1>5, <1>7 DEF cmd, left, cost

AcceptOp(o, reserve, holdFor, d, acc, i) == Considered(o, reserve, holdFor, acc, i)
AcceptHolds(ctx, k, acc) ==
    DOMAIN acc = {"d", "urgency"} /\ StageOK(ctx[1], ctx[2], ctx[3], acc.d)

Accepts == INSTANCE FoldProofs WITH Op <- AcceptOp, Holds <- AcceptHolds

\* One incoming offer is passed over, held back or accepted.
LEMMA ConsideredKeeps ==
    ASSUME NEW o, View(o), NEW a, NEW reserve \in Bundle, NEW holdFor,
           NEW acc, AcceptHolds(<<o, a, reserve>>, 0, acc), NEW i \in DOMAIN o.offers
    PROVE  AcceptHolds(<<o, a, reserve>>, 0, Considered(o, reserve, holdFor, acc, i))
<1> DEFINE offer == o.offers[i]
           cmd == [kind |-> "ACCEPT", id |-> i]
           left == SaturatingSub(acc.d.available, offer.receive)
           accepted == AcceptOne(acc.d, i, offer.receive)
           next == Considered(o, reserve, holdFor, acc, i)
           held == [acc EXCEPT !.d.deferred = Append(@, i)]
<1>1. StageOK(o, a, reserve, acc.d) /\ DOMAIN acc = {"d", "urgency"}
  BY DEF AcceptHolds
<1>2. acc.d.available \in Bundle
  BY <1>1 DEF StageOK
<1>3. CASE next = acc
  BY <1>3
<1>4. CASE next = held
  <2>1. acc.d.deferred \in Seq(DOMAIN o.offers)
    BY <1>1 DEF StageOK
  <2>2. Append(acc.d.deferred, i) \in Seq(DOMAIN o.offers)
    <3> DEFINE S == DOMAIN o.offers
               q == acc.d.deferred
    <3>1. q \in Seq(S) /\ i \in S
      BY <2>1
    <3> HIDE DEF S, q
    <3>2. Append(q, i) \in Seq(S)
      BY <3>1
    <3> QED
      BY <3>2 DEF S, q
  <2>3. /\ DOMAIN held = {"d", "urgency"} /\ DOMAIN held.d = DOMAIN acc.d
        /\ held.d.available = acc.d.available /\ held.d.memory = acc.d.memory
        /\ held.d.commands = acc.d.commands
        /\ held.d.deferred = Append(acc.d.deferred, i)
    BY <1>1 DEF StageOK
  <2> HIDE DEF held
  <2>4. StageOK(o, a, reserve, held.d)
    BY <1>1, <2>2, <2>3 DEF StageOK
  <2> QED
    BY <1>4, <2>3, <2>4 DEF AcceptHolds
<1>5. CASE /\ IsWorthAccepting(o, offer, acc.d, reserve, acc.urgency)
           /\ next = [d |-> accepted, urgency |-> UrgencyOf(accepted.available, o.upkeep, reserve)]
  <2>1. \E limit : EvaluateIncoming(o, offer, acc.d.available, reserve, acc.urgency, limit,
                                    InEndGame(TicksLeft(o)))
    BY <1>5, Zenon DEF IsWorthAccepting
  <2>2. left \in Bundle /\ Affords(o.offers, cmd, acc.d.available, left, reserve)
    BY <1>2, <2>1, AcceptIsAfforded
  <2>3. accepted = [Chosen(acc.d, cmd) EXCEPT !.available = left]
    BY <1>1 DEF AcceptOne, Chosen, StageOK
  <2> HIDE DEF left, cmd
  <2>4. StageOK(o, a, reserve, accepted)
    BY <1>1, <2>2, <2>3, StageChooses
  <2> HIDE DEF accepted
  <2> QED
    BY <1>5, <2>4 DEF AcceptHolds
<1>6. \/ next = acc \/ next = held
      \/ /\ IsWorthAccepting(o, offer, acc.d, reserve, acc.urgency)
         /\ next = [d |-> accepted, urgency |-> UrgencyOf(accepted.available, o.upkeep, reserve)]
  BY Zenon DEF Considered
<1> QED
  BY <1>3, <1>4, <1>5, <1>6

LEMMA AcceptStage ==
    ASSUME NEW o, View(o), NEW a, NEW reserve \in Bundle, NEW d, StageOK(o, a, reserve, d),
           NEW ids \in Seq(DOMAIN o.offers), NEW urgency, NEW holdFor
    PROVE  StageOK(o, a, reserve, AcceptIncoming(o, d, ids, reserve, urgency, holdFor))
<1> DEFINE base == [d |-> [d EXCEPT !.deferred = <<>>], urgency |-> urgency]
           ctx == <<o, a, reserve>>
           all == Accepts!Folded(o, reserve, holdFor, 0, base, ids)
<1>1. all.d = AcceptIncoming(o, d, ids, reserve, urgency, holdFor)
  BY DEF AcceptIncoming, Accepts!Folded, FoldLeft, MapThenFoldSet, Accepts!FoldLeft,
         Accepts!MapThenFoldSet, Max, Accepts!Max, AcceptOp
<1>2. AcceptHolds(ctx, 0, base)
  <2> DEFINE e == [d EXCEPT !.deferred = <<>>]
  <2>1. /\ DOMAIN e = DOMAIN d /\ e.available = d.available /\ e.memory = d.memory
        /\ e.commands = d.commands /\ e.deferred = <<>>
    BY DEF StageOK
  <2>2. <<>> \in Seq(DOMAIN o.offers)
    OBVIOUS
  <2> HIDE DEF e
  <2>3. StageOK(o, a, reserve, e)
    BY <2>1, <2>2 DEF StageOK
  <2> QED
    BY <2>3 DEF AcceptHolds, e
<1>3. ASSUME NEW k \in 1..Len(ids), NEW acc, AcceptHolds(ctx, k - 1, acc)
      PROVE  AcceptHolds(ctx, k, AcceptOp(o, reserve, holdFor, 0, acc, ids[k]))
  <2>1. ids[k] \in DOMAIN o.offers
    OBVIOUS
  <2>2. AcceptHolds(ctx, 0, acc)
    BY <1>3 DEF AcceptHolds
  <2>3. AcceptHolds(ctx, 0, Considered(o, reserve, holdFor, acc, ids[k]))
    BY <2>1, <2>2, ConsideredKeeps
  <2> QED
    BY <2>3 DEF AcceptHolds, AcceptOp
<1> HIDE DEF base, ctx
<1>4. AcceptHolds(ctx, Len(ids), all)
  BY <1>2, <1>3, Accepts!FoldKeeps
<1> HIDE DEF all
<1> QED
  BY <1>1, <1>4 DEF AcceptHolds, ctx

-----------------------------------------------------------------------------
(* Withdrawing *)

WithdrawOp(o, available, reserve, d, acc, i) == Reviewed(o, available, reserve, acc, i)
WithdrawHolds(ctx, k, acc) ==
    StageOK(ctx[1], ctx[2], ctx[3], acc) /\ acc.available = ctx[4]

Withdrawals == INSTANCE FoldProofs WITH Op <- WithdrawOp, Holds <- WithdrawHolds

LEMMA WithdrawStage ==
    ASSUME NEW o, View(o), NEW a, NEW reserve, NEW d, StageOK(o, a, reserve, d)
    PROVE  /\ StageOK(o, a, reserve, WithdrawDangerous(o, d, reserve))
           /\ WithdrawDangerous(o, d, reserve).available = d.available
<1> DEFINE ctx == <<o, a, reserve, d.available>>
           ids == o.outgoing
           all == Withdrawals!Folded(o, d.available, reserve, 0, d, ids)
<1>1. all = WithdrawDangerous(o, d, reserve)
  BY DEF WithdrawDangerous, Withdrawals!Folded, FoldLeft, MapThenFoldSet,
         Withdrawals!FoldLeft, Withdrawals!MapThenFoldSet, Max, Withdrawals!Max, WithdrawOp
<1>2. WithdrawHolds(ctx, 0, d)
  BY DEF WithdrawHolds
<1>3. ASSUME NEW k \in 1..Len(ids), NEW acc, WithdrawHolds(ctx, k - 1, acc)
      PROVE  WithdrawHolds(ctx, k, WithdrawOp(o, d.available, reserve, 0, acc, ids[k]))
  <2> DEFINE cmd == [kind |-> "WITHDRAW", id |-> ids[k]]
             next == WithdrawOp(o, d.available, reserve, 0, acc, ids[k])
  <2>1. StageOK(o, a, reserve, acc) /\ acc.available = d.available
    BY <1>3 DEF WithdrawHolds
  <2>2. next = acc \/ next = Chosen(acc, cmd)
    BY DEF WithdrawOp, Reviewed
  <2>3. WellFormed(cmd) /\ cmd.kind \notin {"OFFER", "ACCEPT"}
    BY DEF WellFormed
  <2>4. StageOK(o, a, reserve, Chosen(acc, cmd))
    BY <2>1, <2>3, StageAdds
  <2>5. Chosen(acc, cmd).available = acc.available
    BY <2>1 DEF Chosen, StageOK
  <2> HIDE DEF next, cmd
  <2>6. WithdrawHolds(ctx, k, next)
    BY <2>1, <2>2, <2>4, <2>5 DEF WithdrawHolds
  <2> QED
    BY <2>6 DEF next
<1>4. ids \in Seq(DOMAIN o.offers)
  BY DEF View
<1> HIDE DEF ctx, ids
<1>5. WithdrawHolds(ctx, Len(ids), all)
  BY <1>2, <1>3, <1>4, Withdrawals!FoldKeeps
<1> HIDE DEF all
<1> QED
  BY <1>1, <1>5 DEF WithdrawHolds, ctx

-----------------------------------------------------------------------------
(* Ranking *)

AtMostOne(q, S) == q = <<>> \/ \E x \in S : q = <<x>>

BestOp(S, key, c, d, best, x) == Better(S, key, best, x)
BestHolds(S, k, best) == AtMostOne(best, S)

Bests == INSTANCE FoldProofs WITH Op <- BestOp, Holds <- BestHolds

\* The best of some is one of them.
LEMMA BestIsOne ==
    ASSUME NEW T, NEW seq \in Seq(T), NEW S, NEW key
    PROVE  AtMostOne(FirstBest(seq, S, key), S)
<1> DEFINE all == Bests!Folded(S, key, 0, 0, <<>>, seq)
<1>1. all = FirstBest(seq, S, key)
  BY DEF FirstBest, Bests!Folded, FoldLeft, MapThenFoldSet, Bests!FoldLeft,
         Bests!MapThenFoldSet, Max, Bests!Max, BestOp
<1>2. BestHolds(S, 0, <<>>)
  BY DEF BestHolds, AtMostOne
<1>3. ASSUME NEW k \in 1..Len(seq), NEW acc, BestHolds(S, k - 1, acc)
      PROVE  BestHolds(S, k, BestOp(S, key, 0, 0, acc, seq[k]))
  BY <1>3 DEF BestHolds, AtMostOne, BestOp, Better
<1>4. BestHolds(S, Len(seq), all)
  BY <1>2, <1>3, Bests!FoldKeeps
<1> HIDE DEF all
<1> QED
  BY <1>1, <1>4 DEF BestHolds

Distinct(q, S) == q \in Seq(S) /\ \A j, k \in 1..Len(q) : q[j] = q[k] => j = k

LEMMA StillDistinct ==
    ASSUME NEW S, NEW q, Distinct(q, S), NEW p, NEW T, AtMostOne(p, T),
           T = S \ Range(q), NEW all, all = q \o p
    PROVE  Distinct(all, S) /\ \A x : x \in Range(all) <=> x \in Range(q) \/ x \in Range(p)
<1>1. q \in Seq(S) /\ Range(q) = {q[k] : k \in 1..Len(q)} /\ Len(q) \in Nat
  BY DEF Distinct, Range
<1>2. CASE p = <<>>
  <2>1. q \o p = q /\ Range(p) = {}
    BY <1>1, <1>2 DEF Range
  <2> QED
    BY <2>1 DEF Distinct
<1>3. ASSUME NEW x \in S \ Range(q), p = <<x>>
      PROVE  Distinct(all, S) /\ Range(all) = Range(q) \cup Range(p)
  <2> DEFINE more == q \o p
  <2>1. /\ more \in Seq(S) /\ Len(more) = Len(q) + 1
        /\ \A k \in 1..Len(q) : more[k] = q[k]
        /\ more[Len(q) + 1] = x /\ DOMAIN more = 1..(Len(q) + 1)
    BY <1>1, <1>3
  <2>2. \A k \in 1..(Len(q) + 1) : k \in 1..Len(q) \/ k = Len(q) + 1
    BY <1>1
  <2>3. \A k \in 1..Len(q) : q[k] # x /\ k # Len(q) + 1
    BY <1>1
  <2> HIDE DEF more
  <2>4. Distinct(more, S)
    BY <1>1, <2>1, <2>2, <2>3 DEF Distinct
  <2>5. Range(p) = {x}
    BY <1>3 DEF Range
  <2>6. Range(more) = {more[k] : k \in 1..(Len(q) + 1)}
    BY <2>1 DEF Range
  <2>7. Range(more) = Range(q) \cup {x}
    <3>1. Len(q) + 1 \in 1..(Len(q) + 1) /\ \A k \in 1..Len(q) : k \in 1..(Len(q) + 1)
      BY <1>1
    <3> QED
      BY <1>1, <2>1, <2>2, <2>6, <3>1
  <2> QED
    BY <2>4, <2>5, <2>7 DEF more
<1> QED
  BY <1>2, <1>3 DEF AtMostOne

\* What is wanted is asked for once each.
LEMMA NeedsAreDistinct ==
    ASSUME NEW urgency, NEW wanted
    PROVE  /\ Distinct(Needs(urgency, wanted), Resource)
           /\ \A r \in Range(Needs(urgency, wanted)) : r \in Resource /\ wanted[r] > 0
<1> DEFINE needed == {r \in Resource : wanted[r] > 0}
           key == [r \in Resource |-> <<urgency[r], wanted[r]>>]
           top == FirstBest(ResourceOrder, needed, key)
           runner == FirstBest(ResourceOrder, needed \ Range(top), key)
           bottom == FirstBest(ResourceOrder, needed \ (Range(top) \cup Range(runner)), key)
<1>1. ResourceOrder \in Seq(Resource)
  BY DEF ResourceOrder, Resource
<1> HIDE DEF needed, key
<1>2. /\ AtMostOne(top, needed)
      /\ AtMostOne(runner, needed \ Range(top))
      /\ AtMostOne(bottom, needed \ (Range(top) \cup Range(runner)))
  BY <1>1, BestIsOne
<1>3. Needs(urgency, wanted) = (top \o runner) \o bottom
  BY DEF Needs, needed, key
<1> HIDE DEF top, runner, bottom
<1> DEFINE none == <<>>
           two == top \o runner
           rest == needed \ Range(top)
           last == needed \ (Range(top) \cup Range(runner))
<1>4. Distinct(none, needed) /\ Range(none) = {} /\ top = none \o top
  BY <1>2 DEF Distinct, Range, AtMostOne
<1> HIDE DEF none
<1>5. Distinct(top, needed)
  <2>1. needed = needed \ Range(none)
    BY <1>4
  <2> QED
    BY <1>2, <1>4, <2>1, StillDistinct
<1> HIDE DEF two, rest, last
<1>6. AtMostOne(runner, rest) /\ rest = needed \ Range(top) /\ two = top \o runner
  BY <1>2 DEF rest, two
<1>7. /\ Distinct(two, needed)
      /\ \A x : x \in Range(two) <=> x \in Range(top) \/ x \in Range(runner)
  BY <1>5, <1>6, StillDistinct
<1>8. Distinct(two \o bottom, needed)
  <2> DEFINE three == two \o bottom
  <2>1. AtMostOne(bottom, last) /\ last = needed \ Range(two) /\ three = two \o bottom
    BY <1>2, <1>7 DEF last
  <2> HIDE DEF three
  <2>2. Distinct(three, needed)
    BY <1>7, <2>1, StillDistinct
  <2> QED
    BY <2>2 DEF three
<1> DEFINE all == (top \o runner) \o bottom
<1> HIDE DEF all
<1>9. Distinct(all, needed)
  BY <1>8 DEF all, two
<1>10. needed \subseteq Resource
  BY DEF needed
<1>11. \A k \in 1..Len(all) : all[k] \in needed
  BY <1>9 DEF Distinct
<1>12. Distinct(all, Resource)
  BY <1>9, <1>10 DEF Distinct
<1>13. Range(all) \subseteq needed
  BY <1>9, <1>11 DEF Distinct, Range
<1> QED
  BY <1>3, <1>12, <1>13 DEF all, needed

-----------------------------------------------------------------------------
(* Giving *)

LEMMA DeadlineIsNatural ==
    ASSUME NEW o, View(o), CanOffer(o)
    PROVE  o.tick + Min({OfferTtl, MaxOfferTtl, TicksLeft(o)}) \in Nat
<1> DEFINE ttl == Min({OfferTtl, MaxOfferTtl, TicksLeft(o)})
           left == TicksLeft(o)
<1>1. OfferTtl \in Int /\ MaxOfferTtl \in Int /\ left \in Int
  BY RulesAssumption DEF View, OfferTtl, TicksLeft
<1> HIDE DEF left
<1>2. Min({OfferTtl, MaxOfferTtl, left}) \in {OfferTtl, MaxOfferTtl, left}
  BY <1>1, LeastOfThree
<1>3. ttl \in Int
  BY <1>1, <1>2 DEF left
<1>4. ttl > 0
  BY DEF CanOffer
<1> HIDE DEF ttl
<1> QED
  BY <1>3, <1>4 DEF View, ttl

\* Of the other resources, as much stays available.
OnlyTakes(d, e, r) == \A q \in Resource : q # r => e.available[q] = d.available[q]

\* A gift out of what is beside the reserve.
LEMMA GiftStage ==
    ASSUME NEW o, View(o), CanOffer(o), NEW a, NEW reserve \in Bundle, NEW d,
           StageOK(o, a, reserve, d), NEW r \in Resource, NEW n \in Nat,
           n <= SaturatingSub(d.available, reserve)[r], NEW p
    PROVE  /\ StageOK(o, a, reserve, Gift(o, d, p, r, n))
           /\ OnlyTakes(d, Gift(o, d, p, r, n), r)
<1> DEFINE cmd == OfferUntil(o, p, Single(r, n), Zero)
           left == SaturatingSub(d.available, Single(r, n))
           e == [Chosen(d, cmd) EXCEPT !.available = left]
           memory1 == RecordGift(d.memory, p, r, o.tick)
           g == Gift(o, d, p, r, n)
<1>1. d.available \in Bundle /\ MemoryOK(d.memory)
  BY DEF StageOK
<1>2. Single(r, n) \in Bundle /\ Zero \in Bundle
  BY ProducedBundle
<1>3. /\ cmd.kind = "OFFER" /\ Give(cmd) = Single(r, n) /\ Receive(cmd) = Zero
      /\ cmd.expires \in Nat
  <2>1. o.tick + Min({OfferTtl, MaxOfferTtl, TicksLeft(o)}) \in Nat
    BY DeadlineIsNatural
  <2> QED
    BY <2>1, Zenon DEF OfferUntil, Give, Receive
<1>4. \A q \in Resource : Single(r, n)[q] <= SaturatingSub(d.available, reserve)[q]
  <2>1. SaturatingSub(d.available, reserve) \in Bundle
    BY <1>1, BundleArithmetic
  <2> DEFINE spare == SaturatingSub(d.available, reserve)
  <2>2. spare \in [Resource -> Nat] /\ n <= spare[r]
    BY <2>1 DEF Bundle
  <2> HIDE DEF spare
  <2>3. \A q \in Resource : Single(r, n)[q] <= spare[q]
    BY <2>2 DEF Single
  <2> QED
    BY <2>3 DEF spare
<1> HIDE DEF cmd
<1>5. left \in Bundle /\ Affords(o.offers, cmd, d.available, left, reserve)
  BY <1>1, <1>2, <1>3, <1>4, OfferIsAfforded
<1>6. \A q \in Resource : q # r => left[q] = d.available[q]
  BY <1>1 DEF SaturatingSub, Single, Bundle
<1> HIDE DEF left
<1>7. StageOK(o, a, reserve, e)
  BY <1>5, StageChooses
<1>8. g = [Chosen(d, cmd) EXCEPT !.available = left, !.memory = memory1]
  BY DEF Gift, cmd, left, Chosen, StageOK
<1>9. MemoryOK(memory1)
  <2>1. /\ DOMAIN memory1 = DOMAIN d.memory /\ memory1.stored = d.memory.stored
        /\ memory1.roundTrips = d.memory.roundTrips
    BY <1>1 DEF RecordGift, MemoryOK
  <2> HIDE DEF memory1
  <2> QED
    BY <1>1, <2>1 DEF MemoryOK
<1> HIDE DEF memory1, g
<1>10. /\ DOMAIN g = DOMAIN e /\ g.available = e.available /\ g.commands = e.commands
       /\ g.deferred = e.deferred /\ g.memory = memory1 /\ e.available = left
  BY <1>8 DEF Chosen, StageOK
<1> HIDE DEF e
<1>11. StageOK(o, a, reserve, g)
  BY <1>7, <1>9, <1>10 DEF StageOK
<1>12. OnlyTakes(d, g, r)
  BY <1>6, <1>10 DEF OnlyTakes
<1> QED
  BY <1>11, <1>12 DEF g

GiveOp(o, excess, c, d, acc, r) == GivenAway(o, excess, acc, r)
GiveHolds(ctx, k, acc) ==
    /\ StageOK(ctx[1], ctx[2], ctx[3], acc)
    /\ \A j \in (k + 1)..Len(ctx[5]) : acc.available[ctx[5][j]] = ctx[4][ctx[5][j]]

Givings == INSTANCE FoldProofs WITH Op <- GiveOp, Holds <- GiveHolds

\* Stock above the cap is far above the reserve, and each resource is given once.
LEMMA GiveStage ==
    ASSUME NEW o, View(o), NEW a, NEW reserve \in Bundle,
           \A r \in Resource : reserve[r] <= 15, NEW d, StageOK(o, a, reserve, d)
    PROVE  StageOK(o, a, reserve, GiveExcess(o, d, ExcessOverCap(d.available)))
<1>1. CASE ~CanOffer(o)
  BY <1>1 DEF GiveExcess
<1>2. CASE CanOffer(o)
  <2> DEFINE stock == d.available
             excess == ExcessOverCap(stock)
             seq == Needs([r \in Resource |-> None], excess)
             ctx == <<o, a, reserve, stock, seq>>
             all == Givings!Folded(o, excess, 0, 0, d, seq)
  <2>1. all = GiveExcess(o, d, excess)
    BY <1>2 DEF GiveExcess, Givings!Folded, FoldLeft, MapThenFoldSet,
           Givings!FoldLeft, Givings!MapThenFoldSet, Max, Givings!Max, GiveOp
  <2>2. /\ seq \in Seq(Resource)
        /\ \A j, k \in 1..Len(seq) : seq[j] = seq[k] => j = k
        /\ \A k \in 1..Len(seq) : seq[k] \in Resource /\ excess[seq[k]] > 0
    <3>1. Distinct(seq, Resource) /\ \A r \in Range(seq) : excess[r] > 0
      BY NeedsAreDistinct
    <3> HIDE DEF seq, excess
    <3> QED
      BY <3>1 DEF Distinct, Range
  <2>3. stock \in Bundle
    BY DEF StageOK
  <2>4. \A r \in Resource : excess[r] = Max2(0, stock[r] - StockCap)
    BY DEF ExcessOverCap, Bundled
  <2> HIDE DEF stock, excess, seq
  <2>5. GiveHolds(ctx, 0, d)
    BY DEF GiveHolds, stock
  <2>6. ASSUME NEW k \in 1..Len(seq), NEW acc, GiveHolds(ctx, k - 1, acc)
        PROVE  GiveHolds(ctx, k, GiveOp(o, excess, 0, 0, acc, seq[k]))
    <3> DEFINE r == seq[k]
               n == Min2(excess[r], MaxExcessGift)
               p == GiftRecipient(o, acc.memory, r)[1]
               gift == Gift(o, acc, p, r, n)
               next == GivenAway(o, excess, acc, r)
    <3>1. /\ StageOK(o, a, reserve, acc)
          /\ \A j \in k..Len(seq) : acc.available[seq[j]] = stock[seq[j]]
      BY <2>6 DEF GiveHolds
    <3>2. /\ Len(seq) \in Nat /\ k \in k..Len(seq) /\ \A j \in (k + 1)..Len(seq) :
                j \in k..Len(seq) /\ j \in 1..Len(seq) /\ j # k
      BY <2>2
    <3>3. r \in Resource /\ acc.available[r] = stock[r] /\ excess[r] > 0
      BY <2>2, <3>1, <3>2
    <3>4. \A j \in (k + 1)..Len(seq) : seq[j] \in Resource /\ seq[j] # r
      BY <2>2, <3>2
    <3> HIDE DEF r
    <3>5. n \in Nat /\ n <= SaturatingSub(acc.available, reserve)[r]
      <4>1. stock[r] \in Nat /\ reserve[r] \in Nat /\ reserve[r] <= 15
        BY <2>3, <3>3 DEF Bundle
      <4>2. excess[r] = Max2(0, stock[r] - 100)
        BY <2>4, <3>3 DEF StockCap
      <4>3. SaturatingSub(acc.available, reserve)[r]
               = IF stock[r] > reserve[r] THEN stock[r] - reserve[r] ELSE 0
        BY <3>3 DEF SaturatingSub
      <4> QED
        BY <3>3, <4>1, <4>2, <4>3 DEF Max2, Min2, MaxExcessGift
    <3> HIDE DEF n, p
    <3>6. /\ StageOK(o, a, reserve, gift)
          /\ OnlyTakes(acc, gift, r)
      <4>1. CanOffer(o) /\ StageOK(o, a, reserve, acc) /\ r \in Resource /\ n \in Nat
            /\ n <= SaturatingSub(acc.available, reserve)[r]
        BY <1>2, <3>1, <3>3, <3>5
      <4> QED
        BY <4>1, GiftStage, Zenon
    <3>7. next = acc \/ next = gift
      BY DEF GivenAway, n, p
    <3> HIDE DEF next, gift
    <3>8. /\ StageOK(o, a, reserve, next)
          /\ \A j \in (k + 1)..Len(seq) : next.available[seq[j]] = stock[seq[j]]
      BY <3>1, <3>2, <3>4, <3>6, <3>7 DEF OnlyTakes
    <3>9. GiveHolds(ctx, k, next)
      BY <3>8 DEF GiveHolds
    <3> QED
      BY <3>9 DEF GiveOp, next, r
  <2> HIDE DEF ctx
  <2>7. GiveHolds(ctx, Len(seq), all)
    BY <2>2, <2>5, <2>6, Givings!FoldKeeps
  <2> HIDE DEF all
  <2>8. StageOK(o, a, reserve, all)
    BY <2>7 DEF GiveHolds, ctx
  <2> QED
    BY <2>1, <2>8 DEF excess, stock
<1> QED
  BY <1>1, <1>2

-----------------------------------------------------------------------------
(* Advertising *)

\* The advertisement costs nothing.
LEMMA AdvertiseStage ==
    ASSUME NEW o, View(o), NEW a, NEW reserve, NEW d, StageOK(o, a, reserve, d),
           NEW surplus, NEW need, NEW critical \in SUBSET Resource
    PROVE  /\ StageOK(o, a, reserve, RefreshAdvertisement(o, d, surplus, need, critical))
           /\ RefreshAdvertisement(o, d, surplus, need, critical).available = d.available
<1> DEFINE after == RefreshAdvertisement(o, d, surplus, need, critical)
           selling == {r \in Resource : surplus[r] >= 2}
           seeking == {r \in Resource : need[r] > 0} \cup critical
           ttl == Min({AdTtl, MaxPublicationTtl, TicksLeft(o)})
           publish == [kind |-> "ADVERTISE", terms |-> <<selling, seeking>>,
                       expires |-> o.tick + ttl]
           withdraw == [kind |-> "WITHDRAW", id |-> CHOOSE i \in OwnAds(o) : TRUE]
           refresh == AdvertisementFor(o, surplus, need, critical)
<1>1. WellFormed(withdraw) /\ withdraw.kind = "WITHDRAW"
  BY DEF WellFormed
<1>2. ttl > 0 => o.tick + ttl \in Nat
  <2> DEFINE left == TicksLeft(o)
  <2>1. AdTtl \in Int /\ MaxPublicationTtl \in Int /\ left \in Int /\ o.tick \in Nat
    BY RulesAssumption DEF View, AdTtl, TicksLeft
  <2> HIDE DEF left
  <2>2. Min({AdTtl, MaxPublicationTtl, left}) \in {AdTtl, MaxPublicationTtl, left}
    BY <2>1, LeastOfThree
  <2>3. ttl \in Int
    BY <2>1, <2>2 DEF left
  <2> HIDE DEF ttl
  <2> QED
    BY <2>1, <2>3
<1>3. \/ refresh = <<>>
      \/ ~(ttl <= 0) /\ refresh = <<publish>>
      \/ refresh = <<withdraw>>
  <2> HIDE DEF ttl, selling, seeking
  <2> QED
    BY DEF AdvertisementFor, ttl, selling, seeking
<1>4. \/ after = d
      \/ ~(ttl <= 0) /\ after = Chosen(d, publish)
      \/ after = Chosen(d, withdraw)
  <2> DEFINE cmds == IF ComfortablySupplied(d.available)
                     THEN IF OwnAds(o) = {} THEN <<>> ELSE <<withdraw>>
                     ELSE refresh
  <2>1. after = IF d.budget > 0 /\ cmds # <<>> THEN Chosen(d, cmds[1]) ELSE d
    BY Zenon DEF RefreshAdvertisement
  <2> HIDE DEF publish, withdraw, refresh, ttl, after
  <2>2. \/ cmds = <<>>
        \/ ~(ttl <= 0) /\ cmds = <<publish>>
        \/ cmds = <<withdraw>>
    BY <1>3
  <2>3. <<publish>>[1] = publish /\ <<withdraw>>[1] = withdraw
    OBVIOUS
  <2> HIDE DEF cmds
  <2> QED
    BY <2>1, <2>2, <2>3
<1>5. ttl \in Int
  <2> DEFINE left == TicksLeft(o)
  <2>1. AdTtl \in Int /\ MaxPublicationTtl \in Int /\ left \in Int
    BY RulesAssumption DEF View, AdTtl, TicksLeft
  <2> HIDE DEF left
  <2>2. Min({AdTtl, MaxPublicationTtl, left}) \in {AdTtl, MaxPublicationTtl, left}
    BY <2>1, LeastOfThree
  <2> QED
    BY <2>1, <2>2 DEF left
<1> HIDE DEF ttl
<1>6. ~(ttl <= 0) => WellFormed(publish) /\ publish.kind = "ADVERTISE"
  <2>1. selling \in SUBSET Resource /\ seeking \in SUBSET Resource
    OBVIOUS
  <2>2. Selling(publish) = selling /\ Seeking(publish) = seeking
    BY DEF Selling, Seeking
  <2> HIDE DEF selling, seeking
  <2> QED
    BY <1>2, <1>5, <2>1, <2>2 DEF WellFormed
<1> HIDE DEF publish, withdraw
<1>7. \A cmd : Chosen(d, cmd).available = d.available
  BY DEF Chosen, StageOK
<1>8. StageOK(o, a, reserve, Chosen(d, withdraw))
  BY <1>1, StageAdds
<1>9. ~(ttl <= 0) => StageOK(o, a, reserve, Chosen(d, publish))
  BY <1>6, StageAdds
<1> HIDE DEF after
<1>10. StageOK(o, a, reserve, after) /\ after.available = d.available
  BY <1>4, <1>7, <1>8, <1>9
<1> QED
  BY <1>10 DEF after

-----------------------------------------------------------------------------
(* Prices *)

LEMMA PremiumIsPositive ==
    ASSUME NEW stock \in Nat
    PROVE  Premium(stock) \in Nat \ {0}
<1>1. CASE stock >= 7
  <2>1. stock >= 10 \/ stock \in {7, 8, 9}
    BY <1>1
  <2> QED
    BY <1>1, <2>1 DEF Premium, Unit
<1>2. CASE stock < 2
  BY <1>2 DEF Premium, MaxPremium, Unit
<1>3. ASSUME NEW i \in 1..5, stock = 7 - i
      PROVE  Premium(stock) \in Nat \ {0}
  <2> DEFINE up == <<5, 25, 125, 625, 3125>>
             down == <<4, 16, 64, 256, 1024>>
  <2>1. /\ ~(stock >= 7) /\ stock >= 2 /\ 7 - stock = i
        /\ ~(stock >= 10) /\ ~(stock >= 15) /\ ~(stock >= 20)
    BY <1>3
  <2>2. Premium(stock) = (25600 * up[i]) \div down[i]
    BY <2>1 DEF Premium, Unit
  <2>3. <<up[i], down[i]>> \in {<<5, 4>>, <<25, 16>>, <<125, 64>>, <<625, 256>>, <<3125, 1024>>}
    <3>1. i = 1 \/ i = 2 \/ i = 3 \/ i = 4 \/ i = 5
      OBVIOUS
    <3> QED
      BY <3>1
  <2> DEFINE x == up[i]
             y == down[i]
  <2>4. \/ x = 5 /\ y = 4
        \/ x = 25 /\ y = 16
        \/ x = 125 /\ y = 64
        \/ x = 625 /\ y = 256
        \/ x = 3125 /\ y = 1024
    <3> HIDE DEF up, down
    <3> QED
      BY <2>3
  <2> HIDE DEF x, y, up, down
  <2>5. (25600 * x) \div y \in Nat \ {0}
    BY <2>4
  <2> QED
    BY <2>2, <2>5 DEF x, y
<1>4. stock >= 7 \/ stock < 2 \/ \E i \in 1..5 : stock = 7 - i
  <2>1. stock \in 2..6 => 7 - stock \in 1..5 /\ stock = 7 - (7 - stock)
    OBVIOUS
  <2>2. stock >= 7 \/ stock < 2 \/ stock \in 2..6
    OBVIOUS
  <2> QED
    BY <2>1, <2>2
<1> QED
  BY <1>1, <1>2, <1>3, <1>4

LEMMA PricedIsNatural ==
    ASSUME NEW want \in Nat, NEW stock \in Nat
    PROVE  PricedGive(want, stock) \in Nat
<1> DEFINE price == Premium(stock)
           scaled == 2 * want * price + 10240
<1>1. price \in Nat
  BY PremiumIsPositive
<1> HIDE DEF price
<1>2. scaled \in Nat
  <2>1. 2 * want \in Nat
    OBVIOUS
  <2> DEFINE twice == 2 * want
  <2> HIDE DEF twice
  <2>2. twice * price \in Nat
    BY <1>1, <2>1 DEF twice
  <2> QED
    BY <2>2 DEF twice
<1>3. PricedGive(want, stock) = Max2(want, Min2(scaled \div 20480, 8 * want))
  BY DEF PricedGive, Unit, price
<1> HIDE DEF scaled
<1>4. scaled \div 20480 \in Int
  BY <1>2
<1> QED
  BY <1>3, <1>4 DEF Max2, Min2

\* What is asked for is paid with no more than can be afforded.
LEMMA TermsAreAffordable ==
    ASSUME NEW want \in Nat, NEW affordable \in Int, NEW limit \in {NoLimit, Half},
           NEW stock \in Nat, NEW endGame
    PROVE  LET terms == Terms(want, affordable, limit, stock, endGame)
           IN /\ terms[1] \in Nat /\ terms[2] \in Nat
              /\ terms[1] = 0 \/ terms[1] <= affordable
<1> DEFINE terms == Terms(want, affordable, limit, stock, endGame)
           OK(x, y) == x \in Nat /\ y \in Nat /\ (x = 0 \/ x <= affordable)
           some == Max2(1, Min2(want, affordable \div 2))
           many == Max2(1, (affordable * Unit) \div Premium(stock))
<1>1. \A x, y : terms = <<x, y>> /\ OK(x, y) => OK(terms[1], terms[2])
  <2> HIDE DEF terms
  <2> QED
    OBVIOUS
<1>2. CASE affordable <= 0
  <2>1. terms = <<0, want>>
    BY <1>2 DEF Terms
  <2>2. OK(0, want)
    OBVIOUS
  <2> HIDE DEF terms
  <2> QED
    BY <1>1, <2>1, <2>2 DEF terms
<1>3. CASE ~(affordable <= 0) /\ limit # NoLimit
  <2> DEFINE x == Min2(affordable, (want * limit) \div 2)
  <2>1. terms = <<x, want>>
    BY <1>3 DEF Terms
  <2>2. limit = 1
    BY <1>3 DEF Half
  <2>3. OK(x, want)
    BY <1>3, <2>2 DEF Min2
  <2> HIDE DEF terms, x
  <2> QED
    BY <1>1, <2>1, <2>3 DEF terms
<1>4. CASE ~(affordable <= 0) /\ limit = NoLimit /\ endGame
  <2> DEFINE x == Min2(affordable, 2 * some)
  <2>1. terms = <<x, some>>
    BY <1>4 DEF Terms
  <2>2. OK(x, some)
    <3>1. some \in Nat
      BY DEF Max2, Min2
    <3> HIDE DEF some
    <3> QED
      BY <1>4, <3>1 DEF Min2
  <2> HIDE DEF terms, x, some
  <2> QED
    BY <1>1, <2>1, <2>2 DEF terms
<1>5. CASE ~(affordable <= 0) /\ limit = NoLimit /\ ~endGame
  <2> DEFINE full == PricedGive(want, stock)
             part == Min2(affordable, PricedGive(many, stock))
  <2>1. terms = IF full <= affordable THEN <<full, want>> ELSE <<part, many>>
    BY <1>5 DEF Terms
  <2>2. full \in Nat
    BY PricedIsNatural
  <2>3. many \in Nat
    <3>1. Premium(stock) \in Nat \ {0} /\ affordable * Unit \in Int
      BY PremiumIsPositive DEF Unit
    <3> DEFINE price == Premium(stock)
               worth == affordable * Unit
    <3>2. price \in Nat \ {0} /\ worth \in Int
      BY <3>1
    <3> HIDE DEF price, worth
    <3>3. worth \div price \in Int
      BY <3>2
    <3> DEFINE n == worth \div price
    <3> HIDE DEF n
    <3>4. Max2(1, n) \in Nat
      BY <3>3 DEF Max2, n
    <3> QED
      BY <3>4 DEF n, worth, price
  <2>4. PricedGive(many, stock) \in Nat
    BY <2>3, PricedIsNatural
  <2> DEFINE partly == PricedGive(many, stock)
  <2>5. part = Min2(affordable, partly) /\ partly \in Nat
    BY <2>4
  <2> HIDE DEF many, full, part, partly, terms
  <2>6. OK(part, many)
    BY <1>5, <2>3, <2>5 DEF Min2
  <2>7. full <= affordable => OK(full, want)
    BY <2>2
  <2> HIDE DEF OK
  <2> QED
    BY <1>1, <2>1, <2>6, <2>7 DEF terms, OK
<1>6. OK(terms[1], terms[2])
  <2> HIDE DEF terms
  <2> QED
    BY <1>2, <1>3, <1>4, <1>5 DEF OK, terms
<1> QED
  BY <1>6

-----------------------------------------------------------------------------
(* What is wanted *)

LEMMA LeastOfOne ==
    ASSUME NEW x \in Int
    PROVE  Min({x}) = x
<1>1. x \in {x} /\ \A y \in {x} : x <= y
  OBVIOUS
<1>2. Min({x}) \in {x}
  BY <1>1 DEF Min
<1> QED
  BY <1>2

LEMMA MostOfFour ==
    ASSUME NEW a \in Int, NEW b \in Int, NEW c \in Int, NEW d \in Int
    PROVE  Max({a, b, c, d}) \in Int
<1> DEFINE S == {a, b, c, d}
<1>1. \E x \in S : \A y \in S : x >= y
  OBVIOUS
<1>2. Max(S) \in S
  BY <1>1 DEF Max
<1> QED
  BY <1>2

LEMMA CeilingIsInteger ==
    ASSUME NEW sp \in Resource, NEW r \in Resource, r # sp, NEW available \in Bundle
    PROVE  ImportCeiling(r, available, sp) \in Int
<1> DEFINE S == {available[q] : q \in Imports(sp) \ {r}}
<1>1. PICK q \in Resource : Imports(sp) \ {r} = {q}
  BY DEF Imports, Resource
<1>2. S = {available[q]} /\ available[q] \in Nat
  BY <1>1 DEF Bundle
<1>3. Min(S) = available[q]
  <2> DEFINE x == available[q]
  <2>1. S = {x} /\ x \in Int
    BY <1>2
  <2> HIDE DEF S, x
  <2> QED
    BY <2>1, LeastOfOne DEF x
<1>4. Min(S) \in Int
  BY <1>2, <1>3
<1>5. ImportCeiling(r, available, sp) = Max2(40, 10 + Min(S))
  BY DEF ImportCeiling, WatchStock, BalanceGap
<1> HIDE DEF S
<1> QED
  BY <1>4, <1>5 DEF Max2

LEMMA WantedIsInteger ==
    ASSUME NEW o, View(o), NEW available \in Bundle, NEW reserve \in Bundle,
           NEW deficit \in Bundle, NEW r \in Resource
    PROVE  Wanted(o, available, reserve, deficit)[r] \in Int
<1> DEFINE sp == o.specialty
           have == available[r]
           short == deficit[r]
           ceiling == Min2(ImportCeiling(r, available, sp), StockCap)
           target == Max2(WatchStock, 2 * reserve[r])
           bulk == TradeSize(available[sp] - NormalFloor(o)) > SmallTrade
           fill == IF bulk THEN ceiling - have ELSE 0
           most == Max({short, target - have, 5, fill})
           wanted == Wanted(o, available, reserve, deficit)
<1>1. have \in Nat /\ short \in Nat /\ reserve[r] \in Nat /\ sp \in Resource
  BY DEF View, Bundle
<1>2. wanted[r] = IF r = sp \/ have >= StockCap \/ have > ceiling THEN short
                  ELSE Min2(StockCap - have, most)
  BY DEF Wanted, Bundled
<1>3. CASE r = sp
  BY <1>1, <1>2, <1>3
<1>4. CASE r # sp
  <2>1. ImportCeiling(r, available, sp) \in Int
    BY <1>1, <1>4, CeilingIsInteger
  <2>2. ceiling \in Int /\ target \in Int
    BY <1>1, <2>1 DEF Min2, Max2, StockCap, WatchStock
  <2> HIDE DEF ceiling, target, bulk, have, short
  <2>3. fill \in Int /\ target - have \in Int
    BY <1>1, <2>2
  <2> DEFINE gap == target - have
  <2>4. gap \in Int /\ 5 \in Int /\ short \in Int
    BY <1>1, <2>3
  <2> HIDE DEF fill, gap
  <2>5. Max({short, gap, 5, fill}) \in Int
    BY <2>3, <2>4, MostOfFour
  <2>6. most \in Int
    BY <2>5 DEF gap
  <2>7. wanted[r] = IF have >= StockCap \/ have > ceiling THEN short
                    ELSE Min2(StockCap - have, most)
    BY <1>2, <1>4
  <2> HIDE DEF most, wanted
  <2>8. wanted[r] \in Int
    BY <1>1, <2>6, <2>7 DEF Min2, StockCap
  <2> QED
    BY <2>8 DEF wanted
<1> QED
  BY <1>3, <1>4

\* The terms of an offer are paid out of the surplus.
TermsOK(terms, spare) ==
    terms[1] \in Nat /\ terms[2] \in Nat /\ (terms[1] = 0 \/ terms[1] <= spare)

LEMMA TermsUnderOK ==
    ASSUME NEW o, View(o), NEW c, c.give \in Resource, c.want \in Resource, NEW d,
           d.available \in Bundle, NEW surplus \in Bundle, NEW wanted,
           \A r \in Resource : wanted[r] \in Int, NEW keepNormal,
           NEW limit \in {NoLimit, Half}
    PROVE  TermsOK(TermsUnder(limit, o, c, d, surplus, wanted, keepNormal), surplus[c.give])
<1> DEFINE sp == o.specialty
           left == TicksLeft(o)
           end == InEndGame(left)
           floor == FloorUnder(o, limit, keepNormal)
           last == SpecialtyFloor(o, left)
           have == d.available[sp]
           size == IF end THEN BulkTrade ELSE TradeSize(have - last)
           payable == IF c.give # sp THEN surplus[c.give] ELSE Min2(surplus[sp], have - floor)
           spare == surplus[c.give]
           stock == d.available[c.want]
           short == wanted[c.want]
           want == DesiredQuantity(short, stock, size)
           terms == TermsUnder(limit, o, c, d, surplus, wanted, keepNormal)
           final == Terms(want, payable, limit, stock, end /\ c.give = sp)
<1>1. /\ have \in Nat /\ stock \in Nat /\ surplus[sp] \in Nat /\ spare \in Nat
      /\ o.upkeep[sp] \in Nat /\ sp \in Resource /\ short \in Int
  BY DEF View, Bundle
<1>2. left \in Int
  BY RulesAssumption DEF View, TicksLeft
<1>3. last \in Int
  <2> DEFINE n == IF InEndGame(left) THEN Min2(NormalTicks, left + 1) ELSE NormalTicks
             upkeep == o.upkeep[sp]
  <2> HIDE DEF left
  <2>1. n \in Int /\ upkeep \in Int
    BY <1>1, <1>2 DEF Min2, NormalTicks
  <2>2. last = n * upkeep
    BY DEF SpecialtyFloor, NormalFloor
  <2> HIDE DEF n, upkeep, last
  <2> QED
    BY <2>1, <2>2
<1>4. floor \in Int
  <2> DEFINE n == IF limit = NoLimit \/ keepNormal THEN NormalTicks ELSE StopTicks
             upkeep == o.upkeep[sp]
  <2>1. n \in Int /\ upkeep \in Int
    BY <1>1 DEF NormalTicks, StopTicks
  <2>2. floor = IF end THEN last ELSE n * upkeep
    BY DEF FloorUnder
  <2> HIDE DEF n, upkeep, floor, last
  <2>3. n * upkeep \in Int
    BY <2>1
  <2> QED
    BY <1>3, <2>2, <2>3
<1>5. terms = IF have < floor THEN <<0, 1>> ELSE final
  BY Zenon DEF TermsUnder
<1> HIDE DEF have, floor, last, left, end, stock, short, terms
<1>6. size \in Int
  <2>1. (have - last) \div 4 \in Int
    BY <1>1, <1>3
  <2> QED
    BY <1>1, <1>3, <2>1 DEF TradeSize, Max2, Min2, BulkTrade, SmallTrade
<1>7. payable \in Int /\ payable <= spare
  BY <1>1, <1>4 DEF Min2
<1> HIDE DEF size, payable
<1>8. want \in Nat
  BY <1>1, <1>6 DEF DesiredQuantity, Max2, Min2, SmallTrade
<1> HIDE DEF want
<1>9. /\ final[1] \in Nat /\ final[2] \in Nat
      /\ final[1] = 0 \/ final[1] <= payable
  BY <1>1, <1>7, <1>8, TermsAreAffordable
<1> HIDE DEF final, spare
<1>10. TermsOK(final, spare)
  BY <1>1, <1>7, <1>9 DEF TermsOK
<1>11. TermsOK(<<0, 1>>, spare)
  BY DEF TermsOK
<1>12. TermsOK(terms, spare)
  BY <1>5, <1>10, <1>11
<1> QED
  BY <1>12 DEF terms, spare

LEMMA TermsForOK ==
    ASSUME NEW o, View(o), NEW c, c.give \in Resource, c.want \in Resource, NEW d,
           d.available \in Bundle, NEW surplus \in Bundle, NEW wanted,
           \A r \in Resource : wanted[r] \in Int, NEW keepNormal
    PROVE  TermsOK(TermsFor(o, c, d, surplus, wanted, keepNormal), surplus[c.give])
<1> DEFINE full == TermsUnder(NoLimit, o, c, d, surplus, wanted, keepNormal)
           half == TermsUnder(Half, o, c, d, surplus, wanted, keepNormal)
           terms == TermsFor(o, c, d, surplus, wanted, keepNormal)
<1>1. NoLimit \in {NoLimit, Half} /\ Half \in {NoLimit, Half}
  OBVIOUS
<1>2. TermsOK(full, surplus[c.give]) /\ TermsOK(half, surplus[c.give])
  BY <1>1, TermsUnderOK
<1>3. terms = full \/ terms = half
  BY Zenon DEF TermsFor
<1> HIDE DEF full, half, terms
<1>4. TermsOK(terms, surplus[c.give])
  BY <1>2, <1>3
<1> QED
  BY <1>4 DEF terms

-----------------------------------------------------------------------------
(* Proposing *)

Candidate == [station : Station, want : Resource, give : Resource]

LEMMA PairingsAreSequence == \E T : Pairings \in Seq(T)
<1> DEFINE n == 3 * Len(Roster)
           T == {Pairings[k] : k \in 1..n}
<1>1. Len(Roster) \in Nat
  BY RosterOrder
<1>2. n \in Nat
  BY <1>1
<1>3. Pairings = [k \in 1..n |-> Pairings[k]]
  BY DEF Pairings
<1> DEFINE q == Pairings
<1> HIDE DEF q, n
<1>4. q = [k \in 1..n |-> q[k]]
  BY <1>3 DEF q
<1>5. q \in Seq({q[k] : k \in 1..n})
  BY <1>2, <1>4
<1> QED
  BY <1>5 DEF q, n

LEMMA BestOptionIsCandidate ==
    ASSUME NEW o, NEW m, NEW want \in Resource, NEW surplus, NEW pending
    PROVE  BestOption(o, m, want, surplus, pending) \in Seq(Candidate)
<1> DEFINE options == Options(o, want, surplus, pending)
           rank == [x \in options |->
                      <<Flag(x[2] = o.specialty),
                        Score(m.stats[x[1]], want, x[2], o.tick), surplus[x[2]]>>]
           best == FirstBest(Pairings, options, rank)
           c == [station |-> best[1][1], want |-> want, give |-> best[1][2]]
           option == BestOption(o, m, want, surplus, pending)
<1>1. AtMostOne(best, options)
  <2> HIDE DEF rank, options
  <2>1. PICK T : Pairings \in Seq(T)
    BY PairingsAreSequence
  <2> QED
    BY <2>1, BestIsOne
<1>2. options \subseteq Station \X Resource
  BY DEF Options
<1>3. option = IF best = <<>> THEN <<>> ELSE <<c>>
  BY Zenon DEF BestOption
<1> HIDE DEF options, best, option
<1>4. best # <<>> => c \in Candidate
  <2> SUFFICES ASSUME best # <<>>
               PROVE  c \in Candidate
    OBVIOUS
  <2>1. PICK x \in options : best = <<x>>
    BY <1>1 DEF AtMostOne
  <2>2. x[1] \in Station /\ x[2] \in Resource /\ best[1] = x
    BY <1>2, <2>1
  <2> QED
    BY <2>2 DEF Candidate
<1> HIDE DEF c
<1>5. option \in Seq(Candidate)
  BY <1>3, <1>4
<1> QED
  BY <1>5 DEF option

CandidateOp(o, m, surplus, pending, found, want) ==
    found \o BestOption(o, m, want, surplus, pending)
CandidateHolds(ctx, k, found) == found \in Seq(Candidate)

Asking == INSTANCE FoldProofs WITH Op <- CandidateOp, Holds <- CandidateHolds

LEMMA CandidatesAreTyped ==
    ASSUME NEW o, NEW m, NEW urgency, NEW wanted, NEW surplus, NEW pending
    PROVE  Candidates(o, m, urgency, wanted, surplus, pending) \in Seq(Candidate)
<1> DEFINE needs == Needs(urgency, wanted)
           all == Asking!Folded(o, m, surplus, pending, <<>>, needs)
<1>1. all = Candidates(o, m, urgency, wanted, surplus, pending)
  BY DEF Candidates, Asking!Folded, FoldLeft, MapThenFoldSet,
         Asking!FoldLeft, Asking!MapThenFoldSet, Max, Asking!Max, CandidateOp
<1>2. needs \in Seq(Resource)
  BY NeedsAreDistinct DEF Distinct
<1> HIDE DEF needs
<1>3. CandidateHolds(0, 0, <<>>)
  BY DEF CandidateHolds
<1>4. ASSUME NEW k \in 1..Len(needs), NEW acc, CandidateHolds(0, k - 1, acc)
      PROVE  CandidateHolds(0, k, CandidateOp(o, m, surplus, pending, acc, needs[k]))
  <2> DEFINE option == BestOption(o, m, needs[k], surplus, pending)
  <2>1. option \in Seq(Candidate)
    BY <1>2, BestOptionIsCandidate
  <2> HIDE DEF option
  <2>2. acc \o option \in Seq(Candidate)
    BY <1>4, <2>1 DEF CandidateHolds
  <2> QED
    BY <2>2 DEF CandidateHolds, CandidateOp, option
<1>5. CandidateHolds(0, Len(needs), all)
  BY <1>2, <1>3, <1>4, Asking!FoldKeeps
<1> HIDE DEF all
<1> QED
  BY <1>1, <1>5 DEF CandidateHolds

\* What is offered to the candidates comes out of one balance beside the reserve.
ProposeOp(o, wanted, c, d, acc, candidate) == Asked(o, wanted, acc, candidate)
ProposeHolds(ctx, k, acc) ==
    /\ StageOK(ctx[1], ctx[2], ctx[3], acc.d)
    /\ acc.surplus \in Bundle
    /\ \A r \in Resource : acc.surplus[r] <= SaturatingSub(acc.d.available, ctx[3])[r]

Proposals == INSTANCE FoldProofs WITH Op <- ProposeOp, Holds <- ProposeHolds

LEMMA ProposedKeeps ==
    ASSUME NEW o, View(o), CanOffer(o), NEW a, NEW reserve \in Bundle, NEW acc,
           ProposeHolds(<<o, a, reserve>>, 0, acc), NEW p, NEW give \in Resource,
           NEW want \in Resource, NEW n \in Nat, n <= acc.surplus[give], NEW asked \in Nat
    PROVE  ProposeHolds(<<o, a, reserve>>, 0,
                        Proposed(o, acc, p, Single(give, n), Single(want, asked)))
<1> DEFINE out == Single(give, n)
           in == Single(want, asked)
           have == acc.d.available
           spare == acc.surplus
           cmd == OfferUntil(o, p, out, in)
           left == SaturatingSub(have, out)
           rest == SaturatingSub(spare, out)
           e == [Chosen(acc.d, cmd) EXCEPT !.available = left]
           next == Proposed(o, acc, p, out, in)
<1>1. /\ StageOK(o, a, reserve, acc.d) /\ spare \in Bundle
      /\ \A r \in Resource : spare[r] <= SaturatingSub(have, reserve)[r]
  BY DEF ProposeHolds
<1>2. have \in Bundle
  BY <1>1 DEF StageOK
<1>3. out \in Bundle /\ in \in Bundle
  BY ProducedBundle
<1>4. \A r \in Resource : out[r] <= spare[r]
  <2> DEFINE s == spare
  <2>1. s \in [Resource -> Nat] /\ n <= s[give]
    BY <1>1 DEF Bundle
  <2> HIDE DEF s
  <2>2. \A r \in Resource : out[r] <= s[r]
    BY <2>1 DEF Single
  <2> QED
    BY <2>2 DEF s
<1>5. /\ cmd.kind = "OFFER" /\ Give(cmd) = out /\ Receive(cmd) = in /\ cmd.expires \in Nat
  <2>1. o.tick + Min({OfferTtl, MaxOfferTtl, TicksLeft(o)}) \in Nat
    BY DeadlineIsNatural
  <2> QED
    BY <2>1, Zenon DEF OfferUntil, Give, Receive
<1>6. /\ next.d = e /\ next.surplus = rest
  <2>1. e = [Chosen(acc.d, cmd) EXCEPT !.available = SaturatingSub(@, out)]
    BY <1>1 DEF Chosen, StageOK
  <2> HIDE DEF e
  <2> QED
    BY <2>1 DEF Proposed
<1> HIDE DEF out, in, cmd, have, spare, next
<1>7. ASSUME NEW r \in Resource
      PROVE  /\ out[r] <= SaturatingSub(have, reserve)[r]
             /\ rest[r] <= SaturatingSub(left, reserve)[r]
  <2>1. /\ out[r] \in Nat /\ spare[r] \in Nat /\ have[r] \in Nat /\ reserve[r] \in Nat
        /\ out[r] <= spare[r]
    BY <1>1, <1>2, <1>3, <1>4 DEF Bundle
  <2>2. /\ SaturatingSub(have, reserve)[r] =
               IF have[r] > reserve[r] THEN have[r] - reserve[r] ELSE 0
        /\ left[r] = IF have[r] > out[r] THEN have[r] - out[r] ELSE 0
        /\ rest[r] = IF spare[r] > out[r] THEN spare[r] - out[r] ELSE 0
    BY DEF SaturatingSub
  <2>3. SaturatingSub(left, reserve)[r] =
               IF left[r] > reserve[r] THEN left[r] - reserve[r] ELSE 0
    <3> HIDE DEF left
    <3> QED
      BY DEF SaturatingSub
  <2>4. spare[r] <= SaturatingSub(have, reserve)[r]
    BY <1>1
  <2> HIDE DEF left, rest
  <2> QED
    BY <2>1, <2>2, <2>3, <2>4
<1>8. left \in Bundle /\ rest \in Bundle
  BY <1>1, <1>2, <1>3, BundleArithmetic
<1>9. Affords(o.offers, cmd, have, left, reserve)
  BY <1>2, <1>3, <1>5, <1>7, OfferIsAfforded
<1> HIDE DEF left, rest
<1>10. StageOK(o, a, reserve, e)
  BY <1>1, <1>8, <1>9, StageChooses DEF have
<1>11. e.available = left
  BY <1>1 DEF Chosen, StageOK
<1> HIDE DEF e
<1>12. ProposeHolds(<<o, a, reserve>>, 0, next)
  BY <1>6, <1>7, <1>8, <1>10, <1>11 DEF ProposeHolds
<1> QED
  BY <1>12 DEF next, out, in

LEMMA ProposeStage ==
    ASSUME NEW o, View(o), NEW a, NEW reserve \in Bundle, NEW d, StageOK(o, a, reserve, d),
           NEW surplus \in Bundle,
           \A r \in Resource : surplus[r] <= SaturatingSub(d.available, reserve)[r],
           NEW wanted, \A r \in Resource : wanted[r] \in Int, NEW urgency
    PROVE  ProposeHolds(<<o, a, reserve>>, 0, ProposeOffers(o, d, surplus, wanted, urgency))
<1> DEFINE ctx == <<o, a, reserve>>
           start == [d |-> d, surplus |-> surplus,
                     room |-> MaxOpenOffers - Len(o.outgoing),
                     keepNormal |-> HasNormalOffers(o)]
           candidates == Candidates(o, d.memory, urgency, wanted, surplus, Pending(o))
           all == Proposals!Folded(o, wanted, 0, 0, start, candidates)
           after == ProposeOffers(o, d, surplus, wanted, urgency)
<1>1. all = FoldLeft(LAMBDA acc, c : Asked(o, wanted, acc, c), start, candidates)
  BY DEF Proposals!Folded, FoldLeft, MapThenFoldSet, Proposals!FoldLeft,
         Proposals!MapThenFoldSet, Max, Proposals!Max, ProposeOp
<1>2. after = IF start.room <= 0 \/ ~CanOffer(o) THEN start
              ELSE FoldLeft(LAMBDA acc, c : Asked(o, wanted, acc, c), start, candidates)
  BY DEF ProposeOffers
<1>3. candidates \in Seq(Candidate)
  BY CandidatesAreTyped
<1>4. ProposeHolds(ctx, 0, start)
  BY DEF ProposeHolds
<1> HIDE DEF candidates, start
<1>5. ASSUME CanOffer(o), NEW k \in 1..Len(candidates), NEW acc, ProposeHolds(ctx, k - 1, acc)
      PROVE  ProposeHolds(ctx, k, ProposeOp(o, wanted, 0, 0, acc, candidates[k]))
  <2> DEFINE c == candidates[k]
             terms == TermsFor(o, c, acc.d, acc.surplus, wanted, acc.keepNormal)
             made == Proposed(o, acc, c.station, Single(c.give, terms[1]),
                              Single(c.want, terms[2]))
             next == Asked(o, wanted, acc, c)
  <2>1. c \in Candidate
    BY <1>3
  <2>2. c.give \in Resource /\ c.want \in Resource
    BY <2>1 DEF Candidate
  <2>3. ProposeHolds(ctx, 0, acc) /\ StageOK(o, a, reserve, acc.d) /\ acc.surplus \in Bundle
    BY <1>5 DEF ProposeHolds
  <2>4. acc.d.available \in Bundle
    BY <2>3 DEF StageOK
  <2> HIDE DEF c
  <2>5. TermsOK(terms, acc.surplus[c.give])
    <3> DEFINE dd == acc.d
               ss == acc.surplus
               kk == acc.keepNormal
    <3>1. dd.available \in Bundle /\ ss \in Bundle
      BY <2>3, <2>4
    <3> HIDE DEF dd, ss, kk
    <3>2. TermsOK(TermsFor(o, c, dd, ss, wanted, kk), ss[c.give])
      BY <2>2, <3>1, TermsForOK
    <3> QED
      BY <3>2 DEF dd, ss, kk
  <2>6. next = acc \/ (terms[1] # 0 /\ next = made)
    BY Zenon DEF Asked, ProposedOn
  <2> HIDE DEF terms, next
  <2> HIDE DEF ctx
  <2>7. ASSUME terms[1] # 0
        PROVE  ProposeHolds(ctx, 0, made)
    <3>1. terms[1] \in Nat /\ terms[2] \in Nat /\ terms[1] <= acc.surplus[c.give]
      BY <2>5, <2>7 DEF TermsOK
    <3> DEFINE n == terms[1]
               asked == terms[2]
               p == c.station
               give == c.give
               want == c.want
    <3>2. n \in Nat /\ asked \in Nat /\ n <= acc.surplus[give] /\ give \in Resource
          /\ want \in Resource
      BY <2>2, <3>1
    <3> HIDE DEF n, asked, p, give, want
    <3>3. ProposeHolds(<<o, a, reserve>>, 0, acc)
      BY <2>3 DEF ctx
    <3>4. ProposeHolds(<<o, a, reserve>>, 0,
                       Proposed(o, acc, p, Single(give, n), Single(want, asked)))
      BY <1>5, <3>2, <3>3, ProposedKeeps
    <3> QED
      BY <3>4 DEF ctx, n, asked, p, give, want
  <2> HIDE DEF made
  <2>8. ProposeHolds(ctx, 0, next)
    BY <2>3, <2>6, <2>7
  <2>9. ProposeHolds(ctx, k, next)
    BY <2>8 DEF ProposeHolds
  <2> QED
    BY <2>9 DEF next, c, ProposeOp
<1> HIDE DEF ctx
<1>6. CanOffer(o) => ProposeHolds(ctx, Len(candidates), all)
  BY <1>3, <1>4, <1>5, Proposals!FoldKeeps
<1> HIDE DEF all, after
<1>7. CanOffer(o) => ProposeHolds(ctx, 0, all)
  BY <1>6 DEF ProposeHolds
<1>8. ProposeHolds(ctx, 0, after)
  BY <1>1, <1>2, <1>4, <1>7
<1> QED
  BY <1>8 DEF after, ctx

\* The gift to a station in distress is a part of the surplus.
LEMMA AidStage ==
    ASSUME NEW o, View(o), NEW a, NEW reserve \in Bundle, NEW d, StageOK(o, a, reserve, d),
           NEW surplus \in Bundle,
           \A r \in Resource : surplus[r] <= SaturatingSub(d.available, reserve)[r],
           NEW urgency
    PROVE  StageOK(o, a, reserve, OfferAid(o, d, surplus, reserve, urgency))
<1> DEFINE needs == {x \in (Station \ {o.station}) \X Resource :
                    /\ d.memory.stats[x[1]].streak[x[2]] >= DistressTicks
                    /\ surplus[x[2]] > 0
                    /\ GiftIsDue(d.memory, x[1], x[2], o.tick, DistressCooldown)}
           key == [x \in needs |-> <<d.memory.stats[x[1]].streak[x[2]]>>]
           best == FirstBest(Pairings, needs, key)
           help == [station |-> best[1][1], resource |-> best[1][2],
                    quantity |-> DonationSize(surplus[best[1][2]])]
           gifts == Distress(o, d.memory, surplus, urgency)
           g == gifts[1]
           after == OfferAid(o, d, surplus, reserve, urgency)
           given == Gift(o, d, g.station, g.resource, g.quantity)
<1>1. gifts = <<>> \/ (best # <<>> /\ gifts = <<help>>)
  BY Zenon DEF Distress
<1>2. AtMostOne(best, needs)
  <2> HIDE DEF needs, key
  <2>1. PICK T : Pairings \in Seq(T)
    BY PairingsAreSequence
  <2> QED
    BY <2>1, BestIsOne
<1>3. \A x \in needs : x[2] \in Resource /\ surplus[x[2]] > 0
  OBVIOUS
<1> HIDE DEF needs, best, gifts
<1>4. gifts # <<>> => /\ g.resource \in Resource /\ g.quantity \in Nat
                      /\ g.quantity <= surplus[g.resource]
  <2> SUFFICES ASSUME gifts # <<>>
               PROVE  /\ g.resource \in Resource /\ g.quantity \in Nat
                      /\ g.quantity <= surplus[g.resource]
    OBVIOUS
  <2>1. PICK x \in needs : best = <<x>>
    BY <1>1, <1>2 DEF AtMostOne
  <2>2. best[1] = x /\ g = help
    BY <1>1, <2>1
  <2>3. g.resource = x[2] /\ g.quantity = DonationSize(surplus[x[2]])
    BY <2>2
  <2> DEFINE have == surplus[x[2]]
  <2>4. have \in Nat /\ have > 0
    BY <1>3 DEF Bundle
  <2> HIDE DEF have
  <2>5. DonationSize(have) \in Nat /\ DonationSize(have) <= have
    BY <2>4 DEF DonationSize, Max2
  <2> QED
    BY <1>3, <2>3, <2>5 DEF have
<1>5. after = d \/ (CanOffer(o) /\ gifts # <<>> /\ after = given)
  BY DEF OfferAid, gifts
<1> HIDE DEF after
<1>6. ASSUME CanOffer(o), gifts # <<>>
      PROVE  StageOK(o, a, reserve, given)
  <2> DEFINE p == g.station
             r == g.resource
             n == g.quantity
  <2>1. r \in Resource /\ n \in Nat /\ n <= SaturatingSub(d.available, reserve)[r]
    <3>1. r \in Resource /\ n \in Nat /\ n <= surplus[r]
      BY <1>4, <1>6
    <3> HIDE DEF n, r
    <3>2. surplus[r] <= SaturatingSub(d.available, reserve)[r]
      BY <3>1
    <3>3. surplus[r] \in Nat
      BY <3>1 DEF Bundle
    <3>4. SaturatingSub(d.available, reserve)[r] \in Nat
      <4>1. SaturatingSub(d.available, reserve) \in Bundle
        BY BundleArithmetic DEF StageOK
      <4> QED
        BY <3>1, <4>1 DEF Bundle
    <3> QED
      BY <3>1, <3>2, <3>3, <3>4
  <2> HIDE DEF p, r, n
  <2>2. StageOK(o, a, reserve, Gift(o, d, p, r, n))
    BY <1>6, <2>1, GiftStage
  <2> QED
    BY <2>2 DEF p, r, n
<1> HIDE DEF given
<1>7. StageOK(o, a, reserve, after)
  BY <1>5, <1>6
<1> QED
  BY <1>7 DEF after

-----------------------------------------------------------------------------
(* The decision *)

LEMMA LastStage ==
    ASSUME NEW o, View(o), NEW a, NEW reserve \in Bundle, NEW done,
           ProposeHolds(<<o, a, reserve>>, 0, done), NEW urgency
    PROVE  StageOK(o, a, reserve, LastThings(o, done, reserve, urgency))
<1> DEFINE d == done.d
           held == d.deferred
           now == UrgencyOf(d.available, o.upkeep, reserve)
           more == AcceptIncoming(o, d, held, reserve, now, {})
           rest == SaturatingSub(more.available, reserve)
           early == OfferAid(o, d, done.surplus, reserve, urgency)
           late == OfferAid(o, more, rest, reserve, now)
           after == LastThings(o, done, reserve, urgency)
<1>1. after = early \/ after = late
  BY Zenon DEF LastThings
<1>2. /\ StageOK(o, a, reserve, d) /\ done.surplus \in Bundle
      /\ \A r \in Resource : done.surplus[r] <= SaturatingSub(d.available, reserve)[r]
  BY DEF ProposeHolds
<1>3. held \in Seq(DOMAIN o.offers)
  BY <1>2 DEF StageOK
<1> HIDE DEF d, held, now, after
<1>4. StageOK(o, a, reserve, early)
  <2> DEFINE s == done.surplus
  <2>1. s \in Bundle /\ \A r \in Resource : s[r] <= SaturatingSub(d.available, reserve)[r]
    BY <1>2
  <2> HIDE DEF s
  <2>2. StageOK(o, a, reserve, OfferAid(o, d, s, reserve, urgency))
    BY <1>2, <2>1, AidStage
  <2> QED
    BY <2>2 DEF s
<1>5. StageOK(o, a, reserve, more)
  BY <1>2, <1>3, AcceptStage
<1> HIDE DEF more
<1>6. rest \in Bundle /\ \A r \in Resource :
         rest[r] <= SaturatingSub(more.available, reserve)[r]
  <2>1. rest \in Bundle
    BY <1>5, BundleArithmetic DEF StageOK
  <2> DEFINE s == rest
  <2>2. s \in [Resource -> Nat]
    BY <2>1 DEF Bundle
  <2> HIDE DEF s
  <2>3. \A r \in Resource : s[r] <= s[r]
    BY <2>2
  <2> QED
    BY <2>1, <2>3 DEF s
<1>7. StageOK(o, a, reserve, late)
  <2> DEFINE s == rest
  <2>1. s \in Bundle /\ \A r \in Resource : s[r] <= SaturatingSub(more.available, reserve)[r]
    BY <1>6
  <2> HIDE DEF s
  <2>2. StageOK(o, a, reserve, OfferAid(o, more, s, reserve, now))
    BY <1>5, <2>1, AidStage
  <2> QED
    BY <2>2 DEF s
<1> HIDE DEF early, late
<1>8. StageOK(o, a, reserve, after)
  BY <1>1, <1>4, <1>7
<1> QED
  BY <1>8 DEF after

LEMMA MarketStage ==
    ASSUME NEW o, View(o), NEW a, NEW reserve \in Bundle, NEW d, StageOK(o, a, reserve, d),
           NEW urgency, NEW deficit \in Bundle, NEW excess
    PROVE  StageOK(o, a, reserve, AfterGifts(o, d, reserve, urgency, deficit, excess))
<1> DEFINE wanted == Wanted(o, d.available, reserve, deficit)
           surplus == SaturatingSub(d.available, reserve)
           need == Bundled(LAMBDA r : IF excess[r] = 0 THEN wanted[r] ELSE 0)
           offered == Bundled(LAMBDA r :
                         IF /\ wanted[r] = 0 \/ excess[r] > 0
                            /\ PaymentLimit(d.available, o, TicksLeft(o)) # 0
                         THEN surplus[r] ELSE 0)
           critical == {r \in Resource : urgency[r] = Critical}
           e == RefreshAdvertisement(o, d, offered, need, critical)
           done == ProposeOffers(o, e, surplus, wanted, urgency)
           after == AfterGifts(o, d, reserve, urgency, deficit, excess)
<1>1. after = LastThings(o, done, reserve, urgency)
  BY DEF AfterGifts, OnTheMarket
<1>2. d.available \in Bundle
  BY DEF StageOK
<1>3. \A r \in Resource : wanted[r] \in Int
  BY <1>2, WantedIsInteger
<1>4. surplus \in Bundle
  BY <1>2, BundleArithmetic
<1>5. StageOK(o, a, reserve, e) /\ e.available = d.available
  <2>1. critical \in SUBSET Resource
    OBVIOUS
  <2> HIDE DEF offered, need, critical
  <2> QED
    BY <2>1, AdvertiseStage
<1>6. surplus = SaturatingSub(e.available, reserve)
  BY <1>5
<1> HIDE DEF e, wanted, surplus, after
<1>7. \A r \in Resource : surplus[r] <= SaturatingSub(e.available, reserve)[r]
  <2>1. \A r \in Resource : surplus[r] <= surplus[r]
    BY <1>4 DEF Bundle
  <2> QED
    BY <1>6, <2>1
<1>8. ProposeHolds(<<o, a, reserve>>, 0, done)
  BY <1>3, <1>4, <1>5, <1>7, ProposeStage
<1> HIDE DEF done
<1>9. StageOK(o, a, reserve, after)
  BY <1>1, <1>8, LastStage
<1> QED
  BY <1>9 DEF after

LEMMA TradingStage ==
    ASSUME NEW o, View(o), NEW a, NEW reserve \in Bundle,
           \A r \in Resource : reserve[r] <= 15, NEW d, StageOK(o, a, reserve, d),
           NEW urgency
    PROVE  StageOK(o, a, reserve, Trading(o, d, reserve, urgency))
<1> DEFINE hold == HoldFor(o, d.available, urgency)
           e == AcceptIncoming(o, d, o.incoming, reserve, urgency, hold)
           w == WithdrawDangerous(o, e, reserve)
           excess == ExcessOverCap(e.available)
           g == GiveExcess(o, w, excess)
           deficit == SaturatingSub(reserve, e.available)
           now == UrgencyOf(e.available, o.upkeep, reserve)
           after == Trading(o, d, reserve, urgency)
<1>1. after = AfterGifts(o, g, reserve, now, deficit, excess)
  BY DEF Trading, AfterAccepts
<1>2. o.incoming \in Seq(DOMAIN o.offers)
  BY DEF View
<1> HIDE DEF hold, after
<1>3. StageOK(o, a, reserve, e)
  BY <1>2, AcceptStage
<1> HIDE DEF e
<1>4. StageOK(o, a, reserve, w) /\ w.available = e.available
  BY <1>3, WithdrawStage
<1> HIDE DEF w
<1>5. excess = ExcessOverCap(w.available)
  BY <1>4
<1> HIDE DEF excess
<1>6. StageOK(o, a, reserve, g)
  BY <1>4, <1>5, GiveStage
<1> HIDE DEF g
<1>7. deficit \in Bundle
  BY <1>3, BundleArithmetic DEF StageOK
<1> HIDE DEF deficit, now
<1>8. StageOK(o, a, reserve, after)
  BY <1>1, <1>6, <1>7, MarketStage
<1> QED
  BY <1>8 DEF after

\* A whole batch can be paid from what was available, without reaching into the
\* reserve for less than it brings.
LEMMA DecisionIsPaid ==
    ASSUME NEW o, View(o), NEW m, MemoryOK(m), NEW available \in Bundle,
           available = SaturatingSub(o.inventory, Promised(o))
    PROVE  LET d == Decide(o, m)
           IN /\ d.reserve \in Bundle
              /\ StageOK(o, available, d.reserve, d.outcome)
<1> DEFINE seen == Observe(m, o)
           kept == Stocked(o, seen, available)
           reserve == Reserve(o, kept)
           start == [budget |-> CommandsPerTick, available |-> available, memory |-> kept,
                     commands |-> <<>>, deferred |-> <<>>]
           urgency == UrgencyOf(available, o.upkeep, reserve)
           done == Trading(o, start, reserve, urgency)
           d == Decide(o, m)
<1>1. d = [reserve |-> reserve,
           outcome |-> IF o.failed \/ o.tick >= DurationTicks THEN start ELSE done]
  <2>1. d = DecideFrom(o, kept, available)
    BY DEF Decide
  <2> HIDE DEF kept, d
  <2> QED
    BY <2>1 DEF DecideFrom, DecideUnder
<1>2. MemoryOK(seen)
  BY ObserveKeeps
<1> HIDE DEF seen
<1>3. /\ MemoryOK(kept) /\ reserve \in Bundle
      /\ \A r \in Resource : reserve[r] <= 15
  BY <1>2, ReserveIsBounded
<1> HIDE DEF kept, reserve, d, urgency
<1>4. StageOK(o, available, reserve, start)
  <2>1. /\ DOMAIN start = {"budget", "available", "memory", "commands", "deferred"}
        /\ start.memory = kept /\ start.available = available
        /\ start.commands = <<>> /\ start.deferred = <<>>
    OBVIOUS
  <2>2. <<>> \in Seq(DOMAIN o.offers)
    OBVIOUS
  <2>3. Paid(o.offers, <<>>, available, available, reserve)
    BY NothingPaid
  <2> HIDE DEF start
  <2> QED
    BY <1>3, <2>1, <2>2, <2>3 DEF StageOK
<1> HIDE DEF start
<1>5. StageOK(o, available, reserve, done)
  BY <1>3, <1>4, TradingStage
<1> HIDE DEF done
<1>6. d.reserve \in Bundle /\ StageOK(o, available, d.reserve, d.outcome)
  BY <1>1, <1>3, <1>4, <1>5
<1> QED
  BY <1>6 DEF d

-----------------------------------------------------------------------------
(* What a command does to the stock that is free *)

Promise(s, r) == SumFunctionOnSet(Gives(r), OpenOutgoing(s))

LEMMA FreeIsInteger ==
    ASSUME TypeOK, NEW s \in Station, NEW r \in Resource
    PROVE  /\ Promise(s, r) \in Nat /\ stations[s].inventory[r] \in Nat
           /\ Free(s)[r] = stations[s].inventory[r] - Promise(s, r)
           /\ Free(s)[r] \in Int
<1>1. stations[s].inventory[r] \in Nat
  BY OpenIsSummable DEF Bundle
<1> QED
  BY <1>1, OpenIsSummable DEF Promise

LEMMA OpenIsSummableNext ==
    ASSUME NEW s \in Station, NEW r \in Resource
    PROVE  TypeOK' => (/\ Summable(Gives(r), OpenOutgoing(s))
                       /\ OpenOutgoing(s) \subseteq DOMAIN offers)'
<1>1. TypeOK => /\ Summable(Gives(r), OpenOutgoing(s))
                /\ OpenOutgoing(s) \subseteq DOMAIN offers
  BY OpenIsSummable
<1> QED
  BY <1>1, PTL

LEMMA FreeIsIntegerNext ==
    ASSUME NEW s \in Station, NEW r \in Resource
    PROVE  TypeOK' => (/\ Promise(s, r) \in Nat /\ stations[s].inventory[r] \in Nat
                       /\ Free(s)[r] = stations[s].inventory[r] - Promise(s, r)
                       /\ Free(s)[r] \in Int)'
<1>1. TypeOK => /\ Promise(s, r) \in Nat /\ stations[s].inventory[r] \in Nat
                /\ Free(s)[r] = stations[s].inventory[r] - Promise(s, r)
                /\ Free(s)[r] \in Int
  BY FreeIsInteger
<1> QED
  BY <1>1, PTL

\* One more open offer.
LEMMA PromiseMade ==
    ASSUME TypeOK, TypeOK', NEW s \in Station, NEW r \in Resource, NEW i,
           i \notin DOMAIN offers, NEW new, offers' = With(offers, i, new),
           new.status = "OPEN"
    PROVE  Promise(s, r)' = Promise(s, r) + (IF new.proposer = s THEN new.give[r] ELSE 0)
<1> DEFINE out == OpenOutgoing(s)
           later == OpenOutgoing(s)'
           f == Gives(r)
           g == Gives(r)'
<1>1. /\ DOMAIN offers' = DOMAIN offers \cup {i} /\ offers'[i] = new
      /\ \A j \in DOMAIN offers : offers'[j] = offers[j]
  BY DEF With
<1>2. /\ Summable(g, later) /\ Summable(f, out) /\ out \subseteq DOMAIN offers
      /\ later \subseteq DOMAIN offers'
  <2>1. Summable(f, out) /\ out \subseteq DOMAIN offers
    BY OpenIsSummable
  <2>2. Summable(g, later) /\ later \subseteq DOMAIN offers'
    BY OpenIsSummableNext
  <2> QED
    BY <2>1, <2>2
<1>3. \A j : j \in later <=> j \in out \/ (j = i /\ new.proposer = s)
  BY <1>1 DEF OpenOutgoing, OpenIds
<1>4. Agree(g, f, out) /\ (new.proposer = s => g[i] = new.give[r])
  BY <1>1, <1>2 DEF Agree, Gives
<1>5. i \notin out /\ IsFiniteSet(out)
  BY <1>2 DEF Summable
<1>6. Promise(s, r)' = SumFunctionOnSet(g, later) /\ Promise(s, r) = SumFunctionOnSet(f, out)
  BY DEF Promise
<1> HIDE DEF out, later, f, g
<1>7. SumFunctionOnSet(g, out) = SumFunctionOnSet(f, out)
  BY <1>4, <1>5, SumsAgree
<1>8. CASE new.proposer = s
  <2>1. later = out \cup {i}
    BY <1>3, <1>8
  <2>2. SumFunctionOnSet(g, out \cup {i}) = g[i] + SumFunctionOnSet(g, out)
    BY <1>2, <1>5, <2>1, SumAdds
  <2>3. g[i] \in Nat /\ SumFunctionOnSet(g, out) \in Nat
    <3>1. i \in later
      BY <2>1
    <3>2. g[i] \in Nat
      BY <1>2, <3>1 DEF Summable
    <3> QED
      BY <1>2, <1>7, <3>2, SumTakesOut
  <2> DEFINE x == g[i]
             y == SumFunctionOnSet(g, out)
  <2>4. x \in Nat /\ y \in Nat /\ Promise(s, r)' = x + y /\ x = new.give[r]
        /\ y = Promise(s, r)
    BY <1>4, <1>6, <1>7, <1>8, <2>1, <2>2, <2>3
  <2> HIDE DEF x, y
  <2> QED
    BY <1>8, <2>4
<1>9. CASE new.proposer # s
  <2>1. later = out
    BY <1>3, <1>9
  <2>2. SumFunctionOnSet(f, out) \in Nat
    BY <1>2, SumTakesOut
  <2> QED
    BY <1>6, <1>7, <1>9, <2>1, <2>2
<1> QED
  BY <1>8, <1>9

\* One open offer less.
LEMMA PromiseClosed ==
    ASSUME TypeOK, TypeOK', NEW s \in Station, NEW r \in Resource, NEW i \in DOMAIN offers,
           offers[i].status = "OPEN", NEW status \in OfferStatus \ {"OPEN"}, NEW txn \in Nat,
           offers' = Close(offers, {i}, status, tick, txn)
    PROVE  Promise(s, r)' =
              Promise(s, r) - (IF offers[i].proposer = s THEN offers[i].give[r] ELSE 0)
<1> DEFINE out == OpenOutgoing(s)
           later == OpenOutgoing(s)'
           f == Gives(r)
           g == Gives(r)'
<1>1. \A j \in DOMAIN offers : offers[j] \in OfferRecord
  BY DEF TypeOK
<1>2. tick \in Nat /\ status \in OfferStatus
  BY RulesAssumption DEF TypeOK
<1>3. /\ DOMAIN offers' = DOMAIN offers
      /\ \A j \in DOMAIN offers :
            /\ offers'[j].proposer = offers[j].proposer
            /\ offers'[j].give = offers[j].give
            /\ j # i => offers'[j].status = offers[j].status
            /\ j = i => offers'[j].status = status
  BY <1>1, <1>2, CloseKeeps
<1>4. /\ Summable(f, out) /\ out \subseteq DOMAIN offers
  BY OpenIsSummable
<1>5. \A j : j \in later <=> j \in out /\ j # i
  BY <1>3 DEF OpenOutgoing, OpenIds
<1>6. Agree(g, f, out)
  BY <1>3, <1>4 DEF Agree, Gives
<1>7. i \in out <=> offers[i].proposer = s
  BY DEF OpenOutgoing, OpenIds
<1>8. f[i] = offers[i].give[r]
  BY DEF Gives
<1>9. Promise(s, r)' = SumFunctionOnSet(g, later) /\ Promise(s, r) = SumFunctionOnSet(f, out)
  BY DEF Promise
<1> HIDE DEF out, later, f, g
<1>10. later = out \ {i}
  BY <1>5
<1>11. IsFiniteSet(out \ {i}) /\ Agree(g, f, out \ {i}) /\ Summable(f, out \ {i})
  <2>1. IsFiniteSet(out)
    BY <1>4 DEF Summable
  <2>2. IsFiniteSet(out \ {i})
    BY <2>1, FS_Subset
  <2> QED
    BY <1>4, <1>6, <2>2 DEF Agree, Summable
<1>12. SumFunctionOnSet(g, out \ {i}) = SumFunctionOnSet(f, out \ {i})
  BY <1>11, SumsAgree
<1>13. SumFunctionOnSet(f, out \ {i}) \in Nat /\ SumFunctionOnSet(f, out) \in Nat
  BY <1>4, <1>11, SumTakesOut
<1>14. CASE offers[i].proposer = s
  <2>1. i \in out
    BY <1>7, <1>14
  <2>2. SumFunctionOnSet(f, out) = f[i] + SumFunctionOnSet(f, out \ {i})
    BY <1>4, <2>1, SumTakesOut
  <2>3. f[i] \in Nat
    BY <1>4, <2>1 DEF Summable
  <2> DEFINE x == SumFunctionOnSet(f, out \ {i})
             y == SumFunctionOnSet(f, out)
             z == f[i]
  <2>4. /\ x \in Nat /\ y \in Nat /\ z \in Nat /\ y = z + x
        /\ Promise(s, r)' = x /\ Promise(s, r) = y /\ z = offers[i].give[r]
    BY <1>8, <1>9, <1>10, <1>12, <1>13, <2>2, <2>3
  <2> HIDE DEF x, y, z
  <2> QED
    BY <1>14, <2>4
<1>15. CASE offers[i].proposer # s
  <2>1. i \notin out
    BY <1>7, <1>15
  <2>2. out \ {i} = out
    BY <2>1
  <2> QED
    BY <1>9, <1>10, <1>12, <1>13, <1>15, <2>2
<1> QED
  BY <1>14, <1>15

\* A command only takes from what is free to the station that sends it, and no more
\* than it costs.
LEMMA ExecuteFree ==
    ASSUME TypeOK, TypeOK', NoSelfDealing, NEW p \in Station, NEW cmd, WellFormed(cmd),
           Execute(p, cmd), NEW s \in Station, NEW r \in Resource
    PROVE  \/ Free(s)'[r] >= Free(s)[r]
           \/ /\ p = s
              /\ cmd.kind = "ACCEPT" => cmd.id \in DOMAIN offers
              /\ Free(s)'[r] = Free(s)[r] - Cost(offers, cmd)[r] + Gain(offers, cmd)[r]
<1> DEFINE F == Free(s)[r]
           F1 == Free(s)'[r]
           P == Promise(s, r)
           P1 == Promise(s, r)'
           v == stations[s].inventory[r]
           v1 == stations'[s].inventory[r]
<1>1. P \in Nat /\ v \in Nat /\ F = v - P /\ F \in Int
  BY FreeIsInteger
<1>2. P1 \in Nat /\ v1 \in Nat /\ F1 = v1 - P1 /\ F1 \in Int
  BY FreeIsIntegerNext
<1>3. CASE offers' = offers /\ stations' = stations
  <2>1. P1 = P
    BY <1>3 DEF Promise, Gives, OpenOutgoing, OpenIds
  <2>2. v1 = v
    BY <1>3
  <2> HIDE DEF F, F1, P, P1, v, v1
  <2>3. F1 >= F
    BY <1>1, <1>2, <2>1, <2>2
  <2> QED
    BY <2>3 DEF F, F1
<1>4. CASE cmd.kind = "OFFER" /\ PostOffer(p, cmd)
  <2> DEFINE new == [proposer |-> p, recipient |-> cmd.recipient,
                     give |-> Give(cmd), receive |-> Receive(cmd),
                     created |-> tick, expires |-> cmd.expires,
                     status |-> "OPEN", closedTick |-> NoTick, transaction |-> NoId]
  <2>1. offers' = With(offers, nextId, new) /\ stations' = stations
    BY <1>4 DEF PostOffer
  <2>2. nextId \notin DOMAIN offers
    BY DEF TypeOK, Id
  <2>3. new.status = "OPEN" /\ new.proposer = p /\ new.give = Give(cmd)
    OBVIOUS
  <2> HIDE DEF new
  <2>4. P1 = P + (IF new.proposer = s THEN new.give[r] ELSE 0)
    BY <2>1, <2>2, <2>3, PromiseMade
  <2>5. v1 = v
    BY <2>1
  <2>6. Give(cmd)[r] \in Nat /\ Cost(offers, cmd)[r] = Give(cmd)[r] /\ Gain(offers, cmd)[r] = 0
    BY <1>4 DEF WellFormed, Bundle, Cost, Gain, Zero
  <2> DEFINE n == Give(cmd)[r]
             c == Cost(offers, cmd)[r]
             g == Gain(offers, cmd)[r]
  <2>7. n \in Nat /\ c = n /\ g = 0 /\ P1 = P + (IF p = s THEN n ELSE 0)
    BY <2>3, <2>4, <2>6
  <2> HIDE DEF F, F1, P, P1, v, v1, n, c, g
  <2>8. F1 >= F \/ (p = s /\ F1 = F - c + g)
    BY <1>1, <1>2, <2>5, <2>7
  <2> QED
    BY <1>4, <2>8 DEF F, F1, c, g
<1>5. CASE cmd.kind = "WITHDRAW" /\ Withdraw(p, cmd.id) /\ ~(offers' = offers)
  <2> DEFINE i == cmd.id
  <2>1. /\ WithdrawCode(p, i) = "OK" /\ i \notin DOMAIN advertisements
        /\ offers' = Close(offers, {i}, "WITHDRAWN", tick, NoId) /\ stations' = stations
    BY <1>5 DEF Withdraw
  <2>2. i \in DOMAIN offers /\ offers[i].status = "OPEN"
    BY <2>1 DEF WithdrawCode
  <2>3. "WITHDRAWN" \in OfferStatus \ {"OPEN"} /\ NoId \in Nat
    BY DEF OfferStatus, NoId
  <2> HIDE DEF i
  <2>4. P1 = P - (IF offers[i].proposer = s THEN offers[i].give[r] ELSE 0)
    BY <2>1, <2>2, <2>3, PromiseClosed
  <2>5. offers[i].give[r] \in Nat
    BY <2>2 DEF TypeOK, OfferRecord, Bundle
  <2>6. v1 = v
    BY <2>1
  <2> DEFINE n == offers[i].give[r]
  <2> HIDE DEF F, F1, P, P1, v, v1, n
  <2>7. F1 >= F
    BY <1>1, <1>2, <2>4, <2>5, <2>6 DEF n
  <2> QED
    BY <2>7 DEF F, F1
<1>6. CASE cmd.kind = "ACCEPT" /\ AcceptCode(p, cmd.id) = "OK" /\ Settle(cmd.id)
  <2> DEFINE i == cmd.id
             d == offers[i]
             give == d.give[r]
             receive == d.receive[r]
             c == Cost(offers, cmd)[r]
             g == Gain(offers, cmd)[r]
  <2>1. i \in DOMAIN offers /\ d.recipient = p /\ d.status = "OPEN"
    BY <1>6, AcceptPassed
  <2>2. d.proposer # p
    BY <2>1 DEF NoSelfDealing
  <2>3. offers' = Close(offers, {i}, "ACCEPTED", tick, nextId)
    BY <1>6 DEF Settle
  <2>4. "ACCEPTED" \in OfferStatus \ {"OPEN"} /\ nextId \in Nat
    BY DEF OfferStatus, TypeOK, Id
  <2>5. P1 = P - (IF d.proposer = s THEN d.give[r] ELSE 0)
    BY <2>1, <2>3, <2>4, PromiseClosed
  <2>6. give \in Nat /\ receive \in Nat
    BY <2>1 DEF TypeOK, OfferRecord, Bundle
  <2>7. /\ d.proposer = s => v1 = v - give + receive
        /\ p = s => v1 = v - receive + give
        /\ d.proposer # s /\ p # s => v1 = v
    <3>1. stations'[s] = IF s = d.proposer THEN Swap(stations[s], d.give, d.receive)
                         ELSE IF s = d.recipient THEN Swap(stations[s], d.receive, d.give)
                         ELSE stations[s]
      BY <1>6 DEF Settle
    <3>2. stations[s] \in StationRecord
      BY DEF TypeOK
    <3>3. \A out, in : Swap(stations[s], out, in).inventory[r] = v - out[r] + in[r]
      BY <3>2 DEF Swap, StationRecord, Add, Sub
    <3> HIDE DEF d, i
    <3> QED
      BY <2>1, <2>2, <3>1, <3>3 DEF d
  <2>8. c = receive /\ g = give
    BY <1>6 DEF Cost, Gain
  <2> HIDE DEF F, F1, P, P1, v, v1, give, receive, c, g
  <2>9. d.proposer = s => P1 = P - give
    BY <2>5 DEF give
  <2>10. d.proposer # s => P1 = P
    BY <1>1, <2>5
  <2> HIDE DEF d
  <2>11. F1 >= F \/ (p = s /\ F1 = F - c + g)
    BY <1>1, <1>2, <2>2, <2>6, <2>7, <2>8, <2>9, <2>10
  <2> QED
    BY <2>1, <2>11 DEF F, F1, c, g, i
<1>7. \/ cmd.kind = "OFFER" /\ PostOffer(p, cmd)
      \/ cmd.kind = "WITHDRAW" /\ Withdraw(p, cmd.id) /\ ~(offers' = offers)
      \/ cmd.kind = "ACCEPT" /\ AcceptCode(p, cmd.id) = "OK" /\ Settle(cmd.id)
      \/ offers' = offers /\ stations' = stations
  BY DEF Execute, Advertise, Accept, Withdraw
<1> QED
  BY <1>3, <1>4, <1>5, <1>6, <1>7

-----------------------------------------------------------------------------
(* Production *)

LEMMA PlaceIsPlace ==
    ASSUME NEW s \in Station
    PROVE  Place(s) \in 1..Len(Roster) /\ Roster[Place(s)] = s /\ Len(Roster) \in Nat
<1>1. Roster \in Seq(Station) /\ Range(Roster) = Station
  BY RosterOrder
<1>2. s \in {Roster[k] : k \in DOMAIN Roster} /\ DOMAIN Roster = 1..Len(Roster)
  BY <1>1 DEF Range
<1>3. \E k \in 1..Len(Roster) : Roster[k] = s
  BY <1>2
<1> QED
  BY <1>1, <1>3 DEF Place, Planets

LEMMA ProductionIsNatural ==
    ASSUME setup \in Setups, NEW t \in Int, NEW s \in Station
    PROVE  Production(t, s) \in Nat
<1> DEFINE place == Place(s)
           offset == setup.offset
           variation == setup.variation
           days == t \div PhaseTicks
<1>1. place \in Int /\ offset \in Int /\ variation \in Int
  BY SetupAssumption, PlaceIsPlace
<1>2. days \in Int
  BY DEF PhaseTicks
<1> HIDE DEF place, offset, variation, days
<1>3. RunTwoProduction(t, s) \in Nat
  <2> DEFINE i == ((days + place - 1 + offset) % 3) + 1
             q == <<2, 5, 6>>
  <2>1. i \in 1..3
    BY <1>1, <1>2
  <2>2. RunTwoProduction(t, s) = q[i]
    BY DEF RunTwoProduction, days, place, offset
  <2> HIDE DEF i
  <2>3. q[i] \in Nat
    <3>1. i = 1 \/ i = 2 \/ i = 3
      BY <2>1
    <3> QED
      BY <3>1
  <2> QED
    BY <2>2, <2>3
<1>4. BalancedProduction(t, s) \in Nat
  <2> DEFINE producers == {p \in Station : Specialty[p] = Specialty[s]}
             demand == [p \in Station |-> Upkeep[p][Specialty[s]]]
             need == SumFunction(demand)
             n == Cardinality(producers)
             rank == Cardinality({p \in producers : Place(p) < Place(s)})
             rest == Flag(rank < need % n)
             base == need \div n + rest
             phase == (days + place - 1) % 3
  <2>1. need \in Nat
    <3>1. DOMAIN demand = Station /\ Specialty[s] \in Resource
      BY RosterAssumption
    <3>2. \A p \in Station : demand[p] \in Nat
      BY <3>1, RosterAssumption DEF Bundle
    <3> HIDE DEF demand
    <3>3. Summable(demand, Station)
      BY <3>2, RosterAssumption DEF Summable
    <3>4. SumFunctionOnSet(demand, Station) \in Nat
      BY <3>3, SumTakesOut
    <3> QED
      BY <3>1, <3>4 DEF SumFunction
  <2>2. n \in Nat /\ n # 0
    <3>1. IsFiniteSet(producers) /\ s \in producers
      BY RosterAssumption, FS_Subset
    <3> HIDE DEF producers
    <3> QED
      BY <3>1, FS_CardinalityType, FS_EmptySet
  <2>3. BalancedProduction(t, s) = Max2(0, base + variation * (phase - 1))
    BY DEF BalancedProduction, days, place, variation
  <2> HIDE DEF need, n, rank
  <2>4. rest \in Nat
    BY DEF Flag
  <2>5. need \div n \in Int
    BY <2>1, <2>2
  <2>6. phase \in 0..2
    BY <1>1, <1>2
  <2> HIDE DEF rest, phase
  <2>7. variation * (phase - 1) \in Int
    <3>1. phase = 0 \/ phase = 1 \/ phase = 2
      BY <2>6
    <3> QED
      BY <1>1, <3>1
  <2> DEFINE swing == variation * (phase - 1)
             share == need \div n
  <2>8. swing \in Int /\ share \in Int
    BY <2>5, <2>7
  <2> HIDE DEF swing, share
  <2>9. Max2(0, share + rest + swing) \in Nat
    BY <2>4, <2>8 DEF Max2
  <2> QED
    BY <2>3, <2>9 DEF swing, share
<1> QED
  BY <1>3, <1>4 DEF Production

-----------------------------------------------------------------------------
(* The commands of the stand-ins *)

AllWellFormed(cmds) ==
    /\ \E T : cmds \in Seq(T)
    /\ \A k \in 1..Len(cmds) : WellFormed(cmds[k])

LEMMA NoneWellFormed == AllWellFormed(<<>>)
<1>1. <<>> \in Seq({}) /\ Len(<<>>) = 0
  OBVIOUS
<1> QED
  BY <1>1 DEF AllWellFormed

LEMMA OneMoreWellFormed ==
    ASSUME NEW cmds, AllWellFormed(cmds), NEW cmd, WellFormed(cmd)
    PROVE  AllWellFormed(Append(cmds, cmd))
<1> DEFINE n == Len(cmds)
           more == Append(cmds, cmd)
<1>1. PICK T : cmds \in Seq(T)
  BY DEF AllWellFormed
<1>2. /\ more \in Seq(T \cup {cmd}) /\ n \in Nat /\ Len(more) = n + 1
      /\ \A k \in 1..n : more[k] = cmds[k]
      /\ more[n + 1] = cmd
  BY <1>1, AppendAny
<1>3. \A k \in 1..n : WellFormed(cmds[k])
  BY DEF AllWellFormed
<1> HIDE DEF n, more
<1>4. \A k \in 1..(n + 1) : k \in 1..n \/ k = n + 1
  BY <1>2
<1>5. \A k \in 1..(n + 1) : WellFormed(more[k])
  BY <1>2, <1>3, <1>4
<1> QED
  BY <1>2, <1>5 DEF AllWellFormed, more

LEMMA FirstIsWellFormed ==
    ASSUME NEW cmds, AllWellFormed(cmds), cmds # <<>>
    PROVE  WellFormed(Head(cmds)) /\ AllWellFormed(Tail(cmds))
<1> DEFINE n == Len(cmds)
           rest == Tail(cmds)
<1>1. PICK T : cmds \in Seq(T)
  BY DEF AllWellFormed
<1>2. /\ rest \in Seq(T) /\ n \in Nat /\ n >= 1 /\ Len(rest) = n - 1
      /\ \A k \in 1..(n - 1) : rest[k] = cmds[k + 1]
      /\ Head(cmds) = cmds[1]
  BY <1>1
<1>3. \A k \in 1..n : WellFormed(cmds[k])
  BY DEF AllWellFormed
<1> HIDE DEF n, rest
<1>4. 1 \in 1..n /\ \A k \in 1..(n - 1) : k + 1 \in 1..n
  BY <1>2
<1>5. \A k \in 1..(n - 1) : WellFormed(rest[k])
  BY <1>2, <1>3, <1>4
<1> QED
  BY <1>2, <1>3, <1>4, <1>5 DEF AllWellFormed, rest

TakeOp(o, onlySpecialty, c, d, acc, i) == TakenUnlessWorse(o, onlySpecialty, acc, i)
TakeHolds(ctx, k, acc) == AllWellFormed(acc.commands)

Takings == INSTANCE FoldProofs WITH Op <- TakeOp, Holds <- TakeHolds

LEMMA AcceptsAreWellFormed ==
    ASSUME NEW o, View(o), NEW onlySpecialty
    PROVE  AllWellFormed(AcceptIfNotWorse(o, onlySpecialty))
<1> DEFINE base == [commands |-> <<>>, stock |-> o.inventory]
           ids == o.incoming
           all == Takings!Folded(o, onlySpecialty, 0, 0, base, ids)
<1>1. all.commands = AcceptIfNotWorse(o, onlySpecialty)
  BY DEF AcceptIfNotWorse, Takings!Folded, FoldLeft, MapThenFoldSet,
         Takings!FoldLeft, Takings!MapThenFoldSet, Max, Takings!Max, TakeOp
<1>2. TakeHolds(0, 0, base)
  BY NoneWellFormed DEF TakeHolds
<1>3. ASSUME NEW k \in 1..Len(ids), NEW acc, TakeHolds(0, k - 1, acc)
      PROVE  TakeHolds(0, k, TakeOp(o, onlySpecialty, 0, 0, acc, ids[k]))
  <2> DEFINE cmd == [kind |-> "ACCEPT", id |-> ids[k]]
             next == TakenUnlessWorse(o, onlySpecialty, acc, ids[k])
  <2>1. next = acc \/ next.commands = Append(acc.commands, cmd)
    BY DEF TakenUnlessWorse
  <2>2. WellFormed(cmd)
    BY DEF WellFormed
  <2>3. AllWellFormed(acc.commands)
    BY <1>3 DEF TakeHolds
  <2> HIDE DEF cmd, next
  <2>4. AllWellFormed(Append(acc.commands, cmd))
    BY <2>2, <2>3, OneMoreWellFormed
  <2> QED
    BY <2>1, <2>3, <2>4 DEF TakeHolds, TakeOp, next
<1>4. ids \in Seq(DOMAIN o.offers)
  BY DEF View
<1> HIDE DEF base, ids
<1>5. TakeHolds(0, Len(ids), all)
  BY <1>2, <1>3, <1>4, Takings!FoldKeeps
<1> HIDE DEF all
<1> QED
  BY <1>1, <1>5 DEF TakeHolds

LEMMA OfferToIsWellFormed ==
    ASSUME NEW o, View(o), NEW position, NEW ttl \in Nat, NEW give \in Bundle,
           NEW receive \in Bundle
    PROVE  WellFormed(OfferTo(o, position, ttl, give, receive))
<1> DEFINE cmd == OfferTo(o, position, ttl, give, receive)
<1>1. /\ cmd.kind = "OFFER" /\ cmd.terms = <<give, receive>>
      /\ cmd.expires = Min2(o.tick + ttl, DurationTicks)
  BY DEF OfferTo
<1> HIDE DEF cmd
<1>2. cmd.expires \in Nat
  BY <1>1, RulesAssumption DEF View, Min2
<1>3. Give(cmd) = give /\ Receive(cmd) = receive
  BY <1>1 DEF Give, Receive
<1>4. WellFormed(cmd)
  BY <1>1, <1>2, <1>3 DEF WellFormed
<1> QED
  BY <1>4 DEF cmd

LEMMA SingleIsBundle ==
    ASSUME NEW x, NEW n \in Nat
    PROVE  Single(x, n) \in Bundle
BY DEF Single, Bundle

HaggleOp(o, size, price, ttl, acc, want) == Haggled(o, size, price, ttl, acc, want)
HaggleHolds(ctx, k, acc) == AllWellFormed(acc.commands)

Hagglings == INSTANCE FoldProofs WITH Op <- HaggleOp, Holds <- HaggleHolds

LEMMA HaggleIsWellFormed ==
    ASSUME NEW o, View(o), NEW commands, AllWellFormed(commands), NEW T, NEW wants \in Seq(T),
           NEW size \in Nat, NEW price \in Nat, NEW spare, NEW ttl \in Nat
    PROVE  AllWellFormed(Haggle(o, commands, wants, size, price, spare, ttl).commands)
<1> DEFINE base == [commands |-> commands, spare |-> spare, position |-> rotation[o.station]]
           all == Hagglings!Folded(o, size, price, ttl, base, wants)
<1>1. all = Haggle(o, commands, wants, size, price, spare, ttl)
  BY DEF Haggle, Hagglings!Folded, FoldLeft, MapThenFoldSet,
         Hagglings!FoldLeft, Hagglings!MapThenFoldSet, Max, Hagglings!Max, HaggleOp
<1>2. HaggleHolds(0, 0, base)
  BY DEF HaggleHolds
<1>3. ASSUME NEW k \in 1..Len(wants), NEW acc, HaggleHolds(0, k - 1, acc)
      PROVE  HaggleHolds(0, k, HaggleOp(o, size, price, ttl, acc, wants[k]))
  <2> DEFINE give == Single(o.specialty, size)
             receive == Single(wants[k], price)
             cmd == OfferTo(o, acc.position, ttl, give, receive)
             next == Haggled(o, size, price, ttl, acc, wants[k])
  <2>1. next = acc \/ next.commands = Append(acc.commands, cmd)
    BY DEF Haggled
  <2>2. give \in Bundle /\ receive \in Bundle
    BY SingleIsBundle
  <2> HIDE DEF give, receive
  <2>3. WellFormed(cmd)
    BY <2>2, OfferToIsWellFormed
  <2>4. AllWellFormed(acc.commands)
    BY <1>3 DEF HaggleHolds
  <2> HIDE DEF cmd, next
  <2>5. AllWellFormed(Append(acc.commands, cmd))
    BY <2>3, <2>4, OneMoreWellFormed
  <2> QED
    BY <2>1, <2>4, <2>5 DEF HaggleHolds, HaggleOp, next
<1> HIDE DEF base
<1>4. HaggleHolds(0, Len(wants), all)
  BY <1>2, <1>3, Hagglings!FoldKeeps
<1> HIDE DEF all
<1> QED
  BY <1>1, <1>4 DEF HaggleHolds

LEMMA LackingIsSequence ==
    ASSUME NEW o, NEW target, NEW times \in Nat
    PROVE  \E T : Lacking(o, target, times) \in Seq(T)
<1> DEFINE a == ImportsOf(o.station)[1]
           b == ImportsOf(o.station)[2]
           q == LackingOf(o, a, target, times)
           p == LackingOf(o, b, target, times)
<1>1. Lacking(o, target, times) = q \o p
  BY DEF Lacking
<1> HIDE DEF a, b
<1>2. \A r : [j \in 1..times |-> r] \in Seq({r})
  OBVIOUS
<1>3. q \in Seq({a, b}) /\ p \in Seq({a, b})
  <2>1. \A r : r \in {a, b} => LackingOf(o, r, target, times) \in Seq({a, b})
    <3> SUFFICES ASSUME NEW r \in {a, b}
                 PROVE  LackingOf(o, r, target, times) \in Seq({a, b})
      OBVIOUS
    <3>1. <<>> \in Seq({a, b}) /\ [j \in 1..times |-> r] \in Seq({a, b})
      OBVIOUS
    <3> QED
      BY <3>1 DEF LackingOf
  <2> QED
    BY <2>1
<1> HIDE DEF q, p
<1>4. q \o p \in Seq({a, b})
  BY <1>3
<1> QED
  BY <1>1, <1>4

\* Whatever a stand-in does, it sends commands of the protocol's form.
LEMMA ActsAreWellFormed ==
    ASSUME setup \in Setups, NEW s, NEW o, View(o)
    PROVE  AllWellFormed(Acts(s, o).commands)
<1>1. setup.size \in Nat
  BY SetupAssumption
<1>2. \A only : AllWellFormed(AcceptIfNotWorse(o, only))
  BY AcceptsAreWellFormed
<1>3. AllWellFormed(GreedyActs(o).commands)
  <2> DEFINE accepts == AcceptIfNotWorse(o, FALSE)
             wants == Lacking(o, 25, 2)
             spare == o.inventory[o.specialty]
  <2>1. PICK T : wants \in Seq(T)
    BY LackingIsSequence
  <2>2. AllWellFormed(accepts)
    BY <1>2
  <2>3. GreedyActs(o) = Haggle(o, accepts, wants, 2, 4, spare, 5)
    BY DEF GreedyActs
  <2> HIDE DEF accepts, wants, spare
  <2> QED
    BY <2>1, <2>2, <2>3, HaggleIsWellFormed
<1>4. ASSUME NEW size \in Nat
      PROVE  AllWellFormed(SmallFairActs(o, size).commands)
  <2> DEFINE accepts == AcceptIfNotWorse(o, TRUE)
             ad == [kind |-> "ADVERTISE",
                    terms |-> <<{o.specialty}, Imports(o.specialty)>>,
                    expires |-> Min2(o.tick + 8, DurationTicks)]
             first == IF o.tick % 5 = 0 THEN Append(accepts, ad) ELSE accepts
             wants == Lacking(o, 15, 1)
             spare == o.inventory[o.specialty] - 3
  <2>1. PICK T : wants \in Seq(T)
    BY LackingIsSequence
  <2>2. AllWellFormed(accepts)
    BY <1>2
  <2>3. WellFormed(ad)
    <3>1. ad.expires \in Nat
      BY RulesAssumption DEF View, Min2
    <3>2. Selling(ad) \in SUBSET Resource /\ Seeking(ad) \in SUBSET Resource
      BY DEF Selling, Seeking, View, Imports
    <3>3. ad.kind = "ADVERTISE"
      OBVIOUS
    <3> HIDE DEF ad
    <3> QED
      BY <3>1, <3>2, <3>3 DEF WellFormed
  <2>4. SmallFairActs(o, size) = Haggle(o, first, wants, size, size, spare, 3)
    BY DEF SmallFairActs
  <2> HIDE DEF accepts, ad
  <2>5. AllWellFormed(first)
    BY <2>2, <2>3, OneMoreWellFormed
  <2> HIDE DEF first, wants, spare
  <2> QED
    BY <2>1, <2>4, <2>5, HaggleIsWellFormed
<1>5. AllWellFormed(GifterActs(o).commands)
  <2> DEFINE accepts == AcceptIfNotWorse(o, FALSE)
             position == rotation[o.station]
             gift == Single(o.specialty, 2)
             cmd == OfferTo(o, position, 2, gift, Zero)
  <2>1. AllWellFormed(accepts)
    BY <1>2
  <2>2. gift \in Bundle /\ Zero \in Bundle
    BY DEF Single, Zero, Bundle
  <2>3. \/ GifterActs(o).commands = accepts
        \/ GifterActs(o).commands = Append(accepts, cmd)
    BY DEF GifterActs
  <2> HIDE DEF accepts, gift, position
  <2>4. WellFormed(cmd)
    BY <2>2, OfferToIsWellFormed
  <2> HIDE DEF cmd
  <2> QED
    BY <2>1, <2>3, <2>4, OneMoreWellFormed
<1>6. AllWellFormed(Idle(s).commands)
  BY NoneWellFormed DEF Idle
<1>7. \/ Acts(s, o) = GreedyActs(o)
      \/ \E size \in Nat : Acts(s, o) = SmallFairActs(o, size)
      \/ Acts(s, o) = GifterActs(o)
      \/ Acts(s, o) = Idle(s)
  BY <1>1, Zenon DEF Acts
<1> QED
  BY <1>3, <1>4, <1>5, <1>6, <1>7

-----------------------------------------------------------------------------
(* Whatever the players decide, the engine's rules hold *)

PlayersOK == /\ setup \in Setups
             /\ DOMAIN memory = Station /\ \A s \in Station : MemoryOK(memory[s])

EngineInv == TypeOK /\ OfferInv /\ AdInv /\ NoSelfDealing

\* The batch of a player of ours can be paid from what is free, and its reserve is
\* whole, or as whole as it was when the turn began.
BatchCovered(s) ==
    /\ decision.reserve \in Bundle /\ decision.available \in Bundle
    /\ \A r \in Resource : \/ decision.available[r] = 0
                           \/ Free(s)[r] >= Min2(decision.available[r], decision.reserve[r])
    /\ \E a, b \in Bundle :
          /\ Paid(offers, batch, a, b, decision.reserve)
          /\ \A r \in Resource : a[r] = 0 \/ a[r] <= Free(s)[r]

TurnInv ==
    /\ turn \in Nat \ {0}
    /\ IsDeciding => batch = <<>>
    /\ ~IsDeciding => /\ turn <= Planets
                      /\ IF Roster[turn] \in Ours THEN BatchCovered(Roster[turn])
                         ELSE AllWellFormed(batch)

WorldInv == EngineInv /\ PlayersOK /\ TurnInv

LEMMA RosterIsStations ==
    ASSUME NEW k \in Nat \ {0}, k <= Planets
    PROVE  Roster[k] \in Station /\ Planets \in Nat
<1>1. Roster \in Seq(Station)
  BY RosterOrder
<1>2. k \in 1..Len(Roster) /\ Len(Roster) \in Nat
  BY <1>1 DEF Planets
<1> QED
  BY <1>1, <1>2 DEF Planets

LEMMA WorldStarts == WorldInit => WorldInv
<1> SUFFICES ASSUME WorldInit
             PROVE  WorldInv
  OBVIOUS
<1>1. TypeOK
  <2>1. \A s \in Station : stations[s] \in StationRecord
    <3> SUFFICES ASSUME NEW s \in Station
                 PROVE  stations[s] \in StationRecord
      OBVIOUS
    <3>1. stations[s] = [NewStation(s) EXCEPT !.inventory = Bundled(LAMBDA r : setup.stock[s])]
      BY DEF WorldInit
    <3> DEFINE stock == Bundled(LAMBDA r : setup.stock[s])
    <3>2. stock \in Bundle
      BY SetupAssumption DEF WorldInit, Bundled, Bundle
    <3> HIDE DEF stock
    <3>3. Zero \in Bundle /\ MaxHealth \in 0..MaxHealth /\ 0 \in Nat
      BY RulesAssumption DEF Zero, Bundle
    <3>4. stations[s] = [inventory |-> stock, health |-> MaxHealth,
                         failedOnce |-> FALSE, firstFailureTick |-> NoTick,
                         fullySupplied |-> 0, shortage |-> 0, streak |-> 0,
                         longestStreak |-> 0, produced |-> Zero, consumed |-> Zero,
                         unmet |-> Zero, imported |-> Zero, exported |-> Zero]
      BY <3>1 DEF stock, NewStation
    <3> QED
      BY <3>2, <3>3, <3>4 DEF StationRecord
  <2>2. /\ DOMAIN offers = {} /\ DOMAIN advertisements = {} /\ DOMAIN transactions = {}
        /\ nextId = 1 /\ tick = 0
    BY DEF WorldInit
  <2>3. stations \in [Station -> StationRecord]
    BY <2>1 DEF WorldInit
  <2>4. commandCounts \in [Station -> 0..CommandsPerTick]
    BY RulesAssumption DEF WorldInit
  <2>5. 0 \in 0..DurationTicks
    BY RulesAssumption
  <2> QED
    BY <2>2, <2>3, <2>4, <2>5 DEF TypeOK, Id, NoId
<1>2. OfferInv /\ AdInv /\ NoSelfDealing
  BY DEF WorldInit, OfferInv, AdInv, NoSelfDealing
<1>3. PlayersOK
  <2>1. \A s \in Station : MemoryOK(NewMemory(s))
    BY DEF MemoryOK, NewMemory, Zero, Bundle
  <2> QED
    BY <2>1 DEF WorldInit, PlayersOK
<1>4. TurnInv
  BY DEF WorldInit, TurnInv, IsDeciding, Undecided
<1> QED
  BY <1>1, <1>2, <1>3, <1>4 DEF WorldInv, EngineInv

LEMMA EngineKeepsInv == EngineInv /\ EngineStep => EngineInv'
BY EngineKeepsTypes, EngineKeepsMarket, PartiesStayDifferent DEF EngineInv

LEMMA FreeUnchanged ==
    ASSUME UNCHANGED vars, NEW s
    PROVE  Free(s)' = Free(s)
BY DEF vars, Free, OpenOutgoing, OpenIds

LEMMA EngineUnchanged ==
    ASSUME EngineInv, UNCHANGED vars
    PROVE  EngineInv'
BY EngineKeepsInv DEF EngineStep

\* The policy's turn: the batch it decides on is covered.
LEMMA TraderKeeps ==
    ASSUME WorldInv, NEW s \in Station, TraderDecides(s)
    PROVE  WorldInv'
<1> DEFINE o == Observed(s)
           m == memory[s]
           d == Decide(o, m)
           available == SaturatingSub(o.inventory, Promised(o))
           commands == d.outcome.commands
           kept == [reserve |-> d.reserve, tick |-> tick, available |-> available]
<1>1. /\ TypeOK /\ OfferInv /\ PlayersOK /\ TurnInv /\ EngineInv
  BY DEF WorldInv, EngineInv
<1>2. /\ turn <= Planets /\ s = Roster[turn] /\ s \in Ours
      /\ UNCHANGED <<vars, setup, turn>>
      /\ batch' = commands /\ decision' = kept
      /\ memory' = [memory EXCEPT ![s] = d.outcome.memory]
  BY DEF TraderDecides, Turn, Carries
<1>3. View(o) /\ o.inventory = stations[s].inventory
      /\ DOMAIN o.offers \subseteq DOMAIN offers
      /\ \A i \in DOMAIN o.offers : o.offers[i] = offers[i]
  BY <1>1, ObservedIsView
<1>4. available \in Bundle
      /\ \A r \in Resource : available[r] = IF Free(s)[r] > 0 THEN Free(s)[r] ELSE 0
  BY <1>1, AvailableIsFree
<1>5. MemoryOK(m)
  BY <1>1 DEF PlayersOK
<1> HIDE DEF o, m
<1>6. d.reserve \in Bundle /\ StageOK(o, available, d.reserve, d.outcome)
  BY <1>3, <1>4, <1>5, DecisionIsPaid
<1> HIDE DEF d, available
<1>7. EngineInv'
  BY <1>1, <1>2, EngineUnchanged
<1>8. PlayersOK'
  BY <1>1, <1>2, <1>6 DEF PlayersOK, StageOK
<1>9. tick \in Nat /\ ~IsDeciding' /\ Free(s)' = Free(s)
  <2>1. tick \in Nat
    BY <1>1, RulesAssumption DEF TypeOK
  <2>2. decision'.tick = tick
    BY <1>2
  <2> QED
    BY <1>2, <2>1, <2>2, FreeUnchanged DEF IsDeciding, NoTick
<1>10. decision'.reserve = d.reserve /\ decision'.available = available /\ offers' = offers
  BY <1>2 DEF vars
<1>11. Paid(offers, commands, available, d.outcome.available, d.reserve)
  <2> DEFINE terms == o.offers
             b == d.outcome.available
             reserve == d.reserve
  <2>1. Paid(terms, commands, available, b, reserve)
    BY <1>6 DEF StageOK
  <2>2. \A i \in DOMAIN terms : /\ i \in DOMAIN offers
                                /\ offers[i].give = terms[i].give
                                /\ offers[i].receive = terms[i].receive
    BY <1>3
  <2> HIDE DEF terms, b, reserve, commands
  <2>3. Paid(offers, commands, available, b, reserve)
    BY <2>1, <2>2, StaysPaid
  <2> QED
    BY <2>3 DEF b, reserve
<1>12. BatchCovered(s)'
  <2> DEFINE reserve == d.reserve
             b == d.outcome.available
             F == Free(s)
  <2>1. reserve \in Bundle /\ b \in Bundle
    BY <1>6 DEF StageOK
  <2>2. Paid(offers', batch', available, b, decision'.reserve)
    BY <1>2, <1>10, <1>11
  <2> HIDE DEF reserve, b, F
  <2>3. \A r \in Resource : available[r] \in Nat /\ reserve[r] \in Nat
    BY <1>4, <2>1 DEF Bundle
  <2>4. \A r \in Resource : available[r] = IF F[r] > 0 THEN F[r] ELSE 0
    BY <1>4 DEF F
  <2>5. \A r \in Resource : F[r] \in Int
    BY <1>1, FreeIsInteger DEF F
  <2>6. \A r \in Resource : /\ available[r] = 0 \/ F[r] >= Min2(available[r], reserve[r])
                            /\ available[r] = 0 \/ available[r] <= F[r]
    <3> SUFFICES ASSUME NEW r \in Resource
                 PROVE  /\ available[r] = 0 \/ F[r] >= Min2(available[r], reserve[r])
                        /\ available[r] = 0 \/ available[r] <= F[r]
      OBVIOUS
    <3> DEFINE x == available[r]
               y == reserve[r]
               z == F[r]
    <3>1. x \in Nat /\ y \in Nat /\ z \in Int /\ x = IF z > 0 THEN z ELSE 0
      BY <2>3, <2>4, <2>5
    <3> HIDE DEF x, y, z
    <3>2. (x = 0 \/ z >= Min2(x, y)) /\ (x = 0 \/ x <= z)
      BY <3>1 DEF Min2
    <3> QED
      BY <3>2 DEF x, y, z
  <2>7. F' = F /\ decision'.reserve = reserve
    BY <1>9, <1>10 DEF F, reserve
  <2> QED
    BY <1>4, <1>9, <1>10, <2>1, <2>2, <2>6, <2>7 DEF BatchCovered, F
<1>13. TurnInv'
  <2>1. turn' = turn /\ Ours' = Ours
    BY <1>2 DEF Ours
  <2> QED
    BY <1>1, <1>2, <1>9, <1>12, <2>1 DEF TurnInv
<1> QED
  BY <1>7, <1>8, <1>13 DEF WorldInv

LEMMA StandInKeeps ==
    ASSUME WorldInv, NEW s \in Station, StandInDecides(s)
    PROVE  WorldInv'
<1> DEFINE o == Observed(s)
           acts == Acts(s, o)
           kept == [Undecided EXCEPT !.tick = tick]
<1>1. /\ TypeOK /\ OfferInv /\ PlayersOK /\ TurnInv /\ EngineInv
  BY DEF WorldInv, EngineInv
<1>2. /\ turn <= Planets /\ s = Roster[turn] /\ s \notin Ours
      /\ UNCHANGED <<vars, setup, turn>> /\ memory' = memory
      /\ batch' = acts.commands /\ decision' = kept
  BY DEF StandInDecides, Turn, Carries
<1>3. AllWellFormed(acts.commands)
  <2>1. View(o)
    BY <1>1, ObservedIsView
  <2> HIDE DEF o
  <2> QED
    BY <1>1, <2>1, ActsAreWellFormed DEF PlayersOK
<1> HIDE DEF acts
<1>4. EngineInv'
  BY <1>1, <1>2, EngineUnchanged
<1>5. PlayersOK'
  BY <1>1, <1>2 DEF PlayersOK
<1>6. tick \in Nat /\ decision'.tick = tick
  BY <1>1, <1>2, RulesAssumption DEF TypeOK, Undecided
<1>7. ~IsDeciding'
  BY <1>6 DEF IsDeciding, NoTick
<1>8. turn' = turn /\ Ours' = Ours
  BY <1>2 DEF Ours
<1>9. TurnInv'
  BY <1>1, <1>2, <1>3, <1>7, <1>8 DEF TurnInv
<1> QED
  BY <1>4, <1>5, <1>9 DEF WorldInv

\* Within a tick offers come and are closed, and keep their terms.
LEMMA TermsKept ==
    ASSUME TypeOK, EngineStep, tick' = tick
    PROVE  \A i \in DOMAIN offers : /\ i \in DOMAIN offers'
                                    /\ offers'[i].give = offers[i].give
                                    /\ offers'[i].receive = offers[i].receive
<1>1. tick \in Nat /\ nextId \in Nat /\ nextId \notin DOMAIN offers
      /\ (\A i \in DOMAIN offers : offers[i] \in OfferRecord) /\ NoId \in Nat
  <2>1. tick \in Nat
    BY RulesAssumption DEF TypeOK
  <2>2. \A i \in DOMAIN offers : i \in 1..(nextId - 1)
    BY DEF TypeOK, Id
  <2>3. nextId \in Nat
    BY DEF TypeOK, Id
  <2>4. nextId \notin 1..(nextId - 1)
    BY <2>3
  <2>5. \A i \in DOMAIN offers : offers[i] \in OfferRecord
    BY DEF TypeOK
  <2> QED
    BY <2>1, <2>2, <2>3, <2>4, <2>5 DEF NoId
<1>2. ASSUME NEW o, offers' = With(offers, nextId, o)
      PROVE  \A i \in DOMAIN offers : i \in DOMAIN offers' /\ offers'[i] = offers[i]
  BY <1>1, <1>2 DEF With
<1>3. ASSUME NEW i, NEW status \in {"WITHDRAWN", "ACCEPTED"}, NEW txn \in Nat,
             offers' = Close(offers, {i}, status, tick, txn)
      PROVE  \A j \in DOMAIN offers : /\ j \in DOMAIN offers'
                                      /\ offers'[j].give = offers[j].give
                                      /\ offers'[j].receive = offers[j].receive
  <2>1. status \in OfferStatus
    BY DEF OfferStatus
  <2>2. /\ DOMAIN Close(offers, {i}, status, tick, txn) = DOMAIN offers
        /\ \A j \in DOMAIN offers :
              /\ Close(offers, {i}, status, tick, txn)[j].give = offers[j].give
              /\ Close(offers, {i}, status, tick, txn)[j].receive = offers[j].receive
    BY <1>1, <2>1, CloseKeeps
  <2> QED
    BY <1>3, <2>2
<1>4. ASSUME NEW production \in [Station -> Nat], Advance(production)
      PROVE  FALSE
  <2>1. tick' = tick + 1
    BY <1>4 DEF Advance
  <2> QED
    BY <1>1, <2>1
<1>5. \/ offers' = offers
      \/ \E o : offers' = With(offers, nextId, o)
      \/ \E i : \/ offers' = Close(offers, {i}, "WITHDRAWN", tick, NoId)
                \/ offers' = Close(offers, {i}, "ACCEPTED", tick, nextId)
  BY <1>4, OfferCases
<1> QED
  BY <1>1, <1>2, <1>3, <1>5

LEMMA FlowIsTyped ==
    ASSUME TypeOK, NEW cmd, WellFormed(cmd), cmd.kind = "ACCEPT" => cmd.id \in DOMAIN offers
    PROVE  Cost(offers, cmd) \in Bundle /\ Gain(offers, cmd) \in Bundle
<1>1. Zero \in Bundle
  BY DEF Zero, Bundle
<1>2. cmd.kind = "OFFER" => Give(cmd) \in Bundle
  BY DEF WellFormed
<1>3. cmd.kind = "ACCEPT" =>
         offers[cmd.id].give \in Bundle /\ offers[cmd.id].receive \in Bundle
  BY DEF TypeOK, OfferRecord
<1> QED
  BY <1>1, <1>2, <1>3 DEF Cost, Gain

\* A command of the batch, executed or refused, takes what was set aside for it.
LEMMA StaysCovered ==
    ASSUME EngineInv, NEW s \in Station, BatchCovered(s), batch # <<>>,
           batch' = Tail(batch), decision' = decision,
           Execute(s, Head(batch)) \/ UNCHANGED vars
    PROVE  EngineStep /\ BatchCovered(s)'
<1> DEFINE cmd == Head(batch)
           A == decision.available
           R == decision.reserve
           F == Free(s)
           F1 == Free(s)'
<1>1. /\ R \in Bundle /\ A \in Bundle
      /\ \A r \in Resource : A[r] = 0 \/ F[r] >= Min2(A[r], R[r])
  BY DEF BatchCovered
<1>2. PICK a \in Bundle, b \in Bundle :
          /\ Paid(offers, batch, a, b, R)
          /\ \A r \in Resource : a[r] = 0 \/ a[r] <= F[r]
  BY DEF BatchCovered
<1>3. PICK c \in Bundle : /\ Affords(offers, cmd, a, c, R)
                          /\ Paid(offers, Tail(batch), c, b, R)
  BY <1>2, FirstIsPaid
<1> HIDE DEF cmd
<1>4. WellFormed(cmd) /\ (cmd.kind = "ACCEPT" => cmd.id \in DOMAIN offers)
  BY <1>3 DEF Affords
<1>5. Execute(s, cmd) \/ UNCHANGED vars
  BY DEF cmd
<1>6. EngineStep
  BY <1>4, <1>5 DEF EngineStep
<1>7. TypeOK /\ NoSelfDealing
  BY DEF EngineInv
<1>8. TypeOK'
  BY <1>6, EngineKeepsInv DEF EngineInv
<1>9. tick' = tick
  BY <1>4, <1>5, <1>7, ExecuteCounts DEF vars
<1>10. \A i \in DOMAIN offers : /\ i \in DOMAIN offers'
                                /\ offers'[i].give = offers[i].give
                                /\ offers'[i].receive = offers[i].receive
  BY <1>6, <1>7, <1>9, TermsKept
<1> DEFINE rest == Tail(batch)
<1>11. Paid(offers', rest, c, b, R)
  <2> HIDE DEF rest, R
  <2>1. Paid(offers, rest, c, b, R)
    BY <1>3 DEF rest
  <2> QED
    BY <1>10, <2>1, StaysPaid
<1>12. Cost(offers, cmd) \in Bundle /\ Gain(offers, cmd) \in Bundle
  BY <1>4, <1>7, FlowIsTyped
<1> DEFINE cost == Cost(offers, cmd)
           gain == Gain(offers, cmd)
<1>13. \A r \in Resource : /\ cost[r] <= a[r] /\ c[r] = a[r] - cost[r]
                           /\ cost[r] <= gain[r] \/ a[r] - cost[r] + gain[r] >= R[r]
  BY <1>3 DEF Affords
<1>14. ASSUME NEW r \in Resource
       PROVE  F1[r] >= F[r] \/ F1[r] = F[r] - cost[r] + gain[r]
  <2>1. F[r] \in Int /\ (F1 = F => F1[r] = F[r])
    BY <1>7, FreeIsInteger
  <2>2. CASE UNCHANGED vars
    <3>1. F1 = F
      BY <2>2, FreeUnchanged
    <3> HIDE DEF F, F1
    <3> QED
      BY <2>1, <3>1
  <2>3. CASE Execute(s, cmd)
    BY <1>4, <1>7, <1>8, <2>3, ExecuteFree
  <2> QED
    BY <1>5, <2>2, <2>3
<1>15. \A r \in Resource : F[r] \in Int /\ F1[r] \in Int
  BY <1>7, <1>8, FreeIsInteger, FreeIsIntegerNext
<1> HIDE DEF A, R, F, F1, cost, gain, rest
<1>16. \A r \in Resource : /\ A[r] \in Nat /\ R[r] \in Nat /\ a[r] \in Nat /\ c[r] \in Nat
                           /\ cost[r] \in Nat /\ gain[r] \in Nat
  BY <1>1, <1>12 DEF Bundle, cost, gain
<1>17. \A r \in Resource : /\ A[r] = 0 \/ F1[r] >= Min2(A[r], R[r])
                           /\ c[r] = 0 \/ c[r] <= F1[r]
  <2> SUFFICES ASSUME NEW r \in Resource
               PROVE  /\ A[r] = 0 \/ F1[r] >= Min2(A[r], R[r])
                      /\ c[r] = 0 \/ c[r] <= F1[r]
    OBVIOUS
  <2> DEFINE xA == A[r]
             xR == R[r]
             xa == a[r]
             xc == c[r]
             xF == F[r]
             xG == F1[r]
             xcost == cost[r]
             xgain == gain[r]
  <2>1. /\ xA \in Nat /\ xR \in Nat /\ xa \in Nat /\ xc \in Int /\ xF \in Int /\ xG \in Int
        /\ xcost \in Nat /\ xgain \in Nat
    BY <1>15, <1>16
  <2>2. /\ xcost <= xa /\ xc = xa - xcost
        /\ xcost <= xgain \/ xa - xcost + xgain >= xR
    BY <1>13
  <2>3. (xA = 0 \/ xF >= Min2(xA, xR)) /\ (xa = 0 \/ xa <= xF)
    BY <1>1, <1>2
  <2>4. xG >= xF \/ xG = xF - xcost + xgain
    BY <1>14
  <2> HIDE DEF xA, xR, xa, xc, xF, xG, xcost, xgain
  <2>5. (xA = 0 \/ xG >= Min2(xA, xR)) /\ (xc = 0 \/ xc <= xG)
    BY <2>1, <2>2, <2>3, <2>4, SMTT(30) DEF Min2
  <2> QED
    BY <2>5 DEF xA, xR, xc, xG
<1>18. decision'.reserve = R /\ decision'.available = A /\ batch' = rest
  BY DEF A, R, rest
<1>19. BatchCovered(s)'
  <2>1. Paid(offers', batch', c, b, decision'.reserve)
    BY <1>11, <1>18
  <2>2. \A r \in Resource : c[r] = 0 \/ c[r] <= F1[r]
    BY <1>17
  <2>3. \E x, y \in Bundle : /\ Paid(offers', batch', x, y, decision'.reserve)
                             /\ \A r \in Resource : x[r] = 0 \/ x[r] <= F1[r]
    BY <2>1, <2>2
  <2>4. /\ decision'.reserve \in Bundle /\ decision'.available \in Bundle
        /\ \A r \in Resource : \/ decision'.available[r] = 0
                               \/ F1[r] >= Min2(decision'.available[r], decision'.reserve[r])
    BY <1>1, <1>17, <1>18
  <2> QED
    BY <2>3, <2>4 DEF BatchCovered, F1
<1> QED
  BY <1>6, <1>19

LEMMA ApplyKeeps ==
    ASSUME WorldInv, NEW s \in Station, Apply(s)
    PROVE  WorldInv'
<1>1. /\ EngineInv /\ PlayersOK /\ TurnInv
  BY DEF WorldInv
<1>2. /\ turn <= Planets /\ s = Roster[turn] /\ batch # <<>> /\ batch' = Tail(batch)
      /\ UNCHANGED <<setup, memory, turn, decision>>
      /\ Execute(s, Head(batch)) \/ UNCHANGED vars
  BY DEF Apply, Turn
<1>3. ~IsDeciding /\ ~IsDeciding' /\ Ours' = Ours
  BY <1>1, <1>2 DEF TurnInv, IsDeciding, Ours
<1>4. CASE s \in Ours
  <2>1. BatchCovered(s)
    BY <1>1, <1>2, <1>3, <1>4 DEF TurnInv
  <2>2. EngineStep /\ BatchCovered(s)'
    BY <1>1, <1>2, <2>1, StaysCovered
  <2>3. TurnInv'
    BY <1>1, <1>2, <1>3, <1>4, <2>2 DEF TurnInv
  <2> QED
    BY <1>1, <1>2, <2>2, <2>3, EngineKeepsInv DEF WorldInv, PlayersOK
<1>5. CASE s \notin Ours
  <2>1. AllWellFormed(batch)
    BY <1>1, <1>2, <1>3, <1>5 DEF TurnInv
  <2>2. WellFormed(Head(batch)) /\ AllWellFormed(Tail(batch))
    BY <1>2, <2>1, FirstIsWellFormed
  <2>3. EngineStep
    BY <1>2, <2>2 DEF EngineStep
  <2>4. TurnInv'
    BY <1>1, <1>2, <1>3, <1>5, <2>2 DEF TurnInv
  <2> QED
    BY <1>1, <1>2, <2>3, <2>4, EngineKeepsInv DEF WorldInv, PlayersOK
<1> QED
  BY <1>4, <1>5

LEMMA HandsOverKeeps ==
    ASSUME WorldInv, NEW s \in Station, HandsOver(s)
    PROVE  WorldInv'
<1>1. /\ EngineInv /\ PlayersOK /\ TurnInv
  BY DEF WorldInv
<1>2. /\ UNCHANGED <<vars, setup, memory, batch>>
      /\ turn' = turn + 1 /\ decision' = Undecided /\ batch = <<>>
  BY <1>1 DEF HandsOver, TurnIsOver, TurnInv
<1>3. IsDeciding'
  BY <1>2 DEF IsDeciding, Undecided
<1>4. TurnInv'
  <2>1. turn' \in Nat \ {0}
    BY <1>1, <1>2 DEF TurnInv
  <2> QED
    BY <1>2, <1>3, <2>1 DEF TurnInv
<1>5. EngineInv'
  BY <1>1, <1>2, EngineUnchanged
<1> QED
  BY <1>1, <1>2, <1>4, <1>5 DEF WorldInv, PlayersOK

LEMMA AdvanceTickKeeps ==
    ASSUME WorldInv, AdvanceTick
    PROVE  WorldInv'
<1>1. /\ EngineInv /\ PlayersOK /\ TurnInv /\ TypeOK
  BY DEF WorldInv, EngineInv
<1> DEFINE made == [s \in Station |-> Production(tick, s)]
<1>2. /\ turn > Planets /\ Advance(made) /\ turn' = 1
      /\ UNCHANGED <<setup, memory, decision, batch>>
  BY DEF AdvanceTick
<1>3. made \in [Station -> Nat]
  <2>1. tick \in Int
    BY <1>1, RulesAssumption DEF TypeOK
  <2>2. \A s \in Station : Production(tick, s) \in Nat
    BY <1>1, <2>1, ProductionIsNatural DEF PlayersOK
  <2> QED
    BY <2>2
<1>4. EngineInv'
  <2> HIDE DEF made
  <2>1. EngineStep
    BY <1>2, <1>3 DEF EngineStep
  <2> QED
    BY <1>1, <2>1, EngineKeepsInv
<1>5. IsDeciding /\ batch = <<>>
  <2>1. Planets \in Nat /\ turn \in Nat
    <3>1. Roster \in Seq(Station)
      BY RosterOrder
    <3> QED
      BY <1>1, <3>1 DEF Planets, TurnInv
  <2>2. ~(turn <= Planets)
    BY <1>2, <2>1
  <2> QED
    BY <1>1, <2>2 DEF TurnInv
<1>6. TurnInv'
  BY <1>2, <1>5 DEF TurnInv, IsDeciding
<1> QED
  BY <1>1, <1>2, <1>4, <1>6 DEF WorldInv, PlayersOK

LEMMA WorldUnchanged ==
    ASSUME WorldInv, UNCHANGED worldVars
    PROVE  WorldInv'
<1>1. /\ EngineInv /\ PlayersOK /\ TurnInv
  BY DEF WorldInv
<1>2. UNCHANGED <<vars, setup, memory, turn, decision, batch>>
  BY DEF worldVars
<1>3. /\ Ours' = Ours /\ IsDeciding' = IsDeciding /\ offers' = offers
      /\ \A s : Free(s)' = Free(s)
  BY <1>2, FreeUnchanged DEF Ours, IsDeciding, vars
<1>4. \A s : BatchCovered(s) => BatchCovered(s)'
  BY <1>2, <1>3 DEF BatchCovered
<1>5. TurnInv'
  BY <1>1, <1>2, <1>3, <1>4 DEF TurnInv
<1>6. EngineInv'
  BY <1>1, <1>2, EngineUnchanged
<1> QED
  BY <1>1, <1>2, <1>5, <1>6 DEF WorldInv, PlayersOK

LEMMA WorldKeeps == WorldInv /\ [WorldNext]_worldVars => WorldInv'
BY TraderKeeps, StandInKeeps, ApplyKeeps, HandsOverKeeps, AdvanceTickKeeps, WorldUnchanged
DEF WorldNext

\* What a batch has set aside stays free until it is sent.
LEMMA WorldIsCovered == WorldSpec => []WorldInv
BY WorldStarts, WorldKeeps, PTL DEF WorldSpec

\* What is promised changes only as the batch allows: an offer that was covered
\* stays so, and so does one that is posted.
LEMMA PromisesStayCovered ==
    ASSUME WorldInv, PromisesCovered, WorldNext, ~AdvanceTick
    PROVE  PromisesCovered'
<1>1. /\ EngineInv /\ PlayersOK /\ TurnInv /\ TypeOK /\ NoSelfDealing
  BY DEF WorldInv, EngineInv
<1>2. PICK p \in Station :
          TraderDecides(p) \/ StandInDecides(p) \/ Apply(p) \/ HandsOver(p)
  BY DEF WorldNext
<1>3. Ours' = Ours
  BY <1>2 DEF TraderDecides, StandInDecides, Apply, HandsOver, Carries, Ours
<1>4. CASE UNCHANGED vars
  BY <1>3, <1>4, FreeUnchanged DEF PromisesCovered
<1>5. CASE Apply(p) /\ Execute(p, Head(batch)) /\ ~UNCHANGED vars
  <2> DEFINE cmd == Head(batch)
  <2>1. /\ turn <= Planets /\ p = Roster[turn] /\ batch # <<>>
        /\ Execute(p, cmd)
    BY <1>5 DEF Apply, Turn
  <2>2. ~IsDeciding
    BY <1>1, <2>1 DEF TurnInv
  <2>3. WorldInv'
    BY WorldKeeps
  <2>4. TypeOK'
    BY <2>3 DEF WorldInv, EngineInv
  <2> HIDE DEF cmd
  <2>5. WellFormed(cmd)
    <3>1. CASE p \in Ours
      <4>1. PICK a \in Bundle, b \in Bundle : Paid(offers, batch, a, b, decision.reserve)
        BY <1>1, <2>1, <2>2, <3>1 DEF TurnInv, BatchCovered
      <4>2. PICK c \in Bundle : Affords(offers, cmd, a, c, decision.reserve)
        BY <2>1, <4>1, FirstIsPaid DEF cmd
      <4> QED
        BY <4>2 DEF Affords
    <3>2. CASE p \notin Ours
      BY <1>1, <2>1, <2>2, <3>2, FirstIsWellFormed DEF TurnInv, cmd
    <3> QED
      BY <3>1, <3>2
  <2>6. ASSUME NEW s \in Ours, NEW r \in Resource
        PROVE  Free(s)'[r] >= 0
    <3>1. s \in Station
      BY DEF Ours
    <3>2. Free(s)[r] \in Int /\ Free(s)[r] >= 0
      <4>1. Free(s)[r] >= Zero[r] /\ Zero[r] = 0
        BY DEF PromisesCovered, Dominates, Zero
      <4> QED
        BY <1>1, <3>1, <4>1, FreeIsInteger
    <3>3. Free(s)'[r] \in Int
      BY <2>4, <3>1, FreeIsIntegerNext
    <3> DEFINE F == Free(s)[r]
               F1 == Free(s)'[r]
    <3>4. \/ F1 >= F
          \/ /\ p = s
             /\ F1 = F - Cost(offers, cmd)[r] + Gain(offers, cmd)[r]
      BY <1>1, <2>1, <2>4, <2>5, <3>1, ExecuteFree
    <3>5. CASE F1 >= F
      <4> HIDE DEF F, F1
      <4>1. F \in Int /\ F >= 0 /\ F1 \in Int
        BY <3>2, <3>3 DEF F, F1
      <4>2. F1 >= 0
        BY <3>5, <4>1
      <4> QED
        BY <4>2 DEF F1
    <3>6. CASE p = s /\ F1 = F - Cost(offers, cmd)[r] + Gain(offers, cmd)[r]
      <4>1. /\ decision.reserve \in Bundle
            /\ \E a, b \in Bundle :
                  /\ Paid(offers, batch, a, b, decision.reserve)
                  /\ \A q \in Resource : a[q] = 0 \/ a[q] <= Free(s)[q]
        BY <1>1, <2>1, <2>2, <3>6 DEF TurnInv, BatchCovered
      <4>2. PICK a \in Bundle, b \in Bundle :
                /\ Paid(offers, batch, a, b, decision.reserve)
                /\ \A q \in Resource : a[q] = 0 \/ a[q] <= Free(s)[q]
        BY <4>1
      <4>3. PICK c \in Bundle : Affords(offers, cmd, a, c, decision.reserve)
        BY <2>1, <4>2, FirstIsPaid DEF cmd
      <4>4. a[r] \in Nat /\ c[r] \in Nat /\ c[r] = a[r] - Cost(offers, cmd)[r]
            /\ (a[r] = 0 \/ a[r] <= F) /\ Cost(offers, cmd)[r] <= a[r]
        BY <4>2, <4>3 DEF Affords, Bundle
      <4>5. Cost(offers, cmd) \in Bundle /\ Gain(offers, cmd) \in Bundle
        <5>1. cmd.kind = "ACCEPT" => cmd.id \in DOMAIN offers
          BY <4>3 DEF Affords
        <5> QED
          BY <1>1, <2>5, <5>1, FlowIsTyped
      <4>6. Cost(offers, cmd)[r] \in Nat /\ Gain(offers, cmd)[r] \in Nat
        BY <4>5 DEF Bundle
      <4> DEFINE x == a[r]
                 cost == Cost(offers, cmd)[r]
                 gain == Gain(offers, cmd)[r]
      <4>7. /\ x \in Nat /\ cost \in Nat /\ gain \in Nat /\ F \in Int /\ F >= 0
            /\ x = 0 \/ x <= F
            /\ cost <= x /\ F1 = F - cost + gain
        BY <3>2, <3>6, <4>4, <4>6
      <4> HIDE DEF x, cost, gain, F, F1
      <4>8. F1 >= 0
        BY <4>7
      <4> QED
        BY <4>8 DEF F1
    <3> QED
      BY <3>4, <3>5, <3>6
  <2> QED
    <3>1. \A s \in Ours : \A r \in Resource : Free(s)'[r] >= Zero[r]
      BY <2>6 DEF Zero
    <3> QED
      BY <1>3, <3>1 DEF PromisesCovered, Dominates
<1>6. UNCHANGED vars \/ (Apply(p) /\ Execute(p, Head(batch)))
  BY <1>2 DEF TraderDecides, StandInDecides, Apply, HandsOver, Carries
<1> QED
  BY <1>4, <1>5, <1>6

\* Between two ticks no step of a player breaks a promise of the policy's: with
\* every open offer covered, whatever a batch accepts, offers and gives away, and
\* whatever the others send meanwhile (decide, Strategy's accept, gift and
\* propose stages; post_offer, accept_offer), every open offer is covered still.
THEOREM TurnsKeepPromises ==
    WorldSpec => [][PromisesCovered => PromisesCovered' \/ AdvanceTick]_worldVars
<1>1. WorldInv /\ [WorldNext]_worldVars
         => [PromisesCovered => PromisesCovered' \/ AdvanceTick]_worldVars
  BY PromisesStayCovered
<1> QED
  BY <1>1, WorldIsCovered, PTL DEF WorldSpec

\* A batch of the policy, executed to its end, whoever else refused or accepted
\* what of it, leaves of every resource its reserve, or what was free when the
\* turn began (the reserve that accept, gift and propose each check for
\* themselves).
THEOREM ReserveSurvivesTurn ==
    WorldSpec => [](PromisesCovered => TurnKeepsReserve)
<1>1. ASSUME WorldInv, PromisesCovered, NEW s \in Station, TurnEnds(s),
             NEW r \in Resource
      PROVE  Free(s)[r] >= Min2(decision.available[r], decision.reserve[r])
  <2>1. EngineInv /\ TurnInv /\ TypeOK
    BY <1>1 DEF WorldInv, EngineInv
  <2>2. s \in Ours /\ ~IsDeciding /\ s = Roster[turn]
    BY <1>1 DEF TurnEnds, TurnIsOver
  <2>3. BatchCovered(s)
    BY <2>1, <2>2 DEF TurnInv
  <2> DEFINE A == decision.available[r]
             R == decision.reserve[r]
             F == Free(s)[r]
  <2>4. /\ A \in Nat /\ R \in Nat /\ (A = 0 \/ F >= Min2(A, R))
    BY <2>3 DEF BatchCovered, Bundle
  <2>5. F >= 0
    BY <1>1, <2>2 DEF PromisesCovered, Dominates, Zero
  <2> HIDE DEF A, R, F
  <2>6. F >= Min2(A, R)
    BY <2>4, <2>5 DEF Min2
  <2> QED
    BY <2>6 DEF A, R, F
<1>2. WorldInv => (PromisesCovered => TurnKeepsReserve)
  BY <1>1 DEF TurnKeepsReserve
<1> QED
  BY <1>2, WorldIsCovered, PTL
=============================================================================

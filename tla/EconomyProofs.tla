--------------------------- MODULE EconomyProofs ---------------------------
(***************************************************************************)
(* What the rule engine guarantees for every roster, every rule value and  *)
(* every production schedule.                                              *)
(***************************************************************************)
EXTENDS Economy, TLAPS

-----------------------------------------------------------------------------
(* Bundles *)

\* Sums of bundles are bundles, and saturating_sub never goes negative.
LEMMA BundleArithmetic ==
    ASSUME NEW a \in Bundle, NEW b \in Bundle
    PROVE  /\ Add(a, b) \in Bundle
           /\ SaturatingSub(a, b) \in Bundle
           /\ Sub(a, SaturatingSub(a, b)) \in Bundle
           /\ Dominates(a, b) => Sub(a, b) \in Bundle
           /\ Total(a) \in Nat
  BY DEF Bundle, Add, Sub, SaturatingSub, Dominates, Total, Resource

\* The quantities each operation computes, resource by resource.
LEMMA BundleQuantities ==
    ASSUME NEW a \in Bundle, NEW b \in Bundle, NEW r \in Resource
    PROVE  /\ Add(a, b)[r] = a[r] + b[r]
           /\ Sub(a, b)[r] = a[r] - b[r]
           /\ SaturatingSub(a, b)[r] = IF a[r] > b[r] THEN a[r] - b[r] ELSE 0
           /\ Zero[r] = 0
           /\ a[r] \in Nat /\ b[r] \in Nat
  BY DEF Bundle, Add, Sub, SaturatingSub, Zero

\* A station's output is a bundle.
LEMMA ProducedBundle ==
    ASSUME NEW r \in Resource, NEW n \in Nat
    PROVE  Single(r, n) \in Bundle /\ Zero \in Bundle
  BY DEF Single, Zero, Bundle

-----------------------------------------------------------------------------
(* The tick of one station *)

\* Health stays within 0..max_health, whatever the damage or the recovery.
LEMMA HealthInRange ==
    ASSUME NEW st \in StationRecord, NEW unmet \in Bundle
    PROVE  HealthAfter(st, unmet) \in 0..MaxHealth
<1>1. Total(unmet) \in Nat
  BY BundleArithmetic
<1>2. Total(unmet) * ShortageDamage \in Nat
  BY <1>1, RulesAssumption
<1>3. st.health \in 0..MaxHealth
  BY DEF StationRecord
<1> DEFINE damage == Total(unmet) * ShortageDamage
<1>4. damage \in Nat
  BY <1>2
<1> HIDE DEF damage
<1>5. /\ Max2(0, st.health - damage) \in 0..MaxHealth
      /\ Min2(MaxHealth, st.health + Recovery) \in 0..MaxHealth
  BY <1>3, <1>4, RulesAssumption DEF Max2, Min2
<1> QED
  BY <1>5 DEF HealthAfter, damage

\* settle_tick keeps a station well formed: no stock, total or streak goes
\* below zero and health stays within its range.
LEMMA SettleTickType ==
    ASSUME NEW st \in StationRecord, NEW s \in Station,
           NEW production \in Nat, NEW now \in Nat
    PROVE  SettleTick(st, s, production, now) \in StationRecord
<1> DEFINE produced == Single(Specialty[s], production)
           stock == Add(st.inventory, produced)
           unmet == SaturatingSub(Upkeep[s], stock)
<1>1. /\ st.inventory \in Bundle /\ st.produced \in Bundle
      /\ st.consumed \in Bundle /\ st.unmet \in Bundle
      /\ st.imported \in Bundle /\ st.exported \in Bundle
      /\ st.failedOnce \in BOOLEAN
      /\ st.firstFailureTick \in Nat \cup {NoTick}
      /\ st.fullySupplied \in Nat /\ st.shortage \in Nat
      /\ st.streak \in Nat /\ st.longestStreak \in Nat
  BY DEF StationRecord
<1>2. produced \in Bundle /\ Upkeep[s] \in Bundle
  BY ProducedBundle, RosterAssumption
<1>3. stock \in Bundle
  BY <1>1, <1>2, BundleArithmetic
<1>4. /\ unmet \in Bundle
      /\ SaturatingSub(stock, Upkeep[s]) \in Bundle
      /\ Sub(Upkeep[s], unmet) \in Bundle
  BY <1>2, <1>3, BundleArithmetic
<1>5. /\ Add(st.produced, produced) \in Bundle
      /\ Add(st.consumed, Sub(Upkeep[s], unmet)) \in Bundle
      /\ Add(st.unmet, unmet) \in Bundle
  <2> HIDE DEF produced, unmet
  <2> QED BY <1>1, <1>2, <1>4, BundleArithmetic
<1>6. HealthAfter(st, unmet) \in 0..MaxHealth
  BY <1>4, HealthInRange
<1> HIDE DEF produced, stock, unmet
<1>7. FailedAfter(st, unmet) \in BOOLEAN
  BY <1>1 DEF FailedAfter, Fails
<1>8. /\ StreakAfter(st, unmet) \in Nat
      /\ Max2(st.longestStreak, StreakAfter(st, unmet)) \in Nat
      /\ st.fullySupplied + (IF IsZero(unmet) THEN 1 ELSE 0) \in Nat
      /\ st.shortage + (IF IsZero(unmet) THEN 0 ELSE 1) \in Nat
  BY <1>1 DEF StreakAfter, Max2
<1>9. (IF Fails(st, unmet) THEN now ELSE st.firstFailureTick)
         \in Nat \cup {NoTick}
  BY <1>1
<1> QED
  BY <1>1, <1>4, <1>5, <1>6, <1>7, <1>8, <1>9
  DEF SettleTick, StationRecord, produced, stock, unmet

-----------------------------------------------------------------------------
(* Commands and the offer book *)

\* A command as it comes off the wire or from a player: bundles and sets of
\* resources are what they should be, identifiers and names anything.
WellFormed(cmd) ==
    /\ cmd.kind = "OFFER" => Give(cmd) \in Bundle /\ Receive(cmd) \in Bundle
    /\ cmd.kind = "ADVERTISE" =>
          Selling(cmd) \in SUBSET Resource /\ Seeking(cmd) \in SUBSET Resource
    /\ cmd.kind \in {"OFFER", "ADVERTISE"} => cmd.expires \in Nat

\* A step of the engine, whoever drives it: what follows holds of the commands
\* that Next enumerates and of those a world's players send.
EngineStep ==
    \/ \E s \in Station : \E cmd : WellFormed(cmd) /\ Execute(s, cmd)
    \/ \E production \in [Station -> Nat] : Advance(production)
    \/ UNCHANGED vars

\* The fields of an offer command.
LEMMA OfferCommandType ==
    ASSUME NEW cmd \in Command, cmd.kind = "OFFER"
    PROVE  /\ cmd.recipient \in Station \cup {Stranger}
           /\ Give(cmd) \in Bundle /\ Receive(cmd) \in Bundle
           /\ cmd.expires \in Nat
<1>1. cmd \in [kind : {"OFFER"}, recipient : Station \cup {Stranger},
               terms : OfferTerms, expires : 0..(DurationTicks + 1)]
  BY DEF Command
<1>2. cmd.terms \in Bundle \X Bundle
  BY <1>1, RulesAssumption
<1> QED
  BY <1>1, <1>2, RulesAssumption DEF Give, Receive

\* The fields of an advertisement command.
LEMMA AdvertiseCommandType ==
    ASSUME NEW cmd \in Command, cmd.kind = "ADVERTISE"
    PROVE  /\ Selling(cmd) \in SUBSET Resource
           /\ Seeking(cmd) \in SUBSET Resource
           /\ cmd.expires \in Nat
<1>1. cmd \in [kind : {"ADVERTISE"}, terms : AdTerms,
               expires : 0..(DurationTicks + 1)]
  BY DEF Command
<1>2. cmd.terms \in (SUBSET Resource) \X (SUBSET Resource)
  BY <1>1, RulesAssumption
<1> QED
  BY <1>1, <1>2, RulesAssumption DEF Selling, Seeking

LEMMA CommandsAreWellFormed ==
    ASSUME NEW cmd \in Command
    PROVE  WellFormed(cmd)
BY OfferCommandType, AdvertiseCommandType DEF WellFormed

LEMMA NextIsEngineStep == [Next]_vars => EngineStep
<1> SUFFICES ASSUME [Next]_vars
             PROVE  EngineStep
  OBVIOUS
<1>1. CASE \E s \in Station : \E cmd \in Command : Execute(s, cmd)
  BY <1>1, CommandsAreWellFormed DEF EngineStep
<1>2. CASE \E s \in Station : Refuse(s)
  BY <1>2 DEF Refuse, EngineStep
<1>3. CASE \E production \in [Station -> ProductionLevels] : Advance(production)
  <2>1. [Station -> ProductionLevels] \subseteq [Station -> Nat]
    BY RulesAssumption
  <2> QED
    BY <1>3, <2>1 DEF EngineStep
<1> QED
  BY <1>1, <1>2, <1>3 DEF Next, EngineStep

\* What the precheck has established about a command it lets through.
LEMMA PrecheckPassed ==
    ASSUME NEW s \in Station, NEW cmd, WellFormed(cmd), Precheck(s, cmd) = "OK"
    PROVE  /\ ~stations[s].failedOnce
           /\ ~Finished
           /\ ~(commandCounts[s] >= CommandsPerTick)
           /\ cmd.kind \in {"OFFER", "ADVERTISE"} => DeadlineAllowed(cmd)
           /\ cmd.kind = "OFFER" =>
                 /\ cmd.recipient \in Station \ {s}
                 /\ ~stations[cmd.recipient].failedOnce
                 /\ Dominates(stations[s].inventory, Give(cmd))
                 /\ ~(Cardinality(OpenOutgoing(s)) >= MaxOpenOffers)
  BY DEF Precheck, PrecheckOffer

\* Closing offers keeps the book's keys and each offer's terms, and touches
\* only the offers it is asked to close.
LEMMA CloseKeeps ==
    ASSUME NEW os, NEW ids, NEW status \in OfferStatus, NEW now \in Nat,
           NEW txn \in Nat,
           \A i \in DOMAIN os : os[i] \in OfferRecord
    PROVE  /\ DOMAIN Close(os, ids, status, now, txn) = DOMAIN os
           /\ \A i \in DOMAIN os :
                 LET o == Close(os, ids, status, now, txn)[i] IN
                 /\ o \in OfferRecord
                 /\ o.proposer = os[i].proposer
                 /\ o.recipient = os[i].recipient
                 /\ o.give = os[i].give /\ o.receive = os[i].receive
                 /\ o.created = os[i].created
                 /\ o.expires = os[i].expires
                 /\ i \in ids => /\ o.status = status
                                 /\ o.closedTick = now
                                 /\ o.transaction = txn
                 /\ i \notin ids => o = os[i]
<1>1. DOMAIN Close(os, ids, status, now, txn) = DOMAIN os
  BY DEF Close
<1>2. ASSUME NEW i \in DOMAIN os, i \in ids
      PROVE  LET o == Close(os, ids, status, now, txn)[i] IN
             /\ o \in OfferRecord
             /\ o.proposer = os[i].proposer
             /\ o.recipient = os[i].recipient
             /\ o.give = os[i].give /\ o.receive = os[i].receive
             /\ o.created = os[i].created
             /\ o.expires = os[i].expires
             /\ o.status = status /\ o.closedTick = now
             /\ o.transaction = txn
  <2>1. Close(os, ids, status, now, txn)[i] =
           [os[i] EXCEPT !.status = status, !.closedTick = now,
                         !.transaction = txn]
    BY <1>2 DEF Close
  <2>2. os[i] \in OfferRecord
    OBVIOUS
  <2> QED
    BY ZenonT(60), <2>1, <2>2 DEF OfferRecord
<1>3. ASSUME NEW i \in DOMAIN os, i \notin ids
      PROVE  Close(os, ids, status, now, txn)[i] = os[i]
  BY <1>3 DEF Close
<1> QED
  BY <1>1, <1>2, <1>3

\* What the three sweeps of a tick leave: the same offers on the same terms;
\* closed ones untouched; and an offer still open is one that was open, is
\* before its deadline, has no failed party, and the run is not over.
LEMMA SweepKeeps ==
    ASSUME NEW os, NEW failed, NEW now \in Nat,
           \A i \in DOMAIN os : os[i] \in OfferRecord
    PROVE  LET swept == EndRun(WithdrawFailed(Expire(os, now), failed, now), now)
           IN /\ DOMAIN swept = DOMAIN os
              /\ \A i \in DOMAIN os :
                    /\ swept[i] \in OfferRecord
                    /\ swept[i].proposer = os[i].proposer
                    /\ swept[i].recipient = os[i].recipient
                    /\ swept[i].give = os[i].give
                    /\ swept[i].receive = os[i].receive
                    /\ swept[i].created = os[i].created
                    /\ swept[i].expires = os[i].expires
                    /\ os[i].status # "OPEN" => swept[i] = os[i]
                    /\ swept[i].status = "OPEN" =>
                          /\ swept[i] = os[i]
                          /\ ~(os[i].expires <= now)
                          /\ Parties(os[i]) \cap failed = {}
                          /\ ~(now >= DurationTicks)
                    /\ swept[i].status # "ACCEPTED" \/ swept[i] = os[i]
                    /\ os[i].expires <= now => swept[i].status # "RUN_ENDED"
                                              \/ swept[i] = os[i]
                    /\ swept[i].status = "RUN_ENDED" =>
                          swept[i] = os[i] \/ now >= DurationTicks
<1> DEFINE dead(b) == {i \in OpenIds(b) : b[i].expires <= now}
           gone(b) == {i \in OpenIds(b) : Parties(b[i]) \cap failed # {}}
           b1 == Expire(os, now)
           b2 == WithdrawFailed(b1, failed, now)
           b3 == EndRun(b2, now)
<1>0. /\ NoId \in Nat
      /\ {"EXPIRED", "WITHDRAWN", "RUN_ENDED"} \subseteq OfferStatus
  BY DEF NoId, OfferStatus
<1>1. b1 = Close(os, dead(os), "EXPIRED", now, NoId)
  BY DEF Expire
<1>2. /\ DOMAIN b1 = DOMAIN os
      /\ \A i \in DOMAIN os :
            /\ b1[i] \in OfferRecord
            /\ b1[i].proposer = os[i].proposer
            /\ b1[i].recipient = os[i].recipient
            /\ b1[i].give = os[i].give /\ b1[i].receive = os[i].receive
            /\ b1[i].created = os[i].created
            /\ b1[i].expires = os[i].expires
            /\ i \in dead(os) => b1[i].status = "EXPIRED"
            /\ i \notin dead(os) => b1[i] = os[i]
  <2> HIDE DEF dead, b1
  <2> QED BY <1>0, <1>1, CloseKeeps
<1> HIDE DEF b1
<1>3. b2 = Close(b1, gone(b1), "WITHDRAWN", now, NoId)
  BY DEF WithdrawFailed
<1>4. /\ DOMAIN b2 = DOMAIN os
      /\ \A i \in DOMAIN os :
            /\ b2[i] \in OfferRecord
            /\ b2[i].proposer = b1[i].proposer
            /\ b2[i].recipient = b1[i].recipient
            /\ b2[i].give = b1[i].give /\ b2[i].receive = b1[i].receive
            /\ b2[i].created = b1[i].created
            /\ b2[i].expires = b1[i].expires
            /\ i \in gone(b1) => b2[i].status = "WITHDRAWN"
            /\ i \notin gone(b1) => b2[i] = b1[i]
  <2> HIDE DEF gone, b2
  <2> QED BY <1>0, <1>2, <1>3, CloseKeeps
<1> HIDE DEF b2
<1>5. /\ DOMAIN b3 = DOMAIN os
      /\ \A i \in DOMAIN os :
            /\ b3[i] \in OfferRecord
            /\ b3[i].proposer = b2[i].proposer
            /\ b3[i].recipient = b2[i].recipient
            /\ b3[i].give = b2[i].give /\ b3[i].receive = b2[i].receive
            /\ b3[i].created = b2[i].created
            /\ b3[i].expires = b2[i].expires
            /\ i \in OpenIds(b2) /\ now >= DurationTicks
                  => b3[i].status = "RUN_ENDED"
            /\ i \notin OpenIds(b2) \/ ~(now >= DurationTicks)
                  => b3[i] = b2[i]
  <2>1. CASE now >= DurationTicks
    <3>1. b3 = Close(b2, OpenIds(b2), "RUN_ENDED", now, NoId)
      BY <2>1 DEF EndRun
    <3> HIDE DEF b3
    <3> QED BY <1>0, <1>4, <2>1, <3>1, CloseKeeps
  <2>2. CASE ~(now >= DurationTicks)
    BY <1>4, <2>2 DEF EndRun
  <2> QED BY <2>1, <2>2
<1> HIDE DEF b3
<1>6. ASSUME NEW i \in DOMAIN os
      PROVE  /\ i \in dead(os) <=> os[i].status = "OPEN" /\ os[i].expires <= now
             /\ i \in gone(b1) <=> /\ b1[i].status = "OPEN"
                                   /\ Parties(os[i]) \cap failed # {}
             /\ i \in OpenIds(b2) <=> b2[i].status = "OPEN"
  <2>1. Parties(b1[i]) = Parties(os[i])
    BY <1>2 DEF Parties
  <2> QED BY <1>2, <1>4, <2>1 DEF OpenIds
<1> HIDE DEF dead, gone
<1>7. ASSUME NEW i \in DOMAIN os
      PROVE  /\ b3[i] \in OfferRecord
             /\ b3[i].proposer = os[i].proposer
             /\ b3[i].recipient = os[i].recipient
             /\ b3[i].give = os[i].give
             /\ b3[i].receive = os[i].receive
             /\ b3[i].created = os[i].created
             /\ b3[i].expires = os[i].expires
             /\ os[i].status # "OPEN" => b3[i] = os[i]
             /\ b3[i].status = "OPEN" =>
                   /\ b3[i] = os[i]
                   /\ ~(os[i].expires <= now)
                   /\ Parties(os[i]) \cap failed = {}
                   /\ ~(now >= DurationTicks)
             /\ b3[i].status # "ACCEPTED" \/ b3[i] = os[i]
             /\ os[i].expires <= now => b3[i].status # "RUN_ENDED"
                                       \/ b3[i] = os[i]
             /\ b3[i].status = "RUN_ENDED" =>
                   b3[i] = os[i] \/ now >= DurationTicks
  BY <1>2, <1>4, <1>5, <1>6
<1> QED
  BY <1>5, <1>7 DEF b1, b2, b3

-----------------------------------------------------------------------------
(* Type correctness *)

\* Paying out a bundle the stock covers and taking another in keeps a station
\* well formed.
LEMMA SwapType ==
    ASSUME NEW st \in StationRecord, NEW out \in Bundle, NEW in \in Bundle,
           Dominates(st.inventory, out)
    PROVE  Swap(st, out, in) \in StationRecord
<1>1. /\ st.inventory \in Bundle /\ st.exported \in Bundle
      /\ st.imported \in Bundle
  BY DEF StationRecord
<1>2. Sub(st.inventory, out) \in Bundle
  BY <1>1, BundleArithmetic
<1>3. /\ Add(Sub(st.inventory, out), in) \in Bundle
      /\ Add(st.exported, out) \in Bundle
      /\ Add(st.imported, in) \in Bundle
  BY <1>1, <1>2, BundleArithmetic
<1> QED
  BY <1>3 DEF Swap, StationRecord

\* What an accept that goes through has established.
LEMMA AcceptPassed ==
    ASSUME NEW s \in Station, NEW i, AcceptCode(s, i) = "OK"
    PROVE  /\ i \in DOMAIN offers
           /\ offers[i].recipient = s
           /\ offers[i].status = "OPEN"
           /\ ~IsExpiredAt(offers[i], tick)
           /\ ~stations[offers[i].proposer].failedOnce
           /\ ~stations[offers[i].recipient].failedOnce
           /\ Dominates(stations[offers[i].proposer].inventory,
                        offers[i].give)
           /\ Dominates(stations[offers[i].recipient].inventory,
                        offers[i].receive)
  BY DEF AcceptCode, Parties

\* Every step is one of the operations below; a reader of the later proofs
\* sees one case per operation.
LEMMA StepCases ==
    ASSUME EngineStep
    PROVE  \/ \E s \in Station : \E cmd :
                 /\ WellFormed(cmd) /\ Execute(s, cmd)
                 /\ \/ cmd.kind = "ADVERTISE" /\ Advertise(s, cmd)
                    \/ cmd.kind = "OFFER" /\ PostOffer(s, cmd)
                    \/ cmd.kind = "ACCEPT" /\ Accept(s, cmd.id)
                    \/ cmd.kind = "WITHDRAW" /\ Withdraw(s, cmd.id)
                    \/ UNCHANGED <<stations, offers, advertisements,
                                   transactions, nextId>>
           \/ \E production \in [Station -> Nat] :
                 Advance(production)
           \/ UNCHANGED vars
BY DEF EngineStep, Execute

\* A processed command leaves the clock alone and counts once.
LEMMA ExecuteCounts ==
    ASSUME TypeOK, NEW s \in Station, NEW cmd, WellFormed(cmd), Execute(s, cmd)
    PROVE  /\ tick' = tick
           /\ commandCounts' \in [Station -> 0..CommandsPerTick]
           /\ Precheck(s, cmd) = "OK"
<1>1. /\ commandCounts' = [commandCounts EXCEPT ![s] = @ + 1]
      /\ Precheck(s, cmd) = "OK" /\ tick' = tick
  BY DEF Execute
<1>2. ~(commandCounts[s] >= CommandsPerTick)
  BY <1>1, PrecheckPassed
<1>3. commandCounts[s] + 1 \in 0..CommandsPerTick
  BY <1>2, RulesAssumption DEF TypeOK
<1> QED
  BY <1>1, <1>3 DEF TypeOK

LEMMA EngineKeepsTypes == TypeOK /\ EngineStep => TypeOK'
<1> SUFFICES ASSUME TypeOK, EngineStep PROVE TypeOK'
  OBVIOUS
<1> USE DEF Id, NoId
<1>1. ASSUME NEW s \in Station, NEW cmd, WellFormed(cmd), Execute(s, cmd),
             cmd.kind = "ADVERTISE", Advertise(s, cmd)
      PROVE  TypeOK'
  <2> DEFINE others == {i \in DOMAIN advertisements :
                           advertisements[i].station # s}
             kept == Only(advertisements, others)
             ad == [station |-> s, selling |-> Selling(cmd),
                    seeking |-> Seeking(cmd), created |-> tick,
                    expires |-> cmd.expires]
  <2>1. ad \in AdRecord
    BY <1>1, RulesAssumption DEF WellFormed, AdRecord, TypeOK
  <2>2. /\ DOMAIN kept \subseteq DOMAIN advertisements
        /\ \A i \in DOMAIN kept : kept[i] \in AdRecord
    BY DEF Only, TypeOK
  <2>3. /\ advertisements' = With(kept, nextId, ad)
        /\ nextId' = nextId + 1
        /\ UNCHANGED <<stations, offers, transactions>>
    BY <1>1 DEF Advertise
  <2> HIDE DEF kept, ad
  <2>4. /\ DOMAIN advertisements' = DOMAIN kept \cup {nextId}
        /\ \A i \in DOMAIN advertisements' : advertisements'[i] \in AdRecord
    BY <2>1, <2>2, <2>3 DEF With
  <2> QED BY <1>1, <2>2, <2>3, <2>4, ExecuteCounts DEF TypeOK
<1>2. ASSUME NEW s \in Station, NEW cmd, WellFormed(cmd), Execute(s, cmd),
             cmd.kind = "OFFER", PostOffer(s, cmd)
      PROVE  TypeOK'
  <2> DEFINE o == [proposer |-> s, recipient |-> cmd.recipient,
                   give |-> Give(cmd), receive |-> Receive(cmd),
                   created |-> tick, expires |-> cmd.expires,
                   status |-> "OPEN", closedTick |-> NoTick,
                   transaction |-> NoId]
  <2>1. cmd.recipient \in Station
    BY <1>2, ExecuteCounts, PrecheckPassed
  <2>2. o \in OfferRecord
    BY <1>2, <2>1, RulesAssumption
    DEF WellFormed, OfferRecord, OfferStatus, TypeOK
  <2>3. /\ offers' = With(offers, nextId, o)
        /\ nextId' = nextId + 1
        /\ UNCHANGED <<stations, advertisements, transactions>>
    BY <1>2 DEF PostOffer
  <2> HIDE DEF o
  <2>4. /\ DOMAIN offers' = DOMAIN offers \cup {nextId}
        /\ \A i \in DOMAIN offers' : offers'[i] \in OfferRecord
    BY <2>2, <2>3 DEF With, TypeOK
  <2> QED BY <1>2, <2>3, <2>4, ExecuteCounts DEF TypeOK
<1>3. ASSUME NEW s \in Station, NEW cmd, WellFormed(cmd), Execute(s, cmd),
             Accept(s, cmd.id)
      PROVE  TypeOK'
  <2> DEFINE i == cmd.id
             o == offers[i]
  <2>1. CASE AcceptCode(s, i) = "OK" /\ Settle(i)
    <3>1. /\ i \in DOMAIN offers
          /\ Dominates(stations[o.proposer].inventory, o.give)
          /\ Dominates(stations[o.recipient].inventory, o.receive)
      BY <2>1, AcceptPassed
    <3>2. o \in OfferRecord
      BY <3>1 DEF TypeOK
    <3>3. /\ o.proposer \in Station /\ o.recipient \in Station
          /\ o.give \in Bundle /\ o.receive \in Bundle
      BY <3>2 DEF OfferRecord
    <3> HIDE DEF i, o
    <3>4. stations' \in [Station -> StationRecord]
      <4>1. /\ Swap(stations[o.proposer], o.give, o.receive)
                  \in StationRecord
            /\ Swap(stations[o.recipient], o.receive, o.give)
                  \in StationRecord
        BY <3>1, <3>3, SwapType DEF TypeOK
      <4> QED BY <2>1, <4>1 DEF Settle, TypeOK, o
    <3>5. i \in 1..(nextId - 1) /\ tick \in Nat /\ nextId \in Nat
      BY <3>1, RulesAssumption DEF TypeOK
    <3>6. offers' = Close(offers, {i}, "ACCEPTED", tick, nextId)
      BY <2>1 DEF Settle
    <3>7. /\ DOMAIN offers' = DOMAIN offers
          /\ \A j \in DOMAIN offers : offers'[j] \in OfferRecord
      <4>1. "ACCEPTED" \in OfferStatus /\ nextId \in Nat /\ tick \in Nat
        BY <3>5 DEF OfferStatus
      <4>2. \A j \in DOMAIN offers : offers[j] \in OfferRecord
        BY DEF TypeOK
      <4> QED BY <3>6, <4>1, <4>2, CloseKeeps
    <3> DEFINE t == [offer |-> i, proposer |-> o.proposer,
                     recipient |-> o.recipient, give |-> o.give,
                     receive |-> o.receive, settled |-> tick]
    <3>8. t \in TransactionRecord
      BY <3>3, <3>5 DEF TransactionRecord
    <3>9. transactions' = With(transactions, nextId, t)
      BY <2>1 DEF Settle, o
    <3> HIDE DEF t
    <3>10. /\ DOMAIN transactions' = DOMAIN transactions \cup {nextId}
           /\ \A j \in DOMAIN transactions' :
                 transactions'[j] \in TransactionRecord
      BY <3>8, <3>9 DEF With, TypeOK
    <3>11. nextId' = nextId + 1 /\ UNCHANGED advertisements
      BY <1>3, <2>1 DEF Settle, Accept
    <3> QED
      BY <1>3, <3>4, <3>7, <3>10, <3>11, ExecuteCounts DEF TypeOK
  <2>2. CASE UNCHANGED <<stations, offers, transactions, nextId>>
    BY <1>3, <2>2, ExecuteCounts DEF Accept, TypeOK
  <2> QED BY <1>3, <2>1, <2>2 DEF Accept
<1>4. ASSUME NEW s \in Station, NEW cmd, WellFormed(cmd), Execute(s, cmd),
             Withdraw(s, cmd.id)
      PROVE  TypeOK'
  <2> DEFINE i == cmd.id
  <2>1. /\ UNCHANGED <<stations, transactions, nextId>>
        /\ tick' = tick
        /\ commandCounts' \in [Station -> 0..CommandsPerTick]
    BY <1>4, ExecuteCounts DEF Withdraw
  <2>2. CASE /\ advertisements' =
                    Only(advertisements, DOMAIN advertisements \ {i})
             /\ UNCHANGED offers
    BY <2>1, <2>2 DEF Only, TypeOK
  <2>3. CASE /\ offers' = Close(offers, {i}, "WITHDRAWN", tick, NoId)
             /\ UNCHANGED advertisements
    <3>1. tick \in Nat /\ "WITHDRAWN" \in OfferStatus
      BY RulesAssumption DEF TypeOK, OfferStatus
    <3>2. /\ DOMAIN offers' = DOMAIN offers
          /\ \A j \in DOMAIN offers : offers'[j] \in OfferRecord
      BY <2>3, <3>1, CloseKeeps DEF TypeOK
    <3> QED BY <2>1, <2>3, <3>2 DEF TypeOK
  <2>4. CASE UNCHANGED <<offers, advertisements>>
    BY <2>1, <2>4 DEF TypeOK
  <2> QED BY <1>4, <2>2, <2>3, <2>4 DEF Withdraw
<1>5. ASSUME NEW s \in Station, NEW cmd, WellFormed(cmd), Execute(s, cmd),
             UNCHANGED <<stations, offers, advertisements, transactions,
                         nextId>>
      PROVE  TypeOK'
  BY <1>5, ExecuteCounts DEF TypeOK
<1>6. ASSUME NEW production \in [Station -> Nat],
             Advance(production)
      PROVE  TypeOK'
  <2> DEFINE settled == [s \in Station |->
                 SettleTick(stations[s], s, production[s], tick + 1)]
             failed == {s \in Station : settled[s].failedOnce}
  <2>1. /\ tick' = tick + 1
        /\ stations' = settled
        /\ offers' = EndRun(WithdrawFailed(Expire(offers, tick + 1), failed,
                                           tick + 1), tick + 1)
        /\ advertisements' = LiveAds(advertisements, failed, tick + 1)
        /\ commandCounts' = [s \in Station |-> 0]
        /\ UNCHANGED <<transactions, nextId>>
        /\ ~Finished
    BY <1>6 DEF Advance
  <2>2. tick + 1 \in 0..DurationTicks /\ tick + 1 \in Nat
    BY <2>1, RulesAssumption DEF Finished, TypeOK
  <2>3. settled \in [Station -> StationRecord]
    <3>1. ASSUME NEW s \in Station
          PROVE  SettleTick(stations[s], s, production[s], tick + 1)
                    \in StationRecord
      BY <2>2, SettleTickType, RulesAssumption DEF TypeOK
    <3> QED BY <3>1
  <2> HIDE DEF settled, failed
  <2>4. /\ DOMAIN offers' = DOMAIN offers
        /\ \A j \in DOMAIN offers : offers'[j] \in OfferRecord
    BY <2>1, <2>2, SweepKeeps DEF TypeOK
  <2>5. /\ DOMAIN advertisements' \subseteq DOMAIN advertisements
        /\ \A j \in DOMAIN advertisements' :
              advertisements'[j] = advertisements[j]
    BY <2>1 DEF Only, LiveAds
  <2>6. commandCounts' \in [Station -> 0..CommandsPerTick]
    BY <2>1, RulesAssumption
  <2> QED BY <2>1, <2>2, <2>3, <2>4, <2>5, <2>6 DEF TypeOK
<1>7. CASE UNCHANGED vars
  BY <1>7 DEF TypeOK, vars
<1> QED BY <1>1, <1>2, <1>3, <1>4, <1>5, <1>6, <1>7, StepCases

\* Every value of the engine stays in its type, for every roster and rules.
THEOREM TypeCorrect == Spec => []TypeOK
<1>1. Init => TypeOK
  <2> SUFFICES ASSUME Init PROVE TypeOK
    OBVIOUS
  <2>1. stations \in [Station -> StationRecord]
    <3>1. ASSUME NEW s \in Station PROVE NewStation(s) \in StationRecord
      <4>1. Zero \in Bundle /\ InitialInventory[s] \in Bundle
        BY RosterAssumption DEF Zero, Bundle
      <4>2. MaxHealth \in 0..MaxHealth /\ NoTick \in Nat \cup {NoTick}
        BY RulesAssumption
      <4> QED
        BY <4>1, <4>2 DEF NewStation, StationRecord
    <3> QED BY <3>1 DEF Init
  <2>2. /\ tick \in 0..DurationTicks
        /\ commandCounts \in [Station -> 0..CommandsPerTick]
        /\ nextId \in Id
    BY RulesAssumption DEF Init, Id, NoId
  <2>3. DOMAIN offers = {} /\ DOMAIN advertisements = {}
        /\ DOMAIN transactions = {}
    BY DEF Init
  <2> QED BY <2>1, <2>2, <2>3 DEF TypeOK
<1>2. TypeOK /\ EngineStep => TypeOK'
  BY EngineKeepsTypes
<1> QED BY <1>1, <1>2, NextIsEngineStep, PTL DEF Spec

-----------------------------------------------------------------------------
(* The ledger *)

\* What a station owns and has given away, less what came in: the quantity
\* every operation must leave as it was.
Balance(st, r) ==
    st.inventory[r] + st.consumed[r] + st.exported[r]
        - st.produced[r] - st.imported[r]

\* A tick books every unit it moves.
LEMMA SettleTickBalance ==
    ASSUME NEW st \in StationRecord, NEW s \in Station,
           NEW production \in Nat, NEW now \in Nat, NEW r \in Resource
    PROVE  Balance(SettleTick(st, s, production, now), r) = Balance(st, r)
<1> DEFINE produced == Single(Specialty[s], production)
           stock == Add(st.inventory, produced)
           unmet == SaturatingSub(Upkeep[s], stock)
           next == SettleTick(st, s, production, now)
<1>1. /\ st.inventory \in Bundle /\ st.produced \in Bundle
      /\ st.consumed \in Bundle
      /\ st.imported \in Bundle /\ st.exported \in Bundle
  BY DEF StationRecord
<1>2. produced \in Bundle /\ Upkeep[s] \in Bundle
  BY ProducedBundle, RosterAssumption
<1>3. /\ next.inventory = SaturatingSub(stock, Upkeep[s])
      /\ next.consumed = Add(st.consumed, Sub(Upkeep[s], unmet))
      /\ next.produced = Add(st.produced, produced)
      /\ next.exported = st.exported /\ next.imported = st.imported
  BY DEF SettleTick
<1> HIDE DEF next, produced
<1>4. /\ stock[r] = st.inventory[r] + produced[r]
      /\ unmet[r] = IF Upkeep[s][r] > stock[r] THEN Upkeep[s][r] - stock[r]
                    ELSE 0
      /\ next.inventory[r] = IF stock[r] > Upkeep[s][r]
                             THEN stock[r] - Upkeep[s][r] ELSE 0
      /\ next.consumed[r] = st.consumed[r] + (Upkeep[s][r] - unmet[r])
      /\ next.produced[r] = st.produced[r] + produced[r]
  BY <1>3 DEF Add, Sub, SaturatingSub
<1>5. /\ st.inventory[r] \in Nat /\ st.produced[r] \in Nat
      /\ st.consumed[r] \in Nat /\ st.imported[r] \in Nat
      /\ st.exported[r] \in Nat /\ produced[r] \in Nat
      /\ Upkeep[s][r] \in Nat
  BY <1>1, <1>2 DEF Bundle
<1> HIDE DEF stock, unmet
<1>6. /\ next.inventory[r] \in Int /\ next.consumed[r] \in Int
      /\ next.produced[r] \in Int
      /\ next.inventory[r] + next.consumed[r] - next.produced[r]
            = st.inventory[r] + st.consumed[r] - st.produced[r]
  BY <1>4, <1>5
<1>7. next.exported[r] = st.exported[r] /\ next.imported[r] = st.imported[r]
  BY <1>3
<1>8. Balance(next, r) = Balance(st, r)
  BY <1>5, <1>6, <1>7 DEF Balance
<1> QED
  BY <1>8 DEF next

\* So does a settlement, on either side.
LEMMA SwapBalance ==
    ASSUME NEW st \in StationRecord, NEW out \in Bundle, NEW in \in Bundle,
           NEW r \in Resource
    PROVE  Balance(Swap(st, out, in), r) = Balance(st, r)
<1>1. /\ st.inventory \in Bundle /\ st.produced \in Bundle
      /\ st.consumed \in Bundle
      /\ st.imported \in Bundle /\ st.exported \in Bundle
  BY DEF StationRecord
<1>2. st = [inventory |-> st.inventory, health |-> st.health,
            failedOnce |-> st.failedOnce,
            firstFailureTick |-> st.firstFailureTick,
            fullySupplied |-> st.fullySupplied, shortage |-> st.shortage,
            streak |-> st.streak, longestStreak |-> st.longestStreak,
            produced |-> st.produced, consumed |-> st.consumed,
            unmet |-> st.unmet, imported |-> st.imported,
            exported |-> st.exported]
  BY DEF StationRecord
<1>3. /\ Swap(st, out, in).inventory = Add(Sub(st.inventory, out), in)
      /\ Swap(st, out, in).exported = Add(st.exported, out)
      /\ Swap(st, out, in).imported = Add(st.imported, in)
      /\ Swap(st, out, in).consumed = st.consumed
      /\ Swap(st, out, in).produced = st.produced
  BY <1>2 DEF Swap
<1>4. /\ Swap(st, out, in).inventory[r] = (st.inventory[r] - out[r]) + in[r]
      /\ Swap(st, out, in).exported[r] = st.exported[r] + out[r]
      /\ Swap(st, out, in).imported[r] = st.imported[r] + in[r]
  BY <1>3 DEF Add, Sub
<1>5. /\ st.inventory[r] \in Nat /\ st.produced[r] \in Nat
      /\ st.consumed[r] \in Nat /\ st.imported[r] \in Nat
      /\ st.exported[r] \in Nat /\ out[r] \in Nat /\ in[r] \in Nat
  BY <1>1 DEF Bundle
<1> QED
  BY <1>3, <1>4, <1>5 DEF Balance

\* A step leaves the stations alone, or settles one offer that its recipient
\* accepts, or runs one tick of every station.
LEMMA StationCases ==
    ASSUME EngineStep
    PROVE  \/ stations' = stations
           \/ \E s \in Station : \E i \in DOMAIN offers :
                 AcceptCode(s, i) = "OK" /\ Settle(i)
           \/ \E production \in [Station -> Nat] :
                 stations' = [s \in Station |->
                     SettleTick(stations[s], s, production[s], tick + 1)]
<1>1. ASSUME NEW s \in Station, NEW cmd, WellFormed(cmd), Accept(s, cmd.id)
      PROVE  \/ stations' = stations
             \/ \E i \in DOMAIN offers : AcceptCode(s, i) = "OK" /\ Settle(i)
  <2>1. CASE AcceptCode(s, cmd.id) = "OK" /\ Settle(cmd.id)
    BY <2>1, AcceptPassed
  <2> QED BY <1>1, <2>1 DEF Accept
<1>2. ASSUME NEW production \in [Station -> Nat],
             Advance(production)
      PROVE  stations' = [s \in Station |->
                 SettleTick(stations[s], s, production[s], tick + 1)]
  BY <1>2 DEF Advance
<1> QED
  BY <1>1, <1>2, StepCases DEF Advertise, PostOffer, Withdraw, vars

\* Double entry holds for every roster, rules, schedule and course of trade.
THEOREM LedgerAlwaysBalanced == Spec => []LedgerBalanced
<1> DEFINE Balanced == \A s \in Station : \A r \in Resource :
                          Balance(stations[s], r) = InitialInventory[s][r]
<1>1. TypeOK => (LedgerBalanced <=> Balanced)
  <2> SUFFICES ASSUME TypeOK, NEW s \in Station, NEW r \in Resource
               PROVE  LET st == stations[s] IN
                      st.inventory[r] + st.consumed[r] + st.exported[r]
                          = InitialInventory[s][r] + st.produced[r]
                                + st.imported[r]
                      <=> Balance(st, r) = InitialInventory[s][r]
    BY DEF LedgerBalanced
  <2>1. stations[s] \in StationRecord /\ InitialInventory[s] \in Bundle
    BY RosterAssumption DEF TypeOK
  <2>2. /\ stations[s].inventory[r] \in Nat
        /\ stations[s].consumed[r] \in Nat
        /\ stations[s].exported[r] \in Nat
        /\ stations[s].produced[r] \in Nat
        /\ stations[s].imported[r] \in Nat
        /\ InitialInventory[s][r] \in Nat
    BY <2>1 DEF StationRecord, Bundle
  <2> QED BY <2>2 DEF Balance
<1>2. Init => Balanced
  <2> SUFFICES ASSUME Init, NEW s \in Station, NEW r \in Resource
               PROVE  Balance(stations[s], r) = InitialInventory[s][r]
    OBVIOUS
  <2>1. InitialInventory[s][r] \in Nat
    BY RosterAssumption DEF Bundle
  <2> QED BY <2>1 DEF Init, NewStation, Balance, Zero
<1>3. TypeOK /\ Balanced /\ EngineStep => Balanced'
  <2> SUFFICES ASSUME TypeOK, Balanced, EngineStep,
                      NEW s \in Station, NEW r \in Resource
               PROVE  Balance(stations'[s], r) = Balance(stations[s], r)
    OBVIOUS
  <2>1. CASE stations' = stations
    BY <2>1
  <2>2. ASSUME NEW a \in Station, NEW i \in DOMAIN offers,
               AcceptCode(a, i) = "OK", Settle(i)
        PROVE  Balance(stations'[s], r) = Balance(stations[s], r)
    <3>1. offers[i].give \in Bundle /\ offers[i].receive \in Bundle
      BY DEF TypeOK, OfferRecord
    <3>2. stations[s] \in StationRecord
      BY DEF TypeOK
    <3>3. \/ stations'[s] = stations[s]
          \/ stations'[s] = Swap(stations[s], offers[i].give,
                                 offers[i].receive)
          \/ stations'[s] = Swap(stations[s], offers[i].receive,
                                 offers[i].give)
      BY <2>2 DEF Settle
    <3> QED BY <3>1, <3>2, <3>3, SwapBalance
  <2>3. ASSUME NEW production \in [Station -> Nat],
               stations' = [p \in Station |->
                   SettleTick(stations[p], p, production[p], tick + 1)]
        PROVE  Balance(stations'[s], r) = Balance(stations[s], r)
    <3>1. stations[s] \in StationRecord /\ tick + 1 \in Nat
      BY RulesAssumption DEF TypeOK
    <3>2. production[s] \in Nat
      BY RulesAssumption
    <3> QED BY <2>3, <3>1, <3>2, SettleTickBalance
  <2> QED BY <2>1, <2>2, <2>3, StationCases
<1>4. Spec => []Balanced
  BY <1>2, <1>3, TypeCorrect, NextIsEngineStep, PTL DEF Spec
<1> QED
  BY <1>1, <1>4, TypeCorrect, PTL

-----------------------------------------------------------------------------
(* The market *)

\* A failed station stays failed through a tick.
LEMMA FailureSurvivesTick ==
    ASSUME NEW st, NEW s, NEW production, NEW now, st.failedOnce
    PROVE  SettleTick(st, s, production, now).failedOnce
  BY DEF SettleTick, FailedAfter

\* A settlement changes neither party's failure.
LEMMA SwapKeepsFailure ==
    ASSUME NEW st \in StationRecord, NEW out, NEW in
    PROVE  /\ Swap(st, out, in).failedOnce = st.failedOnce
           /\ Swap(st, out, in).firstFailureTick = st.firstFailureTick
  BY DEF Swap, StationRecord

\* Only a tick can make a station fail, and no step makes one recover.
LEMMA FailureCases ==
    ASSUME TypeOK, EngineStep
    PROVE  \/ \A s \in Station :
                 stations'[s].failedOnce = stations[s].failedOnce
           \/ \E production \in [Station -> Nat] :
                 Advance(production)
<1>1. CASE stations' = stations
  BY <1>1
<1>2. ASSUME NEW s \in Station, NEW cmd, WellFormed(cmd), Accept(s, cmd.id)
      PROVE  \A p \in Station :
                 stations'[p].failedOnce = stations[p].failedOnce
  <2>1. CASE Settle(cmd.id)
    <3>1. ASSUME NEW p \in Station
          PROVE  stations'[p].failedOnce = stations[p].failedOnce
      <4>1. stations[p] \in StationRecord
        BY DEF TypeOK
      <4>2. \/ stations'[p] = stations[p]
            \/ \E out, in : stations'[p] = Swap(stations[p], out, in)
        BY <2>1 DEF Settle
      <4> QED BY <4>1, <4>2, SwapKeepsFailure
    <3> QED BY <3>1
  <2> QED BY <1>2, <2>1 DEF Accept
<1> QED
  BY <1>1, <1>2, StepCases DEF Advertise, PostOffer, Withdraw, vars

\* The precheck's deadline rule, on the deadline a command asks for.
DeadlineKept(o) == o.expires <= DurationTicks

\* How a step changes the offer book: a new open offer between two stations
\* that have not failed, within its caps; or some offers of the book closed
\* by a command; or the sweeps of a tick.
LEMMA OfferCases ==
    ASSUME TypeOK, EngineStep
    PROVE  \/ offers' = offers /\ tick' = tick
           \/ /\ tick' = tick
              /\ \E o \in OfferRecord :
                    /\ offers' = With(offers, nextId, o)
                    /\ o.status = "OPEN" /\ o.closedTick = NoTick
                    /\ o.created = tick
                    /\ tick < o.expires /\ o.expires <= tick + MaxOfferTtl
                    /\ DeadlineKept(o)
                    /\ ~stations[o.proposer].failedOnce
                    /\ ~stations[o.recipient].failedOnce
                    /\ ~Finished
           \/ /\ tick' = tick
              /\ \E i \in DOMAIN offers :
                    /\ offers[i].status = "OPEN"
                    /\ \/ offers' = Close(offers, {i}, "WITHDRAWN", tick, NoId)
                       \/ offers' = Close(offers, {i}, "ACCEPTED", tick, nextId)
           \/ \E production \in [Station -> Nat] :
                 Advance(production)
<1>1. ASSUME NEW s \in Station, NEW cmd, WellFormed(cmd), Execute(s, cmd),
             cmd.kind = "OFFER", PostOffer(s, cmd)
      PROVE  /\ tick' = tick
             /\ \E o \in OfferRecord :
                    /\ offers' = With(offers, nextId, o)
                    /\ o.status = "OPEN" /\ o.closedTick = NoTick
                    /\ o.created = tick
                    /\ tick < o.expires /\ o.expires <= tick + MaxOfferTtl
                    /\ DeadlineKept(o)
                    /\ ~stations[o.proposer].failedOnce
                    /\ ~stations[o.recipient].failedOnce
                    /\ ~Finished
  <2> DEFINE o == [proposer |-> s, recipient |-> cmd.recipient,
                   give |-> Give(cmd), receive |-> Receive(cmd),
                   created |-> tick, expires |-> cmd.expires,
                   status |-> "OPEN", closedTick |-> NoTick,
                   transaction |-> NoId]
  <2>1. /\ cmd.recipient \in Station
        /\ ~stations[s].failedOnce /\ ~stations[cmd.recipient].failedOnce
        /\ DeadlineAllowed(cmd) /\ ~Finished /\ tick' = tick
    BY <1>1, ExecuteCounts, PrecheckPassed
  <2>2. o \in OfferRecord
    BY <1>1, <2>1, RulesAssumption
    DEF WellFormed, OfferRecord, OfferStatus, TypeOK, NoId
  <2>3. offers' = With(offers, nextId, o)
    BY <1>1 DEF PostOffer
  <2>4. /\ tick < cmd.expires /\ cmd.expires <= tick + MaxOfferTtl
        /\ cmd.expires <= DurationTicks
    BY <1>1, <2>1 DEF DeadlineAllowed, TtlOf
  <2>5. /\ o.status = "OPEN" /\ o.closedTick = NoTick /\ o.created = tick
        /\ o.expires = cmd.expires
        /\ o.proposer = s /\ o.recipient = cmd.recipient
    OBVIOUS
  <2> HIDE DEF o
  <2> QED BY <2>1, <2>2, <2>3, <2>4, <2>5 DEF DeadlineKept
<1>2. ASSUME NEW s \in Station, NEW cmd, WellFormed(cmd), Execute(s, cmd),
             Accept(s, cmd.id)
      PROVE  /\ tick' = tick
             /\ \/ offers' = offers
                \/ \E i \in DOMAIN offers :
                      /\ offers[i].status = "OPEN"
                      /\ offers' = Close(offers, {i}, "ACCEPTED", tick, nextId)
  BY <1>2, ExecuteCounts, AcceptPassed DEF Accept, Settle
<1>3. ASSUME NEW s \in Station, NEW cmd, WellFormed(cmd), Execute(s, cmd),
             Withdraw(s, cmd.id)
      PROVE  /\ tick' = tick
             /\ \/ offers' = offers
                \/ \E i \in DOMAIN offers :
                      /\ offers[i].status = "OPEN"
                      /\ offers' = Close(offers, {i}, "WITHDRAWN", tick, NoId)
  <2>1. tick' = tick
    BY <1>3, ExecuteCounts
  <2>2. CASE /\ WithdrawCode(s, cmd.id) = "OK"
             /\ cmd.id \notin DOMAIN advertisements
             /\ offers' = Close(offers, {cmd.id}, "WITHDRAWN", tick, NoId)
    BY <2>1, <2>2 DEF WithdrawCode
  <2> QED BY <1>3, <2>1, <2>2 DEF Withdraw
<1> QED
  BY <1>1, <1>2, <1>3, ExecuteCounts, StepCases DEF Advertise, vars

\* How a step changes the advertisements: one more by a station that has not
\* failed, within its caps; or some withdrawn; or the sweeps of a tick.
LEMMA AdCases ==
    ASSUME TypeOK, EngineStep
    PROVE  \/ /\ tick' = tick
              /\ \E S : advertisements' = Only(advertisements, S)
           \/ /\ tick' = tick
              /\ \E S : \E ad \in AdRecord :
                    /\ advertisements' =
                          With(Only(advertisements, S), nextId, ad)
                    /\ tick < ad.expires
                    /\ ad.expires <= ad.created + MaxPublicationTtl
                    /\ DeadlineKept(ad)
                    /\ ~stations[ad.station].failedOnce
           \/ \E production \in [Station -> Nat] :
                 Advance(production)
           \/ advertisements' = advertisements /\ tick' = tick
<1>1. ASSUME NEW s \in Station, NEW cmd, WellFormed(cmd), Execute(s, cmd),
             cmd.kind = "ADVERTISE", Advertise(s, cmd)
      PROVE  /\ tick' = tick
             /\ \E S : \E ad \in AdRecord :
                    /\ advertisements' =
                          With(Only(advertisements, S), nextId, ad)
                    /\ tick < ad.expires
                    /\ ad.expires <= ad.created + MaxPublicationTtl
                    /\ DeadlineKept(ad)
                    /\ ~stations[ad.station].failedOnce
  <2> DEFINE S == {i \in DOMAIN advertisements :
                      advertisements[i].station # s}
             ad == [station |-> s, selling |-> Selling(cmd),
                    seeking |-> Seeking(cmd), created |-> tick,
                    expires |-> cmd.expires]
  <2>1. tick' = tick /\ ~stations[s].failedOnce /\ DeadlineAllowed(cmd)
    BY <1>1, ExecuteCounts, PrecheckPassed
  <2>2. ad \in AdRecord
    BY <1>1, RulesAssumption DEF WellFormed, AdRecord, TypeOK
  <2>3. advertisements' = With(Only(advertisements, S), nextId, ad)
    BY <1>1 DEF Advertise
  <2>4. /\ tick < cmd.expires /\ cmd.expires <= tick + MaxPublicationTtl
        /\ cmd.expires <= DurationTicks
    BY <1>1, <2>1 DEF DeadlineAllowed, TtlOf
  <2>5. ad.station = s /\ ad.created = tick /\ ad.expires = cmd.expires
    OBVIOUS
  <2> HIDE DEF S, ad
  <2> QED BY <2>1, <2>2, <2>3, <2>4, <2>5 DEF DeadlineKept
<1>2. ASSUME NEW s \in Station, NEW cmd, WellFormed(cmd), Execute(s, cmd),
             Withdraw(s, cmd.id)
      PROVE  /\ tick' = tick
             /\ \/ advertisements' = advertisements
                \/ \E S : advertisements' = Only(advertisements, S)
  BY <1>2, ExecuteCounts DEF Withdraw
<1> QED
  BY <1>1, <1>2, ExecuteCounts, StepCases DEF PostOffer, Accept, vars

\* The inductive strengthening: every deadline is within the run and no offer
\* was closed by the end of the run, besides what is live.
OfferInv ==
    \A i \in DOMAIN offers :
        /\ DeadlineKept(offers[i])
        /\ offers[i].status # "RUN_ENDED"
        /\ offers[i].status = "OPEN" =>
              /\ tick < offers[i].expires
              /\ offers[i].expires <= offers[i].created + MaxOfferTtl
              /\ offers[i].closedTick = NoTick
              /\ ~stations[offers[i].proposer].failedOnce
              /\ ~stations[offers[i].recipient].failedOnce

AdInv ==
    \A i \in DOMAIN advertisements :
        /\ DeadlineKept(advertisements[i])
        /\ tick < advertisements[i].expires
        /\ advertisements[i].expires
              <= advertisements[i].created + MaxPublicationTtl
        /\ ~stations[advertisements[i].station].failedOnce

\* The sweeps of one tick establish the two invariants whatever was open.
LEMMA AdvanceKeepsMarket ==
    ASSUME TypeOK, OfferInv, AdInv,
           NEW production \in [Station -> Nat],
           Advance(production)
    PROVE  OfferInv' /\ AdInv'
<1> DEFINE settled == [s \in Station |->
                SettleTick(stations[s], s, production[s], tick + 1)]
           failed == {s \in Station : settled[s].failedOnce}
<1>1. /\ tick' = tick + 1
      /\ stations' = settled
      /\ offers' = EndRun(WithdrawFailed(Expire(offers, tick + 1), failed,
                                         tick + 1), tick + 1)
      /\ advertisements' = LiveAds(advertisements, failed, tick + 1)
  BY DEF Advance
<1>2. tick + 1 \in Nat /\ \A i \in DOMAIN offers : offers[i] \in OfferRecord
  BY RulesAssumption DEF TypeOK
<1>3. \A s \in Station : stations'[s].failedOnce <=> s \in failed
  BY <1>1
<1> HIDE DEF settled, failed
<1>4. OfferInv'
  <2> SUFFICES ASSUME NEW i \in DOMAIN offers'
               PROVE  /\ DeadlineKept(offers'[i])
                      /\ offers'[i].status # "RUN_ENDED"
                      /\ offers'[i].status = "OPEN" =>
                           /\ tick' < offers'[i].expires
                           /\ offers'[i].expires
                                 <= offers'[i].created + MaxOfferTtl
                           /\ offers'[i].closedTick = NoTick
                           /\ ~stations'[offers'[i].proposer].failedOnce
                           /\ ~stations'[offers'[i].recipient].failedOnce
    BY DEF OfferInv, DeadlineKept
  <2>1. /\ i \in DOMAIN offers
        /\ offers'[i].expires = offers[i].expires
        /\ offers[i].status # "OPEN" => offers'[i] = offers[i]
        /\ offers'[i].status = "OPEN" =>
              /\ offers'[i] = offers[i]
              /\ ~(offers[i].expires <= tick + 1)
              /\ Parties(offers[i]) \cap failed = {}
              /\ ~(tick + 1 >= DurationTicks)
        /\ offers[i].expires <= tick + 1 =>
              offers'[i].status # "RUN_ENDED" \/ offers'[i] = offers[i]
        /\ offers'[i].status = "RUN_ENDED" =>
              offers'[i] = offers[i] \/ tick + 1 >= DurationTicks
    BY <1>1, <1>2, SweepKeeps
  <2>2. offers[i] \in OfferRecord
    BY <1>2, <2>1
  <2>3. /\ offers[i].proposer \in Station /\ offers[i].recipient \in Station
        /\ offers[i].expires \in Nat
    BY <2>2 DEF OfferRecord
  <2>4. DeadlineKept(offers[i]) /\ offers[i].status # "RUN_ENDED"
    BY <2>1 DEF OfferInv
  <2>5. DeadlineKept(offers'[i])
    BY <2>1, <2>4 DEF DeadlineKept
  <2>6. offers'[i].status # "RUN_ENDED"
    BY <1>2, <2>1, <2>3, <2>4, RulesAssumption DEF DeadlineKept
  <2>7. ASSUME offers'[i].status = "OPEN"
        PROVE  /\ tick' < offers'[i].expires
               /\ offers'[i].expires <= offers'[i].created + MaxOfferTtl
               /\ offers'[i].closedTick = NoTick
               /\ ~stations'[offers'[i].proposer].failedOnce
               /\ ~stations'[offers'[i].recipient].failedOnce
    <3>1. /\ offers'[i] = offers[i] /\ offers[i].status = "OPEN"
          /\ ~(offers[i].expires <= tick + 1)
          /\ offers[i].proposer \notin failed
          /\ offers[i].recipient \notin failed
      BY <2>1, <2>7 DEF Parties
    <3>2. /\ offers[i].expires <= offers[i].created + MaxOfferTtl
          /\ offers[i].closedTick = NoTick
      BY <2>1, <3>1 DEF OfferInv
    <3> QED BY <1>1, <1>2, <1>3, <2>3, <3>1, <3>2
  <2> QED BY <2>5, <2>6, <2>7
<1>5. AdInv'
  <2> SUFFICES ASSUME NEW i \in DOMAIN advertisements'
               PROVE  /\ i \in DOMAIN advertisements
                      /\ advertisements'[i] = advertisements[i]
                      /\ tick' < advertisements[i].expires
                      /\ ~stations'[advertisements[i].station].failedOnce
    BY DEF AdInv, DeadlineKept
  <2>1. /\ i \in DOMAIN advertisements
        /\ advertisements'[i] = advertisements[i]
        /\ advertisements[i].expires > tick + 1
        /\ advertisements[i].station \notin failed
    BY <1>1 DEF LiveAds, Only
  <2>2. advertisements[i].station \in Station
        /\ advertisements[i].expires \in Nat
    BY <2>1 DEF TypeOK, AdRecord
  <2> QED BY <1>1, <1>2, <1>3, <2>1, <2>2
<1> QED BY <1>4, <1>5

\* The two invariants together are inductive.
LEMMA EngineKeepsMarket ==
    TypeOK /\ TypeOK' /\ OfferInv /\ AdInv /\ EngineStep => OfferInv' /\ AdInv'
<1> SUFFICES ASSUME TypeOK, TypeOK', OfferInv, AdInv, EngineStep
             PROVE  OfferInv' /\ AdInv'
  OBVIOUS
<1>1. CASE \E production \in [Station -> Nat] :
              Advance(production)
  BY <1>1, AdvanceKeepsMarket
<1>2. ASSUME \A s \in Station :
                stations'[s].failedOnce = stations[s].failedOnce,
             ~\E production \in [Station -> Nat] :
                Advance(production)
      PROVE  OfferInv'
  <2>1. tick \in Nat /\ \A i \in DOMAIN offers : offers[i] \in OfferRecord
    BY RulesAssumption DEF TypeOK
  <2>2. ASSUME NEW o \in OfferRecord
        PROVE  o.proposer \in Station /\ o.recipient \in Station
    BY DEF OfferRecord
  <2>3. CASE offers' = offers /\ tick' = tick
    BY <1>2, <2>1, <2>2, <2>3 DEF OfferInv
  <2>4. ASSUME tick' = tick, NEW o \in OfferRecord,
               offers' = With(offers, nextId, o),
               o.status = "OPEN", o.closedTick = NoTick, o.created = tick,
               tick < o.expires, o.expires <= tick + MaxOfferTtl,
               DeadlineKept(o), ~stations[o.proposer].failedOnce,
               ~stations[o.recipient].failedOnce
        PROVE  OfferInv'
    <3> SUFFICES ASSUME NEW i \in DOMAIN offers'
                 PROVE  /\ DeadlineKept(offers'[i])
                        /\ offers'[i].status # "RUN_ENDED"
                        /\ offers'[i].status = "OPEN" =>
                             /\ tick' < offers'[i].expires
                             /\ offers'[i].expires
                                   <= offers'[i].created + MaxOfferTtl
                             /\ offers'[i].closedTick = NoTick
                             /\ ~stations'[offers'[i].proposer].failedOnce
                             /\ ~stations'[offers'[i].recipient].failedOnce
      BY DEF OfferInv, DeadlineKept
    <3>1. offers'[i] = o \/ (i \in DOMAIN offers /\ offers'[i] = offers[i])
      BY <2>4 DEF With
    <3>2. CASE offers'[i] = o
      BY <1>2, <2>2, <2>4, <3>2
    <3>3. CASE i \in DOMAIN offers /\ offers'[i] = offers[i]
      BY <1>2, <2>1, <2>2, <2>4, <3>3 DEF OfferInv
    <3> QED BY <3>1, <3>2, <3>3
  <2>5. ASSUME tick' = tick, NEW i \in DOMAIN offers,
               NEW status \in {"WITHDRAWN", "ACCEPTED"},
               NEW txn \in Nat,
               offers' = Close(offers, {i}, status, tick, txn)
        PROVE  OfferInv'
    <3>1. status \in OfferStatus
      BY DEF OfferStatus
    <3>2. /\ DOMAIN offers' = DOMAIN offers
          /\ \A j \in DOMAIN offers :
                /\ offers'[j].expires = offers[j].expires
                /\ j \in {i} => offers'[j].status = status
                /\ j \notin {i} => offers'[j] = offers[j]
      BY <2>1, <2>5, <3>1, CloseKeeps
    <3>3. ASSUME NEW j \in DOMAIN offers, j # i
          PROVE  offers'[j] = offers[j]
      BY <3>2, <3>3
    <3>4. offers'[i].status = status /\ status # "OPEN"
          /\ status # "RUN_ENDED"
      BY <3>2
    <3>5. ASSUME NEW j \in DOMAIN offers, j # i
          PROVE  /\ DeadlineKept(offers'[j])
                 /\ offers'[j].status # "RUN_ENDED"
                 /\ offers'[j].status = "OPEN" =>
                      /\ tick' < offers'[j].expires
                      /\ offers'[j].expires
                            <= offers'[j].created + MaxOfferTtl
                      /\ offers'[j].closedTick = NoTick
                      /\ ~stations'[offers'[j].proposer].failedOnce
                      /\ ~stations'[offers'[j].recipient].failedOnce
      BY ZenonT(60), <1>2, <2>1, <2>2, <2>5, <3>3, <3>5 DEF OfferInv
    <3>6. DeadlineKept(offers'[i])
      BY <3>2 DEF OfferInv, DeadlineKept
    <3> QED
      BY <3>2, <3>4, <3>5, <3>6 DEF OfferInv, DeadlineKept
  <2>6. NoId \in Nat /\ nextId \in Nat
    BY DEF NoId, TypeOK, Id
  <2> QED
    BY <1>2, <2>3, <2>4, <2>5, <2>6, OfferCases
<1>3. ASSUME \A s \in Station :
                stations'[s].failedOnce = stations[s].failedOnce,
             ~\E production \in [Station -> Nat] :
                Advance(production)
      PROVE  AdInv'
  <2>1. \A i \in DOMAIN advertisements : advertisements[i].station \in Station
    BY DEF TypeOK, AdRecord
  <2>2. CASE advertisements' = advertisements /\ tick' = tick
    BY <1>3, <2>1, <2>2 DEF AdInv
  <2>3. ASSUME tick' = tick, NEW S,
               advertisements' = Only(advertisements, S)
        PROVE  AdInv'
    BY <1>3, <2>1, <2>3 DEF AdInv, Only, DeadlineKept
  <2>4. ASSUME tick' = tick, NEW S, NEW ad \in AdRecord,
               advertisements' = With(Only(advertisements, S), nextId, ad),
               tick < ad.expires,
               ad.expires <= ad.created + MaxPublicationTtl,
               DeadlineKept(ad), ~stations[ad.station].failedOnce
        PROVE  AdInv'
    <3>1. ad.station \in Station
      BY DEF AdRecord
    <3>2. \A i \in DOMAIN advertisements' :
             \/ advertisements'[i] = ad
             \/ /\ i \in DOMAIN advertisements
                /\ advertisements'[i] = advertisements[i]
      BY <2>4 DEF With, Only
    <3> QED
      BY <1>3, <2>1, <2>4, <3>1, <3>2 DEF AdInv, DeadlineKept
  <2> QED BY <1>3, <2>2, <2>3, <2>4, AdCases
<1> QED BY <1>1, <1>2, <1>3, FailureCases

\* The two invariants together are inductive.
THEOREM MarketInvariant == Spec => [](OfferInv /\ AdInv)
<1>1. Init => OfferInv /\ AdInv
  BY DEF Init, OfferInv, AdInv
<1>2. TypeOK /\ TypeOK' /\ OfferInv /\ AdInv /\ EngineStep
         => OfferInv' /\ AdInv'
  BY EngineKeepsMarket
<1> QED BY <1>1, <1>2, TypeCorrect, NextIsEngineStep, PTL DEF Spec

\* A failed station has no dealings left, for every roster and rules.
THEOREM FailedLeaveTheMarket == Spec => []FailedHasNoDealings
<1>1. TypeOK /\ OfferInv /\ AdInv => FailedHasNoDealings
  BY DEF FailedHasNoDealings, OfferInv, AdInv, OpenIds, Parties
<1> QED BY <1>1, TypeCorrect, MarketInvariant, PTL

\* What is on the market is in time, and no run ever closes an offer as
\* RUN_ENDED, whatever its length and caps.
THEOREM MarketIsLive == Spec => []OpenIsLive
<1>1. ASSUME TypeOK, OfferInv, AdInv PROVE OpenIsLive
  <2>1. tick \in Nat
    BY <1>1, RulesAssumption DEF TypeOK
  <2>2. ASSUME Finished, NEW i \in OpenIds(offers) PROVE FALSE
    <3>1. i \in DOMAIN offers /\ offers[i].status = "OPEN"
      BY DEF OpenIds
    <3>2. offers[i].expires \in Nat
      BY <1>1, <3>1 DEF TypeOK, OfferRecord
    <3> QED
      BY <1>1, <2>1, <2>2, <3>1, <3>2, RulesAssumption
      DEF OfferInv, DeadlineKept, Finished
  <2>3. ASSUME Finished, NEW i \in DOMAIN advertisements PROVE FALSE
    <3>1. advertisements[i].expires \in Nat
      BY <1>1 DEF TypeOK, AdRecord
    <3> QED
      BY <1>1, <2>1, <2>3, <3>1, RulesAssumption
      DEF AdInv, DeadlineKept, Finished
  <2> QED
    BY <1>1, <2>2, <2>3 DEF OpenIsLive, OfferInv, AdInv, OpenIds
<1> QED BY <1>1, TypeCorrect, MarketInvariant, PTL

\* Offers are never lost, rewritten or reopened, whatever is sent and whenever
\* the ticks fall.
THEOREM ClosedStaysClosed == Spec => ClosedIsFinal
<1> DEFINE Kept == \A i \in DOMAIN offers :
                      /\ i \in DOMAIN offers'
                      /\ offers[i].status # "OPEN" => offers'[i] = offers[i]
                      /\ offers'[i].give = offers[i].give
                      /\ offers'[i].receive = offers[i].receive
                      /\ offers'[i].expires = offers[i].expires
<1>1. ASSUME TypeOK, EngineStep PROVE Kept
  <2> SUFFICES ASSUME NEW i \in DOMAIN offers
               PROVE  /\ i \in DOMAIN offers'
                      /\ offers[i].status # "OPEN" => offers'[i] = offers[i]
                      /\ offers'[i].give = offers[i].give
                      /\ offers'[i].receive = offers[i].receive
                      /\ offers'[i].expires = offers[i].expires
    OBVIOUS
  <2>1. /\ tick \in Nat /\ nextId \in Nat /\ i # nextId
        /\ \A j \in DOMAIN offers : offers[j] \in OfferRecord
    BY <1>1, RulesAssumption DEF TypeOK, Id
  <2>2. CASE offers' = offers
    BY <2>2
  <2>3. ASSUME NEW o \in OfferRecord, offers' = With(offers, nextId, o)
        PROVE  i \in DOMAIN offers' /\ offers'[i] = offers[i]
    BY <2>1, <2>3 DEF With
  <2>4. ASSUME NEW k \in DOMAIN offers, offers[k].status = "OPEN",
               NEW status \in {"WITHDRAWN", "ACCEPTED"}, NEW txn \in Nat,
               offers' = Close(offers, {k}, status, tick, txn)
        PROVE  /\ i \in DOMAIN offers'
               /\ offers[i].status # "OPEN" => offers'[i] = offers[i]
               /\ offers'[i].give = offers[i].give
               /\ offers'[i].receive = offers[i].receive
               /\ offers'[i].expires = offers[i].expires
    <3>1. status \in OfferStatus
      BY DEF OfferStatus
    <3>2. /\ DOMAIN offers' = DOMAIN offers
          /\ offers'[i].give = offers[i].give
          /\ offers'[i].receive = offers[i].receive
          /\ offers'[i].expires = offers[i].expires
          /\ i \notin {k} => offers'[i] = offers[i]
      BY <2>1, <2>4, <3>1, CloseKeeps
    <3> QED BY <2>4, <3>2
  <2>5. ASSUME NEW production \in [Station -> Nat],
               Advance(production)
        PROVE  /\ i \in DOMAIN offers'
               /\ offers[i].status # "OPEN" => offers'[i] = offers[i]
               /\ offers'[i].give = offers[i].give
               /\ offers'[i].receive = offers[i].receive
               /\ offers'[i].expires = offers[i].expires
    <3>1. PICK failed : offers' = EndRun(WithdrawFailed(
                            Expire(offers, tick + 1), failed, tick + 1),
                            tick + 1)
      BY <2>5 DEF Advance
    <3>2. tick + 1 \in Nat
      BY <2>1
    <3> QED BY <2>1, <3>1, <3>2, SweepKeeps
  <2>6. NoId \in Nat
    BY DEF NoId
  <2> QED BY <1>1, <2>1, <2>2, <2>3, <2>4, <2>5, <2>6, OfferCases
<1>2. TypeOK /\ EngineStep => [Kept]_vars
  BY <1>1
<1> QED
  BY <1>2, TypeCorrect, NextIsEngineStep, PTL DEF Spec, ClosedIsFinal
=============================================================================

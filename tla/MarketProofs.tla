---------------------------- MODULE MarketProofs ----------------------------
(***************************************************************************)
(* What trading on the rule engine guarantees, for every roster, every     *)
(* rule value and every production schedule: it implements the abstract    *)
(* market of module Market, it keeps the limits of the market, settlement  *)
(* and failure are recorded once and rightly, and the totals are those of  *)
(* the transactions.                                                       *)
(***************************************************************************)
EXTENDS EconomyProofs, SumProofs

-----------------------------------------------------------------------------
(* The market *)

\* The operators on bundles that Market brings with it are those of Economy.
LEMMA SameBundles ==
    /\ Trade!Resource = Resource
    /\ Trade!Bundle = Bundle
    /\ \A a, b : /\ Trade!Dominates(a, b) = Dominates(a, b)
                 /\ Trade!Add(a, b) = Add(a, b)
                 /\ Trade!Sub(a, b) = Sub(a, b)
  BY DEF Trade!Resource, Trade!Bundle, Trade!Dominates, Trade!Add, Trade!Sub,
         Resource, Bundle, Dominates, Add, Sub

-----------------------------------------------------------------------------
(* Offers as deals *)

Deal(os, i) ==
    [id |-> i, proposer |-> os[i].proposer, recipient |-> os[i].recipient,
     give |-> os[i].give, receive |-> os[i].receive]

DealsOf(os, status) ==
    {Deal(os, i) : i \in {j \in DOMAIN os : os[j].status = status}}

\* What the refinement maps to: the abstract state is a function of the book
\* and of what the stations own.
LEMMA MappedState ==
    /\ \A status : Deals(status) = DealsOf(offers, status)
    /\ \A status : Deals(status)' = DealsOf(offers', status)
  BY DEF Deals, DealsOf, Deal

\* The same offers on the same terms, of which fewer are open, are a book from
\* which deals were taken off.
LEMMA FewerOpen ==
    ASSUME NEW os, NEW ps, DOMAIN ps = DOMAIN os,
           \A i \in DOMAIN os :
              /\ ps[i].proposer = os[i].proposer
              /\ ps[i].recipient = os[i].recipient
              /\ ps[i].give = os[i].give /\ ps[i].receive = os[i].receive
              /\ ps[i].status = "OPEN" => os[i].status = "OPEN"
              /\ ps[i].status = "ACCEPTED" <=> os[i].status = "ACCEPTED"
    PROVE  /\ DealsOf(ps, "OPEN") \subseteq DealsOf(os, "OPEN")
           /\ DealsOf(ps, "ACCEPTED") = DealsOf(os, "ACCEPTED")
<1>1. \A i \in DOMAIN os : Deal(ps, i) = Deal(os, i)
  BY DEF Deal
<1> QED
  BY <1>1 DEF DealsOf

-----------------------------------------------------------------------------
(* Nobody deals with itself *)

NoSelfDealing ==
    \A i \in DOMAIN offers : offers[i].proposer # offers[i].recipient

LEMMA PartiesStayDifferent == TypeOK /\ NoSelfDealing /\ EngineStep => NoSelfDealing'
<1> SUFFICES ASSUME TypeOK, NoSelfDealing, EngineStep
             PROVE  NoSelfDealing'
  OBVIOUS
<1>0. \A i \in DOMAIN offers : offers[i] \in OfferRecord
  BY DEF TypeOK
<1>1. ASSUME NEW s \in Station, NEW cmd, WellFormed(cmd), Execute(s, cmd),
             cmd.kind = "OFFER", PostOffer(s, cmd)
      PROVE  NoSelfDealing'
  <2>1. cmd.recipient # s
    BY <1>1, ExecuteCounts, PrecheckPassed
  <2> QED BY <1>1, <2>1 DEF PostOffer, With, NoSelfDealing
<1>2. ASSUME NEW ids, NEW status \in OfferStatus, NEW txn \in Nat,
             offers' = Close(offers, ids, status, tick, txn)
      PROVE  NoSelfDealing'
  <2>1. tick \in Nat
    BY RulesAssumption DEF TypeOK
  <2> QED BY <1>0, <1>2, <2>1, CloseKeeps DEF NoSelfDealing
<1>3. ASSUME NEW production \in [Station -> Nat],
             Advance(production)
      PROVE  NoSelfDealing'
  <2>1. tick + 1 \in Nat
    BY RulesAssumption DEF TypeOK
  <2>2. \E failed : offers' =
           EndRun(WithdrawFailed(Expire(offers, tick + 1), failed, tick + 1),
                  tick + 1)
    BY <1>3 DEF Advance
  <2> QED BY <1>0, <2>1, <2>2, SweepKeeps DEF NoSelfDealing
<1>4. /\ {"WITHDRAWN", "ACCEPTED"} \subseteq OfferStatus
      /\ NoId \in Nat /\ nextId \in Nat
  BY DEF OfferStatus, NoId, TypeOK, Id
<1>5. ASSUME NEW s \in Station, NEW cmd, WellFormed(cmd), Execute(s, cmd),
             Accept(s, cmd.id) \/ Withdraw(s, cmd.id)
      PROVE  NoSelfDealing'
  <2>1. CASE offers' = offers
    BY <2>1 DEF NoSelfDealing
  <2> QED BY <1>2, <1>4, <1>5, <2>1 DEF Accept, Settle, Withdraw
<1>6. CASE offers' = offers
  BY <1>6 DEF NoSelfDealing
<1> QED
  BY <1>1, <1>3, <1>5, <1>6, StepCases DEF Advertise, vars

\* The precheck refuses an offer to oneself, and terms never change.
THEOREM PartiesDiffer == Spec => []NoSelfDealing
<1>1. Init => NoSelfDealing
  BY DEF Init, NoSelfDealing
<1>2. TypeOK /\ NoSelfDealing /\ EngineStep => NoSelfDealing'
  BY PartiesStayDifferent
<1> QED
  BY <1>1, <1>2, TypeCorrect, NextIsEngineStep, PTL DEF Spec

-----------------------------------------------------------------------------
(* One step of the engine, one step of the market *)

Owned(sts) == [s \in Station |-> sts[s].inventory]

\* _accept moves both bundles at once, and the deal is done.
LEMMA SettleIsSettle ==
    ASSUME TypeOK, NoSelfDealing, NEW i \in DOMAIN offers, NEW s \in Station,
           AcceptCode(s, i) = "OK", Settle(i), tick' = tick
    PROVE  Trade!Settle
<1> DEFINE o == offers[i]
           d == Deal(offers, i)
<1>1. /\ o.status = "OPEN"
      /\ Dominates(stations[o.proposer].inventory, o.give)
      /\ Dominates(stations[o.recipient].inventory, o.receive)
  BY AcceptPassed
<1>2. o \in OfferRecord /\ o.proposer # o.recipient
  BY DEF TypeOK, NoSelfDealing
<1>3. /\ o.proposer \in Station /\ o.recipient \in Station
      /\ o.give \in Bundle /\ o.receive \in Bundle
  BY <1>2 DEF OfferRecord
<1>4. /\ d.id = i /\ d.proposer = o.proposer /\ d.recipient = o.recipient
      /\ d.give = o.give /\ d.receive = o.receive
  BY DEF Deal
<1>5. d \in DealsOf(offers, "OPEN")
  BY <1>1 DEF DealsOf
<1>6. Owned(stations') = [Owned(stations) EXCEPT
         ![d.proposer] = Add(Sub(@, d.give), d.receive),
         ![d.recipient] = Add(Sub(@, d.receive), d.give)]
  <2>1. \A p \in Station : stations[p] \in StationRecord
    BY DEF TypeOK
  <2>2. \A p \in Station : \A out, in :
           Swap(stations[p], out, in).inventory
              = Add(Sub(stations[p].inventory, out), in)
    BY <2>1 DEF Swap, StationRecord
  <2>3. stations' =
          [p \in Station |->
              IF p = o.proposer THEN Swap(stations[p], o.give, o.receive)
              ELSE IF p = o.recipient THEN Swap(stations[p], o.receive, o.give)
              ELSE stations[p]]
    BY DEF Settle
  <2>4. ASSUME NEW p \in Station
        PROVE  stations'[p].inventory =
                 IF p = o.proposer
                 THEN Add(Sub(stations[p].inventory, o.give), o.receive)
                 ELSE IF p = o.recipient
                 THEN Add(Sub(stations[p].inventory, o.receive), o.give)
                 ELSE stations[p].inventory
    BY <2>2, <2>3
  <2> HIDE DEF o, d
  <2> QED BY <1>2, <1>3, <1>4, <2>4 DEF Owned
<1>7. /\ DealsOf(offers', "OPEN") = DealsOf(offers, "OPEN") \ {d}
      /\ DealsOf(offers', "ACCEPTED") = DealsOf(offers, "ACCEPTED") \cup {d}
  <2>1. offers' = Close(offers, {i}, "ACCEPTED", tick, nextId)
    BY DEF Settle
  <2>2. /\ tick \in Nat /\ nextId \in Nat /\ "ACCEPTED" \in OfferStatus
        /\ \A j \in DOMAIN offers : offers[j] \in OfferRecord
    BY RulesAssumption DEF TypeOK, Id, OfferStatus
  <2>3. /\ DOMAIN offers' = DOMAIN offers
        /\ \A j \in DOMAIN offers : Deal(offers', j) = Deal(offers, j)
        /\ offers'[i].status = "ACCEPTED"
        /\ \A j \in DOMAIN offers \ {i} :
              offers'[j].status = offers[j].status
    BY <2>1, <2>2, CloseKeeps DEF Deal
  <2>4. \A j \in DOMAIN offers : Deal(offers, j) = d => j = i
    BY DEF Deal
  <2> HIDE DEF d
  <2>5. \A j \in DOMAIN offers :
           /\ offers'[j].status = "OPEN"
                <=> offers[j].status = "OPEN" /\ j # i
           /\ offers'[j].status = "ACCEPTED"
                <=> offers[j].status = "ACCEPTED" \/ j = i
    BY <1>1, <2>3
  <2>6. d = Deal(offers, i)
    BY DEF d
  <2> QED BY <2>3, <2>4, <2>5, <2>6 DEF DealsOf
<1> HIDE DEF o, d
<1>8. /\ Dominates(Owned(stations)[d.proposer], d.give)
      /\ Dominates(Owned(stations)[d.recipient], d.receive)
  BY <1>1, <1>3, <1>4 DEF Owned
<1> QED
  BY <1>5, <1>6, <1>7, <1>8, MappedState, SameBundles
  DEF Trade!Settle, Trade!Exchange, Owned

\* An offer that passes the precheck is a new deal between two parties.
LEMMA PostIsPropose ==
    ASSUME TypeOK, NEW s \in Station, NEW cmd, WellFormed(cmd), Execute(s, cmd),
           cmd.kind = "OFFER", PostOffer(s, cmd)
    PROVE  Trade!Propose
<1> DEFINE d == Deal(offers', nextId)
<1>1. cmd.recipient \in Station \ {s}
  BY ExecuteCounts, PrecheckPassed
<1>2. /\ DOMAIN offers' = DOMAIN offers \cup {nextId}
      /\ \A j \in DOMAIN offers : j # nextId => offers'[j] = offers[j]
      /\ offers'[nextId].proposer = s
      /\ offers'[nextId].recipient = cmd.recipient
      /\ offers'[nextId].status = "OPEN"
      /\ stations' = stations /\ tick' = tick
  BY ExecuteCounts DEF PostOffer, With
<1>3. nextId \notin DOMAIN offers
  BY DEF TypeOK, Id
<1>4. /\ \A j \in DOMAIN offers : Deal(offers', j) = Deal(offers, j)
      /\ \A j \in DOMAIN offers' : Deal(offers', j).id = j
      /\ \A j \in DOMAIN offers : Deal(offers, j).id = j
  BY <1>2, <1>3 DEF Deal
<1>5. /\ DealsOf(offers', "OPEN") = DealsOf(offers, "OPEN") \cup {d}
      /\ DealsOf(offers', "ACCEPTED") = DealsOf(offers, "ACCEPTED")
  BY <1>2, <1>3, <1>4 DEF DealsOf
<1>6. d.id = nextId /\ d.proposer = s /\ d.recipient = cmd.recipient
  BY <1>2 DEF Deal
<1>7. \A x \in DealsOf(offers, "OPEN") \cup DealsOf(offers, "ACCEPTED") :
         x.id # nextId
  BY <1>3, <1>4 DEF DealsOf
<1> HIDE DEF d
<1>8. d \in DealsOf(offers', "OPEN") \ DealsOf(offers, "OPEN")
  BY <1>5, <1>6, <1>7
<1> QED
  BY <1>1, <1>2, <1>5, <1>6, <1>7, <1>8, MappedState
  DEF Trade!Propose, Trade!Ids

\* A withdrawal takes a deal off the table and moves nothing.
LEMMA WithdrawIsTakeOff ==
    ASSUME TypeOK, stations' = stations, tick' = tick,
           NEW i \in DOMAIN offers, offers[i].status = "OPEN",
           offers' = Close(offers, {i}, "WITHDRAWN", tick, NoId)
    PROVE  Trade!TakeOff
<1>1. /\ tick \in Nat /\ NoId \in Nat /\ "WITHDRAWN" \in OfferStatus
      /\ \A j \in DOMAIN offers : offers[j] \in OfferRecord
  BY RulesAssumption DEF TypeOK, NoId, OfferStatus
<1>2. /\ DOMAIN offers' = DOMAIN offers
      /\ \A j \in DOMAIN offers :
            /\ offers'[j].proposer = offers[j].proposer
            /\ offers'[j].recipient = offers[j].recipient
            /\ offers'[j].give = offers[j].give
            /\ offers'[j].receive = offers[j].receive
            /\ j = i => offers'[j].status = "WITHDRAWN"
            /\ j # i => offers'[j] = offers[j]
  BY <1>1, CloseKeeps
<1>3. \A j \in DOMAIN offers :
         /\ offers'[j].proposer = offers[j].proposer
         /\ offers'[j].recipient = offers[j].recipient
         /\ offers'[j].give = offers[j].give
         /\ offers'[j].receive = offers[j].receive
         /\ offers'[j].status = "OPEN" => offers[j].status = "OPEN"
         /\ offers'[j].status = "ACCEPTED" <=> offers[j].status = "ACCEPTED"
  BY <1>2
<1>4. DOMAIN offers' = DOMAIN offers
  BY <1>2
<1>5. /\ DealsOf(offers', "OPEN") \subseteq DealsOf(offers, "OPEN")
      /\ DealsOf(offers', "ACCEPTED") = DealsOf(offers, "ACCEPTED")
  BY <1>3, <1>4, FewerOpen
<1> QED
  BY <1>5, MappedState DEF Trade!TakeOff

\* A tick takes at most the upkeep, and adds at most the output of the specialty.
LEMMA TickIsADay ==
    ASSUME NEW st \in StationRecord, NEW s \in Station,
           NEW production \in Nat, NEW now
    PROVE  LET stock == SettleTick(st, s, production, now).inventory IN
           /\ stock \in Bundle
           /\ \A r \in Resource : st.inventory[r] <= stock[r] + Upkeep[s][r]
           /\ \A r \in Resource \ {Specialty[s]} : stock[r] <= st.inventory[r]
           /\ stock[Specialty[s]] <= st.inventory[Specialty[s]] + production
<1> DEFINE full == Add(st.inventory, Single(Specialty[s], production))
           stock == SettleTick(st, s, production, now).inventory
<1>1. stock = SaturatingSub(full, Upkeep[s])
  BY DEF SettleTick
<1>2. /\ st.inventory \in Bundle /\ Upkeep[s] \in Bundle
      /\ Specialty[s] \in Resource
  BY RosterAssumption DEF StationRecord
<1>3. \A r \in Resource :
         full[r] = st.inventory[r]
                      + (IF r = Specialty[s] THEN production ELSE 0)
  BY DEF Add, Single
<1>4. \A r \in Resource : st.inventory[r] \in Nat /\ Upkeep[s][r] \in Nat
  BY <1>2 DEF Bundle
<1> HIDE DEF full
<1>5. \A r \in Resource :
         stock[r] = IF full[r] > Upkeep[s][r]
                    THEN full[r] - Upkeep[s][r] ELSE 0
  BY <1>1 DEF SaturatingSub
<1> HIDE DEF stock
<1>6. stock \in Bundle
  <2>1. ASSUME NEW r \in Resource PROVE stock[r] \in Nat
    <3>1. full[r] \in Nat /\ Upkeep[s][r] \in Nat
      BY <1>3, <1>4
    <3>2. full[r] > Upkeep[s][r] => full[r] - Upkeep[s][r] \in Nat
      BY <3>1
    <3> QED BY <1>5, <3>1, <3>2
  <2> QED BY <1>1, <2>1 DEF SaturatingSub, Bundle
<1>7. /\ \A r \in Resource : st.inventory[r] <= stock[r] + Upkeep[s][r]
      /\ \A r \in Resource \ {Specialty[s]} : stock[r] <= st.inventory[r]
      /\ stock[Specialty[s]] <= st.inventory[Specialty[s]] + production
  BY <1>2, <1>3, <1>4, <1>5
<1> QED
  BY <1>6, <1>7 DEF stock

\* A tick is a new day: it closes deals and settles none.
LEMMA AdvanceIsNewDay ==
    ASSUME TypeOK, NEW production \in [Station -> ProductionLevels],
           Advance(production)
    PROVE  Trade!NewDay
<1>1. tick + 1 \in Nat /\ \A i \in DOMAIN offers : offers[i] \in OfferRecord
  BY RulesAssumption DEF TypeOK
<1>2. PICK failed : offers' =
         EndRun(WithdrawFailed(Expire(offers, tick + 1), failed, tick + 1),
                tick + 1)
  BY DEF Advance
<1>3. /\ DOMAIN offers' = DOMAIN offers
      /\ \A i \in DOMAIN offers :
            /\ offers'[i].proposer = offers[i].proposer
            /\ offers'[i].recipient = offers[i].recipient
            /\ offers'[i].give = offers[i].give
            /\ offers'[i].receive = offers[i].receive
            /\ offers[i].status # "OPEN" => offers'[i] = offers[i]
            /\ offers'[i].status = "OPEN" => offers'[i] = offers[i]
            /\ offers'[i].status # "ACCEPTED" \/ offers'[i] = offers[i]
  BY <1>1, <1>2, SweepKeeps
<1>4. /\ DealsOf(offers', "OPEN") \subseteq DealsOf(offers, "OPEN")
      /\ DealsOf(offers', "ACCEPTED") = DealsOf(offers, "ACCEPTED")
  <2>1. \A i \in DOMAIN offers :
           /\ offers'[i].status = "OPEN" => offers[i].status = "OPEN"
           /\ offers'[i].status = "ACCEPTED" <=> offers[i].status = "ACCEPTED"
    BY <1>3
  <2> QED BY <1>3, <2>1, FewerOpen
<1>5. ASSUME NEW p \in Station
      PROVE  LET before == stations[p].inventory
                 after == stations'[p].inventory
             IN /\ after \in Bundle
                /\ \A r \in Resource : before[r] <= after[r] + Upkeep[p][r]
                /\ \A r \in Resource \ {Specialty[p]} : after[r] <= before[r]
                /\ \E made \in ProductionLevels :
                      after[Specialty[p]] <= before[Specialty[p]] + made
  <2>1. /\ stations[p] \in StationRecord
        /\ production[p] \in Nat /\ production[p] \in ProductionLevels
    BY RulesAssumption DEF TypeOK
  <2>2. stations'[p] = SettleTick(stations[p], p, production[p], tick + 1)
    BY DEF Advance
  <2> QED BY <2>1, <2>2, TickIsADay
<1>6. tick' = tick + 1
  BY DEF Advance
<1>7. [p \in Station |-> stations'[p].inventory] \in [Station -> Bundle]
  BY <1>5
<1> QED
  BY <1>4, <1>5, <1>6, <1>7, MappedState, SameBundles DEF Trade!NewDay

-----------------------------------------------------------------------------
(* The refinement *)

\* The variables of the market, as the engine keeps them.
marketVars ==
    <<tick, [s \in Station |-> stations[s].inventory], Deals("OPEN"),
      Deals("ACCEPTED")>>

\* A step that leaves clock, stations and book alone is a stutter.
LEMMA OtherStepsStutter ==
    ASSUME tick' = tick, stations' = stations, offers' = offers
    PROVE  UNCHANGED marketVars
  BY MappedState DEF marketVars

\* A command, processed, proposes a deal, takes one off, settles one or leaves
\* the market as it is.
LEMMA CommandIsDealing ==
    ASSUME TypeOK, NoSelfDealing, NEW s \in Station, NEW cmd, WellFormed(cmd),
           Execute(s, cmd)
    PROVE  Trade!Next \/ UNCHANGED marketVars
<1>0. tick' = tick
  BY ExecuteCounts
<1>1. CASE cmd.kind = "OFFER" /\ PostOffer(s, cmd)
  BY <1>1, PostIsPropose DEF Trade!Next
<1>2. CASE Accept(s, cmd.id)
  <2>1. CASE AcceptCode(s, cmd.id) = "OK" /\ Settle(cmd.id)
    BY <1>0, <2>1, AcceptPassed, SettleIsSettle DEF Trade!Next
  <2> QED BY <1>0, <1>2, <2>1, OtherStepsStutter DEF Accept
<1>3. CASE Withdraw(s, cmd.id)
  <2>1. CASE /\ WithdrawCode(s, cmd.id) = "OK"
             /\ cmd.id \notin DOMAIN advertisements
             /\ offers' = Close(offers, {cmd.id}, "WITHDRAWN", tick, NoId)
    <3>1. cmd.id \in DOMAIN offers /\ offers[cmd.id].status = "OPEN"
      BY <2>1 DEF WithdrawCode
    <3>2. stations' = stations
      BY <1>3 DEF Withdraw
    <3> QED BY <1>0, <2>1, <3>1, <3>2, WithdrawIsTakeOff DEF Trade!Next
  <2> QED BY <1>0, <1>3, <2>1, OtherStepsStutter DEF Withdraw
<1>4. CASE stations' = stations /\ offers' = offers
  BY <1>0, <1>4, OtherStepsStutter
<1> QED
  BY <1>1, <1>2, <1>3, <1>4 DEF Execute, Advertise

\* The engine implements the market: its first state is one of the market's, and
\* each of its steps proposes a deal, takes deals off, settles one, begins a new
\* day, or leaves the market as it is.
THEOREM EngineImplementsMarket == Spec => ImplementsMarket
<1>1. Init => Trade!Init
  <2> SUFFICES ASSUME Init PROVE Trade!Init
    OBVIOUS
  <2>1. \A s \in Station : stations[s].inventory \in Bundle
    BY RosterAssumption DEF Init, NewStation
  <2>2. \A status : Deals(status) = {}
    BY DEF Init, Deals
  <2>3. tick = 0
    BY DEF Init
  <2> QED BY <2>1, <2>2, <2>3, SameBundles DEF Trade!Init
<1>2. TypeOK /\ NoSelfDealing /\ [Next]_vars => [Trade!Next]_marketVars
  <2> SUFFICES ASSUME TypeOK, NoSelfDealing, [Next]_vars
               PROVE  Trade!Next \/ UNCHANGED marketVars
    OBVIOUS
  <2>1. CASE \E s \in Station : \E cmd \in Command : Execute(s, cmd)
    BY <2>1, CommandsAreWellFormed, CommandIsDealing
  <2>2. CASE \E production \in [Station -> ProductionLevels] :
                Advance(production)
    BY <2>2, AdvanceIsNewDay DEF Trade!Next
  <2>3. CASE UNCHANGED vars
    BY <2>3, OtherStepsStutter DEF vars
  <2> QED BY <2>1, <2>2, <2>3 DEF Next, Refuse
<1> QED
  BY <1>1, <1>2, TypeCorrect, PartiesDiffer, PTL
  DEF Spec, ImplementsMarket, Trade!Spec, marketVars

-----------------------------------------------------------------------------
(* The limits of the market *)

OpenOf(os, s) == {i \in OpenIds(os) : os[i].proposer = s}

LimitInv ==
    \A s \in Station : Cardinality(OpenOf(offers, s)) <= MaxOpenOffers

OneAdEach ==
    \A i, j \in DOMAIN advertisements :
        advertisements[i].station = advertisements[j].station => i = j

\* A book is finite, and so is what a station has open in it.
LEMMA OpenIsFinite ==
    ASSUME TypeOK, NEW s
    PROVE  /\ IsFiniteSet(OpenOf(offers, s))
           /\ Cardinality(OpenOf(offers, s)) \in Nat
<1>1. IsFiniteSet(1..(nextId - 1))
  BY FS_Interval DEF TypeOK, Id, NoId
<1>2. OpenOf(offers, s) \subseteq 1..(nextId - 1)
  BY DEF OpenOf, OpenIds, TypeOK
<1> QED
  BY <1>1, <1>2, FS_Subset, FS_CardinalityType

\* A step that opens nothing keeps everybody within the limit.
LEMMA FewerKeepLimit ==
    ASSUME TypeOK, LimitInv,
           \A i \in DOMAIN offers' : offers'[i].status = "OPEN" =>
              /\ i \in DOMAIN offers /\ offers[i].status = "OPEN"
              /\ offers'[i].proposer = offers[i].proposer
    PROVE  LimitInv'
<1> SUFFICES ASSUME NEW s \in Station
             PROVE  Cardinality(OpenOf(offers', s)) <= MaxOpenOffers
  BY DEF LimitInv
<1>1. OpenOf(offers', s) \subseteq OpenOf(offers, s)
  BY DEF OpenOf, OpenIds
<1>2. /\ Cardinality(OpenOf(offers', s)) \in Nat
      /\ Cardinality(OpenOf(offers', s)) <= Cardinality(OpenOf(offers, s))
  BY <1>1, OpenIsFinite, FS_Subset, FS_CardinalityType
<1>3. Cardinality(OpenOf(offers, s)) <= MaxOpenOffers
  BY DEF LimitInv
<1> QED
  BY <1>2, <1>3, OpenIsFinite, RulesAssumption

\* An offer that passes the precheck still fits.
LEMMA PostKeepsLimit ==
    ASSUME TypeOK, LimitInv, NEW a \in Station, NEW cmd, WellFormed(cmd),
           Execute(a, cmd), cmd.kind = "OFFER", PostOffer(a, cmd)
    PROVE  LimitInv'
<1> SUFFICES ASSUME NEW s \in Station
             PROVE  Cardinality(OpenOf(offers', s)) <= MaxOpenOffers
  BY DEF LimitInv
<1>1. /\ DOMAIN offers' = DOMAIN offers \cup {nextId}
      /\ \A j \in DOMAIN offers : j # nextId => offers'[j] = offers[j]
      /\ offers'[nextId].proposer = a
      /\ offers'[nextId].status = "OPEN"
  BY DEF PostOffer, With
<1>2. nextId \notin DOMAIN offers
  BY DEF TypeOK, Id
<1>3. CASE s = a
  <2>1. OpenOf(offers', s) = OpenOf(offers, s) \cup {nextId}
    BY <1>1, <1>2, <1>3 DEF OpenOf, OpenIds
  <2>2. ~(Cardinality(OpenOf(offers, s)) >= MaxOpenOffers)
    BY <1>3, ExecuteCounts, PrecheckPassed DEF OpenOutgoing, OpenOf
  <2>3. nextId \notin OpenOf(offers, s)
    BY <1>2 DEF OpenOf, OpenIds
  <2>4. Cardinality(OpenOf(offers', s)) = Cardinality(OpenOf(offers, s)) + 1
    BY <2>1, <2>3, OpenIsFinite, FS_AddElement
  <2> QED BY <2>2, <2>4, OpenIsFinite, RulesAssumption
<1>4. CASE s # a
  <2>1. OpenOf(offers', s) = OpenOf(offers, s)
    BY <1>1, <1>2, <1>4 DEF OpenOf, OpenIds
  <2> QED BY <2>1 DEF LimitInv
<1> QED
  BY <1>3, <1>4

\* How the advertisements of a step come about.
LEMMA AdsStayUnique ==
    ASSUME TypeOK, OneAdEach, EngineStep
    PROVE  OneAdEach'
<1>1. ASSUME NEW s \in Station, NEW cmd, WellFormed(cmd), Advertise(s, cmd)
      PROVE  OneAdEach'
  <2> DEFINE others == {i \in DOMAIN advertisements :
                           advertisements[i].station # s}
  <2>1. /\ DOMAIN advertisements' = others \cup {nextId}
        /\ advertisements'[nextId].station = s
        /\ \A i \in others : i # nextId =>
              advertisements'[i] = advertisements[i]
    BY <1>1 DEF Advertise, With, Only
  <2> QED BY <2>1 DEF OneAdEach
<1>2. ASSUME NEW S, advertisements' = Only(advertisements, S)
      PROVE  OneAdEach'
  BY <1>2 DEF OneAdEach, Only
<1>3. ASSUME advertisements' = advertisements
      PROVE  OneAdEach'
  BY <1>3 DEF OneAdEach
<1>4. ASSUME NEW s \in Station, NEW cmd, WellFormed(cmd), Withdraw(s, cmd.id)
      PROVE  OneAdEach'
  BY <1>2, <1>3, <1>4 DEF Withdraw
<1>5. ASSUME NEW production \in [Station -> Nat],
             Advance(production)
      PROVE  OneAdEach'
  BY <1>2, <1>5 DEF Advance, LiveAds
<1> QED
  BY <1>1, <1>3, <1>4, <1>5, StepCases DEF PostOffer, Accept, vars

\* No station ever has more open offers than the rules allow, more than one
\* advertisement, or an offer to itself.
THEOREM LimitsHold == Spec => []MarketLimits
<1>1. Init => LimitInv /\ OneAdEach
  <2> SUFFICES ASSUME Init PROVE LimitInv /\ OneAdEach
    OBVIOUS
  <2>1. \A s : OpenOf(offers, s) = {}
    BY DEF Init, OpenOf, OpenIds
  <2>2. Cardinality({}) = 0
    BY FS_EmptySet
  <2>3. LimitInv
    BY <2>1, <2>2, RulesAssumption DEF LimitInv
  <2> QED BY <2>3 DEF Init, OneAdEach
<1>2. TypeOK /\ LimitInv /\ EngineStep => LimitInv'
  <2> SUFFICES ASSUME TypeOK, LimitInv, EngineStep PROVE LimitInv'
    OBVIOUS
  <2>0. /\ tick \in Nat /\ tick + 1 \in Nat /\ nextId \in Nat /\ NoId \in Nat
        /\ \A i \in DOMAIN offers : offers[i] \in OfferRecord
        /\ {"WITHDRAWN", "ACCEPTED"} \subseteq OfferStatus
    BY RulesAssumption DEF TypeOK, Id, NoId, OfferStatus
  <2>1. ASSUME NEW i, NEW status \in {"WITHDRAWN", "ACCEPTED"}, NEW txn \in Nat,
               offers' = Close(offers, {i}, status, tick, txn)
        PROVE  LimitInv'
    <3>1. /\ DOMAIN offers' = DOMAIN offers
          /\ \A j \in DOMAIN offers :
                /\ offers'[j].proposer = offers[j].proposer
                /\ j = i => offers'[j].status = status
                /\ j # i => offers'[j] = offers[j]
      BY <2>0, <2>1, CloseKeeps
    <3>2. \A j \in DOMAIN offers' : offers'[j].status = "OPEN" =>
              /\ j \in DOMAIN offers /\ offers[j].status = "OPEN"
              /\ offers'[j].proposer = offers[j].proposer
      BY <3>1
    <3> QED BY <3>2, FewerKeepLimit
  <2>2. CASE offers' = offers
    BY <2>2, FewerKeepLimit
  <2>3. ASSUME NEW s \in Station, NEW cmd, WellFormed(cmd),
               Accept(s, cmd.id) \/ Withdraw(s, cmd.id)
        PROVE  LimitInv'
    BY <2>0, <2>1, <2>2, <2>3 DEF Accept, Settle, Withdraw
  <2>4. ASSUME NEW production \in [Station -> Nat],
               Advance(production)
        PROVE  LimitInv'
    <3>1. PICK failed : offers' =
             EndRun(WithdrawFailed(Expire(offers, tick + 1), failed, tick + 1),
                    tick + 1)
      BY <2>4 DEF Advance
    <3>2. \A j \in DOMAIN offers' : offers'[j].status = "OPEN" =>
              /\ j \in DOMAIN offers /\ offers[j].status = "OPEN"
              /\ offers'[j].proposer = offers[j].proposer
      BY <2>0, <3>1, SweepKeeps
    <3> QED BY <3>2, FewerKeepLimit
  <2> QED
    BY <2>2, <2>3, <2>4, PostKeepsLimit, StepCases DEF Advertise, vars
<1>3. NoSelfDealing /\ LimitInv /\ OneAdEach => MarketLimits
  BY DEF NoSelfDealing, LimitInv, OneAdEach, MarketLimits, OpenOutgoing, OpenOf,
         OpenIds
<1> QED
  BY <1>1, <1>2, <1>3, AdsStayUnique, TypeCorrect, PartiesDiffer, NextIsEngineStep, PTL DEF Spec

-----------------------------------------------------------------------------
(* Settlement *)

\* A transaction and the offer it settled tell the same story.
Tells(txn, t, o) ==
    /\ o.status = "ACCEPTED" /\ o.transaction = t
    /\ txn.proposer = o.proposer /\ txn.recipient = o.recipient
    /\ txn.give = o.give /\ txn.receive = o.receive
    /\ txn.settled = o.closedTick
    /\ o.created <= txn.settled /\ txn.settled < o.expires

\* The inductive strengthening: offers are not from the future, each accepted
\* one has a transaction, and each transaction an accepted offer.
SettlementInv ==
    /\ \A i \in DOMAIN offers :
          /\ offers[i].created <= tick
          /\ offers[i].status = "ACCEPTED" =>
                \E t \in DOMAIN transactions : transactions[t].offer = i
    /\ \A t \in DOMAIN transactions :
          /\ transactions[t].offer \in DOMAIN offers
          /\ Tells(transactions[t], t, offers[transactions[t].offer])

\* A step that books nothing and leaves accepted offers as they are, and only
\* those accepted, leaves settlement as it is.
LEMMA NothingSettled ==
    ASSUME SettlementInv, transactions' = transactions,
           DOMAIN offers \subseteq DOMAIN offers',
           \A i \in DOMAIN offers' : offers'[i].created <= tick',
           \A i \in DOMAIN offers :
              offers[i].status = "ACCEPTED" => offers'[i] = offers[i],
           \A i \in DOMAIN offers' : offers'[i].status = "ACCEPTED" =>
              i \in DOMAIN offers /\ offers[i].status = "ACCEPTED"
    PROVE  SettlementInv'
  BY DEF SettlementInv, Tells

\* An accept books its transaction under a fresh identifier and closes the
\* offer with it, within its time.
LEMMA SettleBooks ==
    ASSUME TypeOK, SettlementInv, NEW s \in Station, NEW i \in DOMAIN offers,
           AcceptCode(s, i) = "OK", Settle(i), tick' = tick
    PROVE  SettlementInv'
<1>1. /\ offers[i].status = "OPEN" /\ ~(tick >= offers[i].expires)
  BY AcceptPassed DEF IsExpiredAt
<1>2. /\ tick \in Nat /\ nextId \in Nat /\ "ACCEPTED" \in OfferStatus
      /\ \A j \in DOMAIN offers : offers[j] \in OfferRecord
      /\ nextId \notin DOMAIN transactions
  BY RulesAssumption DEF TypeOK, Id, OfferStatus
<1>3. offers[i].expires \in Nat
  BY <1>2 DEF OfferRecord
<1>4. /\ DOMAIN offers' = DOMAIN offers
      /\ \A j \in DOMAIN offers : offers'[j].created = offers[j].created
      /\ \A j \in DOMAIN offers \ {i} : offers'[j] = offers[j]
      /\ offers'[i].status = "ACCEPTED" /\ offers'[i].transaction = nextId
      /\ offers'[i].closedTick = tick
      /\ offers'[i].proposer = offers[i].proposer
      /\ offers'[i].recipient = offers[i].recipient
      /\ offers'[i].give = offers[i].give
      /\ offers'[i].receive = offers[i].receive
      /\ offers'[i].expires = offers[i].expires
  BY <1>2, CloseKeeps DEF Settle
<1>5. /\ DOMAIN transactions' = DOMAIN transactions \cup {nextId}
      /\ \A t \in DOMAIN transactions : transactions'[t] = transactions[t]
      /\ transactions'[nextId] =
            [offer |-> i, proposer |-> offers[i].proposer,
             recipient |-> offers[i].recipient, give |-> offers[i].give,
             receive |-> offers[i].receive, settled |-> tick]
  BY <1>2 DEF Settle, With
<1>6. Tells(transactions'[nextId], nextId, offers'[i])
  <2>1. offers[i].created <= tick /\ tick < offers[i].expires
    BY <1>1, <1>2, <1>3 DEF SettlementInv
  <2> QED BY <1>4, <1>5, <2>1 DEF Tells
<1>7. ASSUME NEW t \in DOMAIN transactions
      PROVE  /\ transactions'[t].offer \in DOMAIN offers \ {i}
             /\ Tells(transactions'[t], t, offers'[transactions'[t].offer])
  BY <1>1, <1>4, <1>5 DEF SettlementInv, Tells
<1>8. transactions'[nextId].offer = i
  BY <1>5
<1>9. \A j \in DOMAIN offers' : offers'[j].created <= tick'
  BY <1>4 DEF SettlementInv
<1>10. ASSUME NEW j \in DOMAIN offers', offers'[j].status = "ACCEPTED"
       PROVE  \E t \in DOMAIN transactions' : transactions'[t].offer = j
  <2>1. CASE j = i
    BY <1>5, <1>8, <2>1
  <2>2. CASE j # i
    <3>1. j \in DOMAIN offers /\ offers[j].status = "ACCEPTED"
      BY <1>4, <1>10, <2>2
    <3> QED BY <1>5, <3>1 DEF SettlementInv
  <2> QED BY <2>1, <2>2
<1>11. ASSUME NEW t \in DOMAIN transactions'
       PROVE  /\ transactions'[t].offer \in DOMAIN offers'
              /\ Tells(transactions'[t], t, offers'[transactions'[t].offer])
  BY <1>4, <1>5, <1>6, <1>7, <1>8
<1> QED
  BY <1>9, <1>10, <1>11 DEF SettlementInv, Tells

\* _accept settles an offer once, in time and on its own terms, and books it.
THEOREM SettlementIsRecorded == Spec => []SettledOnce
<1>1. Init => SettlementInv
  BY DEF Init, SettlementInv
<1>2. TypeOK /\ SettlementInv /\ EngineStep => SettlementInv'
  <2> SUFFICES ASSUME TypeOK, SettlementInv, EngineStep
               PROVE  SettlementInv'
    OBVIOUS
  <2>0. /\ tick \in Nat /\ tick + 1 \in Nat
        /\ \A i \in DOMAIN offers : offers[i] \in OfferRecord
        /\ \A i \in DOMAIN offers : offers[i].created \in Nat
        /\ nextId \notin DOMAIN offers
        /\ NoId \in Nat /\ "WITHDRAWN" \in OfferStatus
    BY RulesAssumption DEF TypeOK, OfferRecord, Id, NoId, OfferStatus
  <2>1. ASSUME offers' = offers, transactions' = transactions, tick' = tick
        PROVE  SettlementInv'
    BY <2>1 DEF SettlementInv, Tells
  <2>2. ASSUME NEW s \in Station, NEW cmd, WellFormed(cmd), Execute(s, cmd),
               PostOffer(s, cmd)
        PROVE  SettlementInv'
    <3>1. tick' = tick
      BY <2>2, ExecuteCounts
    <3>2. /\ DOMAIN offers' = DOMAIN offers \cup {nextId}
          /\ \A i \in DOMAIN offers : offers'[i] = offers[i]
          /\ offers'[nextId].created = tick
          /\ offers'[nextId].status = "OPEN"
          /\ transactions' = transactions
      BY <2>0, <2>2 DEF PostOffer, With
    <3>3. \A i \in DOMAIN offers' : offers'[i].created <= tick'
      BY <2>0, <3>1, <3>2 DEF SettlementInv
    <3> QED BY <3>2, <3>3, NothingSettled
  <2>3. ASSUME NEW s \in Station, NEW cmd, WellFormed(cmd), Execute(s, cmd),
               Accept(s, cmd.id)
        PROVE  SettlementInv'
    <3>1. tick' = tick
      BY <2>3, ExecuteCounts
    <3>2. CASE AcceptCode(s, cmd.id) = "OK" /\ Settle(cmd.id)
      BY <3>1, <3>2, AcceptPassed, SettleBooks
    <3> QED BY <2>1, <2>3, <3>1, <3>2 DEF Accept
  <2>4. ASSUME NEW s \in Station, NEW cmd, WellFormed(cmd), Execute(s, cmd),
               Withdraw(s, cmd.id)
        PROVE  SettlementInv'
    <3>1. tick' = tick /\ transactions' = transactions
      BY <2>4, ExecuteCounts DEF Withdraw
    <3>2. CASE /\ WithdrawCode(s, cmd.id) = "OK"
               /\ cmd.id \notin DOMAIN advertisements
               /\ offers' = Close(offers, {cmd.id}, "WITHDRAWN", tick, NoId)
      <4>1. cmd.id \in DOMAIN offers /\ offers[cmd.id].status = "OPEN"
        BY <3>2 DEF WithdrawCode
      <4>2. /\ DOMAIN offers' = DOMAIN offers
            /\ \A j \in DOMAIN offers :
                  /\ offers'[j].created = offers[j].created
                  /\ j = cmd.id => offers'[j].status = "WITHDRAWN"
                  /\ j # cmd.id => offers'[j] = offers[j]
        BY <2>0, <3>2, CloseKeeps
      <4>3. \A j \in DOMAIN offers' : offers'[j].created <= tick'
        BY <3>1, <4>2 DEF SettlementInv
      <4> QED BY <3>1, <4>1, <4>2, <4>3, NothingSettled
    <3> QED BY <2>1, <2>4, <3>1, <3>2 DEF Withdraw
  <2>5. ASSUME NEW production \in [Station -> Nat],
               Advance(production)
        PROVE  SettlementInv'
    <3>1. PICK failed : offers' =
             EndRun(WithdrawFailed(Expire(offers, tick + 1), failed, tick + 1),
                    tick + 1)
      BY <2>5 DEF Advance
    <3>2. tick' = tick + 1 /\ transactions' = transactions
      BY <2>5 DEF Advance
    <3>3. /\ DOMAIN offers' = DOMAIN offers
          /\ \A i \in DOMAIN offers :
                /\ offers'[i].created = offers[i].created
                /\ offers[i].status # "OPEN" => offers'[i] = offers[i]
                /\ offers'[i].status # "ACCEPTED" \/ offers'[i] = offers[i]
      BY <2>0, <3>1, SweepKeeps
    <3>4. \A i \in DOMAIN offers' : offers'[i].created <= tick'
      <4> SUFFICES ASSUME NEW i \in DOMAIN offers
                   PROVE  offers[i].created <= tick + 1
        BY <3>2, <3>3
      <4>1. offers[i].created <= tick /\ offers[i].created \in Nat
        BY <2>0 DEF SettlementInv
      <4> QED BY <2>0, <4>1
    <3> QED BY <3>2, <3>3, <3>4, NothingSettled
  <2>6. CASE UNCHANGED vars
    BY <2>1, <2>6 DEF vars
  <2>7. ASSUME NEW s \in Station, NEW cmd, WellFormed(cmd), Execute(s, cmd),
               \/ Advertise(s, cmd)
               \/ UNCHANGED <<stations, offers, advertisements, transactions,
                              nextId>>
        PROVE  SettlementInv'
    BY <2>1, <2>7, ExecuteCounts DEF Advertise
  <2> QED
    BY <2>2, <2>3, <2>4, <2>5, <2>6, <2>7, StepCases
<1>3. SettlementInv => SettledOnce
  BY DEF SettlementInv, SettledOnce, Tells
<1> QED
  BY <1>1, <1>2, <1>3, TypeCorrect, NextIsEngineStep, PTL DEF Spec

-----------------------------------------------------------------------------
(* Failure *)

\* Between ticks: health is zero only after a failure, and no failure is noted
\* before there is one.
WellFailed(st) ==
    /\ st.health = 0 => st.failedOnce
    /\ ~st.failedOnce => st.firstFailureTick = NoTick

FailureInv == \A s \in Station : WellFailed(stations[s])

\* What a step to the tick now may do to what is recorded of a failure.
FailureStep(before, after, now) ==
    IF before.failedOnce
    THEN /\ after.failedOnce
         /\ after.firstFailureTick = before.firstFailureTick
    ELSE IF after.health = 0
    THEN after.failedOnce /\ after.firstFailureTick = now
    ELSE ~after.failedOnce /\ after.firstFailureTick = NoTick

\* settle_tick notes the first failure in the tick it happens and no other.
LEMMA TickRecordsFailure ==
    ASSUME NEW st \in StationRecord, NEW s \in Station,
           NEW production \in Nat, NEW now \in Nat, WellFailed(st)
    PROVE  LET next == SettleTick(st, s, production, now) IN
           WellFailed(next) /\ FailureStep(st, next, now)
<1> DEFINE unmet == SaturatingSub(Upkeep[s],
                        Add(st.inventory, Single(Specialty[s], production)))
           next == SettleTick(st, s, production, now)
<1>1. /\ next.health = HealthAfter(st, unmet)
      /\ next.failedOnce = FailedAfter(st, unmet)
      /\ next.firstFailureTick = IF Fails(st, unmet) THEN now
                                 ELSE st.firstFailureTick
  BY DEF SettleTick
<1>2. st.health \in 0..MaxHealth /\ st.failedOnce \in BOOLEAN
  BY DEF StationRecord
<1> HIDE DEF unmet, next
<1>3. IsZero(unmet) => HealthAfter(st, unmet) # 0
  <2>1. Min2(MaxHealth, st.health + Recovery) # 0
    BY <1>2, RulesAssumption DEF Min2
  <2> QED BY <2>1 DEF HealthAfter
<1>4. Fails(st, unmet) <=> next.health = 0 /\ ~st.failedOnce
  BY <1>1, <1>3 DEF Fails
<1>5. next.failedOnce <=> st.failedOnce \/ next.health = 0
  BY <1>1, <1>4 DEF FailedAfter
<1>6. FailureStep(st, next, now)
  BY <1>1, <1>4, <1>5 DEF FailureStep, WellFailed
<1>7. WellFailed(next)
  BY <1>1, <1>4, <1>5 DEF WellFailed
<1> QED
  BY <1>6, <1>7 DEF next

\* What a step of the engine does to each station's failure.
LEMMA StepRecordsFailure ==
    ASSUME TypeOK, FailureInv, EngineStep, NEW p \in Station
    PROVE  /\ WellFailed(stations'[p])
           /\ FailureStep(stations[p], stations'[p], tick')
           /\ stations'[p].health = 0 /\ ~stations[p].failedOnce
                 => tick' = tick + 1
<1>1. /\ stations[p] \in StationRecord /\ tick \in Nat
      /\ WellFailed(stations[p])
  BY RulesAssumption DEF TypeOK, FailureInv
<1> DEFINE Unharmed ==
              /\ stations'[p].health = stations[p].health
              /\ stations'[p].failedOnce = stations[p].failedOnce
              /\ stations'[p].firstFailureTick = stations[p].firstFailureTick
<1>2. ASSUME Unharmed
      PROVE  /\ WellFailed(stations'[p])
             /\ FailureStep(stations[p], stations'[p], tick')
             /\ stations'[p].health = 0 => stations[p].failedOnce
  BY <1>1, <1>2 DEF WellFailed, FailureStep
<1>3. ASSUME NEW i, Settle(i) PROVE Unharmed
  <2>1. \/ stations'[p] = stations[p]
        \/ \E out, in : stations'[p] = Swap(stations[p], out, in)
    BY <1>3 DEF Settle
  <2>2. \A out, in : LET st == Swap(stations[p], out, in) IN
           /\ st.health = stations[p].health
           /\ st.failedOnce = stations[p].failedOnce
           /\ st.firstFailureTick = stations[p].firstFailureTick
    BY <1>1 DEF Swap, StationRecord
  <2> QED BY <2>1, <2>2
<1>4. CASE stations' = stations
  BY <1>2, <1>4
<1>5. ASSUME NEW s, NEW i, Accept(s, i) PROVE Unharmed
  BY <1>3, <1>5 DEF Accept
<1>6. CASE \E production \in [Station -> Nat] : Advance(production)
  <2>1. PICK production \in [Station -> Nat] : Advance(production)
    BY <1>6
  <2>2. /\ stations'[p] = SettleTick(stations[p], p, production[p], tick + 1)
        /\ tick' = tick + 1 /\ production[p] \in Nat
    BY <2>1 DEF Advance
  <2> QED BY <1>1, <2>2, TickRecordsFailure
<1> HIDE DEF Unharmed
<1> QED
  BY <1>2, <1>4, <1>5, <1>6, StepCases
  DEF Advertise, PostOffer, Withdraw, vars

\* A station's failure is recorded once, in the tick its health first reaches
\* zero, and nothing after it moves or clears the record.
THEOREM FailureIsRecorded == Spec => FailureRecorded
<1>1. Init => FailureInv
  <2>1. ASSUME NEW s \in Station PROVE WellFailed(NewStation(s))
    BY RulesAssumption DEF NewStation, WellFailed
  <2> QED BY <2>1 DEF Init, FailureInv
<1>2. TypeOK /\ FailureInv /\ EngineStep => FailureInv'
  BY StepRecordsFailure DEF FailureInv, WellFailed
<1>3. TypeOK /\ FailureInv /\ EngineStep =>
         \A s \in Station :
            LET before == stations[s]
                after == stations'[s]
            IN IF before.failedOnce
               THEN /\ after.failedOnce
                    /\ after.firstFailureTick = before.firstFailureTick
               ELSE IF after.health = 0
               THEN /\ after.failedOnce
                    /\ after.firstFailureTick = tick' /\ tick' = tick + 1
               ELSE /\ ~after.failedOnce
                    /\ after.firstFailureTick = NoTick
  BY StepRecordsFailure DEF FailureStep
<1> QED
  BY <1>1, <1>2, <1>3, TypeCorrect, NextIsEngineStep, PTL
  DEF Spec, FailureRecorded

-----------------------------------------------------------------------------
(* Totals *)

\* In the sum over a finite set of transactions one that is added counts with
\* its own amount, and the others as before.
LEMMA SumWithOneMore ==
    ASSUME NEW f, NEW g, NEW new, IsFiniteSet(DOMAIN f), new \notin DOMAIN f,
           \A t \in DOMAIN f : f[t] \in Nat,
           DOMAIN g = DOMAIN f \cup {new}, g[new] \in Nat,
           \A t \in DOMAIN f : g[t] = f[t]
    PROVE  SumFunction(g) = SumFunction(f) + g[new]
<1>1. IsFiniteSet(DOMAIN g)
  BY FS_AddElement
<1>2. Summable(g, DOMAIN f \cup {new})
  BY <1>1 DEF Summable
<1>3. /\ SumFunctionOnSet(g, DOMAIN f) \in Nat
      /\ SumFunctionOnSet(g, DOMAIN g)
            = g[new] + SumFunctionOnSet(g, DOMAIN f)
  BY <1>2, SumAdds
<1>4. SumFunctionOnSet(g, DOMAIN f) = SumFunctionOnSet(f, DOMAIN f)
  <2>1. Agree(g, f, DOMAIN f)
    BY DEF Agree
  <2> QED
    BY <2>1, SumsAgree
<1> QED
  BY <1>3, <1>4 DEF SumFunction

\* What was sent and what was got of a resource, transaction by transaction.
SentOf(s, r) == [t \in DOMAIN transactions |-> Sent(transactions[t], s)[r]]
GotOf(s, r) == [t \in DOMAIN transactions |-> Got(transactions[t], s)[r]]

\* _accept adds to a station's totals what it adds to its transactions.
LEMMA SettleKeepsTotals ==
    ASSUME TypeOK, TotalsMatchTransactions, NEW i \in DOMAIN offers, Settle(i),
           NEW s \in Station, NEW r \in Resource
    PROVE  /\ stations'[s].exported[r] = SumFunction(SentOf(s, r))'
           /\ stations'[s].imported[r] = SumFunction(GotOf(s, r))'
<1> DEFINE o == offers[i]
           txn == transactions'[nextId]
<1>1. /\ stations[s] \in StationRecord /\ o \in OfferRecord
      /\ nextId \notin DOMAIN transactions
      /\ IsFiniteSet(DOMAIN transactions)
      /\ \A t \in DOMAIN transactions : transactions[t] \in TransactionRecord
  <2>1. DOMAIN transactions \subseteq 1..(nextId - 1) /\ nextId \in Nat
    BY RulesAssumption DEF TypeOK, Id
  <2>2. IsFiniteSet(1..(nextId - 1))
    BY <2>1, FS_Interval
  <2> QED
    BY <2>1, <2>2, FS_Subset DEF TypeOK
<1>2. /\ DOMAIN transactions' = DOMAIN transactions \cup {nextId}
      /\ \A t \in DOMAIN transactions : transactions'[t] = transactions[t]
      /\ txn.proposer = o.proposer /\ txn.recipient = o.recipient
      /\ txn.give = o.give /\ txn.receive = o.receive
  BY <1>1 DEF Settle, With
<1>3. /\ Sent(txn, s) \in Bundle /\ Got(txn, s) \in Bundle
      /\ \A t \in DOMAIN transactions :
            /\ Sent(transactions[t], s) \in Bundle
            /\ Got(transactions[t], s) \in Bundle
  <2>1. Zero \in Bundle
    BY DEF Zero, Bundle
  <2> QED
    BY <1>1, <1>2, <2>1 DEF Sent, Got, OfferRecord, TransactionRecord
<1>4. /\ stations'[s].exported[r] = stations[s].exported[r] + Sent(txn, s)[r]
      /\ stations'[s].imported[r] = stations[s].imported[r] + Got(txn, s)[r]
  <2>1. stations'[s] = IF s = o.proposer
                       THEN Swap(stations[s], o.give, o.receive)
                       ELSE IF s = o.recipient
                       THEN Swap(stations[s], o.receive, o.give)
                       ELSE stations[s]
    BY DEF Settle
  <2>2. ASSUME NEW out, NEW in
        PROVE  /\ Swap(stations[s], out, in).exported[r]
                     = stations[s].exported[r] + out[r]
               /\ Swap(stations[s], out, in).imported[r]
                     = stations[s].imported[r] + in[r]
    BY <1>1 DEF Swap, StationRecord, Add
  <2>3. CASE s = o.proposer
    BY <1>2, <2>1, <2>2, <2>3 DEF Sent, Got
  <2>4. CASE s # o.proposer /\ s = o.recipient
    BY <1>2, <2>1, <2>2, <2>4 DEF Sent, Got
  <2>5. CASE s # o.proposer /\ s # o.recipient
    <3>1. stations[s].exported[r] \in Nat /\ stations[s].imported[r] \in Nat
      BY <1>1 DEF StationRecord, Bundle
    <3>2. Sent(txn, s)[r] = 0 /\ Got(txn, s)[r] = 0
      BY <1>2, <2>5 DEF Sent, Got, Zero
    <3> QED
      BY <2>1, <2>5, <3>1, <3>2
  <2> QED
    BY <2>3, <2>4, <2>5
<1>5. /\ stations[s].exported[r] = SumFunction(SentOf(s, r))
      /\ stations[s].imported[r] = SumFunction(GotOf(s, r))
  BY DEF TotalsMatchTransactions, SentOf, GotOf
<1>6. SumFunction(SentOf(s, r)') = SumFunction(SentOf(s, r)) + Sent(txn, s)[r]
  <2>1. ASSUME NEW f, NEW g, f = SentOf(s, r), g = SentOf(s, r)'
        PROVE  SumFunction(g) = SumFunction(f) + Sent(txn, s)[r]
    <3>1. /\ DOMAIN f = DOMAIN transactions
          /\ DOMAIN g = DOMAIN f \cup {nextId}
          /\ g[nextId] = Sent(txn, s)[r]
          /\ \A t \in DOMAIN f : /\ f[t] = Sent(transactions[t], s)[r]
                                 /\ g[t] = f[t]
      BY <1>2, <2>1 DEF SentOf
    <3>2. g[nextId] \in Nat /\ \A t \in DOMAIN f : f[t] \in Nat
      BY <1>3, <3>1 DEF Bundle
    <3> QED
      BY <1>1, <3>1, <3>2, SumWithOneMore
  <2> QED
    BY <2>1
<1>7. SumFunction(GotOf(s, r)') = SumFunction(GotOf(s, r)) + Got(txn, s)[r]
  <2>1. ASSUME NEW f, NEW g, f = GotOf(s, r), g = GotOf(s, r)'
        PROVE  SumFunction(g) = SumFunction(f) + Got(txn, s)[r]
    <3>1. /\ DOMAIN f = DOMAIN transactions
          /\ DOMAIN g = DOMAIN f \cup {nextId}
          /\ g[nextId] = Got(txn, s)[r]
          /\ \A t \in DOMAIN f : /\ f[t] = Got(transactions[t], s)[r]
                                 /\ g[t] = f[t]
      BY <1>2, <2>1 DEF GotOf
    <3>2. g[nextId] \in Nat /\ \A t \in DOMAIN f : f[t] \in Nat
      BY <1>3, <3>1 DEF Bundle
    <3> QED
      BY <1>1, <3>1, <3>2, SumWithOneMore
  <2> QED
    BY <2>1
<1> QED
  BY <1>4, <1>5, <1>6, <1>7

\* The totals that a station sees of its trade are those of the transactions it
\* was party to, whatever was accepted, by whom and when.
THEOREM TotalsAreTheTransactions == Spec => []TotalsMatchTransactions
<1>1. Init => TotalsMatchTransactions
  <2> SUFFICES ASSUME Init, NEW s \in Station, NEW r \in Resource
               PROVE  /\ stations[s].exported[r] = SumFunction(SentOf(s, r))
                      /\ stations[s].imported[r] = SumFunction(GotOf(s, r))
    BY DEF TotalsMatchTransactions, SentOf, GotOf
  <2>1. DOMAIN SentOf(s, r) = {} /\ DOMAIN GotOf(s, r) = {}
    BY DEF Init, SentOf, GotOf
  <2>2. stations[s].exported[r] = 0 /\ stations[s].imported[r] = 0
    BY DEF Init, NewStation, Zero
  <2> QED
    BY <2>1, <2>2, SumOfNothing DEF SumFunction
<1>2. TypeOK /\ TotalsMatchTransactions /\ EngineStep
          => TotalsMatchTransactions'
  <2> SUFFICES ASSUME TypeOK, TotalsMatchTransactions, EngineStep
               PROVE  TotalsMatchTransactions'
    OBVIOUS
  <2>1. ASSUME transactions' = transactions,
               \A s \in Station :
                  /\ stations'[s].exported = stations[s].exported
                  /\ stations'[s].imported = stations[s].imported
        PROVE  TotalsMatchTransactions'
    BY <2>1 DEF TotalsMatchTransactions
  <2>2. ASSUME stations' = stations, transactions' = transactions
        PROVE  TotalsMatchTransactions'
    BY <2>1, <2>2
  <2>3. ASSUME NEW s \in Station, NEW cmd, WellFormed(cmd), Execute(s, cmd),
               Accept(s, cmd.id)
        PROVE  TotalsMatchTransactions'
    <3>1. CASE AcceptCode(s, cmd.id) = "OK" /\ Settle(cmd.id)
      <4>1. cmd.id \in DOMAIN offers
        BY <3>1, AcceptPassed
      <4>2. ASSUME NEW p \in Station, NEW r \in Resource
            PROVE  /\ stations'[p].exported[r] = SumFunction(SentOf(p, r))'
                   /\ stations'[p].imported[r] = SumFunction(GotOf(p, r))'
        BY <3>1, <4>1, SettleKeepsTotals
      <4> QED
        BY <4>2 DEF TotalsMatchTransactions, SentOf, GotOf
    <3> QED
      BY <2>2, <2>3, <3>1 DEF Accept
  <2>4. ASSUME NEW production \in [Station -> Nat],
               Advance(production)
        PROVE  TotalsMatchTransactions'
    <3>1. /\ \A s \in Station : stations'[s] =
                SettleTick(stations[s], s, production[s], tick + 1)
          /\ transactions' = transactions
      BY <2>4 DEF Advance
    <3>2. ASSUME NEW s \in Station
          PROVE  /\ stations'[s].exported = stations[s].exported
                 /\ stations'[s].imported = stations[s].imported
      <4>1. stations[s] \in StationRecord
        BY DEF TypeOK
      <4>2. ASSUME NEW st \in StationRecord, NEW q, NEW now
            PROVE  /\ SettleTick(st, s, q, now).exported = st.exported
                   /\ SettleTick(st, s, q, now).imported = st.imported
        BY <4>2 DEF SettleTick, StationRecord
      <4> QED
        BY <3>1, <4>1, <4>2
    <3> QED
      BY <2>1, <3>1, <3>2
  <2>5. CASE UNCHANGED vars
    BY <2>2, <2>5 DEF vars
  <2>6. ASSUME NEW s \in Station, NEW cmd, WellFormed(cmd), Execute(s, cmd),
               \/ PostOffer(s, cmd)
               \/ Withdraw(s, cmd.id)
               \/ Advertise(s, cmd)
               \/ UNCHANGED <<stations, offers, advertisements, transactions,
                              nextId>>
        PROVE  TotalsMatchTransactions'
    BY <2>2, <2>6 DEF PostOffer, Withdraw, Advertise
  <2> QED
    BY <2>3, <2>4, <2>5, <2>6, StepCases
<1> QED
  BY <1>1, <1>2, TypeCorrect, NextIsEngineStep, PTL DEF Spec
=============================================================================

------------------------------ MODULE Reserves ------------------------------
(***************************************************************************)
(* What the trading policy holds back and what it pays: the stock levels   *)
(* of policy/reserves.py, the prices of policy/pricing.py and the accept   *)
(* rule of policy/accept.py, over one observation o of the world (see      *)
(* module Counterparties) and the station's memory m.                      *)
(*                                                                         *)
(* The code's fractions are exact here: prices are counted in parts of     *)
(* Unit, which is a multiple of every denominator the price table has.     *)
(* None is NoLimit or NoValue.                                             *)
(***************************************************************************)
EXTENDS Economy, Sequences, FiniteSetsExt, TLC

None == 0
Watch == 1
Critical == 2

NoValue == -1

\* Bundle(* of a generator over the resources).
Bundled(f(_)) == [r \in Resource |-> f(r)]

\* The order of the enumeration, which breaks the ties of min and sorted.
ResourceOrder == <<"WATER", "FOOD", "COMPONENTS">>

-----------------------------------------------------------------------------
(* Reserves *)

MinSafetyTicks == 3
MaxSafetyTicks == 10
WatchStock == 20
CriticalStock == 10
NormalTicks == 25
StopTicks == 10
StorageThreshold == 32
MaxReserveUnits == 15
BalanceGap == 10
EndGameTicks == 10
StockCap == 100

\* round(), of half of n, half to even.
RoundHalf(n) ==
    IF n % 2 = 1 /\ (n \div 2) % 2 = 1 THEN n \div 2 + 1 ELSE n \div 2

\* The k-th smallest of some samples.
Smallest(samples, k) ==
    Min({x \in Range(samples) :
            Cardinality({i \in DOMAIN samples : samples[i] <= x}) >= k})

MedianRoundTrip(m) ==
    LET n == Len(m.roundTrips)
    IN IF n < 3 THEN NoValue
       ELSE RoundHalf(Smallest(m.roundTrips, (n + 1) \div 2)
                        + Smallest(m.roundTrips, n \div 2 + 1))

ProductionDipped(o, m) ==
    \E i \in DOMAIN m.productions : m.productions[i] < o.upkeep[o.specialty]

SafetyTicks(r, o, m) ==
    Min2(MaxSafetyTicks,
         Max2(MinSafetyTicks, MedianRoundTrip(m) + 1)
           + (IF o.health < MaxHealth \div 2 THEN 2 ELSE 0)
           + (IF r = o.specialty /\ ProductionDipped(o, m) THEN 1 ELSE 0))

BaseReserve(r, o, m) ==
    Min2(MaxReserveUnits, o.upkeep[r] * SafetyTicks(r, o, m))

\* What is banked of the stock above the threshold, on top of the base.
StoredReserve(o, m, available) ==
    Bundled(LAMBDA r :
        LET room == MaxReserveUnits - BaseReserve(r, o, m)
            saved == Min({m.stored[r], available[r], room})
            excess == Max2(0, available[r] - saved - StorageThreshold)
        IN Min2(room, saved + excess))

Reserve(o, m) == Bundled(LAMBDA r : BaseReserve(r, o, m) + m.stored[r])

UrgencyOf(available, upkeep, reserve) ==
    Bundled(LAMBDA r :
        IF available[r] < Max2(CriticalStock, upkeep[r]) THEN Critical
        ELSE IF available[r] < Max2(WatchStock, reserve[r]) THEN Watch
        ELSE None)

InEndGame(ticksLeft) == ticksLeft <= EndGameTicks

NormalFloor(o) == NormalTicks * o.upkeep[o.specialty]

SpecialtyFloor(o, ticksLeft) ==
    IF InEndGame(ticksLeft)
    THEN Min2(NormalTicks, ticksLeft + 1) * o.upkeep[o.specialty]
    ELSE NormalFloor(o)

\* A payment limit is the payment allowed per two units received.
NoLimit == -1
Half == 1

PaymentLimit(available, o, ticksLeft) ==
    LET stock == available[o.specialty]
        upkeep == o.upkeep[o.specialty]
    IN IF InEndGame(ticksLeft)
       THEN IF stock < SpecialtyFloor(o, ticksLeft) THEN 0 ELSE NoLimit
       ELSE IF stock < StopTicks * upkeep THEN 0
       ELSE IF stock < NormalTicks * upkeep THEN Half
       ELSE NoLimit

\* Does paying that much for so much break the limit?
BreaksLimit(limit, paid, received) ==
    limit # NoLimit /\ 2 * paid > limit * received

Imports(specialty) == Resource \ {specialty}

ImportCeiling(r, available, specialty) ==
    Max2(2 * WatchStock,
         BalanceGap + Min({available[q] : q \in Imports(specialty) \ {r}}))

OverCeiling(r, available, specialty) ==
    r # specialty /\ available[r] > ImportCeiling(r, available, specialty)

\* The first of the resources S, in their order, with the smallest key.
FirstLeast(S, key(_)) ==
    LET least == Min({key(r) : r \in S})
    IN SelectSeq(ResourceOrder, LAMBDA r : r \in S /\ key(r) = least)[1]

ScarcestImport(available, specialty) ==
    FirstLeast(Imports(specialty), LAMBDA r : available[r])

ExcessOverCap(available) ==
    Bundled(LAMBDA r : Max2(0, available[r] - StockCap))

ComfortablySupplied(available) == \A r \in Resource : available[r] > 30

-----------------------------------------------------------------------------
(* Prices *)

Unit == 10240
MaxPremium == 8 * Unit
EndGamePrice == 2 * Unit
SmallTrade == 4
BulkTrade == 12

\* What a unit is worth to a station that has so many of them.
Premium(stock) ==
    IF stock >= 20 THEN Unit
    ELSE IF stock >= 15 THEN (6 * Unit) \div 5
    ELSE IF stock >= 10 THEN (3 * Unit) \div 2
    ELSE IF stock >= 7 THEN 2 * Unit + (Unit \div 4) * (9 - stock)
    ELSE IF stock >= 2
    THEN (5 * (Unit \div 2) * <<5, 25, 125, 625, 3125>>[7 - stock])
             \div <<4, 16, 64, 256, 1024>>[7 - stock]
    ELSE MaxPremium

TradeSize(spare) == Max2(SmallTrade, Min2(BulkTrade, spare \div 4))

DesiredQuantity(short, stock, size) ==
    LET cap == IF 15 <= stock /\ stock < 20 THEN 5 ELSE SmallTrade
    IN Max2(1, Min2(short, IF stock >= 20 THEN Max2(cap, size) ELSE cap))

\* Half-up, within the cap, and never less than one for one.
PricedGive(want, stock) ==
    Max2(want, Min2((2 * want * Premium(stock) + Unit) \div (2 * Unit),
                    8 * want))

\* The quantities <<give, receive>>; giving nothing is CannotAfford.
Terms(want, affordable, limit, stock, endGame) ==
    IF affordable <= 0 THEN <<0, want>>
    ELSE IF limit # NoLimit
    THEN <<Min2(affordable, (want * limit) \div 2), want>>
    ELSE IF endGame
    THEN LET asked == Max2(1, Min2(want, affordable \div 2))
         IN <<Min2(affordable, 2 * asked), asked>>
    ELSE IF PricedGive(want, stock) <= affordable
    THEN <<PricedGive(want, stock), want>>
    ELSE LET asked == Max2(1, (affordable * Unit) \div Premium(stock))
         IN <<Min2(affordable, PricedGive(asked, stock)), asked>>

-----------------------------------------------------------------------------
(* The accept rule *)

\* A bundle's worth in tenths, by how much each resource is needed.
Weighted(b, urgency) ==
    MapThenSumSet(LAMBDA r : b[r] * (CASE urgency[r] = Critical -> 30
                                       [] urgency[r] = Watch -> 13
                                       [] OTHER -> 10), Resource)

AcceptsAtPrice(o, gain, cost, available, reserve, endGame) ==
    LET sp == o.specialty
        net == Max2(0, cost[sp] - gain[sp])
        value == MapThenSumSet(
                    LAMBDA r : gain[r] * Max2(IF endGame THEN EndGamePrice
                                              ELSE 0, Premium(available[r])),
                    Imports(sp))
    IN /\ available[sp] - net >= reserve[sp]
       /\ value >= net * Unit /\ value > 0

AcceptsByNeed(gain, cost, remaining, available, reserve, urgency) ==
    LET needed == \E r \in Resource : gain[r] > 0 /\ urgency[r] # None
        breaches == \E r \in Resource :
                       remaining[r] < reserve[r] /\ reserve[r] < available[r]
        ratio(tenths) == 10 * Weighted(gain, urgency)
                            >= tenths * Weighted(cost, urgency)
    IN /\ breaches => needed
       /\ (needed /\ ratio(8)) \/ ratio(10)

EvaluateUnreserved(o, offer, available, reserve, urgency, limit, endGame) ==
    LET cost == offer.receive
        gain == offer.give
        sp == o.specialty
        withSpecialty == Total(cost) = cost[sp]
        imported == {r \in Imports(sp) : gain[r] > 0}
        remaining == Add(SaturatingSub(available, cost), gain)
    IN /\ ComfortablySupplied(available) =>
             /\ gain[sp] = 0
             /\ Total(gain) > Total(cost) \/ (endGame /\ withSpecialty)
       /\ \/ IsZero(cost)
          \/ /\ imported # {} =>
                   \E r \in imported : ~OverCeiling(r, available, sp)
             /\ Dominates(available, cost)
             /\ IF limit # NoLimit
                THEN /\ limit > 0 /\ ~BreaksLimit(limit, Total(cost), Total(gain))
                     /\ \A r \in Resource :
                           cost[r] > 0 => remaining[r] >= reserve[r]
                ELSE IF withSpecialty
                THEN AcceptsAtPrice(o, gain, cost, available, reserve, endGame)
                ELSE AcceptsByNeed(gain, cost, remaining, available, reserve,
                                   urgency)

\* The conditions of evaluate_incoming, in its order; a gift is taken before
\* the rest is looked at.
EvaluateIncoming(o, offer, available, reserve, urgency, limit, endGame) ==
    LET cost == offer.receive
        gain == offer.give
        sp == o.specialty
        withSpecialty == Total(cost) = cost[sp]
        imported == {r \in Imports(sp) : gain[r] > 0}
        remaining == Add(SaturatingSub(available, cost), gain)
    IN /\ ComfortablySupplied(available) =>
             /\ gain[sp] = 0
             /\ Total(gain) > Total(cost) \/ (endGame /\ withSpecialty)
       /\ \/ IsZero(cost)
          \/ /\ imported # {} =>
                   \E r \in imported : ~OverCeiling(r, available, sp)
             /\ Dominates(available, cost)
             /\ \A r \in Resource :
                   remaining[r] >= Min2(available[r], reserve[r])
             /\ IF limit # NoLimit
                THEN /\ limit > 0 /\ ~BreaksLimit(limit, Total(cost), Total(gain))
                     /\ \A r \in Resource :
                           cost[r] > 0 => remaining[r] >= reserve[r]
                ELSE IF withSpecialty
                THEN AcceptsAtPrice(o, gain, cost, available, reserve, endGame)
                ELSE AcceptsByNeed(gain, cost, remaining, available, reserve,
                                   urgency)
=============================================================================

------------------------------- MODULE Policy -------------------------------
(***************************************************************************)
(* One decision of the trading policy (policy/decide.py and                *)
(* policy/advertising.py): from an observation o and the memory m to a     *)
(* batch of commands and the next memory.  The stages of decide pass on a  *)
(* record d of what is left: the command budget, the stock not yet         *)
(* promised, the memory and the commands chosen so far.                    *)
(***************************************************************************)
EXTENDS Counterparties

OfferTtl == 5
AdTtl == 8

TicksLeft(o) == DurationTicks - o.tick

\* Accounting between the stages.
Chosen(d, cmd) == [d EXCEPT !.budget = @ - 1, !.commands = Append(@, cmd)]

OfferBeyondEnd(o, p, give, receive) ==
    [kind |-> "OFFER", recipient |-> p, terms |-> <<give, receive>>,
     expires |-> o.tick + Min2(OfferTtl, MaxOfferTtl)]

OfferUntil(o, p, give, receive) ==
    [kind |-> "OFFER", recipient |-> p, terms |-> <<give, receive>>,
     expires |-> o.tick + Min({OfferTtl, MaxOfferTtl, TicksLeft(o)})]

CanOffer(o) == Min({OfferTtl, MaxOfferTtl, TicksLeft(o)}) > 0

Planned(d) == Len(SelectSeq(d.commands, LAMBDA cmd : cmd.kind = "OFFER"))

RoomFor(o, d) == MaxOpenOffers - Len(o.outgoing) - Planned(d)

PromisedReturns(o) ==
    Bundled(LAMBDA r : SumFunctionOnSet([i \in DOMAIN o.offers |-> o.offers[i].receive[r]],
                                        Range(o.outgoing)))

\* Stock that our open offers have promised away.
Promised(o) ==
    Bundled(LAMBDA r : SumFunctionOnSet([i \in DOMAIN o.offers |-> o.offers[i].give[r]],
                                        Range(o.outgoing)))

IsNormal(give, receive) == IsZero(receive) \/ 2 * Total(give) > Total(receive)

HasNormalOffers(o) ==
    \E k \in DOMAIN o.outgoing :
        LET offer == o.offers[o.outgoing[k]]
        IN IsNormal(offer.give, offer.receive)

-----------------------------------------------------------------------------
(* Accepting *)

\* The import worth keeping a command free for, as a set of at most one.
HoldFor(o, available, urgency) ==
    LET scarce == ScarcestImport(available, o.specialty)
        lagging == \/ urgency[scarce] # None
                   \/ \E r \in Imports(o.specialty) \ {scarce} :
                         OverCeiling(r, available, o.specialty)
    IN IF /\ lagging
          /\ PaymentLimit(available, o, TicksLeft(o)) # 0
          /\ Len(o.outgoing) < MaxOpenOffers
          /\ \A k \in DOMAIN o.outgoing :
                o.offers[o.outgoing[k]].receive[scarce] = 0
       THEN {scarce} ELSE {}

IsWorthAccepting(o, offer, d, reserve, urgency) ==
    LET limit == PaymentLimit(SaturatingSub(d.available, offer.receive), o,
                              TicksLeft(o))
    IN /\ IsZero(offer.receive) \/ ~HasNormalOffers(o) \/ limit = NoLimit
       /\ EvaluateIncoming(o, offer, d.available, reserve, urgency, limit,
                           InEndGame(TicksLeft(o)))

\* Is the last command of the tick kept for something better?
IsHeldBack(o, offer, d, holdFor) ==
    /\ d.budget <= 1
    /\ \/ offer.expires - o.tick <= 1
       \/ \E r \in holdFor : offer.give[r] = 0

\* What an accept costs is spent; what it brings only counts when it is here.
AcceptOne(d, i, cost) ==
    [Chosen(d, [kind |-> "ACCEPT", id |-> i])
       EXCEPT !.available = SaturatingSub(@, cost)]

\* What becomes of the offer i; what is held back is left in d.deferred.
Considered(o, reserve, holdFor, acc, i) ==
    LET d == acc.d
        offer == o.offers[i]
        accepted == AcceptOne(d, i, offer.receive)
    IN IF d.budget <= 0 \/ ~IsWorthAccepting(o, offer, d, reserve, acc.urgency)
       THEN acc
       ELSE IF IsHeldBack(o, offer, d, holdFor)
       THEN [acc EXCEPT !.d.deferred = Append(@, i)]
       ELSE [d |-> accepted,
             urgency |-> UrgencyOf(accepted.available, o.upkeep, reserve)]

\* One pass over the offers ids.
AcceptIncoming(o, d0, ids, reserve, urgency0, holdFor) ==
    FoldLeft(LAMBDA acc, i : Considered(o, reserve, holdFor, acc, i),
             [d |-> [d0 EXCEPT !.deferred = <<>>], urgency |-> urgency0], ids).d

-----------------------------------------------------------------------------
(* Withdrawing, giving, advertising *)

IsDangerous(o, offer, available, reserve) ==
    LET limit == PaymentLimit(available, o, TicksLeft(o))
    IN \/ \E r \in Resource : offer.give[r] > 0 /\ available[r] < reserve[r]
       \/ /\ limit # NoLimit
          /\ \/ IsZero(offer.receive) \/ limit = 0
             \/ BreaksLimit(limit, Total(offer.give), Total(offer.receive))

Reviewed(o, available, reserve, d, i) ==
    IF d.budget > 0 /\ IsDangerous(o, o.offers[i], available, reserve)
    THEN Chosen(d, [kind |-> "WITHDRAW", id |-> i]) ELSE d

WithdrawDangerous(o, d0, reserve) ==
    FoldLeft(LAMBDA d, i : Reviewed(o, d0.available, reserve, d, i), d0, o.outgoing)

\* A gift that is on its way out of our stock, and remembered.
Gift(o, d, p, r, quantity) ==
    [Chosen(d, OfferUntil(o, p, Single(r, quantity), Zero))
       EXCEPT !.available = SaturatingSub(@, Single(r, quantity)),
              !.memory = RecordGift(@, p, r, o.tick)]

GivenAway(o, excess, d, r) ==
    LET recipient == GiftRecipient(o, d.memory, r)
    IN IF d.budget > 0 /\ RoomFor(o, d) > 0 /\ recipient # <<>>
       THEN Gift(o, d, recipient[1], r, Min2(excess[r], MaxExcessGift))
       ELSE d

\* Stock above the cap goes to whoever asks, the largest excess first.
GiveExcess(o, d0, excess) ==
    IF CanOffer(o)
    THEN FoldLeft(LAMBDA d, r : GivenAway(o, excess, d, r), d0,
                  Needs([r \in Resource |-> None], excess))
    ELSE d0

\* What to publish: <<>> for leaving things as they are.
AdvertisementFor(o, surplus, need, critical) ==
    LET selling == {r \in Resource : surplus[r] >= 2}
        seeking == {r \in Resource : need[r] > 0} \cup critical
        ttl == Min({AdTtl, MaxPublicationTtl, TicksLeft(o)})
        empty == selling = {} /\ seeking = {}
        publish == <<[kind |-> "ADVERTISE", terms |-> <<selling, seeking>>,
                      expires |-> o.tick + ttl]>>
    IN IF ttl <= 0 THEN <<>>
       ELSE IF OwnAds(o) = {} THEN IF empty THEN <<>> ELSE publish
       ELSE LET i == CHOOSE x \in OwnAds(o) : TRUE
                ad == o.ads[i]
                changed == <<selling, seeking>> # <<ad.selling, ad.seeking>>
            IN IF critical \ ad.seeking # {} THEN publish
               ELSE IF empty THEN <<[kind |-> "WITHDRAW", id |-> i]>>
               ELSE IF \/ changed /\ o.tick - ad.created >= 3
                       \/ ad.expires - o.tick <= 2
               THEN publish
               ELSE <<>>

\* A station that has plenty of everything takes its advertisement down.
RefreshAdvertisement(o, d, surplus, need, critical) ==
    LET cmds == IF ComfortablySupplied(d.available)
                THEN IF OwnAds(o) = {} THEN <<>>
                     ELSE <<[kind |-> "WITHDRAW",
                             id |-> CHOOSE i \in OwnAds(o) : TRUE]>>
                ELSE AdvertisementFor(o, surplus, need, critical)
    IN IF d.budget > 0 /\ cmds # <<>> THEN Chosen(d, cmds[1]) ELSE d

-----------------------------------------------------------------------------
(* Proposing *)

WantedWhenShort(o, available, reserve, deficit) == deficit

\* What to ask for: deficits, and imports up to a target before one bites.
Wanted(o, available, reserve, deficit) ==
    LET sp == o.specialty
        bulk == TradeSize(available[sp] - NormalFloor(o)) > SmallTrade
        ceiling(r) == Min2(ImportCeiling(r, available, sp), StockCap)
        target(r) == Max2(WatchStock, 2 * reserve[r])
    IN Bundled(LAMBDA r :
          LET have == available[r]
          IN IF r = sp \/ have >= StockCap \/ have > ceiling(r)
             THEN deficit[r]
             ELSE Min2(StockCap - have,
                       Max({deficit[r], target(r) - have, 5,
                            IF bulk THEN ceiling(r) - have ELSE 0})))

FloorForgetsNormal(o, limit, keepNormal) ==
    IF InEndGame(TicksLeft(o)) THEN SpecialtyFloor(o, TicksLeft(o))
    ELSE (IF limit = NoLimit THEN NormalTicks ELSE StopTicks)
            * o.upkeep[o.specialty]

\* The specialty that must stay behind a payment under the limit.
FloorUnder(o, limit, keepNormal) ==
    IF InEndGame(TicksLeft(o)) THEN SpecialtyFloor(o, TicksLeft(o))
    ELSE (IF limit = NoLimit \/ keepNormal THEN NormalTicks ELSE StopTicks)
            * o.upkeep[o.specialty]

\* The terms for candidate c under a limit; giving nothing if there are none.
TermsUnder(limit, o, c, d, surplus, wanted, keepNormal) ==
    LET sp == o.specialty
        end == InEndGame(TicksLeft(o))
        floor == FloorUnder(o, limit, keepNormal)
        size == IF end THEN BulkTrade
                ELSE TradeSize(d.available[sp] - SpecialtyFloor(o, TicksLeft(o)))
        payable == IF c.give # sp THEN surplus[c.give]
                   ELSE Min2(surplus[sp], d.available[sp] - floor)
    IN IF d.available[sp] < floor THEN <<0, 1>>
       ELSE Terms(DesiredQuantity(wanted[c.want], d.available[c.want], size),
                  payable, limit, d.available[c.want], end /\ c.give = sp)

\* The first affordable terms, at the full price or else at half.
TermsFor(o, c, d, surplus, wanted, keepNormal) ==
    LET full == TermsUnder(NoLimit, o, c, d, surplus, wanted, keepNormal)
    IN IF full[1] > 0 \/ InEndGame(TicksLeft(o)) THEN full
       ELSE TermsUnder(Half, o, c, d, surplus, wanted, keepNormal)

Proposed(o, acc, p, give, receive) ==
    [d |-> [Chosen(acc.d, OfferUntil(o, p, give, receive))
              EXCEPT !.available = SaturatingSub(@, give)],
     surplus |-> SaturatingSub(acc.surplus, give),
     room |-> acc.room - 1,
     keepNormal |-> acc.keepNormal \/ IsNormal(give, receive)]

ProposedOn(o, acc, c, terms) ==
    IF terms[1] = 0 THEN acc
    ELSE Proposed(o, acc, c.station, Single(c.give, terms[1]),
                  Single(c.want, terms[2]))

\* An open offer that asks a station for a resource speaks for that pairing.
Pending(o) ==
    UNION {{<<o.offers[i].recipient, r>> :
               r \in {q \in Resource : o.offers[i].receive[q] > 0}} :
             i \in Range(o.outgoing)}

Asked(o, wanted, acc, c) ==
    IF acc.d.budget <= 0 \/ acc.room <= 0 THEN acc
    ELSE ProposedOn(o, acc, c,
                    TermsFor(o, c, acc.d, acc.surplus, wanted, acc.keepNormal))

\* One offer to each candidate, from one balance; surplus is what is left.
ProposeOffers(o, d0, surplus0, wanted, urgency) ==
    LET start == [d |-> d0, surplus |-> surplus0,
                  room |-> MaxOpenOffers - Len(o.outgoing),
                  keepNormal |-> HasNormalOffers(o)]
    IN IF start.room <= 0 \/ ~CanOffer(o) THEN start
       ELSE FoldLeft(LAMBDA acc, c : Asked(o, wanted, acc, c), start,
                     Candidates(o, d0.memory, urgency, wanted, surplus0, Pending(o)))

\* A gift to a station in distress, when nothing of ours is short.
OfferAid(o, d, surplus, reserve, urgency) ==
    LET gifts == Distress(o, d.memory, surplus, urgency)
        spare(given) == PaymentLimit(SaturatingSub(Add(surplus, reserve), given),
                                     o, TicksLeft(o)) = NoLimit
    IN IF /\ spare(Zero) /\ d.budget > 0 /\ RoomFor(o, d) > 0 /\ CanOffer(o)
          /\ gifts # <<>> /\ spare(Single(gifts[1].resource, gifts[1].quantity))
       THEN Gift(o, d, gifts[1].station, gifts[1].resource, gifts[1].quantity)
       ELSE d

-----------------------------------------------------------------------------
(* The decision *)

\* After the offers: what was held back, if nothing better used the command,
\* and then aid.
LastThings(o, done, reserve, urgency) ==
    LET held == done.d.deferred
        last == AcceptIncoming(o, done.d, held, reserve,
                    UrgencyOf(done.d.available, o.upkeep, reserve), {})
    IN IF held = <<>> \/ done.d.budget <= 0
       THEN OfferAid(o, done.d, done.surplus, reserve, urgency)
       ELSE LET d == last
            IN OfferAid(o, d, SaturatingSub(d.available, reserve), reserve,
                        UrgencyOf(done.d.available, o.upkeep, reserve))

OnTheMarket(o, d, reserve, urgency, excess, wanted, surplus) ==
    LET need == Bundled(LAMBDA r : IF excess[r] = 0 THEN wanted[r] ELSE 0)
        offered == Bundled(LAMBDA r :
                      IF /\ wanted[r] = 0 \/ excess[r] > 0
                         /\ PaymentLimit(d.available, o, TicksLeft(o)) # 0
                      THEN surplus[r] ELSE 0)
        critical == {r \in Resource : urgency[r] = Critical}
    IN LastThings(o,
          ProposeOffers(o, RefreshAdvertisement(o, d, offered, need, critical),
                        surplus, wanted, urgency),
          reserve, urgency)

\* What was short and what was urgent when the accepts were through still
\* counts after the gifts.
AfterGifts(o, d, reserve, urgency, deficit, excess) ==
    OnTheMarket(o, d, reserve, urgency, excess,
                Wanted(o, d.available, reserve, deficit),
                SaturatingSub(d.available, reserve))

AfterAccepts(o, d, reserve) ==
    AfterGifts(o, GiveExcess(o, WithdrawDangerous(o, d, reserve),
                             ExcessOverCap(d.available)),
               reserve, UrgencyOf(d.available, o.upkeep, reserve),
               SaturatingSub(reserve, d.available), ExcessOverCap(d.available))

Trading(o, d, reserve, urgency) ==
    AfterAccepts(o,
        AcceptIncoming(o, d, o.incoming, reserve, urgency,
                       HoldFor(o, d.available, urgency)),
        reserve)

DecideUnder(o, m, available, reserve) ==
    LET d == [budget |-> CommandsPerTick, available |-> available, memory |-> m,
              commands |-> <<>>, deferred |-> <<>>]
    IN [reserve |-> reserve,
        outcome |-> IF o.failed \/ o.tick >= DurationTicks THEN d
                    ELSE Trading(o, d, reserve,
                                 UrgencyOf(available, o.upkeep, reserve))]

DecideFrom(o, m, available) ==
    DecideUnder(o, m, available, Reserve(o, m))

Stocked(o, m, available) ==
    [m EXCEPT !.stored = StoredReserve(o, m, available)]

\* decide: the commands of a batch, with the memory and the reserve behind it.
Decide(o, m) ==
    LET available == SaturatingSub(o.inventory, Promised(o))
    IN DecideFrom(o, Stocked(o, Observe(m, o), available), available)
=============================================================================

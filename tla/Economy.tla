------------------------------ MODULE Economy ------------------------------
(***************************************************************************)
(* The rule engine of the simulator (bazaar_sim/economy.py) as its server  *)
(* drives it: stations post offers and advertisements, accept and withdraw *)
(* them, and every tick produces, consumes and closes what is over.        *)
(*                                                                         *)
(* Offers, advertisements and transactions are functions from the shared   *)
(* counter _ids to records: the lists of the code only ever grow in the    *)
(* order of that counter.  world_version and the last_* observations,      *)
(* which nothing in the engine reads, are left out.                        *)
(***************************************************************************)
EXTENDS Bundles, FiniteSets, Functions

CONSTANTS
    Station,            \* the roster
    Stranger,           \* a recipient name that is not in the roster
    Specialty,          \* the resource each station produces
    Upkeep,             \* what each station consumes in a tick
    InitialInventory,   \* the stock each station starts with
    ProductionLevels,   \* outputs the production schedule may set
    DurationTicks, MaxHealth, ShortageDamage, Recovery,
    MaxOfferTtl, MaxPublicationTtl, CommandsPerTick, MaxOpenOffers,
    OfferTerms,         \* the <<give, receive>> pairs a client may offer
    AdTerms,            \* the <<selling, seeking>> pairs it may advertise
    MaxObjects          \* bound: identifiers handed out in a run

ASSUME RosterAssumption ==
    /\ Stranger \notin Station
    /\ IsFiniteSet(Station)
    /\ Specialty \in [Station -> Resource]
    /\ Upkeep \in [Station -> Bundle]
    /\ InitialInventory \in [Station -> Bundle]

ASSUME RulesAssumption ==
    /\ ProductionLevels \subseteq Nat
    /\ DurationTicks \in Nat \ {0}
    /\ MaxHealth \in Nat \ {0}
    /\ ShortageDamage \in Nat
    /\ Recovery \in Nat \ {0}
    /\ MaxOfferTtl \in Nat
    /\ MaxPublicationTtl \in Nat
    /\ CommandsPerTick \in Nat
    /\ MaxOpenOffers \in Nat
    /\ OfferTerms \subseteq Bundle \X Bundle
    /\ AdTerms \subseteq (SUBSET Resource) \X (SUBSET Resource)
    /\ MaxObjects \in Nat

VARIABLES tick, stations, offers, advertisements, transactions, nextId,
          commandCounts

vars == <<tick, stations, offers, advertisements, transactions, nextId,
          commandCounts>>

-----------------------------------------------------------------------------
(* State *)

NoId == 0
NoTick == -1

OfferStatus == {"OPEN", "ACCEPTED", "WITHDRAWN", "EXPIRED", "RUN_ENDED"}

StationRecord ==
    [inventory : Bundle, health : 0..MaxHealth, failedOnce : BOOLEAN,
     firstFailureTick : Nat \cup {NoTick},
     fullySupplied : Nat, shortage : Nat, streak : Nat, longestStreak : Nat,
     produced : Bundle, consumed : Bundle, unmet : Bundle,
     imported : Bundle, exported : Bundle]

OfferRecord ==
    [proposer : Station, recipient : Station, give : Bundle, receive : Bundle,
     created : Nat, expires : Nat, status : OfferStatus,
     closedTick : Nat \cup {NoTick}, transaction : Nat]

AdRecord ==
    [station : Station, selling : SUBSET Resource, seeking : SUBSET Resource,
     created : Nat, expires : Nat]

TransactionRecord ==
    [offer : Nat, proposer : Station, recipient : Station,
     give : Bundle, receive : Bundle, settled : Nat]

Id == Nat \ {NoId}

NewStation(s) ==
    [inventory |-> InitialInventory[s], health |-> MaxHealth,
     failedOnce |-> FALSE, firstFailureTick |-> NoTick,
     fullySupplied |-> 0, shortage |-> 0, streak |-> 0, longestStreak |-> 0,
     produced |-> Zero, consumed |-> Zero, unmet |-> Zero,
     imported |-> Zero, exported |-> Zero]

Init ==
    /\ tick = 0
    /\ stations = [s \in Station |-> NewStation(s)]
    /\ offers = [i \in {} |-> {}]
    /\ advertisements = [i \in {} |-> {}]
    /\ transactions = [i \in {} |-> {}]
    /\ nextId = 1
    /\ commandCounts = [s \in Station |-> 0]

-----------------------------------------------------------------------------
(* Helpers *)

\* A dictionary with one more key.
With(f, i, v) == [j \in DOMAIN f \cup {i} |-> IF j = i THEN v ELSE f[j]]

\* The part of a dictionary whose keys are in S.
Only(f, S) == [i \in DOMAIN f \cap S |-> f[i]]

OpenIds(os) == {i \in DOMAIN os : os[i].status = "OPEN"}

OpenOutgoing(s) == {i \in OpenIds(offers) : offers[i].proposer = s}

Parties(o) == {o.proposer, o.recipient}

Finished == tick >= DurationTicks

\* The offer deadline is exclusive (Offer.is_expired_at).
IsExpiredAt(o, t) == t >= o.expires

\* _close, on each of the offers ids.
CloseForgetsTransaction(os, ids, status, now, txn) ==
    [i \in DOMAIN os |->
        IF i \in ids
        THEN [os[i] EXCEPT !.status = status, !.closedTick = now,
                           !.transaction = NoId]
        ELSE os[i]]

Close(os, ids, status, now, txn) ==
    [i \in DOMAIN os |->
        IF i \in ids
        THEN [os[i] EXCEPT !.status = status, !.closedTick = now,
                           !.transaction = txn]
        ELSE os[i]]

-----------------------------------------------------------------------------
(* Commands *)

Command ==
    [kind : {"ADVERTISE"}, terms : AdTerms, expires : 0..(DurationTicks + 1)]
      \cup
    [kind : {"OFFER"}, recipient : Station \cup {Stranger},
     terms : OfferTerms,
     expires : 0..(DurationTicks + 1)]
      \cup
    [kind : {"ACCEPT", "WITHDRAW"}, id : 1..(MaxObjects + 1)]
      \cup
    [kind : {"SYNC"}]

Give(cmd) == cmd.terms[1]
Receive(cmd) == cmd.terms[2]
Selling(cmd) == cmd.terms[1]
Seeking(cmd) == cmd.terms[2]

TtlOf(cmd) == IF cmd.kind = "OFFER" THEN MaxOfferTtl ELSE MaxPublicationTtl

DeadlineAllowed(cmd) ==
    /\ tick < cmd.expires
    /\ cmd.expires <= tick + TtlOf(cmd)
    /\ cmd.expires <= DurationTicks

PrecheckOneTooMany(s, cmd) ==
    IF \/ cmd.recipient \notin Station
       \/ cmd.recipient = s
       \/ IsZero(Give(cmd))
    THEN "INVALID_ARGUMENT"
    ELSE IF stations[cmd.recipient].failedOnce THEN "STATION_FAILED"
    ELSE IF Cardinality(OpenOutgoing(s)) > MaxOpenOffers
         THEN "LIMIT_REACHED"
    ELSE "OK"

PrecheckOffer(s, cmd) ==
    IF \/ cmd.recipient \notin Station
       \/ cmd.recipient = s
       \/ IsZero(Give(cmd))
    THEN "INVALID_ARGUMENT"
    ELSE IF stations[cmd.recipient].failedOnce THEN "STATION_FAILED"
    ELSE IF ~Dominates(stations[s].inventory, Give(cmd))
         THEN "INSUFFICIENT_RESOURCES"
    ELSE IF Cardinality(OpenOutgoing(s)) >= MaxOpenOffers
         THEN "LIMIT_REACHED"
    ELSE "OK"

\* Why a command is refused before it is processed, or "OK".
Precheck(s, cmd) ==
    IF stations[s].failedOnce THEN "STATION_FAILED"
    ELSE IF Finished THEN "RUN_NOT_RUNNING"
    ELSE IF commandCounts[s] >= CommandsPerTick THEN "RATE_LIMITED"
    ELSE IF cmd.kind \in {"OFFER", "ADVERTISE"} /\ ~DeadlineAllowed(cmd)
         THEN "INVALID_ARGUMENT"
    ELSE IF cmd.kind = "OFFER" THEN PrecheckOffer(s, cmd)
    ELSE "OK"

Advertise(s, cmd) ==
    /\ nextId <= MaxObjects
    /\ advertisements' =
          With(Only(advertisements,
                    {i \in DOMAIN advertisements :
                        advertisements[i].station # s}),
               nextId,
               [station |-> s, selling |-> Selling(cmd),
                seeking |-> Seeking(cmd), created |-> tick,
                expires |-> cmd.expires])
    /\ nextId' = nextId + 1
    /\ UNCHANGED <<stations, offers, transactions>>

PostOffer(s, cmd) ==
    /\ nextId <= MaxObjects
    /\ offers' =
          With(offers, nextId,
               [proposer |-> s, recipient |-> cmd.recipient,
                give |-> Give(cmd), receive |-> Receive(cmd),
                created |-> tick, expires |-> cmd.expires,
                status |-> "OPEN", closedTick |-> NoTick,
                transaction |-> NoId])
    /\ nextId' = nextId + 1
    /\ UNCHANGED <<stations, advertisements, transactions>>

WithdrawClosedToo(s, i) ==
    IF i \in DOMAIN advertisements
    THEN IF advertisements[i].station = s THEN "OK" ELSE "INVALID_ARGUMENT"
    ELSE IF i \notin DOMAIN offers THEN "NOT_FOUND"
    ELSE IF offers[i].proposer # s THEN "INVALID_ARGUMENT"
    ELSE "OK"

WithdrawCode(s, i) ==
    IF i \in DOMAIN advertisements
    THEN IF advertisements[i].station = s THEN "OK" ELSE "INVALID_ARGUMENT"
    ELSE IF i \notin DOMAIN offers THEN "NOT_FOUND"
    ELSE IF offers[i].proposer # s THEN "INVALID_ARGUMENT"
    ELSE IF offers[i].status # "OPEN" THEN "NOT_OPEN"
    ELSE "OK"

Withdraw(s, i) ==
    /\ \/ /\ WithdrawCode(s, i) = "OK"
          /\ i \in DOMAIN advertisements
          /\ advertisements' =
                Only(advertisements, DOMAIN advertisements \ {i})
          /\ UNCHANGED offers
       \/ /\ WithdrawCode(s, i) = "OK"
          /\ i \notin DOMAIN advertisements
          /\ offers' = Close(offers, {i}, "WITHDRAWN", tick, NoId)
          /\ UNCHANGED advertisements
       \/ /\ WithdrawCode(s, i) # "OK"
          /\ UNCHANGED <<offers, advertisements>>
    /\ UNCHANGED <<stations, transactions, nextId>>

AcceptOnTrust(s, i) ==
    IF i \notin DOMAIN offers THEN "NOT_FOUND"
    ELSE IF offers[i].recipient # s THEN "INVALID_ARGUMENT"
    ELSE IF offers[i].status # "OPEN" THEN "NOT_OPEN"
    ELSE IF ~Dominates(stations[s].inventory, offers[i].receive)
         THEN "INSUFFICIENT_RESOURCES"
    ELSE "OK"

AcceptCode(s, i) ==
    IF i \notin DOMAIN offers THEN "NOT_FOUND"
    ELSE IF offers[i].recipient # s THEN "INVALID_ARGUMENT"
    ELSE IF offers[i].status # "OPEN" THEN "NOT_OPEN"
    ELSE IF IsExpiredAt(offers[i], tick) THEN "EXPIRED"
    ELSE IF \E p \in Parties(offers[i]) : stations[p].failedOnce
         THEN "STATION_FAILED"
    ELSE IF \/ ~Dominates(stations[offers[i].proposer].inventory,
                          offers[i].give)
            \/ ~Dominates(stations[offers[i].recipient].inventory,
                          offers[i].receive)
         THEN "INSUFFICIENT_RESOURCES"
    ELSE "OK"

SwapUnbooked(st, out, in) ==
    [st EXCEPT !.inventory = Add(Sub(st.inventory, out), in),
               !.exported = Add(st.exported, out)]

\* One side of a settlement: pays out, takes in, and books both.
Swap(st, out, in) ==
    [st EXCEPT !.inventory = Add(Sub(st.inventory, out), in),
               !.exported = Add(st.exported, out),
               !.imported = Add(st.imported, in)]

Settle(i) ==
    LET o == offers[i] IN
    /\ stations' =
          [p \in Station |->
              IF p = o.proposer THEN Swap(stations[p], o.give, o.receive)
              ELSE IF p = o.recipient THEN Swap(stations[p], o.receive, o.give)
              ELSE stations[p]]
    /\ offers' = Close(offers, {i}, "ACCEPTED", tick, nextId)
    /\ transactions' =
          With(transactions, nextId,
               [offer |-> i, proposer |-> o.proposer,
                recipient |-> o.recipient, give |-> o.give,
                receive |-> o.receive, settled |-> tick])
    /\ nextId' = nextId + 1

AcceptChargesFirst(s, i) ==
    /\ \/ /\ AcceptCode(s, i) = "OK"
          /\ nextId <= MaxObjects
          /\ Settle(i)
       \/ /\ AcceptCode(s, i) = "INSUFFICIENT_RESOURCES"
          /\ stations' = [stations EXCEPT
                            ![offers[i].proposer].inventory =
                                SaturatingSub(@, offers[i].give)]
          /\ UNCHANGED <<offers, transactions, nextId>>
       \/ /\ AcceptCode(s, i) \notin {"OK", "INSUFFICIENT_RESOURCES"}
          /\ UNCHANGED <<stations, offers, transactions, nextId>>
    /\ UNCHANGED advertisements

Accept(s, i) ==
    /\ \/ /\ AcceptCode(s, i) = "OK"
          /\ nextId <= MaxObjects
          /\ Settle(i)
       \/ /\ AcceptCode(s, i) # "OK"
          /\ UNCHANGED <<stations, offers, transactions, nextId>>
    /\ UNCHANGED advertisements

\* execute: only a command that passes the precheck uses quota.
Execute(s, cmd) ==
    /\ Precheck(s, cmd) = "OK"
    /\ commandCounts' = [commandCounts EXCEPT ![s] = @ + 1]
    /\ \/ cmd.kind = "ADVERTISE" /\ Advertise(s, cmd)
       \/ cmd.kind = "OFFER" /\ PostOffer(s, cmd)
       \/ cmd.kind = "ACCEPT" /\ Accept(s, cmd.id)
       \/ cmd.kind = "WITHDRAW" /\ Withdraw(s, cmd.id)
       \/ /\ cmd.kind = "SYNC"
          /\ UNCHANGED <<stations, offers, advertisements, transactions,
                         nextId>>
    /\ UNCHANGED tick

\* execute, when the precheck refuses: the outcome is all there is.
Refuse(s) ==
    /\ {cmd \in Command : Precheck(s, cmd) # "OK"} # {}
    /\ UNCHANGED vars

-----------------------------------------------------------------------------
(* Time *)

Min2(a, b) == IF a <= b THEN a ELSE b
Max2(a, b) == IF a >= b THEN a ELSE b

HealthAfter(st, unmet) ==
    IF IsZero(unmet)
    THEN Min2(MaxHealth, st.health + Recovery)
    ELSE Max2(0, st.health - Total(unmet) * ShortageDamage)

FailsAgain(st, unmet) ==
    /\ ~IsZero(unmet)
    /\ HealthAfter(st, unmet) = 0

\* Does this tick bring the station's first failure?
Fails(st, unmet) ==
    /\ ~IsZero(unmet)
    /\ HealthAfter(st, unmet) = 0
    /\ ~st.failedOnce

FailedAfter(st, unmet) == st.failedOnce \/ Fails(st, unmet)

StreakAfter(st, unmet) == IF IsZero(unmet) THEN 0 ELSE st.streak + 1

\* Produce, then pay upkeep; unmet upkeep costs health, a full tick restores it.
SettleTick(st, s, production, now) ==
    LET produced == Single(Specialty[s], production)
        stock == Add(st.inventory, produced)
        unmet == SaturatingSub(Upkeep[s], stock)
    IN [inventory |-> SaturatingSub(stock, Upkeep[s]),
        health |-> HealthAfter(st, unmet),
        failedOnce |-> FailedAfter(st, unmet),
        firstFailureTick |-> IF Fails(st, unmet) THEN now
                             ELSE st.firstFailureTick,
        fullySupplied |-> st.fullySupplied + (IF IsZero(unmet) THEN 1 ELSE 0),
        shortage |-> st.shortage + (IF IsZero(unmet) THEN 0 ELSE 1),
        streak |-> StreakAfter(st, unmet),
        longestStreak |-> Max2(st.longestStreak, StreakAfter(st, unmet)),
        produced |-> Add(st.produced, produced),
        consumed |-> Add(st.consumed, Sub(Upkeep[s], unmet)),
        unmet |-> Add(st.unmet, unmet),
        imported |-> st.imported,
        exported |-> st.exported]

\* The three sweeps over open offers, in the order advance runs them:
\* deadlines, then dealings of failed stations, then the end of the run.
ExpireTooLate(os, now) ==
    Close(os, {i \in OpenIds(os) : os[i].expires < now}, "EXPIRED", now, NoId)

Expire(os, now) ==
    Close(os, {i \in OpenIds(os) : os[i].expires <= now}, "EXPIRED", now, NoId)

WithdrawFailedProposals(os, failed, now) ==
    Close(os, {i \in OpenIds(os) : os[i].proposer \in failed},
          "WITHDRAWN", now, NoId)

WithdrawFailed(os, failed, now) ==
    Close(os, {i \in OpenIds(os) : Parties(os[i]) \cap failed # {}},
          "WITHDRAWN", now, NoId)

EndRun(os, now) ==
    IF now >= DurationTicks
    THEN Close(os, OpenIds(os), "RUN_ENDED", now, NoId)
    ELSE os

LiveAds(ads, failed, now) ==
    Only(ads, {i \in DOMAIN ads :
                  /\ ads[i].expires > now
                  /\ ads[i].station \notin failed
                  /\ now < DurationTicks})

AdvanceStopsEarly(production) ==
    /\ tick + 1 < DurationTicks
    /\ tick' = tick + 1
    /\ stations' = [s \in Station |->
                      SettleTick(stations[s], s, production[s], tick + 1)]
    /\ offers' = Expire(offers, tick + 1)
    /\ commandCounts' = [s \in Station |-> 0]
    /\ UNCHANGED <<advertisements, transactions, nextId>>

\* BazaarServer.advance: one tick, and the end of the run when it is due.
Advance(production) ==
    /\ ~Finished
    /\ LET now == tick + 1
           settled == [s \in Station |->
                          SettleTick(stations[s], s, production[s], now)]
           failed == {s \in Station : settled[s].failedOnce}
       IN /\ tick' = now
          /\ stations' = settled
          /\ offers' = EndRun(WithdrawFailed(Expire(offers, now), failed, now),
                              now)
          /\ advertisements' = LiveAds(advertisements, failed, now)
    /\ commandCounts' = [s \in Station |-> 0]
    /\ UNCHANGED <<transactions, nextId>>

-----------------------------------------------------------------------------
(* Specification *)

Next ==
    \/ \E s \in Station : \E cmd \in Command : Execute(s, cmd)
    \/ \E s \in Station : Refuse(s)
    \/ \E production \in [Station -> ProductionLevels] : Advance(production)

Spec == Init /\ [][Next]_vars

\* The ticker task sleeps tick_ms and advances while the run is on.
Ticking == \E production \in [Station -> ProductionLevels] : Advance(production)

FairSpec == Spec /\ WF_vars(Ticking)

-----------------------------------------------------------------------------
(* Properties *)

\* Every value the engine keeps has its type; in particular no settlement and
\* no upkeep payment drives a stock below zero, which Bundle would raise on.
TypeOK ==
    /\ tick \in 0..DurationTicks
    /\ stations \in [Station -> StationRecord]
    /\ DOMAIN offers \subseteq 1..(nextId - 1)
    /\ \A i \in DOMAIN offers : offers[i] \in OfferRecord
    /\ DOMAIN advertisements \subseteq 1..(nextId - 1)
    /\ \A i \in DOMAIN advertisements : advertisements[i] \in AdRecord
    /\ DOMAIN transactions \subseteq 1..(nextId - 1)
    /\ \A i \in DOMAIN transactions : transactions[i] \in TransactionRecord
    /\ nextId \in Id
    /\ commandCounts \in [Station -> 0..CommandsPerTick]

\* Double entry: a station's stock is what it started with, made and imported,
\* less what it consumed and exported, whatever _accept and settle_tick did.
LedgerBalanced ==
    \A s \in Station : \A r \in Resource :
        LET st == stations[s] IN
        st.inventory[r] + st.consumed[r] + st.exported[r]
            = InitialInventory[s][r] + st.produced[r] + st.imported[r]

\* What a station sent or got in a transaction.
Sent(txn, s) == IF txn.proposer = s THEN txn.give
                ELSE IF txn.recipient = s THEN txn.receive ELSE Zero
Got(txn, s) == IF txn.proposer = s THEN txn.receive
               ELSE IF txn.recipient = s THEN txn.give ELSE Zero

\* The import and export totals a station sees are exactly the sums over the
\* transactions it was party to: the two records _accept keeps never diverge.
TotalsMatchTransactions ==
    \A s \in Station : \A r \in Resource :
        /\ stations[s].exported[r] =
              SumFunction([t \in DOMAIN transactions |->
                              Sent(transactions[t], s)[r]])
        /\ stations[s].imported[r] =
              SumFunction([t \in DOMAIN transactions |->
                              Got(transactions[t], s)[r]])

\* A failed station has nothing left on the market: no advertisement, and no
\* open offer it made or received, so nobody can still trade with it.
FailedHasNoDealings ==
    \A s \in Station : stations[s].failedOnce =>
        /\ \A i \in OpenIds(offers) : s \notin Parties(offers[i])
        /\ \A i \in DOMAIN advertisements : advertisements[i].station # s

\* A station fails for good in the tick in which settle_tick first brings its
\* health to zero, and that tick is what is recorded: no step before it notes a
\* failure, and no later shortage, recovery or command moves or clears the note.
FailureRecorded ==
    [][\A s \in Station :
          LET before == stations[s]
              after == stations'[s]
          IN IF before.failedOnce
             THEN /\ after.failedOnce
                  /\ after.firstFailureTick = before.firstFailureTick
             ELSE IF after.health = 0
             THEN /\ after.failedOnce
                  /\ after.firstFailureTick = tick' /\ tick' = tick + 1
             ELSE /\ ~after.failedOnce
                  /\ after.firstFailureTick = NoTick]_vars

\* What is open or advertised is still in time, under the published caps, and
\* nothing stays open or advertised once the run is over.  The run-end sweep
\* never finds an open offer: the precheck caps every deadline at the run's
\* length, so the expiry sweep of the same tick closed it, and the status that
\* SIMULATOR.md gives to the offers of the run's end is never used.
OpenIsLive ==
    /\ \A i \in DOMAIN offers : offers[i].status # "RUN_ENDED"
    /\ \A i \in OpenIds(offers) :
          /\ tick < offers[i].expires
          /\ offers[i].expires <= offers[i].created + MaxOfferTtl
          /\ offers[i].closedTick = NoTick
    /\ \A i \in DOMAIN advertisements :
          /\ tick < advertisements[i].expires
          /\ advertisements[i].expires
                <= advertisements[i].created + MaxPublicationTtl
    /\ Finished => OpenIds(offers) = {} /\ DOMAIN advertisements = {}

\* An accepted offer settled exactly once, in time and on its own terms, and
\* every transaction comes from such an offer.
SettledOnce ==
    /\ \A i \in DOMAIN offers :
          offers[i].status = "ACCEPTED"
             <=> \E t \in DOMAIN transactions : transactions[t].offer = i
    /\ \A t \in DOMAIN transactions :
          LET txn == transactions[t] IN
          /\ txn.offer \in DOMAIN offers
          /\ LET o == offers[txn.offer] IN
             /\ o.transaction = t
             /\ txn.proposer = o.proposer /\ txn.recipient = o.recipient
             /\ txn.give = o.give /\ txn.receive = o.receive
             /\ txn.settled = o.closedTick
             /\ o.created <= txn.settled /\ txn.settled < o.expires

\* At most one advertisement per station, at most max_open_outgoing_offers
\* open offers per station, never one to itself.
MarketLimits ==
    \A s \in Station :
        /\ \A i, j \in DOMAIN advertisements :
              advertisements[i].station = s /\ advertisements[j].station = s
                 => i = j
        /\ Cardinality(OpenOutgoing(s)) <= MaxOpenOffers
        /\ \A i \in OpenOutgoing(s) : offers[i].recipient # s

\* An offer never disappears, never changes its terms, and once closed never
\* changes again: no sweep and no command reopens or recloses it.
ClosedIsFinal ==
    [][\A i \in DOMAIN offers :
          /\ i \in DOMAIN offers'
          /\ offers[i].status # "OPEN" => offers'[i] = offers[i]
          /\ offers'[i].give = offers[i].give
          /\ offers'[i].receive = offers[i].receive
          /\ offers'[i].expires = offers[i].expires]_vars

\* The deals with the given status, as module Market sees them.
Deals(status) ==
    {[id |-> i, proposer |-> offers[i].proposer,
      recipient |-> offers[i].recipient, give |-> offers[i].give,
      receive |-> offers[i].receive] :
         i \in {j \in DOMAIN offers : offers[j].status = status}}

Trade == INSTANCE Market WITH
            Party <- Station, Product <- Specialty,
            Output <- ProductionLevels, Need <- Upkeep, day <- tick,
            owns <- [s \in Station |-> stations[s].inventory],
            table <- Deals("OPEN"), done <- Deals("ACCEPTED")

\* The engine implements the market of module Market: within a tick stock only
\* moves when an open offer is accepted, by both its bundles in one step and
\* between stations that have them; a refused accept moves nothing; no deal is
\* settled twice or after it was closed; a tick adds at most a scheduled output
\* of the station's specialty and takes at most its upkeep.
ImplementsMarket == Trade!Spec

\* The book is emptied again and again: the ticker brings every offer to its
\* deadline, to the failure of a party or to the end of the run.
OffersClose == []<>(OpenIds(offers) = {})
=============================================================================

------------------------------- MODULE World -------------------------------
(***************************************************************************)
(* A whole-world run (bazaar_sim/world.py): one player per planet on one   *)
(* economy, the stand-ins of bazaar_sim/opponents.py beside the trading    *)
(* policy as StrategyPlayer runs it.  In each tick every player that has   *)
(* not failed observes the world and decides, and its batch is executed,   *)
(* before the next one observes; then the tick advances.                   *)
(***************************************************************************)
EXTENDS Policy

CONSTANTS
    Setups,         \* the runs: players, starting stock and production
    QuitTick        \* when a quitter goes quiet

ASSUME SetupAssumption ==
    \A run \in Setups : /\ run.stock \in [Station -> Nat] /\ run.size \in Nat
                        /\ run.variation \in Int /\ run.offset \in Int

VARIABLES
    setup,          \* the run's conditions, fixed at the start
    memory,         \* the policy's memory, of every player
    rotation,       \* the round robin of the stand-ins
    turn,           \* whose turn it is, as a place in the roster
    decision,       \* the decision being carried out, or Undecided
    batch,          \* its commands that have not been executed yet
    rejections,     \* what the engine refused: <<station, code, whose fault>>
    failedAt        \* the tick in which a planet was seen to have failed

worldVars == <<vars, setup, memory, rotation, turn, decision, batch, rejections,
               failedAt>>

Planets == Len(Roster)
Place(s) == CHOOSE k \in 1..Planets : Roster[k] = s

-----------------------------------------------------------------------------
(* Production *)

PhaseTicks == 12

\* Run 2: phases of 2, 5 and 6 units, staggered by planet.
RunTwoProduction(t, s) ==
    <<2, 5, 6>>[((t \div PhaseTicks + Place(s) - 1 + setup.offset) % 3) + 1]

\* What the world consumes, shared among the producers of each resource; the
\* first ones take the remainder, and output swings in staggered phases.
BalancedProduction(t, s) ==
    LET producers == {p \in Station : Specialty[p] = Specialty[s]}
        need == SumFunction([p \in Station |-> Upkeep[p][Specialty[s]]])
        rank == Cardinality({p \in producers : Place(p) < Place(s)})
        base == need \div Cardinality(producers)
                  + Flag(rank < need % Cardinality(producers))
        phase == (t \div PhaseTicks + Place(s) - 1) % 3
    IN Max2(0, base + setup.variation * (phase - 1))

Production(t, s) ==
    IF setup.schedule = "BALANCED" THEN BalancedProduction(t, s)
    ELSE RunTwoProduction(t, s)

-----------------------------------------------------------------------------
(* The players *)

Observed(s) ==
    Observation(s, IF tick = 0 THEN 0 ELSE Production(tick - 1, s))

ImportsOf(s) == SelectSeq(ResourceOrder, LAMBDA r : r # Specialty[s])

TakenUnlessWorse(o, onlySpecialty, acc, i) ==
    LET cost == o.offers[i].receive IN
    IF /\ Len(acc.commands) < 2
       /\ Total(o.offers[i].give) >= Total(cost)
       /\ Dominates(acc.stock, cost)
       /\ onlySpecialty => Total(cost) = cost[o.specialty]
    THEN [commands |-> Append(acc.commands, [kind |-> "ACCEPT", id |-> i]),
          stock |-> Sub(acc.stock, cost)]
    ELSE acc

\* Up to two incoming offers that give at least what they cost.
AcceptIfNotWorse(o, onlySpecialty) ==
    FoldLeft(LAMBDA acc, i : TakenUnlessWorse(o, onlySpecialty, acc, i),
             [commands |-> <<>>, stock |-> o.inventory], o.incoming).commands

\* The stand-ins' offers: ttl ticks long, to the next planet of the rotation.
OfferTo(o, position, ttl, give, receive) ==
    LET others == Others(o.station)
    IN [kind |-> "OFFER",
        recipient |-> others[(position % Len(others)) + 1],
        terms |-> <<give, receive>>,
        expires |-> Min2(o.tick + ttl, DurationTicks)]

Haggled(o, size, price, ttl, acc, want) ==
    IF acc.spare < size \/ Len(acc.commands) >= CommandsPerTick THEN acc
    ELSE [commands |-> Append(acc.commands,
             OfferTo(o, acc.position, ttl, Single(o.specialty, size),
                     Single(want, price))),
          spare |-> acc.spare - size, position |-> acc.position + 1]

\* Offers of size units of the specialty for as many as price of each import
\* in wants, in turn, while the spare lasts and the quota allows.
Haggle(o, commands, wants, size, price, spare, ttl) ==
    FoldLeft(LAMBDA acc, want : Haggled(o, size, price, ttl, acc, want),
             [commands |-> commands, spare |-> spare,
              position |-> rotation[o.station]], wants)

\* An import in short supply, the number of times it is asked for.
LackingOf(o, r, target, times) ==
    IF o.inventory[r] >= target THEN <<>> ELSE [j \in 1..times |-> r]

Lacking(o, target, times) ==
    LackingOf(o, ImportsOf(o.station)[1], target, times)
        \o LackingOf(o, ImportsOf(o.station)[2], target, times)

Idle(s) == [commands |-> <<>>, position |-> rotation[s]]

GreedyActs(o) ==
    Haggle(o, AcceptIfNotWorse(o, FALSE), Lacking(o, 25, 2), 2, 4,
           o.inventory[o.specialty], 5)

SmallFairActs(o, size) ==
    LET accepts == AcceptIfNotWorse(o, TRUE)
        ad == [kind |-> "ADVERTISE",
               terms |-> <<{o.specialty}, Imports(o.specialty)>>,
               expires |-> Min2(o.tick + 8, DurationTicks)]
    IN Haggle(o, IF o.tick % 5 = 0 THEN Append(accepts, ad) ELSE accepts,
              Lacking(o, 15, 1), size, size, o.inventory[o.specialty] - 3, 3)

GifterActs(o) ==
    LET accepts == AcceptIfNotWorse(o, FALSE)
        position == rotation[o.station]
    IN IF o.inventory[o.specialty] <= 5
       THEN [commands |-> accepts, position |-> position]
       ELSE [commands |-> Append(accepts,
                OfferTo(o, position, 2, Single(o.specialty, 2), Zero)),
             position |-> position + 1]

\* What a stand-in does; a quitter is a small trader that goes quiet.
Acts(s, o) ==
    LET player == setup.players[s] IN
    IF player = "GREEDY" THEN GreedyActs(o)
    ELSE IF player = "SMALL_FAIR" \/ (player = "QUITTER" /\ o.tick < QuitTick)
    THEN SmallFairActs(o, IF player = "QUITTER" THEN 3 ELSE setup.size)
    ELSE IF player = "GIFTER" THEN GifterActs(o)
    ELSE Idle(s)

Ours == {s \in Station : setup.players[s] = "OURS"}

-----------------------------------------------------------------------------
(* The run *)

Undecided == [reserve |-> Zero, available |-> Zero, tick |-> NoTick]

WorldInit ==
    /\ setup \in Setups
    /\ tick = 0
    /\ stations = [s \in Station |->
                     [NewStation(s) EXCEPT
                        !.inventory = Bundled(LAMBDA r : setup.stock[s])]]
    /\ offers = [i \in {} |-> {}]
    /\ advertisements = [i \in {} |-> {}]
    /\ transactions = [i \in {} |-> {}]
    /\ nextId = 1
    /\ commandCounts = [s \in Station |-> 0]
    /\ memory = [s \in Station |-> NewMemory(s)]
    /\ rotation = [s \in Station |-> 0]
    /\ turn = 1
    /\ decision = Undecided
    /\ batch = <<>>
    /\ rejections = {}
    /\ failedAt = [s \in {} |-> 0]

Turn(s) == turn <= Planets /\ ~Finished /\ s = Roster[turn]

IsDeciding == decision.tick = NoTick

Carries(s, commands, kept) ==
    /\ batch' = commands
    /\ decision' = kept
    /\ UNCHANGED <<vars, setup, turn, rejections, failedAt>>

\* The policy's turn: its player keeps the memory, the engine gets the batch.
TraderDecides(s) ==
    /\ Turn(s) /\ IsDeciding /\ ~stations[s].failedOnce /\ s \in Ours
    /\ \E o \in {Observed(s)} : \E d \in {Decide(o, memory[s])} :
          /\ Carries(s, d.outcome.commands,
                 [reserve |-> d.reserve, tick |-> tick,
                  available |-> SaturatingSub(o.inventory, Promised(o))])
          /\ memory' = [memory EXCEPT ![s] = d.outcome.memory]
    /\ UNCHANGED rotation

StandInDecides(s) ==
    /\ Turn(s) /\ IsDeciding /\ ~stations[s].failedOnce /\ s \notin Ours
    /\ \E acts \in {Acts(s, Observed(s))} :
          /\ Carries(s, acts.commands, [Undecided EXCEPT !.tick = tick])
          /\ rotation' = [rotation EXCEPT ![s] = acts.position]
    /\ UNCHANGED memory

\* Whose doing it is that a command is refused.
Code(s, cmd) ==
    IF Precheck(s, cmd) # "OK" THEN Precheck(s, cmd)
    ELSE IF cmd.kind = "ACCEPT" THEN AcceptCode(s, cmd.id)
    ELSE IF cmd.kind = "WITHDRAW" THEN WithdrawCode(s, cmd.id)
    ELSE "OK"

Rejected(s, cmd) ==
    IF Code(s, cmd) = "OK" THEN {}
    ELSE {[station |-> s, code |-> Code(s, cmd), kind |-> cmd.kind,
           short |-> cmd.kind = "ACCEPT" /\ Precheck(s, cmd) = "OK"
                       /\ ~Dominates(stations[s].inventory,
                                     offers[cmd.id].receive)]}

\* apply: the next command of the batch.
Apply(s) ==
    /\ Turn(s) /\ batch # <<>>
    /\ LET cmd == Head(batch)
       IN /\ \/ Execute(s, cmd)
             \/ Precheck(s, cmd) # "OK" /\ UNCHANGED vars
          /\ rejections' = rejections \cup Rejected(s, cmd)
    /\ batch' = Tail(batch)
    /\ UNCHANGED <<setup, memory, rotation, turn, decision, failedAt>>

TurnIsOver(s) == ~IsDeciding /\ batch = <<>> /\ turn <= Planets /\ s = Roster[turn]

\* A player that is done, or failed, hands over to the next.
HandsOver(s) ==
    /\ Turn(s)
    /\ \/ TurnIsOver(s)
       \/ IsDeciding /\ stations[s].failedOnce
    /\ turn' = turn + 1
    /\ decision' = Undecided
    /\ UNCHANGED <<vars, setup, memory, rotation, batch, rejections, failedAt>>

NotedBefore(now) ==
    LET new == {s \in Station \ DOMAIN failedAt : stations'[s].failedOnce}
    IN [s \in DOMAIN failedAt \cup new |->
          IF s \in new THEN tick ELSE failedAt[s]]

\* The failures of the run so far, with the ticks in which they were seen.
Noted(now) ==
    LET new == {s \in Station \ DOMAIN failedAt : stations'[s].failedOnce}
    IN [s \in DOMAIN failedAt \cup new |->
          IF s \in new THEN now ELSE failedAt[s]]

AdvanceTick ==
    /\ turn > Planets
    /\ Advance([s \in Station |-> Production(tick, s)])
    /\ turn' = 1
    /\ failedAt' = Noted(tick')
    /\ UNCHANGED <<setup, memory, rotation, decision, batch, rejections>>

WorldNext ==
    \/ \E s \in Station : \/ TraderDecides(s) \/ StandInDecides(s)
                          \/ Apply(s) \/ HandsOver(s)
    \/ AdvanceTick

WorldSpec == WorldInit /\ [][WorldNext]_worldVars

-----------------------------------------------------------------------------
(* The outcome *)

AliveTicks(s) == IF s \in DOMAIN failedAt THEN failedAt[s] ELSE DurationTicks

Shortages == [s \in Station |-> stations[s].shortage]

\* score_economy: of an economy alone, without what the run kept beside it.
EconomyScore ==
    LET failed == {s \in Station : stations[s].failedOnce}
    IN [success |-> failed = {},
        survivors |-> Cardinality(Station \ failed),
        alive |-> SumFunction([s \in Station |->
                     IF s \in failed THEN stations[s].firstFailureTick
                     ELSE DurationTicks]),
        shortage |-> SumFunction(Shortages)]

\* The same of a run, from the failures it noted.
OutcomeScore ==
    [success |-> DOMAIN failedAt = {},
     survivors |-> Cardinality(Station \ DOMAIN failedAt),
     alive |-> SumFunction([s \in Station |-> AliveTicks(s)]),
     shortage |-> SumFunction(Shortages)]

-----------------------------------------------------------------------------
(* Properties *)

\* The stock that the open offers of a station have not promised away.
Free(s) == [r \in Resource |->
              stations[s].inventory[r]
                - SumFunctionOnSet([i \in DOMAIN offers |-> offers[i].give[r]],
                                   OpenOutgoing(s))]

\* Every open offer of the policy can be honoured at once: whatever it accepts,
\* offers and gives away in a batch, and however much of it goes through, it
\* never promises stock it does not have.
PromisesCovered == \A s \in Ours : Dominates(Free(s), Zero)

TurnEnds(s) == TurnIsOver(s) /\ s \in Ours /\ ~Finished

\* A whole batch, executed, leaves of each resource what the policy decided to
\* keep: the reserve, or what was left of it when the turn began.
TurnKeepsReserve ==
    \A s \in Station : TurnEnds(s) =>
        \A r \in Resource :
            Free(s)[r] >= Min2(decision.available[r], decision.reserve[r])

\* No offer is posted that the same policy would at once take back: the rest of
\* the batch does not put it under the production guard or into the reserve.
FreshOffersStand ==
    \A s \in Station : TurnEnds(s) =>
        \A i \in OpenOutgoing(s) : offers[i].created = tick =>
            ~IsDangerous(Observed(s), offers[i], Free(s), decision.reserve)

\* The policy posts no more offers than may be open: "obey_offer_limit" (the
\* tests of its gifts), and "assert not economy.rejections".
OffersFitTheLimit ==
    \A x \in rejections : x.station \in Ours => x.code # "LIMIT_REACHED"

\* What the engine refuses to the policy is only what the policy cannot see:
\* that a recipient has failed, that a proposer can no longer pay; or the room
\* for offers that its gifts have taken.
RefusedForOthers ==
    \A x \in rejections : x.station \in Ours =>
        \/ x.kind = "OFFER" /\ x.code \in {"STATION_FAILED", "LIMIT_REACHED"}
        \/ x.kind = "ACCEPT" /\ x.code = "INSUFFICIENT_RESOURCES" /\ ~x.short

\* In a world that makes what it consumes, copies of the policy trade well enough
\* that no planet ever goes short.
SelfPlaySucceeds ==
    Ours = Station /\ setup.schedule = "BALANCED" =>
        OutcomeScore.success /\ OutcomeScore.shortage = 0

\* A run scores the same whether its failures were noted tick by tick or are read
\* off the finished economy.
ScoresAgree == turn = 1 => OutcomeScore = EconomyScore
=============================================================================

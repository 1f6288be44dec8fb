--------------------------- MODULE Counterparties ---------------------------
(***************************************************************************)
(* What the trading policy remembers of the world and of the other         *)
(* stations: policy/memory.py and world/counterparties.py, folded from one *)
(* observation to the next, and what it makes of them: the ranking of      *)
(* policy/targeting.py and the gifts of policy/altruism.py.                *)
(*                                                                         *)
(* Left out of the memory: what nothing in the policy reads (the names of  *)
(* stations, supplied, ever_active, size_limit and the expiry streaks),    *)
(* and blocked_until_tick and mark_failed, which only the live executor    *)
(* sets.                                                                   *)
(***************************************************************************)
EXTENDS Reserves, SequencesExt

CONSTANT Roster     \* the stations, in the order of the directory

ASSUME RosterOrder ==
    /\ Roster \in Seq(Station) /\ Range(Roster) = Station
    /\ IsInjective(Roster)

-----------------------------------------------------------------------------
(* What a station observes *)

\* Identifiers in the order the engine gave them out.
Ordered(ids) ==
    [k \in 1..Cardinality(ids) |->
        CHOOSE i \in ids : Cardinality({j \in ids : j <= i}) = k]

\* observation_for, with the offers that are open for the station sorted out;
\* produced is the output of its last tick.
Observation(s, produced) ==
    LET st == stations[s]
        mine == {i \in DOMAIN offers : s \in Parties(offers[i])}
        open == {i \in mine : /\ offers[i].status = "OPEN"
                              /\ ~IsExpiredAt(offers[i], tick)}
    IN [station |-> s, tick |-> tick, specialty |-> Specialty[s],
        upkeep |-> Upkeep[s], inventory |-> st.inventory,
        health |-> st.health, failed |-> st.failedOnce,
        produced |-> produced, offers |-> Only(offers, mine),
        incoming |-> Ordered({i \in open : offers[i].recipient = s}),
        outgoing |-> Ordered({i \in open : offers[i].proposer = s}),
        ads |-> advertisements,
        transactions |-> Only(transactions,
                              {t \in DOMAIN transactions :
                                  s \in Parties(transactions[t])})]

OwnAds(o) == {i \in DOMAIN o.ads : o.ads[i].station = o.station}

Others(s) == SelectSeq(Roster, LAMBDA p : p # s)

-----------------------------------------------------------------------------
(* The memory *)

Samples == 8

NewStats ==
    [selling |-> {}, seeking |-> {}, streak |-> Zero, lastAd |-> NoTick,
     sent |-> 0, accepted |-> 0]

NewMemory(s) ==
    [stats |-> [p \in Station \ {s} |-> NewStats], counted |-> {},
     roundTrips |-> <<>>, measured |-> {}, productions |-> <<>>,
     lastTick |-> NoTick, gifts |-> [k \in {} |-> 0], stored |-> Zero]

\* A deque with maxlen.
Appended(samples, v) ==
    LET all == Append(samples, v)
    IN IF Len(all) > Samples THEN Tail(all) ELSE all

\* An advertisement that is seen; its needs persist only from tick to tick,
\* however many snapshots share one.
Advertised(stats, ad, now) ==
    [stats EXCEPT
       !.selling = ad.selling, !.seeking = ad.seeking, !.lastAd = now,
       !.streak = Bundled(LAMBDA r :
          IF r \notin ad.seeking THEN 0
          ELSE @[r] + (IF now > stats.lastAd THEN 1 ELSE 0))]

Silent(stats) == [stats EXCEPT !.selling = {}, !.seeking = {}, !.streak = Zero]

SeenAd(o, p, stats) ==
    LET active == {i \in DOMAIN o.ads : /\ o.ads[i].station = p
                                        /\ o.tick < o.ads[i].expires}
    IN IF active = {} THEN Silent(stats)
       ELSE Advertised(stats, o.ads[CHOOSE i \in active : TRUE], o.tick)

\* Our offers to p whose outcome p decided, each counted once.
Decided(o, m) ==
    {i \in DOMAIN o.offers \ m.counted :
        /\ o.offers[i].proposer = o.station
        /\ o.offers[i].status \in {"ACCEPTED", "EXPIRED"}}

SeenOffers(o, p, stats, decided) ==
    LET his == {i \in decided : o.offers[i].recipient = p}
    IN [stats EXCEPT
          !.sent = @ + Cardinality(his),
          !.accepted = @ + Cardinality({i \in his :
                              o.offers[i].status = "ACCEPTED"})]

\* Trades we proposed, in the order they settled.
NewTrades(o, m) ==
    Ordered({t \in DOMAIN o.transactions \ m.measured :
                /\ o.transactions[t].proposer = o.station
                /\ o.transactions[t].offer \in DOMAIN o.offers})

\* How long an offer took from posting to settlement.
RoundTrip(o, acc, t) ==
    Appended(acc, o.transactions[t].settled
                    - o.offers[o.transactions[t].offer].created)

Observe(m, o) ==
    LET trips == NewTrades(o, m)
        newTick == o.tick # m.lastTick /\ o.tick # 0
    IN [m EXCEPT
          !.stats = [p \in DOMAIN @ |->
                       SeenOffers(o, p, SeenAd(o, p, @[p]), Decided(o, m))],
          !.counted = @ \cup Decided(o, m),
          !.measured = @ \cup Range(trips),
          !.roundTrips =
             FoldLeft(LAMBDA acc, t : RoundTrip(o, acc, t), @, trips),
          !.productions = IF newTick THEN Appended(@, o.produced) ELSE @,
          !.lastTick = IF newTick THEN o.tick ELSE @]

RecordGift(m, p, r, now) == [m EXCEPT !.gifts = With(@, <<p, r>>, now)]

GiftIsDue(m, p, r, now, cooldown) ==
    <<p, r>> \in DOMAIN m.gifts => now - m.gifts[<<p, r>>] >= cooldown

-----------------------------------------------------------------------------
(* Ranking *)

\* Tuples of integers as Python compares them.
TupleLess(a, b) ==
    \E i \in DOMAIN a : a[i] < b[i] /\ \A j \in 1..(i - 1) : a[j] = b[j]

Better(S, key, best, x) ==
    IF x \in S /\ (best = <<>> \/ TupleLess(key[best[1]], key[x])) THEN <<x>> ELSE best

\* Of a sequence, the first of those in S with the greatest key: a sequence of at
\* most one.
FirstBest(seq, S, key) ==
    FoldLeft(LAMBDA best, x : Better(S, key, best, x), <<>>, seq)

\* Each station with each resource, in the order in which they are looked at.
Pairings ==
    [k \in 1..(3 * Len(Roster)) |->
        <<Roster[((k - 1) \div 3) + 1], ResourceOrder[((k - 1) % 3) + 1]>>]

Flag(b) == IF b THEN 1 ELSE 0

\* The score in parts of 2520, which every accept rate over at most ten offers
\* is a number of.
ScoreUnit == 2520

Score(stats, want, give, now) ==
    3 * ScoreUnit * Flag(want \in stats.selling)
      + 2 * ScoreUnit * Flag(give \in stats.seeking)
      + (IF stats.lastAd < 0 THEN 0
         ELSE (ScoreUnit \div 10) * Max2(0, 10 - (now - stats.lastAd)))
      + (IF stats.sent = 0 THEN ScoreUnit \div 2
         ELSE (ScoreUnit * stats.accepted) \div stats.sent)

\* The wanted resources, most urgent and then most wanted first.
Needs(urgency, wanted) ==
    LET needed == {r \in Resource : wanted[r] > 0}
        key == [r \in Resource |-> <<urgency[r], wanted[r]>>]
        first == FirstBest(ResourceOrder, needed, key)
        second == FirstBest(ResourceOrder, needed \ Range(first), key)
        third == FirstBest(ResourceOrder, needed \ (Range(first) \cup Range(second)), key)
    IN first \o second \o third

\* Who may be asked for a resource, and what paid with: <<station, give>>.
Options(o, want, surplus, pending) ==
    {x \in (Station \ {o.station}) \X Resource :
        surplus[x[2]] > 0 /\ x[2] # want /\ <<x[1], want>> \notin pending}

\* The best of them, as a sequence of at most one candidate.
BestOption(o, m, want, surplus, pending) ==
    LET options == Options(o, want, surplus, pending)
        rank == [x \in options |->
                   <<Flag(x[2] = o.specialty),
                     Score(m.stats[x[1]], want, x[2], o.tick), surplus[x[2]]>>]
        best == FirstBest(Pairings, options, rank)
    IN IF best = <<>> THEN <<>>
       ELSE <<[station |-> best[1][1], want |-> want, give |-> best[1][2]]>>

\* One for each need that can be asked for.
Candidates(o, m, urgency, wanted, surplus, pending) ==
    FoldLeft(LAMBDA found, want : found \o BestOption(o, m, want, surplus, pending),
             <<>>, Needs(urgency, wanted))

-----------------------------------------------------------------------------
(* Gifts *)

MaxExcessGift == 20
ExcessCooldown == 2
DistressTicks == 4
DistressCooldown == 5

\* The seeker of r with the longest streak, as a sequence of at most one.
GiftRecipient(o, m, r) ==
    LET seekers == {p \in Station \ {o.station} :
                      /\ r \in m.stats[p].seeking
                      /\ GiftIsDue(m, p, r, o.tick, ExcessCooldown)}
    IN FirstBest(Roster, seekers,
                 [p \in seekers |-> <<m.stats[p].streak[r], m.stats[p].lastAd>>])

DonationSize(surplus) == Max2(1, surplus \div 5)

\* scan_for_distress: at most one gift, only when nothing of ours is urgent.
Distress(o, m, surplus, urgency) ==
    LET needs == {x \in (Station \ {o.station}) \X Resource :
                    /\ m.stats[x[1]].streak[x[2]] >= DistressTicks
                    /\ surplus[x[2]] > 0
                    /\ GiftIsDue(m, x[1], x[2], o.tick, DistressCooldown)}
        best == FirstBest(Pairings, needs, [x \in needs |-> <<m.stats[x[1]].streak[x[2]]>>])
    IN IF best = <<>> \/ \E r \in Resource : urgency[r] # None THEN <<>>
       ELSE <<[station |-> best[1][1], resource |-> best[1][2],
               quantity |-> DonationSize(surplus[best[1][2]])]>>
=============================================================================

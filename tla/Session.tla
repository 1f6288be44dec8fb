------------------------------ MODULE Session ------------------------------
(***************************************************************************)
(* One planet's client against the server, over connections that break:    *)
(* the session (app.py), its lifecycle, the command throttle, the executor *)
(* with its in-flight ledger, the trading loop that decides in a thread    *)
(* and reconnects (autonomous.py), and the server's side of the seat       *)
(* (bazaar_sim/server.py).                                                 *)
(*                                                                         *)
(* A connection is a FIFO channel in each direction.  The event pump and   *)
(* the loop are two tasks: the loop sleeps on one waiter at a time (wait), *)
(* which the pump resolves or fails.  Stock is what the planet has of the  *)
(* one resource it sells: trades move it, and each tick adds the output    *)
(* and takes the upkeep.  The rules of the market, and the failure of a    *)
(* planet whose upkeep stays unmet, are module Economy's.                  *)
(***************************************************************************)
EXTENDS Naturals, Sequences, FiniteSetsExt

CONSTANTS
    CommandsPerTick,     \* new_commands_per_station_per_tick
    MaxRecords,          \* max_request_records_per_station
    DurationTicks, OfferTtl,
    InitialStock,
    ProductionLevels,    \* outputs the production schedule may set
    MinOutput,           \* the least of them
    Upkeep,              \* what a tick consumes
    Amounts,             \* quantities an offer or an accept may promise
    MaxSessions,         \* bound: connections the loop tries
    MaxRequests,         \* bound: commands sent in all
    MaxBreaks            \* bound: lost or fenced connections

ASSUME SessionAssumption ==
    /\ CommandsPerTick \in Nat \ {0}
    /\ MaxRecords \in Nat
    /\ DurationTicks \in Nat \ {0}
    /\ OfferTtl \in Nat \ {0}
    /\ InitialStock \in Nat
    /\ ProductionLevels \subseteq Nat
    /\ MinOutput \in ProductionLevels
    /\ \A n \in ProductionLevels : MinOutput <= n
    /\ Upkeep \in Nat
    /\ Amounts \subseteq Nat \ {0}
    /\ MaxSessions \in Nat \ {0}
    /\ MaxRequests \in Nat
    /\ MaxBreaks \in Nat

VARIABLES
    server,    \* the planet's world: phase, tick, quota used, stock, open
               \* offers, and the results stored for its requests
    seat,      \* the server's record of this connection
    link, up, down,                     \* the connection and its channels
    pc, wait, cs, latest, acked, pumping,    \* one BazaarSession
    next, view, budget, ending, answer, inflight,    \* one TradingLoop
    throttle, session, sent, breaks     \* carried across connections

serverVars == <<server, seat>>
sessionVars == <<cs, latest, acked, pumping>>
loopVars == <<next, view, budget, ending, answer, inflight>>
carriedVars == <<throttle, session, sent, breaks>>
vars == <<serverVars, link, up, down, pc, wait, sessionVars, loopVars,
          carriedVars>>

-----------------------------------------------------------------------------
(* Values *)

NoSnapshot == [seq |-> 0, tick |-> 0, phase |-> "NONE", stock |-> 0,
               book |-> {}, results |-> {}]
NoAnswer == [id |-> 0, code |-> "NONE", tick |-> 0]
NoWait == [on |-> "NOTHING", key |-> 0, status |-> "NONE",
           state |-> NoSnapshot, answer |-> NoAnswer]

\* What the seat's planet sees of the world s, as its q-th snapshot.
View(q, s) == [seq |-> q, tick |-> s.tick, phase |-> s.phase,
               stock |-> s.stock, book |-> s.book, results |-> s.results]

State(snapshot) == [kind |-> "STATE", state |-> snapshot]
Result(answered) == [kind |-> "RESULT", answer |-> answered]

GiveTotal(book) == SumFunction([o \in book |-> o.give])

RateLimited(results) == {r \in results : r.code = "RATE_LIMITED"}

Init ==
    /\ server = [phase |-> "READY", tick |-> 0, count |-> 0,
                 stock |-> InitialStock, book |-> {}, results |-> {}]
    /\ seat = [mine |-> FALSE, ready |-> FALSE, seq |-> 0]
    /\ link = "NONE" /\ up = <<>> /\ down = <<>>
    /\ pc = "START" /\ wait = NoWait
    /\ cs = "DISCONNECTED" /\ latest = NoSnapshot
    /\ acked = FALSE /\ pumping = FALSE
    /\ next = 0 /\ view = NoSnapshot /\ budget = 0 /\ ending = FALSE
    /\ answer = NoAnswer /\ inflight = {}
    /\ throttle = [tick |-> 0, sent |-> 0, blocked |-> 0]
    /\ session = 0 /\ sent = <<>> /\ breaks = 0

-----------------------------------------------------------------------------
(* The server *)

Reachable == seat.mine /\ link = "UP"

\* The world becomes s; the seat, if it still has a live connection, is sent
\* the messages first and then the new state.
Publish(first, s) ==
    /\ server' = s
    /\ IF Reachable
       THEN /\ seat' = [seat EXCEPT !.seq = @ + 1]
            /\ down' = down \o first \o <<State(View(seat.seq + 1, s))>>
       ELSE UNCHANGED <<seat, down>>

\* _handle: a connection takes the planet's seat and is sent its first state.
Seat ==
    /\ link = "UP" /\ ~seat.mine
    /\ seat' = [mine |-> TRUE, ready |-> FALSE, seq |-> 1]
    /\ down' = <<State(View(1, server))>>
    /\ UNCHANGED <<server, link, up, pc, wait, sessionVars, loopVars,
                   carriedVars>>

ServerReady ==
    /\ seat.mine /\ up # <<>> /\ Head(up).kind = "READY"
    /\ up' = Tail(up)
    /\ seat' = [seat EXCEPT !.ready = TRUE]
    /\ down' = IF link = "UP"
               THEN Append(down, [kind |-> "ACK", seq |-> Head(up).seq])
               ELSE down
    /\ UNCHANGED <<server, link, pc, wait, sessionVars, loopVars, carriedVars>>

CodeOfOneTooMany(cmd) ==
    IF server.phase # "RUNNING" THEN "RUN_NOT_RUNNING"
    ELSE IF server.count > CommandsPerTick THEN "RATE_LIMITED"
    ELSE IF cmd.amount > server.stock THEN "INSUFFICIENT_RESOURCES"
    ELSE "OK"

\* _command and the rules of the engine, on one command.
CodeOf(cmd) ==
    IF server.phase # "RUNNING" THEN "RUN_NOT_RUNNING"
    ELSE IF server.count >= CommandsPerTick THEN "RATE_LIMITED"
    ELSE IF cmd.kind = "OFFER" /\ cmd.expires <= server.tick
         THEN "INVALID_ARGUMENT"
    ELSE IF cmd.amount > server.stock THEN "INSUFFICIENT_RESOURCES"
    ELSE "OK"

\* An accept is counted even when it is refused for want of stock.
Counted(cmd) ==
    \/ CodeOf(cmd) = "OK"
    \/ CodeOf(cmd) = "INSUFFICIENT_RESOURCES" /\ cmd.kind = "ACCEPT"

After(cmd) ==
    LET ok == CodeOf(cmd) = "OK" IN
    [server EXCEPT
        !.count = IF Counted(cmd) THEN @ + 1 ELSE @,
        !.results = @ \cup {[id |-> cmd.id, code |-> CodeOf(cmd),
                             tick |-> server.tick]},
        !.book = IF ok /\ cmd.kind = "OFFER"
                 THEN @ \cup {[id |-> cmd.id, give |-> cmd.amount,
                               expires |-> cmd.expires]}
                 ELSE @,
        !.stock = IF ok /\ cmd.kind = "ACCEPT" THEN @ - cmd.amount ELSE @]

ServerCommand ==
    /\ seat.mine /\ up # <<>> /\ Head(up).kind \notin {"READY"}
    /\ up' = Tail(up)
    /\ \/ /\ seat.ready /\ Cardinality(server.results) < MaxRecords
          /\ Publish(<<Result([id |-> Head(up).id, code |-> CodeOf(Head(up)),
                               tick |-> server.tick])>>,
                     After(Head(up)))
       \/ /\ ~seat.ready \/ Cardinality(server.results) >= MaxRecords
          /\ down' = IF link = "UP"
                     THEN Append(down, [kind |-> "ERROR", id |-> Head(up).id])
                     ELSE down
          /\ UNCHANGED serverVars
    /\ UNCHANGED <<link, pc, wait, sessionVars, loopVars, carriedVars>>

StartRun ==
    /\ server.phase = "READY"
    /\ Publish(<<>>, [server EXCEPT !.phase = "RUNNING"])
    /\ UNCHANGED <<link, up, pc, wait, sessionVars, loopVars, carriedVars>>

\* settle_tick, on the stock: upkeep takes what is there, promised or not.
StockAfter(stock, production) ==
    IF stock + production > Upkeep THEN stock + production - Upkeep ELSE 0

AdvanceTick ==
    /\ server.phase = "RUNNING"
    /\ \E production \in ProductionLevels :
          LET now == server.tick + 1
              over == now >= DurationTicks
          IN Publish(<<>>,
                [server EXCEPT
                   !.tick = now, !.count = 0,
                   !.stock = StockAfter(@, production),
                   !.phase = IF over THEN "FINISHED" ELSE @,
                   !.book = IF over THEN {} ELSE {o \in @ : o.expires > now}])
    /\ UNCHANGED <<link, up, pc, wait, sessionVars, loopVars, carriedVars>>

\* Another planet accepts an open offer of this one.
CounterpartAccepts ==
    /\ server.phase = "RUNNING"
    /\ \E o \in server.book :
          /\ o.give <= server.stock
          /\ Publish(<<>>, [server EXCEPT !.book = @ \ {o},
                                          !.stock = @ - o.give])
    /\ UNCHANGED <<link, up, pc, wait, sessionVars, loopVars, carriedVars>>

-----------------------------------------------------------------------------
(* What can happen to a connection *)

Cut(channel) == {SubSeq(channel, 1, n) : n \in 0..Len(channel)}

\* The network drops it: each side gets a prefix of what was on its way.
Drop ==
    /\ link = "UP" /\ breaks < MaxBreaks
    /\ \E u \in Cut(up), d \in Cut(down) :
          /\ up' = u
          /\ down' = Append(d, [kind |-> "CLOSED"])
    /\ link' = "CUT"
    /\ breaks' = breaks + 1
    /\ UNCHANGED <<serverVars, pc, wait, sessionVars, loopVars,
                   throttle, session, sent>>

\* Another process connects with the same token and takes the seat.
Takeover ==
    /\ Reachable /\ breaks < MaxBreaks
    /\ seat' = [seat EXCEPT !.mine = FALSE]
    /\ up' = <<>>
    /\ down' = down \o <<[kind |-> "FENCED"], [kind |-> "CLOSED"]>>
    /\ link' = "CUT"
    /\ breaks' = breaks + 1
    /\ UNCHANGED <<server, pc, wait, sessionVars, loopVars,
                   throttle, session, sent>>

-----------------------------------------------------------------------------
(* Waiters *)

Pending == wait.status = "PENDING"

WaitFor(on, key) == [NoWait EXCEPT !.on = on, !.key = key, !.status = "PENDING"]

AwaitNewSnapshot(target) == WaitFor("SNAPSHOT", target)

\* wait_for_snapshot: a state that is already there is returned at once.
AwaitSnapshot(target) ==
    IF latest.seq >= target
    THEN [WaitFor("SNAPSHOT", target) EXCEPT !.status = "DONE",
                                             !.state = latest]
    ELSE WaitFor("SNAPSHOT", target)

Failed(w) == IF w.status = "PENDING" THEN [w EXCEPT !.status = "FAILED"] ELSE w

\* _on_result: resolve the waiter of this request, if there is one.
Answered(w, a) ==
    IF w.status = "PENDING" /\ w.on = "COMMAND" /\ w.key = a.id
    THEN [w EXCEPT !.status = "DONE", !.answer = a]
    ELSE w

\* _on_snapshot: resolve a waiter for this state, or for one of its results.
Informed(w, s) ==
    IF w.status = "PENDING" /\ w.on = "SNAPSHOT" /\ s.seq >= w.key
    THEN [w EXCEPT !.status = "DONE", !.state = s]
    ELSE IF \E a \in s.results : a.id = w.key
    THEN Answered(w, CHOOSE a \in s.results : a.id = w.key)
    ELSE w

-----------------------------------------------------------------------------
(* The throttle *)

\* RATE_LIMITED carries the next tick as retry_after_tick; results a snapshot
\* replays count like the messages that were lost.
BlockUntil(t, results) ==
    [t EXCEPT !.blocked = Max({@} \cup {r.tick + 1 : r \in RateLimited(results)})]

Remaining(t, now) ==
    IF now < t.blocked THEN 0
    ELSE IF t.tick # now THEN CommandsPerTick
    ELSE IF t.sent >= CommandsPerTick THEN 0 ELSE CommandsPerTick - t.sent

RecordSent(t, now) ==
    [t EXCEPT !.tick = now, !.sent = IF t.tick = now THEN @ + 1 ELSE 1]

\* can_send_trading_commands, and the checks send_command makes on the newest
\* state before anything leaves.
Eligible ==
    /\ cs = "ACTIVE" /\ latest.phase = "RUNNING"
    /\ latest.tick < DurationTicks

RemainingBudget == IF Eligible THEN Remaining(throttle, latest.tick) ELSE 0

-----------------------------------------------------------------------------
(* The pump: _consume_events, one event at a time *)

PumpState ==
    /\ pumping /\ down # <<>> /\ Head(down).kind = "STATE"
    /\ down' = Tail(down)
    /\ LET s == Head(down).state
           first == cs = "AWAITING_FIRST_STATE"
       IN IF s.seq > latest.seq
          THEN /\ latest' = s
               /\ cs' = IF first THEN "AWAITING_READINESS" ELSE cs
               /\ up' = IF first /\ link = "UP"
                        THEN Append(up, [kind |-> "READY", seq |-> s.seq])
                        ELSE up
               /\ throttle' = BlockUntil(throttle, s.results)
               /\ wait' = Informed(wait, s)
          ELSE UNCHANGED <<latest, cs, up, throttle, wait>>
    /\ UNCHANGED <<serverVars, link, pc, acked, pumping, loopVars, session,
                   sent, breaks>>

PumpAnswer ==
    /\ pumping /\ down # <<>>
    /\ \/ /\ Head(down).kind = "RESULT"
          /\ throttle' = BlockUntil(throttle, {Head(down).answer})
          /\ wait' = Answered(wait, Head(down).answer)
       \/ /\ Head(down).kind = "ERROR"
          /\ wait' = Answered(wait, [id |-> Head(down).id, code |-> "ERROR",
                                     tick |-> 0])
          /\ UNCHANGED throttle
    /\ down' = Tail(down)
    /\ UNCHANGED <<serverVars, link, up, pc, sessionVars, loopVars, session,
                   sent, breaks>>

PumpAck ==
    /\ pumping /\ down # <<>> /\ Head(down).kind = "ACK"
    /\ down' = Tail(down)
    /\ acked' = TRUE
    /\ cs' = IF cs = "AWAITING_READINESS" THEN "ACTIVE" ELSE cs
    /\ wait' = IF Pending /\ wait.on = "READINESS"
               THEN [wait EXCEPT !.status = "DONE"] ELSE wait
    /\ UNCHANGED <<serverVars, link, up, pc, latest, pumping, loopVars,
                   carriedVars>>

\* A control error that closes the session, then the end of the connection:
\* every waiter that is pending now fails.
PumpFenced ==
    /\ pumping /\ down # <<>> /\ Head(down).kind = "FENCED"
    /\ down' = Tail(down)
    /\ cs' = "DISCONNECTED"
    /\ wait' = Failed(wait)
    /\ UNCHANGED <<serverVars, link, up, pc, latest, acked, pumping, loopVars,
                   carriedVars>>

PumpClosed ==
    /\ pumping /\ down # <<>> /\ Head(down).kind = "CLOSED"
    /\ down' = Tail(down)
    /\ cs' = "DISCONNECTED"
    /\ pumping' = FALSE
    /\ wait' = Failed(wait)
    /\ UNCHANGED <<serverVars, link, up, pc, latest, acked, loopVars,
                   carriedVars>>

-----------------------------------------------------------------------------
(* The trading loop *)

ThrottleForgotten == [tick |-> 0, sent |-> 0, blocked |-> 0]

\* The throttle outlives the connection.
ThrottleKept == throttle

Connect ==
    /\ pc = "START" /\ session < MaxSessions
    /\ session' = session + 1
    /\ throttle' = ThrottleKept
    /\ link' = "UP" /\ up' = <<>> /\ down' = <<>>
    /\ seat' = [seat EXCEPT !.mine = FALSE, !.ready = FALSE]
    /\ cs' = "AWAITING_FIRST_STATE" /\ pumping' = TRUE
    /\ pc' = "FIRST" /\ wait' = AwaitSnapshot(1)
    /\ UNCHANGED <<server, latest, acked, loopVars, sent, breaks>>

\* stop(), and with it the session, its tracker and its in-flight ledger.
\* What was already written to a live socket still reaches the server.
Stop(outcome) ==
    /\ pc' = outcome
    /\ link' = "NONE" /\ down' = <<>>
    /\ wait' = NoWait /\ latest' = NoSnapshot
    /\ cs' = "DISCONNECTED" /\ acked' = FALSE /\ pumping' = FALSE
    /\ next' = 0 /\ view' = NoSnapshot /\ budget' = 0 /\ ending' = FALSE
    /\ answer' = NoAnswer /\ inflight' = {}
    /\ UNCHANGED <<serverVars, up, carriedVars>>

\* The waiter failed: back off, reconnect.
SessionEnds ==
    /\ wait.status = "FAILED"
    /\ Stop(IF session < MaxSessions THEN "START" ELSE "DONE")

\* 15 s without the state, the acknowledgement, the answer or its snapshot.
TimesOut ==
    /\ pc \in {"FIRST", "READINESS", "ANSWER", "CONFIRM"} /\ Pending
    /\ Stop(IF session < MaxSessions THEN "START" ELSE "DONE")

\* The idle wait times out too, but only to look whether the view is stale.
IdlePoll == pc = "IDLE" /\ Pending /\ UNCHANGED vars

FirstState ==
    /\ pc = "FIRST" /\ wait.status = "DONE"
    /\ pc' = "READINESS"
    /\ next' = wait.state.seq
    /\ wait' = IF acked THEN [WaitFor("READINESS", 0) EXCEPT !.status = "DONE"]
               ELSE WaitFor("READINESS", 0)
    /\ UNCHANGED <<serverVars, link, up, down, sessionVars, view, budget,
                   ending, answer, inflight, carriedVars>>

Readiness ==
    /\ pc = "READINESS" /\ wait.status = "DONE"
    /\ pc' = "IDLE"
    /\ wait' = AwaitSnapshot(next)
    /\ UNCHANGED <<serverVars, link, up, down, sessionVars, loopVars,
                   carriedVars>>

\* A state to look at: step() takes the newest one and the budget it allows,
\* and starts the strategy's thread.
StepBegins ==
    /\ pc = "IDLE" /\ wait.status = "DONE"
    /\ pc' = "DECIDE"
    /\ wait' = NoWait
    /\ next' = wait.state.seq + 1
    /\ ending' = (wait.state.phase = "FINISHED")
    /\ view' = latest
    /\ budget' = IF RemainingBudget > 0 THEN 1 ELSE 0
    /\ UNCHANGED <<serverVars, link, up, down, sessionVars, answer, inflight,
                   carriedVars>>

\* The end of step(): the run is over, or the loop waits for a newer state.
StepEnds(held) ==
    \/ ending /\ Stop("DONE")
    \/ /\ ~ending
       /\ pc' = "IDLE"
       /\ wait' = AwaitSnapshot(next)
       /\ inflight' = held
       /\ view' = NoSnapshot /\ budget' = 0 /\ answer' = NoAnswer
       /\ UNCHANGED <<serverVars, link, up, down, sessionVars, next, ending,
                      carriedVars>>

DecideNothing == pc = "DECIDE" /\ StepEnds(inflight)

-----------------------------------------------------------------------------
(* The executor: one command, up to the state that confirms it *)

Command ==
    [kind : {"OFFER", "ACCEPT"}, amount : Amounts]
      \cup [kind : {"ADVERTISE"}, amount : {0}]

\* available_to_commit: stock not promised to an open or in-flight offer.
AvailableInStock(s, held) == s.stock

Available(s, held) ==
    LET promised == GiveTotal({o \in s.book : s.tick < o.expires})
                       + GiveTotal(held)
    IN IF s.stock > promised THEN s.stock - promised ELSE 0

\* What the strategy may return for the state it was given.
Decided(cmd) ==
    /\ pc = "DECIDE" /\ budget > 0 /\ view.phase = "RUNNING"
    /\ Len(sent) < MaxRequests
    /\ cmd.amount <= Available(view, inflight)

Request == Len(sent) + 1

\* Only an offer is held: no other command is open at the server for a while.
Registered(cmd) ==
    IF cmd.kind = "OFFER"
    THEN inflight \cup {[id |-> Request, give |-> cmd.amount]}
    ELSE inflight

Released(held, id) == {h \in held : h.id # id}

HeldThoughBlocked(held, id) == held

ReleasedWhenBlocked(held, id) == Released(held, id)

\* Execution is refused at the last moment: the connection was lost, the run
\* ended or the slot went while the strategy was thinking.
SendBlocked(cmd) ==
    /\ Decided(cmd)
    /\ RemainingBudget = 0
    /\ StepEnds(ReleasedWhenBlocked(Registered(cmd), Request))

Send(cmd) ==
    /\ Decided(cmd)
    /\ RemainingBudget > 0
    /\ pc' = "ANSWER"
    /\ inflight' = Registered(cmd)
    /\ throttle' = RecordSent(throttle, latest.tick)
    /\ sent' = Append(sent, latest.tick)
    /\ wait' = WaitFor("COMMAND", Request)
    /\ up' = IF link = "UP"
             THEN Append(up, [kind |-> cmd.kind, id |-> Request,
                              amount |-> cmd.amount,
                              expires |-> Min({view.tick + OfferTtl,
                                               DurationTicks})])
             ELSE up
    /\ UNCHANGED <<serverVars, link, down, sessionVars, next, view, budget,
                   ending, answer, session, breaks>>

ReleasedByAnyAnswer(held, a) == Released(held, a.id)

\* A refusal releases the hold, a success waits for the state that shows it.
ReleasedByAnswer(held, a) ==
    IF a.code = "OK" THEN held ELSE Released(held, a.id)

ConfirmedByAnswer(a, s) == TRUE

\* wait_for_result_snapshot looks for the result itself in a state.
Confirmed(a, s) == a.code = "ERROR" \/ a \in s.results

AwaitConfirmation(a, s) ==
    \/ Confirmed(a, s) /\ StepEnds(Released(inflight, a.id))
    \/ /\ ~Confirmed(a, s)
       /\ pc' = "CONFIRM"
       /\ answer' = a
       /\ inflight' = ReleasedByAnswer(inflight, a)
       /\ wait' = AwaitSnapshot(s.seq + 1)
       /\ UNCHANGED <<serverVars, link, up, down, sessionVars, next, view,
                      budget, ending, carriedVars>>

Answer ==
    /\ pc = "ANSWER" /\ wait.status = "DONE"
    /\ AwaitConfirmation(wait.answer, latest)

Confirm ==
    /\ pc = "CONFIRM" /\ wait.status = "DONE"
    /\ AwaitConfirmation(answer, wait.state)

-----------------------------------------------------------------------------
(* Specification *)

ServerNext ==
    \/ Seat
    \/ ServerReady
    \/ ServerCommand
    \/ StartRun
    \/ AdvanceTick
    \/ CounterpartAccepts

PumpNext ==
    \/ PumpState
    \/ PumpAnswer
    \/ PumpAck
    \/ PumpFenced
    \/ PumpClosed

LoopNext ==
    \/ Connect
    \/ SessionEnds
    \/ FirstState
    \/ Readiness
    \/ StepBegins
    \/ DecideNothing
    \/ \E cmd \in Command : SendBlocked(cmd) \/ Send(cmd)
    \/ Answer
    \/ Confirm

Next ==
    \/ ServerNext
    \/ PumpNext
    \/ LoopNext
    \/ TimesOut
    \/ IdlePoll
    \/ Drop
    \/ Takeover

Spec == Init /\ [][Next]_vars

\* The server's handlers, the pump and the loop are tasks that run whenever
\* they can, and a wait with a deadline that stays pending reaches it; nothing
\* obliges a connection to break or the run to start.
FairSpec ==
    /\ Spec
    /\ WF_vars(Seat) /\ WF_vars(ServerReady) /\ WF_vars(ServerCommand)
    /\ WF_vars(PumpNext)
    /\ WF_vars(LoopNext)
    /\ WF_vars(TimesOut)

-----------------------------------------------------------------------------
(* Properties *)

Answers == [id : Nat, code : {"OK", "RUN_NOT_RUNNING", "RATE_LIMITED",
                              "INVALID_ARGUMENT", "INSUFFICIENT_RESOURCES",
                              "ERROR", "NONE"}, tick : Nat]

\* Types of everything the two sides keep; stock that would go below zero or a
\* quota counter beyond its limit falls outside.
TypeOK ==
    /\ server.phase \in {"READY", "RUNNING", "FINISHED"}
    /\ server.tick \in 0..DurationTicks
    /\ server.count \in 0..CommandsPerTick
    /\ server.stock \in Nat
    /\ \A o \in server.book : o.give \in Amounts /\ o.expires > server.tick
    /\ server.results \subseteq Answers
    /\ link \in {"UP", "CUT", "NONE"}
    /\ pc \in {"START", "FIRST", "READINESS", "IDLE", "DECIDE", "ANSWER",
               "CONFIRM", "DONE"}
    /\ cs \in {"DISCONNECTED", "AWAITING_FIRST_STATE", "AWAITING_READINESS",
               "ACTIVE"}
    /\ wait.status \in {"NONE", "PENDING", "DONE", "FAILED"}
    /\ wait.answer \in Answers /\ answer \in Answers
    /\ latest.seq \in Nat /\ latest.tick \in 0..server.tick
    /\ throttle.sent \in 0..CommandsPerTick
    /\ budget \in 0..1
    /\ Len(sent) <= MaxRequests

\* The most by which a tick can lower the stock.
Drain == IF MinOutput < Upkeep THEN Upkeep - MinOutput ELSE 0

\* At least the ticks since open offer o was decided: its deadline is OfferTtl
\* after the tick of the state it was decided on, or the run's end if earlier.
Age(o) == server.tick + OfferTtl - o.expires

\* The planet's open offers promise no more than it has in stock and what ticks
\* took since the newest of them was decided: whatever settled, expired, was
\* lost or was sent on an earlier connection, no offer is posted and no payment
\* made out of promised stock.  The server holds nothing back; only the
\* client's ledger prevents it.  Where output covers the upkeep (Drain is 0)
\* nothing is ever promised twice.
OnlyUpkeepUncovers ==
    \A o \in server.book :
        GiveTotal(server.book) <= server.stock + Drain * Age(o)

\* Between the moment an offer opens at the server and the moment a state shows
\* it to the client, its stock is held in flight.
HeldUntilSeen ==
    latest.seq > 0 =>
        \A o \in server.book :
            \/ o \in latest.book
            \/ \E h \in inflight : h.id = o.id /\ h.give = o.give

\* When the loop waits for the next state nothing is held: no path through the
\* executor (blocked, refused, confirmed) leaves a reservation behind.
NoLeakedReservation == pc = "IDLE" => inflight = {}

\* The client keeps within the quota of each tick, on one connection or over
\* several: a command is refused as over the limit only when one processed in
\* that tick was charged to an earlier one.
RateLimitMeansLate ==
    \A r \in RateLimited(server.results) :
        \E q \in server.results : q.tick = r.tick /\ sent[q.id] < r.tick

\* Every decision is taken on a state that already includes the results of all
\* commands the server has processed for this planet, lost answers and answers
\* to an earlier connection included.
DecidesOnItsOwnResults == pc = "DECIDE" => server.results = view.results

\* The client sees the run to its end: once the server has finished it the loop
\* stops, however the last states and the strategy's thread are interleaved.
RunIsFollowedToItsEnd == server.phase = "FINISHED" ~> pc = "DONE"

\* "A socket that really dies ends the wait with SessionClosedError instead"
\* (autonomous.py): a lost connection always gets the loop to leave it.
LostSessionIsLeft ==
    (session > 0 /\ cs = "DISCONNECTED") ~> (pc \in {"START", "DONE"})
=============================================================================

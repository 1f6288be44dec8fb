------------------------------- MODULE Server -------------------------------
(***************************************************************************)
(* The simulator's server (bazaar_sim/server.py) towards all its planets:  *)
(* the handshake and the claim of a planet, the handler of each connection *)
(* with every await a step of its own, fencing, readiness and the start of *)
(* the run, the stored results, the broadcasts and the ticker.             *)
(*                                                                         *)
(* Handlers, the scheduled start_run and the ticker are tasks of one event *)
(* loop: they interleave only where they wait, on a socket or on the       *)
(* clock.  What a command does to the world is module Economy's; here it   *)
(* has some outcome.                                                       *)
(***************************************************************************)
EXTENDS Naturals, FiniteSets, FiniteSetsExt

CONSTANTS
    Connection,      \* connections that are ever opened
    Nobody,          \* not a connection: an empty seat
    Planets,         \* number of stations, in the order of the roster
    RequestId, Body, \* request ids, and the bodies sent under them
    MaxRecords,      \* max_request_records_per_station
    StartWhen,       \* start_when
    DurationTicks,
    AuthModes,       \* open_auth (--open-auth: planets by order of
                     \* connection) may be any of these
    Overlap,         \* may a planet be taken again while it is being fenced
    LateFrames,      \* does the library deliver frames of a closed socket
    MayLeave,        \* may a served client close or lose its connection
    MayStall,        \* may a client stop reading and keep its socket
    MaxStarts        \* bound: start_run tasks scheduled and not yet run

ASSUME ServerAssumption ==
    /\ IsFiniteSet(Connection) /\ Nobody \notin Connection
    /\ Connection \cap {"STARTER", "TICKER"} = {}
    /\ Planets \in Nat \ {0}
    /\ IsFiniteSet(RequestId)
    /\ MaxRecords \in Nat
    /\ StartWhen \in Nat
    /\ DurationTicks \in Nat \ {0}
    /\ AuthModes \cup {Overlap, LateFrames, MayLeave, MayStall} \subseteq BOOLEAN
    /\ MaxStarts \in Nat \ {0}

Planet == 1..Planets

VARIABLES
    openAuth,        \* the mode the server was started in
    phase, tick,     \* of the run
    conn,            \* each connection, its handler and its seat's readiness
    answer,          \* the answer a handler is about to send
    seats, claimed,  \* who holds each planet; the planets taken (open_auth)
    results,         \* what is stored for each planet's requests
    todo,            \* the seats each task has still to send the state to
    starts, starter, \* start_run: scheduled, and running
    ticker, tickers, \* the tick task, and how many were created
    stalled,         \* clients with a socket they do not read
    fresh,           \* whose newest state shows the world as it is now
    ran, answers     \* history: executions of each request, answers given

run == <<openAuth, phase, tick, starter, ticker, tickers>>
vars == <<run, conn, answer, seats, claimed, results, todo, starts, stalled,
          fresh, ran, answers>>

-----------------------------------------------------------------------------
(* Values *)

Task == Connection \cup {"STARTER", "TICKER"}

NoResult == [body |-> Nobody, code |-> "NONE"]
NoAnswer == [id |-> Nobody, body |-> Nobody, code |-> "NONE", then |-> "NONE"]

\* Codes of commands that were looked at: executed, or too early or too late.
Outcome == {"OK", "REFUSED"}
StoredCode == Outcome \cup {"RUN_NOT_RUNNING"}
Code == StoredCode \cup {"REQUEST_ID_CONFLICT", "REQUEST_CAPACITY_EXCEEDED"}

Stage == {"NEW", "ACCEPTED", "FENCING", "CLOSING", "SERVING", "ACKING",
          "ANSWERING", "TELLING", "LEAVING", "ENDED"}

\* Stages in which _handle is past the seating of its connection.
Served == {"SERVING", "ACKING", "ANSWERING", "TELLING", "LEAVING"}

Init ==
    /\ openAuth \in AuthModes /\ phase = "READY" /\ tick = 0
    /\ conn = [c \in Connection |-> [stage |-> "NEW", planet |-> 0,
                 open |-> FALSE, ready |-> FALSE, previous |-> Nobody]]
    /\ answer = [c \in Connection |-> NoAnswer]
    /\ seats = [p \in Planet |-> Nobody] /\ claimed = {}
    /\ results = [p \in Planet |-> [r \in RequestId |-> NoResult]]
    /\ todo = [t \in Task |-> {}]
    /\ starts = 0 /\ starter = "NONE" /\ ticker = "NONE" /\ tickers = 0
    /\ stalled = {} /\ fresh = {}
    /\ ran = [p \in Planet |-> [r \in RequestId |-> 0]] /\ answers = {}

Goto(c, stage) == conn' = [conn EXCEPT ![c].stage = stage]

Seated == {seats[p] : p \in Planet} \ {Nobody}

SendableIfOpen(c) == c \notin stalled /\ conn[c].open

\* A send returns: the client reads, or the socket is closed, which _send
\* swallows.
Sendable(c) == c \notin stalled

-----------------------------------------------------------------------------
(* The handshake *)

Free == IF openAuth THEN Planet \ claimed ELSE Planet

\* The planet a request is given: the first free one, or the token's.
Assigned == IF openAuth THEN {p \in Free : p = Min(Free)} ELSE Free

ClaimedBySeatOnly(p) == claimed

ClaimedAt(p) == IF openAuth THEN claimed \cup {p} ELSE claimed

Authenticate(c) ==
    /\ conn[c].stage = "NEW"
    /\ \E p \in Assigned :
        /\ conn' = [conn EXCEPT ![c].stage = "ACCEPTED", ![c].planet = p,
                                ![c].open = TRUE]
        /\ claimed' = ClaimedAt(p)
    /\ UNCHANGED <<run, answer, seats, results, todo, starts, stalled, fresh,
                   ran, answers>>

\* The library refuses the upgrade after _authenticate, or loses the client
\* before the handler runs.
HandshakeFails(c) ==
    /\ conn[c].stage = "ACCEPTED"
    /\ conn' = [conn EXCEPT ![c].stage = "ENDED", ![c].open = FALSE]
    /\ stalled' = stalled \ {c}
    /\ UNCHANGED <<run, answer, seats, claimed, results, todo, starts, fresh,
                   ran, answers>>

-----------------------------------------------------------------------------
(* _handle: fencing, seating, leaving *)

\* Fencing d: the new connection waits for the old one's close.
Fencing(d) == conn[d].stage \in {"FENCING", "CLOSING"}

Fenced(c) == \E d \in Connection : Fencing(d) /\ conn[d].previous = c

\* The seat is c's, and its first state is to be sent.
TakeSeat(c) ==
    /\ conn' = [conn EXCEPT ![c].stage = "TELLING", ![c].previous = Nobody]
    /\ seats' = [seats EXCEPT ![conn[c].planet] = c]
    /\ todo' = [todo EXCEPT ![c] = {c}]

\* A socket that is closed already is fenced without waiting.
HandlerBegins(c) ==
    /\ conn[c].stage = "ACCEPTED"
    /\ Overlap \/ \A d \in Connection :
                     Fencing(d) => conn[d].planet # conn[c].planet
    /\ LET previous == seats[conn[c].planet] IN
       IF previous = Nobody \/ ~conn[previous].open
       THEN TakeSeat(c)
       ELSE /\ conn' = [conn EXCEPT ![c].stage = "FENCING",
                                    ![c].previous = previous]
            /\ UNCHANGED <<seats, todo>>
    /\ UNCHANGED <<run, answer, claimed, results, starts, stalled, fresh, ran,
                   answers>>

\* SESSION_FENCED is written to the old connection.
FenceSent(c) ==
    /\ conn[c].stage = "FENCING" /\ Sendable(conn[c].previous)
    /\ Goto(c, "CLOSING")
    /\ UNCHANGED <<run, answer, seats, claimed, results, todo, starts,
                   stalled, fresh, ran, answers>>

\* close() of the old connection completes, or times out.
FenceCloses(c) ==
    /\ conn[c].stage = "CLOSING" /\ conn[conn[c].previous].open
    /\ conn' = [conn EXCEPT ![conn[c].previous].open = FALSE]
    /\ stalled' = stalled \ {conn[c].previous}
    /\ UNCHANGED <<run, answer, seats, claimed, results, todo, starts, fresh,
                   ran, answers>>

FenceDone(c) ==
    /\ conn[c].stage = "CLOSING" /\ ~conn[conn[c].previous].open
    /\ TakeSeat(c)
    /\ UNCHANGED <<run, answer, claimed, results, starts, stalled, fresh, ran,
                   answers>>

\* The client leaves, or the network takes it away.
Disconnect(c) ==
    /\ MayLeave /\ conn[c].open /\ conn[c].stage # "ACCEPTED"
    /\ conn' = [conn EXCEPT ![c].open = FALSE]
    /\ stalled' = stalled \ {c}
    /\ UNCHANGED <<run, answer, seats, claimed, results, todo, starts, fresh,
                   ran, answers>>

\* The client keeps its socket and stops reading: no ping finds it out.
Stall(c) ==
    /\ MayStall /\ conn[c].open /\ c \notin stalled
    /\ stalled' = stalled \cup {c}
    /\ UNCHANGED <<run, conn, answer, seats, claimed, results, todo, starts,
                   fresh, ran, answers>>

GivesUpAlways(c) == TRUE

\* The finally clause gives the seat up only if it is still this one.
GivesUp(c) == seats[conn[c].planet] = c

HandlerEndsSeated(c) ==
    /\ conn[c].stage \in {"SERVING", "LEAVING"} /\ ~conn[c].open
    /\ conn' = [conn EXCEPT ![c].stage = "ENDED", ![c].ready = FALSE]
    /\ fresh' = fresh \ {c}
    /\ UNCHANGED <<run, answer, seats, claimed, results, todo, starts, stalled,
                   ran, answers>>

\* With the handler go its seat's readiness and what is known of its client.
HandlerEnds(c) ==
    /\ conn[c].stage \in {"SERVING", "LEAVING"} /\ ~conn[c].open
    /\ conn' = [conn EXCEPT ![c].stage = "ENDED", ![c].ready = FALSE]
    /\ seats' = IF GivesUp(c)
                THEN [seats EXCEPT ![conn[c].planet] = Nobody] ELSE seats
    /\ claimed' = IF GivesUp(c) THEN claimed \ {conn[c].planet} ELSE claimed
    /\ fresh' = fresh \ {c}
    /\ UNCHANGED <<run, answer, results, todo, starts, stalled, ran, answers>>

-----------------------------------------------------------------------------
(* _on_message: readiness, sync, and messages that end the session *)

Handles(c) ==
    /\ conn[c].stage = "SERVING"
    /\ conn[c].open \/ LateFrames

OnReady(c) ==
    /\ Handles(c)
    /\ \E ready \in BOOLEAN :
        conn' = [conn EXCEPT ![c].ready = ready, ![c].stage = "ACKING"]
    /\ UNCHANGED <<run, answer, seats, claimed, results, todo, starts,
                   stalled, fresh, ran, answers>>

ReadySeats == {c \in Seated : conn[c].ready}

StartIsDueAbove ==
    /\ phase = "READY" /\ StartWhen > 0
    /\ Cardinality(ReadySeats) > StartWhen

\* _maybe_start
StartIsDue ==
    /\ phase = "READY" /\ StartWhen > 0
    /\ Cardinality(ReadySeats) >= StartWhen

\* The acknowledgement is out; perhaps the run is to start.
AckSent(c) ==
    /\ conn[c].stage = "ACKING" /\ Sendable(c)
    /\ Goto(c, "SERVING")
    /\ starts' = IF StartIsDue THEN Min({starts + 1, MaxStarts}) ELSE starts
    /\ UNCHANGED <<run, answer, seats, claimed, results, todo, stalled, fresh,
                   ran, answers>>

OnSync(c) ==
    /\ Handles(c)
    /\ Goto(c, "TELLING")
    /\ todo' = [todo EXCEPT ![c] = {c}]
    /\ UNCHANGED <<run, answer, seats, claimed, results, starts, stalled,
                   fresh, ran, answers>>

\* A wrong protocol version or run id: an error, close, no more messages.
OnFatalMessage(c) ==
    /\ Handles(c)
    /\ Goto(c, "LEAVING")
    /\ UNCHANGED <<run, answer, seats, claimed, results, todo, starts,
                   stalled, fresh, ran, answers>>

LeavingCloses(c) ==
    /\ conn[c].stage = "LEAVING" /\ conn[c].open /\ Sendable(c)
    /\ conn' = [conn EXCEPT ![c].open = FALSE]
    /\ stalled' = stalled \ {c}
    /\ UNCHANGED <<run, answer, seats, claimed, results, todo, starts, fresh,
                   ran, answers>>

-----------------------------------------------------------------------------
(* _command: stored results, conflicts, capacity, execution *)

StoredIds(p) == {r \in RequestId : results[p][r] # NoResult}

Answering(c, r, b, code, then) ==
    /\ Goto(c, "ANSWERING")
    /\ answer' = [answer EXCEPT ![c] = [id |-> r, body |-> b, code |-> code,
                                        then |-> then]]

\* What is stored answers an exact retry; another body is a conflict.
Known(c, r, b) ==
    LET stored == results[conn[c].planet][r] IN
    /\ stored # NoResult
    /\ IF stored.body = b
       THEN Answering(c, r, b, stored.code, "SELF")
       ELSE Answering(c, r, b, "REQUEST_ID_CONFLICT", "NOBODY")
    /\ UNCHANGED <<results, ran, fresh>>

OverCapacityFirst(c, r, b) ==
    /\ Cardinality(StoredIds(conn[c].planet)) >= MaxRecords
    /\ Answering(c, r, b, "REQUEST_CAPACITY_EXCEEDED", "NOBODY")
    /\ UNCHANGED <<results, ran, fresh>>

OverCapacity(c, r, b) ==
    LET p == conn[c].planet IN
    /\ results[p][r] = NoResult /\ Cardinality(StoredIds(p)) >= MaxRecords
    /\ Answering(c, r, b, "REQUEST_CAPACITY_EXCEEDED", "NOBODY")
    /\ UNCHANGED <<results, ran, fresh>>

StoredIfOk(b, code) ==
    IF code = "OK" THEN [body |-> b, code |-> code] ELSE NoResult

Stored(b, code) == [body |-> b, code |-> code]

\* Executed while the run is on; stored in the same step, whatever the code.
Processed(c, r, b) ==
    LET p == conn[c].planet IN
    /\ results[p][r] = NoResult /\ Cardinality(StoredIds(p)) < MaxRecords
    /\ \E code \in IF phase = "RUNNING" THEN Outcome ELSE {"RUN_NOT_RUNNING"} :
        /\ results' = [results EXCEPT ![p][r] = Stored(b, code)]
        /\ Answering(c, r, b, code, "ALL")
    /\ ran' = [ran EXCEPT ![p][r] = @ + (IF phase = "RUNNING" THEN 1 ELSE 0)]
    /\ fresh' = {}

\* A command before readiness is refused and changes nothing.
OnCommand(c) ==
    /\ Handles(c) /\ conn[c].ready
    /\ \E r \in RequestId, b \in Body :
        Known(c, r, b) \/ OverCapacity(c, r, b) \/ Processed(c, r, b)
    /\ UNCHANGED <<run, seats, claimed, todo, starts, stalled, answers>>

\* The seats that the state goes to after an answer.
ToTell(c) ==
    IF answer[c].then = "ALL" THEN Seated
    ELSE IF answer[c].then = "SELF" THEN {c} ELSE {}

AnswerSent(c) ==
    /\ conn[c].stage = "ANSWERING" /\ Sendable(c)
    /\ answers' = IF conn[c].open
                  THEN answers \cup {[planet |-> conn[c].planet,
                         id |-> answer[c].id, body |-> answer[c].body,
                         code |-> answer[c].code]}
                  ELSE answers
    /\ answer' = [answer EXCEPT ![c] = NoAnswer]
    /\ todo' = [todo EXCEPT ![c] = ToTell(c)]
    /\ Goto(c, IF ToTell(c) = {} THEN "SERVING" ELSE "TELLING")
    /\ UNCHANGED <<run, seats, claimed, results, starts, stalled, fresh, ran>>

-----------------------------------------------------------------------------
(* _send_state and broadcast: one seat after the other, each sent the world *)
(* as it is when its turn comes.                                            *)

UntoldAfterError(t, c) == IF conn[c].open THEN todo[t] \ {c} ELSE {}

Untold(t, c) == todo[t] \ {c}

Tell(t, c) ==
    /\ c \in todo[t] /\ Sendable(c)
    /\ todo' = [todo EXCEPT ![t] = Untold(t, c)]
    /\ fresh' = IF conn[c].open THEN fresh \cup {c} ELSE fresh
    /\ conn' = IF t \in Connection /\ Untold(t, c) = {}
               THEN [conn EXCEPT ![t].stage = "SERVING"] ELSE conn
    /\ UNCHANGED <<run, answer, seats, claimed, results, starts, stalled, ran,
                   answers>>

-----------------------------------------------------------------------------
(* The run: start_run, _tick_forever and advance *)

MayStartAgain == phase # "FINISHED"

MayStart == phase = "READY"

StartRun ==
    /\ starts > 0
    /\ starts' = starts - 1
    /\ IF MayStart
       THEN /\ phase' = "RUNNING" /\ starter' = "TELLING"
            /\ todo' = [todo EXCEPT !["STARTER"] = Seated]
            /\ fresh' = {}
       ELSE UNCHANGED <<phase, starter, todo, fresh>>
    /\ UNCHANGED <<openAuth, tick, ticker, tickers, conn, answer, seats,
                   claimed, results, stalled, ran, answers>>

\* Everyone has been told of the start: the ticker is created.
StarterDone ==
    /\ starter = "TELLING" /\ todo["STARTER"] = {}
    /\ starter' = "NONE" /\ ticker' = "SLEEPING" /\ tickers' = tickers + 1
    /\ UNCHANGED <<openAuth, phase, tick, conn, answer, seats, claimed,
                   results, todo, starts, stalled, fresh, ran, answers>>

AdvancingForEver == phase # "READY"

Advancing == phase = "RUNNING"

\* advance, up to its broadcast; the rules are Economy's.
Tick ==
    /\ ticker = "SLEEPING" /\ Advancing
    /\ tick' = tick + 1
    /\ phase' = IF tick' >= DurationTicks THEN "FINISHED" ELSE phase
    /\ ticker' = "TELLING"
    /\ todo' = [todo EXCEPT !["TICKER"] = Seated]
    /\ fresh' = {}
    /\ UNCHANGED <<openAuth, starter, tickers, conn, answer, seats, claimed,
                   results, starts, stalled, ran, answers>>

\* Everyone has been told of the tick; after the last one, finished is set.
TickerDone ==
    /\ ticker = "TELLING" /\ todo["TICKER"] = {}
    /\ ticker' = IF Advancing THEN "SLEEPING" ELSE "DONE"
    /\ UNCHANGED <<openAuth, phase, tick, starter, tickers, conn, answer,
                   seats, claimed, results, todo, starts, stalled, fresh, ran,
                   answers>>

-----------------------------------------------------------------------------

\* What a handler does without being asked: its awaits return.
HandlerStep(c) ==
    \/ HandlerBegins(c) \/ FenceSent(c) \/ FenceCloses(c) \/ FenceDone(c)
    \/ AckSent(c) \/ AnswerSent(c) \/ LeavingCloses(c) \/ HandlerEnds(c)

Telling(t) == \E c \in Connection : Tell(t, c)

ClientStep(c) ==
    \/ Authenticate(c) \/ HandshakeFails(c) \/ Disconnect(c) \/ Stall(c)
    \/ OnReady(c) \/ OnSync(c) \/ OnFatalMessage(c) \/ OnCommand(c)

RunStep == StartRun \/ StarterDone \/ Tick \/ TickerDone

Next ==
    \/ \E c \in Connection : HandlerStep(c) \/ ClientStep(c)
    \/ \E t \in Task : Telling(t)
    \/ RunStep

Spec == Init /\ [][Next]_vars

\* The event loop runs what is due, and a send to a client that reads, or
\* whose socket is closed, returns.
FairSpec ==
    /\ Spec
    /\ \A c \in Connection : WF_vars(HandlerStep(c))
    /\ \A t \in Task : WF_vars(Telling(t))
    /\ WF_vars(StartRun) /\ WF_vars(StarterDone)
    /\ WF_vars(Tick) /\ WF_vars(TickerDone)

-----------------------------------------------------------------------------
(* Properties *)

\* Every variable keeps its type; the clock stops at the end of the run, and
\* no store grows over its capacity.
TypeOK ==
    /\ openAuth \in BOOLEAN
    /\ phase \in {"READY", "RUNNING", "FINISHED"}
    /\ tick \in 0..DurationTicks
    /\ conn \in [Connection -> [stage : Stage, planet : Planet \cup {0},
                   open : BOOLEAN, ready : BOOLEAN,
                   previous : Connection \cup {Nobody}]]
    /\ answer \in [Connection ->
                     [id : RequestId \cup {Nobody}, body : Body \cup {Nobody},
                      code : Code \cup {"NONE"},
                      then : {"NONE", "NOBODY", "SELF", "ALL"}]]
    /\ seats \in [Planet -> Connection \cup {Nobody}]
    /\ claimed \subseteq Planet
    /\ results \in [Planet -> [RequestId ->
                      [body : Body \cup {Nobody},
                       code : StoredCode \cup {"NONE"}]]]
    /\ \A p \in Planet : Cardinality(StoredIds(p)) <= MaxRecords
    /\ todo \in [Task -> SUBSET Connection]
    /\ starts \in 0..MaxStarts /\ starter \in {"NONE", "TELLING"}
    /\ ticker \in {"NONE", "SLEEPING", "TELLING", "DONE"}
    /\ tickers \in Nat
    /\ stalled \subseteq Connection /\ fresh \subseteq Connection
    /\ ran \in [Planet -> [RequestId -> Nat]]
    /\ answers \subseteq [planet : Planet, id : RequestId, body : Body,
                          code : Code]

\* A seat belongs to a handler that is still serving it: the handler of a
\* fenced connection never leaves a dead seat behind, nor does a new one find
\* its planet held by nobody's connection (_handle, lines 190-215).
SeatsAreServed ==
    \A p \in Planet : seats[p] # Nobody =>
        /\ conn[seats[p]].planet = p
        /\ conn[seats[p]].stage \in Served

\* A live connection that is being served is its planet's seat, until it is
\* fenced: nobody is answered without receiving broadcasts, and no planet is
\* served on two connections (_handle's fence and its finally clause).
ServedIsSeated ==
    \A c \in Connection :
        conn[c].stage \in Served /\ conn[c].open /\ ~Fenced(c) =>
            seats[conn[c].planet] = c

\* A request id is executed at most once, whoever retries it on whichever
\* connection, and exactly when its stored result says so (_command).
ExecutedOnce ==
    \A p \in Planet, r \in RequestId :
        ran[p][r] = (IF results[p][r].code \in Outcome THEN 1 ELSE 0)

\* The same request is given the same answer each time it is asked, on the
\* same connection, on the next, and when the store is full (_command).
AnswersAgree ==
    \A a, b \in answers :
        a.planet = b.planet /\ a.id = b.id /\ a.body = b.body =>
            a.code = b.code

\* A live seat whose newest state is out of date is about to be sent another:
\* it is on the list of a task that tells, or an answer that is followed by a
\* broadcast is on its way.  The end of another connection interrupts no
\* broadcast (_send, broadcast).
EveryoneIsTold ==
    \A c \in Seated : conn[c].open =>
        \/ c \in fresh
        \/ \E t \in Task : c \in todo[t]
        \/ \E d \in Connection :
               conn[d].stage = "ANSWERING" /\ answer[d].then = "ALL"

\* However many readiness messages schedule start_run before it runs, there
\* is one ticker (_maybe_start, start_run).
OneTicker == tickers <= 1

Holds(c) == conn[c].stage \notin {"NEW", "ENDED"}

\* With open_auth two connections never hold the same planet: a planet is
\* claimed in the handshake, before its handler runs (_authenticate, _handle).
OneHolderPerPlanet ==
    openAuth => \A c, d \in Connection :
        c # d /\ Holds(c) /\ Holds(d) => conn[c].planet # conn[d].planet

\* If enough seats are ready and stay so, the run starts (_maybe_start).
StartsWhenReady ==
    (Cardinality(ReadySeats) >= StartWhen /\ StartWhen > 0)
        ~> (phase # "READY" \/ Cardinality(ReadySeats) < StartWhen)

\* A run that has started is ticked to its end and everyone is told, whoever
\* leaves (_tick_forever, advance).
RunEnds == (phase = "RUNNING") ~> (ticker = "DONE")
=============================================================================

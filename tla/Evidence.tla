------------------------------ MODULE Evidence ------------------------------
(***************************************************************************)
(* A client as a process: run_trading with its reconnects, the status      *)
(* ladder, and the evidence log it writes line by line, next to a server   *)
(* reduced to its life cycle.  What the client decides is left open; how   *)
(* it decides is in Policy, how a session works inside is in Session.      *)
(*                                                                         *)
(* A setup fixes what may happen in a behaviour, and how often:            *)
(*   roster    the clients, in the order of their launch                   *)
(*   main      bazaar_sim.orchestrate starts the processes, or a person    *)
(*   live      there is a dashboard                                        *)
(*   ticks     the length of the run                                       *)
(*   timed     clocks are kept                                             *)
(*   viewers   who may look at the dashboard                               *)
(*   shared    lines appear one by one, and a process may be killed        *)
(*   long      decision lines take two writes                              *)
(*   chunk     how many units of a file the dashboard reads at once        *)
(*   polls     where the clients may be when the dashboard starts a poll   *)
(*   stops     where the orchestrator may be when Ctrl+C comes             *)
(*   answers   what may come of a command                                  *)
(*   causes    what may end an attempt to connect, a refusal apart         *)
(*   faults    what may go wrong with the other processes                  *)
(*   limits    how often it may happen: try (attempts to connect), cut,    *)
(*             kill, start (by hand), quiet (a wait without news), slow    *)
(*             (a viewer), interrupt (Ctrl+C)                              *)
(***************************************************************************)
EXTENDS Analysis

CONSTANTS Clients, Setups

VARIABLES
    setup,
    left,   \* what is left of setup.limits
    srv,    \* the server process
    cl,     \* the client processes
    file    \* the evidence file of each client, with its inode

clientVars == <<setup, left, srv, cl, file>>

ClientStatus == {"starting", "connecting", "connected", "authenticated", "synchronized",
                 "waiting", "participating", "stale", "finished", "disconnected"}
Terminal == {"FINISHED", "ABORTED"}

ClientPcs == {"off", "rotate", "create", "begin", "connect", "opening", "first", "ready", "backoff",
              "watch", "think", "command", "answer", "confirm", "ending", "reports", "done"}

NoView == [seq |-> 0, phase |-> "NONE", tick |-> 0, trades |-> 0]

\* Half of stale_after_s is the unit of time; this many quiet waits are stale.
StaleAfter == 2
BackoffCap == 2

Use(what) == left[what] > 0 /\ left' = [left EXCEPT ![what] = @ - 1]

-----------------------------------------------------------------------------
(* Diagnosis of a failure                                                  *)

FailureKind(cause) ==
    CASE cause \in {"bad_url", "http_404"} -> "configuration"
      [] cause \in {"http_401", "INVALID_AUTHENTICATION"} -> "authentication"
      [] cause \in {"http_400", "wire_format", "UNSUPPORTED_PROTOCOL"} -> "protocol"
      [] cause \in {"refused", "http_500", "no_answer", "closed"} -> "network"
      [] OTHER -> "application"
Retryable == {"network"}
ExitCode(kind) ==
    CASE kind = "application" -> "1" [] kind = "configuration" -> "2"
      [] kind = "authentication" -> "3" [] kind = "protocol" -> "4" [] kind = "network" -> "5"

-----------------------------------------------------------------------------
(* The log: what the code has written in this step and is not yet on disk  *)

Log(p, r) == [p EXCEPT !.out = Append(@, r)]
ConnectionEvent(p, event, category) ==
    Log(p, [kind |-> "connection", at |-> p.now, event |-> event, category |-> category])

\* StatusTracker.set, on_state, check_stale and durations.
StatusSet(p, s) ==
    IF s = p.status THEN p
    ELSE Log([p EXCEPT !.timeIn[p.status] = @ + p.now - p.since,
                       !.status = s, !.since = p.now],
             [kind |-> "status", at |-> p.now, status |-> s])
StatusOf(phase) == CASE phase = "RUNNING" -> "participating"
                     [] phase \in Terminal -> "finished" [] OTHER -> "waiting"
OnState(p, view) ==
    [StatusSet(p, StatusOf(view.phase)) EXCEPT !.heard = p.now, !.phase = view.phase]
CheckStale(p) ==
    IF p.phase = "RUNNING" /\ p.now - p.heard >= StaleAfter THEN StatusSet(p, "stale") ELSE p
Durations(p) == [p.timeIn EXCEPT ![p.status] = @ + p.now - p.since]

Elapse(p, d) == IF setup.timed THEN [p EXCEPT !.now = @ + d] ELSE p
BackoffDelay(attempt) == IF attempt <= 1 THEN 1 ELSE BackoffCap

RunStart(p) == Log(p, [kind |-> "run_start", at |-> p.now])
RunEnd(p) ==
    Log(p, [kind |-> "run_end", at |-> p.now, seconds |-> Durations(p), final |-> p.status,
            decisions |-> p.stats.decisions, sent |-> p.stats.sent, ok |-> p.stats.ok,
            rejected |-> p.stats.rejected])

-----------------------------------------------------------------------------
(* The file                                                                *)

Exists(f) == f.inode > 0

IsLong(r) == setup.long /\ r.kind = "decision"

\* _write_line: append the next line, a long one in two writes.
WriteLine(c) ==
    /\ cl[c].out # <<>>
    /\ \E r \in {Head(cl[c].out)} :
       \E begun \in {file[c].units # <<>> /\ Last(file[c].units).part = "head"} :
       \E part \in {CASE ~IsLong(r) -> "whole" [] IsLong(r) /\ begun -> "tail" [] OTHER -> "head"} :
           /\ file' = [file EXCEPT ![c].units = Append(@, [rec |-> r, part |-> part])]
           /\ cl' = IF part = "head" THEN cl ELSE [cl EXCEPT ![c].out = Tail(@)]
    /\ UNCHANGED <<setup, left, srv>>

\* The next state of a process.  Where nobody reads the file meanwhile and
\* nobody is killed, its lines are there at once.
Puts(c, p) ==
    IF setup.shared
    THEN cl' = [cl EXCEPT ![c] = p] /\ UNCHANGED file
    ELSE /\ cl' = [cl EXCEPT ![c] = [p EXCEPT !.out = <<>>]]
         /\ file' = [file EXCEPT ![c].units =
                        @ \o [i \in DOMAIN p.out |-> [rec |-> p.out[i], part |-> "whole"]]]

-----------------------------------------------------------------------------
(* The server process                                                      *)

ServerUp == srv.pc \in {"lobby", "running", "stalled", "reporting", "closing"}
ServerAlive == ServerUp \/ srv.pc = "starting"
Listening == srv.pc \in {"lobby", "running", "stalled", "closing"}

View(c) == [seq |-> srv.seq, phase |-> srv.phase, tick |-> srv.tick, trades |-> srv.trades[c]]

\* The socket is open before the credentials are written.
ServerStarts ==
    /\ srv.pc = "starting" /\ ~srv.signal
    /\ \/ srv' = [srv EXCEPT !.pc = "lobby"]
       \/ "NO_START" \in setup.faults /\ srv' = [srv EXCEPT !.pc = "gone", !.exit = "no_start"]
    /\ UNCHANGED <<setup, left, cl, file>>

StartRun ==
    /\ srv.pc = "lobby" /\ ~srv.signal /\ srv.ready = Range(setup.roster)
    /\ srv' = [srv EXCEPT !.pc = "running", !.phase = "RUNNING", !.seq = @ + 1]
    /\ UNCHANGED <<setup, left, cl, file>>

\* The last tick leaves the report half written first.
ServerTick ==
    /\ srv.pc = "running" /\ ~srv.signal
    /\ IF srv.tick + 1 = setup.ticks
       THEN srv' = [srv EXCEPT !.pc = "reporting", !.tick = @ + 1, !.phase = "FINISHED",
                               !.report = IF setup.main THEN "TORN" ELSE @]
       ELSE srv' = [srv EXCEPT !.tick = @ + 1, !.seq = @ + 1]
    /\ UNCHANGED <<setup, left, cl, file>>

\* The report is complete before anybody is told that the run is over.
ReportWritten ==
    /\ srv.pc = "reporting"
    /\ srv' = [srv EXCEPT !.pc = "closing", !.seq = @ + 1,
                          !.report = IF setup.main THEN "FINISHED" ELSE @]
    /\ UNCHANGED <<setup, left, cl, file>>

ServerExits ==
    /\ srv.pc = "closing"
    /\ srv' = [srv EXCEPT !.pc = "gone", !.exit = "0"]
    /\ UNCHANGED <<setup, left, cl, file>>

ServerFails ==
    /\ ~srv.signal
    /\ \/ "CRASH" \in setup.faults /\ ServerUp
          /\ srv' = [srv EXCEPT !.pc = "gone", !.exit = "failed"]
       \/ "STALL" \in setup.faults /\ srv.pc = "running" /\ srv' = [srv EXCEPT !.pc = "stalled"]
    /\ UNCHANGED <<setup, left, cl, file>>

ServerInterrupted ==
    /\ srv.signal /\ ServerAlive /\ srv.pc # "reporting"
    /\ srv' = [srv EXCEPT !.pc = "gone", !.exit = "130"]
    /\ UNCHANGED <<setup, left, cl, file>>

ServerNext == ServerStarts \/ StartRun \/ ServerTick \/ ReportWritten \/ ServerExits
                  \/ ServerInterrupted

-----------------------------------------------------------------------------
(* Starting a client                                                       *)

NewStats == [decisions |-> 0, sent |-> 0, ok |-> 0, rejected |-> 0]

Process(pc) ==
    [pc |-> pc, out |-> <<>>, signal |-> FALSE, exit |-> "none", attempt |-> 0, made |-> FALSE,
     status |-> "starting", since |-> 0, now |-> 0, timeIn |-> [s \in ClientStatus |-> 0],
     heard |-> 0, phase |-> "NONE", logged |-> Never, count |-> 0, stats |-> NewStats,
     seen |-> 0, quota |-> Never, link |-> "none", view |-> NoView, fresh |-> FALSE,
     snap |-> NoView, may |-> FALSE,
     cmd |-> [id |-> 0, answer |-> "NONE", seq |-> 0, txn |-> 0], final |-> "NONE", summary |-> "NONE"]

Alive(p) == p.pc \notin {"off", "done"}
\* The code only notices a signal where it waits.
Turn(c, pc) == cl[c].pc = pc /\ cl[c].out = <<>> /\ ~cl[c].signal
Becomes(c, p) == Puts(c, p) /\ UNCHANGED <<setup, left, srv>>

\* rotate: a log with something in it is moved aside.
Rotate(c) ==
    /\ Turn(c, "rotate")
    /\ file' = IF file[c].units = <<>> THEN file
               ELSE [file EXCEPT ![c].inode = 0, ![c].units = <<>>]
    /\ cl' = [cl EXCEPT ![c].pc = "create"]
    /\ UNCHANGED <<setup, left, srv>>

\* write_text(""): a new file, unless an empty one is there.
Rewritten(f) == IF Exists(f) THEN f ELSE [f EXCEPT !.inode = f.next, !.next = f.next + 1]

Starts(p) == [Log(RunStart(p), [kind |-> "status", at |-> p.now, status |-> "starting"])
              EXCEPT !.pc = "connect"]

CreateLog(c) ==
    /\ Turn(c, "create")
    /\ file' = [file EXCEPT ![c] = Rewritten(@)]
    /\ cl' = [cl EXCEPT ![c].pc = "begin"]
    /\ UNCHANGED <<setup, left, srv>>

Begins(c) ==
    /\ Turn(c, "begin")
    /\ Becomes(c, Starts(cl[c]))

-----------------------------------------------------------------------------
(* run_trading: one connection after another                               *)

Connecting(c) ==
    /\ Turn(c, "connect")
    /\ Use("try")
    /\ Puts(c, [ConnectionEvent(StatusSet([cl[c] EXCEPT !.attempt = @ + 1], "connecting"),
                                "connecting", "none")
                EXCEPT !.pc = "opening", !.made = FALSE])
    /\ UNCHANGED <<setup, srv>>

Retry(p) ==
    [ConnectionEvent(StatusSet(p, "disconnected"), "reconnecting", "none")
     EXCEPT !.pc = "backoff", !.link = "none", !.view = NoView, !.fresh = FALSE]

\* except Exception: retry, or end with a diagnosis.
Diagnosed(p, kind) ==
    IF kind \in Retryable
    THEN Retry(ConnectionEvent(StatusSet(p, "disconnected"), "disconnected", kind))
    ELSE [ConnectionEvent(StatusSet(p, "disconnected"), "failed", kind)
          EXCEPT !.pc = "ending", !.exit = ExitCode(kind)]
Raises(p, cause) == Diagnosed(p, FailureKind(cause))

\* except SessionAbortedError: no reconnect, and no failure either.
Aborts(p) == [ConnectionEvent(StatusSet(p, "disconnected"), "closed", "protocol")
              EXCEPT !.pc = "ending"]

Opened(c) ==
    /\ Turn(c, "opening") /\ Listening
    /\ Becomes(c, [ConnectionEvent(StatusSet(Elapse(cl[c], 1), "connected"), "connected", "none")
                   EXCEPT !.pc = "first", !.link = "up"])

OpenFails(c) ==
    /\ Turn(c, "opening")
    /\ \E cause \in setup.causes \cup (IF Listening THEN {} ELSE {"refused"}) :
           Becomes(c, Raises(Elapse(cl[c], 1), cause))

\* The current state arrives; older ones that were not looked at are skipped.
Deliver(c) ==
    /\ cl[c].link = "up" /\ cl[c].pc \notin {"off", "done"}
    /\ Listening \/ srv.exit = "0"
    /\ cl[c].view.seq < srv.seq
    /\ Becomes(c, [cl[c] EXCEPT !.view = View(c), !.fresh = TRUE])

FirstState(c) ==
    /\ Turn(c, "first") /\ cl[c].fresh
    /\ Becomes(c, [StatusSet(cl[c], "authenticated") EXCEPT !.pc = "ready"])

Readiness(c) ==
    /\ Turn(c, "ready") /\ ServerUp /\ cl[c].link = "up"
    /\ \/ /\ Puts(c, [StatusSet(cl[c], "synchronized") EXCEPT !.pc = "watch"])
          /\ srv' = [srv EXCEPT !.ready = @ \cup {c}]
       \/ /\ "ABORTED" \in setup.causes
          /\ Puts(c, Aborts(cl[c]))
          /\ srv' = srv
    /\ UNCHANGED <<setup, left>>

Backoff(c) ==
    /\ Turn(c, "backoff")
    /\ Becomes(c, [Elapse(cl[c], BackoffDelay(cl[c].attempt)) EXCEPT !.pc = "connect"])

-----------------------------------------------------------------------------
(* run: watch, think, command                                              *)

\* The newest state, which may be one that came while the client was busy.
TakeState(c) ==
    /\ Turn(c, "watch") /\ cl[c].fresh
    /\ Becomes(c, [OnState(cl[c], cl[c].view)
                   EXCEPT !.pc = "think", !.snap = cl[c].view, !.fresh = FALSE,
                          !.final = cl[c].view.phase,
                          !.may = /\ setup.answers # {} /\ cl[c].view.phase = "RUNNING" /\ cl[c].link = "up"
                                  /\ cl[c].quota < cl[c].view.tick])

\* A time-out of wait_for_snapshot leaves the connection alone.
Quiet(c) ==
    /\ Turn(c, "watch") /\ ~cl[c].fresh
    /\ Use("quiet")
    /\ Puts(c, CheckStale(Elapse(cl[c], 1)))
    /\ UNCHANGED <<setup, srv>>

\* SessionClosedError in wait_for_snapshot: no event, and a working connection
\* makes the next delay short again.
BreaksUnmarked(p) == [ConnectionEvent(p, "reconnecting", "none") EXCEPT !.pc = "backoff", !.link = "none"]
Breaks(p) == Retry(IF p.made THEN [p EXCEPT !.attempt = 0] ELSE p)

IsLogged(p, act) == act \/ p.snap.tick # p.logged

LogDecision(p, act) ==
    IF ~IsLogged(p, act) THEN p
    ELSE Log([p EXCEPT !.logged = p.snap.tick, !.count = @ + 1, !.seen = p.snap.trades],
             [kind |-> "decision", at |-> p.now, id |-> p.count + 1, tick |-> p.snap.tick,
              act |-> act, new |-> (p.seen + 1)..p.snap.trades,
              skipped |-> IF p.logged # Never /\ p.snap.tick > p.logged + 1
                          THEN p.snap.tick - p.logged - 1 ELSE 0])

\* What the loop does after its step.
Continues(p) ==
    IF p.snap.phase \in Terminal
    THEN [ConnectionEvent(p, "closed", "none") EXCEPT !.pc = "ending", !.attempt = 0]
    ELSE [p EXCEPT !.pc = "watch"]

Decide(c, act) ==
    /\ Turn(c, "think")
    /\ act => cl[c].may
    /\ \E p \in {[LogDecision(cl[c], act) EXCEPT !.made = TRUE, !.stats.decisions = @ + 1]} :
           Becomes(c, IF act THEN [p EXCEPT !.pc = "command",
                                            !.cmd = [id |-> IF IsLogged(cl[c], act) THEN p.count ELSE 0,
                                                     answer |-> "NO_ANSWER",
                                                     seq |-> 0, txn |-> 0]]
                      ELSE Continues(p))

\* The executor's record, written when the command is confirmed or given up.
CommandRecord(p, confirmed) ==
    Log(p, [kind |-> "command", at |-> p.now, id |-> p.cmd.id, answer |-> p.cmd.answer,
            txn |-> p.cmd.txn, confirmed |-> confirmed])

Eligible(p) == p.link = "up" /\ p.view.phase = "RUNNING"

\* CommandBlockedError: recorded, not counted.
Blocked(c) ==
    /\ Turn(c, "command") /\ ~Eligible(cl[c])
    /\ Becomes(c, Continues(CommandRecord(cl[c], FALSE)))

Send(c) ==
    /\ Turn(c, "command") /\ Eligible(cl[c])
    /\ Becomes(c, [cl[c] EXCEPT !.pc = "answer", !.quota = cl[c].view.tick])

RecordOutcome(p) ==
    [p EXCEPT !.stats.sent = @ + 1,
              !.stats.ok = IF p.cmd.answer = "OK" THEN @ + 1 ELSE @,
              !.stats.rejected = IF p.cmd.answer # "OK" THEN @ + 1 ELSE @]

\* An accept that succeeds is a transaction of ours; a state follows either way.
Executed(c, code) ==
    [srv EXCEPT !.seq = @ + 1, !.trades[c] = IF code = "OK" THEN @ + 1 ELSE @]

\* A protocol error is no result, and nothing confirms it.
Answer(c, code) ==
    /\ Turn(c, "answer") /\ srv.pc \in {"running", "stalled"} /\ cl[c].link = "up"
    /\ code \in setup.answers
    /\ \E p \in {[cl[c] EXCEPT !.cmd.answer = code, !.cmd.seq = srv.seq + 1,
                               !.cmd.txn = IF code = "OK" THEN srv.trades[c] + 1 ELSE 0]} :
           Puts(c, IF code = "PROTOCOL" THEN Continues(CommandRecord(RecordOutcome(p), FALSE))
                   ELSE [p EXCEPT !.pc = "confirm"])
    /\ srv' = IF code = "PROTOCOL" THEN srv ELSE Executed(c, code)
    /\ UNCHANGED <<setup, left>>

Confirmed(c) ==
    /\ Turn(c, "confirm")
    /\ cl[c].view.seq >= cl[c].cmd.seq
    /\ Becomes(c, Continues(CommandRecord(RecordOutcome(cl[c]), TRUE)))

-----------------------------------------------------------------------------
(* The end of a connection, of a process                                   *)

\* A server that is gone has sent its last state first, unless it crashed.
LinkEnds(c) ==
    \/ srv.pc = "gone" /\ (srv.exit = "0" => cl[c].view.seq = srv.seq) /\ left' = left
    \/ ServerUp /\ Use("cut")

\* Only what waits at that moment is told; a loop that is busy is not.
Told(p) ==
    CASE p.pc \in {"first", "ready"} -> Raises(p, "closed")
      [] p.pc = "watch" /\ ~p.fresh -> Breaks(p)
      [] p.pc \in {"answer", "confirm"} -> Raises(CommandRecord(p, FALSE), "closed")
      [] OTHER -> [p EXCEPT !.link = "dead"]

LinkClosed(c) ==
    /\ cl[c].link = "up" /\ cl[c].out = <<>> /\ ~cl[c].signal
    /\ cl[c].pc \in {"first", "ready", "watch", "think", "command", "answer", "confirm"}
    /\ LinkEnds(c)
    /\ Puts(c, Told(cl[c]))
    /\ \E executed \in (IF cl[c].pc = "answer" /\ "OK" \in setup.answers /\ srv.pc = "running"
                        THEN BOOLEAN ELSE {FALSE}) :
           srv' = [IF executed THEN Executed(c, "OK") ELSE srv EXCEPT !.ready = @ \ {c}]
    /\ UNCHANGED setup

\* finally: run_end, whatever ended the loop.
Ending(c) ==
    /\ cl[c].pc = "ending" /\ cl[c].out = <<>>
    /\ Becomes(c, [RunEnd(cl[c]) EXCEPT !.pc = "reports", !.link = "none"])

\* run_trade_mode and main: the summary, then the exit code.
Reports(c) ==
    /\ cl[c].pc = "reports" /\ cl[c].out = <<>>
    /\ Becomes(c, [cl[c] EXCEPT !.pc = "done", !.summary = Written(file[c].units),
                                !.exit = CASE @ # "none" -> @
                                           [] @ = "none" /\ cl[c].final = "NONE" -> "1"
                                           [] OTHER -> "0"])

\* KeyboardInterrupt cancels what is awaited; a command in flight is recorded.
Interrupted(c) ==
    /\ cl[c].signal /\ cl[c].out = <<>> /\ Alive(cl[c])
    /\ cl[c].pc # "reports" /\ (cl[c].pc = "ending" => cl[c].exit = "none")
    /\ Becomes(c, [IF cl[c].pc \in {"answer", "confirm"} THEN CommandRecord(cl[c], FALSE) ELSE cl[c]
                   EXCEPT !.pc = IF @ \in {"rotate", "create", "begin"} THEN "done" ELSE "ending",
                          !.exit = "130", !.signal = FALSE])

\* SIGTERM or a crash: nothing more is written.
Dead(p) == [p EXCEPT !.pc = "done", !.out = <<>>, !.exit = "killed", !.link = "none"]

Killed(c) ==
    /\ Alive(cl[c]) /\ Use("kill")
    /\ cl' = [cl EXCEPT ![c] = Dead(@)]
    /\ srv' = [srv EXCEPT !.ready = @ \ {c}]
    /\ UNCHANGED <<setup, file>>

StartedByHand(c) ==
    /\ ~setup.main /\ c \in Range(setup.roster) /\ ~Alive(cl[c]) /\ Use("start")
    /\ cl' = [cl EXCEPT ![c] = Process("rotate")]
    /\ UNCHANGED <<setup, srv, file>>

ClientStep(c) ==
    \/ WriteLine(c) \/ Rotate(c) \/ CreateLog(c) \/ Begins(c) \/ Connecting(c) \/ Opened(c) \/ OpenFails(c)
    \/ Deliver(c) \/ FirstState(c) \/ Readiness(c) \/ Backoff(c) \/ TakeState(c)
    \/ \E act \in BOOLEAN : Decide(c, act)
    \/ Blocked(c) \/ Send(c) \/ Confirmed(c) \/ Ending(c) \/ Reports(c) \/ Interrupted(c)
    \/ \E code \in {"OK", "REFUSED", "PROTOCOL"} : Answer(c, code)

\* What nothing makes happen.
Mishap(c) == Quiet(c) \/ Killed(c) \/ StartedByHand(c)

ClientsInit ==
    /\ setup \in Setups
    /\ left = setup.limits
    /\ srv = [pc |-> IF setup.main THEN "off" ELSE "starting", phase |-> "READY", tick |-> 0,
              seq |-> 1, ready |-> {}, trades |-> [c \in Clients |-> 0], report |-> "NONE",
              signal |-> FALSE, exit |-> "none"]
    /\ cl = [c \in Clients |-> Process("off")]
    /\ file = [c \in Clients |-> [inode |-> 0, next |-> 1, units |-> <<>>]]

-----------------------------------------------------------------------------
(* Properties                                                              *)

HasEnded(units) == units # <<>> /\ Last(units).rec.kind = "run_end"

\* The process took the end of the run from its last state and left.
WasFollowed(log) ==
    /\ Last(log).final = "finished"
    /\ \E i \in DOMAIN log : IsConnection(log[i]) /\ log[i].event = "closed" /\ log[i].category = "none"

ToldOf(log) ==
    LET end == Last(log)
        said == Overview(log)
    IN
    /\ said.downtime = end.seconds["connecting"] + end.seconds["disconnected"]
    /\ said.acting - said.commands \in {0, 1} /\ said.ok + said.rejected = said.commands
    /\ end.rejected <= Rejections(log, "REFUSED") + Rejections(log, "PROTOCOL")
    /\ \A i \in Commands(log) : /\ TracedTo(log, i) > 0
                                /\ log[TracedTo(log, i)].id = log[i].id
    /\ Cardinality({i \in Commands(log) : log[i].confirmed /\ log[i].answer = "OK"}) = end.ok
    /\ {<<g[2] + 1, g[2] + 1 - g[1]>> : g \in DecisionGaps(log, 1)} = SkippedTicks(log)
    /\ WasFollowed(log) => SettledTrades(log) \subseteq CompletedTrades(log)

\* A log that was ended properly, and only read afterwards, tells the run as it
\* was: connection_periods finds the time the status ladder counted as
\* connecting and disconnected, each command is shown under the decision that
\* caused it, and each decision to act but the last has one, it counts no fewer
\* successes and refusals than the process did, the gaps between decisions are
\* the ticks that were noticed to be missed, and what was accepted is among the
\* trades of a run that was followed to its end.
ReportTellsTheRun ==
    \A c \in Clients : HasEnded(file[c].units) => ToldOf(Lines(file[c].units))
=============================================================================

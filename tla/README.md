# A verification project for the Spaceport Bazaar client and simulator

TLA+ modules, TLC runs and TLAPS proofs kept beside `SpaceportBazzarClient`.
They say what the trading rules and the client's session promise, check it on
small worlds, and prove the parts of it that hold for every world.

## The system

Planets ("stations") each make one of three resources, consume all three every
tick, and lose health for what they lack. A server owns the world and runs the
rules; each planet is driven by one client over a WebSocket that carries
commands one way and complete snapshots of the world the other way.

| Component | State it keeps | Operations | Talks to |
|---|---|---|---|
| Bundles (`domain/types.py`) | none | quantities, strict and saturating subtraction | everyone |
| Rule engine (`bazaar_sim/economy.py`) | tick, stations, offers, advertisements, transactions, ids, quota of the tick | `execute` (advertise, offer, accept, withdraw), `advance_tick`, `end_run` | called by the server |
| Server (`bazaar_sim/server.py`) | phase, seats, stored results, claimed planets | connect and fence, ready, sync, command, start, tick | engine by call, clients by message |
| Session (`app.py`) | newest snapshot, waiters, readiness, abort/reconnect wishes | pump events, await state/answer/readiness, send | socket, lifecycle, throttle, loop |
| Lifecycle (`connection/lifecycle.py`) | session state, phase, run id, last sequence | one transition per event, a directive back | session |
| Throttle (`connection/throttle.py`) | tick, sent, blocked-until | remaining, record, block | session; outlives it |
| Requests (`connection/requests.py`) | ids and fingerprints | next id, exact retry | session |
| Executor and ledger (`execution/executor.py`, `world/commitments.py`) | in-flight offers | send, confirm, release | session, policy |
| Trading loop (`autonomous.py`) | next sequence, budget, statistics | wait, decide in a thread, execute, reconnect | session, policy |
| Policy (`policy/`, `world/counterparties.py`) | rolling estimates | decide: accept, withdraw, gift, advertise, offer, aid | pure function of a snapshot and the memory |
| Worlds (`bazaar_sim/world.py`, `opponents.py`) | memories, turns, failures noted | players act in turn, tick, score | engine, policy |
| Client process (`cli.py`, `run_trading`, `status.py`, `diagnostics.py`) | attempt, status, statistics | connect, back off, diagnose, give up, exit | server, evidence log |
| Evidence log (`execution/evidence.py`) | one file, its inode | rotate, create, write a line | dashboard, analysis |
| Analysis (`scripts/analyze_evidence.py`) | none | decisions, commands, gaps, connection periods of a log | orchestrator |
| Dashboard (`live_dashboard.py`) | a cursor per file, a view per station, a queue per browser | poll, publish, serve | logs, browsers |
| Orchestrator (`bazaar_sim/orchestrate.py`) | the processes it started | launch, wait with time-outs, terminate, summarise | all processes |

`PROJECT.json` lists the rest (codecs, walkthrough, batches, formatting) with the
reason each is left out.

### What is hard here

* The engine updates many records in one step with no transaction around it,
  reserves nothing for an open offer, and sweeps the market three times in a
  tick in an order that matters (deadlines, failed stations, end of run).
* The client is two tasks and a thread. The pump changes the newest snapshot
  while the strategy is still deciding on an older one, and fails or resolves
  waiters that may not be there yet.
* Answers, states and the end of a connection arrive in any interleaving with
  the loop's waits; a time-out is ambiguous; a reconnect starts a new ledger
  but the same quota.
* Only the client's own ledger keeps a planet from promising its stock twice, and a
  tick's upkeep takes from the stock whether it is promised or not.
* The server has a task per connection and two for the run, and each waits at
  every send: seats are replaced, emptied and broadcast to in between, and one
  client can hold the rest up.
* The policy plans a batch of commands from one snapshot, stage after stage, and
  the engine executes them one by one: what a stage leaves must be what the next
  one starts from, and some of it may be refused.
* Processes share only files: logs that grow, are rotated and are cut off by a
  kill, read by a dashboard between whose `stat` and `read` they change; the
  orchestrator waits for all of them with time-outs, and Ctrl+C reaches everybody.

Correctness, per component: the books of the engine balance, settlement is
atomic and final, what is open is live, failure is permanent and clears the
market; the client never promises what is not there, never decides without its
own results, keeps within the quota over reconnects, and leaves a connection
that is lost and a run that is over; the server serves one connection per
planet, the seat, executes a request once, brings everyone who stays up to date,
and starts and ends the run; the policy promises only what it has and keeps its
reserve through a batch, posts no offer it would take back, and its copies keep
each other alive; a log and its report tell the run as it was, the dashboard
shows what the logs say, and the orchestrator returns and leaves nothing running.

## Modules

| Module | Models | Status |
|---|---|---|
| `Bundles` | class `Bundle` | written |
| `Economy` | the rule engine as `BazaarServer.advance` and `_command` drive it | written |
| `EconomyProofs`, `MarketProofs` | theorems about `Economy` | written |
| `Market` | what the engine promises its players: deals that settle once, atomically | written |
| `MCEconomy` | a small world for `Economy` | written |
| `Session` | one client, its connections, and the server's side of its seat | written |
| `SessionProofs` | theorems about `Session` | written |
| `MCSession` | small worlds for `Session` | written |
| `Server` | the server towards all planets: handshake, handlers, stored results, broadcasts, start and ticker | written |
| `ServerProofs` | theorems about `Server` | written |
| `MCServer` | small worlds for `Server` | written |
| `SumProofs`, `FoldProofs` | sums over finite sets and folds over sequences, for the other proofs | written |
| `Reserves` | stock levels, prices and the accept rule (`policy/reserves.py`, `pricing.py`, `accept.py`) | written |
| `Counterparties` | the memory, the counterparty model, targeting and altruism | written |
| `Policy` | `decide` with all its stages, and the advertisement | written |
| `World` | a whole run on one `Economy`: the policy, its copies and the stand-ins; schedules and score | written |
| `WorldProofs` | theorems about `World`: batches that can be paid, and how it scores | written |
| `MCWorld` | the worlds that are run | written |
| `Analysis` | what `analyze_evidence.py` makes of a log | written |
| `Evidence` | client processes with their logs, next to a server process | written |
| `Dashboard` | the feed and its browsers, over `Evidence` | written |
| `Orchestra` | the orchestrator, over `Dashboard` | written |
| `LiveProofs` | theorems about `Dashboard` and `Orchestra` | written |
| `MCLive` | the setups of `Orchestra` that are run | written |

`World` extends `Policy`, `Counterparties`, `Reserves` and `Economy`; `Orchestra`
extends `Dashboard`, `Evidence` and `Analysis`. `Market` is instantiated in
`Economy` with a refinement mapping.

### Economy

One action per command and one for the tick. `Execute(s, cmd)` is `execute`
after a precheck that passes; it charges the quota and runs the handler.
`Refuse(s)` is a precheck that does not pass: the code returns a code and
changes nothing. `Precheck`, `AcceptCode` and `WithdrawCode` are the code's
early returns in their order; `Settle` is the body of `_accept`. `Advance` is
the whole of `BazaarServer.advance`: `advance_tick` with its sweeps in the
code's order, the production of the tick, and `end_run` when the run is due.
Production of each station is any member of `ProductionLevels` at every tick, so
every schedule of `world.py` is included. The lists of offers, advertisements
and transactions are functions from the engine's shared id counter; `SYNC`
stands for any command `execute` does not know, which it counts and refuses.
Left out: `world_version`, the `last_*` observations, the `rejections` list
and what an advertisement advertises, none of which the engine reads.

`ImplementsMarket` maps the engine to `Market`: the day is the tick, what a party
owns is its inventory, the table is the set of open offers with their terms, and
what is done is the set of accepted ones. A sweep or a withdrawal takes deals off.
Within a day goods move by a settlement and in no other way, so a command that is
refused moves nothing. A step that moves the day, and only a tick does, may add to
a party's own product one of the scheduled outputs and take of every product what
the party needs (`Upkeep`), no more of either.

`FailureRecorded` is about steps: a failure is noted in the tick in which health
first reaches zero, with that tick, and the note is never moved or cleared by a
later shortage, by recovery or by a command.

`Sub` does not saturate where the code would raise: `Sub` leaves the set `Bundle` where the code
would raise `NegativeBundleError`, so `TypeOK` says it never raises.

### Session

The server's world is cut down to what one client can tell apart: phase, tick,
quota used, the stock of the resource the planet sells, its own open offers, and
the stored results. Other planets appear as `CounterpartAccepts`. A tick settles
the stock as `settle_tick` does (`StockAfter`): it adds the output of the tick, any
of `ProductionLevels`, and takes the upkeep as far as there is stock. So a tick can
leave less than open offers promise, and the runs reach such states;
`OnlyUpkeepUncovers` says that nothing else can: what is promised exceeds the stock
by no more than ticks took since the newest open offer was decided, `Drain` in each
of them. Where the least output covers the upkeep `Drain` is 0, and then nothing is
ever promised twice. Units of this resource that others give the planet are left
out. A connection is two FIFO channels. `Drop` cuts
it and leaves any prefix of each channel; `Takeover` is another process with
the same token, which fences it. The client's `wait` is the one future its loop
sleeps on; the `Pump*` actions are `_consume_events` for each event; the other
actions are the stretches of the loop between two awaits:

| `pc` | The loop is in |
|---|---|
| `START` | back-off before `BazaarSession.start`, or before the first attempt |
| `FIRST`, `READINESS` | `run`'s two opening waits |
| `IDLE` | `wait_for_snapshot` of the main loop |
| `DECIDE` | the strategy's thread |
| `ANSWER`, `CONFIRM` | `send_command`, then `wait_for_result_snapshot` |
| `DONE` | `run_trading` has returned |

`Stop` is `BazaarSession.stop` at the end of the `async with`; the ledger and
the session go, the throttle stays. A command already written to a live socket
may still be processed until the next connection opens. A send on a socket that
is already cut vanishes; the exception `websockets` may raise instead ends the
session in the same way as the sentinel that follows.

Assumption about the library: once a new connection is seated, frames of an
older one are no longer handled. The repository does not decide that; `Server`
makes it a parameter (`LateFrames`).

Also left out of `Session`: the failed planet (in `Economy`), exact retries and
`sync` (the loop sends neither), the run-id and version checks and
`max_decisions`. What decides is in `Policy`, the life of the process around the
session in `Evidence`.

### Server

`Economy` is what the server's calls do to the world and `Session` what one
client lives through; `Server` is the server's own concurrency. Each connection
has a handler (`conn[c].stage`), and there are two more tasks, the scheduled
`start_run` and the ticker. Every place where the code waits for a socket or the
clock separates two actions, so the tasks interleave there and nowhere else:

| Code | Actions |
|---|---|
| `_authenticate`, the upgrade | `Authenticate`, `HandshakeFails` |
| `_handle` up to the seat | `HandlerBegins`, `FenceSent`, `FenceCloses`, `FenceDone` |
| `_handle`'s loop and `finally` | `OnReady`, `OnSync`, `OnFatalMessage`, `OnCommand`, `HandlerEnds` |
| what follows a send | `AckSent` (with `_maybe_start`), `AnswerSent`, `LeavingCloses` |
| `_send_state`, `broadcast` | `Tell(t, c)`: task `t` sends seat `c` the world of that moment |
| `start_run`, `_tick_forever`, `advance` | `StartRun`, `StarterDone`, `Tick`, `TickerDone` |
| the client and its network | `Disconnect`, `Stall` |

`seats` is the dictionary of seats, `results` the stored results, `todo[t]` what
is left of the list a broadcast copied. Abstractions: a command that is executed
has the outcome `OK` or `REFUSED` (the rules are `Economy`'s); the contents of
states are replaced by `fresh`, the connections whose newest state shows the
world and the stored results as they are; a broadcast visits its seats in any
order, where the code follows their seating. `ran` and `answers` are history.
A message that is refused with the session left open (undecodable, a command
before readiness) changes nothing and is not an action.

What the repository does not decide is a parameter: `Overlap` (may a planet be
taken again while it is being fenced), `LateFrames` (does the library hand over
frames of a socket that is closed), `MayStall`, `MayLeave`. `openAuth` is the mode the server was started in, one of `AuthModes`. Left out: `stop` and the
report, which are in `Evidence`, and `tick_ms` 0, where the caller advances.

### Policy and World

The policy is code without processes, so it is a set of operators: `Decide(o, m)`
takes an observation and the memory to a batch and the next memory, through one
operator for each stage of `decide.py` in its order (`AcceptIncoming`,
`WithdrawDangerous`, `GiveExcess`, `RefreshAdvertisement`, `ProposeOffers`,
`LastThings`, `OfferAid`). The stages hand on a record of the budget, the stock
not yet promised, the memory and the commands chosen. Orders matter, because ties
are broken by them: the roster, the order of the resources, the order in which
offers were made and stable sorting are kept. The code's fractions are exact
(`Unit` is a multiple of every denominator of the price table).

`World` runs them as `run_world` does: in each tick each player that has not
failed observes the world, decides, and its batch is executed before the next one
observes. `Observation` is `observation_for`. Three actions make a turn
(`TraderDecides` or `StandInDecides`, `Apply` per command, `HandsOver`), one makes
the tick. Once its setup is fixed a run is deterministic, as it is in the code;
what is checked is 30 whole runs, with every intermediate state.

### Evidence, Dashboard, Orchestra

`Evidence` is the client as a process: `rotate`, the first lines of its log,
attempts to connect, the waits of the loop, a decision, a command with its answer
and confirmation, the paths out of `run_trading`, the last line and the exit
code. The inside of the session is `Session`'s; here a command may have any answer
of `setup.answers`, and an attempt may fail for any of `setup.causes`. Lines go
to the file in order; in shared setups one at a time and a decision in two writes,
because it is longer than a buffer, and a kill may fall between them. `Analysis`
reads logs; `ToldOf` compares what it finds with what the process counted.

`Dashboard` is one task that polls and publishes and one per browser. A poll
looks at each file in two steps, `PollStat` and `PollRead`, between which the other
processes go on. `Orchestra` is `orchestrate.main`: every `await` of it separates
two actions; an exception in the body of its `try`, which the server's start
precedes, unwinds through its `finally`, Ctrl+C there included (`MainInterrupted`),
and one in the `finally` itself, while it waits for the dashboard or keeps up the
page goes straight to `main`.

A setup bounds what happens in a behaviour and how often (the header of
`Evidence` lists the fields): which processes there are, what may come of a
command or an attempt, where Ctrl+C may come (`stops`), where the clients may be
when a poll starts (`polls`), how much of a file is read at once (`chunk`), and
how many attempts, cuts, kills, starts by hand, quiet waits, slow browsers and
interrupts there are (`limits`). Further abstractions: a command that is not
answered in time ends as a cut connection does; the abort for a changed run id is
the cause `ABORTED` of an attempt; a time-out of the orchestrator may run out
whenever it waits; a poll that would find nothing new is left out.

## Runs

| Run | Question | Bounds |
|---|---|---|
| `economy` | do the books balance and equal the transactions, is settlement atomic, final and in time, is failure recorded once, permanent and off the market, does the book empty; does the engine implement `Market` | 2 stations with no slack, 3 ticks, output 0 or 2 each tick, health 1, 1 command a tick, 1 open offer each, 3 ids |
| `session_one` | does the ledger cover the gap until the confirming state, and empty; does the loop notice the end of the run | 1 connection, 3 ticks, 2 commands a tick, 3 requests, stock 2, capacity 2, output 0 or 1 each tick, upkeep 1 |
| `session_reconnect` | is a promise uncovered by upkeep only; quota and results over a broken connection | 2 connections, 1 break, 3 ticks, 1 command a tick, 3 requests, stock 2, output 0 or 1 each tick, upkeep 1 |
| `session_lost` | is a lost connection always left (violated) | 2 connections, 1 break, 2 ticks, 1 request |
| `server_commands` | is a request executed once and always answered alike | 1 planet, 2 connections, 2 ids, 2 bodies, 1 record, 1 tick, late frames |
| `server_seats` | is the seat held by the connection that is served, is everyone who stays brought up to date | 2 planets, 2 connections, 1 id each, `start_when` 2, 1 tick, stalls |
| `server_liveness` | does the run start and end; with open_auth, is a planet claimed by one connection | 2 planets, 2 connections, both modes, `start_when` 1, 2 ticks |
| `server_overlap` | as `server_seats`, with overlapping fences (violated) | 1 planet, 3 connections, nobody leaves |
| `server_stalled` | does the run end although a client stops reading (violated) | 2 planets, 2 connections, 2 ticks |
| `world` | what a batch promises, keeps and is refused; do copies of the policy keep each other supplied; does a run score alike both ways | 4 planets, 2 of which make water, 40 ticks, 4 commands a tick, 3 open offers, 30 setups |
| `world_limit` | does the policy keep to the limit of offers (violated) | as `world` |
| `live` | do the log and its report tell the run, does the page come true, what does the orchestrator leave, is a 0 clean | 1 or 2 clients, 1 or 2 ticks, 8 kinds of setup |

Why the bounds are enough. Three ids let an offer be made, accepted (a
transaction takes an id) and followed by another offer or an advertisement; a
run of three ticks holds an offer that expires, one that lives through a tick
and one that meets the end. Health 1 makes a station fail in one short tick and
recover in the next. Time-to-live 2 separates "expired" from "over". In
`Session` three requests and two a tick reach the limit in one tick and repeat
it in the next; two connections are what a hand-over needs; stock 2 with
amounts 1 and 2 lets one promise fit and two not, and with an output of 0 or 1
against an upkeep of 1 a tick leaves the stock alone or takes a unit of it, so a
promise of 2 is uncovered after one tick and the bound of `OnlyUpkeepUncovers` is
reached. Bounds are the constants
named so in the modules (`MaxObjects`, `MaxSessions`, `MaxRequests`,
`MaxBreaks`); the other constants are rules of the game.

In `world` two planets make the same product, so there is competition, and one
each make the others, so there is a scarcest good. 40 ticks are more than the 36
of a whole cycle of the schedules, and reach the end game. A stock of 7 makes
planets fail, 20 and 34 are a benchmark's, 112 is above the storage cap of the
policy, so it gives goods away. Four commands and three offers make both limits
bite. Balanced worlds are run with and without variation of the output.

In `live` each setup lets one part do a lot and the rest as little as that part
needs, because all of them at full length together are too many: `Records` (one
client through cuts, refusals, silence and two ticks, with clocks), `Restarted`
(killed and started again while its log is being read), `Watched` and `Left`
(browsers), `Failing` (two clients under the orchestrator, a server that stalls),
`Stopped` and `Paged` (Ctrl+C at any place, a dashboard that may not start),
`TornLogs` (a client terminated while it writes).

`Session`'s configurations do not check for deadlock: the loop returns at the
end of the run, and after the last connection the bound allows. The same holds
for `Server`, which stops when the run is over and all connections have ended,
for `World` after its last tick and for `Orchestra` when all processes are done.

In `Server` a fence takes two connections and a race of fences three. What
late frames could break is in `server_commands`, what a client that stalls could
break in `server_seats`. Two ids
and a store of one give a request that is stored, retried, reused and refused
for want of room. Connections, ids and bodies are symmetric in the safety runs;
planets are not, because claims follow their order. `MaxStarts` merges more than
two pending `start_run` tasks: from the second on they do nothing.

### Fairness

`Economy!FairSpec` assumes only that the ticker ticks: `_tick_forever` sleeps
and advances while the run is on. Nobody has to trade.
`Session!FairSpec` assumes that the server's handler reads what it was sent,
that the pump and the loop run when they can (the strategy returns), and that a
wait with a deadline, if it stays pending, reaches it. It does not assume that
the run starts, that time advances, or that connections break or last.

`Server!FairSpec` assumes that the event loop runs what is due, that a close
completes (the library bounds it by a time-out), and that a send returns when
the client reads or the socket is closed. It does not assume that a client
reads, says it is ready, stays or leaves.

`Orchestra!LiveSpec` assumes that processes run when they can, that a server that
neither stalls nor crashes ticks and answers, and that a time-out runs out when
what it waits for does not come; it is one fairness condition over `Running`,
which is as strong as one per process because a setup lets nothing go on for
ever. What happens to processes (`Happening`: kills, cuts, stalls, Ctrl+C, slow
browsers) is promised nothing. `WorldSpec` needs no fairness.

### What the runs show besides

While this client is alone on its seat, the block that `RATE_LIMITED` sets
(`throttle.py:39`) never decides anything: the loop sends one command at a time
and the throttle outlives the connection, so at most one command of an earlier
tick can be processed late, and the quota of a tick is exceeded by at most that
one (`RateLimitMeansLate`). The block matters when another process uses the
quota, which the models do not include.

## Findings

1. `session_lost`: a connection that closes while the strategy is thinking
   leaves the client waiting for ever. The sentinel fails the waiters of that
   moment, and there are none; the loop then waits on a session that has no
   pump, and each time-out of that wait only continues the loop
   (`autonomous.py:164-171`). `LostSessionIsLeft` gives the trace: first state,
   acknowledgement, a decision, the drop, the sentinel, and an idle wait that
   nothing ends.

2. `server_overlap`: `_handle` reads the previous seat, waits for its close and
   then takes the seat without looking again. The trace: c1 is seated; c2 fences
   it; while c2 waits for the close c3 arrives. Both become handlers, the one
   seated first is never fenced: it is answered but gets no broadcast, since
   `broadcast` only knows the seat. With one fence at a time the property holds
   (`server_seats`).
3. `server_stalled`: the ticker waits for every send, pings are off, and a
   client that keeps its connection without reading fills its buffers: the
   clock stops for every planet. Without such a client `RunEnds` holds.

4. `world_limit`: `_give_excess` and `_offer_aid` count the offers planned earlier in
   the batch, `_propose_offers` counts only those that are open. With the limit
   near, a planet that gives goods away plans more offers than fit, and the
   engine refuses the last ones with `LIMIT_REACHED`; the budget that went on
   them is lost.
   `RefusedForOthers` checks that, this apart, the engine only ever refuses the
   policy what it could not have seen.

More that need no run:

* `SIMULATOR.md:38` documents that open offers become `RUN_ENDED` at the end of
  the run. `_precheck` caps deadlines at the run's length and `advance_tick`
  expires them before `end_run` looks, so they are all `EXPIRED`;
  `RunEndNeverCloses` proves that for every world. The test of that status calls
  `end_run` by itself.
* Under `--open-auth` the planet is claimed in `_authenticate` (`server.py:180`)
  and given back only by the handler. After `Authenticate` and `HandshakeFails`,
  the first two steps of a behaviour of `Server`, the planet is claimed and
  nobody holds it, for the rest of the server's life; the test
  `test_open_auth_refuses_a_planet_too_many_and_frees_seats_on_disconnect`
  only disconnects clients that were seated.
* `decide.py:174-180`: the second pass over held back offers holds back those in
  their last usable tick again when one command is left, although the comment
  says to take what was held back.
* `strategy.py`'s `explain_passes` says that it re-asks the policy's own accept
  rule, but passes neither the ticks left nor the end game.
* `world.py:50-54`: with a variation above the base output the cut at zero makes
  a cycle produce more than is consumed; "balance holds over each complete cycle"
  needs the variation below the base.
* The feed keeps the server's final report over a new start of a client, so old
  final values cover the new run's; a changed inode drops a station without a
  new revision, so browsers see that only with the next line.
* A torn last line makes `analyze_evidence.load` raise `ValueError`; the
  orchestrator then reports a configuration error and returns 2, although
  `evidence.py` says that everything written survives a crash. A time-out of the
  server is not caught at all: a traceback, and 1.
* `evidence.py:11` says one command record per command sent; a command that is
  blocked has a record too, so the log counts more than the statistics.
* `connection_periods` drops a down period that a `closed` follows; the status
  ladder of an abort inside `loop.run` stays at "participating"
  (`autonomous.py:418-427`), of one outside it does not (438-445).
* With `--live` a clean run ends with 130, since the page is kept until Ctrl+C.
* A command in the last instant of a run may be cut off by the server's exit;
  the client then reconnects for ever although its newest state is final, and only
  the orchestrator's grace ends it.

## Proofs

Every theorem is about all values of the constants that satisfy the named
assumptions of its module; no theorem assumes anything else, but for
`OneServedPerPlanet`, as said below.

### The engine

From `RosterAssumption` and `RulesAssumption` (any finite roster, any upkeep,
production and rules):

| Theorem | Property |
|---|---|
| `EconomyProofs!TypeCorrect` | `Spec => []TypeOK` |
| `EconomyProofs!LedgerAlwaysBalanced` | `Spec => []LedgerBalanced` |
| `EconomyProofs!FailedLeaveTheMarket` | `Spec => []FailedHasNoDealings` |
| `EconomyProofs!MarketIsLive` | `Spec => []OpenIsLive` |
| `EconomyProofs!ClosedStaysClosed` | `Spec => ClosedIsFinal` |
| `MarketProofs!SettlementIsRecorded` | `Spec => []SettledOnce` |
| `MarketProofs!FailureIsRecorded` | `Spec => FailureRecorded` |
| `MarketProofs!TotalsAreTheTransactions` | `Spec => []TotalsMatchTransactions` |
| `MarketProofs!LimitsHold` | `Spec => []MarketLimits` |
| `MarketProofs!EngineImplementsMarket` | `Spec => ImplementsMarket` |

`TypeOK` is inductive: the one hard step is an accept, where the two dominance
checks of `AcceptPassed` keep `Sub` inside `Bundle`. The ledger is inductive on
top of the types. The market properties are not inductive as they stand: whether
an offer is live in the next tick depends on the caps its deadline met when it
was made, so `MarketInvariant` strengthens them offer by offer (`OfferInv`: open
implies in time, under its cap, within the run, between stations that have not
failed) and advertisement by advertisement (`AdInv`). The steps are proved once
for each kind of record: `CloseKeeps` and `SweepKeeps` say what a sweep may do
to an offer, `OfferCases` and `AdCases` where an offer or an advertisement of
the next state can come from, and `AdvanceKeepsMarket` puts the three sweeps in
the code's order.

`SettledOnce` needs that offers are not from the future and that a transaction's
offer keeps its terms (`SettlementInv`); `NothingSettled` covers all operations
but the accept, `SettleBooks` the accept. `FailureRecorded` is about a step, and
needs of the state before it that a station that has not failed has health left
and no tick noted (`WellFailed`); `TickRecordsFailure` is about `settle_tick` on
one station, and `StepRecordsFailure` adds that no command touches health or note.
The limit on open offers is a cardinality:
a book is finite because its keys are below `nextId`, sweeps only shrink what is
open, and an offer that is posted found room. The totals are sums over all
transactions: an accept adds one under an id that was free
(`SettleKeepsTotals`, `SumWithOneMore`), and a transaction never changes.

The refinement is proved step by step: each operation of the engine is one step
of `Market` under the mapping (`PostIsPropose`, `WithdrawIsTakeOff`,
`SettleIsSettle`, `AdvanceIsNewDay`) or a stutter. `SettleIsSettle` needs that the
parties differ (`PartiesDiffer`), or the two bundles would not be the ones that
changed hands; `TickIsADay` bounds what a tick adds and takes, resource by
resource, and `CommandIsDealing` is why no command can pass for a day: the clock
stands still in all of them.

The lemmas behind these theorems are about `EngineStep`: any command that is
`WellFormed` (bundles for terms, a natural number for a deadline), executed for any
station, or a tick with any production. `Next` takes such steps
(`NextIsEngineStep`), and so does a world, whose players send commands that `Next`
does not enumerate; so the engine's invariants hold in `World` too.

### The server

From `ServerAssumption` (any finite sets of connections, ids and bodies, any
number of planets, any capacity and duration):

| Theorem (`ServerProofs`) | Property |
|---|---|
| `ServerTypeCorrect` | `Spec => []TypeOK` |
| `RequestsExecutedOnce` | `Spec => []ExecutedOnce` |
| `RetriesAgree` | `Spec => []AnswersAgree` |
| `OneTickerRuns` | `Spec => []OneTicker` |
| `EverySeatIsServed` | `Spec => []SeatsAreServed` |
| `OneServedPerPlanet` | `~Overlap` implies `Spec => []ServedIsSeated` |
| `PlanetsAreHeldOnce` | `Spec => []OneHolderPerPlanet` |
| `NewsReachesEverySeat` | `Spec => []EveryoneIsTold` |

All of them rest on `TypeInv`: `TypeOK`, what each handler has in hand at its
stage (`HandlerInv`: who fences knows whom, who tells has a list, who answers has
an answer), what the run's tasks know of the clock (`ClockInv`) and that a place
of the store is empty or holds a result (`StoreInv`). `StepCases` splits a step
once for all proofs, and one lemma per property says which steps leave it alone
(`RunIsLeftAlone`, `StoreIsLeftAlone`, `NoNewAnswer`, `SeatSteps`).

*Answers.* That two answers agree is not inductive: an answer may have been
worked out but not sent. `AnswersFit` says that each answer, given or under way,
fits what is stored now (`CodeFits`: the stored code, a conflict with another
body, or no place while the store is full), and `FitsStay` that it keeps fitting,
since a place that is filled is never filled anew and a full store stays full.

*Seats.* A fence takes three steps of its handler, with the event loop free in
between. `FenceInv` says what holds meanwhile: the old connection is the same
planet's and was served, the seat is still its own or nobody's, and nobody else
fences for the planet. The last part is what the code does not ensure: when a
third connection arrives during the close, two handlers fence the same old one,
and both are served (finding 2, `server_overlap`). `Overlap` is the constant that
admits this behaviour, and the one theorem with a further hypothesis is about the
server without it: nothing else lets a live connection be served without its
seat. `HoldersClaim` connects the planets claimed with those that are held.

*News.* `EveryoneIsTold` is inductive beside `SeatsAreServed`: a step that makes
a seat's newest state old also puts it on somebody's list, and it leaves a list
only by being sent the state, or dead.

### The client's session

From `SessionAssumption` (any quota, capacity, duration, first stock, outputs with
a least one, upkeep, number of connections, requests and breaks):

| Theorem (`SessionProofs`) | Property |
|---|---|
| `SessionTypeCorrect` | `Spec => []TypeOK` |
| `OffersAreHeldUntilSeen` | `Spec => []HeldUntilSeen` |
| `ReservationsAreReleased` | `Spec => []NoLeakedReservation` |
| `UncoveredByUpkeepOnly` | `Spec => []OnlyUpkeepUncovers` |
| `DecisionsAreInformed` | `Spec => []DecidesOnItsOwnResults` |
| `QuotaRefusalsAreLate` | `Spec => []RateLimitMeansLate` |

One invariant, `SessionInv`, carries them all. Its idea is that at most one
command is uncertain: on its way (`CommandInv`: it is the newest request, and the
server has no result of it), answered but not shown by a state (`AnswerInv`), or
given up with its connection. From that follow the rest:

* what a state that the client holds, or that is still on its way, lacks of the
  server's world is at most the newest command with its result and its offer
  (`Reflects` in `ShownInv`), and nothing at all when the loop is between
  commands (`SettledInv`): so a decision knows every result;
* an open offer the newest state does not show is the newest command's, and is in
  the ledger (`BookInv`), which is empty outside `ANSWER` and `CONFIRM`
  (`HeldInv`): so it is held until seen, and nothing leaks;
* ticks take stock and nothing else does behind the client's back: with what ticks
  took since the start added to the stock (`Backing`), the stock less open offers
  does not shrink behind a state that lacks no result (`Slack`). So a command, when
  the server reads it, asks for no more than was free at the tick it was decided in
  (`Covered`), and what is open at any time was free at one tick, no earlier than
  the newest offer's (`PromiseInv`). `TicksTake` bounds a tick's loss, `Deadlines`
  turns that tick into the age of the offer;
* the throttle counts each tick's requests within the quota, and a state the
  client is shown is not of an earlier tick than the throttle's (`RateInv`).

`LinkInv` and `WaitInv` say what a session without a connection, or without its
seat, can know, and from where the loop goes on. `Cut` keeps the front of a
channel, `Pump` takes its head: the lemmas on channels are about contents, not
positions. Each of the steps of `Next` has its lemma (`...KeepsInv`); what they
share, a step that only moves messages or only the loop, is in `ConnectionStep`,
`LoopStep` and `Undisturbed`. `RateLimitMeansLate` is no consequence of the
invariant: that a command was refused says that the quota was used up then, so
`RefusedIsLate` compares, in the step in which the server stores the refusal, the
requests charged to that tick with those processed in it.

### Sums

The library's induction rules take a predicate as a parameter, which the provers
cannot instantiate, so induction is argued here from a least or a smallest
counterexample (`LeastNumber`, `SmallestSet`, from well-foundedness). `SumProofs`
does so for sums over finite sets: `SumFunctionOnSet` is the last value of a
function that adds up one chosen element at a time; there is one (`FoldExists`,
`SumIsAFold`), two agree wherever what they add up does (`FoldsAgree`), and any
element may be taken first (`SumTakesOut`). `SumAdds`, `SumOfPart` and `SumsAgree`
are what the other proofs cite.

### The dashboard and the orchestrator

`LiveProofs` is about any number of clients, browsers and setups, with any lines,
kills, restarts and rotations. `DashboardAssumption` says that what is read at once
has a size, `OrchestraAssumption` that a roster is a sequence of clients and not
empty, `AbortAssumption` that a server the orchestrator starts knows one run and
each client once and aborts no session that comes after another
(`autonomous.py` 438-444, `cli.py` 215-225).

| Theorem (`LiveProofs`) | Property |
|---|---|
| `FeedShowsTheLog` | `LiveSpec => []FeedFollowsLog` |
| `NothingStaysRunning` | `LiveSpec => []NothingIsLeft` |
| `ZeroMeansClean` | `LiveSpec => []ZeroIsClean` |

*The feed.* The property speaks of the moments between polls; the invariant
(`FeedInv`) has to speak of the moments between a stat and a read as well. Each
file is one that its writers may have left (`Orderly`: they append, move it aside,
and make it anew under a larger inode number, `FileMoves`), and each cursor fits
its file (`ClientFits`): it never has an inode that is still to come, and where it
has the file's own, its offset is within the file, the piece kept of an unfinished
line is the one reading from the start would have left, and the view is the one
reading from the start would have given (`Fits`). A file that is replaced between
the stat and the read makes what was read worthless, and does no harm, because the
cursor keeps the old inode and the next stat resets it. In the middle of a poll
the view may lack the server's final values, which `PollReport` puts back on top;
so `Fits` compares views up to those (`Alike`), and needs that one more line takes
alike views to alike views (`IngestAlike`). `FoldLeft` over the units of a file is
not an induction the prover can do; `ReadOn` (reading a prefix and then the rest is
reading the whole) and `FoldSteps` get it from a least counterexample. That no step
of a client does anything else to the files is `ClientMoves`, over the whole of
`Evidence`.

*What is left.* That nothing is left running says nothing of how it came to that;
the invariant (`StopInv`) follows the orchestrator. Only clients on the roster run
(`OnRoster`), the `finally` has stopped those it has passed, and where `main` was
told to stop itself, has not started anything, or is past its `finally`, everything
that runs was told to stop (`MainFits`). A process that was told so does not forget
it and nothing starts by itself (`ClientCalm`, `ClientServerCalm`,
`ServerStepsCalm`), except what a person starts by hand, where there is no
orchestrator.

*What exit code 0 means.* The property is about the orchestrator's last look at
codes and a report that others produced long before, so the invariant (`ZeroInv`)
follows each of them. A client is as far along its run as what it has logged,
taken in and closed allows, and one that exits with 0 has seen the run end
(`Follows`); a report, once written, is of the run as it ended and is not
rewritten (`ReportStands`); and each code that the orchestrator has collected is
the one its process ended with (`CodesFit`). `AbortAssumption` is needed because a
server with a second run could overwrite a report that its clients no longer
answer for.

### The policy in a world

From `SetupAssumption` (the stock a run starts with is a natural number of each
resource, what its production is computed from are integers) and the roster's and
the rules' assumptions, for any players:

| Theorem (`WorldProofs`) | Property |
|---|---|
| `TurnsKeepPromises` | `WorldSpec => [][PromisesCovered => PromisesCovered' \/ AdvanceTick]_worldVars` |
| `ReserveSurvivesTurn` | `WorldSpec => [](PromisesCovered => TurnKeepsReserve)` |
| `BothScoresAgree` | `WorldSpec => []ScoresAgree` |

*A decision can be paid.* `DecisionIsPaid` is about `Decide`, the whole of it. It
says that its batch is `Paid`: there is a line of stocks, from the one the decision
starts with (the stock not promised away, saturated at zero: `AvailableIsFree`) to
the one it ends with, one for each command, in which each command `Affords` what it
costs, and where it brings less than it costs of a resource leaves the reserve of
it. What a command costs is what an offer gives and what an accepted offer asks;
only what an accept brings is counted in favour of the reserve, and never as stock
a later command may spend. Each stage of the decision continues the line
(`AcceptStage`, `WithdrawStage`, `GiveStage`, `AdvertiseStage`, `ProposeStage`,
`AidStage`: `StageOK` is what they hand on), which takes the prices
(`TermsAreAffordable`, `PricedIsNatural`, `PremiumIsPositive`), the floors
(`TermsUnderOK`) and the size of a gift: an excess is what is above 100, and no
reserve is above 15 (`ReserveIsBounded`). Each stage is a fold over a sequence of
offers, resources or candidates. `FoldProofs` shows once, from a least
counterexample, that what holds at the start of a fold and is kept by its operator
holds at its end; the operator and what it keeps are constants of that module, and
every stage is an instance.

*A batch stays paid.* Between the decision and its last command the engine executes
or refuses each. `ExecuteFree` says what a command of any player does to the stock
that is free (inventory less what open offers promise): it never takes from another
player's, since a proposer's goods leave together with the offer that promised
them, and from the sender's it takes at most the command's cost, less what it
brings. So in `WorldInv` the rest of the batch is paid from a stock that is still
free, and the free stock is above the reserve, or above what the turn began with
(`BatchCovered`); `StaysCovered` is the step. The other players only need to be
well formed (`ActsAreWellFormed`).

*What is not proved.* At a tick the upkeep may take from stock that is promised;
that it does not is no matter of a batch but of production, reserve and upkeep
together, and the first theorem leaves `AdvanceTick` out for that reason. In a
state where a promise is uncovered the second says nothing. `world` checks in its
setups that this never happens.

*The score.*

The failures that `run_world` notes tick by tick are those the
stations record, at the end of each tick and nowhere else (`FailuresNoted`,
`HasRecords`), whatever the players do in between and however often a station
recovers.

### What stays with the checker

* Liveness: `OffersClose`, `RunIsFollowedToItsEnd`, `LostSessionIsLeft`, the
  liveness of `Server` and of `Orchestra`. It needs fairness and `ENABLED`, which
  the prover does not handle.
* Of the policy: that ticks keep promises covered, which depends on the reserve, the
  upkeep and the setups together; `FreshOffersStand` and `RefusedForOthers`, which
  compare the engine's answers with every number and every deadline of a batch; and
  `SelfPlaySucceeds`, which is about the setups it is run on.
* `ReportTellsTheRun`: what a whole log says of a whole run, counted by functions
  over the log, in the setups that are run.

## Not modelled

* The codecs and mappers (`codec/wire.py`, `domain/mappers.py`,
  `bazaar_sim/codec.py`): field by field conversion without state.
* The scripted walkthrough, the batches of `benchmark.py`, the hivemind mode and
  the coordinator behind it (a language model), `fleet.py`, `check.py`,
  `decide_once.py` and `analyze_run.py`: scripts of calls that are modelled.
* Of `analyze_evidence.py` its tables, shortages, latencies and offer stories; of
  the client its latency figures, log format and printed status.
* Server run by hand (`tick_ms` 0), client requests that are retried exactly,
  `max_decisions`, undecodable frames.

## Plan

What would extend this project next, the most useful first:

1. When a tick keeps promises covered: a bound on the open offers of a station from
   its reserve and its upkeep, so that `PromisesCovered` follows without the runs.
2. `RefusedForOthers` from `DecisionIsPaid`, with the deadlines and the room for
   offers carried through the stages as the stock is.
3. `ReportTellsTheRun`, over the counting functions of `Analysis`.
4. The exact retries of the client and the run-id checks in `Session`.

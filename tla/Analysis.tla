------------------------------ MODULE Analysis ------------------------------
(***************************************************************************)
(* What scripts/analyze_evidence.py makes of an evidence log.              *)
(*                                                                         *)
(* A log is the sequence of the records a client wrote; each has a kind    *)
(* and the time (at) of its timestamp.  Formatting, latency percentiles    *)
(* and the contents of states are left out.  A file is a sequence of       *)
(* units: a line that was written by one system call is one unit, a longer *)
(* line is a head and a tail.                                              *)
(***************************************************************************)
EXTENDS Integers, SequencesExt

Never == -1
DownEvents == {"disconnected", "reconnecting", "closed", "failed"}

IsConnection(r) == r.kind = "connection"
IsCommand(r) == r.kind = "command"

\* decisions: an idle decision for a tick that is there already is a repeat.
Decisions(log) ==
    {i \in DOMAIN log :
        /\ log[i].kind = "decision"
        /\ \/ log[i].act
           \/ \A j \in 1..(i - 1) : log[j].kind = "decision" => log[j].tick # log[i].tick}

Commands(log) == {i \in DOMAIN log : IsCommand(log[i])}

\* traces: the decision a command is shown under, the last one kept before it.
TracedTo(log, i) == Max({0} \cup {j \in Decisions(log) : j < i})

\* settled_trades and completed_trades: by our accepts, and by anybody's.
SettledTrades(log) == {log[i].txn : i \in {j \in Commands(log) : log[j].answer = "OK" /\ log[j].txn > 0}}
CompletedTrades(log) ==
    UNION {log[i].new : i \in {j \in DOMAIN log : log[j].kind = "decision"}}

\* rejection_summary: how many commands ended with a code that is not OK.
Rejections(log, code) == Cardinality({i \in Commands(log) : log[i].answer = code /\ code # "OK"})

\* decision_gaps: ranges of more than minTicks - 1 ticks without a decision.
DecisionGaps(log, minTicks) ==
    LET ticks == {log[i].tick : i \in Decisions(log)} IN
    {<<g[1] + 1, g[2] - 1>> : g \in
        {p \in ticks \X ticks : /\ p[2] - p[1] > minTicks
                                /\ \A t \in ticks : ~(p[1] < t /\ t < p[2])}}

-----------------------------------------------------------------------------
(* connection_periods                                                      *)

Closing(p, state, since, at) ==
    IF since = Never THEN p.periods
    ELSE Append(p.periods, [state |-> state, seconds |-> at - since])

Connected(p, r) ==
    [periods |-> Closing(p, "down", p.down, r.at), down |-> Never,
     up |-> IF p.up = Never THEN r.at ELSE p.up]

\* A close that was wanted starts no down time.
WentDown(p, r) ==
    [periods |-> Closing(p, "up", p.up, r.at), up |-> Never,
     down |-> CASE r.event = "closed" -> Never
                [] r.event # "closed" /\ p.down = Never -> r.at
                [] OTHER -> p.down]

OnConnection(p, r) ==
    CASE r.event = "connected" -> Connected(p, r)
      [] r.event \in DownEvents -> WentDown(p, r)
      [] r.event = "connecting" /\ p.up = Never /\ p.down = Never -> [p EXCEPT !.down = r.at]
      [] OTHER -> p

\* What is still open at the end lasts to the last timestamp of the log.
Ended(p, last) == Closing([p EXCEPT !.periods = Closing(p, "up", p.up, last)], "down", p.down, last)

ConnectionPeriods(log) ==
    Ended(FoldLeft(OnConnection, [periods |-> <<>>, up |-> Never, down |-> Never],
                   SelectSeq(log, IsConnection)),
          Max({log[i].at : i \in DOMAIN log}))

TotalDowntime(log) ==
    FoldLeft(LAMBDA total, p : IF p.state = "down" THEN total + p.seconds ELSE total,
             0, ConnectionPeriods(log))

-----------------------------------------------------------------------------
(* participation and overview                                              *)

SkippedTicks(log) ==
    {<<log[i].tick, log[i].skipped>> : i \in {j \in Decisions(log) : log[j].skipped > 0}}

Acted(log) == Cardinality({i \in Decisions(log) : log[i].act})

Overview(log) ==
    [acting |-> Acted(log),
     commands |-> Cardinality(Commands(log)),
     ok |-> Cardinality({i \in Commands(log) : log[i].answer = "OK"}),
     rejected |-> Cardinality({i \in Commands(log) : log[i].answer # "OK"}),
     settled |-> Cardinality(SettledTrades(log)),
     trades |-> Cardinality(CompletedTrades(log)),
     downtime |-> TotalDowntime(log)]

-----------------------------------------------------------------------------
(* load and write_reports                                                  *)

\* A file cut after the head of a line does not parse.
Parses(units) == units = <<>> \/ Last(units).part # "head"

Lines(units) ==
    LET whole == SelectSeq(units, LAMBDA u : u.part # "head")
    IN  [i \in DOMAIN whole |-> whole[i].rec]

\* Nothing for a log that is missing or empty, a ValueError for one that is torn.
Written(units) ==
    CASE units = <<>> -> "NOTHING"
      [] units # <<>> /\ ~Parses(units) -> "RAISES"
      [] OTHER -> "SUMMARY"
=============================================================================

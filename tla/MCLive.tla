------------------------------- MODULE MCLive -------------------------------
(***************************************************************************)
(* Setups for Orchestra: each lets one part of the system do a lot and the *)
(* rest as little as that part needs.                                      *)
(***************************************************************************)
EXTENDS Orchestra

Limits(try, cut, kill, start, quiet, slow, interrupt) ==
    [try |-> try, cut |-> cut, kill |-> kill, start |-> start, quiet |-> quiet,
     slow |-> slow, interrupt |-> interrupt]

Setup(roster, ticks, limits) ==
    [roster |-> roster, main |-> FALSE, live |-> FALSE, viewers |-> {}, ticks |-> ticks,
     timed |-> FALSE, shared |-> FALSE, long |-> FALSE, answers |-> {}, causes |-> {},
     faults |-> {}, chunk |-> 2, polls |-> {"connect", "watch", "done"}, stops |-> {},
     limits |-> limits]

\* One client by hand: cuts, refusals, silence, two ticks.
Records ==
    {[Setup(<<"P01">>, 2, Limits(2, 1, 0, 1, 1, 0, 0)) EXCEPT
        !.timed = TRUE, !.answers = {"OK"}, !.causes = {"http_500"}]}

\* One client by hand that is killed and started again, and is watched.
Restarted ==
    {[Setup(<<"P01">>, 1, Limits(1, 0, 1, 2, 0, 0, 0)) EXCEPT
        !.live = TRUE, !.shared = TRUE, !.long = TRUE,
        !.polls = {"begin", "watch", "done"}]}

Watched ==
    {[Setup(<<"P01">>, 1, Limits(1, 0, 0, 1, 0, 0, 0)) EXCEPT
        !.live = TRUE, !.viewers = {"V1"}, !.chunk = 9]}

\* A browser that goes away, and a client that is killed before it connects.
Left ==
    {[Setup(<<"P01">>, 1, Limits(0, 0, 1, 2, 0, 1, 0)) EXCEPT
        !.live = TRUE, !.viewers = {"V1"}, !.polls = ClientPcs]}

\* The orchestrator with two clients, and a server that may fail.
Failing ==
    {[Setup(<<"P01", "P02">>, 1, Limits(2, 0, 0, 0, 0, 0, 0)) EXCEPT
        !.main = TRUE, !.faults = {"STALL"}]}

\* Ctrl+C at any moment, with and without a dashboard.
Stopped ==
    {[Setup(<<"P01">>, 1, Limits(2, 0, 0, 0, 0, 0, 1)) EXCEPT
        !.main = TRUE, !.faults = {"CRASH", "NO_START", "STALL"},
        !.stops = {"credentials", "launch", "run", "collect", "stop", "summarise", "stop_dashboard"}]}
Paged ==
    {[Setup(<<"P01">>, 1, Limits(1, 0, 0, 0, 0, 0, 1)) EXCEPT
        !.main = TRUE, !.live = TRUE, !.faults = {"NO_DASHBOARD"},
        !.chunk = 9, !.polls = {"done"}, !.stops = {"dashboard", "summarise", "show"}]}

\* A client that is terminated while it writes.
TornLogs ==
    {[Setup(<<"P01">>, 1, Limits(2, 0, 0, 0, 0, 0, 0)) EXCEPT
        !.main = TRUE, !.shared = TRUE, !.long = TRUE, !.answers = {"PROTOCOL", "REFUSED"},
        !.causes = {"http_401", "ABORTED"}]}

MCSetups ==
    UNION {Records, Restarted, Watched, Left, Failing, Stopped, Paged, TornLogs}
=============================================================================

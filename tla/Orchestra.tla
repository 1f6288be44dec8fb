----------------------------- MODULE Orchestra -----------------------------
(***************************************************************************)
(* bazaar_sim.orchestrate: the process that starts a dashboard, a server   *)
(* and one client per planet, waits for them with time-outs, stops what is *)
(* left and reports; composed with those processes.  Ctrl+C reaches all of *)
(* them.  Its time-outs may run out whenever it waits.                     *)
(***************************************************************************)
EXTENDS Dashboard

VARIABLE main

\* A run has at least one planet, each with its client.
ASSUME OrchestraAssumption == \A s \in Setups : s.roster \in Seq(Clients) /\ s.roster # <<>>

\* A server that was started for them knows one run and each client once: it
\* aborts no session that comes after another.
ASSUME AbortAssumption ==
    \A s \in Setups : "cut" \in DOMAIN s.limits /\ (s.main /\ "ABORTED" \in s.causes => s.limits.cut = 0)

liveVars == <<setup, left, srv, cl, file, dash, feed, web, main>>

Moves(pc) == main' = [main EXCEPT !.pc = pc]
MainTurn(pc) == main.pc = pc /\ ~main.signal
CleanReport == srv.report = "FINISHED"
Clean == srv.report = "FINISHED" /\ \A c \in Range(setup.roster) : main.codes[c] = "0"

\* What main() returns for an exception; one it does not catch is a traceback.
CodeFor(err) == CASE err = "KeyboardInterrupt" -> "130" [] err = "ValueError" -> "2" [] OTHER -> "1"
Fails(err) == main' = [main EXCEPT !.pc = "stop_dashboard", !.code = CodeFor(err)]
\* An exception in the body of try leads to finally.
UnwindsAtOnce(err) == Fails(err)
Unwinds(err) == main' = [main EXCEPT !.pc = "stop", !.i = 1, !.err = err]

-----------------------------------------------------------------------------
(* Starting                                                                *)

MainBegins ==
    /\ MainTurn("begin")
    /\ IF setup.live THEN dash' = [dash EXCEPT !.pc = "starting"] /\ Moves("dashboard")
       ELSE dash' = dash /\ Moves("server")
    /\ UNCHANGED <<clientVars, feed, web>>

\* The file with its address appears, or it exits, or ten seconds are over.
AwaitDashboard ==
    /\ MainTurn("dashboard")
    /\ \/ dash.pc = "on" /\ Moves("server")
       \/ dash.pc # "on" /\ Fails("ValueError")
    /\ UNCHANGED <<clientVars, dashVars>>

StartServer ==
    /\ MainTurn("server")
    /\ srv' = [srv EXCEPT !.pc = "starting"]
    /\ Moves("credentials")
    /\ UNCHANGED <<setup, left, cl, file, dashVars>>

CredentialsExist == ServerUp \/ srv.exit \in {"0", "failed"}

AwaitCredentials ==
    /\ MainTurn("credentials")
    /\ \/ CredentialsExist /\ Moves("launch")
       \/ srv.pc = "gone" /\ ~CredentialsExist /\ Unwinds("RuntimeError")
       \/ srv.pc = "starting" /\ Unwinds("TimeoutError")
    /\ UNCHANGED <<clientVars, dashVars>>

Launch(c) ==
    /\ MainTurn("launch") /\ c = setup.roster[main.i]
    /\ cl' = [cl EXCEPT ![c] = Process("rotate")]
    /\ main' = IF main.i < Len(setup.roster) THEN [main EXCEPT !.i = @ + 1]
               ELSE [main EXCEPT !.i = 1, !.pc = "run"]
    /\ UNCHANGED <<setup, left, srv, file, dashVars>>

-----------------------------------------------------------------------------
(* Waiting                                                                 *)

AwaitServer ==
    /\ MainTurn("run")
    /\ \/ srv.pc = "gone" /\ Moves("collect")
       \/ srv.pc # "gone" /\ Unwinds("TimeoutError")
    /\ UNCHANGED <<clientVars, dashVars>>

\* The next client, or the end of the try block.
NextClient(m) ==
    IF m.i < Len(setup.roster) THEN [m EXCEPT !.i = @ + 1] ELSE [m EXCEPT !.pc = "stop", !.i = 1]

Exited(c) ==
    /\ MainTurn("collect") /\ c = setup.roster[main.i] /\ ~Alive(cl[c])
    /\ main' = NextClient([main EXCEPT !.codes[c] = cl[c].exit])
    /\ UNCHANGED <<clientVars, dashVars>>

GraceNeverOver(c) == FALSE
GraceIsOver(c) == Alive(cl[c])
Terminated(p) == IF Alive(p) THEN Dead(p) ELSE p

TimedOut(c) ==
    /\ MainTurn("collect") /\ c = setup.roster[main.i] /\ GraceIsOver(c)
    /\ cl' = [cl EXCEPT ![c] = Terminated(@)]
    /\ main' = NextClient([main EXCEPT !.codes[c] = "timed out"])
    /\ UNCHANGED <<setup, left, srv, file, dashVars>>

-----------------------------------------------------------------------------
(* finally, and the report                                                 *)

StopClient(c) ==
    /\ MainTurn("stop") /\ main.i <= Len(setup.roster) /\ c = setup.roster[main.i]
    /\ cl' = [cl EXCEPT ![c] = Terminated(@)]
    /\ main' = [main EXCEPT !.i = @ + 1]
    /\ UNCHANGED <<setup, left, srv, file, dashVars>>

StopServer ==
    /\ MainTurn("stop") /\ main.i > Len(setup.roster)
    /\ srv' = IF ServerAlive THEN [srv EXCEPT !.pc = "gone", !.exit = "killed"] ELSE srv
    /\ IF main.err = "none" THEN Moves("summarise") ELSE Fails(main.err)
    /\ UNCHANGED <<setup, left, cl, file, dashVars>>

\* The first log that does not parse ends it, as a report cut short does.
Torn == {c \in Range(setup.roster) : Written(file[c].units) = "RAISES"}

Summarise ==
    /\ main.pc = "summarise"
    /\ IF srv.report = "TORN" \/ Torn # {} THEN Fails("ValueError")
       ELSE main' = [main EXCEPT !.result = TRUE, !.signal = FALSE,
                        !.summaries = {c \in Range(setup.roster) : Written(file[c].units) = "SUMMARY"},
                        !.code = IF Clean THEN "0" ELSE "1",
                        !.pc = IF setup.live THEN "show" ELSE "stop_dashboard"]
    /\ UNCHANGED <<clientVars, dashVars>>

\* The page stays up until Ctrl+C, or until the dashboard exits by itself.
Show ==
    /\ MainTurn("show") /\ dash.pc = "gone"
    /\ Moves("stop_dashboard")
    /\ UNCHANGED <<clientVars, dashVars>>

StopDashboard ==
    /\ main.pc = "stop_dashboard"
    /\ dash' = IF DashboardAlive THEN [dash EXCEPT !.pc = "gone"] ELSE dash
    /\ Moves("done")
    /\ UNCHANGED <<clientVars, feed, web>>

-----------------------------------------------------------------------------
(* Ctrl+C                                                                  *)

CtrlC ==
    /\ main.pc \in setup.stops
    /\ Use("interrupt")
    /\ main' = [main EXCEPT !.signal = TRUE]
    /\ srv' = [srv EXCEPT !.signal = ServerAlive]
    /\ cl' = [c \in Clients |-> [cl[c] EXCEPT !.signal = Alive(cl[c])]]
    /\ dash' = [dash EXCEPT !.signal = DashboardAlive]
    /\ UNCHANGED <<setup, file, feed, web>>

\* Cancelled where it waits: the finally clause runs, unless it was running.
MainInterrupted ==
    /\ main.signal
    /\ \/ /\ main.pc \in {"credentials", "launch", "run", "collect"}
          /\ main' = [main EXCEPT !.pc = "stop", !.i = 1, !.err = "KeyboardInterrupt",
                                  !.signal = FALSE]
       \/ main.pc \in {"dashboard", "server", "stop", "show"} /\ Fails("KeyboardInterrupt")
    /\ UNCHANGED <<clientVars, dashVars>>

MainStep ==
    \/ MainBegins \/ AwaitDashboard \/ StartServer \/ AwaitCredentials \/ AwaitServer
    \/ \E c \in Clients : Launch(c) \/ Exited(c) \/ TimedOut(c) \/ StopClient(c)
    \/ StopServer \/ Summarise \/ Show \/ StopDashboard \/ MainInterrupted

LiveInit ==
    /\ ClientsInit /\ DashboardInit
    /\ main = [pc |-> IF setup.main THEN "begin" ELSE "absent", i |-> 1, err |-> "none",
               code |-> "none", codes |-> [c \in Clients |-> "none"], summaries |-> {},
               result |-> FALSE, signal |-> FALSE]

\* What processes do of themselves.
Running ==
    \/ (ServerNext \/ \E c \in Clients : ClientStep(c)) /\ UNCHANGED <<dashVars, main>>
    \/ (DashboardStep \/ \E v \in Viewers : ViewerStep(v)) /\ UNCHANGED main
    \/ MainStep

\* What happens to them.
Happening ==
    \/ (ServerFails \/ \E c \in Clients : LinkClosed(c) \/ Mishap(c)) /\ UNCHANGED <<dashVars, main>>
    \/ (\E v \in Viewers : Leaves(v)) /\ UNCHANGED main
    \/ CtrlC

LiveNext == Running \/ Happening

\* The operating system runs the processes, the server ticks and answers, and
\* time-outs run out; nothing else is promised.  As setup.limits lets nothing
\* go on for ever, fairness to all of them together is fairness to each.
LiveSpec == LiveInit /\ [][LiveNext]_liveVars /\ WF_liveVars(Running)

-----------------------------------------------------------------------------
(* Properties                                                              *)

IsStopping(p) == p.signal \/ p.pc \in {"ending", "reports"}

NothingLeftRunning ==
    /\ ServerAlive => srv.signal
    /\ DashboardAlive => dash.signal
    /\ \A c \in Clients : Alive(cl[c]) => IsStopping(cl[c])

\* When the orchestrator has returned, by whatever way, no process it started is
\* left running without having been told to stop.
NothingIsLeft ==
    main.pc = "done" => NothingLeftRunning

\* If it returned 0, the server's report is there and complete, every client
\* followed the run to its end, and its log is whole and summarised.
ZeroIsClean ==
    main.pc = "done" /\ main.code = "0" =>
        /\ main.result /\ srv.report = "FINISHED"
        /\ \A c \in Range(setup.roster) :
              /\ cl[c].exit = "0" /\ c \in main.summaries
              /\ HasEnded(file[c].units) /\ Last(file[c].units).rec.final = "finished"

\* Whatever crashes, stalls or is interrupted, the orchestrator comes to its
\* end, or to the page it keeps up on purpose.
MainReturns == setup.main => <>(main.pc \in {"done", "show"})
=============================================================================

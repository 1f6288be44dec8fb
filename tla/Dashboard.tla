----------------------------- MODULE Dashboard -----------------------------
(***************************************************************************)
(* The live dashboard: one process that tails the evidence files of all    *)
(* clients (Feed.poll), keeps a view of every station, and pushes frames   *)
(* to browsers that may be slow (Dashboard.viewer, publish).               *)
(*                                                                         *)
(* A poll looks at the files one by one, and at each in two steps, stat    *)
(* and read, between which the other processes go on; browsers are only    *)
(* served between polls.  A poll that would find nothing new is left out.  *)
(***************************************************************************)
EXTENDS Evidence

CONSTANT Viewers

\* So much is read of a file at once.
ASSUME DashboardAssumption == \A s \in Setups : s.chunk \in Nat

VARIABLES
    dash,       \* the process
    feed,       \* Feed
    web         \* the connections of the browsers, and what they show

dashVars == <<dash, feed, web>>

NoStation == [known |-> FALSE, status |-> "none", connection |-> "none", tick |-> Never,
              confirmed |-> 0, rejected |-> 0, trades |-> 0, ended |-> FALSE]
NewStation == [NoStation EXCEPT !.known = TRUE, !.status = "connecting"]

\* ingest: a new process of the station starts its view afresh.
Ingest(station, r) ==
    LET s == IF station.known /\ r.kind # "run_start" THEN station ELSE NewStation IN
    CASE r.kind = "decision" -> [s EXCEPT !.tick = r.tick, !.trades = @ + Cardinality(r.new)]
      [] r.kind = "status" -> [s EXCEPT !.status = r.status]
      [] r.kind = "connection" -> [s EXCEPT !.connection = r.event]
      [] r.kind = "run_end" -> [s EXCEPT !.ended = TRUE]
      [] r.kind = "command" /\ r.answer = "OK" -> [s EXCEPT !.confirmed = @ + 1]
      [] r.kind = "command" /\ r.answer \in {"REFUSED", "PROTOCOL"} -> [s EXCEPT !.rejected = @ + 1]
      [] OTHER -> s

\* What is kept of an unfinished line is joined with whatever is read next.
IngestUnit(t, u) ==
    LET read == [t EXCEPT !.station = Ingest(@, u.rec), !.partial = "none", !.news = TRUE,
                          !.restarted = @ \/ u.rec.kind = "run_start"]
    IN  CASE u.part = "head" -> [t EXCEPT !.partial = IF @ = "none" THEN "head" ELSE "junk"]
          [] u.part = "whole" /\ t.partial = "none" -> read
          [] u.part = "tail" /\ t.partial = "head" -> read
          [] OTHER -> [t EXCEPT !.partial = "none"]

IngestAllAnew(station, partial, units) ==
    FoldLeft(IngestUnit,
             [station |-> station, partial |-> "none", news |-> FALSE, restarted |-> FALSE], units)
IngestAll(station, partial, units) ==
    FoldLeft(IngestUnit,
             [station |-> station, partial |-> partial, news |-> FALSE, restarted |-> FALSE], units)

\* The values of the server's report take the place of what the log says.
Overlaid(final, station) ==
    IF final /\ station.known
    THEN [station EXCEPT !.status = "finished", !.ended = TRUE, !.tick = setup.ticks]
    ELSE station

-----------------------------------------------------------------------------
(* Feed.poll                                                               *)

NewCursor == [inode |-> 0, offset |-> 0, partial |-> "none"]

Changed(c) == Exists(file[c]) /\ \/ feed.cursor[c].inode # file[c].inode
                                 \/ feed.cursor[c].offset # Len(file[c].units)
UnreadReport == srv.report = "FINISHED" /\ ~feed.final

\* The file that is looked at next: a new poll starts with the first.
Todo == IF feed.at = "idle" THEN setup.roster ELSE feed.todo
MayPoll == \/ feed.at = "stat" /\ feed.todo # <<>>
           \/ /\ feed.at = "idle" /\ (UnreadReport \/ \E c \in Clients : Changed(c))
              /\ \A c \in Range(setup.roster) : cl[c].pc \in setup.polls

\* Another inode, or a file that shrank: from the beginning.
MustReset(cursor, f) == cursor.inode # f.inode \/ Len(f.units) < cursor.offset

PollStat(c) ==
    /\ dash.pc = "on" /\ MayPoll /\ c = Head(Todo)
    /\ \E reset \in {Exists(file[c]) /\ MustReset(feed.cursor[c], file[c])} :
       \E found \in {[feed EXCEPT
                        !.todo = Todo, !.news = feed.at # "idle" /\ @,
                        !.cursor[c] = IF reset THEN [NewCursor EXCEPT !.inode = file[c].inode] ELSE @,
                        !.stations[c] = IF reset THEN NoStation ELSE @]} :
           feed' = IF ~Exists(file[c]) \/ Len(file[c].units) = found.cursor[c].offset
                   THEN [found EXCEPT !.at = "stat", !.todo = Tail(@)]
                   ELSE [found EXCEPT !.at = "read"]
    /\ UNCHANGED <<clientVars, dash, web>>

\* The file that is opened may be another one than the one looked at.
PollRead(c) ==
    /\ dash.pc = "on" /\ feed.at = "read" /\ c = Head(feed.todo)
    /\ \E from \in {feed.cursor[c].offset} :
       \E to \in {Max({from, Min({from + setup.chunk, Len(file[c].units)})})} :
       \E t \in {IngestAll(feed.stations[c], feed.cursor[c].partial,
                           SubSeq(file[c].units, from + 1, to))} :
           feed' = [feed EXCEPT
               !.at = "stat", !.todo = Tail(@),
               !.cursor[c].offset = to, !.cursor[c].partial = t.partial,
               !.stations[c] = t.station,
               !.finished = @ /\ ~t.restarted,
               !.news = @ \/ t.news, !.dirty = @ \/ t.news]
    /\ UNCHANGED <<clientVars, dash, web>>

\* The report last, and its values over whatever was read in this poll; a
\* report that is half written is read again later.
PollReport ==
    /\ dash.pc = "on" /\ feed.at = "stat" /\ feed.todo = <<>>
    /\ \E final \in {feed.final \/ UnreadReport} :
           feed' = [feed EXCEPT
               !.at = "idle", !.final = final, !.finished = @ \/ UnreadReport,
               !.dirty = @ \/ UnreadReport,
               !.stations = IF feed.news \/ UnreadReport
                            THEN [c \in Clients |-> Overlaid(final, @[c])] ELSE @]
    /\ UNCHANGED <<clientVars, dash, web>>

-----------------------------------------------------------------------------
(* Browsers                                                                *)

NoFrame == [finished |-> FALSE, stations |-> <<>>]
Frame == [finished |-> feed.finished, stations |-> feed.stations]

Serving == dash.pc = "on" /\ feed.at = "idle"

\* replace_pending: a frame that was not sent yet gives way to the newest.
KeepPending(w, frame) == IF w.pending = NoFrame THEN [w EXCEPT !.pending = frame] ELSE w
ReplacePending(w, frame) == [w EXCEPT !.pending = frame]

\* A revision is published once, to whoever is there.
Publish ==
    /\ Serving /\ feed.dirty
    /\ feed' = [feed EXCEPT !.dirty = FALSE]
    /\ \E frame \in {Frame} :
           web' = [v \in Viewers |-> IF web[v].on THEN ReplacePending(web[v], frame) ELSE web[v]]
    /\ UNCHANGED <<clientVars, dash>>

\* A browser, new or back after its page's second, gets a frame at once.
Joins(v) ==
    /\ Serving /\ v \in setup.viewers /\ ~web[v].on
    /\ web' = [web EXCEPT ![v].on = TRUE, ![v].pending = Frame]
    /\ UNCHANGED <<clientVars, dash, feed>>

SendFrame(v) ==
    /\ Serving /\ web[v].on /\ web[v].pending # NoFrame
    /\ web' = [web EXCEPT ![v].shown = web[v].pending, ![v].pending = NoFrame]
    /\ UNCHANGED <<clientVars, dash, feed>>

\* A send that takes more than a second closes the connection, as leaving does.
Leaves(v) ==
    /\ Serving /\ web[v].on
    /\ Use("slow")
    /\ web' = [web EXCEPT ![v].on = FALSE, ![v].pending = NoFrame]
    /\ UNCHANGED <<setup, srv, cl, file, dash, feed>>

-----------------------------------------------------------------------------
(* The process                                                             *)

DashboardAlive == dash.pc \in {"starting", "on"}

DashboardStarts ==
    /\ dash.pc = "starting" /\ ~dash.signal
    /\ \/ dash' = [dash EXCEPT !.pc = "on"]
       \/ "NO_DASHBOARD" \in setup.faults /\ dash' = [dash EXCEPT !.pc = "gone"]
    /\ UNCHANGED <<clientVars, feed, web>>

DashboardInterrupted ==
    /\ dash.signal /\ DashboardAlive
    /\ dash' = [dash EXCEPT !.pc = "gone"]
    /\ UNCHANGED <<clientVars, feed, web>>

DashboardStep ==
    \/ DashboardStarts \/ DashboardInterrupted \/ PollReport \/ Publish
    \/ \E c \in Clients : PollStat(c) \/ PollRead(c)
ViewerStep(v) == Joins(v) \/ SendFrame(v)

DashboardInit ==
    /\ dash = [pc |-> IF setup.live /\ ~setup.main THEN "starting" ELSE "off", signal |-> FALSE]
    /\ feed = [at |-> "idle", todo |-> <<>>, cursor |-> [c \in Clients |-> NewCursor],
               stations |-> [c \in Clients |-> NoStation], dirty |-> FALSE, news |-> FALSE,
               final |-> FALSE, finished |-> FALSE]
    /\ web = [v \in Viewers |-> [on |-> FALSE, pending |-> NoFrame, shown |-> NoFrame]]

-----------------------------------------------------------------------------
(* Properties                                                              *)

LoggedStation(units) == IngestAll(NoStation, "none", units).station

\* Between polls, a station shows what the lines its cursor has passed say,
\* each of them counted once, and with the server's final values on top,
\* however lines were cut and whichever process of the client wrote them.
FeedFollowsLog ==
    \A c \in Clients :
        feed.at = "idle" /\ Exists(file[c]) /\ feed.cursor[c].inode = file[c].inode
            => feed.stations[c] =
                   Overlaid(feed.final, LoggedStation(SubSeq(file[c].units, 1, feed.cursor[c].offset)))

ShowsTheLogs(v) ==
    /\ web[v].shown # NoFrame
    /\ web[v].shown.finished = (srv.report = "FINISHED")
    /\ \A c \in Range(setup.roster) : file[c].units # <<>> =>
           web[v].shown.stations[c] = Overlaid(srv.report = "FINISHED", LoggedStation(file[c].units))

\* A browser that stays connected ends up showing what the logs and the report
\* say, whatever frames were replaced on the way.
ViewersCatchUp ==
    \A v \in Viewers : <>[](dash.pc = "on" /\ web[v].on) => <>[]ShowsTheLogs(v)
=============================================================================

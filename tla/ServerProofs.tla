---------------------------- MODULE ServerProofs ----------------------------
(***************************************************************************)
(* What the simulator's server guarantees towards any number of planets,   *)
(* connections and requests, in whatever order its handlers, start_run and *)
(* the ticker are resumed.                                                 *)
(***************************************************************************)
EXTENDS Server, FiniteSetTheorems, TLAPS

-----------------------------------------------------------------------------
(* Capacity and bounds *)

\* The bound on scheduled start_run tasks keeps the counter in range.
LEMMA StartsInRange ==
    ASSUME starts \in 0..MaxStarts
    PROVE  Min({starts + 1, MaxStarts}) \in 0..MaxStarts
<1> DEFINE S == {starts + 1, MaxStarts}
<1>1. MaxStarts \in Nat \ {0} /\ starts \in Nat
  BY ServerAssumption
<1>2. \E x \in S : \A y \in S : x <= y
  BY <1>1
<1>3. Min(S) \in S /\ \A y \in S : Min(S) <= y
  BY <1>2 DEF Min
<1> QED
  BY <1>1, <1>3

\* Storing one more result takes one more place of the planet's store.
LEMMA StoreGrowsByOne ==
    ASSUME TypeOK, NEW p \in Planet, NEW r \in RequestId,
           NEW b \in Body, NEW code \in StoredCode,
           Cardinality(StoredIds(p)) < MaxRecords,
           results' = [results EXCEPT ![p][r] = Stored(b, code)]
    PROVE  \A q \in Planet : Cardinality(StoredIds(q)') <= MaxRecords
<1> SUFFICES ASSUME NEW q \in Planet
             PROVE  Cardinality(StoredIds(q)') <= MaxRecords
  OBVIOUS
<1>1. CASE q # p
  <2>1. StoredIds(q)' = StoredIds(q)
    BY <1>1 DEF StoredIds, TypeOK
  <2> QED
    BY <2>1 DEF TypeOK
<1>2. CASE q = p
  <2>1. StoredIds(p) \in SUBSET RequestId /\ IsFiniteSet(StoredIds(p))
    BY FS_Subset, ServerAssumption DEF StoredIds
  <2>2. StoredIds(p)' = StoredIds(p) \cup {r}
    BY DEF StoredIds, TypeOK, Stored, NoResult, StoredCode, Outcome
  <2>3. Cardinality(StoredIds(p)) \in Nat
    BY <2>1, FS_CardinalityType
  <2>4. Cardinality(StoredIds(p) \cup {r})
          \in {Cardinality(StoredIds(p)), Cardinality(StoredIds(p)) + 1}
    BY <2>1, FS_AddElement
  <2> QED
    BY <1>2, <2>2, <2>3, <2>4, ServerAssumption
<1> QED
  BY <1>1, <1>2

-----------------------------------------------------------------------------
(* Types *)

\* The clock and the tasks of the run: nothing runs before the run starts,
\* and a run that is on has ticks left.
ClockInv ==
    /\ phase = "READY" => tick = 0 /\ tickers = 0 /\ starter = "NONE"
    /\ phase = "RUNNING" => tick < DurationTicks
    /\ starter = "TELLING" => tickers = 0

PendingAnswer ==
    [id : RequestId, body : Body, code : Code, then : {"NOBODY", "SELF", "ALL"}]

\* What each handler has in hand at its stage.
HandlerInv ==
    \A c \in Connection :
        /\ conn[c].stage # "NEW" => conn[c].planet \in Planet
        /\ Fencing(c) => conn[c].previous \in Connection
        /\ todo[c] # {} => conn[c].stage = "TELLING"
        /\ conn[c].stage = "ANSWERING" => answer[c] \in PendingAnswer

\* A place of the store is empty or holds the result of some body.
StoreInv ==
    \A p \in Planet, r \in RequestId :
        \/ results[p][r] = NoResult
        \/ results[p][r] \in [body : Body, code : StoredCode]

TypeInv == TypeOK /\ ClockInv /\ HandlerInv /\ StoreInv

\* One step of a handler, a client, a broadcast or the run.
LEMMA StepCases ==
    ASSUME [Next]_vars
    PROVE  \/ \E c \in Connection :
                \/ HandlerBegins(c) \/ FenceSent(c) \/ FenceCloses(c)
                \/ FenceDone(c) \/ AckSent(c) \/ AnswerSent(c)
                \/ LeavingCloses(c) \/ HandlerEnds(c)
                \/ Authenticate(c) \/ HandshakeFails(c) \/ Disconnect(c)
                \/ Stall(c) \/ OnReady(c) \/ OnSync(c) \/ OnFatalMessage(c)
                \/ OnCommand(c)
           \/ \E t \in Task, c \in Connection : Tell(t, c)
           \/ StartRun \/ StarterDone \/ Tick \/ TickerDone
           \/ UNCHANGED vars
  BY DEF Next, HandlerStep, ClientStep, Telling, RunStep

ConnRecord ==
    [stage : Stage, planet : Planet \cup {0}, open : BOOLEAN, ready : BOOLEAN,
     previous : Connection \cup {Nobody}]

ConnType == [Connection -> ConnRecord]

AnswerType ==
    [Connection -> [id : RequestId \cup {Nobody}, body : Body \cup {Nobody},
                    code : Code \cup {"NONE"},
                    then : {"NONE", "NOBODY", "SELF", "ALL"}]]

\* One connection's record is replaced by another.
LEMMA Replaced ==
    ASSUME NEW f \in ConnType, NEW c \in Connection, NEW r \in ConnRecord
    PROVE  [f EXCEPT ![c] = r] \in ConnType
  BY DEF ConnType

\* No step of a handler or of a broadcast makes a connection ill formed.
LEMMA ConnTypeStep ==
    ASSUME TypeInv, [Next]_vars
    PROVE  conn' \in ConnType
<1>0. conn \in ConnType
  BY DEF TypeInv, TypeOK, ConnType, ConnRecord
<1>1. /\ \A p \in Planet : seats[p] \in Connection \cup {Nobody}
      /\ \A c \in Connection : conn[c].stage = "ACCEPTED" =>
            conn[c].planet \in Planet
      /\ \A c \in Connection : Fencing(c) => conn[c].previous \in Connection
  BY DEF TypeInv, TypeOK, ConnType, ConnRecord, HandlerInv
<1> USE DEF ConnType, ConnRecord
<1>2. ASSUME NEW c \in Connection, NEW s \in Stage,
             conn' = [conn EXCEPT ![c].stage = s]
      PROVE  conn' \in ConnType
  BY <1>0, <1>2
<1>3. ASSUME NEW c \in Connection, NEW s \in Stage,
             NEW d \in Connection \cup {Nobody},
             conn' = [conn EXCEPT ![c].stage = s, ![c].previous = d]
      PROVE  conn' \in ConnType
  <2>1. \A r \in ConnRecord :
            [r EXCEPT !.stage = s, !.previous = d] \in ConnRecord
    OBVIOUS
  <2>2. conn' = [conn EXCEPT ![c] = [@ EXCEPT !.stage = s, !.previous = d]]
    BY <1>3
  <2> QED
    BY <1>0, <2>1, <2>2, Replaced
<1>4. ASSUME NEW c \in Connection, NEW s \in Stage, NEW b \in BOOLEAN,
             \/ conn' = [conn EXCEPT ![c].stage = s, ![c].ready = b]
             \/ conn' = [conn EXCEPT ![c].ready = b, ![c].stage = s]
             \/ conn' = [conn EXCEPT ![c].stage = s, ![c].open = b]
             \/ conn' = [conn EXCEPT ![c].open = b]
      PROVE  conn' \in ConnType
  <2>1. \A r \in ConnRecord :
            /\ [r EXCEPT !.stage = s, !.ready = b] \in ConnRecord
            /\ [r EXCEPT !.ready = b, !.stage = s] \in ConnRecord
            /\ [r EXCEPT !.stage = s, !.open = b] \in ConnRecord
            /\ [r EXCEPT !.open = b] \in ConnRecord
    OBVIOUS
  <2>2. \/ conn' = [conn EXCEPT ![c] = [@ EXCEPT !.stage = s, !.ready = b]]
        \/ conn' = [conn EXCEPT ![c] = [@ EXCEPT !.ready = b, !.stage = s]]
        \/ conn' = [conn EXCEPT ![c] = [@ EXCEPT !.stage = s, !.open = b]]
        \/ conn' = [conn EXCEPT ![c] = [@ EXCEPT !.open = b]]
    BY <1>4
  <2>3. conn[c] \in ConnRecord
    BY <1>0
  <2> HIDE DEF ConnRecord
  <2>4. PICK r \in ConnRecord : conn' = [conn EXCEPT ![c] = r]
    BY <2>1, <2>2, <2>3, Zenon
  <2> QED
    BY <1>0, <2>4, Replaced
<1>5. ASSUME NEW c \in Connection, NEW p \in Planet,
             conn' = [conn EXCEPT ![c].stage = "ACCEPTED", ![c].planet = p,
                                  ![c].open = TRUE]
      PROVE  conn' \in ConnType
  <2>1. [conn[c] EXCEPT !.stage = "ACCEPTED", !.planet = p, !.open = TRUE]
            \in ConnRecord
    <3>1. \A r \in ConnRecord :
              [r EXCEPT !.stage = "ACCEPTED", !.planet = p, !.open = TRUE]
                  \in ConnRecord
      BY DEF Stage
    <3> QED
      BY <1>0, <3>1
  <2>2. conn' = [conn EXCEPT ![c] = [@ EXCEPT !.stage = "ACCEPTED",
                                              !.planet = p, !.open = TRUE]]
    BY <1>5
  <2> QED
    BY <1>0, <2>1, <2>2
<1> HIDE DEF ConnType, ConnRecord
<1>6. ASSUME NEW c \in Connection, HandlerBegins(c)
      PROVE  conn' \in ConnType
  <2>1. seats[conn[c].planet] \in Connection \cup {Nobody}
    BY <1>1, <1>6 DEF HandlerBegins
  <2>2. CASE TakeSeat(c)
    BY <1>3, <2>2, Zenon DEF TakeSeat, Stage
  <2>3. CASE conn' = [conn EXCEPT ![c].stage = "FENCING",
                                  ![c].previous = seats[conn[c].planet]]
    BY <1>3, <2>1, <2>3, Zenon DEF Stage
  <2> QED
    BY <1>6, <2>2, <2>3 DEF HandlerBegins
<1>7. ASSUME NEW c \in Connection,
             FenceSent(c) \/ AckSent(c) \/ AnswerSent(c) \/ OnSync(c)
               \/ OnFatalMessage(c) \/ OnCommand(c)
      PROVE  conn' \in ConnType
  <2>1. PICK s \in Stage : conn' = [conn EXCEPT ![c].stage = s]
    BY <1>7 DEF Goto, Stage, FenceSent, AckSent, AnswerSent, OnSync,
       OnFatalMessage, OnCommand, Known, OverCapacity, Processed, Answering
  <2> QED
    BY <1>2, <2>1
<1>8. ASSUME NEW c \in Connection,
             LeavingCloses(c) \/ HandlerEnds(c) \/ HandshakeFails(c)
               \/ Disconnect(c)
      PROVE  conn' \in ConnType
  BY <1>4, <1>8, Zenon DEF Stage, LeavingCloses, HandlerEnds, HandshakeFails,
     Disconnect
<1>9. ASSUME NEW c \in Connection, OnReady(c)
      PROVE  conn' \in ConnType
  <2>1. PICK b \in BOOLEAN :
            conn' = [conn EXCEPT ![c].ready = b, ![c].stage = "ACKING"]
    BY <1>9 DEF OnReady
  <2> QED
    BY <1>4, <2>1, Zenon DEF Stage
<1>10. ASSUME NEW c \in Connection, Authenticate(c)
      PROVE  conn' \in ConnType
  <2>1. PICK p \in Planet : conn' = [conn EXCEPT ![c].stage = "ACCEPTED",
                                       ![c].planet = p, ![c].open = TRUE]
    BY <1>10, Zenon DEF Authenticate, Assigned, Free
  <2> QED
    BY <1>5, <2>1, Zenon
<1>11. ASSUME NEW c \in Connection, FenceCloses(c)
      PROVE  conn' \in ConnType
  BY <1>1, <1>4, <1>11, Zenon DEF FenceCloses, Fencing, Stage
<1>12. ASSUME NEW t \in Task, NEW c \in Connection, Tell(t, c)
      PROVE  conn' \in ConnType
  BY <1>0, <1>2, <1>12, Zenon DEF Tell, Stage
<1>13. \A c \in Connection : FenceDone(c) => conn' \in ConnType
  BY <1>3, Zenon DEF FenceDone, TakeSeat, Stage
<1>14. \A c \in Connection : Stall(c) => UNCHANGED conn
  BY DEF Stall
<1>15. StartRun \/ StarterDone \/ Tick \/ TickerDone \/ UNCHANGED vars
           => UNCHANGED conn
  BY DEF StartRun, StarterDone, Tick, TickerDone, vars
<1> QED
  BY <1>0, <1>6, <1>7, <1>8, <1>9, <1>10, <1>11, <1>12, <1>13, <1>14, <1>15,
     StepCases

\* The result code is stored under request r of planet p, and r is executed if
\* that is what code says.
Stores(p, r, b, code) ==
    /\ results[p][r] = NoResult
    /\ Cardinality(StoredIds(p)) < MaxRecords
    /\ results' = [results EXCEPT ![p][r] = Stored(b, code)]
    /\ ran' = [ran EXCEPT ![p][r] = @ + (IF code \in Outcome THEN 1 ELSE 0)]
    /\ fresh' = {}

\* A command is answered, and either leaves the store alone or is executed and
\* takes a free place of it.
LEMMA CommandCases ==
    ASSUME TypeInv, NEW c \in Connection, OnCommand(c)
    PROVE  /\ conn[c].planet \in Planet /\ conn[c].stage = "SERVING"
           /\ \E a \in PendingAnswer :
                  /\ answer' = [answer EXCEPT ![c] = a]
                  /\ Goto(c, "ANSWERING")
           /\ \/ UNCHANGED <<results, ran, fresh>>
              \/ \E r \in RequestId, b \in Body, code \in StoredCode :
                     Stores(conn[c].planet, r, b, code)
<1>1. conn[c].planet \in Planet /\ conn[c].stage = "SERVING"
  BY DEF OnCommand, Handles, TypeInv, HandlerInv
<1>2. PICK r \in RequestId, b \in Body :
          Known(c, r, b) \/ OverCapacity(c, r, b) \/ Processed(c, r, b)
  BY DEF OnCommand
<1>3. \/ results[conn[c].planet][r] = NoResult
      \/ results[conn[c].planet][r].code \in StoredCode
  BY <1>1 DEF TypeInv, StoreInv
<1>4. CASE Known(c, r, b)
  <2>1. PICK code \in Code, then \in {"NOBODY", "SELF", "ALL"} :
            Answering(c, r, b, code, then)
    BY <1>3, <1>4 DEF Known, Code, StoredCode, Outcome
  <2> QED
    BY <1>1, <1>4, <2>1 DEF Answering, PendingAnswer, Known
<1>5. CASE OverCapacity(c, r, b)
  BY <1>1, <1>5 DEF OverCapacity, Answering, PendingAnswer, Code
<1>6. CASE Processed(c, r, b)
  <2>1. PICK code \in StoredCode :
            /\ code \in Outcome <=> phase = "RUNNING"
            /\ results' = [results EXCEPT
                               ![conn[c].planet][r] = Stored(b, code)]
            /\ Answering(c, r, b, code, "ALL")
    BY <1>6 DEF Processed, StoredCode, Outcome
  <2> QED
    BY <1>1, <1>6, <2>1
    DEF Processed, Answering, PendingAnswer, Code, Stores
<1> QED
  BY <1>2, <1>4, <1>5, <1>6

\* Each handler keeps in hand what its stage needs: a planet after the
\* handshake, an old connection while fencing, an answer while answering.
LEMMA HandlerInvStep ==
    ASSUME TypeInv, [Next]_vars
    PROVE  HandlerInv'
<1>1. conn \in ConnType /\ HandlerInv
  BY DEF TypeInv, TypeOK, ConnType, ConnRecord
<1>2. /\ seats \in [Planet -> Connection \cup {Nobody}]
      /\ todo \in [Task -> SUBSET Connection]
      /\ answer \in AnswerType
      /\ Connection \subseteq Task
  BY DEF TypeInv, TypeOK, Task, AnswerType
<1> USE DEF ConnType, ConnRecord, AnswerType, HandlerInv, Fencing
<1>3. ASSUME NEW c \in Connection, HandlerBegins(c)
      PROVE  HandlerInv'
  <2>1. seats[conn[c].planet] \in Connection \cup {Nobody}
    BY <1>1, <1>2, <1>3 DEF HandlerBegins
  <2>2. CASE TakeSeat(c)
    BY <1>1, <1>2, <1>3, <2>2 DEF HandlerBegins, TakeSeat
  <2>3. CASE /\ seats[conn[c].planet] # Nobody
             /\ conn' = [conn EXCEPT ![c].stage = "FENCING",
                                     ![c].previous = seats[conn[c].planet]]
             /\ UNCHANGED <<seats, todo>>
    BY <1>1, <1>2, <1>3, <2>1, <2>3 DEF HandlerBegins
  <2> QED
    BY <1>3, <2>2, <2>3 DEF HandlerBegins
<1>4. ASSUME NEW c \in Connection, FenceSent(c)
      PROVE  HandlerInv'
  BY <1>1, <1>2, <1>4 DEF FenceSent, Goto
<1>5. ASSUME NEW c \in Connection, FenceCloses(c)
      PROVE  HandlerInv'
  BY <1>1, <1>2, <1>5 DEF FenceCloses
<1>6. ASSUME NEW c \in Connection, FenceDone(c)
      PROVE  HandlerInv'
  BY <1>1, <1>2, <1>6 DEF FenceDone, TakeSeat
<1>7. ASSUME NEW c \in Connection, AckSent(c)
      PROVE  HandlerInv'
  BY <1>1, <1>2, <1>7 DEF AckSent, Goto
<1>8. ASSUME NEW c \in Connection, AnswerSent(c)
      PROVE  HandlerInv'
  BY <1>1, <1>2, <1>8 DEF AnswerSent, Goto, ToTell
<1>9. ASSUME NEW c \in Connection, LeavingCloses(c)
      PROVE  HandlerInv'
  BY <1>1, <1>2, <1>9 DEF LeavingCloses
<1>10. ASSUME NEW c \in Connection, HandlerEnds(c)
      PROVE  HandlerInv'
  BY <1>1, <1>2, <1>10 DEF HandlerEnds
<1>11. ASSUME NEW c \in Connection, Authenticate(c)
      PROVE  HandlerInv'
  BY <1>1, <1>2, <1>11 DEF Authenticate, Assigned, Free
<1>12. ASSUME NEW c \in Connection, HandshakeFails(c)
      PROVE  HandlerInv'
  BY <1>1, <1>2, <1>12 DEF HandshakeFails
<1>13. ASSUME NEW c \in Connection, Disconnect(c)
      PROVE  HandlerInv'
  BY <1>1, <1>2, <1>13 DEF Disconnect
<1>14. ASSUME NEW c \in Connection, Stall(c)
      PROVE  HandlerInv'
  BY <1>1, <1>2, <1>14 DEF Stall
<1>15. ASSUME NEW c \in Connection, OnReady(c)
      PROVE  HandlerInv'
  BY <1>1, <1>2, <1>15 DEF OnReady, Handles
<1>16. ASSUME NEW c \in Connection, OnSync(c)
      PROVE  HandlerInv'
  BY <1>1, <1>2, <1>16 DEF OnSync, Handles, Goto
<1>17. ASSUME NEW c \in Connection, OnFatalMessage(c)
      PROVE  HandlerInv'
  BY <1>1, <1>2, <1>17 DEF OnFatalMessage, Handles, Goto
<1>18. ASSUME NEW c \in Connection, OnCommand(c)
      PROVE  HandlerInv'
  <2>1. PICK a \in PendingAnswer : /\ answer' = [answer EXCEPT ![c] = a]
                                   /\ Goto(c, "ANSWERING")
    BY <1>18, CommandCases
  <2> QED
    BY <1>1, <1>2, <1>18, <2>1 DEF OnCommand, Handles, Goto
<1>19. ASSUME NEW t \in Task, NEW c \in Connection, Tell(t, c)
      PROVE  HandlerInv'
  BY <1>1, <1>2, <1>19 DEF Tell, Untold
<1>20. CASE StartRun
  BY <1>1, <1>2, <1>20, ServerAssumption DEF StartRun, MayStart, Seated, Task
<1>21. CASE StarterDone
  BY <1>1, <1>2, <1>21, ServerAssumption DEF StarterDone, Task
<1>22. CASE Tick
  BY <1>1, <1>2, <1>22, ServerAssumption DEF Tick, Advancing, Seated, Task
<1>23. CASE TickerDone
  BY <1>1, <1>2, <1>23, ServerAssumption DEF TickerDone, Advancing, Task
<1>24. CASE UNCHANGED vars
  BY <1>1, <1>2, <1>24, ServerAssumption DEF vars, Task
<1> QED
  BY <1>3, <1>4, <1>5, <1>6, <1>7, <1>8, <1>9, <1>10, <1>11, <1>12, <1>13,
     <1>14, <1>15, <1>16, <1>17, <1>18, <1>19, <1>20, <1>21, <1>22, <1>23,
     <1>24, StepCases

\* The types of everything but the connections.
RestOK ==
    /\ openAuth \in BOOLEAN
    /\ phase \in {"READY", "RUNNING", "FINISHED"}
    /\ tick \in 0..DurationTicks
    /\ answer \in AnswerType
    /\ seats \in [Planet -> Connection \cup {Nobody}]
    /\ claimed \subseteq Planet
    /\ results \in [Planet -> [RequestId ->
                      [body : Body \cup {Nobody},
                       code : StoredCode \cup {"NONE"}]]]
    /\ \A p \in Planet : Cardinality(StoredIds(p)) <= MaxRecords
    /\ todo \in [Task -> SUBSET Connection]
    /\ starts \in 0..MaxStarts /\ starter \in {"NONE", "TELLING"}
    /\ ticker \in {"NONE", "SLEEPING", "TELLING", "DONE"}
    /\ tickers \in Nat
    /\ stalled \subseteq Connection /\ fresh \subseteq Connection
    /\ ran \in [Planet -> [RequestId -> Nat]]
    /\ answers \subseteq [planet : Planet, id : RequestId, body : Body,
                          code : Code]

\* TypeOK is the type of the connections and the types of all else.
LEMMA TypeParts == TypeOK <=> conn \in ConnType /\ RestOK
  BY DEF TypeOK, RestOK, ConnType, ConnRecord, AnswerType

\* No step leaves the other variables' types, or overfills a store.
LEMMA RestOKStep ==
    ASSUME TypeInv, [Next]_vars
    PROVE  RestOK'
<1>1. conn \in ConnType /\ HandlerInv /\ RestOK /\ ClockInv /\ StoreInv
  BY TypeParts DEF TypeInv
<1>2. Connection \subseteq Task /\ "STARTER" \in Task /\ "TICKER" \in Task
  BY DEF Task
<1>3. UNCHANGED results =>
          \A p \in Planet : Cardinality(StoredIds(p)') <= MaxRecords
  BY <1>1 DEF RestOK, StoredIds
<1> USE DEF RestOK, run
<1>4. ASSUME NEW c \in Connection, HandlerBegins(c)
      PROVE  RestOK'
  <2>1. CASE TakeSeat(c)
    BY <1>1, <1>2, <1>3, <1>4, <2>1 DEF HandlerBegins, TakeSeat
  <2>2. CASE UNCHANGED <<seats, todo>>
    BY <1>1, <1>3, <1>4, <2>2 DEF HandlerBegins
  <2> QED
    BY <1>4, <2>1, <2>2 DEF HandlerBegins
<1>5. ASSUME NEW c \in Connection, FenceSent(c)
      PROVE  RestOK'
  BY <1>1, <1>2, <1>3, <1>5 DEF FenceSent, Goto, HandlerInv
<1>6. ASSUME NEW c \in Connection, FenceCloses(c)
      PROVE  RestOK'
  BY <1>1, <1>2, <1>3, <1>6 DEF FenceCloses, HandlerInv
<1>7. ASSUME NEW c \in Connection, FenceDone(c)
      PROVE  RestOK'
  BY <1>1, <1>2, <1>3, <1>7 DEF FenceDone, TakeSeat, HandlerInv
<1>8. ASSUME NEW c \in Connection, AckSent(c)
      PROVE  RestOK'
  <2>1. starts' \in 0..MaxStarts
    BY <1>1, <1>8, StartsInRange DEF AckSent
  <2> QED
    BY <1>1, <1>3, <1>8, <2>1 DEF AckSent
<1>9. ASSUME NEW c \in Connection, AnswerSent(c)
      PROVE  RestOK'
  <2>1. /\ answer[c] \in PendingAnswer /\ conn[c].planet \in Planet
    BY <1>1, <1>9 DEF AnswerSent, HandlerInv
  <2>2. answers' \subseteq [planet : Planet, id : RequestId, body : Body,
                            code : Code]
    BY <1>1, <1>9, <2>1 DEF AnswerSent, PendingAnswer
  <2>3. ToTell(c) \subseteq Connection
    BY <1>1 DEF ToTell, Seated
  <2>4. todo' \in [Task -> SUBSET Connection]
    BY <1>1, <1>2, <1>9, <2>3 DEF AnswerSent
  <2>5. answer' \in AnswerType
    BY <1>1, <1>9 DEF AnswerSent, AnswerType, NoAnswer
  <2> QED
    BY <1>1, <1>3, <1>9, <2>2, <2>4, <2>5 DEF AnswerSent
<1>10. ASSUME NEW c \in Connection, LeavingCloses(c)
      PROVE  RestOK'
  BY <1>1, <1>2, <1>3, <1>10 DEF LeavingCloses, HandlerInv
<1>11. ASSUME NEW c \in Connection, HandlerEnds(c)
      PROVE  RestOK'
  BY <1>1, <1>2, <1>3, <1>11 DEF HandlerEnds, HandlerInv
<1>12. ASSUME NEW c \in Connection, Authenticate(c)
      PROVE  RestOK'
  BY <1>1, <1>2, <1>3, <1>12
  DEF Authenticate, Assigned, Free, ClaimedAt, HandlerInv
<1>13. ASSUME NEW c \in Connection, HandshakeFails(c)
      PROVE  RestOK'
  BY <1>1, <1>2, <1>3, <1>13 DEF HandshakeFails, HandlerInv
<1>14. ASSUME NEW c \in Connection, Disconnect(c)
      PROVE  RestOK'
  BY <1>1, <1>2, <1>3, <1>14 DEF Disconnect, HandlerInv
<1>15. ASSUME NEW c \in Connection, Stall(c)
      PROVE  RestOK'
  BY <1>1, <1>2, <1>3, <1>15 DEF Stall, HandlerInv
<1>16. ASSUME NEW c \in Connection, OnReady(c)
      PROVE  RestOK'
  BY <1>1, <1>2, <1>3, <1>16 DEF OnReady, Handles, HandlerInv
<1>17. ASSUME NEW c \in Connection, OnSync(c)
      PROVE  RestOK'
  BY <1>1, <1>2, <1>3, <1>17 DEF OnSync, Handles, Goto, HandlerInv
<1>18. ASSUME NEW c \in Connection, OnFatalMessage(c)
      PROVE  RestOK'
  BY <1>1, <1>2, <1>3, <1>18 DEF OnFatalMessage, Handles, Goto, HandlerInv
<1>19. ASSUME NEW c \in Connection, OnCommand(c)
      PROVE  RestOK'
  <2>1. answer' \in AnswerType
    BY <1>1, <1>19, CommandCases DEF AnswerType, PendingAnswer
  <2>2. /\ results' \in [Planet -> [RequestId ->
                           [body : Body \cup {Nobody},
                            code : StoredCode \cup {"NONE"}]]]
        /\ ran' \in [Planet -> [RequestId -> Nat]]
        /\ fresh' \subseteq Connection
        /\ \A p \in Planet : Cardinality(StoredIds(p)') <= MaxRecords
    <3>1. CASE UNCHANGED <<results, ran, fresh>>
      BY <1>1, <1>3, <3>1
    <3>2. CASE ~UNCHANGED <<results, ran, fresh>>
      <4>1. PICK r \in RequestId, b \in Body, code \in StoredCode :
                Stores(conn[c].planet, r, b, code)
        BY <1>19, <3>2, CommandCases
      <4>2. conn[c].planet \in Planet
        BY <1>19, CommandCases
      <4>3. \A p \in Planet : Cardinality(StoredIds(p)') <= MaxRecords
        BY <4>1, <4>2, StoreGrowsByOne DEF TypeInv, Stores
      <4>4. results' \in [Planet -> [RequestId ->
                            [body : Body \cup {Nobody},
                             code : StoredCode \cup {"NONE"}]]]
        BY <1>1, <4>1, <4>2 DEF Stores, Stored
      <4>5. ran' \in [Planet -> [RequestId -> Nat]]
        BY <1>1, <4>1, <4>2 DEF Stores
      <4> QED
        BY <4>1, <4>3, <4>4, <4>5 DEF Stores
    <3> QED
      BY <3>1, <3>2
  <2> QED
    BY <1>1, <1>19, <2>1, <2>2 DEF OnCommand
<1>20. ASSUME NEW t \in Task, NEW c \in Connection, Tell(t, c)
      PROVE  RestOK'
  BY <1>1, <1>2, <1>3, <1>20 DEF Tell, Untold
<1>21. CASE StartRun
  BY <1>1, <1>2, <1>3, <1>21, ServerAssumption
  DEF StartRun, MayStart, Seated, Task
<1>22. CASE StarterDone
  BY <1>1, <1>2, <1>3, <1>22, ServerAssumption DEF StarterDone, Task
<1>23. CASE Tick
  BY <1>1, <1>2, <1>3, <1>23, ServerAssumption
  DEF Tick, Advancing, Seated, ClockInv, Task
<1>24. CASE TickerDone
  BY <1>1, <1>2, <1>3, <1>24, ServerAssumption DEF TickerDone, Advancing, Task
<1>25. CASE UNCHANGED vars
  BY <1>1, <1>2, <1>3, <1>25, ServerAssumption DEF vars, Task
<1> QED
  BY <1>4, <1>5, <1>6, <1>7, <1>8, <1>9, <1>10, <1>11, <1>12, <1>13, <1>14,
     <1>15, <1>16, <1>17, <1>18, <1>19, <1>20, <1>21, <1>22, <1>23, <1>24,
     <1>25, StepCases

\* The actions of handlers, clients and broadcasts: the run is not theirs.
HandlerAction(c) ==
    \/ HandlerBegins(c) \/ FenceSent(c) \/ FenceCloses(c) \/ FenceDone(c)
    \/ AckSent(c) \/ AnswerSent(c) \/ LeavingCloses(c) \/ HandlerEnds(c)
    \/ Authenticate(c) \/ HandshakeFails(c) \/ Disconnect(c) \/ Stall(c)
    \/ OnReady(c) \/ OnSync(c) \/ OnFatalMessage(c) \/ OnCommand(c)
    \/ \E t \in Task : Tell(t, c)

\* Only start_run and the ticker change the run.
LEMMA RunIsLeftAlone ==
    ASSUME [Next]_vars
    PROVE  UNCHANGED run \/ StartRun \/ StarterDone \/ Tick \/ TickerDone
<1>1. ASSUME NEW c \in Connection, HandlerAction(c)
      PROVE  UNCHANGED run
  BY <1>1 DEF HandlerAction, HandlerBegins, FenceSent, FenceCloses, FenceDone,
     AckSent, AnswerSent, LeavingCloses, HandlerEnds, Authenticate,
     HandshakeFails, Disconnect, Stall, OnReady, OnSync, OnFatalMessage,
     OnCommand, Tell
<1> QED
  BY <1>1, StepCases DEF HandlerAction, vars

\* Only a command that is executed or refused changes what is stored.
LEMMA StoreIsLeftAlone ==
    ASSUME [Next]_vars
    PROVE  \/ UNCHANGED <<results, ran>>
           \/ \E c \in Connection : OnCommand(c)
<1>1. ASSUME NEW c \in Connection, HandlerAction(c), ~OnCommand(c)
      PROVE  UNCHANGED <<results, ran>>
  BY <1>1 DEF HandlerAction, HandlerBegins, FenceSent, FenceCloses, FenceDone,
     AckSent, AnswerSent, LeavingCloses, HandlerEnds, Authenticate,
     HandshakeFails, Disconnect, Stall, OnReady, OnSync, OnFatalMessage, Tell
<1>2. StartRun \/ StarterDone \/ Tick \/ TickerDone \/ UNCHANGED vars
          => UNCHANGED <<results, ran>>
  BY DEF StartRun, StarterDone, Tick, TickerDone, vars
<1> QED
  BY <1>1, <1>2, StepCases DEF HandlerAction

\* The clock stops with the run, and nothing ticks before start_run.
LEMMA ClockInvStep ==
    ASSUME TypeInv, [Next]_vars
    PROVE  ClockInv'
<1>1. /\ ClockInv /\ tick \in 0..DurationTicks /\ tickers \in Nat
      /\ DurationTicks \in Nat \ {0}
  BY ServerAssumption DEF TypeInv, TypeOK
<1>2. CASE UNCHANGED run
  BY <1>1, <1>2 DEF ClockInv, run
<1>3. CASE StartRun
  BY <1>1, <1>3 DEF ClockInv, StartRun, MayStart
<1>4. CASE StarterDone
  BY <1>1, <1>4 DEF ClockInv, StarterDone
<1>5. CASE Tick
  BY <1>1, <1>5 DEF ClockInv, Tick, Advancing
<1>6. CASE TickerDone
  BY <1>1, <1>6 DEF ClockInv, TickerDone
<1> QED
  BY <1>2, <1>3, <1>4, <1>5, <1>6, RunIsLeftAlone

\* What is stored stays well formed.
LEMMA StoreInvStep ==
    ASSUME TypeInv, [Next]_vars
    PROVE  StoreInv'
<1>1. /\ StoreInv
      /\ results \in [Planet -> [RequestId ->
                        [body : Body \cup {Nobody},
                         code : StoredCode \cup {"NONE"}]]]
  BY DEF TypeInv, TypeOK
<1>2. CASE UNCHANGED <<results, ran>>
  BY <1>1, <1>2 DEF StoreInv
<1>3. ASSUME NEW c \in Connection, OnCommand(c)
      PROVE  StoreInv'
  <2>1. conn[c].planet \in Planet
    BY <1>3, CommandCases
  <2>2. CASE UNCHANGED <<results, ran, fresh>>
    BY <1>1, <2>2 DEF StoreInv
  <2>3. CASE ~UNCHANGED <<results, ran, fresh>>
    <3>1. PICK r \in RequestId, b \in Body, code \in StoredCode :
              Stores(conn[c].planet, r, b, code)
      BY <1>3, <2>3, CommandCases
    <3> QED
      BY <1>1, <2>1, <3>1 DEF StoreInv, Stored, Stores
  <2> QED
    BY <2>2, <2>3
<1> QED
  BY <1>2, <1>3, StoreIsLeftAlone

\* The types, together with what each handler has in hand, are inductive.
LEMMA ServerTypeInv == Spec => []TypeInv
<1>1. Init => TypeInv
  <2> SUFFICES ASSUME Init PROVE TypeInv
    OBVIOUS
  <2>1. \A p \in Planet : StoredIds(p) = {}
    BY DEF Init, StoredIds
  <2>2. TypeOK
    <3>1. conn \in ConnType
      BY DEF Init, ConnType, ConnRecord, Stage
    <3>2. /\ answer \in AnswerType
          /\ results \in [Planet -> [RequestId ->
                            [body : Body \cup {Nobody},
                             code : StoredCode \cup {"NONE"}]]]
      BY DEF Init, AnswerType, NoAnswer, NoResult
    <3>3. \A p \in Planet : Cardinality(StoredIds(p)) <= MaxRecords
      BY <2>1, FS_EmptySet, ServerAssumption
    <3>4. openAuth \in BOOLEAN
      BY ServerAssumption DEF Init
    <3> QED
      BY <3>1, <3>2, <3>3, <3>4, TypeParts, ServerAssumption
      DEF Init, RestOK
  <2>3. ClockInv /\ StoreInv
    BY ServerAssumption DEF Init, ClockInv, StoreInv
  <2>4. HandlerInv
    BY DEF Init, HandlerInv, Fencing, Task
  <2> QED
    BY <2>2, <2>3, <2>4 DEF TypeInv
<1>2. TypeInv /\ [Next]_vars => TypeInv'
  BY ConnTypeStep, RestOKStep, HandlerInvStep, ClockInvStep, StoreInvStep,
     TypeParts DEF TypeInv, TypeOK, RestOK, ConnType, ConnRecord, AnswerType
<1> QED
  BY <1>1, <1>2, PTL DEF Spec

\* Every variable of the server keeps its type; the clock stops at the end of
\* the run and no planet's store grows over its capacity, whatever is sent
\* (_command's capacity check, advance).
THEOREM ServerTypeCorrect == Spec => []TypeOK
<1>1. TypeInv => TypeOK
  BY DEF TypeInv
<1> QED
  BY <1>1, ServerTypeInv, PTL

-----------------------------------------------------------------------------
(* Requests: executed once, answered alike *)

\* A request id is executed at most once, on whichever connections it is
\* retried, and exactly when the stored result says so (_command).
THEOREM RequestsExecutedOnce == Spec => []ExecutedOnce
<1>1. Init => ExecutedOnce
  BY DEF Init, ExecutedOnce, NoResult, Outcome
<1>2. ExecutedOnce /\ TypeInv /\ [Next]_vars => ExecutedOnce'
  <2> SUFFICES ASSUME ExecutedOnce, TypeInv, [Next]_vars
               PROVE  ExecutedOnce'
    OBVIOUS
  <2>1. CASE UNCHANGED <<results, ran>>
    BY <2>1 DEF ExecutedOnce
  <2>2. ASSUME NEW c \in Connection, NEW r \in RequestId, NEW b \in Body,
               NEW code \in StoredCode, conn[c].planet \in Planet,
               Stores(conn[c].planet, r, b, code)
        PROVE  ExecutedOnce'
    <3>1. ran[conn[c].planet][r] = 0
      BY <2>2 DEF ExecutedOnce, Stores, NoResult, Outcome
    <3> QED
      BY <2>2, <3>1 DEF ExecutedOnce, Stores, Stored, TypeInv, TypeOK
  <2> QED
    BY <2>1, <2>2, StoreIsLeftAlone, CommandCases
<1> QED
  BY <1>1, <1>2, ServerTypeInv, PTL DEF Spec

\* The code a body sent as request r is answered with, given the planet's
\* store: the stored one, a conflict with another body, or want of room.
CodeFits(store, r, b, code) ==
    \/ /\ store[r] # NoResult
       /\ code = IF store[r].body = b THEN store[r].code
                 ELSE "REQUEST_ID_CONFLICT"
    \/ /\ store[r] = NoResult
       /\ Cardinality({q \in RequestId : store[q] # NoResult}) >= MaxRecords
       /\ code = "REQUEST_CAPACITY_EXCEEDED"

\* Answers given and answers under way fit what is stored.
AnswersFit ==
    /\ \A a \in answers : CodeFits(results[a.planet], a.id, a.body, a.code)
    /\ \A c \in Connection : conn[c].stage = "ANSWERING" =>
           CodeFits(results[conn[c].planet], answer[c].id, answer[c].body,
                    answer[c].code)

\* No step but a command's answer puts an answer under way, and none but its
\* sending gives one.
LEMMA NoNewAnswer ==
    ASSUME TypeInv, [Next]_vars,
           \A c \in Connection : ~AnswerSent(c) /\ ~OnCommand(c)
    PROVE  /\ UNCHANGED <<answers, results>>
           /\ \A c \in Connection : conn'[c].stage = "ANSWERING" =>
                  /\ conn[c].stage = "ANSWERING"
                  /\ conn'[c].planet = conn[c].planet
                  /\ answer'[c] = answer[c]
<1> DEFINE Kept == /\ UNCHANGED <<answers, results>>
                   /\ \A c \in Connection : conn'[c].stage = "ANSWERING" =>
                          /\ conn[c].stage = "ANSWERING"
                          /\ conn'[c].planet = conn[c].planet
                          /\ answer'[c] = answer[c]
<1>1. conn \in [Connection -> ConnRecord]
  BY TypeParts DEF TypeInv, ConnType
<1>2. ASSUME NEW c \in Connection,
             HandlerBegins(c) \/ FenceSent(c) \/ FenceDone(c) \/ AckSent(c)
               \/ OnSync(c) \/ OnFatalMessage(c)
      PROVE  Kept
  BY <1>1, <1>2 DEF HandlerBegins, FenceSent, FenceDone, AckSent, OnSync,
     OnFatalMessage, TakeSeat, Goto, ConnRecord
<1>3. ASSUME NEW c \in Connection,
             FenceCloses(c) \/ LeavingCloses(c) \/ HandlerEnds(c)
               \/ HandshakeFails(c) \/ Disconnect(c) \/ Stall(c) \/ OnReady(c)
      PROVE  Kept
  <2>1. CASE FenceCloses(c)
    BY <1>1, <2>1 DEF FenceCloses, ConnRecord
  <2>2. CASE LeavingCloses(c) \/ Disconnect(c) \/ Stall(c)
    BY <1>1, <2>2 DEF LeavingCloses, Disconnect, Stall, ConnRecord
  <2>3. CASE HandlerEnds(c) \/ HandshakeFails(c)
    BY <1>1, <2>3 DEF HandlerEnds, HandshakeFails, ConnRecord
  <2>4. CASE OnReady(c)
    BY <1>1, <2>4 DEF OnReady, ConnRecord
  <2> QED
    BY <1>3, <2>1, <2>2, <2>3, <2>4
<1>4. ASSUME NEW c \in Connection, Authenticate(c)
      PROVE  Kept
  BY <1>1, <1>4 DEF Authenticate, ConnRecord
<1>5. ASSUME NEW t \in Task, NEW c \in Connection, Tell(t, c)
      PROVE  Kept
  BY <1>1, <1>5 DEF Tell, ConnRecord
<1>6. CASE StartRun \/ StarterDone \/ Tick \/ TickerDone \/ UNCHANGED vars
  BY <1>6 DEF StartRun, StarterDone, Tick, TickerDone, vars
<1> QED
  BY <1>2, <1>3, <1>4, <1>5, <1>6, StepCases

\* What fitted before a result is stored fits afterwards: a full store admits
\* nothing, and a stored result is never replaced.
LEMMA FitsStay ==
    ASSUME TypeInv, NEW p \in Planet, NEW r \in RequestId, NEW b \in Body,
           NEW code \in StoredCode, Stores(p, r, b, code),
           NEW q \in Planet, NEW id \in RequestId, NEW body, NEW given,
           CodeFits(results[q], id, body, given)
    PROVE  CodeFits(results'[q], id, body, given)
<1>1. results \in [Planet -> [RequestId ->
                     [body : Body \cup {Nobody},
                      code : StoredCode \cup {"NONE"}]]]
  BY DEF TypeInv, TypeOK
<1>2. CASE q = p
  <2>1. results[q][id] # NoResult /\ id # r
    BY <1>2, FS_CardinalityType, FS_Subset, ServerAssumption
    DEF CodeFits, Stores, StoredIds
  <2> QED
    BY <1>1, <1>2, <2>1 DEF CodeFits, Stores
<1>3. CASE q # p
  <2>1. results'[q] = results[q]
    BY <1>1, <1>3 DEF Stores
  <2> QED
    BY <2>1
<1> QED
  BY <1>2, <1>3

\* The answer a command is given fits what is stored once it is dealt with.
LEMMA CommandFits ==
    ASSUME TypeInv, NEW c \in Connection, OnCommand(c)
    PROVE  /\ conn'[c].planet = conn[c].planet
           /\ CodeFits(results'[conn[c].planet], answer'[c].id,
                       answer'[c].body, answer'[c].code)
           /\ \A d \in Connection \ {c} :
                  conn'[d] = conn[d] /\ answer'[d] = answer[d]
<1>1. /\ conn \in [Connection -> ConnRecord] /\ answer \in AnswerType
      /\ results \in [Planet -> [RequestId ->
                        [body : Body \cup {Nobody},
                         code : StoredCode \cup {"NONE"}]]]
      /\ conn[c].planet \in Planet
  BY TypeParts, CommandCases DEF TypeInv, ConnType, RestOK
<1>2. PICK r \in RequestId, b \in Body :
          Known(c, r, b) \/ OverCapacity(c, r, b) \/ Processed(c, r, b)
  BY DEF OnCommand
<1>3. PICK code, then : Answering(c, r, b, code, then)
  BY <1>2 DEF Known, OverCapacity, Processed
<1>4. /\ answer'[c].id = r /\ answer'[c].body = b
      /\ conn'[c].planet = conn[c].planet
      /\ \A d \in Connection \ {c} :
             conn'[d] = conn[d] /\ answer'[d] = answer[d]
  BY <1>1, <1>3 DEF Answering, Goto, ConnRecord, AnswerType
<1>5. CASE Known(c, r, b)
  BY <1>1, <1>4, <1>5 DEF Known, Answering, CodeFits, AnswerType
<1>6. CASE OverCapacity(c, r, b)
  BY <1>1, <1>4, <1>6 DEF OverCapacity, Answering, CodeFits, AnswerType,
     StoredIds
<1>7. CASE Processed(c, r, b)
  <2>1. PICK given \in StoredCode :
            /\ results' = [results EXCEPT
                               ![conn[c].planet][r] = Stored(b, given)]
            /\ Answering(c, r, b, given, "ALL")
    BY <1>7 DEF Processed, StoredCode, Outcome
  <2>2. results'[conn[c].planet][r] = Stored(b, given)
    BY <1>1, <2>1
  <2>3. answer'[c].code = given
    BY <1>1, <2>1 DEF Answering, AnswerType
  <2> QED
    BY <1>4, <2>2, <2>3
    DEF CodeFits, Stored, NoResult, StoredCode, Outcome
<1> QED
  BY <1>2, <1>4, <1>5, <1>6, <1>7

\* The same body sent under the same request id is given the same answer each
\* time, on whichever connection it is retried and even when the store is full
\* (_command: the stored result is looked up before anything else).
THEOREM RetriesAgree == Spec => []AnswersAgree
<1>1. Init => AnswersFit
  BY DEF Init, AnswersFit
<1>2. TypeInv /\ AnswersFit /\ [Next]_vars => AnswersFit'
  <2> SUFFICES ASSUME TypeInv, AnswersFit, [Next]_vars
               PROVE  AnswersFit'
    OBVIOUS
  <2>1. /\ conn \in [Connection -> ConnRecord] /\ answer \in AnswerType
        /\ answers \subseteq [planet : Planet, id : RequestId, body : Body,
                              code : Code]
        /\ \A c \in Connection : conn[c].stage = "ANSWERING" =>
               answer[c] \in PendingAnswer /\ conn[c].planet \in Planet
    BY TypeParts DEF TypeInv, ConnType, RestOK, HandlerInv
  <2>2. CASE \A c \in Connection : ~AnswerSent(c) /\ ~OnCommand(c)
    BY <2>2, NoNewAnswer DEF AnswersFit
  <2>3. ASSUME NEW c \in Connection, AnswerSent(c)
        PROVE  AnswersFit'
    <3>1. /\ UNCHANGED results
          /\ \A a \in answers' : a \in answers \/
                 a = [planet |-> conn[c].planet, id |-> answer[c].id,
                      body |-> answer[c].body, code |-> answer[c].code]
      BY <2>3 DEF AnswerSent
    <3>2. /\ conn[c].stage = "ANSWERING"
          /\ \A d \in Connection : conn'[d].stage = "ANSWERING" =>
                 /\ conn[d].stage = "ANSWERING" /\ answer'[d] = answer[d]
                 /\ conn'[d].planet = conn[d].planet
      BY <2>1, <2>3 DEF AnswerSent, Goto, ConnRecord, AnswerType
    <3> QED
      BY <3>1, <3>2 DEF AnswersFit
  <2>4. ASSUME NEW c \in Connection, OnCommand(c)
        PROVE  AnswersFit'
    <3>1. ASSUME NEW q \in Planet, NEW id \in RequestId, NEW body, NEW given,
                 CodeFits(results[q], id, body, given)
          PROVE  CodeFits(results'[q], id, body, given)
      <4>1. CASE UNCHANGED <<results, ran, fresh>>
        BY <3>1, <4>1
      <4>2. CASE ~UNCHANGED <<results, ran, fresh>>
        BY <2>4, <3>1, <4>2, CommandCases, FitsStay
      <4> QED
        BY <4>1, <4>2
    <3>2. UNCHANGED answers
      BY <2>4 DEF OnCommand
    <3>3. \A a \in answers' :
              CodeFits(results'[a.planet], a.id, a.body, a.code)
      BY <2>1, <3>1, <3>2 DEF AnswersFit
    <3>4. ASSUME NEW d \in Connection, conn'[d].stage = "ANSWERING"
          PROVE  CodeFits(results'[conn'[d].planet], answer'[d].id,
                          answer'[d].body, answer'[d].code)
      <4>1. CASE d = c
        BY <2>4, <4>1, CommandFits
      <4>2. CASE d # c
        BY <2>1, <2>4, <3>1, <3>4, <4>2, CommandFits, SMTT(20)
        DEF AnswersFit, PendingAnswer
      <4> QED
        BY <4>1, <4>2
    <3> QED
      BY <3>3, <3>4 DEF AnswersFit
  <2> QED
    BY <2>2, <2>3, <2>4
<1>3. AnswersFit => AnswersAgree
  BY DEF AnswersFit, AnswersAgree, CodeFits
<1> QED
  BY <1>1, <1>2, <1>3, ServerTypeInv, PTL DEF Spec

-----------------------------------------------------------------------------
(* Seats *)

\* One connection at a time is fenced for a planet, by one new connection, and
\* until then the seat is the old one's or nobody's.
FenceInv ==
    \A c \in Connection : Fencing(c) =>
        /\ conn[conn[c].previous].planet = conn[c].planet
        /\ conn[conn[c].previous].stage \notin {"NEW", "ACCEPTED"}
        /\ seats[conn[c].planet] \in {Nobody, conn[c].previous}
        /\ \A d \in Connection :
               Fencing(d) /\ conn[d].planet = conn[c].planet => d = c

\* With open_auth, whoever holds a planet has claimed it.
HoldersClaim ==
    openAuth => \A c \in Connection : Holds(c) => conn[c].planet \in claimed

\* However many readiness messages schedule start_run before it runs, one
\* ticker is created (_maybe_start, start_run).
THEOREM OneTickerRuns == Spec => []OneTicker
<1>1. Init => OneTicker
  BY DEF Init, OneTicker
<1>2. TypeInv /\ OneTicker /\ [Next]_vars => OneTicker'
  BY RunIsLeftAlone DEF OneTicker, TypeInv, ClockInv, run, StartRun,
     StarterDone, Tick, TickerDone
<1> QED
  BY <1>1, <1>2, ServerTypeInv, PTL DEF Spec

\* Steps that seat, fence and unseat nobody.
SeatNeutral ==
    /\ UNCHANGED seats
    /\ \A c \in Connection :
        /\ conn'[c].planet = conn[c].planet
        /\ conn'[c].previous = conn[c].previous
        /\ conn'[c].stage \in {"FENCING", "CLOSING"} <=> Fencing(c)
        /\ conn'[c].stage \in Served <=> conn[c].stage \in Served
        /\ conn'[c].stage \in {"NEW", "ACCEPTED"} =>
               conn[c].stage \in {"NEW", "ACCEPTED"}
        /\ conn'[c].open => conn[c].open

\* A seat changes hands only where _handle seats, fences or leaves, and in the
\* handshake that assigns a planet.
LEMMA SeatSteps ==
    ASSUME TypeInv, [Next]_vars
    PROVE  \/ SeatNeutral
           \/ \E c \in Connection : \/ HandlerBegins(c) \/ FenceDone(c)
                                    \/ HandlerEnds(c) \/ Authenticate(c)
<1>1. conn \in [Connection -> ConnRecord] /\ HandlerInv
  BY TypeParts DEF TypeInv, ConnType
<1> USE DEF SeatNeutral, Fencing, Served, ConnRecord
<1>2. ASSUME NEW c \in Connection,
             FenceSent(c) \/ AckSent(c) \/ AnswerSent(c) \/ OnSync(c)
               \/ OnFatalMessage(c) \/ OnCommand(c)
      PROVE  SeatNeutral
  <2>1. PICK s \in Stage :
            /\ conn' = [conn EXCEPT ![c].stage = s]
            /\ \/ s \in Served /\ conn[c].stage \in Served
               \/ s = "CLOSING" /\ conn[c].stage = "FENCING"
    BY <1>2
    DEF FenceSent, AckSent, AnswerSent, OnSync, OnFatalMessage, Handles,
       OnCommand, Known, OverCapacity, Processed, Answering, Goto, Stage
  <2>2. UNCHANGED seats
    BY <1>2 DEF FenceSent, AckSent, AnswerSent, OnSync, OnFatalMessage,
       OnCommand
  <2> QED
    BY <1>1, <2>1, <2>2
<1>3. ASSUME NEW c \in Connection, FenceCloses(c)
      PROVE  SeatNeutral
  BY <1>1, <1>3 DEF FenceCloses
<1>4. ASSUME NEW c \in Connection,
             LeavingCloses(c) \/ HandshakeFails(c) \/ Disconnect(c) \/ Stall(c)
      PROVE  SeatNeutral
  BY <1>1, <1>4 DEF LeavingCloses, HandshakeFails, Disconnect, Stall
<1>5. ASSUME NEW c \in Connection, OnReady(c)
      PROVE  SeatNeutral
  BY <1>1, <1>5 DEF OnReady, Handles
<1>6. ASSUME NEW t \in Task, NEW c \in Connection, Tell(t, c)
      PROVE  SeatNeutral
  BY <1>1, <1>6 DEF Tell, HandlerInv
<1>7. CASE StartRun \/ StarterDone \/ Tick \/ TickerDone \/ UNCHANGED vars
  BY <1>7 DEF StartRun, StarterDone, Tick, TickerDone, vars
<1> QED
  BY <1>2, <1>3, <1>4, <1>5, <1>6, <1>7, StepCases

\* A seat belongs to a handler that is still serving it: no handler leaves a
\* dead seat behind, fenced or not (_handle's finally clause).
THEOREM EverySeatIsServed == Spec => []SeatsAreServed
<1>1. Init => SeatsAreServed
  BY DEF Init, SeatsAreServed
<1>2. TypeInv /\ SeatsAreServed /\ [Next]_vars => SeatsAreServed'
  <2> SUFFICES ASSUME TypeInv, SeatsAreServed, [Next]_vars
               PROVE  SeatsAreServed'
    OBVIOUS
  <2>1. /\ conn \in [Connection -> ConnRecord] /\ HandlerInv
        /\ seats \in [Planet -> Connection \cup {Nobody}]
    BY TypeParts DEF TypeInv, ConnType, RestOK
  <2>2. CASE SeatNeutral
    BY <2>1, <2>2 DEF SeatsAreServed, SeatNeutral
  <2> USE DEF SeatsAreServed, Served, ConnRecord
  <2>3. ASSUME NEW c \in Connection, TakeSeat(c), conn[c].planet \in Planet
        PROVE  SeatsAreServed'
    BY <2>1, <2>3, ServerAssumption DEF TakeSeat
  <2>4. ASSUME NEW c \in Connection, HandlerBegins(c)
        PROVE  SeatsAreServed'
    <3>1. conn[c].planet \in Planet
      BY <2>1, <2>4 DEF HandlerBegins, HandlerInv
    <3>2. CASE ~TakeSeat(c)
      BY <2>1, <2>4, <3>1, <3>2 DEF HandlerBegins
    <3> QED
      BY <2>3, <3>1, <3>2
  <2>5. ASSUME NEW c \in Connection, FenceDone(c)
        PROVE  SeatsAreServed'
    BY <2>1, <2>3, <2>5 DEF FenceDone, HandlerInv
  <2>6. ASSUME NEW c \in Connection, HandlerEnds(c)
        PROVE  SeatsAreServed'
    BY <2>1, <2>6 DEF HandlerEnds, GivesUp, HandlerInv
  <2>7. ASSUME NEW c \in Connection, Authenticate(c)
        PROVE  SeatsAreServed'
    BY <2>1, <2>7 DEF Authenticate
  <2> QED
    BY <2>2, <2>4, <2>5, <2>6, <2>7, SeatSteps
<1> QED
  BY <1>1, <1>2, ServerTypeInv, PTL DEF Spec

\* Taking a planet again only once its old connection is gone keeps one
\* connection for it.
LEMMA SeatingStep ==
    ASSUME ~Overlap, TypeInv, SeatsAreServed, FenceInv, ServedIsSeated,
           [Next]_vars
    PROVE  FenceInv' /\ ServedIsSeated'
<1>1. /\ conn \in [Connection -> ConnRecord] /\ HandlerInv
      /\ seats \in [Planet -> Connection \cup {Nobody}]
      /\ Nobody \notin Connection
  BY TypeParts, ServerAssumption DEF TypeInv, ConnType, RestOK
<1>2. \A c \in Connection : Fencing(c) => conn[c].previous \in Connection
  BY <1>1 DEF HandlerInv
<1>3. CASE SeatNeutral
  BY <1>1, <1>2, <1>3
  DEF SeatNeutral, FenceInv, ServedIsSeated, Fenced, Fencing
<1>4. ASSUME NEW c \in Connection, conn[c].planet \in Planet, TakeSeat(c),
             conn[c].stage \in {"ACCEPTED", "CLOSING"},
             \A d \in Connection \ {c} : conn[d].planet = conn[c].planet =>
                 ~Fencing(d) /\ ~(conn[d].stage \in Served /\ conn[d].open)
      PROVE  FenceInv' /\ ServedIsSeated'
  <2>1. /\ \A d \in Connection \ {c} : conn'[d] = conn[d]
        /\ conn'[c].stage = "TELLING" /\ conn'[c].planet = conn[c].planet
        /\ seats'[conn[c].planet] = c
        /\ \A p \in Planet \ {conn[c].planet} : seats'[p] = seats[p]
    BY <1>1, <1>4 DEF TakeSeat, ConnRecord
  <2>2. \A d \in Connection :
            conn[d].stage \in Served \cup {"FENCING", "CLOSING"} =>
                conn[d].planet \in Planet
    BY <1>1 DEF HandlerInv, Served
  <2>3. FenceInv'
    BY <1>1, <1>2, <1>4, <2>1, <2>2 DEF FenceInv, Fencing, Served
  <2>4. ServedIsSeated'
    <3> SUFFICES ASSUME NEW d \in Connection, d # c,
                        conn[d].stage \in Served, conn[d].open, ~Fenced(d)'
                 PROVE  seats'[conn[d].planet] = d
      BY <2>1 DEF ServedIsSeated
    <3>1. conn[d].planet # conn[c].planet
      BY <1>4
    <3>2. ~Fenced(d)
      BY <1>2, <2>1, <3>1 DEF Fenced, Fencing, FenceInv
    <3> QED
      BY <2>1, <2>2, <3>1, <3>2 DEF ServedIsSeated
  <2> QED
    BY <2>3, <2>4
<1>5. ASSUME NEW c \in Connection, HandlerBegins(c)
      PROVE  FenceInv' /\ ServedIsSeated'
  <2>1. /\ conn[c].planet \in Planet /\ conn[c].stage = "ACCEPTED"
        /\ \A d \in Connection : Fencing(d) => conn[d].planet # conn[c].planet
    BY <1>1, <1>5 DEF HandlerBegins, HandlerInv
  <2>2. \A d \in Connection :
            conn[d].planet = conn[c].planet /\ conn[d].stage \in Served
                /\ conn[d].open => seats[conn[c].planet] = d
    BY <1>2, <2>1 DEF ServedIsSeated, Fenced, FenceInv
  <2>3. CASE TakeSeat(c) /\ (\/ seats[conn[c].planet] = Nobody
                             \/ ~conn[seats[conn[c].planet]].open)
    BY <1>1, <1>4, <2>1, <2>2, <2>3
  <2>4. CASE /\ seats[conn[c].planet] # Nobody
             /\ conn' = [conn EXCEPT ![c].stage = "FENCING",
                                     ![c].previous = seats[conn[c].planet]]
             /\ UNCHANGED seats
    <3> DEFINE q == seats[conn[c].planet]
    <3>1. /\ q \in Connection /\ conn[q].planet = conn[c].planet
          /\ conn[q].stage \in Served
      BY <1>1, <2>1, <2>4 DEF SeatsAreServed
    <3>2. /\ \A d \in Connection \ {c} : conn'[d] = conn[d]
          /\ conn'[c].stage = "FENCING" /\ conn'[c].planet = conn[c].planet
          /\ conn'[c].previous = q
      BY <1>1, <2>4 DEF ConnRecord
    <3>3. q # c /\ seats'[conn[c].planet] = q
      BY <2>1, <2>4, <3>1 DEF Served
    <3>4. \A d \in Connection \ {c} : Fencing(d)' <=> Fencing(d)
      BY <3>2 DEF Fencing
    <3>5. UNCHANGED seats
      BY <2>4
    <3> HIDE DEF q
    <3>6. FenceInv'
      <4> SUFFICES ASSUME NEW d \in Connection, Fencing(d)'
                   PROVE  /\ conn'[conn'[d].previous].planet = conn'[d].planet
                          /\ conn'[conn'[d].previous].stage
                                 \notin {"NEW", "ACCEPTED"}
                          /\ seats'[conn'[d].planet]
                                 \in {Nobody, conn'[d].previous}
                          /\ \A e \in Connection :
                                 Fencing(e)' /\ conn'[e].planet
                                     = conn'[d].planet => e = d
        BY DEF FenceInv
      <4>1. CASE d = c
        BY <2>1, <3>1, <3>2, <3>3, <3>4, <4>1 DEF Served
      <4>2. CASE d # c
        <5>1. /\ Fencing(d) /\ conn[d].planet # conn[c].planet
              /\ conn[d].previous \in Connection
          BY <1>2, <2>1, <3>4, <4>2
        <5>2. conn[d].previous # c
          BY <2>1, <5>1 DEF FenceInv
        <5> QED
          BY <3>2, <3>4, <3>5, <4>2, <5>1, <5>2 DEF FenceInv
      <4> QED
        BY <4>1, <4>2
    <3>7. ServedIsSeated'
      <4> SUFFICES ASSUME NEW d \in Connection, conn'[d].stage \in Served,
                          conn'[d].open, ~Fenced(d)'
                   PROVE  seats'[conn'[d].planet] = d
        BY DEF ServedIsSeated
      <4>1. d # c /\ conn'[d] = conn[d]
        BY <3>2 DEF Served
      <4>2. ~Fenced(d)
        BY <2>1, <3>2, <3>4 DEF Fenced, Fencing
      <4> QED
        BY <3>5, <4>1, <4>2 DEF ServedIsSeated
    <3> QED
      BY <3>6, <3>7
  <2> QED
    BY <1>5, <2>3, <2>4 DEF HandlerBegins
<1>6. ASSUME NEW c \in Connection, FenceDone(c)
      PROVE  FenceInv' /\ ServedIsSeated'
  <2>1. /\ conn[c].planet \in Planet /\ conn[c].stage = "CLOSING"
        /\ Fencing(c) /\ ~conn[conn[c].previous].open /\ TakeSeat(c)
    BY <1>1, <1>6 DEF FenceDone, HandlerInv, Fencing
  <2>2. \A d \in Connection \ {c} : conn[d].planet = conn[c].planet =>
            ~Fencing(d) /\ ~(conn[d].stage \in Served /\ conn[d].open)
    BY <1>1, <1>2, <2>1 DEF ServedIsSeated, Fenced, FenceInv
  <2> QED
    BY <1>4, <2>1, <2>2
<1>7. ASSUME NEW c \in Connection, HandlerEnds(c)
      PROVE  FenceInv' /\ ServedIsSeated'
  <2>1. /\ \A d \in Connection \ {c} : conn'[d] = conn[d]
        /\ conn'[c].stage = "ENDED" /\ conn'[c].planet = conn[c].planet
        /\ conn[c].stage \in {"SERVING", "LEAVING"}
    BY <1>1, <1>7 DEF HandlerEnds, ConnRecord
  <2>2. \A d \in Connection :
            conn[d].stage \in Served \cup {"FENCING", "CLOSING"} =>
                conn[d].planet \in Planet
    BY <1>1 DEF HandlerInv, Served
  <2>3. \A p \in Planet : seats'[p] = seats[p]
               \/ (seats[p] = c /\ seats'[p] = Nobody)
    <3>1. CASE GivesUp(c)
      <4>1. seats' = [seats EXCEPT ![conn[c].planet] = Nobody]
        BY <1>7, <3>1 DEF HandlerEnds
      <4>2. seats[conn[c].planet] = c
        BY <3>1 DEF GivesUp
      <4> QED
        BY <1>1, <4>1, <4>2
    <3>2. CASE ~GivesUp(c)
      BY <1>7, <3>2 DEF HandlerEnds
    <3> QED
      BY <3>1, <3>2
  <2>4. \A d \in Connection : Fencing(d)' <=> Fencing(d)
    BY <2>1 DEF Fencing
  <2>5. FenceInv'
    <3> SUFFICES ASSUME NEW d \in Connection, Fencing(d)
                 PROVE  /\ conn'[conn'[d].previous].planet = conn'[d].planet
                        /\ conn'[conn'[d].previous].stage
                               \notin {"NEW", "ACCEPTED"}
                        /\ seats'[conn'[d].planet]
                               \in {Nobody, conn'[d].previous}
                        /\ \A e \in Connection :
                               Fencing(e)' /\ conn'[e].planet
                                   = conn'[d].planet => e = d
      BY <2>4 DEF FenceInv
    <3>1. d # c /\ conn'[d] = conn[d] /\ conn[d].planet \in Planet
      BY <2>1, <2>2 DEF Fencing
    <3>2. conn[d].previous \in Connection
      BY <1>2
    <3>3. /\ conn'[conn[d].previous].planet = conn[d].planet
          /\ conn'[conn[d].previous].stage \notin {"NEW", "ACCEPTED"}
      BY <2>1, <3>2 DEF FenceInv
    <3>4. seats'[conn[d].planet] \in {Nobody, conn[d].previous}
      BY <2>3, <3>1 DEF FenceInv
    <3>5. ASSUME NEW e \in Connection, Fencing(e)',
                 conn'[e].planet = conn[d].planet
          PROVE  e = d
      BY <2>1, <2>4, <3>5 DEF FenceInv
    <3> QED
      BY <3>1, <3>3, <3>4, <3>5
  <2>6. ServedIsSeated'
    <3> SUFFICES ASSUME NEW d \in Connection, conn'[d].stage \in Served,
                        conn'[d].open, ~Fenced(d)'
                 PROVE  seats'[conn'[d].planet] = d
      BY DEF ServedIsSeated
    <3>1. d # c /\ conn'[d] = conn[d] /\ conn[d].planet \in Planet
      BY <2>1, <2>2 DEF Served
    <3>2. ~Fenced(d)
      BY <2>1, <2>4 DEF Fenced, Fencing
    <3> QED
      BY <2>3, <3>1, <3>2 DEF ServedIsSeated
  <2> QED
    BY <2>5, <2>6
<1>8. ASSUME NEW c \in Connection, Authenticate(c)
      PROVE  FenceInv' /\ ServedIsSeated'
  <2>1. /\ \A d \in Connection \ {c} : conn'[d] = conn[d]
        /\ conn'[c].stage = "ACCEPTED" /\ conn[c].stage = "NEW"
        /\ UNCHANGED seats
    BY <1>1, <1>8 DEF Authenticate, ConnRecord
  <2>2. FenceInv'
    BY <1>2, <2>1 DEF FenceInv, Fencing
  <2>3. ServedIsSeated'
    BY <2>1 DEF ServedIsSeated, Fenced, Fencing, Served
  <2> QED
    BY <2>2, <2>3
<1> QED
  BY <1>3, <1>5, <1>6, <1>7, <1>8, SeatSteps

\* A live connection that is being served is its planet's seat, until it is
\* fenced: nobody is answered without receiving broadcasts, and no planet is
\* served on two connections.  So it is as long as a planet is not taken again
\* while its old connection is being closed (_handle reads seat.connection
\* before it awaits that close).
THEOREM OneServedPerPlanet ==
    ASSUME ~Overlap
    PROVE  Spec => []ServedIsSeated
<1>1. Init => FenceInv /\ ServedIsSeated
  BY DEF Init, FenceInv, ServedIsSeated, Fencing, Served
<1>2. TypeInv /\ SeatsAreServed /\ FenceInv /\ ServedIsSeated /\ [Next]_vars
          => FenceInv' /\ ServedIsSeated'
  BY SeatingStep
<1> QED
  BY <1>1, <1>2, ServerTypeInv, EverySeatIsServed, PTL DEF Spec

-----------------------------------------------------------------------------
(* Planets are claimed before their handlers run *)

\* Steps that neither take a planet nor give one up.
HolderNeutral ==
    /\ UNCHANGED claimed
    /\ \A c \in Connection :
        Holds(c)' => Holds(c) /\ conn'[c].planet = conn[c].planet

\* A planet is taken in the handshake and given up when a handler ends.
LEMMA HolderSteps ==
    ASSUME TypeInv, [Next]_vars
    PROVE  \/ HolderNeutral
           \/ \E c \in Connection : Authenticate(c) \/ HandlerEnds(c)
<1>1. conn \in [Connection -> ConnRecord] /\ HandlerInv
  BY TypeParts DEF TypeInv, ConnType
<1> USE DEF HolderNeutral, Holds, ConnRecord
<1>2. ASSUME NEW c \in Connection,
             FenceSent(c) \/ AckSent(c) \/ AnswerSent(c) \/ OnSync(c)
               \/ OnFatalMessage(c) \/ OnCommand(c)
      PROVE  HolderNeutral
  <2>1. PICK s \in Stage : /\ conn' = [conn EXCEPT ![c].stage = s]
                           /\ Holds(c)
    BY <1>2
    DEF FenceSent, AckSent, AnswerSent, OnSync, OnFatalMessage, Handles,
       OnCommand, Known, OverCapacity, Processed, Answering, Goto, Stage
  <2>2. UNCHANGED claimed
    BY <1>2 DEF FenceSent, AckSent, AnswerSent, OnSync, OnFatalMessage,
       OnCommand
  <2> QED
    BY <1>1, <2>1, <2>2
<1>3. ASSUME NEW c \in Connection, HandlerBegins(c) \/ FenceDone(c)
      PROVE  HolderNeutral
  <2>1. PICK s \in Stage, d \in {seats[conn[c].planet], Nobody} :
            /\ conn' = [conn EXCEPT ![c].stage = s, ![c].previous = d]
            /\ Holds(c)
    BY <1>3 DEF HandlerBegins, FenceDone, TakeSeat, Stage
  <2>2. UNCHANGED claimed
    BY <1>3 DEF HandlerBegins, FenceDone
  <2> QED
    BY <1>1, <2>1, <2>2
<1>4. ASSUME NEW c \in Connection, FenceCloses(c) \/ LeavingCloses(c)
                                      \/ Disconnect(c) \/ Stall(c)
      PROVE  HolderNeutral
  BY <1>1, <1>4 DEF FenceCloses, LeavingCloses, Disconnect, Stall
<1>5. ASSUME NEW c \in Connection, HandshakeFails(c) \/ OnReady(c)
      PROVE  HolderNeutral
  <2>1. CASE HandshakeFails(c)
    BY <1>1, <2>1 DEF HandshakeFails
  <2>2. CASE OnReady(c)
    <3>1. PICK b \in BOOLEAN :
              /\ conn' = [conn EXCEPT ![c].ready = b, ![c].stage = "ACKING"]
              /\ Holds(c) /\ UNCHANGED claimed
      BY <2>2 DEF OnReady, Handles
    <3>2. /\ \A d \in Connection \ {c} : conn'[d] = conn[d]
          /\ conn'[c].planet = conn[c].planet
      BY <1>1, <3>1
    <3> QED
      BY <3>1, <3>2
  <2> QED
    BY <1>5, <2>1, <2>2
<1>6. ASSUME NEW t \in Task, NEW c \in Connection, Tell(t, c)
      PROVE  HolderNeutral
  BY <1>1, <1>6 DEF Tell, HandlerInv
<1>7. CASE StartRun \/ StarterDone \/ Tick \/ TickerDone \/ UNCHANGED vars
  BY <1>7 DEF StartRun, StarterDone, Tick, TickerDone, vars
<1> QED
  BY <1>2, <1>3, <1>4, <1>5, <1>6, <1>7, StepCases

\* With open_auth two connections never hold the same planet: one is claimed
\* before the handler runs, and only its holder's handler frees it
\* (_authenticate, _handle's finally clause).
THEOREM PlanetsAreHeldOnce == Spec => []OneHolderPerPlanet
<1>1. Init => HoldersClaim /\ OneHolderPerPlanet
  BY DEF Init, HoldersClaim, OneHolderPerPlanet, Holds
<1>2. TypeInv /\ HoldersClaim /\ OneHolderPerPlanet /\ [Next]_vars
          => HoldersClaim' /\ OneHolderPerPlanet'
  <2> SUFFICES ASSUME TypeInv, HoldersClaim, OneHolderPerPlanet, [Next]_vars,
                      openAuth'
               PROVE  HoldersClaim' /\ OneHolderPerPlanet'
    BY DEF HoldersClaim, OneHolderPerPlanet
  <2>1. conn \in [Connection -> ConnRecord] /\ HandlerInv
    BY TypeParts DEF TypeInv, ConnType
  <2>2. openAuth
    BY RunIsLeftAlone DEF run, StartRun, StarterDone, Tick, TickerDone
  <2>3. CASE HolderNeutral
    BY <2>2, <2>3 DEF HolderNeutral, HoldersClaim, OneHolderPerPlanet
  <2>4. ASSUME NEW c \in Connection, Authenticate(c)
        PROVE  HoldersClaim' /\ OneHolderPerPlanet'
    <3>1. PICK p \in Planet \ claimed :
              /\ conn' = [conn EXCEPT ![c].stage = "ACCEPTED",
                                      ![c].planet = p, ![c].open = TRUE]
              /\ claimed' = claimed \cup {p}
      BY <2>2, <2>4 DEF Authenticate, Assigned, Free, ClaimedAt
    <3>2. /\ \A d \in Connection \ {c} : conn'[d] = conn[d]
          /\ conn'[c].planet = p
      BY <2>1, <3>1 DEF ConnRecord
    <3>3. ASSUME NEW d \in Connection \ {c}, Holds(d)'
          PROVE  /\ Holds(d)
                 /\ conn'[d].planet # p
                 /\ conn'[d].planet \in claimed
      BY <2>2, <3>1, <3>2, <3>3 DEF Holds, HoldersClaim
    <3>4. HoldersClaim'
      <4> SUFFICES ASSUME NEW d \in Connection, Holds(d)'
                   PROVE  conn'[d].planet \in claimed'
        BY DEF HoldersClaim
      <4>1. CASE d = c
        BY <3>1, <3>2, <4>1
      <4>2. CASE d # c
        <5>1. claimed \subseteq claimed'
          BY <3>1
        <5>2. d \in Connection \ {c}
          BY <4>2
        <5>3. conn'[d].planet \in claimed
          BY <3>3, <5>2
        <5> QED
          BY <5>1, <5>3
      <4> QED
        BY <4>1, <4>2
    <3>5. ASSUME NEW d \in Connection, NEW e \in Connection,
                 d # e, Holds(d)', Holds(e)'
          PROVE  conn'[d].planet # conn'[e].planet
      <4>1. CASE d = c \/ e = c
        BY <3>2, <3>3, <3>5, <4>1
      <4>2. CASE d # c /\ e # c
        BY <2>2, <3>2, <3>3, <3>5, <4>2 DEF OneHolderPerPlanet
      <4> QED
        BY <4>1, <4>2
    <3> QED
      BY <3>4, <3>5 DEF OneHolderPerPlanet
  <2>5. ASSUME NEW c \in Connection, HandlerEnds(c)
        PROVE  HoldersClaim' /\ OneHolderPerPlanet'
    <3>1. /\ \A d \in Connection \ {c} : conn'[d] = conn[d]
          /\ ~Holds(c)' /\ Holds(c)
      BY <2>1, <2>5 DEF HandlerEnds, Holds, ConnRecord
    <3>2. claimed \ {conn[c].planet} \subseteq claimed'
      BY <2>5 DEF HandlerEnds
    <3>3. \A d \in Connection : Holds(d)' =>
              Holds(d) /\ d # c /\ conn'[d].planet = conn[d].planet
      BY <3>1 DEF Holds
    <3> QED
      BY <2>2, <3>1, <3>2, <3>3 DEF HoldersClaim, OneHolderPerPlanet
  <2> QED
    BY <2>3, <2>4, <2>5, HolderSteps
<1> QED
  BY <1>1, <1>2, ServerTypeInv, PTL DEF Spec

-----------------------------------------------------------------------------
(* News of the world *)

\* A state that tells of the world as it is now is on its way to connection c.
NewsComing(c) ==
    \/ c \in fresh
    \/ \E t \in Task : c \in todo[t]
    \/ \E d \in Connection :
           conn[d].stage = "ANSWERING" /\ answer[d].then = "ALL"

\* Steps that let nothing newer happen, and take nobody off a list unless the
\* newest state is sent to it.
NewsKept ==
    /\ \A c \in Seated' : conn'[c].open =>
        /\ c \in Seated /\ conn[c].open
        /\ c \in fresh => c \in fresh'
        /\ \A t \in Task : c \in todo[t] => c \in todo'[t] \/ c \in fresh'
    /\ \A d \in Connection :
        conn[d].stage = "ANSWERING" /\ answer[d].then = "ALL" =>
            conn'[d].stage = "ANSWERING" /\ answer'[d].then = "ALL"

\* Steps after which the whole roster is about to be told: a task that tells
\* has every seat on its list, or an answer comes first.
AllToBeTold ==
    \/ \E t \in Task : Seated' \subseteq todo'[t]
    \/ \E d \in Connection :
           conn'[d].stage = "ANSWERING" /\ answer'[d].then = "ALL"

\* Nobody is forgotten: a step either keeps what is on its way to each seat,
\* or has a task or an answer that will tell the whole roster.
LEMMA NewsStep ==
    ASSUME TypeInv, SeatsAreServed, EveryoneIsTold, [Next]_vars
    PROVE  EveryoneIsTold'
<1>0. Seated \subseteq Connection
  BY TypeParts DEF TypeInv, RestOK, Seated
<1>1. /\ conn \in [Connection -> ConnRecord] /\ HandlerInv
      /\ seats \in [Planet -> Connection \cup {Nobody}]
      /\ todo \in [Task -> SUBSET Connection] /\ answer \in AnswerType
      /\ Connection \subseteq Task
      /\ "STARTER" \in Task \ Connection /\ "TICKER" \in Task \ Connection
  BY TypeParts, ServerAssumption DEF TypeInv, ConnType, RestOK, Task
<1>2. ASSUME NewsKept
      PROVE  EveryoneIsTold'
  BY <1>2 DEF NewsKept, EveryoneIsTold
<1>3. ASSUME AllToBeTold
      PROVE  EveryoneIsTold'
  BY <1>3 DEF AllToBeTold, EveryoneIsTold
<1>4. ASSUME NEW c \in Connection,
             FenceSent(c) \/ AckSent(c) \/ OnFatalMessage(c) \/ OnSync(c)
      PROVE  NewsKept
  <2>1. PICK s \in Stage : /\ conn' = [conn EXCEPT ![c].stage = s]
                           /\ conn[c].stage \notin {"ANSWERING", "TELLING"}
    BY <1>4
    DEF FenceSent, AckSent, OnSync, OnFatalMessage, Handles, Goto, Stage
  <2>2. /\ UNCHANGED <<seats, fresh, answer>>
        /\ UNCHANGED todo \/ todo' = [todo EXCEPT ![c] = {c}]
    BY <1>4 DEF FenceSent, AckSent, OnSync, OnFatalMessage
  <2>3. /\ \A d \in Connection : conn'[d].open = conn[d].open
        /\ \A d \in Connection : conn[d].stage = "ANSWERING" =>
               conn'[d].stage = "ANSWERING"
    BY <1>1, <2>1 DEF ConnRecord
  <2>4. \A t \in Task : todo[t] \subseteq todo'[t]
    BY <1>1, <2>1, <2>2 DEF HandlerInv
  <2> QED
    BY <1>1, <2>2, <2>3, <2>4 DEF NewsKept, Seated
<1>5. ASSUME NEW c \in Connection,
             FenceCloses(c) \/ HandshakeFails(c) \/ Disconnect(c) \/ Stall(c)
               \/ LeavingCloses(c) \/ OnReady(c)
      PROVE  NewsKept
  <2>1. UNCHANGED <<seats, fresh, answer, todo>>
    BY <1>5 DEF FenceCloses, HandshakeFails, Disconnect, Stall, LeavingCloses,
       OnReady
  <2>2. \A d \in Connection :
            /\ conn'[d].open => conn[d].open
            /\ conn[d].stage = "ANSWERING" => conn'[d].stage = "ANSWERING"
    <3>1. CASE FenceCloses(c)
      BY <1>1, <3>1 DEF FenceCloses, ConnRecord
    <3>2. CASE HandshakeFails(c)
      BY <1>1, <3>2 DEF HandshakeFails, ConnRecord
    <3>3. CASE Disconnect(c) \/ Stall(c) \/ LeavingCloses(c)
      BY <1>1, <3>3 DEF Disconnect, Stall, LeavingCloses, ConnRecord
    <3>4. CASE OnReady(c)
      BY <1>1, <3>4 DEF OnReady, Handles, ConnRecord
    <3> QED
      BY <1>5, <3>1, <3>2, <3>3, <3>4
  <2> QED
    BY <1>1, <2>1, <2>2 DEF NewsKept, Seated
<1>6. ASSUME NEW c \in Connection, TakeSeat(c), conn[c].planet \in Planet,
             conn[c].stage \in {"ACCEPTED", "CLOSING"},
             UNCHANGED <<fresh, answer>>
      PROVE  EveryoneIsTold'
  <2>1. /\ \A d \in Connection : conn'[d].open = conn[d].open
        /\ \A d \in Connection : conn[d].stage = "ANSWERING" =>
               conn'[d].stage = "ANSWERING"
    BY <1>1, <1>6 DEF TakeSeat, ConnRecord
  <2>2. /\ c \in todo'[c]
        /\ \A t \in Task : todo[t] \subseteq todo'[t]
    BY <1>1, <1>6 DEF TakeSeat, HandlerInv
  <2>3. Seated' \subseteq Seated \cup {c}
    BY <1>1, <1>6 DEF TakeSeat, Seated
  <2> SUFFICES ASSUME NEW d \in Seated', conn'[d].open
               PROVE  NewsComing(d)'
    BY DEF EveryoneIsTold, NewsComing
  <2>4. CASE d = c
    BY <1>1, <2>2, <2>4 DEF NewsComing
  <2>5. CASE d # c
    <3>1. d \in Seated /\ d \in Connection
      BY <1>0, <2>3, <2>5
    <3>2. NewsComing(d)
      BY <2>1, <3>1 DEF EveryoneIsTold, NewsComing
    <3> QED
      BY <1>6, <2>1, <2>2, <3>2 DEF NewsComing
  <2> QED
    BY <2>4, <2>5
<1>7. ASSUME NEW c \in Connection, HandlerBegins(c)
      PROVE  EveryoneIsTold'
  <2>1. conn[c].planet \in Planet /\ conn[c].stage = "ACCEPTED"
    BY <1>1, <1>7 DEF HandlerBegins, HandlerInv
  <2>2. CASE TakeSeat(c)
    BY <1>6, <1>7, <2>1, <2>2 DEF HandlerBegins
  <2>3. CASE ~TakeSeat(c)
    <3>1. /\ UNCHANGED <<seats, todo, fresh, answer>>
          /\ conn' = [conn EXCEPT ![c].stage = "FENCING",
                                  ![c].previous = seats[conn[c].planet]]
      BY <1>7, <2>3 DEF HandlerBegins
    <3>2. \A d \in Connection :
              /\ conn'[d].open = conn[d].open
              /\ conn[d].stage = "ANSWERING" => conn'[d].stage = "ANSWERING"
      BY <1>1, <2>1, <3>1 DEF ConnRecord
    <3> QED
      BY <1>1, <1>2, <3>1, <3>2 DEF NewsKept, Seated
  <2> QED
    BY <2>2, <2>3
<1>8. ASSUME NEW c \in Connection, FenceDone(c)
      PROVE  EveryoneIsTold'
  BY <1>1, <1>6, <1>8 DEF FenceDone, HandlerInv
<1>9. ASSUME NEW c \in Connection, HandlerEnds(c)
      PROVE  NewsKept
  <2>1. /\ ~conn[c].open /\ fresh' = fresh \ {c} /\ UNCHANGED <<todo, answer>>
        /\ conn[c].stage \in {"SERVING", "LEAVING"}
        /\ conn' = [conn EXCEPT ![c].stage = "ENDED", ![c].ready = FALSE]
    BY <1>9 DEF HandlerEnds
  <2>2. Seated' \subseteq Seated
    BY <1>1, <1>9 DEF HandlerEnds, Seated
  <2>3. \A d \in Connection :
            /\ conn'[d].open = conn[d].open
            /\ conn[d].stage = "ANSWERING" => conn'[d].stage = "ANSWERING"
    BY <1>1, <2>1 DEF ConnRecord
  <2> QED
    BY <1>0, <2>1, <2>2, <2>3 DEF NewsKept
<1>10. ASSUME NEW c \in Connection, Authenticate(c)
      PROVE  NewsKept
  <2>1. PICK p \in Planet :
            /\ conn' = [conn EXCEPT ![c].stage = "ACCEPTED",
                                    ![c].planet = p, ![c].open = TRUE]
            /\ conn[c].stage = "NEW"
            /\ UNCHANGED <<seats, fresh, answer, todo>>
    BY <1>10, Zenon DEF Authenticate, Assigned, Free
  <2>2. c \notin Seated
    BY <1>1, <2>1 DEF SeatsAreServed, Served, Seated
  <2>3. /\ \A d \in Connection \ {c} : conn'[d] = conn[d]
        /\ conn[c].stage # "ANSWERING"
    BY <1>1, <2>1
  <2> QED
    BY <1>1, <2>1, <2>2, <2>3 DEF NewsKept, Seated
<1>11. ASSUME NEW c \in Connection, AnswerSent(c)
      PROVE  EveryoneIsTold'
  <2>1. /\ conn' = [conn EXCEPT ![c].stage = IF ToTell(c) = {} THEN "SERVING"
                                           ELSE "TELLING"]
        /\ todo' = [todo EXCEPT ![c] = ToTell(c)]
        /\ answer' = [answer EXCEPT ![c] = NoAnswer]
        /\ UNCHANGED <<seats, fresh>>
    BY <1>11 DEF AnswerSent, Goto
  <2>2. UNCHANGED Seated
    BY <2>1 DEF Seated
  <2>3. CASE answer[c].then = "ALL"
    <3>1. c \in Task /\ todo'[c] = Seated
      BY <1>1, <2>1, <2>3 DEF ToTell
    <3> QED
      BY <1>3, <2>2, <3>1 DEF AllToBeTold
  <2>4. CASE answer[c].then # "ALL"
    <3>1. todo[c] = {}
      BY <1>1, <1>11 DEF HandlerInv, AnswerSent
    <3>2. /\ \A t \in Task : todo[t] \subseteq todo'[t]
          /\ \A d \in Connection : conn'[d].open = conn[d].open
          /\ \A d \in Connection \ {c} :
                 conn'[d] = conn[d] /\ answer'[d] = answer[d]
      BY <1>1, <2>1, <3>1 DEF ConnRecord
    <3> QED
      BY <1>0, <1>2, <2>1, <2>2, <2>4, <3>2 DEF NewsKept
  <2> QED
    BY <2>3, <2>4
<1>12. ASSUME NEW c \in Connection, OnCommand(c)
      PROVE  EveryoneIsTold'
  <2>1. /\ UNCHANGED <<seats, todo>> /\ conn[c].stage = "SERVING"
        /\ conn' = [conn EXCEPT ![c].stage = "ANSWERING"]
    BY <1>12, CommandCases DEF OnCommand, Goto
  <2>2. PICK r \in RequestId, b \in Body :
            Known(c, r, b) \/ OverCapacity(c, r, b) \/ Processed(c, r, b)
    BY <1>12 DEF OnCommand
  <2>3. CASE Processed(c, r, b)
    <3>1. PICK code : Answering(c, r, b, code, "ALL")
      BY <2>3 DEF Processed
    <3>2. conn'[c].stage = "ANSWERING" /\ answer'[c].then = "ALL"
      BY <1>1, <2>1, <3>1 DEF Answering, AnswerType
    <3> QED
      BY <1>3, <3>2 DEF AllToBeTold
  <2>4. CASE Known(c, r, b) \/ OverCapacity(c, r, b)
    <3>1. /\ UNCHANGED fresh
          /\ \A d \in Connection \ {c} : answer'[d] = answer[d]
      BY <1>1, <2>4 DEF Known, OverCapacity, Answering, AnswerType
    <3>2. /\ \A d \in Connection : conn'[d].open = conn[d].open
          /\ \A d \in Connection \ {c} : conn'[d] = conn[d]
      BY <1>1, <2>1 DEF ConnRecord
    <3>3. UNCHANGED Seated
      BY <2>1 DEF Seated
    <3> QED
      BY <1>0, <1>2, <2>1, <3>1, <3>2, <3>3 DEF NewsKept
  <2> QED
    BY <2>2, <2>3, <2>4
<1>13. ASSUME NEW t \in Task, NEW c \in Connection, Tell(t, c)
      PROVE  NewsKept
  <2>1. /\ todo' = [todo EXCEPT ![t] = todo[t] \ {c}]
        /\ fresh' = IF conn[c].open THEN fresh \cup {c} ELSE fresh
        /\ UNCHANGED <<seats, answer>> /\ todo[t] # {}
        /\ \/ UNCHANGED conn
           \/ t \in Connection /\ conn' = [conn EXCEPT ![t].stage = "SERVING"]
    BY <1>13 DEF Tell, Untold
  <2>2. \A d \in Connection :
            /\ conn'[d].open = conn[d].open
            /\ conn[d].stage = "ANSWERING" => conn'[d].stage = "ANSWERING"
    BY <1>1, <2>1 DEF HandlerInv, ConnRecord
  <2>3. \A s \in Task, d \in Connection \ {c} :
            d \in todo[s] => d \in todo'[s]
    BY <1>1, <2>1
  <2>4. UNCHANGED Seated
    BY <2>1 DEF Seated
  <2> QED
    BY <1>0, <2>1, <2>2, <2>3, <2>4 DEF NewsKept
<1>14. CASE StartRun \/ Tick
  <2>1. CASE UNCHANGED <<seats, conn, todo, fresh, answer>>
    BY <1>0, <1>2, <2>1 DEF NewsKept, Seated
  <2>2. CASE \E t \in Task : todo' = [todo EXCEPT ![t] = Seated]
                              /\ UNCHANGED seats
    BY <1>1, <1>3, <2>2 DEF AllToBeTold, Seated
  <2> QED
    BY <1>1, <1>14, <2>1, <2>2 DEF StartRun, Tick
<1>15. CASE StarterDone \/ TickerDone \/ UNCHANGED vars
  BY <1>0, <1>2, <1>15 DEF StarterDone, TickerDone, vars, NewsKept, Seated
<1> QED
  BY <1>2, <1>4, <1>5, <1>7, <1>8, <1>9, <1>10, <1>11, <1>12, <1>13, <1>14,
     <1>15, StepCases

\* A live seat whose newest state is out of date is about to be sent another:
\* no retry, refusal, fence or disconnection in between takes it off the list
\* (_send_state, broadcast, _command).
THEOREM NewsReachesEverySeat == Spec => []EveryoneIsTold
<1>1. Init => EveryoneIsTold
  BY DEF Init, EveryoneIsTold, Seated
<1>2. TypeInv /\ SeatsAreServed /\ EveryoneIsTold /\ [Next]_vars
          => EveryoneIsTold'
  BY NewsStep
<1> QED
  BY <1>1, <1>2, ServerTypeInv, EverySeatIsServed, PTL DEF Spec
=============================================================================

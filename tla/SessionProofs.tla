--------------------------- MODULE SessionProofs ---------------------------
(***************************************************************************)
(* What a planet's client and the server keep of each other's state, over  *)
(* channels that delay, are cut and are taken over, for any number of      *)
(* connections, commands and ticks.                                        *)
(*                                                                         *)
(* The properties follow from one fact: at most one command is on its way  *)
(* or unconfirmed, so all that a state the client has been shown can lack  *)
(* is the result of the newest command.  The inductive invariant says this *)
(* of every message in the channels.                                       *)
(***************************************************************************)
EXTENDS Session, SumProofs, SequenceTheorems

-----------------------------------------------------------------------------
(* Types *)

Offers == [id : Nat, give : Amounts, expires : Nat]

Results == [id : Nat, code : {"OK", "RUN_NOT_RUNNING", "RATE_LIMITED",
                              "INVALID_ARGUMENT", "INSUFFICIENT_RESOURCES"},
            tick : 0..DurationTicks]

Phase == {"READY", "RUNNING", "FINISHED"}

Worlds == [phase : Phase, tick : 0..DurationTicks, count : 0..CommandsPerTick,
           stock : Nat, book : SUBSET Offers, results : SUBSET Results]

World == {s \in Worlds : s.phase # "FINISHED" => s.tick < DurationTicks}

Snapshot == [seq : Nat, tick : 0..DurationTicks, phase : Phase \cup {"NONE"},
             stock : Nat, book : SUBSET Offers, results : SUBSET Results]

CommandKind == {"OFFER", "ACCEPT", "ADVERTISE"}

UpMessage ==
    [kind : {"READY"}, seq : Nat]
      \cup [kind : CommandKind, id : Nat \ {0}, amount : Nat, expires : Nat]

DownMessage ==
    [kind : {"STATE"}, state : Snapshot]
      \cup [kind : {"RESULT"}, answer : Results]
      \cup [kind : {"ACK"}, seq : Nat]
      \cup [kind : {"ERROR"}, id : Nat]
      \cup [kind : {"FENCED", "CLOSED"}]

Waiting ==
    [on : {"NOTHING", "SNAPSHOT", "READINESS", "COMMAND"}, key : Nat,
     status : {"NONE", "PENDING", "DONE", "FAILED"}, state : Snapshot,
     answer : Answers]

ServerType ==
    /\ server \in World
    /\ seat \in [mine : BOOLEAN, ready : BOOLEAN, seq : Nat]

LinkType ==
    /\ link \in {"UP", "CUT", "NONE"}
    /\ up \in Seq(UpMessage) /\ down \in Seq(DownMessage)

ClientType ==
    /\ pc \in {"START", "FIRST", "READINESS", "IDLE", "DECIDE", "ANSWER",
               "CONFIRM", "DONE"}
    /\ wait \in Waiting
    /\ cs \in {"DISCONNECTED", "AWAITING_FIRST_STATE", "AWAITING_READINESS",
               "ACTIVE"}
    /\ latest \in Snapshot /\ acked \in BOOLEAN /\ pumping \in BOOLEAN
    /\ next \in Nat /\ view \in Snapshot /\ budget \in 0..1
    /\ ending \in BOOLEAN /\ answer \in Answers
    /\ inflight \subseteq [id : Nat, give : Nat]

CarriedType ==
    /\ throttle \in [tick : Nat, sent : 0..CommandsPerTick, blocked : Nat]
    /\ session \in Nat /\ breaks \in Nat
    /\ sent \in Seq(Nat) /\ Len(sent) <= MaxRequests

SessionType == ServerType /\ LinkType /\ ClientType /\ CarriedType

-----------------------------------------------------------------------------
(* The inductive invariant *)

Contents(channel) == {channel[i] : i \in DOMAIN channel}

\* What is on its way: commands to the server, states to the client.
Commands == {m \in Contents(up) : m.kind # "READY"}

Arriving == {m.state : m \in {n \in Contents(down) : n.kind = "STATE"}}

\* The newest state the client has been shown, and those that are going to be
\* newer: it ignores the others.
Shown == {s \in Arriving \cup {latest} : s.seq > 0 /\ s.seq >= latest.seq}

Newest == Len(sent)

\* Results are kept once for each request that was sent.
ResultInv ==
    /\ \A r \in server.results : r.id \in 1..Newest
    /\ \A q, r \in server.results : q.id = r.id => q = r

OneCommand(channel) ==
    \A i, j \in DOMAIN channel :
        channel[i].kind # "READY" /\ channel[j].kind # "READY" => i = j

\* At most one command is on its way: the newest, while it is waited for or
\* after it was given up, and the server has not seen it.
CommandInv ==
    /\ OneCommand(up)
    /\ \A m \in Commands :
          /\ m.id = Newest /\ pc \in {"START", "ANSWER", "DONE"}
          /\ \A r \in server.results : r.id # Newest
          /\ m.kind = "OFFER" => m.amount \in Amounts
          /\ m.kind = "OFFER" /\ pc = "ANSWER" =>
                [id |-> m.id, give |-> m.amount] \in inflight

\* A session without a connection knows nothing, and one without its seat has
\* been told nothing.
LinkInv ==
    /\ link = "NONE" <=> pc \in {"START", "DONE"}
    /\ link = "NONE" => down = <<>> /\ latest = NoSnapshot
    /\ link = "UP" /\ ~seat.mine =>
          down = <<>> /\ latest = NoSnapshot /\ pc = "FIRST"
    /\ latest.seq > 0 \/ latest = NoSnapshot

\* What the loop waits for, and that it goes on only from a state.
WaitInv ==
    /\ pc = "FIRST" => wait.on = "SNAPSHOT"
    /\ pc = "ANSWER" => wait.on = "COMMAND" /\ wait.key = Newest
    /\ wait.state.results \subseteq latest.results
    /\ \/ pc \in {"START", "DONE"}
       \/ pc = "FIRST" /\ wait.status # "DONE"
       \/ latest.seq > 0

\* An answer is a stored result, or the refusal of a command that will never
\* have one.
NoResultFor(id) ==
    /\ \A r \in server.results : r.id # id
    /\ \A m \in Commands : m.id # id

AnswerInv ==
    /\ \A m \in Contents(down) :
          /\ m.kind = "RESULT" => m.answer \in server.results
          /\ m.kind = "ERROR" => m.id \in 1..Newest /\ NoResultFor(m.id)
    /\ pc = "ANSWER" /\ wait.status = "DONE" =>
          /\ wait.answer.id = Newest
          /\ \/ wait.answer \in server.results
             \/ wait.answer.code = "ERROR" /\ NoResultFor(Newest)
    /\ pc = "CONFIRM" => answer \in server.results /\ answer.id = Newest

\* What a state s of the planet lacks of the server's is at most the newest
\* command, its result and its offer together.
Reflects(s) ==
    /\ s.tick <= server.tick /\ s.results \subseteq server.results
    /\ \A r \in server.results \ s.results : r.id = Newest
    /\ \A o \in server.book :
          (\E r \in s.results : r.id = o.id) => o \in s.book

\* What n ticks take at most, and the stock together with all that ticks may
\* have taken: no tick lowers it, in a state or in the world w itself.
Taken(n) == Drain * n

Backing(w) == w.stock + Taken(w.tick)

\* Nor does the server's have less to give than a state that lacks nothing, but
\* for what ticks took since.
Slack(s) ==
    /\ IsFiniteSet(s.book)
    /\ \A o \in s.book : s.tick < o.expires /\ o.expires <= s.tick + OfferTtl
    /\ s.results = server.results =>
          Backing(s) + GiveTotal(server.book)
             <= Backing(server) + GiveTotal(s.book)

ShownInv ==
    /\ \A s \in Shown : s.seq <= seat.seq /\ Reflects(s) /\ Slack(s)
    /\ \A s, t \in Shown : s.seq <= t.seq =>
          s.results \subseteq t.results /\ s.tick <= t.tick
    /\ pc = "DECIDE" => Reflects(view) /\ Slack(view)

\* Between commands nothing is lacking.
SettledInv ==
    /\ pc \in {"FIRST", "READINESS", "IDLE", "DECIDE"} =>
          \A s \in Shown : s.results = server.results
    /\ pc = "DECIDE" => view.results = server.results

\* An open offer has a result that says so; what the server may have opened
\* for the newest command is held.
BookInv ==
    /\ IsFiniteSet(server.book)
    /\ \A o \in server.book :
          /\ server.tick < o.expires
          /\ \E r \in server.results : r.id = o.id /\ r.code = "OK"
          /\ pc \in {"ANSWER", "CONFIRM"} /\ o.id = Newest =>
                [id |-> o.id, give |-> o.give] \in inflight

HeldInv ==
    /\ pc \notin {"ANSWER", "CONFIRM"} => inflight = {}
    /\ \A h \in inflight : h.id = Newest

\* The offers of the world w, and an amount more, promise what was there in
\* tick d, when or after which all of the offers were decided.
Covered(w, d, amount) ==
    /\ d <= w.tick
    /\ GiveTotal(w.book) + amount + Taken(d) <= Backing(w)
    /\ \A o \in w.book : o.expires <= d + OfferTtl

\* Everything promised was there when the last of it was, the command on its
\* way included.
PromiseInv ==
    /\ \E d \in Nat : Covered(server, d, 0)
    /\ \A m \in Commands : \E d \in Nat :
          /\ Covered(server, d, m.amount)
          /\ m.kind = "OFFER" => m.expires <= d + OfferTtl

\* Requests charged to tick t, and requests the server processed in it.
Charged(t) == {i \in 1..Newest : sent[i] = t}

ProcessedIn(t) == {i \in 1..Newest : \E q \in server.results :
                                        q.id = i /\ q.tick = t}

RateInv ==
    /\ \A i \in 1..Newest : sent[i] <= throttle.tick
    /\ throttle.tick <= server.tick
    /\ Cardinality(Charged(throttle.tick)) <= throttle.sent
    /\ \A t \in 0..DurationTicks : Cardinality(Charged(t)) <= CommandsPerTick
    /\ server.count <= Cardinality(ProcessedIn(server.tick))
    /\ \A s \in Shown : throttle.tick <= s.tick

SessionInv ==
    /\ SessionType /\ ResultInv /\ CommandInv /\ LinkInv /\ WaitInv
    /\ AnswerInv /\ ShownInv /\ SettledInv /\ BookInv /\ HeldInv
    /\ PromiseInv /\ RateInv

-----------------------------------------------------------------------------
(* Channels *)

\* Reading a channel takes its first message out.
LEMMA TailContents ==
    ASSUME NEW T, NEW channel \in Seq(T), channel # <<>>
    PROVE  /\ Tail(channel) \in Seq(T) /\ Head(channel) \in T
           /\ Contents(Tail(channel)) \subseteq Contents(channel)
           /\ Head(channel) \in Contents(channel)
           /\ OneCommand(channel) => OneCommand(Tail(channel))
           /\ OneCommand(channel) /\ Head(channel).kind # "READY" =>
                 \A m \in Contents(Tail(channel)) : m.kind = "READY"
<1>1. /\ Tail(channel) \in Seq(T) /\ Head(channel) \in T
      /\ Head(channel) = channel[1] /\ 1 \in DOMAIN channel
      /\ \A i \in DOMAIN Tail(channel) :
            i + 1 \in DOMAIN channel /\ Tail(channel)[i] = channel[i + 1]
      /\ DOMAIN channel \subseteq Nat \ {0}
      /\ DOMAIN Tail(channel) \subseteq Nat \ {0}
  OBVIOUS
<1> QED
  BY <1>1 DEF Contents, OneCommand

\* Writing adds one at its end.
LEMMA AppendContents ==
    ASSUME NEW T, NEW channel \in Seq(T), NEW m \in T
    PROVE  /\ Append(channel, m) \in Seq(T)
           /\ Contents(Append(channel, m)) = Contents(channel) \cup {m}
           /\ OneCommand(channel) /\ m.kind = "READY" =>
                 OneCommand(Append(channel, m))
           /\ (\A n \in Contents(channel) : n.kind = "READY") =>
                 OneCommand(Append(channel, m))
<1>1. /\ Append(channel, m) \in Seq(T)
      /\ DOMAIN channel = 1..Len(channel) /\ Len(channel) \in Nat
      /\ DOMAIN Append(channel, m) = 1..(Len(channel) + 1)
      /\ \A i \in 1..Len(channel) : Append(channel, m)[i] = channel[i]
      /\ Append(channel, m)[Len(channel) + 1] = m
  OBVIOUS
<1>2. \A i \in DOMAIN Append(channel, m) :
          i \in DOMAIN channel \/ i = Len(channel) + 1
  BY <1>1
<1> QED
  BY <1>1, <1>2 DEF Contents, OneCommand

\* A channel that is cut keeps what comes first.
LEMMA CutContents ==
    ASSUME NEW T, NEW channel \in Seq(T), NEW rest \in Cut(channel)
    PROVE  /\ rest \in Seq(T) /\ Contents(rest) \subseteq Contents(channel)
           /\ OneCommand(channel) => OneCommand(rest)
<1>1. PICK n \in 0..Len(channel) : rest = SubSeq(channel, 1, n)
  BY DEF Cut
<1>2. /\ rest \in Seq(T) /\ DOMAIN rest \subseteq DOMAIN channel
      /\ \A i \in DOMAIN rest : rest[i] = channel[i]
  BY <1>1, SubSeqProperties
<1> QED
  BY <1>2 DEF Contents, OneCommand

\* A broadcast is one message, or two.
LEMMA ConcatContents ==
    ASSUME NEW T, NEW channel \in Seq(T), NEW m \in T, NEW n \in T
    PROVE  /\ channel \o <<>> \o <<m>> = Append(channel, m)
           /\ channel \o <<n>> \o <<m>> = Append(Append(channel, n), m)
           /\ channel \o <<n, m>> = Append(Append(channel, n), m)
  OBVIOUS

\* An empty channel.
LEMMA EmptyContents ==
    /\ Contents(<<>>) = {} /\ OneCommand(<<>>)
    /\ \A T : <<>> \in Seq(T)
  BY DEF Contents, OneCommand

-----------------------------------------------------------------------------
(* Numbers *)

\* A set of numbers with a bound has a largest.
LEMMA LargestNumber ==
    ASSUME NEW S \in SUBSET Nat, S # {}, NEW b \in Nat, \A x \in S : x <= b
    PROVE  Max(S) \in S /\ \A x \in S : x <= Max(S)
<1> DEFINE Bounds == {u \in Nat : \A x \in S : x <= u}
<1>1. PICK m \in Bounds : \A u \in Bounds : m <= u
  <2>1. Bounds \in SUBSET Nat /\ Bounds # {}
    OBVIOUS
  <2> HIDE DEF Bounds
  <2> QED
    BY <2>1, LeastNumber
<1>2. m \in S
  <2>1. SUFFICES ASSUME m \notin S PROVE FALSE
    OBVIOUS
  <2>2. m \in Nat /\ \A x \in S : x \in Nat /\ x < m
    BY <1>1, <2>1
  <2>3. m > 0
    <3>1. PICK x : x \in S
      OBVIOUS
    <3> QED
      BY <2>2, <3>1
  <2>4. m - 1 \in Nat /\ m - 1 < m /\ \A x \in S : x <= m - 1
    BY <2>2, <2>3
  <2>5. m - 1 \in Bounds
    BY <2>4
  <2> QED
    BY <1>1, <2>2, <2>4, <2>5
<1>3. \A x \in S : m >= x /\ x \in Nat
  BY <1>1
<1>4. \E x \in S : \A y \in S : x >= y
  BY <1>2, <1>3
<1> QED
  BY <1>3, <1>4 DEF Max

\* The throttle stays a throttle, whatever a state or an answer reports; only
\* the tick until which it is blocked changes.
LEMMA BlockedThrottle ==
    ASSUME SessionAssumption, CarriedType,
           NEW results \in SUBSET Answers,
           NEW b \in Nat, \A r \in results : r.tick <= b
    PROVE  /\ BlockUntil(throttle, results)
                 \in [tick : Nat, sent : 0..CommandsPerTick, blocked : Nat]
           /\ BlockUntil(throttle, results).tick = throttle.tick
           /\ BlockUntil(throttle, results).sent = throttle.sent
<1> DEFINE S == {throttle.blocked} \cup
                    {r.tick + 1 : r \in RateLimited(results)}
<1>1. throttle \in [tick : Nat, sent : 0..CommandsPerTick, blocked : Nat]
  BY DEF CarriedType
<1>2. S \in SUBSET Nat /\ S # {}
  BY <1>1 DEF RateLimited, Answers
<1>3. PICK c \in Nat : \A x \in S : x <= c
  <2>1. \A x \in S : x <= throttle.blocked + b + 1
    BY <1>1 DEF RateLimited, Answers
  <2>2. throttle.blocked + b + 1 \in Nat
    BY <1>1
  <2> HIDE DEF S
  <2> QED
    BY <2>1, <2>2, Zenon
<1>4. Max(S) \in Nat
  <2> HIDE DEF S
  <2> QED
    BY <1>2, <1>3, LargestNumber
<1>5. BlockUntil(throttle, results) = [throttle EXCEPT !.blocked = Max(S)]
  BY <1>1 DEF BlockUntil
<1> QED
  BY <1>1, <1>4, <1>5

-----------------------------------------------------------------------------
(* What a set of offers promises in all *)

FiniteBook(book) == IsFiniteSet(book) /\ \A o \in book : o.give \in Nat

Gives(book) == [o \in book |-> o.give]

\* The total of some of a book's offers is a sum of the book's.
LEMMA TotalOfSome ==
    ASSUME NEW book, FiniteBook(book), NEW some \in SUBSET book
    PROVE  /\ Summable(Gives(book), some) /\ FiniteBook(some)
           /\ GiveTotal(some) = SumFunctionOnSet(Gives(book), some)
<1>1. IsFiniteSet(some) /\ FiniteBook(some)
  BY FS_Subset DEF FiniteBook
<1>2. Summable(Gives(book), some)
  BY <1>1 DEF Summable, Gives, FiniteBook
<1>3. Agree(Gives(some), Gives(book), some)
  BY DEF Agree, Gives
<1>4. SumFunctionOnSet(Gives(some), some) = SumFunctionOnSet(Gives(book), some)
  BY <1>1, <1>3, SumsAgree
<1>5. DOMAIN Gives(some) = some
  BY DEF Gives
<1>6. GiveTotal(some) = SumFunctionOnSet(Gives(some), some)
  BY <1>5 DEF GiveTotal, SumFunction, Gives
<1> QED
  BY <1>1, <1>2, <1>4, <1>6

\* Nothing promises nothing.
LEMMA TotalOfNothing == GiveTotal({}) = 0
<1>1. FiniteBook({})
  BY FS_EmptySet DEF FiniteBook
<1>2. GiveTotal({}) = SumFunctionOnSet(Gives({}), {})
  BY <1>1, TotalOfSome
<1> QED
  BY <1>2, SumOfNothing

\* A part of a book promises no more than the book.
LEMMA TotalOfPart ==
    ASSUME NEW book, FiniteBook(book), NEW part \in SUBSET book
    PROVE  /\ GiveTotal(part) \in Nat /\ GiveTotal(book) \in Nat
           /\ GiveTotal(part) <= GiveTotal(book)
<1>1. /\ Summable(Gives(book), part) /\ Summable(Gives(book), book)
      /\ GiveTotal(part) = SumFunctionOnSet(Gives(book), part)
      /\ GiveTotal(book) = SumFunctionOnSet(Gives(book), book)
  BY TotalOfSome
<1>2. SumFunctionOnSet(Gives(book), part) \in Nat
  BY <1>1, SumTakesOut
<1>3. SumFunctionOnSet(Gives(book), book) \in Nat
  BY <1>1, SumTakesOut
<1> QED
  BY <1>1, <1>2, <1>3, SumOfPart

\* Settling an offer takes what it gives from the total.
LEMMA TotalWithout ==
    ASSUME NEW book, FiniteBook(book), NEW o \in book
    PROVE  GiveTotal(book) = o.give + GiveTotal(book \ {o})
<1>1. /\ Summable(Gives(book), book)
      /\ GiveTotal(book) = SumFunctionOnSet(Gives(book), book)
      /\ GiveTotal(book \ {o}) = SumFunctionOnSet(Gives(book), book \ {o})
  BY TotalOfSome
<1>2. SumFunctionOnSet(Gives(book), book)
          = Gives(book)[o] + SumFunctionOnSet(Gives(book), book \ {o})
  BY <1>1, SumTakesOut
<1> QED
  BY <1>1, <1>2 DEF Gives

\* Opening one adds it.
LEMMA TotalWith ==
    ASSUME NEW book, FiniteBook(book), NEW o, o \notin book, o.give \in Nat
    PROVE  /\ FiniteBook(book \cup {o})
           /\ GiveTotal(book \cup {o}) = o.give + GiveTotal(book)
<1>1. FiniteBook(book \cup {o})
  BY FS_AddElement DEF FiniteBook
<1>2. (book \cup {o}) \ {o} = book
  OBVIOUS
<1> QED
  BY <1>1, <1>2, TotalWithout

-----------------------------------------------------------------------------
(* What ticks take *)

LEMMA TakenAdds ==
    ASSUME SessionAssumption
    PROVE  /\ Drain \in Nat /\ Taken(0) = 0 /\ Taken(1) = Drain
           /\ \A n \in Nat : Taken(n) \in Nat
           /\ \A m, n \in Nat : Taken(m + n) = Taken(m) + Taken(n)
<1>1. Drain \in Nat
  BY DEF Drain, SessionAssumption
<1>2. \A d \in Nat : d * 0 = 0 /\ d * 1 = d
  OBVIOUS
<1>3. \A d, n \in Nat : d * n \in Nat
  OBVIOUS
<1>4. \A d, m, n \in Nat : d * (m + n) = d * m + d * n
  OBVIOUS
<1> QED
  BY <1>1, <1>2, <1>3, <1>4 DEF Taken

\* Over time no less is taken, and a tick takes no more than Drain.
LEMMA TicksTake ==
    ASSUME SessionAssumption
    PROVE  /\ \A m, n \in Nat : m <= n =>
                 /\ Taken(m) <= Taken(n)
                 /\ n - m \in Nat /\ Taken(n) = Taken(m) + Taken(n - m)
           /\ \A n, stock \in Nat : \A production \in ProductionLevels :
                 /\ StockAfter(stock, production) \in Nat
                 /\ stock + Taken(n)
                       <= StockAfter(stock, production) + Taken(n + 1)
<1>1. ASSUME NEW m \in Nat, NEW n \in Nat, m <= n
      PROVE  /\ Taken(m) <= Taken(n)
             /\ n - m \in Nat /\ Taken(n) = Taken(m) + Taken(n - m)
  <2>1. n - m \in Nat /\ n = m + (n - m)
    BY <1>1
  <2>2. Taken(n) = Taken(m) + Taken(n - m)
    BY <2>1, TakenAdds
  <2>3. Taken(m) \in Nat /\ Taken(n - m) \in Nat
    BY <2>1, TakenAdds
  <2> QED
    BY <2>1, <2>2, <2>3
<1>2. ASSUME NEW n \in Nat, NEW stock \in Nat,
             NEW production \in ProductionLevels
      PROVE  /\ StockAfter(stock, production) \in Nat
             /\ stock + Taken(n)
                   <= StockAfter(stock, production) + Taken(n + 1)
  <2>1. /\ production \in Nat /\ MinOutput \in Nat /\ Upkeep \in Nat
        /\ MinOutput <= production
    BY DEF SessionAssumption
  <2>2. /\ StockAfter(stock, production) \in Nat
        /\ stock <= StockAfter(stock, production) + Drain
    BY <2>1 DEF StockAfter, Drain
  <2>3. Taken(n + 1) = Taken(n) + Taken(1)
    BY TakenAdds
  <2>4. Taken(1) = Drain /\ Taken(n) \in Nat /\ Drain \in Nat
    BY TakenAdds
  <2> QED
    BY <2>2, <2>3, <2>4
<1> QED
  BY <1>1, <1>2

LEMMA BackingType ==
    ASSUME SessionAssumption, NEW w, w.stock \in Nat, w.tick \in Nat
    PROVE  Backing(w) \in Nat
<1>1. Taken(w.tick) \in Nat
  BY TakenAdds
<1> QED
  BY <1>1 DEF Backing

\* No open offer has a deadline further off than the time to live.
LEMMA Deadlines ==
    ASSUME SessionAssumption, NEW w, NEW d \in Nat, NEW amount,
           Covered(w, d, amount), w.tick \in Nat, w.book \in SUBSET Offers
    PROVE  \A o \in w.book : o.expires <= w.tick + OfferTtl
<1>1. OfferTtl \in Nat /\ \A o \in w.book : o.expires \in Nat
  BY DEF SessionAssumption, Offers
<1> QED
  BY <1>1 DEF Covered

-----------------------------------------------------------------------------
(* Steps in which nothing is sent and the planet's world stands still *)

Quiet ==
    /\ UNCHANGED <<server, sent>> /\ seat'.seq = seat.seq
    /\ throttle'.tick = throttle.tick /\ throttle'.sent = throttle.sent
    /\ Shown' \subseteq Shown
    /\ Commands' \subseteq Commands /\ OneCommand(up')

NoNewAnswers ==
    \A m \in Contents(down)' : m.kind \in {"RESULT", "ERROR"} =>
        m \in Contents(down)

\* What is said of the server alone, or of all that is shown, stays.
LEMMA QuietStep ==
    ASSUME SessionInv, Quiet
    PROVE  /\ ResultInv' /\ PromiseInv' /\ RateInv'
           /\ \A s \in Shown' : s.seq <= seat'.seq /\ Reflects(s)' /\ Slack(s)'
           /\ \A s, t \in Shown' : s.seq <= t.seq =>
                 s.results \subseteq t.results /\ s.tick <= t.tick
           /\ Newest' = Newest
           /\ \A id : NoResultFor(id) => NoResultFor(id)'
           /\ \A s : (Reflects(s) => Reflects(s)') /\ (Slack(s) => Slack(s)')
<1>1. Newest' = Newest /\ server' = server
  BY DEF Quiet, Newest
<1>2. \A t : Charged(t)' = Charged(t) /\ ProcessedIn(t)' = ProcessedIn(t)
  BY <1>1 DEF Quiet, Charged, ProcessedIn
<1>3. \A s : Reflects(s)' <=> Reflects(s)
  BY <1>1 DEF Reflects
<1>4. \A s : Slack(s)' <=> Slack(s)
  BY <1>1 DEF Slack
<1>5. ResultInv'
  BY <1>1 DEF SessionInv, ResultInv
<1>6. PromiseInv'
  BY <1>1 DEF SessionInv, PromiseInv, Quiet
<1>7. RateInv'
  <2>1. /\ throttle'.tick = throttle.tick /\ throttle'.sent = throttle.sent
        /\ sent' = sent /\ Shown' \subseteq Shown
    BY DEF Quiet
  <2>2. Charged(throttle.tick)' = Charged(throttle.tick)
    BY <1>1, <2>1 DEF Charged
  <2>3. ProcessedIn(server.tick)' = ProcessedIn(server.tick)
    BY <1>1 DEF ProcessedIn
  <2> QED
    BY <1>1, <1>2, <2>1, <2>2, <2>3 DEF SessionInv, RateInv
<1>8. \A id : NoResultFor(id) => NoResultFor(id)'
  BY <1>1 DEF NoResultFor, Quiet
<1>9. /\ \A s \in Shown' : s.seq <= seat'.seq /\ Reflects(s)' /\ Slack(s)'
      /\ \A s, t \in Shown' : s.seq <= t.seq =>
            s.results \subseteq t.results /\ s.tick <= t.tick
  BY <1>3, <1>4 DEF SessionInv, ShownInv, Quiet
<1> QED
  BY <1>1, <1>3, <1>4, <1>5, <1>6, <1>7, <1>8, <1>9

\* Where the loop's own state stands still too, only what the connection and
\* the waiter say remains to be looked at.
Undisturbed ==
    /\ ResultInv /\ CommandInv /\ ShownInv /\ SettledInv /\ BookInv /\ HeldInv
    /\ PromiseInv /\ RateInv

\* A step that is quiet and leaves the loop where it is disturbs none of it.
LEMMA LoopStands ==
    ASSUME SessionInv, Quiet, UNCHANGED <<pc, view, inflight>>
    PROVE  Undisturbed'
<1>1. Newest' = Newest /\ server' = server /\ sent' = sent
  BY DEF Quiet, Newest
<1>2. /\ ResultInv' /\ PromiseInv' /\ RateInv'
      /\ \A s \in Shown' : s.seq <= seat'.seq /\ Reflects(s)' /\ Slack(s)'
      /\ \A s, t \in Shown' : s.seq <= t.seq =>
            s.results \subseteq t.results /\ s.tick <= t.tick
  BY QuietStep
<1>3. CommandInv'
  BY <1>1 DEF SessionInv, CommandInv, Quiet
<1>4. ShownInv'
  <2>1. (Reflects(view) => Reflects(view)') /\ (Slack(view) => Slack(view)')
    BY <1>1 DEF Reflects, Slack
  <2> QED
    BY <1>2, <2>1 DEF SessionInv, ShownInv
<1>5. SettledInv'
  BY <1>1 DEF SessionInv, SettledInv, Quiet
<1>6. BookInv'
  BY <1>1 DEF SessionInv, BookInv
<1>7. HeldInv'
  BY <1>1 DEF SessionInv, HeldInv
<1> QED
  BY <1>2, <1>3, <1>4, <1>5, <1>6, <1>7 DEF Undisturbed

\* No command is on its way, and what is shown lacks nothing.
Settled == Commands = {} /\ \A s \in Shown : s.results = server.results

\* So it is between two commands, and nothing is held then.
LEMMA SettledBetween ==
    ASSUME SessionInv, pc \in {"FIRST", "READINESS", "IDLE", "DECIDE"}
    PROVE  Settled /\ inflight = {}
  BY DEF SessionInv, CommandInv, SettledInv, HeldInv, Settled

\* The loop moves to where nothing may be lacking or held.
LEMMA LoopMoves ==
    ASSUME SessionInv, Quiet, Settled,
           pc' \in {"READINESS", "IDLE", "DECIDE"}, inflight' = {},
           pc' = "DECIDE" => view' \in Shown
    PROVE  Undisturbed'
<1>1. Newest' = Newest /\ server' = server /\ sent' = sent
  BY DEF Quiet, Newest
<1>2. /\ ResultInv' /\ PromiseInv' /\ RateInv'
      /\ \A s \in Shown' : s.seq <= seat'.seq /\ Reflects(s)' /\ Slack(s)'
      /\ \A s, t \in Shown' : s.seq <= t.seq =>
            s.results \subseteq t.results /\ s.tick <= t.tick
  BY QuietStep
<1>3. Commands = {}
  BY DEF Settled
<1>4. CommandInv'
  BY <1>3 DEF CommandInv, Quiet
<1>5. \A s \in Shown : Reflects(s) /\ Slack(s) /\ s.results = server.results
  BY DEF SessionInv, ShownInv, Settled
<1>6. ShownInv'
  <2>1. ASSUME pc' = "DECIDE" PROVE Reflects(view)' /\ Slack(view)'
    <3>1. Reflects(view') /\ Slack(view')
      BY <1>5, <2>1
    <3> QED
      BY <1>1, <3>1 DEF Reflects, Slack
  <2> QED
    BY <1>2, <2>1 DEF ShownInv
<1>7. SettledInv'
  BY <1>1, <1>5 DEF SettledInv, Quiet
<1>8. BookInv'
  BY <1>1 DEF SessionInv, BookInv
<1>9. HeldInv'
  BY DEF HeldInv
<1> QED
  BY <1>2, <1>4, <1>6, <1>7, <1>8, <1>9 DEF Undisturbed

\* The session ends, or begins: nothing is shown, nothing is held.
LEMMA LoopLeaves ==
    ASSUME SessionInv, Quiet, Shown' = {}, inflight' = {},
           \/ pc' \in {"START", "DONE"}
           \/ pc' = "FIRST" /\ Commands' = {}
    PROVE  Undisturbed'
<1>1. Newest' = Newest /\ server' = server /\ sent' = sent
  BY DEF Quiet, Newest
<1>2. ResultInv' /\ PromiseInv' /\ RateInv'
  BY QuietStep
<1>3. CommandInv'
  BY <1>1 DEF SessionInv, CommandInv, Quiet
<1>4. ShownInv'
  BY DEF ShownInv
<1>5. SettledInv'
  BY DEF SettledInv
<1>6. BookInv'
  BY <1>1 DEF SessionInv, BookInv
<1>7. HeldInv'
  BY DEF HeldInv
<1> QED
  BY <1>2, <1>3, <1>4, <1>5, <1>6, <1>7 DEF Undisturbed

-----------------------------------------------------------------------------
(* What the server tells *)

NoStates(messages) == \A m \in messages : m.kind # "STATE"

\* A message that is not a state shows nothing new.
LEMMA NothingShown ==
    ASSUME NEW extra, NoStates(extra),
           Contents(down)' \subseteq Contents(down) \cup extra,
           latest' = latest
    PROVE  Shown' \subseteq Shown
<1>1. Arriving' \subseteq Arriving
  BY DEF Arriving, NoStates
<1> QED
  BY <1>1 DEF Shown

\* A view of the planet's world is a snapshot.
LEMMA ViewType ==
    ASSUME NEW s \in World, NEW q \in Nat
    PROVE  /\ View(q, s) \in Snapshot /\ State(View(q, s)) \in DownMessage
           /\ State(View(q, s)).kind = "STATE"
           /\ State(View(q, s)).state = View(q, s)
  BY DEF View, State, World, Worlds, Snapshot, DownMessage

\* A broadcast adds the new state, and what goes before it, to what arrives.
LEMMA Published ==
    ASSUME SessionInv, NEW s \in World, NEW first, NEW extra,
           extra \subseteq DownMessage, NoStates(extra),
           \/ first = <<>> /\ extra = {}
           \/ \E m : first = <<m>> /\ extra = {m},
           Publish(first, s), latest' = latest, link' = link
    PROVE  /\ server' = s /\ ServerType' /\ down' \in Seq(DownMessage)
           /\ Contents(down)' \subseteq Contents(down) \cup extra
                                 \cup {State(View(seat.seq + 1, s))}
           /\ \/ Shown' \subseteq Shown /\ seat'.seq = seat.seq
              \/ /\ Shown' \subseteq Shown \cup {View(seat.seq + 1, s)}
                 /\ seat'.seq = seat.seq + 1
           /\ seat'.mine = seat.mine /\ (~Reachable => down' = down)
<1>1. /\ server' = s /\ down \in Seq(DownMessage)
      /\ seat \in [mine : BOOLEAN, ready : BOOLEAN, seq : Nat]
  BY DEF Publish, SessionInv, SessionType, LinkType, ServerType
<1>2. CASE ~Reachable
  <2>1. UNCHANGED <<seat, down>>
    BY <1>2 DEF Publish
  <2>2. Shown' = Shown /\ Contents(down)' = Contents(down)
    BY <2>1 DEF Shown, Arriving, Contents
  <2> QED
    BY <1>1, <2>1, <2>2 DEF ServerType
<1>3. CASE Reachable
  <2> DEFINE v == View(seat.seq + 1, s)
             m == State(v)
  <2>1. /\ v \in Snapshot /\ m \in DownMessage /\ m.kind = "STATE"
        /\ m.state = v
    BY <1>1, ViewType
  <2>2. seat' = [seat EXCEPT !.seq = @ + 1] /\ down' = down \o first \o <<m>>
    BY <1>3 DEF Publish
  <2>3. seat'.seq = seat.seq + 1 /\ seat'.mine = seat.mine /\ ServerType'
    BY <1>1, <2>2 DEF ServerType
  <2>4. /\ down' \in Seq(DownMessage)
        /\ Contents(down') = Contents(down) \cup extra \cup {m}
    <3> HIDE DEF m
    <3>1. CASE first = <<>> /\ extra = {}
      <4>1. down' = Append(down, m)
        BY <1>1, <2>1, <2>2, <3>1, ConcatContents
      <4> QED
        BY <1>1, <2>1, <3>1, <4>1, AppendContents
    <3>2. CASE \E n : first = <<n>> /\ extra = {n}
      <4>1. PICK n : first = <<n>> /\ extra = {n}
        BY <3>2
      <4>2. n \in DownMessage
        BY <4>1
      <4> DEFINE c == Append(down, n)
      <4>3. c \in Seq(DownMessage) /\ Contents(c) = Contents(down) \cup {n}
        BY <1>1, <4>2, AppendContents
      <4>4. down \o <<n>> \o <<m>> = Append(c, m)
        BY <1>1, <2>1, <4>2, ConcatContents
      <4>5. down' = Append(c, m)
        BY <2>2, <4>1, <4>4
      <4> HIDE DEF c
      <4>6. /\ Append(c, m) \in Seq(DownMessage)
            /\ Contents(Append(c, m)) = Contents(c) \cup {m}
        BY <2>1, <4>3, AppendContents
      <4> QED
        BY <4>1, <4>3, <4>5, <4>6
    <3> QED
      BY <3>1, <3>2
  <2>5. Contents(down)' = Contents(down') /\ extra \cap {m} = {}
    BY <2>1 DEF Contents, NoStates
  <2>6. Arriving' \subseteq Arriving \cup {v}
    <3> HIDE DEF v, m
    <3> QED
      BY <2>1, <2>4, <2>5 DEF Arriving, NoStates
  <2>7. Shown' \subseteq Shown \cup {v}
    BY <2>6 DEF Shown
  <2> QED
    BY <1>1, <1>3, <2>3, <2>4, <2>5, <2>7
<1> QED
  BY <1>2, <1>3

\* Types of what is on its way.
LEMMA ContentsType ==
    ASSUME SessionType
    PROVE  /\ Contents(up) \subseteq UpMessage
           /\ Contents(down) \subseteq DownMessage
           /\ Shown \subseteq Snapshot
<1>1. Contents(up) \subseteq UpMessage /\ Contents(down) \subseteq DownMessage
  BY DEF SessionType, LinkType, Contents
<1>2. \A m \in DownMessage : m.kind = "STATE" => m.state \in Snapshot
  BY DEF DownMessage
<1>3. latest \in Snapshot
  BY DEF SessionType, ClientType
<1>4. Arriving \subseteq Snapshot
  BY <1>1, <1>2 DEF Arriving
<1> QED
  BY <1>1, <1>3, <1>4 DEF Shown

\* A set of the planet's offers has a total.
LEMMA OffersType ==
    ASSUME SessionAssumption, NEW book \in SUBSET Offers, IsFiniteSet(book)
    PROVE  FiniteBook(book) /\ GiveTotal(book) \in Nat
<1>1. FiniteBook(book)
  BY DEF Offers, FiniteBook, SessionAssumption
<1> QED
  BY <1>1, TotalOfPart

\* A new state is the last in the order of states, and lacks nothing.
LEMMA WorldShown ==
    ASSUME SessionAssumption, SessionInv, NEW s \in World, server' = s,
           NEW v, v = View(seat.seq + 1, s),
           \/ Shown' \subseteq Shown /\ seat'.seq = seat.seq
           \/ Shown' \subseteq Shown \cup {v} /\ seat'.seq = seat.seq + 1,
           server.results \subseteq s.results, server.tick <= s.tick,
           \A x \in Shown : Reflects(x)' /\ Slack(x)',
           IsFiniteSet(s.book),
           \A o \in s.book :
              s.tick < o.expires /\ o.expires <= s.tick + OfferTtl
    PROVE  /\ \A x \in Shown' : x.seq <= seat'.seq /\ Reflects(x)' /\ Slack(x)'
           /\ \A x, y \in Shown' : x.seq <= y.seq =>
                 x.results \subseteq y.results /\ x.tick <= y.tick
<1>1. /\ v.seq = seat.seq + 1 /\ v.tick = s.tick /\ v.results = s.results
      /\ v.book = s.book /\ v.stock = s.stock
  BY DEF View
<1>2. /\ s.tick \in Nat /\ s.stock \in Nat /\ server.tick \in Nat
      /\ seat.seq \in Nat
      /\ GiveTotal(s.book) \in Nat /\ Backing(s) \in Nat
  <2>1. s.book \in SUBSET Offers
    BY DEF World, Worlds
  <2>2. GiveTotal(s.book) \in Nat
    BY <2>1, OffersType
  <2>3. s.tick \in Nat /\ s.stock \in Nat
    BY DEF World, Worlds, SessionAssumption
  <2>4. Backing(s) \in Nat
    BY <2>3, BackingType
  <2> QED
    BY <2>2, <2>3, <2>4
    DEF World, Worlds, SessionInv, SessionType, ServerType, SessionAssumption
<1>3. Reflects(v)'
  BY <1>1, <1>2 DEF Reflects
<1>4. Slack(v)'
  <2>1. Backing(v) = Backing(s) /\ Backing(server)' = Backing(s)
    BY <1>1 DEF Backing
  <2> HIDE DEF Backing
  <2> QED
    BY <1>1, <1>2, <2>1 DEF Slack
<1>5. \A x \in Shown : /\ x.seq \in Nat /\ x.tick \in Nat /\ x.seq <= seat.seq
                       /\ x.results \subseteq server.results
                       /\ x.tick <= server.tick
  <2>1. Shown \subseteq Snapshot
    BY ContentsType DEF SessionInv
  <2> QED
    BY <2>1 DEF SessionInv, ShownInv, Reflects, Snapshot, SessionAssumption
<1>6. \A x \in Shown' : x \in Shown \/ (x = v /\ seat'.seq = seat.seq + 1)
  OBVIOUS
<1>7. \A x \in Shown' : x.seq <= seat'.seq
  BY <1>1, <1>2, <1>5
<1>8. ASSUME NEW x \in Shown', NEW y \in Shown', x.seq <= y.seq
      PROVE  x.results \subseteq y.results /\ x.tick <= y.tick
  <2>1. CASE x \in Shown /\ y \in Shown
    BY <1>8, <2>1 DEF SessionInv, ShownInv
  <2>2. CASE x \in Shown /\ y = v
    BY <1>1, <1>2, <1>5, <2>2
  <2>3. CASE x = v /\ y \in Shown
    BY <1>1, <1>2, <1>5, <1>8, <2>3
  <2>4. CASE x = v /\ y = v
    BY <1>1, <1>2, <2>4
  <2> QED
    BY <1>6, <2>1, <2>2, <2>3, <2>4
<1>9. \A x \in Shown' : Reflects(x)' /\ Slack(x)'
  BY <1>3, <1>4, <1>6
<1> QED
  BY <1>7, <1>8, <1>9

\* What has been processed can be counted.
LEMMA ProcessedCounts ==
    ASSUME SessionType
    PROVE  /\ Newest \in Nat /\ IsFiniteSet(1..Newest)
           /\ \A t : /\ IsFiniteSet(ProcessedIn(t)) /\ IsFiniteSet(Charged(t))
                     /\ Cardinality(ProcessedIn(t)) \in Nat
                     /\ Cardinality(Charged(t)) \in Nat
<1>1. Newest \in Nat
  BY DEF SessionType, CarriedType, Newest
<1>2. IsFiniteSet(1..Newest)
  BY <1>1, FS_Interval
<1>3. \A t : /\ ProcessedIn(t) \subseteq 1..Newest
            /\ Charged(t) \subseteq 1..Newest
  BY DEF ProcessedIn, Charged
<1> QED
  BY <1>1, <1>2, <1>3, FS_Subset, FS_CardinalityType

\* What the world does by itself: offers end, and stock goes with what they
\* promised or with a tick.
Lapses(s) ==
    /\ s \in World /\ s.results = server.results
    /\ server.tick <= s.tick /\ s.book \subseteq server.book
    /\ Backing(server) + GiveTotal(s.book) <= Backing(s) + GiveTotal(server.book)
    /\ \A o \in s.book : s.tick < o.expires
    /\ s.count = 0 \/ (s.count = server.count /\ s.tick = server.tick)

\* Such a change of the world, published to the seat, keeps the invariant.
LEMMA WorldLapses ==
    ASSUME SessionAssumption, SessionInv, NEW s, Lapses(s), Publish(<<>>, s),
           UNCHANGED <<link, up, pc, wait, sessionVars, loopVars, carriedVars>>
    PROVE  SessionInv'
<1> DEFINE v == View(seat.seq + 1, s)
<1>1. /\ s \in World /\ server' = s /\ ServerType' /\ down' \in Seq(DownMessage)
      /\ Contents(down)' \subseteq Contents(down) \cup {State(v)}
      /\ \/ Shown' \subseteq Shown /\ seat'.seq = seat.seq
         \/ Shown' \subseteq Shown \cup {v} /\ seat'.seq = seat.seq + 1
      /\ seat'.mine = seat.mine /\ (~Reachable => down' = down)
  <2>1. s \in World /\ {} \subseteq DownMessage
    BY DEF Lapses
  <2>2. latest' = latest /\ link' = link
    BY DEF sessionVars
  <2>3. \E x : x = {} /\ x \subseteq DownMessage /\ NoStates(x)
    <3>1. {} \subseteq DownMessage /\ NoStates({})
      BY DEF NoStates
    <3> QED
      BY <3>1, Zenon
  <2>4. /\ server' = s /\ ServerType' /\ down' \in Seq(DownMessage)
        /\ Contents(down)' \subseteq Contents(down) \cup {} \cup {State(v)}
        /\ \/ Shown' \subseteq Shown /\ seat'.seq = seat.seq
           \/ Shown' \subseteq Shown \cup {v} /\ seat'.seq = seat.seq + 1
        /\ seat'.mine = seat.mine /\ (~Reachable => down' = down)
    BY <2>1, <2>2, <2>3, Published
  <2> QED
    BY <2>1, <2>4
<1>2. /\ s.results = server.results /\ server.tick <= s.tick
      /\ s.book \subseteq server.book /\ IsFiniteSet(s.book)
      /\ GiveTotal(s.book) \in Nat /\ GiveTotal(server.book) \in Nat
      /\ s.tick \in Nat /\ server.tick \in Nat
      /\ Backing(s) \in Nat /\ Backing(server) \in Nat
      /\ Backing(server) + GiveTotal(s.book)
            <= Backing(s) + GiveTotal(server.book)
      /\ \A o \in s.book :
            s.tick < o.expires /\ o.expires <= s.tick + OfferTtl
  <2>1. server \in World /\ IsFiniteSet(server.book)
    BY DEF SessionInv, SessionType, ServerType, BookInv
  <2>2. IsFiniteSet(s.book)
    BY <2>1, FS_Subset DEF Lapses
  <2>3. s.book \in SUBSET Offers /\ server.book \in SUBSET Offers
    BY <2>1 DEF Lapses, World, Worlds
  <2>4. GiveTotal(s.book) \in Nat /\ GiveTotal(server.book) \in Nat
    BY <2>1, <2>2, <2>3, OffersType
  <2>5. /\ s.tick \in Nat /\ s.stock \in Nat
        /\ server.tick \in Nat /\ server.stock \in Nat
        /\ OfferTtl \in Nat /\ server.tick <= s.tick
        /\ s.book \subseteq server.book
    BY <2>1 DEF Lapses, World, Worlds, SessionAssumption
  <2>6. Backing(s) \in Nat /\ Backing(server) \in Nat
    BY <2>5, BackingType
  <2>7. \A o \in server.book :
           o.expires <= server.tick + OfferTtl /\ o.expires \in Nat
    <3>1. \E d \in Nat : Covered(server, d, 0)
      BY DEF SessionInv, PromiseInv
    <3> QED
      BY <2>3, <2>5, <3>1, Deadlines DEF Offers
  <2>8. \A o \in s.book : o.expires <= s.tick + OfferTtl
    BY <2>5, <2>7
  <2> QED
    BY <2>1, <2>2, <2>4, <2>5, <2>6, <2>8 DEF Lapses
<1>totals. /\ GiveTotal(s.book) \in Nat /\ GiveTotal(server.book) \in Nat
       /\ Backing(s) \in Nat /\ Backing(server) \in Nat
       /\ Backing(server) + GiveTotal(s.book)
             <= Backing(s) + GiveTotal(server.book)
  BY <1>2
<1>3. Newest' = Newest /\ Commands' = Commands
  BY DEF Newest, carriedVars, Commands, Contents
<1>4. /\ \A m \in Contents(up) : m.kind # "READY" => m.amount \in Nat
      /\ Shown \subseteq Snapshot
  BY ContentsType DEF SessionInv, UpMessage
<1>5. SessionType'
  <2>1. LinkType' /\ ClientType' /\ CarriedType'
    BY <1>1 DEF SessionInv, SessionType, LinkType, ClientType, CarriedType,
                sessionVars, loopVars, carriedVars
  <2> QED
    BY <1>1, <2>1 DEF SessionType
<1>6. ResultInv'
  BY <1>1, <1>2, <1>3 DEF SessionInv, ResultInv
<1>7. CommandInv'
  BY <1>1, <1>2, <1>3 DEF SessionInv, CommandInv, loopVars
<1>8. LinkInv'
  BY <1>1 DEF SessionInv, LinkInv, Reachable, sessionVars
<1>9. WaitInv'
  BY <1>3 DEF SessionInv, WaitInv, sessionVars
<1>10. AnswerInv'
  <2>1. State(v).kind = "STATE"
    BY DEF State
  <2>2. \A id : NoResultFor(id)' <=> NoResultFor(id)
    BY <1>1, <1>2, <1>3 DEF NoResultFor
  <2> HIDE DEF v
  <2> QED
    BY <1>1, <1>2, <1>3, <2>1, <2>2 DEF SessionInv, AnswerInv, loopVars
<1>11. \A x \in Shown \cup {view} : x \in Snapshot /\ Reflects(x) /\ Slack(x)
           => Reflects(x)' /\ Slack(x)'
  <2> SUFFICES ASSUME NEW x, x \in Snapshot, Reflects(x), Slack(x)
               PROVE  Reflects(x)' /\ Slack(x)'
    OBVIOUS
  <2>1. /\ x.tick \in Nat /\ x.stock \in Nat /\ x.book \in SUBSET Offers
        /\ IsFiniteSet(x.book)
    BY DEF Snapshot, Slack, SessionAssumption
  <2>2. GiveTotal(x.book) \in Nat
    BY <2>1, OffersType
  <2>3. Reflects(x)'
    <3>1. /\ x.tick <= server.tick /\ x.results \subseteq server.results
          /\ \A r \in server.results \ x.results : r.id = Newest
          /\ \A o \in server.book :
                (\E r \in x.results : r.id = o.id) => o \in x.book
      BY DEF Reflects
    <3>2. x.tick <= s.tick
      BY <1>2, <2>1, <3>1
    <3>3. /\ x.results \subseteq s.results
          /\ \A r \in s.results \ x.results : r.id = Newest
          /\ \A o \in s.book :
                (\E r \in x.results : r.id = o.id) => o \in x.book
      BY <1>2, <3>1
    <3>4. server' = s /\ Newest' = Newest
      BY <1>1, <1>3
    <3> QED
      BY <3>2, <3>3, <3>4 DEF Reflects
  <2>4. ASSUME x.results = server.results
        PROVE  Backing(x) + GiveTotal(s.book) <= Backing(s) + GiveTotal(x.book)
    <3>1. Backing(x) + GiveTotal(server.book)
             <= Backing(server) + GiveTotal(x.book)
      BY <2>4 DEF Slack
    <3>2. Backing(x) \in Nat
      BY <2>1, BackingType
    <3>3. \A a, b, c, d, e, f \in Nat :
              a + b <= c + d /\ c + e <= f + b => a + e <= f + d
      OBVIOUS
    <3> QED
      BY <1>totals, <2>2, <3>1, <3>2, <3>3
  <2>5. Slack(x)'
    BY <1>1, <1>2, <2>1, <2>4 DEF Slack
  <2> QED
    BY <2>3, <2>5
<1>12. ShownInv'
  <2>1. \A x \in Shown : Reflects(x)' /\ Slack(x)'
    BY <1>4, <1>11 DEF SessionInv, ShownInv
  <2>2. /\ \A x \in Shown' : x.seq <= seat'.seq /\ Reflects(x)' /\ Slack(x)'
        /\ \A x, y \in Shown' : x.seq <= y.seq =>
              x.results \subseteq y.results /\ x.tick <= y.tick
    <3> HIDE DEF v
    <3>1. v = View(seat.seq + 1, s)
      BY DEF v
    <3> QED
      BY <1>1, <1>2, <2>1, <3>1, WorldShown
  <2>3. pc' = "DECIDE" => Reflects(view)' /\ Slack(view)'
    <3>1. view \in Snapshot /\ view' = view
      BY DEF SessionInv, SessionType, ClientType, loopVars
    <3>2. pc = "DECIDE" => (Reflects(view) /\ Slack(view))
      BY DEF SessionInv, ShownInv
    <3> QED
      BY <1>1, <1>2, <1>3, <1>11, <3>1, <3>2 DEF Reflects, Slack
  <2> QED
    BY <2>2, <2>3 DEF ShownInv
<1>13. SettledInv'
  <2>1. v.results = server.results
    BY <1>2 DEF View
  <2> HIDE DEF v
  <2> QED
    BY <1>1, <1>2, <2>1 DEF SessionInv, SettledInv, loopVars
<1>14. BookInv'
  BY <1>1, <1>2, <1>3 DEF SessionInv, BookInv, loopVars
<1>15. HeldInv'
  BY <1>3 DEF SessionInv, HeldInv, loopVars
<1>16. PromiseInv'
  <2>1. ASSUME NEW d \in Nat, NEW amount \in Nat, Covered(server, d, amount)
        PROVE  Covered(s, d, amount)
    <3>1. Taken(d) \in Nat
      BY TakenAdds
    <3>2. \A a, b, c, e, x, y \in Nat :
              a + b <= c + e /\ e + x + y <= a => b + x + y <= c
      OBVIOUS
    <3>3. GiveTotal(server.book) + amount + Taken(d) <= Backing(server)
      BY <2>1 DEF Covered
    <3>4. GiveTotal(s.book) + amount + Taken(d) <= Backing(s)
      BY <1>totals, <3>1, <3>2, <3>3
    <3>5. d <= s.tick
      BY <1>2, <2>1 DEF Covered
    <3> QED
      BY <1>2, <2>1, <3>4, <3>5 DEF Covered
  <2>2. \A m \in Commands : m.amount \in Nat
    BY <1>4 DEF Commands
  <2>3. \E d \in Nat : Covered(s, d, 0)
    BY <2>1 DEF SessionInv, PromiseInv
  <2>4. ASSUME NEW m \in Commands
        PROVE  \E d \in Nat :
                  /\ Covered(s, d, m.amount)
                  /\ m.kind = "OFFER" => m.expires <= d + OfferTtl
    BY <2>1, <2>2 DEF SessionInv, PromiseInv
  <2> QED
    BY <1>1, <1>3, <2>3, <2>4 DEF PromiseInv
<1>17. RateInv'
  <2>1. throttle' = throttle /\ sent' = sent
    BY DEF carriedVars
  <2>2. \A t : Charged(t)' = Charged(t) /\ ProcessedIn(t)' = ProcessedIn(t)
    BY <1>1, <1>2, <1>3, <2>1 DEF Charged, ProcessedIn
  <2>3. Charged(throttle.tick)' = Charged(throttle.tick)
    BY <1>3, <2>1 DEF Charged
  <2>4. s.count <= Cardinality(ProcessedIn(server.tick)')
    <3>1. ProcessedIn(server.tick)' = ProcessedIn(s.tick)
      BY <1>1, <1>2, <1>3 DEF ProcessedIn
    <3>2. Cardinality(ProcessedIn(s.tick)) \in Nat
      BY ProcessedCounts DEF SessionInv
    <3>3. server.count <= Cardinality(ProcessedIn(server.tick))
      BY DEF SessionInv, RateInv
    <3> QED
      BY <3>1, <3>2, <3>3 DEF Lapses
  <2>5. throttle.tick \in Nat
    BY DEF SessionInv, SessionType, CarriedType
  <2>6. throttle.tick <= s.tick
    <3>1. throttle.tick <= server.tick
      BY DEF SessionInv, RateInv
    <3>2. server.tick \in Nat /\ s.tick \in Nat /\ server.tick <= s.tick
      BY <1>2
    <3> QED
      BY <2>5, <3>1, <3>2
  <2>7. \A x \in Shown' : throttle.tick <= x.tick
    <3>1. v.tick = s.tick
      BY DEF View
    <3> HIDE DEF v
    <3> QED
      BY <1>1, <2>6, <3>1 DEF SessionInv, RateInv
  <2> QED
    BY <1>1, <1>3, <2>1, <2>2, <2>3, <2>4, <2>6, <2>7
       DEF SessionInv, RateInv
<1> QED
  BY <1>5, <1>6, <1>7, <1>8, <1>9, <1>10, <1>12, <1>13, <1>14, <1>15, <1>16,
     <1>17 DEF SessionInv

\* The offer that was taken.
LEMMA OfferTaken ==
    ASSUME CounterpartAccepts
    PROVE  \E o \in server.book :
               /\ o.give <= server.stock
               /\ Publish(<<>>, [server EXCEPT !.book = @ \ {o},
                                               !.stock = @ - o.give])
  BY DEF CounterpartAccepts

\* The run starts, a tick passes, or another planet takes an offer.
LEMMA WorldKeepsInv ==
    ASSUME SessionAssumption, SessionInv,
           StartRun \/ AdvanceTick \/ CounterpartAccepts
    PROVE  SessionInv'
<1>1. /\ server \in World /\ IsFiniteSet(server.book)
      /\ server.book \in SUBSET Offers
      /\ \A o \in server.book : server.tick < o.expires
      /\ server.phase # "FINISHED" => server.tick < DurationTicks
      /\ server \in Worlds
  BY DEF SessionInv, SessionType, ServerType, BookInv, World, Worlds
<1>2. /\ server.tick \in Nat /\ server.stock \in Nat
      /\ GiveTotal(server.book) \in Nat /\ FiniteBook(server.book)
      /\ Taken(server.tick) \in Nat /\ DurationTicks \in Nat
      /\ server.tick \in 0..DurationTicks
  <2>1. /\ server.tick \in Nat /\ server.stock \in Nat
        /\ server.tick \in 0..DurationTicks /\ DurationTicks \in Nat
    BY <1>1 DEF Worlds, SessionAssumption
  <2>2. Taken(server.tick) \in Nat
    BY <2>1, TakenAdds
  <2>3. GiveTotal(server.book) \in Nat /\ FiniteBook(server.book)
    BY <1>1, OffersType
  <2> QED
    BY <2>1, <2>2, <2>3
<1>3. CASE StartRun
  <2> DEFINE s == [server EXCEPT !.phase = "RUNNING"]
  <2>1. /\ s \in World /\ s.results = server.results /\ s.tick = server.tick
        /\ s.book = server.book /\ s.stock = server.stock
        /\ s.count = server.count
    <3>1. server.phase = "READY"
      BY <1>3 DEF StartRun
    <3>2. /\ s \in Worlds /\ s.results = server.results /\ s.tick = server.tick
          /\ s.book = server.book /\ s.stock = server.stock
          /\ s.count = server.count
      BY <1>1 DEF Worlds, Phase
    <3> HIDE DEF s
    <3> QED
      BY <1>1, <3>1, <3>2 DEF World
  <2>2. Publish(<<>>, s)
    BY <1>3 DEF StartRun
  <2> HIDE DEF s
  <2>3. Lapses(s)
    BY <1>1, <1>2, <2>1 DEF Lapses, Backing
  <2> QED
    BY <1>3, <2>2, <2>3, WorldLapses DEF StartRun
<1>4. CASE AdvanceTick
  <2>0. PICK production \in ProductionLevels :
           LET now == server.tick + 1
               over == now >= DurationTicks
           IN Publish(<<>>,
                 [server EXCEPT
                    !.tick = now, !.count = 0,
                    !.stock = StockAfter(@, production),
                    !.phase = IF over THEN "FINISHED" ELSE @,
                    !.book = IF over THEN {}
                             ELSE {o \in @ : o.expires > now}])
    BY <1>4 DEF AdvanceTick
  <2> DEFINE now == server.tick + 1
             stock == StockAfter(server.stock, production)
             over == now >= DurationTicks
             left == IF over THEN {}
                     ELSE {o \in server.book : o.expires > now}
             s == [server EXCEPT
                     !.tick = now, !.count = 0, !.stock = stock,
                     !.phase = IF over THEN "FINISHED" ELSE @,
                     !.book = left]
  <2>1. now \in 0..DurationTicks
    <3>1. server.tick < DurationTicks
      BY <1>4, <1>1 DEF AdvanceTick
    <3> QED
      BY <1>2, <3>1
  <2>2. /\ left \subseteq server.book /\ \A o \in left : now < o.expires
        /\ stock \in Nat
        /\ server.stock + Taken(server.tick) <= stock + Taken(now)
    <3>1. \A o \in server.book : o.expires \in Nat
      BY <1>1 DEF Offers
    <3> QED
      BY <1>2, <3>1, TicksTake
  <2>3. GiveTotal(left) <= GiveTotal(server.book) /\ GiveTotal(left) \in Nat
    <3> HIDE DEF left
    <3> QED
      BY <1>2, <2>2, TotalOfPart
  <2>4. /\ s \in World /\ s.results = server.results /\ s.tick = now
        /\ s.book = left /\ s.stock = stock
        /\ s.count = 0
    <3>1. left \in SUBSET Offers /\ 0 \in 0..CommandsPerTick
      BY <1>1, <2>2 DEF SessionAssumption
    <3>2. (IF over THEN "FINISHED" ELSE server.phase) \in Phase
      BY <1>1 DEF Worlds, Phase
    <3>3. /\ s \in Worlds /\ s.results = server.results /\ s.tick = now
          /\ s.book = left /\ s.stock = stock
          /\ s.count = 0
          /\ s.phase = IF over THEN "FINISHED" ELSE server.phase
      <4> HIDE DEF left, now, over, stock
      <4> QED
        BY <1>1, <2>1, <2>2, <3>1, <3>2 DEF Worlds
    <3>4. s.phase # "FINISHED" => s.tick < DurationTicks
      <4>1. ~over => now < DurationTicks
        BY <1>2
      <4> HIDE DEF over, s, now
      <4> QED
        BY <3>3, <4>1
    <3> HIDE DEF s
    <3> QED
      BY <3>3, <3>4 DEF World
  <2>5. Publish(<<>>, s)
    BY <2>0
  <2> HIDE DEF s, left, stock
  <2>6. server.tick <= s.tick
    BY <1>2, <2>4
  <2>7. Backing(server) + GiveTotal(s.book)
           <= Backing(s) + GiveTotal(server.book)
    <3>1. Backing(server) <= Backing(s)
      BY <2>2, <2>4 DEF Backing
    <3>2. Backing(server) \in Nat /\ Backing(s) \in Nat
      BY <1>2, <2>1, <2>2, <2>4, BackingType
    <3> QED
      BY <1>2, <2>3, <2>4, <3>1, <3>2
  <2>8. Lapses(s)
    BY <2>2, <2>4, <2>6, <2>7 DEF Lapses
  <2> QED
    BY <1>4, <2>5, <2>8, WorldLapses DEF AdvanceTick
<1>5. CASE CounterpartAccepts
  <2>1. PICK o \in server.book :
            /\ o.give <= server.stock
            /\ Publish(<<>>, [server EXCEPT !.book = @ \ {o},
                                            !.stock = @ - o.give])
    BY <1>5, OfferTaken
  <2> DEFINE s == [server EXCEPT !.book = @ \ {o}, !.stock = @ - o.give]
  <2>2. o.give \in Nat
    BY <1>2 DEF FiniteBook
  <2>3. /\ s \in World /\ s.results = server.results /\ s.tick = server.tick
        /\ s.book = server.book \ {o} /\ s.stock = server.stock - o.give
        /\ s.count = server.count
    <3>1. /\ s \in Worlds /\ s.results = server.results /\ s.tick = server.tick
          /\ s.book = server.book \ {o} /\ s.stock = server.stock - o.give
          /\ s.count = server.count /\ s.phase = server.phase
      <4>1. \A m, n \in Nat : m <= n => n - m \in Nat
        OBVIOUS
      <4>2. server.stock - o.give \in Nat
        BY <1>2, <2>1, <2>2, <4>1
      <4> QED
        BY <1>1, <4>2 DEF Worlds
    <3> HIDE DEF s
    <3> QED
      BY <1>1, <3>1 DEF World
  <2>4. GiveTotal(server.book) = o.give + GiveTotal(server.book \ {o})
    BY <1>2, TotalWithout
  <2>5. GiveTotal(server.book \ {o}) \in Nat
    BY <1>2, TotalOfPart
  <2>6. Publish(<<>>, s)
    BY <2>1
  <2> HIDE DEF s
  <2>7. Backing(server) + GiveTotal(s.book)
           <= Backing(s) + GiveTotal(server.book)
    <3>1. Backing(s) = (server.stock - o.give) + Taken(server.tick)
      BY <2>3 DEF Backing
    <3>2. GiveTotal(s.book) = GiveTotal(server.book \ {o})
      BY <2>3
    <3>3. Backing(server) = server.stock + Taken(server.tick)
      BY DEF Backing
    <3> QED
      BY <1>2, <2>2, <2>4, <2>5, <3>1, <3>2, <3>3
  <2>8. Lapses(s)
    BY <1>1, <1>2, <2>3, <2>7 DEF Lapses
  <2>9. UNCHANGED <<link, up, pc, wait, sessionVars, loopVars, carriedVars>>
    BY <1>5 DEF CounterpartAccepts
  <2> QED
    BY <2>6, <2>8, <2>9, WorldLapses
<1> QED
  BY <1>3, <1>4, <1>5

-----------------------------------------------------------------------------
(* What happens to a connection while the loop stands still *)

\* Answers that arrived and answers that were taken stay what they are.
LEMMA AnswersStand ==
    ASSUME SessionInv, Quiet, NoNewAnswers,
           pc' = pc, answer' = answer,
           wait'.status = "DONE" /\ pc = "ANSWER" =>
              wait.status = "DONE" /\ wait'.answer = wait.answer
    PROVE  AnswerInv'
<1>1. /\ Newest' = Newest /\ server' = server
      /\ \A id : NoResultFor(id) => NoResultFor(id)'
  BY QuietStep DEF Quiet
<1>2. NoResultFor(Newest) => NoResultFor(Newest)'
  BY <1>1
<1>3. \A m \in Contents(down)' :
          /\ m.kind = "RESULT" => m.answer \in server.results
          /\ m.kind = "ERROR" => m.id \in 1..Newest /\ NoResultFor(m.id)
  BY DEF SessionInv, AnswerInv, NoNewAnswers
<1> QED
  BY <1>1, <1>2, <1>3 DEF SessionInv, AnswerInv

\* The connection alone is concerned.
LEMMA ConnectionStep ==
    ASSUME SessionInv, Quiet, SessionType', LinkInv', AnswerInv',
           UNCHANGED <<pc, wait, latest, view, inflight>>
    PROVE  SessionInv'
<1>1. Undisturbed'
  BY LoopStands
<1>2. WaitInv'
  <2>1. Newest' = Newest
    BY DEF Quiet, Newest
  <2> QED
    BY <2>1 DEF SessionInv, WaitInv
<1> QED
  BY <1>1, <1>2 DEF SessionInv, Undisturbed

\* The server takes the client's acknowledgement.
LEMMA ReadyKeepsInv ==
    ASSUME SessionInv, ServerReady
    PROVE  SessionInv'
<1>1. /\ up # <<>> /\ Head(up).kind = "READY" /\ up' = Tail(up)
      /\ seat' = [seat EXCEPT !.ready = TRUE]
      /\ \/ down' = Append(down, [kind |-> "ACK", seq |-> Head(up).seq])
         \/ down' = down
      /\ seat.mine
      /\ UNCHANGED <<server, link, pc, wait, latest, cs, acked, pumping, next,
                     view, budget, ending, answer, inflight, throttle,
                     session, sent, breaks>>
  BY DEF ServerReady, sessionVars, loopVars, carriedVars
<1>2. /\ up \in Seq(UpMessage) /\ down \in Seq(DownMessage)
      /\ seat \in [mine : BOOLEAN, ready : BOOLEAN, seq : Nat]
      /\ OneCommand(up)
  BY DEF SessionInv, SessionType, LinkType, ServerType, CommandInv
<1>3. /\ up' \in Seq(UpMessage) /\ Head(up) \in UpMessage
      /\ Contents(up') \subseteq Contents(up) /\ OneCommand(up')
  BY <1>1, <1>2, TailContents
<1>4. /\ seat' \in [mine : BOOLEAN, ready : BOOLEAN, seq : Nat]
      /\ seat'.seq = seat.seq /\ seat'.mine = seat.mine
  BY <1>1, <1>2
<1> DEFINE m == [kind |-> "ACK", seq |-> Head(up).seq]
<1>5. /\ m \in DownMessage /\ m.kind = "ACK"
      /\ down' = Append(down, m) \/ down' = down
  BY <1>1, <1>3 DEF UpMessage, DownMessage, CommandKind
<1> HIDE DEF m
<1>6. /\ down' \in Seq(DownMessage)
      /\ Contents(down') \subseteq Contents(down) \cup {m}
  <2>1. CASE down' = down
    BY <1>2, <2>1
  <2>2. CASE down' = Append(down, m)
    BY <1>2, <1>5, <2>2, AppendContents
  <2> QED
    BY <1>5, <2>1, <2>2
<1>7. Contents(down)' = Contents(down') /\ Contents(up)' = Contents(up')
  BY DEF Contents
<1>8. Shown' \subseteq Shown
  <2>1. latest' = latest /\ NoStates({m})
    BY <1>1, <1>5 DEF NoStates
  <2>2. Contents(down)' \subseteq Contents(down) \cup {m}
    BY <1>6, <1>7
  <2> QED
    BY <2>1, <2>2, NothingShown
<1>9. Quiet
  BY <1>1, <1>3, <1>4, <1>7, <1>8 DEF Quiet, Commands
<1>10. AnswerInv'
  <2>1. NoNewAnswers
    BY <1>5, <1>6, <1>7 DEF NoNewAnswers
  <2> QED
    BY <1>1, <1>9, <2>1, AnswersStand
<1>11. SessionType'
  BY <1>1, <1>3, <1>4, <1>6
     DEF SessionInv, SessionType, ServerType, LinkType, ClientType, CarriedType
<1>12. LinkInv'
  <2>1. link = "NONE" => down' = down
    BY <1>1 DEF ServerReady
  <2> QED
    BY <1>1, <1>4, <2>1 DEF SessionInv, LinkInv
<1> QED
  BY <1>1, <1>9, <1>10, <1>11, <1>12, ConnectionStep

\* The server refuses the command that arrives: it will have no result.
LEMMA RefusalKeepsInv ==
    ASSUME SessionInv, seat.mine, up # <<>>, Head(up).kind # "READY",
           up' = Tail(up),
           down' = IF link = "UP"
                   THEN Append(down, [kind |-> "ERROR", id |-> Head(up).id])
                   ELSE down,
           UNCHANGED <<serverVars, link, pc, wait, sessionVars, loopVars,
                       carriedVars>>
    PROVE  SessionInv'
<1>1. UNCHANGED <<server, seat, link, pc, wait, latest, cs, acked, pumping,
                  next, view, budget, ending, answer, inflight, throttle,
                  session, sent, breaks>>
  BY DEF serverVars, sessionVars, loopVars, carriedVars
<1>2. /\ up \in Seq(UpMessage) /\ down \in Seq(DownMessage)
      /\ OneCommand(up) /\ Newest \in Nat
  BY DEF SessionInv, SessionType, LinkType, CarriedType, CommandInv, Newest
<1>3. /\ up' \in Seq(UpMessage) /\ Head(up) \in UpMessage
      /\ Contents(up') \subseteq Contents(up) /\ OneCommand(up')
      /\ Head(up) \in Contents(up)
      /\ \A n \in Contents(up') : n.kind = "READY"
  BY <1>2, TailContents
<1>4. /\ Head(up) \in Commands /\ Head(up).id = Newest
      /\ \A r \in server.results : r.id # Newest
  BY <1>3 DEF SessionInv, CommandInv, Commands
<1> DEFINE m == [kind |-> "ERROR", id |-> Head(up).id]
<1>5. /\ m \in DownMessage /\ m.kind = "ERROR" /\ m.id = Newest
      /\ down' = Append(down, m) \/ down' = down
  BY <1>2, <1>4 DEF DownMessage
<1> HIDE DEF m
<1>6. /\ down' \in Seq(DownMessage)
      /\ Contents(down') \subseteq Contents(down) \cup {m}
  <2>1. CASE down' = down
    BY <1>2, <2>1
  <2>2. CASE down' = Append(down, m)
    BY <1>2, <1>5, <2>2, AppendContents
  <2> QED
    BY <1>5, <2>1, <2>2
<1>7. /\ Contents(down)' = Contents(down') /\ Contents(up)' = Contents(up')
      /\ Commands' = {}
  BY <1>3 DEF Contents, Commands
<1>8. Shown' \subseteq Shown
  <2>1. latest' = latest /\ NoStates({m})
    BY <1>1, <1>5 DEF NoStates
  <2>2. Contents(down)' \subseteq Contents(down) \cup {m}
    BY <1>6, <1>7
  <2> QED
    BY <2>1, <2>2, NothingShown
<1>9. Quiet
  BY <1>1, <1>3, <1>7, <1>8 DEF Quiet
<1>10. AnswerInv'
  <2>1. /\ Newest' = Newest /\ \A id : NoResultFor(id) => NoResultFor(id)'
    BY <1>9, QuietStep
  <2>2. NoResultFor(Newest) => NoResultFor(Newest)'
    BY <2>1
  <2>3. Newest \in 1..Newest
    <3>1. Newest \in Nat \ {0}
      BY <1>3, <1>4 DEF UpMessage
    <3> QED
      BY <3>1
  <2>4. \A id : id = Newest \/ NoResultFor(id) => NoResultFor(id)'
    BY <1>1, <1>4, <1>7, <2>1 DEF NoResultFor
  <2>5. \A n \in Contents(down)' :
            \/ n \in Contents(down)
            \/ n.kind = "ERROR" /\ n.id = Newest
    BY <1>5, <1>6, <1>7
  <2>6. \A n \in Contents(down)' :
            /\ n.kind = "RESULT" => n.answer \in server.results
            /\ n.kind = "ERROR" => n.id \in 1..Newest /\ NoResultFor(n.id)'
    BY <2>3, <2>4, <2>5 DEF SessionInv, AnswerInv
  <2> QED
    BY <1>1, <2>1, <2>2, <2>6 DEF SessionInv, AnswerInv
<1>11. SessionType'
  BY <1>1, <1>3, <1>6
     DEF SessionInv, SessionType, ServerType, LinkType, ClientType, CarriedType
<1>12. LinkInv'
  <2>1. link # "UP" => down' = down
    OBVIOUS
  <2> QED
    BY <1>1, <2>1 DEF SessionInv, LinkInv
<1> QED
  BY <1>1, <1>9, <1>10, <1>11, <1>12, ConnectionStep

\* The network drops the connection.
LEMMA DropKeepsInv ==
    ASSUME SessionInv, Drop
    PROVE  SessionInv'
<1>1. /\ link = "UP" /\ link' = "CUT" /\ breaks' = breaks + 1
      /\ UNCHANGED <<server, seat, pc, wait, latest, cs, acked, pumping, next,
                     view, budget, ending, answer, inflight, throttle,
                     session, sent>>
  BY DEF Drop, serverVars, sessionVars, loopVars
<1>2. PICK u \in Cut(up), d \in Cut(down) :
          up' = u /\ down' = Append(d, [kind |-> "CLOSED"])
  BY DEF Drop
<1> DEFINE m == [kind |-> "CLOSED"]
<1>3. /\ m \in DownMessage /\ m.kind = "CLOSED" /\ down' = Append(d, m)
  BY <1>2 DEF DownMessage
<1> HIDE DEF m
<1>4. /\ up \in Seq(UpMessage) /\ down \in Seq(DownMessage) /\ OneCommand(up)
  BY DEF SessionInv, SessionType, LinkType, CommandInv
<1>5. /\ u \in Seq(UpMessage) /\ Contents(u) \subseteq Contents(up)
      /\ OneCommand(u)
  BY <1>4, CutContents
<1>6. d \in Seq(DownMessage) /\ Contents(d) \subseteq Contents(down)
  BY <1>4, CutContents
<1>7. /\ down' \in Seq(DownMessage)
      /\ Contents(down') \subseteq Contents(down) \cup {m}
  BY <1>3, <1>6, AppendContents
<1>8. /\ Contents(down)' = Contents(down') /\ Contents(up)' = Contents(u)
      /\ Commands' \subseteq Commands
  BY <1>2, <1>5 DEF Contents, Commands
<1>9. Shown' \subseteq Shown
  <2>1. latest' = latest /\ NoStates({m})
    BY <1>1, <1>3 DEF NoStates
  <2>2. Contents(down)' \subseteq Contents(down) \cup {m}
    BY <1>7, <1>8
  <2> QED
    BY <2>1, <2>2, NothingShown
<1>10. Quiet
  BY <1>1, <1>2, <1>5, <1>8, <1>9 DEF Quiet
<1>11. AnswerInv'
  <2>1. NoNewAnswers
    BY <1>3, <1>7, <1>8 DEF NoNewAnswers
  <2> QED
    BY <1>1, <1>10, <2>1, AnswersStand
<1>12. SessionType'
  BY <1>1, <1>2, <1>5, <1>7
     DEF SessionInv, SessionType, ServerType, LinkType, ClientType, CarriedType
<1>13. LinkInv'
  BY <1>1 DEF SessionInv, LinkInv
<1> QED
  BY <1>1, <1>10, <1>11, <1>12, <1>13, ConnectionStep

\* Another process takes the seat.
LEMMA TakeoverKeepsInv ==
    ASSUME SessionInv, Takeover
    PROVE  SessionInv'
<1>1. /\ link = "UP" /\ link' = "CUT" /\ breaks' = breaks + 1
      /\ up' = <<>> /\ seat' = [seat EXCEPT !.mine = FALSE]
      /\ UNCHANGED <<server, pc, wait, latest, cs, acked, pumping, next,
                     view, budget, ending, answer, inflight, throttle,
                     session, sent>>
  BY DEF Takeover, Reachable, sessionVars, loopVars
<1> DEFINE m == [kind |-> "FENCED"]
           n == [kind |-> "CLOSED"]
           c == Append(down, m)
<1>2. down \in Seq(DownMessage)
  BY DEF SessionInv, SessionType, LinkType
<1>3. /\ m \in DownMessage /\ m.kind = "FENCED"
      /\ n \in DownMessage /\ n.kind = "CLOSED"
      /\ down' = down \o <<m, n>>
  BY DEF Takeover, DownMessage
<1> HIDE DEF m, n
<1>4. down' = Append(c, n)
  BY <1>2, <1>3, ConcatContents
<1>5. c \in Seq(DownMessage) /\ Contents(c) = Contents(down) \cup {m}
  BY <1>2, <1>3, AppendContents
<1> HIDE DEF c
<1>6. /\ down' \in Seq(DownMessage)
      /\ Contents(down') = Contents(c) \cup {n}
  <2>1. /\ Append(c, n) \in Seq(DownMessage)
        /\ Contents(Append(c, n)) = Contents(c) \cup {n}
    BY <1>3, <1>5, AppendContents
  <2> QED
    BY <1>4, <2>1
<1>7. /\ Contents(down)' \subseteq Contents(down) \cup {m, n}
      /\ Commands' = {} /\ OneCommand(up') /\ up' \in Seq(UpMessage)
  <2>1. Contents(down') = Contents(down) \cup {m} \cup {n}
    BY <1>5, <1>6
  <2>2. Contents(down)' = Contents(down')
    BY DEF Contents
  <2>3. Commands' = {} /\ OneCommand(up') /\ up' \in Seq(UpMessage)
    BY <1>1, EmptyContents DEF Commands
  <2> QED
    BY <2>1, <2>2, <2>3
<1>8. Shown' \subseteq Shown
  <2>1. latest' = latest /\ NoStates({m, n})
    BY <1>1, <1>3 DEF NoStates
  <2> QED
    BY <1>7, <2>1, NothingShown
<1>9. /\ seat' \in [mine : BOOLEAN, ready : BOOLEAN, seq : Nat]
      /\ seat'.seq = seat.seq
  BY <1>1 DEF SessionInv, SessionType, ServerType
<1>10. Quiet
  BY <1>1, <1>7, <1>8, <1>9 DEF Quiet
<1>11. AnswerInv'
  <2>1. NoNewAnswers
    BY <1>3, <1>7 DEF NoNewAnswers
  <2> QED
    BY <1>1, <1>10, <2>1, AnswersStand
<1>12. SessionType'
  <2>1. ServerType' /\ LinkType'
    BY <1>1, <1>6, <1>7, <1>9 DEF SessionInv, SessionType, ServerType, LinkType
  <2>2. ClientType'
    BY <1>1 DEF SessionInv, SessionType, ClientType
  <2>3. throttle' = throttle /\ session' = session /\ sent' = sent
    BY <1>1
  <2>4. breaks' \in Nat
    <3>1. breaks \in Nat
      BY DEF SessionInv, SessionType, CarriedType
    <3>2. breaks' = breaks + 1
      BY <1>1
    <3> QED
      BY <3>1, <3>2
  <2>5. CarriedType'
    BY <2>3, <2>4 DEF SessionInv, SessionType, CarriedType
  <2> QED
    BY <2>1, <2>2, <2>5 DEF SessionType
<1>13. LinkInv'
  BY <1>1 DEF SessionInv, LinkInv
<1> QED
  BY <1>1, <1>10, <1>11, <1>12, <1>13, ConnectionStep

\* The server gives the connection its planet's seat, and its first state.
LEMMA SeatKeepsInv ==
    ASSUME SessionAssumption, SessionInv, Seat
    PROVE  SessionInv'
<1> DEFINE v == View(1, server)
           m == State(v)
<1>1. /\ link = "UP" /\ ~seat.mine
      /\ seat' = [mine |-> TRUE, ready |-> FALSE, seq |-> 1]
      /\ down' = <<m>>
      /\ UNCHANGED <<server, link, up, pc, wait, cs, latest, acked, pumping,
                     next, view, budget, ending, answer, inflight, throttle,
                     session, sent, breaks>>
  BY DEF Seat, sessionVars, loopVars, carriedVars
<1>2. latest = NoSnapshot /\ down = <<>> /\ pc = "FIRST" /\ server \in World
  BY <1>1 DEF SessionInv, LinkInv, SessionType, ServerType
<1>3. /\ v \in Snapshot /\ m \in DownMessage /\ m.kind = "STATE" /\ m.state = v
      /\ v.results = server.results /\ v.tick = server.tick
      /\ v.book = server.book /\ v.stock = server.stock /\ v.seq = 1
  BY <1>2, ViewType DEF View
<1> HIDE DEF v, m
<1>4. Contents(down)' = {m} /\ down' \in Seq(DownMessage)
  BY <1>1, <1>3 DEF Contents
<1>5. Shown' \subseteq {v}
  <2>1. latest'.seq = 0
    BY <1>1, <1>2 DEF NoSnapshot
  <2>2. Arriving' \subseteq {v}
    BY <1>3, <1>4 DEF Arriving
  <2> QED
    BY <2>1, <2>2 DEF Shown
<1>6. Newest' = Newest /\ Commands' = Commands
  BY <1>1 DEF Newest, Commands, Contents
<1>7. SessionType'
  BY <1>1, <1>4
     DEF SessionInv, SessionType, ServerType, LinkType, ClientType, CarriedType
<1>8. ResultInv' /\ CommandInv' /\ BookInv' /\ HeldInv' /\ PromiseInv'
  BY <1>1, <1>6
     DEF SessionInv, ResultInv, CommandInv, BookInv, HeldInv, PromiseInv
<1>9. LinkInv' /\ WaitInv'
  BY <1>1, <1>6 DEF SessionInv, LinkInv, WaitInv
<1>10. AnswerInv'
  BY <1>1, <1>2, <1>3, <1>4, <1>6 DEF SessionInv, AnswerInv
<1>11. ShownInv'
  <2>1. /\ IsFiniteSet(server.book) /\ GiveTotal(server.book) \in Nat
        /\ server.tick \in Nat /\ Backing(server) \in Nat
        /\ \A o \in server.book : /\ server.tick < o.expires
                                  /\ o.expires <= server.tick + OfferTtl
    <3>1. server.book \in SUBSET Offers /\ IsFiniteSet(server.book)
      BY <1>2 DEF World, Worlds, SessionInv, BookInv
    <3>2. /\ server.tick \in Nat /\ server.stock \in Nat
          /\ \E d \in Nat : Covered(server, d, 0)
      BY <1>2 DEF SessionInv, PromiseInv, World, Worlds, SessionAssumption
    <3>3. \A o \in server.book : o.expires <= server.tick + OfferTtl
      BY <3>1, <3>2, Deadlines
    <3> QED
      BY <3>1, <3>2, <3>3, OffersType, BackingType DEF SessionInv, BookInv
  <2>2. \A x : x = v => Reflects(x)' /\ Slack(x)'
    <3>1. Backing(v) = Backing(server) /\ Backing(server)' = Backing(server)
      BY <1>1, <1>3 DEF Backing
    <3> QED
      BY <1>1, <1>3, <2>1, <3>1 DEF Reflects, Slack
  <2>3. \A x \in Shown' : /\ Reflects(x)' /\ Slack(x)'
                          /\ x.seq = 1 /\ x.tick = server.tick
                          /\ x.results = server.results
    BY <1>3, <1>5, <2>2
  <2>4. \A x \in Shown' : x.seq <= seat'.seq
    BY <1>1, <2>3
  <2>5. \A x, y \in Shown' : x.results \subseteq y.results /\ x.tick <= y.tick
    BY <2>1, <2>3
  <2> QED
    BY <1>1, <1>2, <2>3, <2>4, <2>5 DEF ShownInv
<1>12. SettledInv'
  BY <1>1, <1>2, <1>3, <1>5 DEF SettledInv
<1>13. RateInv'
  <2>1. \A t : Charged(t)' = Charged(t) /\ ProcessedIn(t)' = ProcessedIn(t)
    BY <1>1, <1>6 DEF Charged, ProcessedIn
  <2>2. /\ Charged(throttle.tick)' = Charged(throttle.tick)
        /\ ProcessedIn(server.tick)' = ProcessedIn(server.tick)
    BY <1>1, <1>6 DEF Charged, ProcessedIn
  <2> QED
    BY <1>1, <1>3, <1>5, <1>6, <2>1, <2>2 DEF SessionInv, RateInv
<1> QED
  BY <1>7, <1>8, <1>9, <1>10, <1>11, <1>12, <1>13 DEF SessionInv

-----------------------------------------------------------------------------
(* The command on its way is processed *)

StoredResult(cmd) ==
    [id |-> cmd.id, code |-> CodeOf(cmd), tick |-> server.tick]

\* The command that is on its way, and what a verdict on it means.
LEMMA CommandVerdict ==
    ASSUME SessionAssumption, SessionInv, NEW cmd \in Commands
    PROVE  /\ cmd.kind \in CommandKind /\ cmd.id = Newest
           /\ cmd.id \in Nat \ {0} /\ cmd.amount \in Nat /\ cmd.expires \in Nat
           /\ cmd.kind = "OFFER" => cmd.amount \in Amounts
           /\ StoredResult(cmd) \in Results
           /\ CodeOf(cmd) = "RATE_LIMITED" => server.count >= CommandsPerTick
           /\ Counted(cmd) => server.count < CommandsPerTick
           /\ CodeOf(cmd) = "OK" => cmd.amount <= server.stock
           /\ CodeOf(cmd) = "OK" /\ cmd.kind = "OFFER" =>
                 server.tick < cmd.expires
<1>1. server \in World
  BY DEF SessionInv, SessionType, ServerType
<1>2. /\ server.stock \in Nat /\ server.tick \in 0..DurationTicks
      /\ server.tick \in Nat /\ server.count \in Nat
      /\ CommandsPerTick \in Nat
  BY <1>1 DEF World, Worlds, SessionAssumption
<1>3. cmd \in UpMessage /\ cmd.kind # "READY"
  BY ContentsType DEF SessionInv, Commands
<1>4. /\ cmd.kind \in CommandKind /\ cmd.id \in Nat \ {0}
      /\ cmd.amount \in Nat /\ cmd.expires \in Nat
  BY <1>3 DEF UpMessage
<1>5. cmd.id = Newest /\ (cmd.kind = "OFFER" => cmd.amount \in Amounts)
  BY DEF SessionInv, CommandInv
<1>6. CodeOf(cmd) \in {"OK", "RUN_NOT_RUNNING", "RATE_LIMITED",
                       "INVALID_ARGUMENT", "INSUFFICIENT_RESOURCES"}
  BY DEF CodeOf
<1>7. StoredResult(cmd) \in Results
  BY <1>2, <1>4, <1>6 DEF StoredResult, Results
<1>8. /\ CodeOf(cmd) = "RATE_LIMITED" => server.count >= CommandsPerTick
      /\ CodeOf(cmd) \in {"OK", "INSUFFICIENT_RESOURCES"} =>
            server.count < CommandsPerTick
      /\ CodeOf(cmd) = "OK" => cmd.amount <= server.stock
      /\ CodeOf(cmd) = "OK" /\ cmd.kind = "OFFER" => server.tick < cmd.expires
  BY <1>2, <1>4 DEF CodeOf
<1>9. Counted(cmd) => server.count < CommandsPerTick
  BY <1>8 DEF Counted
<1> QED
  BY <1>4, <1>5, <1>7, <1>8, <1>9

Opened(cmd) == [id |-> cmd.id, give |-> cmd.amount, expires |-> cmd.expires]

\* What the planet's world is after it.
LEMMA CommandEffect ==
    ASSUME SessionAssumption, SessionInv, NEW cmd \in Commands
    PROVE  LET s == After(cmd) IN
           /\ s \in World /\ s.tick = server.tick
           /\ s.results = server.results \cup {StoredResult(cmd)}
           /\ s.count = IF Counted(cmd) THEN server.count + 1 ELSE server.count
           /\ \/ s.book = server.book
              \/ /\ s.book = server.book \cup {Opened(cmd)}
                 /\ CodeOf(cmd) = "OK" /\ cmd.kind = "OFFER"
                 /\ server.tick < cmd.expires
           /\ IsFiniteSet(s.book)
           /\ \E d \in Nat : Covered(s, d, 0)
<1> DEFINE s == After(cmd)
           opens == CodeOf(cmd) = "OK" /\ cmd.kind = "OFFER"
           takes == CodeOf(cmd) = "OK" /\ cmd.kind = "ACCEPT"
           o == Opened(cmd)
           r == StoredResult(cmd)
<1>1. /\ server \in World /\ server \in Worlds
      /\ server.phase # "FINISHED" => server.tick < DurationTicks
      /\ IsFiniteSet(server.book)
      /\ server.book \in SUBSET Offers /\ server.results \in SUBSET Results
      /\ server.count \in 0..CommandsPerTick
      /\ server.stock \in Nat /\ CommandsPerTick \in Nat
  BY DEF SessionInv, SessionType, ServerType, BookInv, World, Worlds,
         SessionAssumption
<1>2. /\ cmd.id = Newest
      /\ cmd.id \in Nat \ {0} /\ cmd.amount \in Nat /\ cmd.expires \in Nat
      /\ cmd.kind = "OFFER" => cmd.amount \in Amounts
      /\ r \in Results
      /\ Counted(cmd) => server.count < CommandsPerTick
      /\ CodeOf(cmd) = "OK" => cmd.amount <= server.stock
      /\ opens => server.tick < cmd.expires
  BY CommandVerdict
<1>3. PICK d \in Nat : /\ Covered(server, d, cmd.amount)
                       /\ cmd.kind = "OFFER" => cmd.expires <= d + OfferTtl
  BY DEF SessionInv, PromiseInv
<1>4. opens => o \in Offers /\ o.give = cmd.amount
  BY <1>2 DEF Offers, Opened
<1>5. o \notin server.book
  <2>1. SUFFICES ASSUME o \in server.book PROVE FALSE
    OBVIOUS
  <2>2. \E q \in server.results : q.id = o.id
    BY <2>1 DEF SessionInv, BookInv
  <2>3. o.id = Newest
    BY <1>2 DEF Opened
  <2> QED
    BY <2>2, <2>3 DEF SessionInv, CommandInv
<1>6. s = [server EXCEPT
             !.count = IF Counted(cmd) THEN @ + 1 ELSE @,
             !.results = @ \cup {r},
             !.book = IF opens THEN @ \cup {o} ELSE @,
             !.stock = IF takes THEN @ - cmd.amount ELSE @]
  BY DEF After, StoredResult, Opened
<1> DEFINE count == IF Counted(cmd) THEN server.count + 1 ELSE server.count
           book == IF opens THEN server.book \cup {o} ELSE server.book
           stock == IF takes THEN server.stock - cmd.amount ELSE server.stock
<1>7. /\ count \in 0..CommandsPerTick /\ stock \in Nat
      /\ book \in SUBSET Offers /\ IsFiniteSet(book)
  <2>1. count \in 0..CommandsPerTick
    BY <1>1, <1>2
  <2>2. stock \in Nat
    BY <1>1, <1>2
  <2>3. book \in SUBSET Offers
    BY <1>1, <1>4
  <2>4. IsFiniteSet(book)
    BY <1>1, FS_AddElement
  <2> QED
    BY <2>1, <2>2, <2>3, <2>4
<1>8. /\ s \in Worlds /\ s.tick = server.tick /\ s.phase = server.phase
      /\ s.results = server.results \cup {r} /\ s.count = count
      /\ s.book = book /\ s.stock = stock
  <2> HIDE DEF opens, takes, o, r, s
  <2>1. s = [server EXCEPT !.count = count, !.results = server.results \cup {r},
                           !.book = book, !.stock = stock]
    BY <1>6
  <2> HIDE DEF count, book, stock
  <2> QED
    BY <1>1, <1>2, <1>7, <2>1 DEF Worlds
<1>9. /\ GiveTotal(book) + Taken(d) <= stock + Taken(server.tick)
      /\ \A x \in book : x.expires <= d + OfferTtl
  <2>1. /\ FiniteBook(server.book) /\ GiveTotal(server.book) \in Nat
        /\ Taken(d) \in Nat /\ Taken(server.tick) \in Nat
    <3>1. /\ server.tick \in Nat /\ d \in Nat
          /\ server.book \in SUBSET Offers /\ IsFiniteSet(server.book)
      BY <1>1 DEF Worlds
    <3> QED
      BY <3>1, OffersType, TakenAdds
  <2>2. /\ GiveTotal(server.book) + cmd.amount + Taken(d)
              <= server.stock + Taken(server.tick)
        /\ \A x \in server.book : x.expires <= d + OfferTtl
    BY <1>3 DEF Covered, Backing
  <2>3. CASE opens
    <3>1. GiveTotal(book) = cmd.amount + GiveTotal(server.book)
      <4>1. o.give \in Nat /\ o.give = cmd.amount
        BY <1>2, <1>4, <2>3
      <4> HIDE DEF o, opens
      <4> QED
        BY <1>5, <2>1, <2>3, <4>1, TotalWith
    <3>2. stock = server.stock /\ book = server.book \cup {o}
      BY <2>3
    <3>3. o.expires <= d + OfferTtl
      BY <1>3, <2>3 DEF Opened
    <3> HIDE DEF book, stock, o
    <3> QED
      BY <1>1, <1>2, <2>1, <2>2, <3>1, <3>2, <3>3
  <2>4. CASE ~opens
    <3>1. book = server.book
      BY <2>4
    <3>2. stock = server.stock \/ stock = server.stock - cmd.amount
      OBVIOUS
    <3> HIDE DEF book, stock
    <3> QED
      BY <1>1, <1>2, <2>1, <2>2, <3>1, <3>2
  <2> QED
    BY <2>3, <2>4
<1>cover. Covered(s, d, 0)
  <2>1. GiveTotal(book) \in Nat /\ d <= server.tick
    BY <1>3, <1>7, OffersType DEF Covered
  <2> HIDE DEF s, book, stock
  <2> QED
    BY <1>8, <1>9, <2>1 DEF Covered, Backing
<1>10. s \in World
  <2> HIDE DEF s
  <2> QED
    BY <1>1, <1>8 DEF World
<1>11. \/ book = server.book
       \/ book = server.book \cup {o} /\ opens /\ server.tick < cmd.expires
  BY <1>2
<1> HIDE DEF s, book, stock, r, o
<1> QED
  BY <1>7, <1>8, <1>cover, <1>10, <1>11 DEF s, r, o

\* The server processes the command that arrives.
LEMMA ProcessedKeepsInv ==
    ASSUME SessionAssumption, SessionInv, NEW cmd, cmd = Head(up),
           up # <<>>, cmd.kind # "READY", up' = Tail(up),
           Publish(<<Result(StoredResult(cmd))>>, After(cmd)),
           UNCHANGED <<link, pc, wait, sessionVars, loopVars, carriedVars>>
    PROVE  SessionInv'
<1> DEFINE r == StoredResult(cmd)
           s == After(cmd)
           v == View(seat.seq + 1, s)
           m == Result(r)
<1>1. UNCHANGED <<link, pc, wait, cs, latest, acked, pumping, next, view,
                  budget, ending, answer, inflight, throttle, session, sent,
                  breaks>>
  BY DEF sessionVars, loopVars, carriedVars
<1>2. /\ up \in Seq(UpMessage) /\ OneCommand(up)
      /\ Newest \in Nat /\ Newest' = Newest
  BY <1>1 DEF SessionInv, SessionType, LinkType, CarriedType, CommandInv, Newest
<1>3. /\ up' \in Seq(UpMessage) /\ OneCommand(up')
      /\ cmd \in Contents(up)
      /\ \A n \in Contents(up') : n.kind = "READY"
  BY <1>2, TailContents
<1>4. cmd \in Commands /\ Commands' = {}
  <2>1. Contents(up)' = Contents(up')
    BY DEF Contents
  <2> QED
    BY <1>3, <2>1 DEF Commands
<1>5. /\ cmd.id = Newest /\ r \in Results /\ r.id = Newest
      /\ r.tick = server.tick /\ r.code = CodeOf(cmd)
      /\ cmd.id \in Nat \ {0} /\ cmd.amount \in Nat
      /\ Counted(cmd) => server.count < CommandsPerTick
  BY <1>4, CommandVerdict DEF StoredResult
<1>6. /\ s \in World /\ s.tick = server.tick
      /\ s.results = server.results \cup {r}
      /\ s.count = IF Counted(cmd) THEN server.count + 1 ELSE server.count
      /\ \/ s.book = server.book
         \/ /\ s.book = server.book \cup {Opened(cmd)}
            /\ CodeOf(cmd) = "OK" /\ cmd.kind = "OFFER"
            /\ server.tick < cmd.expires
      /\ IsFiniteSet(s.book) /\ \E d \in Nat : Covered(s, d, 0)
  BY <1>4, CommandEffect
<1>7. /\ m \in DownMessage /\ m.kind = "RESULT" /\ m.answer = r
  BY <1>5 DEF Result, DownMessage
<1>8. /\ server \in World /\ server.tick \in Nat /\ server.count \in Nat
      /\ pc \in {"START", "ANSWER", "DONE"}
      /\ \A q \in server.results : q.id # Newest
  <2>1. server \in World
    BY DEF SessionInv, SessionType, ServerType
  <2>2. server.tick \in Nat /\ server.count \in Nat
    BY <2>1 DEF World, Worlds, SessionAssumption
  <2> QED
    BY <1>4, <2>1, <2>2 DEF SessionInv, CommandInv
<1> HIDE DEF r, s, v, m
<1>9. /\ server' = s /\ ServerType' /\ down' \in Seq(DownMessage)
      /\ Contents(down)' \subseteq Contents(down) \cup {m} \cup {State(v)}
      /\ \/ Shown' \subseteq Shown /\ seat'.seq = seat.seq
         \/ Shown' \subseteq Shown \cup {v} /\ seat'.seq = seat.seq + 1
      /\ seat'.mine = seat.mine /\ (~Reachable => down' = down)
  <2>1. {m} \subseteq DownMessage /\ NoStates({m})
    BY <1>7 DEF NoStates
  <2>2. Publish(<<m>>, s)
    BY DEF m, s, r
  <2>3. latest' = latest /\ link' = link
    BY <1>1
  <2>4. \E n : <<m>> = <<n>> /\ {m} = {n}
    OBVIOUS
  <2> QED
    BY <1>6, <2>1, <2>2, <2>3, <2>4, Published DEF v
<1>10. SessionType'
  BY <1>1, <1>3, <1>9
     DEF SessionInv, SessionType, LinkType, ClientType, CarriedType
<1>11. ResultInv'
  <2>1. Newest \in 1..Newest
    BY <1>2, <1>5
  <2>2. server'.results = server.results \cup {r} /\ Newest' = Newest
    BY <1>2, <1>6, <1>9
  <2>3. r.id = Newest /\ \A q \in server.results : q.id # Newest
    BY <1>5, <1>8
  <2>4. ResultInv
    BY DEF SessionInv
  <2> QED
    BY <2>1, <2>2, <2>3, <2>4 DEF ResultInv
<1>12. CommandInv'
  BY <1>3, <1>4 DEF CommandInv
<1>13. LinkInv'
  BY <1>1, <1>9 DEF SessionInv, LinkInv, Reachable
<1>14. WaitInv'
  BY <1>1, <1>2 DEF SessionInv, WaitInv
<1>15. AnswerInv'
  <2>1. State(v).kind = "STATE"
    BY DEF State
  <2>2. \A id : NoResultFor(id) => NoResultFor(id)'
    BY <1>4, <1>5, <1>6, <1>9 DEF NoResultFor
  <2>3. \A n \in Contents(down)' :
            /\ n.kind = "RESULT" => n.answer \in s.results
            /\ n.kind = "ERROR" => n.id \in 1..Newest /\ NoResultFor(n.id)'
    BY <1>6, <1>7, <1>9, <2>1, <2>2 DEF SessionInv, AnswerInv
  <2>4. ~NoResultFor(Newest)
    BY <1>4, <1>5 DEF NoResultFor
  <2> QED
    BY <1>1, <1>2, <1>6, <1>9, <2>3, <2>4 DEF SessionInv, AnswerInv
<1>16. ShownInv'
  <2>1. ASSUME NEW x \in Shown PROVE Reflects(x)' /\ Slack(x)'
    <3>1. Reflects(x) /\ Slack(x)
      BY DEF SessionInv, ShownInv
    <3>2. x.results # s.results
      BY <1>5, <1>6, <1>8, <3>1 DEF Reflects
    <3>3. Reflects(x)'
      <4>1. Opened(cmd).id = Newest
        BY <1>5 DEF Opened
      <4>2. \A q \in s.results \ x.results : q.id = Newest
        BY <1>5, <1>6, <3>1 DEF Reflects
      <4>3. \A o \in s.book :
                (\E q \in x.results : q.id = o.id) => o \in x.book
        BY <1>6, <1>8, <3>1, <4>1 DEF Reflects
      <4> QED
        BY <1>2, <1>6, <1>9, <3>1, <4>2, <4>3 DEF Reflects
    <3>4. Slack(x)'
      BY <1>9, <3>1, <3>2 DEF Slack
    <3> QED
      BY <3>3, <3>4
  <2>2. \A o \in s.book : s.tick < o.expires /\ o.expires <= s.tick + OfferTtl
    <3>0. \A o \in s.book : o.expires <= s.tick + OfferTtl
      <4>1. s.tick \in Nat /\ s.book \in SUBSET Offers
        BY <1>6, <1>8 DEF World, Worlds
      <4> QED
        BY <1>6, <4>1, Deadlines
    <3>1. \A o \in server.book : server.tick < o.expires
      BY DEF SessionInv, BookInv
    <3>2. Opened(cmd).expires = cmd.expires
      BY DEF Opened
    <3>3. \A o \in s.book :
              \/ o \in server.book
              \/ o = Opened(cmd) /\ server.tick < cmd.expires
      BY <1>6
    <3> QED
      BY <1>6, <3>0, <3>1, <3>2, <3>3
  <2>3. server.results \subseteq s.results /\ server.tick <= s.tick
    BY <1>6, <1>8
  <2>4. /\ \A x \in Shown' : x.seq <= seat'.seq /\ Reflects(x)' /\ Slack(x)'
        /\ \A x, y \in Shown' : x.seq <= y.seq =>
              x.results \subseteq y.results /\ x.tick <= y.tick
    BY <1>6, <1>9, <2>1, <2>2, <2>3, WorldShown DEF v
  <2> QED
    BY <1>1, <1>8, <2>4 DEF ShownInv
<1>17. SettledInv'
  BY <1>1, <1>8 DEF SettledInv
<1>18. BookInv'
  <2> SUFFICES ASSUME NEW o \in s.book
               PROVE  /\ s.tick < o.expires
                      /\ \E q \in s.results : q.id = o.id /\ q.code = "OK"
                      /\ pc = "ANSWER" /\ o.id = Newest =>
                            [id |-> o.id, give |-> o.give] \in inflight
    BY <1>1, <1>2, <1>6, <1>8, <1>9 DEF BookInv
  <2>1. CASE o \in server.book
    BY <1>6, <2>1 DEF SessionInv, BookInv
  <2>2. CASE o = Opened(cmd) /\ o \notin server.book
    <3>1. /\ CodeOf(cmd) = "OK" /\ cmd.kind = "OFFER"
          /\ server.tick < cmd.expires
      BY <1>6, <2>2
    <3>2. /\ o.id = Newest /\ o.give = cmd.amount /\ o.expires = cmd.expires
      BY <1>5, <2>2 DEF Opened
    <3>3. pc = "ANSWER" => [id |-> cmd.id, give |-> cmd.amount] \in inflight
      BY <1>4, <3>1 DEF SessionInv, CommandInv
    <3> QED
      BY <1>5, <1>6, <3>1, <3>2, <3>3
  <2> QED
    BY <1>6, <2>1, <2>2
<1>19. HeldInv'
  BY <1>1, <1>2 DEF SessionInv, HeldInv
<1>20. PromiseInv'
  BY <1>4, <1>6, <1>9 DEF PromiseInv
<1>21. RateInv'
  <2>1. \A t : Charged(t)' = Charged(t)
    BY <1>1, <1>2 DEF Charged
  <2>2. Charged(throttle.tick)' = Charged(throttle.tick)
    BY <1>1, <1>2 DEF Charged
  <2>3. ProcessedIn(server.tick)' = ProcessedIn(server.tick) \cup {Newest}
    <3>1. ProcessedIn(server.tick)' = {i \in 1..Newest :
              \E q \in s.results : q.id = i /\ q.tick = server.tick}
      <4>1. /\ server'.results = s.results /\ Newest' = Newest
            /\ server'.tick = server.tick
        BY <1>2, <1>6, <1>9
      <4>2. ProcessedIn(server.tick)' = {i \in 1..Newest' :
                \E q \in server'.results : q.id = i /\ q.tick = server'.tick}
        BY DEF ProcessedIn
      <4> QED
        BY <4>1, <4>2
    <3>2. Newest \in 1..Newest
      BY <1>2, <1>5
    <3> QED
      BY <1>5, <1>6, <3>1, <3>2 DEF ProcessedIn
  <2>4. Newest \notin ProcessedIn(server.tick)
    BY <1>8 DEF ProcessedIn
  <2>5. s.count <= Cardinality(ProcessedIn(server.tick)')
    <3>1. /\ IsFiniteSet(ProcessedIn(server.tick))
          /\ Cardinality(ProcessedIn(server.tick)) \in Nat
      BY ProcessedCounts DEF SessionInv
    <3>2. Cardinality(ProcessedIn(server.tick) \cup {Newest})
              = Cardinality(ProcessedIn(server.tick)) + 1
      BY <2>4, <3>1, FS_AddElement
    <3>3. server.count <= Cardinality(ProcessedIn(server.tick))
      BY DEF SessionInv, RateInv
    <3>4. s.count <= server.count + 1 /\ s.count \in Nat
      BY <1>6, <1>8
    <3> QED
      BY <1>8, <2>3, <3>1, <3>2, <3>3, <3>4
  <2>6. \A x \in Shown' : throttle.tick <= x.tick
    <3>1. v.tick = s.tick
      BY DEF View, v
    <3>2. throttle.tick <= s.tick
      BY <1>6 DEF SessionInv, RateInv
    <3> QED
      BY <1>9, <3>1, <3>2 DEF SessionInv, RateInv
  <2> QED
    BY <1>1, <1>2, <1>6, <1>9, <2>1, <2>2, <2>5, <2>6 DEF SessionInv, RateInv
<1> QED
  BY <1>10, <1>11, <1>12, <1>13, <1>14, <1>15, <1>16, <1>17, <1>18, <1>19,
     <1>20, <1>21 DEF SessionInv

\* What the server did with the command: refused it, or processed it.
LEMMA CommandTaken ==
    ASSUME SessionInv, ServerCommand
    PROVE  /\ seat.mine /\ up # <<>> /\ Head(up).kind # "READY"
           /\ up' = Tail(up)
           /\ UNCHANGED <<link, pc, wait, sessionVars, loopVars, carriedVars>>
           /\ \/ Publish(<<Result(StoredResult(Head(up)))>>, After(Head(up)))
              \/ /\ down' = IF link = "UP"
                            THEN Append(down, [kind |-> "ERROR",
                                               id |-> Head(up).id])
                            ELSE down
                 /\ UNCHANGED serverVars
  BY DEF ServerCommand, StoredResult

\* The server's handling of a command keeps it, processed or refused.
LEMMA CommandKeepsInv ==
    ASSUME SessionAssumption, SessionInv, ServerCommand
    PROVE  SessionInv'
<1>1. CASE Publish(<<Result(StoredResult(Head(up)))>>, After(Head(up)))
  BY <1>1, CommandTaken, ProcessedKeepsInv
<1>2. CASE /\ down' = IF link = "UP"
                      THEN Append(down, [kind |-> "ERROR", id |-> Head(up).id])
                      ELSE down
           /\ UNCHANGED serverVars
  BY <1>2, CommandTaken, RefusalKeepsInv
<1> QED
  BY <1>1, <1>2, CommandTaken

-----------------------------------------------------------------------------
(* The pump takes the next message *)

\* A verdict on a command: its stored result, or that it will have none.
Verdict(a) ==
    a \in server.results \/ (a.code = "ERROR" /\ NoResultFor(a.id))

ClientTypes ==
    /\ wait \in Waiting
    /\ cs \in {"DISCONNECTED", "AWAITING_FIRST_STATE", "AWAITING_READINESS",
               "ACTIVE"}
    /\ acked \in BOOLEAN /\ pumping \in BOOLEAN
    /\ throttle \in [tick : Nat, sent : 0..CommandsPerTick, blocked : Nat]

\* A newer state, or the same.
TakesState ==
    \/ latest' = latest
    \/ /\ Head(down).kind = "STATE" /\ latest' = Head(down).state
       /\ latest'.seq > latest.seq

\* The waiter is left alone, or resolved with what it waits for.
WaiterStep ==
    /\ wait'.on = wait.on /\ wait'.key = wait.key
    /\ wait'.state = wait.state \/ wait'.state = latest'
    /\ wait'.status = "DONE" =>
          \/ wait.status = "DONE" /\ wait'.answer = wait.answer
          \/ wait.on = "READINESS"
          \/ wait.on = "SNAPSHOT" /\ latest' # latest
          \/ wait.on = "COMMAND" /\ wait.key = wait'.answer.id
                /\ Verdict(wait'.answer)

\* What the client acts upon only shrinks as it reads, and what it knows grows.
LEMMA StateTaken ==
    ASSUME SessionAssumption, SessionInv, down # <<>>, down' = Tail(down),
           TakesState
    PROVE  /\ Contents(down)' \subseteq Contents(down)
           /\ down' \in Seq(DownMessage)
           /\ Head(down) \in Contents(down) /\ Head(down) \in DownMessage
           /\ Shown' \subseteq Shown /\ latest' \in Snapshot
           /\ latest.results \subseteq latest'.results
           /\ latest'.seq > 0 \/ latest' = latest
           /\ latest.seq > 0 => latest'.seq > 0
<1>1. down \in Seq(DownMessage) /\ latest \in Snapshot /\ latest.seq \in Nat
  BY DEF SessionInv, SessionType, LinkType, ClientType, Snapshot
<1>2. /\ down' \in Seq(DownMessage) /\ Head(down) \in DownMessage
      /\ Contents(down') \subseteq Contents(down)
      /\ Head(down) \in Contents(down)
  BY <1>1, TailContents
<1>3. Contents(down)' \subseteq Contents(down)
  BY <1>2 DEF Contents
<1>4. Arriving' \subseteq Arriving
  BY <1>3 DEF Arriving
<1>5. CASE latest' = latest
  <2>1. Shown' \subseteq Shown
    BY <1>4, <1>5 DEF Shown
  <2> QED
    BY <1>1, <1>2, <1>3, <1>5, <2>1
<1>6. CASE /\ Head(down).kind = "STATE" /\ latest' = Head(down).state
           /\ latest'.seq > latest.seq
  <2>1. latest' \in Arriving /\ latest' \in Snapshot /\ latest'.seq \in Nat
    <3>1. latest' \in Snapshot
      BY <1>2, <1>6 DEF DownMessage
    <3> QED
      BY <1>2, <1>6, <3>1 DEF Arriving, Snapshot
  <2>2. latest'.seq > 0 /\ latest' \in Shown
    BY <1>1, <1>6, <2>1 DEF Shown
  <2>3. Shown' \subseteq Shown
    <3>1. \A x \in Arriving : x.seq \in Nat
      <4>1. \A n \in Contents(down) : n.kind = "STATE" => n.state.seq \in Nat
        BY ContentsType DEF SessionInv, DownMessage, Snapshot
      <4> QED
        BY <4>1 DEF Arriving
    <3>2. \A x \in Arriving : x.seq >= latest'.seq => x.seq >= latest.seq
      BY <1>1, <1>6, <2>1, <3>1
    <3> QED
      BY <1>4, <2>2, <3>2 DEF Shown
  <2>4. latest.results \subseteq latest'.results
    <3>1. CASE latest = NoSnapshot
      BY <3>1 DEF NoSnapshot
    <3>2. CASE latest # NoSnapshot
      <4>1. latest \in Shown
        BY <1>1, <3>2 DEF SessionInv, LinkInv, Shown
      <4>2. latest.seq <= latest'.seq
        BY <1>1, <1>6, <2>1
      <4> QED
        BY <2>2, <4>1, <4>2 DEF SessionInv, ShownInv
    <3> QED
      BY <3>1, <3>2
  <2> QED
    BY <1>2, <1>3, <2>1, <2>2, <2>3, <2>4
<1> QED
  BY <1>5, <1>6 DEF TakesState

\* Whatever message is taken.
LEMMA PumpStep ==
    ASSUME SessionAssumption, SessionInv, down # <<>>, down' = Tail(down),
           TakesState, WaiterStep, ClientTypes',
           up' \in Seq(UpMessage), OneCommand(up'),
           Commands' \subseteq Commands,
           throttle'.tick = throttle.tick, throttle'.sent = throttle.sent,
           UNCHANGED <<server, seat, link, pc, next, view, budget, ending,
                       answer, inflight, session, sent, breaks>>
    PROVE  SessionInv'
<1>1. /\ Contents(down)' \subseteq Contents(down)
      /\ down' \in Seq(DownMessage)
      /\ Shown' \subseteq Shown /\ latest' \in Snapshot
      /\ latest.results \subseteq latest'.results
      /\ latest'.seq > 0 \/ latest' = latest
      /\ latest.seq > 0 => latest'.seq > 0
  BY StateTaken
<1>2. Quiet
  BY <1>1 DEF Quiet
<1>3. Undisturbed'
  BY <1>2, LoopStands
<1>4. SessionType'
  BY <1>1 DEF SessionInv, SessionType, ServerType, LinkType, ClientType,
              CarriedType, ClientTypes
<1>5. LinkInv'
  BY <1>1 DEF SessionInv, LinkInv
<1>6. /\ Newest' = Newest /\ \A id : NoResultFor(id) => NoResultFor(id)'
  BY <1>2, QuietStep
<1>7. WaitInv'
  <2>1. wait'.state.results \subseteq latest'.results
    BY <1>1 DEF SessionInv, WaitInv, WaiterStep
  <2>2. \/ pc \in {"START", "DONE"}
        \/ pc = "FIRST" /\ wait'.status # "DONE"
        \/ latest'.seq > 0
    BY <1>1 DEF SessionInv, WaitInv, WaiterStep
  <2> QED
    BY <1>6, <2>1, <2>2 DEF SessionInv, WaitInv, WaiterStep
<1>8. AnswerInv'
  <2>1. \A m \in Contents(down)' :
            /\ m.kind = "RESULT" => m.answer \in server.results
            /\ m.kind = "ERROR" => m.id \in 1..Newest /\ NoResultFor(m.id)'
    BY <1>1, <1>6 DEF SessionInv, AnswerInv
  <2>2. ASSUME pc = "ANSWER", wait'.status = "DONE"
        PROVE  /\ wait'.answer.id = Newest
               /\ \/ wait'.answer \in server.results
                  \/ wait'.answer.code = "ERROR" /\ NoResultFor(Newest)
    <3>1. wait.on = "COMMAND" /\ wait.key = Newest
      BY <2>2 DEF SessionInv, WaitInv
    <3>2. CASE wait.status = "DONE" /\ wait'.answer = wait.answer
      BY <2>2, <3>2 DEF SessionInv, AnswerInv
    <3>3. CASE wait.key = wait'.answer.id /\ Verdict(wait'.answer)
      BY <3>1, <3>3 DEF Verdict
    <3> QED
      BY <2>2, <3>1, <3>2, <3>3 DEF WaiterStep
  <2>3. NoResultFor(Newest) => NoResultFor(Newest)'
    BY <1>6
  <2> QED
    BY <1>6, <2>1, <2>2, <2>3 DEF SessionInv, AnswerInv
<1> QED
  BY <1>3, <1>4, <1>5, <1>7, <1>8 DEF SessionInv, Undisturbed

\* Answering a waiter resolves it only if it waits for this answer.
LEMMA AnsweredWaiter ==
    ASSUME NEW w \in Waiting, NEW a \in Answers
    PROVE  LET v == Answered(w, a) IN
           /\ v \in Waiting /\ v.on = w.on /\ v.key = w.key
           /\ v.state = w.state
           /\ \/ v = w
              \/ w.on = "COMMAND" /\ w.key = v.answer.id /\ v.answer = a
<1>1. CASE w.status = "PENDING" /\ w.on = "COMMAND" /\ w.key = a.id
  <2>1. Answered(w, a) = [w EXCEPT !.status = "DONE", !.answer = a]
    BY <1>1 DEF Answered
  <2> QED
    BY <1>1, <2>1 DEF Waiting
<1>2. CASE ~(w.status = "PENDING" /\ w.on = "COMMAND" /\ w.key = a.id)
  BY <1>2 DEF Answered
<1> QED
  BY <1>1, <1>2

\* A state resolves a waiter for a state, or for one of its results.
LEMMA InformedWaiter ==
    ASSUME SessionAssumption, NEW w \in Waiting, NEW s \in Snapshot
    PROVE  LET v == Informed(w, s) IN
           /\ v \in Waiting /\ v.on = w.on /\ v.key = w.key
           /\ v.state = w.state \/ v.state = s
           /\ \/ v = w
              \/ w.on = "SNAPSHOT"
              \/ /\ w.on = "COMMAND" /\ w.key = v.answer.id
                 /\ v.answer \in s.results
<1>1. CASE w.status = "PENDING" /\ w.on = "SNAPSHOT" /\ s.seq >= w.key
  <2>1. Informed(w, s) = [w EXCEPT !.status = "DONE", !.state = s]
    BY <1>1 DEF Informed
  <2> QED
    BY <1>1, <2>1 DEF Waiting
<1>2. CASE /\ ~(w.status = "PENDING" /\ w.on = "SNAPSHOT" /\ s.seq >= w.key)
           /\ \E a \in s.results : a.id = w.key
  <2> DEFINE a == CHOOSE b \in s.results : b.id = w.key
  <2>1. a \in s.results /\ Informed(w, s) = Answered(w, a)
    BY <1>2 DEF Informed
  <2>2. a \in Answers
    BY <2>1 DEF Snapshot, Results, Answers, SessionAssumption
  <2> HIDE DEF a
  <2> QED
    BY <2>1, <2>2, AnsweredWaiter
<1>3. CASE /\ ~(w.status = "PENDING" /\ w.on = "SNAPSHOT" /\ s.seq >= w.key)
           /\ ~ \E a \in s.results : a.id = w.key
  BY <1>3 DEF Informed
<1> QED
  BY <1>1, <1>2, <1>3

\* The pump takes a state.
LEMMA PumpStateKeepsInv ==
    ASSUME SessionAssumption, SessionInv, PumpState
    PROVE  SessionInv'
<1> DEFINE s == Head(down).state
           first == cs = "AWAITING_FIRST_STATE"
           m == [kind |-> "READY", seq |-> s.seq]
<1>1. /\ down # <<>> /\ down' = Tail(down) /\ Head(down).kind = "STATE"
      /\ UNCHANGED <<server, seat, link, pc, acked, pumping, next, view,
                     budget, ending, answer, inflight, session, sent, breaks>>
  BY DEF PumpState, serverVars, loopVars
<1>2. /\ wait \in Waiting /\ up \in Seq(UpMessage) /\ OneCommand(up)
      /\ down \in Seq(DownMessage) /\ ClientTypes
  BY DEF SessionInv, SessionType, LinkType, ClientType, CarriedType, CommandInv,
         ClientTypes
<1>3. Head(down) \in DownMessage /\ Head(down) \in Contents(down)
  BY <1>1, <1>2, TailContents
<1>4. s \in Snapshot /\ s.seq \in Nat /\ s.results \in SUBSET Results
  BY <1>1, <1>3 DEF DownMessage, Snapshot
<1>5. CASE ~(s.seq > latest.seq)
  <2>1. UNCHANGED <<latest, cs, up, throttle, wait>>
    BY <1>5 DEF PumpState
  <2>2. TakesState /\ WaiterStep /\ ClientTypes'
    BY <1>1, <1>2, <2>1 DEF TakesState, WaiterStep, ClientTypes
  <2>3. Commands' = Commands
    BY <2>1 DEF Commands, Contents
  <2> QED
    BY <1>1, <1>2, <2>1, <2>2, <2>3, PumpStep
<1>6. CASE s.seq > latest.seq
  <2>1. /\ latest' = s
        /\ cs' = (IF first THEN "AWAITING_READINESS" ELSE cs)
        /\ up' = Append(up, m) \/ up' = up
        /\ throttle' = BlockUntil(throttle, s.results)
        /\ wait' = Informed(wait, s)
    BY <1>6 DEF PumpState
  <2>2. TakesState
    BY <1>1, <1>6, <2>1 DEF TakesState
  <2>3. m \in UpMessage /\ m.kind = "READY"
    BY <1>4 DEF UpMessage
  <2> HIDE DEF m
  <2>4. /\ up' \in Seq(UpMessage) /\ OneCommand(up')
        /\ Commands' \subseteq Commands
    <3>1. CASE up' = up
      BY <1>2, <3>1 DEF Commands, Contents
    <3>2. CASE up' = Append(up, m)
      <4>1. /\ up' \in Seq(UpMessage) /\ OneCommand(up')
            /\ Contents(up') = Contents(up) \cup {m}
        BY <1>2, <2>3, <3>2, AppendContents
      <4>2. Contents(up)' = Contents(up')
        BY DEF Contents
      <4> QED
        BY <2>3, <4>1, <4>2 DEF Commands
    <3> QED
      BY <2>1, <3>1, <3>2
  <2>5. /\ throttle'.tick = throttle.tick /\ throttle'.sent = throttle.sent
        /\ throttle' \in [tick : Nat, sent : 0..CommandsPerTick, blocked : Nat]
    <3>1. /\ s.results \in SUBSET Answers /\ DurationTicks \in Nat
          /\ \A r \in s.results : r.tick <= DurationTicks
      BY <1>4 DEF Results, Answers, SessionAssumption
    <3>2. CarriedType
      BY DEF SessionInv, SessionType
    <3> QED
      BY <2>1, <3>1, <3>2, BlockedThrottle
  <2>6. /\ wait' \in Waiting /\ wait'.on = wait.on /\ wait'.key = wait.key
        /\ wait'.state = wait.state \/ wait'.state = s
        /\ \/ wait' = wait
           \/ wait.on = "SNAPSHOT"
           \/ /\ wait.on = "COMMAND" /\ wait.key = wait'.answer.id
              /\ wait'.answer \in s.results
    BY <1>2, <1>4, <2>1, InformedWaiter
  <2>7. s.results \subseteq server.results
    <3>1. s \in Shown
      <4>1. latest.seq \in Nat
        BY DEF SessionInv, SessionType, ClientType, Snapshot
      <4> QED
        BY <1>1, <1>3, <1>4, <1>6, <4>1 DEF Shown, Arriving
    <3> QED
      BY <3>1 DEF SessionInv, ShownInv, Reflects
  <2>8. WaiterStep
    <3>1. latest' # latest
      <4>1. latest.seq \in Nat
        BY DEF SessionInv, SessionType, ClientType, Snapshot
      <4> QED
        BY <1>4, <1>6, <2>1, <4>1
    <3> QED
      BY <2>1, <2>6, <2>7, <3>1 DEF WaiterStep, Verdict
  <2>9. ClientTypes'
    BY <1>1, <1>2, <2>1, <2>5, <2>6 DEF ClientTypes
  <2> QED
    BY <1>1, <2>2, <2>4, <2>5, <2>8, <2>9, PumpStep
<1> QED
  BY <1>5, <1>6

\* The pump takes a result, or a refusal.
LEMMA PumpAnswerKeepsInv ==
    ASSUME SessionAssumption, SessionInv, PumpAnswer
    PROVE  SessionInv'
<1> DEFINE m == Head(down)
           refusal == [id |-> m.id, code |-> "ERROR", tick |-> 0]
<1>1. /\ down # <<>> /\ down' = Tail(down)
      /\ UNCHANGED <<server, seat, link, up, pc, cs, latest, acked, pumping,
                     next, view, budget, ending, answer, inflight, session,
                     sent, breaks>>
      /\ \/ /\ m.kind = "RESULT"
            /\ throttle' = BlockUntil(throttle, {m.answer})
            /\ wait' = Answered(wait, m.answer)
         \/ /\ m.kind = "ERROR" /\ throttle' = throttle
            /\ wait' = Answered(wait, refusal)
  BY DEF PumpAnswer, serverVars, sessionVars, loopVars
<1>2. /\ wait \in Waiting /\ up \in Seq(UpMessage) /\ OneCommand(up)
      /\ down \in Seq(DownMessage) /\ ClientTypes /\ CarriedType
      /\ throttle \in [tick : Nat, sent : 0..CommandsPerTick, blocked : Nat]
  BY DEF SessionInv, SessionType, LinkType, ClientType, CarriedType, CommandInv,
         ClientTypes
<1>3. m \in DownMessage /\ m \in Contents(down)
  BY <1>1, <1>2, TailContents
<1>4. TakesState /\ Commands' = Commands
  BY <1>1 DEF TakesState, Commands, Contents
<1>5. ASSUME NEW a \in Answers, wait' = Answered(wait, a), Verdict(a)
      PROVE  WaiterStep /\ wait' \in Waiting
  <2>1. /\ wait' \in Waiting /\ wait'.on = wait.on /\ wait'.key = wait.key
        /\ wait'.state = wait.state
        /\ \/ wait' = wait
           \/ wait.on = "COMMAND" /\ wait.key = wait'.answer.id
                 /\ wait'.answer = a
    BY <1>2, <1>5, AnsweredWaiter
  <2> QED
    BY <1>5, <2>1 DEF WaiterStep
<1>6. /\ WaiterStep /\ wait' \in Waiting
      /\ throttle'.tick = throttle.tick /\ throttle'.sent = throttle.sent
      /\ throttle' \in [tick : Nat, sent : 0..CommandsPerTick, blocked : Nat]
  <2>1. CASE m.kind = "RESULT"
    <3>1. m.answer \in Results /\ m.answer \in server.results
      BY <1>3, <2>1 DEF DownMessage, SessionInv, AnswerInv
    <3>2. /\ m.answer \in Answers /\ DurationTicks \in Nat
          /\ m.answer.tick <= DurationTicks
      BY <3>1 DEF Results, Answers, SessionAssumption
    <3>3. Verdict(m.answer)
      BY <3>1 DEF Verdict
    <3>4. /\ throttle' = BlockUntil(throttle, {m.answer})
          /\ wait' = Answered(wait, m.answer)
      BY <1>1, <2>1
    <3>5. /\ {m.answer} \in SUBSET Answers
          /\ \A r \in {m.answer} : r.tick <= DurationTicks
      BY <3>2
    <3> QED
      BY <1>2, <1>5, <3>2, <3>3, <3>4, <3>5, BlockedThrottle
  <2>2. CASE m.kind = "ERROR"
    <3>1. m.id \in Nat /\ NoResultFor(m.id)
      BY <1>3, <2>2 DEF DownMessage, SessionInv, AnswerInv
    <3>2. refusal \in Answers /\ Verdict(refusal)
      BY <3>1 DEF Answers, Verdict
    <3>3. throttle' = throttle /\ wait' = Answered(wait, refusal)
      BY <1>1, <2>2
    <3> HIDE DEF refusal
    <3> QED
      BY <1>2, <1>5, <3>2, <3>3
  <2> QED
    BY <1>1, <2>1, <2>2
<1>7. ClientTypes'
  BY <1>1, <1>2, <1>6 DEF ClientTypes
<1> QED
  BY <1>1, <1>2, <1>4, <1>6, <1>7, PumpStep

\* The pump takes the acknowledgement, or learns that the connection ended.
LEMMA PumpEndKeepsInv ==
    ASSUME SessionAssumption, SessionInv,
           PumpAck \/ PumpFenced \/ PumpClosed
    PROVE  SessionInv'
<1>1. /\ down # <<>> /\ down' = Tail(down)
      /\ UNCHANGED <<server, seat, link, up, pc, latest, next, view, budget,
                     ending, answer, inflight, throttle, session, sent, breaks>>
      /\ cs' \in {"ACTIVE", "DISCONNECTED", cs}
      /\ acked' \in {TRUE, acked} /\ pumping' \in {FALSE, pumping}
  BY DEF PumpAck, PumpFenced, PumpClosed, serverVars, loopVars, carriedVars
<1>2. \/ wait' = wait
      \/ wait.on = "READINESS" /\ wait' = [wait EXCEPT !.status = "DONE"]
      \/ wait' = [wait EXCEPT !.status = "FAILED"]
  BY DEF PumpAck, PumpFenced, PumpClosed, Failed
<1>3. /\ wait \in Waiting /\ up \in Seq(UpMessage) /\ OneCommand(up)
      /\ ClientTypes
  BY DEF SessionInv, SessionType, LinkType, ClientType, CarriedType, CommandInv,
         ClientTypes
<1>4. TakesState /\ Commands' = Commands
  BY <1>1 DEF TakesState, Commands, Contents
<1>5. WaiterStep /\ wait' \in Waiting
  BY <1>2, <1>3 DEF WaiterStep, Waiting
<1>6. ClientTypes'
  BY <1>1, <1>3, <1>5 DEF ClientTypes
<1> QED
  BY <1>1, <1>3, <1>4, <1>5, <1>6, PumpStep

-----------------------------------------------------------------------------
(* The loop connects, waits and gives up *)

\* The values that stand for nothing.
LEMMA NothingTypes ==
    ASSUME SessionAssumption
    PROVE  /\ NoSnapshot \in Snapshot /\ NoAnswer \in Answers
           /\ NoWait \in Waiting
           /\ NoSnapshot.seq = 0 /\ NoSnapshot.results = {}
           /\ NoWait.state = NoSnapshot /\ NoWait.status = "NONE"
<1>1. 0 \in 0..DurationTicks
  BY DEF SessionAssumption
<1>2. NoSnapshot \in Snapshot /\ NoAnswer \in Answers
  BY <1>1 DEF NoSnapshot, Snapshot, NoAnswer, Answers
<1>3. NoSnapshot.seq = 0 /\ NoSnapshot.results = {}
  BY DEF NoSnapshot
<1>4. NoWait = [on |-> "NOTHING", key |-> 0, status |-> "NONE",
                state |-> NoSnapshot, answer |-> NoAnswer]
  BY DEF NoWait
<1> QED
  BY <1>2, <1>3, <1>4 DEF Waiting

\* A wait that has just been started.
LEMMA WaitTypes ==
    ASSUME SessionAssumption, NEW on \in {"SNAPSHOT", "READINESS", "COMMAND"},
           NEW key \in Nat
    PROVE  LET w == WaitFor(on, key) IN
           /\ w \in Waiting /\ w.on = on /\ w.key = key
           /\ w.status = "PENDING" /\ w.state = NoSnapshot
<1>1. WaitFor(on, key) = [NoWait EXCEPT !.on = on, !.key = key,
                                        !.status = "PENDING"]
  BY DEF WaitFor
<1> QED
  BY <1>1, NothingTypes DEF Waiting

\* A wait for a state is resolved at once if the state is there.
LEMMA AwaitTypes ==
    ASSUME SessionAssumption, NEW key \in Nat, latest \in Snapshot
    PROVE  LET w == AwaitSnapshot(key) IN
           /\ w \in Waiting /\ w.on = "SNAPSHOT"
           /\ \/ w.state = NoSnapshot /\ w.status = "PENDING"
              \/ w.state = latest /\ w.status = "DONE" /\ latest.seq >= key
<1> DEFINE w == WaitFor("SNAPSHOT", key)
<1>1. /\ w \in Waiting /\ w.on = "SNAPSHOT" /\ w.status = "PENDING"
      /\ w.state = NoSnapshot
  BY WaitTypes
<1>2. CASE latest.seq >= key
  <2>1. AwaitSnapshot(key) = [w EXCEPT !.status = "DONE", !.state = latest]
    BY <1>2 DEF AwaitSnapshot
  <2> HIDE DEF w
  <2> QED
    BY <1>1, <1>2, <2>1 DEF Waiting
<1>3. CASE ~(latest.seq >= key)
  BY <1>1, <1>3 DEF AwaitSnapshot
<1> QED
  BY <1>2, <1>3

\* The loop stops the session.
LEMMA StopKeepsInv ==
    ASSUME SessionAssumption, SessionInv, NEW outcome \in {"START", "DONE"},
           Stop(outcome)
    PROVE  SessionInv'
<1>1. /\ pc' = outcome /\ link' = "NONE" /\ down' = <<>> /\ wait' = NoWait
      /\ latest' = NoSnapshot /\ inflight' = {}
      /\ cs' = "DISCONNECTED" /\ acked' = FALSE /\ pumping' = FALSE
      /\ next' = 0 /\ view' = NoSnapshot /\ budget' = 0 /\ ending' = FALSE
      /\ answer' = NoAnswer
      /\ UNCHANGED <<server, seat, up, throttle, session, sent, breaks>>
  BY DEF Stop, serverVars, carriedVars
<1>2. Shown' = {} /\ Contents(down)' = {}
  <2>1. Contents(down)' = {}
    BY <1>1, EmptyContents DEF Contents
  <2> QED
    BY <1>1, <2>1, NothingTypes DEF Shown, Arriving
<1>3. Quiet
  BY <1>1, <1>2 DEF Quiet, SessionInv, CommandInv, Commands, Contents
<1>4. Undisturbed'
  BY <1>1, <1>2, <1>3, LoopLeaves
<1>5. SessionType'
  <2>1. ServerType' /\ CarriedType'
    BY <1>1 DEF SessionInv, SessionType, ServerType, CarriedType
  <2>2. LinkType'
    BY <1>1, EmptyContents DEF SessionInv, SessionType, LinkType
  <2>3. ClientType'
    <3>1. /\ wait' \in Waiting /\ latest' \in Snapshot /\ view' \in Snapshot
          /\ answer' \in Answers
      BY <1>1, NothingTypes
    <3>2. pc' \in {"START", "DONE"} /\ next' \in Nat /\ budget' \in 0..1
      BY <1>1
    <3>3. cs' = "DISCONNECTED" /\ acked' \in BOOLEAN /\ pumping' \in BOOLEAN
      BY <1>1
    <3>4. ending' \in BOOLEAN /\ inflight' \subseteq [id : Nat, give : Nat]
      BY <1>1
    <3> QED
      BY <3>1, <3>2, <3>3, <3>4 DEF ClientType
  <2> QED
    BY <2>1, <2>2, <2>3 DEF SessionType
<1>6. LinkInv'
  BY <1>1 DEF LinkInv
<1>7. WaitInv'
  BY <1>1, NothingTypes DEF WaitInv
<1>8. AnswerInv'
  BY <1>1, <1>2 DEF AnswerInv
<1> QED
  BY <1>4, <1>5, <1>6, <1>7, <1>8 DEF SessionInv, Undisturbed

\* The waiter failed, or the deadline passed.
LEMMA EndKeepsInv ==
    ASSUME SessionAssumption, SessionInv, SessionEnds \/ TimesOut
    PROVE  SessionInv'
<1> DEFINE outcome == IF session < MaxSessions THEN "START" ELSE "DONE"
<1>1. Stop(outcome) /\ outcome \in {"START", "DONE"}
  BY DEF SessionEnds, TimesOut
<1> HIDE DEF outcome
<1> QED
  BY <1>1, StopKeepsInv

\* The loop connects.
LEMMA ConnectKeepsInv ==
    ASSUME SessionAssumption, SessionInv, Connect
    PROVE  SessionInv'
<1>1. /\ pc = "START" /\ session' = session + 1 /\ throttle' = throttle
      /\ link' = "UP" /\ up' = <<>> /\ down' = <<>>
      /\ seat' = [seat EXCEPT !.mine = FALSE, !.ready = FALSE]
      /\ cs' = "AWAITING_FIRST_STATE" /\ pumping' = TRUE
      /\ pc' = "FIRST" /\ wait' = AwaitSnapshot(1)
      /\ UNCHANGED <<server, latest, acked, next, view, budget, ending, answer,
                     inflight, sent, breaks>>
  BY DEF Connect, ThrottleKept, loopVars
<1>2. /\ latest = NoSnapshot /\ inflight = {}
      /\ latest \in Snapshot /\ latest.seq = 0
  BY <1>1, NothingTypes DEF SessionInv, LinkInv, HeldInv
<1>3. /\ wait' \in Waiting /\ wait'.on = "SNAPSHOT"
      /\ wait'.state = NoSnapshot /\ wait'.status = "PENDING"
  <2>1. wait' = AwaitSnapshot(1) /\ latest \in Snapshot /\ ~(latest.seq >= 1)
    BY <1>1, <1>2
  <2>2. wait' = WaitFor("SNAPSHOT", 1)
    BY <2>1 DEF AwaitSnapshot
  <2> QED
    BY <2>2, WaitTypes
<1>4. /\ Contents(down)' = {} /\ Commands' = {} /\ OneCommand(up')
      /\ up' \in Seq(UpMessage) /\ down' \in Seq(DownMessage)
  BY <1>1, EmptyContents DEF Contents, Commands
<1>5. Shown' = {}
  BY <1>1, <1>2, <1>4 DEF Shown, Arriving
<1>6. /\ seat' \in [mine : BOOLEAN, ready : BOOLEAN, seq : Nat]
      /\ seat'.seq = seat.seq
  BY <1>1 DEF SessionInv, SessionType, ServerType
<1>7. Quiet
  BY <1>1, <1>4, <1>5, <1>6 DEF Quiet
<1>8. Undisturbed'
  BY <1>1, <1>2, <1>4, <1>5, <1>7, LoopLeaves
<1>9. SessionType'
  <2>1. ServerType' /\ LinkType'
    BY <1>1, <1>4, <1>6 DEF SessionInv, SessionType, ServerType, LinkType
  <2>2. ClientType'
    BY <1>1, <1>3 DEF SessionInv, SessionType, ClientType
  <2>3. CarriedType'
    <3>1. throttle' = throttle /\ breaks' = breaks /\ sent' = sent
      BY <1>1
    <3>2. session' \in Nat
      <4>1. session \in Nat
        BY DEF SessionInv, SessionType, CarriedType
      <4>2. session' = session + 1
        BY <1>1
      <4> QED
        BY <4>1, <4>2
    <3> QED
      BY <3>1, <3>2 DEF SessionInv, SessionType, CarriedType
  <2> QED
    BY <2>1, <2>2, <2>3 DEF SessionType
<1>10. LinkInv'
  BY <1>1, <1>2 DEF LinkInv
<1>11. WaitInv'
  BY <1>1, <1>3, NothingTypes DEF WaitInv
<1>12. AnswerInv'
  BY <1>1, <1>4 DEF AnswerInv
<1> QED
  BY <1>8, <1>9, <1>10, <1>11, <1>12 DEF SessionInv, Undisturbed

\* The loop goes on, with nothing on its way and nothing held.
LEMMA LoopStep ==
    ASSUME SessionAssumption, SessionInv, Settled, ClientType',
           pc \notin {"START", "DONE"}, latest.seq > 0,
           pc' \in {"READINESS", "IDLE", "DECIDE"}, inflight' = {},
           pc' = "DECIDE" => view' = latest,
           wait'.state.results \subseteq latest.results,
           UNCHANGED <<serverVars, link, up, down, sessionVars, carriedVars>>
    PROVE  SessionInv'
<1>1. UNCHANGED <<server, seat, link, up, down, cs, latest, acked, pumping,
                  throttle, session, sent, breaks>>
  BY DEF serverVars, sessionVars, carriedVars
<1>2. /\ Contents(down)' = Contents(down) /\ Shown' = Shown
      /\ Commands' = Commands
  BY <1>1 DEF Contents, Shown, Arriving, Commands
<1>3. Quiet
  BY <1>1, <1>2 DEF Quiet, SessionInv, CommandInv
<1>4. latest \in Shown
  <2>1. latest.seq \in Nat
    BY DEF SessionInv, SessionType, ClientType, Snapshot
  <2> QED
    BY <2>1 DEF Shown
<1>5. Undisturbed'
  BY <1>2, <1>3, <1>4, LoopMoves
<1>6. SessionType'
  BY <1>1 DEF SessionInv, SessionType, ServerType, LinkType, CarriedType
<1>7. LinkInv'
  BY <1>1, NothingTypes DEF SessionInv, LinkInv
<1>8. WaitInv'
  BY <1>1 DEF WaitInv
<1>9. AnswerInv'
  <2>1. Newest' = Newest /\ \A id : NoResultFor(id) => NoResultFor(id)'
    BY <1>3, QuietStep
  <2> QED
    BY <1>1, <1>2, <2>1 DEF SessionInv, AnswerInv
<1> QED
  BY <1>5, <1>6, <1>7, <1>8, <1>9 DEF SessionInv, Undisturbed

\* The first state, the acknowledgement, and a state to look at.
LEMMA WaitedKeepsInv ==
    ASSUME SessionAssumption, SessionInv,
           FirstState \/ Readiness \/ StepBegins
    PROVE  SessionInv'
<1>1. /\ pc \in {"FIRST", "READINESS", "IDLE"} /\ wait.status = "DONE"
      /\ UNCHANGED <<serverVars, link, up, down, sessionVars, answer, inflight,
                     carriedVars>>
  BY DEF FirstState, Readiness, StepBegins, loopVars
<1>2. Settled /\ inflight = {}
  BY <1>1, SettledBetween
<1>3. latest.seq > 0
  BY <1>1 DEF SessionInv, WaitInv
<1>4. /\ ClientType /\ latest \in Snapshot /\ view \in Snapshot
      /\ wait \in Waiting /\ wait.state \in Snapshot /\ wait.state.seq \in Nat
      /\ next \in Nat
  BY DEF SessionInv, SessionType, ClientType, Waiting, Snapshot
<1>5. UNCHANGED <<cs, latest, acked, pumping, answer, inflight>>
  BY <1>1 DEF sessionVars
<1>6. CASE FirstState
  <2>1. /\ pc' = "READINESS" /\ next' = wait.state.seq
        /\ wait' = IF acked
                   THEN [WaitFor("READINESS", 0) EXCEPT !.status = "DONE"]
                   ELSE WaitFor("READINESS", 0)
        /\ view' = view /\ budget' = budget /\ ending' = ending
    BY <1>6 DEF FirstState
  <2>2. WaitFor("READINESS", 0) \in Waiting
        /\ WaitFor("READINESS", 0).state = NoSnapshot
    BY WaitTypes
  <2>3. wait' \in Waiting /\ wait'.state = NoSnapshot
    BY <2>1, <2>2 DEF Waiting
  <2>4. ClientType'
    BY <1>4, <1>5, <2>1, <2>3 DEF ClientType
  <2> QED
    BY <1>1, <1>2, <1>3, <2>1, <2>3, <2>4, LoopStep, NothingTypes
<1>7. CASE Readiness
  <2>1. /\ pc' = "IDLE" /\ wait' = AwaitSnapshot(next)
        /\ next' = next /\ view' = view /\ budget' = budget /\ ending' = ending
    BY <1>7 DEF Readiness, loopVars
  <2>2. /\ wait' \in Waiting
        /\ wait'.state = NoSnapshot \/ wait'.state = latest
    BY <1>4, <2>1, AwaitTypes
  <2>3. ClientType'
    BY <1>4, <1>5, <2>1, <2>2 DEF ClientType
  <2> QED
    BY <1>1, <1>2, <1>3, <2>1, <2>2, <2>3, LoopStep, NothingTypes
<1>8. CASE StepBegins
  <2>1. /\ pc' = "DECIDE" /\ wait' = NoWait /\ next' = wait.state.seq + 1
        /\ ending' \in BOOLEAN /\ view' = latest /\ budget' \in 0..1
    BY <1>8 DEF StepBegins
  <2>2. ClientType'
    BY <1>4, <1>5, <2>1, NothingTypes DEF ClientType
  <2> QED
    BY <1>1, <1>2, <1>3, <2>1, <2>2, LoopStep, NothingTypes
<1> QED
  BY <1>6, <1>7, <1>8

\* The end of a step.
LEMMA StepEndKeepsInv ==
    ASSUME SessionAssumption, SessionInv, NEW held, StepEnds(held), held = {},
           Settled, pc \in {"DECIDE", "ANSWER", "CONFIRM"}
    PROVE  SessionInv'
<1>1. CASE Stop("DONE")
  BY <1>1, StopKeepsInv
<1>2. CASE ~Stop("DONE")
  <2>1. /\ pc' = "IDLE" /\ wait' = AwaitSnapshot(next) /\ inflight' = {}
        /\ view' = NoSnapshot /\ budget' = 0 /\ answer' = NoAnswer
        /\ UNCHANGED <<serverVars, link, up, down, sessionVars, next, ending,
                       carriedVars>>
    BY <1>2 DEF StepEnds
  <2>2. /\ ClientType /\ latest \in Snapshot /\ next \in Nat
    BY DEF SessionInv, SessionType, ClientType
  <2>3. /\ wait' \in Waiting
        /\ wait'.state = NoSnapshot \/ wait'.state = latest
    BY <2>1, <2>2, AwaitTypes
  <2>4. latest.seq > 0
    BY DEF SessionInv, WaitInv
  <2>5. ClientType'
    <3>1. view' \in Snapshot /\ answer' \in Answers
      BY <2>1, NothingTypes
    <3>2. pc' = "IDLE" /\ budget' \in 0..1
          /\ inflight' \subseteq [id : Nat, give : Nat]
      BY <2>1
    <3>3. UNCHANGED <<cs, latest, acked, pumping, next, ending>>
      BY <2>1 DEF sessionVars
    <3> QED
      BY <2>2, <2>3, <3>1, <3>2, <3>3 DEF ClientType
  <2> QED
    BY <2>1, <2>3, <2>4, <2>5, LoopStep, NothingTypes
<1> QED
  BY <1>1, <1>2

-----------------------------------------------------------------------------
(* The executor *)

\* Nothing is decided, or execution is refused at the last moment.
LEMMA DecideKeepsInv ==
    ASSUME SessionAssumption, SessionInv,
           DecideNothing \/ \E cmd \in Command : SendBlocked(cmd)
    PROVE  SessionInv'
<1>1. pc = "DECIDE"
  BY DEF DecideNothing, SendBlocked, Decided
<1>2. Settled /\ inflight = {}
  BY <1>1, SettledBetween
<1>3. CASE DecideNothing
  <2>1. StepEnds(inflight)
    BY <1>3 DEF DecideNothing
  <2> QED
    BY <1>1, <1>2, <2>1, StepEndKeepsInv
<1>4. ASSUME NEW cmd \in Command, SendBlocked(cmd)
      PROVE  SessionInv'
  <2>1. StepEnds(ReleasedWhenBlocked(Registered(cmd), Request))
    BY <1>4 DEF SendBlocked
  <2>2. ReleasedWhenBlocked(Registered(cmd), Request) = {}
    BY <1>2 DEF ReleasedWhenBlocked, Released, Registered
  <2> QED
    BY <1>1, <1>2, <2>1, <2>2, StepEndKeepsInv
<1> QED
  BY <1>3, <1>4

\* A verdict on the newest command means that it is not on its way, and, if the
\* state the loop looks at confirms it, that nothing is lacking.
LEMMA ConfirmedSettles ==
    ASSUME SessionAssumption, SessionInv, latest.seq > 0,
           NEW a, a.id = Newest, Verdict(a),
           NEW s, s.results \subseteq latest.results
    PROVE  /\ Commands = {}
           /\ Confirmed(a, s) => Settled
           /\ ~Confirmed(a, s) => a \in server.results
<1>1. Commands = {}
  <2>1. SUFFICES ASSUME NEW m \in Commands PROVE FALSE
    OBVIOUS
  <2>2. m.id = Newest /\ \A r \in server.results : r.id # Newest
    BY DEF SessionInv, CommandInv
  <2> QED
    BY <2>2 DEF Verdict, NoResultFor
<1>2. latest \in Shown /\ latest.seq \in Nat
  <2>1. latest.seq \in Nat
    BY DEF SessionInv, SessionType, ClientType, Snapshot
  <2> QED
    BY <2>1 DEF Shown
<1>3. ASSUME Confirmed(a, s), NEW x \in Shown
      PROVE  x.results = server.results
  <2>1. /\ x.results \subseteq server.results
        /\ \A r \in server.results \ x.results : r.id = Newest
    BY DEF SessionInv, ShownInv, Reflects
  <2>2. latest.results \subseteq x.results
    <3>1. x.seq \in Nat /\ x.seq >= latest.seq
      BY ContentsType DEF SessionInv, Snapshot, Shown
    <3>2. latest.seq <= x.seq
      BY <1>2, <3>1
    <3> QED
      BY <1>2, <3>2 DEF SessionInv, ShownInv
  <2>3. CASE a \in s.results
    <3>1. a \in x.results /\ a \in server.results
      BY <2>1, <2>2, <2>3
    <3>2. \A r \in server.results : r.id = Newest => r = a
      BY <3>1 DEF SessionInv, ResultInv
    <3> QED
      BY <2>1, <3>1, <3>2
  <2>4. CASE a.code = "ERROR"
    <3>1. a \notin server.results
      BY <2>4 DEF SessionInv, SessionType, ServerType, World, Worlds, Results
    <3>2. \A r \in server.results : r.id # Newest
      BY <3>1 DEF Verdict, NoResultFor
    <3> QED
      BY <2>1, <3>2
  <2> QED
    BY <1>3, <2>3, <2>4 DEF Confirmed
<1>4. ~Confirmed(a, s) => a \in server.results
  BY DEF Confirmed, Verdict
<1> QED
  BY <1>1, <1>3, <1>4 DEF Settled

\* The loop waits for the state that confirms the answer, or goes on.
LEMMA AwaitKeepsInv ==
    ASSUME SessionAssumption, SessionInv, pc \in {"ANSWER", "CONFIRM"},
           NEW a \in Answers, a.id = Newest, Verdict(a),
           NEW s \in Snapshot, s.results \subseteq latest.results,
           AwaitConfirmation(a, s)
    PROVE  SessionInv'
<1>1. latest.seq > 0
  BY DEF SessionInv, WaitInv
<1>2. /\ Commands = {}
      /\ Confirmed(a, s) => Settled
      /\ ~Confirmed(a, s) => a \in server.results
  BY <1>1, ConfirmedSettles
<1>3. CASE Confirmed(a, s)
  <2>1. StepEnds(Released(inflight, a.id))
    BY <1>3 DEF AwaitConfirmation
  <2>2. Released(inflight, a.id) = {}
    BY DEF Released, SessionInv, HeldInv
  <2> QED
    BY <1>2, <1>3, <2>1, <2>2, StepEndKeepsInv
<1>4. CASE ~Confirmed(a, s)
  <2>1. /\ pc' = "CONFIRM" /\ answer' = a
        /\ inflight' = ReleasedByAnswer(inflight, a)
        /\ wait' = AwaitSnapshot(s.seq + 1)
        /\ UNCHANGED <<server, seat, link, up, down, cs, latest, acked,
                       pumping, next, view, budget, ending, throttle, session,
                       sent, breaks>>
    BY <1>4 DEF AwaitConfirmation, serverVars, sessionVars, carriedVars
  <2>2. /\ inflight' \subseteq inflight
        /\ a.code = "OK" => inflight' = inflight
    BY <2>1 DEF ReleasedByAnswer, Released
  <2>3. s.seq + 1 \in Nat /\ latest \in Snapshot /\ ClientType
    BY DEF Snapshot, SessionInv, SessionType, ClientType
  <2>4. /\ wait' \in Waiting
        /\ wait'.state = NoSnapshot \/ wait'.state = latest
    BY <2>1, <2>3, AwaitTypes
  <2>5. /\ Contents(down)' = Contents(down) /\ Shown' = Shown
        /\ Commands' = Commands /\ Newest' = Newest
    BY <2>1 DEF Contents, Shown, Arriving, Commands, Newest
  <2>6. Quiet
    BY <2>1, <2>5 DEF Quiet, SessionInv, CommandInv
  <2>7. /\ ResultInv' /\ PromiseInv' /\ RateInv'
        /\ \A x \in Shown' : x.seq <= seat'.seq /\ Reflects(x)' /\ Slack(x)'
        /\ \A x, y \in Shown' : x.seq <= y.seq =>
              x.results \subseteq y.results /\ x.tick <= y.tick
        /\ \A id : NoResultFor(id) => NoResultFor(id)'
    BY <2>6, QuietStep
  <2>8. CommandInv'
    BY <1>2, <2>5, <2>6 DEF CommandInv, Quiet
  <2>9. ShownInv'
    BY <2>1, <2>7 DEF ShownInv
  <2>10. SettledInv'
    BY <2>1 DEF SettledInv
  <2>11. BookInv'
    <3>1. ASSUME NEW o \in server.book, o.id = Newest
          PROVE  [id |-> o.id, give |-> o.give] \in inflight'
      <4>1. PICK r \in server.results : r.id = o.id /\ r.code = "OK"
        BY DEF SessionInv, BookInv
      <4>2. r = a
        BY <1>2, <1>4, <3>1, <4>1 DEF SessionInv, ResultInv
      <4>3. [id |-> o.id, give |-> o.give] \in inflight
        BY <3>1 DEF SessionInv, BookInv
      <4> QED
        BY <2>2, <4>1, <4>2, <4>3
    <3> QED
      BY <2>1, <2>5, <3>1 DEF SessionInv, BookInv
  <2>12. HeldInv'
    BY <2>1, <2>2, <2>5 DEF SessionInv, HeldInv
  <2>13. SessionType'
    BY <2>1, <2>2, <2>3, <2>4
       DEF SessionInv, SessionType, ServerType, LinkType, ClientType,
           CarriedType
  <2>14. LinkInv'
    BY <2>1 DEF SessionInv, LinkInv
  <2>15. WaitInv'
    BY <1>1, <2>1, <2>4, NothingTypes DEF WaitInv
  <2>16. AnswerInv'
    BY <1>2, <1>4, <2>1, <2>5, <2>7 DEF SessionInv, AnswerInv
  <2> QED
    BY <2>7, <2>8, <2>9, <2>10, <2>11, <2>12, <2>13, <2>14, <2>15, <2>16
       DEF SessionInv
<1> QED
  BY <1>3, <1>4

\* The answer arrived, or a later state.
LEMMA AnswerKeepsInv ==
    ASSUME SessionAssumption, SessionInv, Answer \/ Confirm
    PROVE  SessionInv'
<1>1. /\ wait \in Waiting /\ latest \in Snapshot /\ answer \in Answers
      /\ wait.state \in Snapshot /\ wait.answer \in Answers
  BY DEF SessionInv, SessionType, ClientType, Waiting
<1>2. CASE Answer
  <2>1. /\ pc = "ANSWER" /\ wait.status = "DONE"
        /\ AwaitConfirmation(wait.answer, latest)
    BY <1>2 DEF Answer
  <2>2. wait.answer.id = Newest /\ Verdict(wait.answer)
    BY <2>1 DEF SessionInv, AnswerInv, Verdict
  <2> QED
    BY <1>1, <2>1, <2>2, AwaitKeepsInv
<1>3. CASE Confirm
  <2>1. pc = "CONFIRM" /\ AwaitConfirmation(answer, wait.state)
    BY <1>3 DEF Confirm
  <2>2. /\ answer.id = Newest /\ Verdict(answer)
        /\ wait.state.results \subseteq latest.results
    BY <2>1 DEF SessionInv, AnswerInv, WaitInv, Verdict
  <2> QED
    BY <1>1, <2>1, <2>2, AwaitKeepsInv
<1> QED
  BY <1>2, <1>3

\* The smaller of two numbers is one of them, and no greater than either.
LEMMA MinOfTwo ==
    ASSUME NEW a \in Nat, NEW b \in Nat
    PROVE  Min({a, b}) \in Nat /\ Min({a, b}) <= a /\ Min({a, b}) <= b
<1>1. \E x \in {a, b} : \A y \in {a, b} : x <= y
  <2>1. CASE a <= b
    BY <2>1
  <2>2. CASE b <= a
    BY <2>2
  <2> QED
    BY <2>1, <2>2
<1> QED
  BY <1>1 DEF Min

\* What the client may promise was there at the server in its state's tick.
LEMMA AvailableIsThere ==
    ASSUME SessionAssumption, SessionInv, pc = "DECIDE",
           NEW amount \in Nat, amount <= Available(view, inflight)
    PROVE  \E d \in Nat : /\ Covered(server, d, amount)
                          /\ amount > 0 => d = view.tick
<1>1. /\ inflight = {} /\ Slack(view) /\ view.results = server.results
      /\ Reflects(view) /\ \E d \in Nat : Covered(server, d, 0)
      /\ view \in Snapshot /\ server \in World /\ IsFiniteSet(server.book)
  BY DEF SessionInv, HeldInv, ShownInv, SettledInv, PromiseInv, BookInv,
         SessionType, ServerType, ClientType
<1>2. /\ view.stock \in Nat /\ server.stock \in Nat
      /\ view.tick \in Nat /\ server.tick \in Nat
      /\ view.book \in SUBSET Offers /\ server.book \in SUBSET Offers
  BY <1>1 DEF Snapshot, World, Worlds, SessionAssumption
<1>3. {o \in view.book : view.tick < o.expires} = view.book
  BY <1>1 DEF Slack
<1>4. /\ IsFiniteSet(view.book)
      /\ Backing(view) + GiveTotal(server.book)
            <= Backing(server) + GiveTotal(view.book)
  BY <1>1 DEF Slack
<1>5. /\ GiveTotal(view.book) \in Nat /\ GiveTotal(server.book) \in Nat
      /\ Backing(server) \in Nat /\ Taken(view.tick) \in Nat
      /\ Backing(view) = view.stock + Taken(view.tick)
  BY <1>1, <1>2, <1>4, OffersType, BackingType, TakenAdds DEF Backing
<1>6. Available(view, inflight) =
          IF view.stock > GiveTotal(view.book) + 0
          THEN view.stock - (GiveTotal(view.book) + 0) ELSE 0
  BY <1>1, <1>3, TotalOfNothing DEF Available
<1>7. CASE view.stock > GiveTotal(view.book) + 0
  <2>1. amount <= view.stock - GiveTotal(view.book)
    BY <1>5, <1>6, <1>7
  <2>2. \A a, b, c, d, e, x \in Nat :
            a + x + b <= c + d /\ e <= a - d => b + e + x <= c
    OBVIOUS
  <2>3. GiveTotal(server.book) + amount + Taken(view.tick) <= Backing(server)
    BY <1>2, <1>4, <1>5, <2>1, <2>2
  <2>4. \A o \in server.book : o \in view.book
    BY <1>1 DEF SessionInv, BookInv, Reflects
  <2>5. \A o \in server.book : o.expires <= view.tick + OfferTtl
    BY <1>1, <2>4 DEF Slack
  <2>6. view.tick <= server.tick
    BY <1>1 DEF Reflects
  <2>7. Covered(server, view.tick, amount)
    BY <2>3, <2>5, <2>6 DEF Covered
  <2> QED
    BY <1>2, <2>7
<1>8. CASE ~(view.stock > GiveTotal(view.book) + 0)
  <2>1. amount = 0
    BY <1>6, <1>8
  <2> QED
    BY <1>1, <2>1
<1> QED
  BY <1>7, <1>8

\* The quota is kept: a slot is left, and the newest state is not before the
\* last command's.
LEMMA SlotIsLeft ==
    ASSUME SessionAssumption, SessionInv, RemainingBudget > 0, latest \in Shown
    PROVE  /\ latest.tick \in Nat /\ throttle.tick \in Nat
           /\ throttle.tick <= latest.tick /\ latest.tick <= server.tick
           /\ throttle.tick = latest.tick => throttle.sent < CommandsPerTick
           /\ RecordSent(throttle, latest.tick).tick = latest.tick
           /\ RecordSent(throttle, latest.tick).sent =
                 IF throttle.tick = latest.tick THEN throttle.sent + 1 ELSE 1
           /\ RecordSent(throttle, latest.tick)
                 \in [tick : Nat, sent : 0..CommandsPerTick, blocked : Nat]
<1>1. /\ latest.tick \in Nat /\ CommandsPerTick \in Nat \ {0}
      /\ throttle \in [tick : Nat, sent : 0..CommandsPerTick, blocked : Nat]
  BY DEF SessionInv, SessionType, ClientType, CarriedType, Snapshot,
         SessionAssumption
<1>2. throttle.tick <= latest.tick /\ latest.tick <= server.tick
  BY DEF SessionInv, RateInv, ShownInv, Reflects
<1>3. throttle.tick = latest.tick => throttle.sent < CommandsPerTick
  <2>1. Remaining(throttle, latest.tick) > 0
    <3>1. \/ RemainingBudget = Remaining(throttle, latest.tick)
          \/ RemainingBudget = 0
      BY DEF RemainingBudget
    <3> QED
      BY <3>1
  <2>2. throttle.sent \in Nat
    BY <1>1
  <2> QED
    BY <1>1, <2>1, <2>2 DEF Remaining
<1>4. RecordSent(throttle, latest.tick) =
          [throttle EXCEPT !.tick = latest.tick,
                           !.sent = IF throttle.tick = latest.tick
                                    THEN @ + 1 ELSE 1]
  BY DEF RecordSent
<1>5. (IF throttle.tick = latest.tick THEN throttle.sent + 1 ELSE 1)
          \in 0..CommandsPerTick
  BY <1>1, <1>3
<1> QED
  BY <1>1, <1>2, <1>3, <1>4, <1>5

\* What one more request at tick t does to the counts.
LEMMA SentCounts ==
    ASSUME SessionType, NEW now \in Nat, sent' = Append(sent, now),
           \A i \in 1..Newest : sent[i] <= throttle.tick,
           throttle.tick \in Nat
    PROVE  /\ Newest' = Newest + 1 /\ Newest \in Nat
           /\ 1..(Newest + 1) = (1..Newest) \cup {Newest + 1}
           /\ Newest + 1 \notin 1..Newest
           /\ sent' \in Seq(Nat) /\ sent'[Newest + 1] = now
           /\ \A i \in 1..Newest : sent'[i] = sent[i]
           /\ \A t : Charged(t)' = IF t = now THEN Charged(t) \cup {Newest + 1}
                                   ELSE Charged(t)
           /\ now > throttle.tick => Charged(now) = {}
<1>1. /\ sent \in Seq(Nat) /\ Newest \in Nat /\ Newest = Len(sent)
  BY DEF SessionType, CarriedType, Newest
<1>2. /\ Newest' = Newest + 1 /\ sent' \in Seq(Nat)
      /\ sent'[Newest + 1] = now /\ \A i \in 1..Newest : sent'[i] = sent[i]
  BY <1>1 DEF Newest
<1>3. /\ 1..(Newest + 1) = (1..Newest) \cup {Newest + 1}
      /\ Newest + 1 \notin 1..Newest
  BY <1>1
<1>4. \A t : Charged(t)' = {i \in 1..(Newest + 1) : sent'[i] = t}
  BY <1>2 DEF Charged
<1>5. \A t : Charged(t)' = IF t = now THEN Charged(t) \cup {Newest + 1}
                           ELSE Charged(t)
  BY <1>2, <1>3, <1>4 DEF Charged
<1>6. now > throttle.tick => Charged(now) = {}
  <2>1. \A i \in 1..Newest : sent[i] \in Nat
    BY <1>1
  <2>2. ASSUME now > throttle.tick, NEW i \in 1..Newest
        PROVE  sent[i] # now
    BY <2>1, <2>2
  <2> QED
    BY <2>2 DEF Charged
<1> QED
  BY <1>1, <1>2, <1>3, <1>5, <1>6

\* The quota is kept by a command that is sent.
LEMMA SendKeepsRate ==
    ASSUME SessionAssumption, SessionInv, RemainingBudget > 0, latest \in Shown,
           sent' = Append(sent, latest.tick),
           throttle' = RecordSent(throttle, latest.tick),
           server' = server, Shown' = Shown, latest' = latest
    PROVE  RateInv'
<1>1. /\ latest.tick \in Nat /\ throttle.tick \in Nat
      /\ throttle.tick <= latest.tick /\ latest.tick <= server.tick
      /\ throttle.tick = latest.tick => throttle.sent < CommandsPerTick
      /\ throttle'.tick = latest.tick
      /\ throttle'.sent =
            IF throttle.tick = latest.tick THEN throttle.sent + 1 ELSE 1
  BY SlotIsLeft
<1>2. /\ \A i \in 1..Newest : sent[i] <= throttle.tick
      /\ Cardinality(Charged(throttle.tick)) <= throttle.sent
      /\ \A t \in 0..DurationTicks : Cardinality(Charged(t)) <= CommandsPerTick
      /\ server.count <= Cardinality(ProcessedIn(server.tick))
      /\ SessionType
  BY DEF SessionInv, RateInv
<1>3. /\ Newest' = Newest + 1 /\ Newest \in Nat
      /\ 1..(Newest + 1) = (1..Newest) \cup {Newest + 1}
      /\ Newest + 1 \notin 1..Newest
      /\ sent'[Newest + 1] = latest.tick
      /\ \A i \in 1..Newest : sent'[i] = sent[i] /\ sent[i] \in Nat
      /\ \A t : Charged(t)' = IF t = latest.tick
                              THEN Charged(t) \cup {Newest + 1} ELSE Charged(t)
      /\ latest.tick > throttle.tick => Charged(latest.tick) = {}
  <2>1. \A i \in 1..Newest : sent[i] \in Nat
    BY DEF SessionInv, SessionType, CarriedType, Newest
  <2> QED
    BY <1>1, <1>2, <2>1, SentCounts
<1>4. \A i \in 1..Newest' : sent'[i] <= latest.tick
  <2>1. ASSUME NEW i \in 1..Newest PROVE sent'[i] <= latest.tick
    <3>1. sent'[i] = sent[i] /\ sent[i] \in Nat /\ sent[i] <= throttle.tick
      BY <1>2, <1>3
    <3> QED
      BY <1>1, <3>1
  <2>2. sent'[Newest + 1] <= latest.tick
    BY <1>1, <1>3
  <2> QED
    BY <1>3, <2>1, <2>2
<1>5. /\ throttle.sent \in Nat /\ CommandsPerTick \in Nat
      /\ CommandsPerTick > 0
  BY DEF SessionInv, SessionType, CarriedType, SessionAssumption
<1> DEFINE old == Charged(latest.tick)
           new == old \cup {Newest + 1}
<1>6. /\ Cardinality(new) <= throttle'.sent
      /\ Cardinality(new) <= CommandsPerTick
  <2>1. IsFiniteSet(old) /\ Cardinality(old) \in Nat
    BY <1>2, ProcessedCounts
  <2>2. Newest + 1 \notin old
    BY <1>3 DEF Charged
  <2> HIDE DEF old
  <2>3. Cardinality(new) = Cardinality(old) + 1
    BY <2>1, <2>2, FS_AddElement
  <2>4. CASE throttle.tick = latest.tick
    <3>1. Cardinality(old) <= throttle.sent
      BY <1>2, <2>4 DEF old
    <3> QED
      BY <1>1, <1>5, <2>1, <2>3, <2>4, <3>1
  <2>5. CASE throttle.tick < latest.tick
    <3>1. old = {}
      BY <1>1, <1>3, <2>5 DEF old
    <3>2. Cardinality(old) = 0
      BY <3>1, FS_EmptySet
    <3>3. throttle.tick # latest.tick
      BY <1>1, <2>5
    <3> QED
      BY <1>1, <1>5, <2>3, <3>2, <3>3
  <2> QED
    BY <1>1, <2>4, <2>5
<1>7. Charged(throttle.tick)' = new
  <2>1. Charged(throttle.tick)' = {i \in 1..Newest' : sent'[i] = latest.tick}
    BY <1>1 DEF Charged
  <2> QED
    BY <1>3, <2>1 DEF Charged
<1>8. \A t \in 0..DurationTicks : Cardinality(Charged(t)') <= CommandsPerTick
  <2> HIDE DEF new
  <2> SUFFICES ASSUME NEW t \in 0..DurationTicks
               PROVE  Cardinality(Charged(t)') <= CommandsPerTick
    OBVIOUS
  <2>1. CASE t = latest.tick
    BY <1>3, <1>6, <2>1 DEF new
  <2>2. CASE t # latest.tick
    BY <1>2, <1>3, <2>2
  <2> QED
    BY <2>1, <2>2
<1>9. ProcessedIn(server.tick)' = ProcessedIn(server.tick)
  <2>1. \A q \in server.results : q.id \in 1..Newest
    BY DEF SessionInv, ResultInv
  <2> QED
    BY <1>3, <2>1 DEF ProcessedIn
<1>10. \A x \in Shown : latest.tick <= x.tick
  <2>1. ASSUME NEW x \in Shown PROVE latest.seq <= x.seq
    <3>1. x.seq >= latest.seq /\ x.seq \in Nat /\ latest.seq \in Nat
      BY ContentsType DEF SessionInv, Snapshot, Shown, SessionType, ClientType
    <3> QED
      BY <3>1
  <2> QED
    BY <2>1 DEF SessionInv, ShownInv
<1> HIDE DEF new, old
<1> QED
  BY <1>1, <1>2, <1>4, <1>6, <1>7, <1>8, <1>9, <1>10 DEF RateInv

\* The executor sends a command.
LEMMA SendKeepsInv ==
    ASSUME SessionAssumption, SessionInv, NEW cmd \in Command, Send(cmd)
    PROVE  SessionInv'
<1> DEFINE m == [kind |-> cmd.kind, id |-> Request, amount |-> cmd.amount,
                 expires |-> Min({view.tick + OfferTtl, DurationTicks})]
           hold == [id |-> Request, give |-> cmd.amount]
<1>1. /\ pc = "DECIDE" /\ RemainingBudget > 0
      /\ Len(sent) < MaxRequests
      /\ cmd.amount <= Available(view, inflight)
      /\ pc' = "ANSWER" /\ inflight' = Registered(cmd)
      /\ throttle' = RecordSent(throttle, latest.tick)
      /\ sent' = Append(sent, latest.tick)
      /\ wait' = WaitFor("COMMAND", Request)
      /\ up' = (IF link = "UP" THEN Append(up, m) ELSE up)
      /\ UNCHANGED <<server, seat, link, down, cs, latest, acked, pumping, next,
                     view, budget, ending, answer, session, breaks>>
  BY DEF Send, Decided, serverVars, sessionVars
<1>2. /\ SessionType /\ Newest \in Nat /\ Request = Newest + 1
      /\ latest.seq > 0 /\ latest \in Snapshot /\ view \in Snapshot
      /\ server \in World /\ up \in Seq(UpMessage)
  <2>1. /\ SessionType /\ latest \in Snapshot /\ view \in Snapshot
        /\ server \in World /\ up \in Seq(UpMessage) /\ sent \in Seq(Nat)
    BY DEF SessionInv, SessionType, ServerType, ClientType, LinkType,
           CarriedType
  <2>2. Newest \in Nat /\ Request = Newest + 1
    BY <2>1 DEF Newest, Request
  <2>3. latest.seq > 0
    BY <1>1 DEF SessionInv, WaitInv
  <2> QED
    BY <2>1, <2>2, <2>3
<1>3. /\ Commands = {} /\ inflight = {}
      /\ \A x \in Shown : x.results = server.results
  BY <1>1, SettledBetween DEF Settled
<1>4. latest \in Shown
  <2>1. latest.seq \in Nat
    BY <1>2 DEF Snapshot
  <2> QED
    BY <1>2, <2>1 DEF Shown
<1>5. /\ Contents(down)' = Contents(down) /\ Shown' = Shown
      /\ server' = server /\ latest' = latest
  BY <1>1 DEF Contents, Shown, Arriving
<1>6. /\ Newest' = Newest + 1
      /\ 1..(Newest + 1) = (1..Newest) \cup {Newest + 1}
      /\ Newest + 1 \notin 1..Newest
      /\ sent' \in Seq(Nat) /\ Len(sent') <= MaxRequests
  <2>1. sent \in Seq(Nat) /\ latest.tick \in Nat /\ MaxRequests \in Nat
    BY <1>2 DEF SessionType, CarriedType, Snapshot, SessionAssumption
  <2>2. sent' \in Seq(Nat) /\ Len(sent') = Len(sent) + 1 /\ Len(sent) \in Nat
    BY <1>1, <2>1
  <2> QED
    BY <1>1, <2>1, <2>2 DEF Newest
<1>7. /\ cmd.kind \in CommandKind /\ cmd.amount \in Nat
      /\ cmd.kind = "OFFER" => cmd.amount \in Amounts
  <2>1. \/ cmd.kind \in {"OFFER", "ACCEPT"} /\ cmd.amount \in Amounts
        \/ cmd.kind = "ADVERTISE" /\ cmd.amount = 0
    <3>1. CASE cmd \in [kind : {"OFFER", "ACCEPT"}, amount : Amounts]
      BY <3>1
    <3>2. CASE cmd \in [kind : {"ADVERTISE"}, amount : {0}]
      BY <3>2
    <3> QED
      BY <3>1, <3>2 DEF Command
  <2>2. Amounts \subseteq Nat
    BY DEF SessionAssumption
  <2>3. CASE cmd.kind \in {"OFFER", "ACCEPT"} /\ cmd.amount \in Amounts
    BY <2>2, <2>3 DEF CommandKind
  <2>4. CASE cmd.kind = "ADVERTISE" /\ cmd.amount = 0
    BY <2>4 DEF CommandKind
  <2> QED
    BY <2>1, <2>3, <2>4
<1>8. /\ m \in UpMessage /\ m.id = Newest + 1 /\ m.amount = cmd.amount
      /\ m.kind = cmd.kind /\ m.kind # "READY"
  <2>1. view.tick + OfferTtl \in Nat /\ DurationTicks \in Nat
    BY <1>2 DEF Snapshot, SessionAssumption
  <2>2. Min({view.tick + OfferTtl, DurationTicks}) \in Nat
    BY <2>1, MinOfTwo
  <2>3. Request \in Nat \ {0}
    BY <1>2
  <2> QED
    BY <1>2, <1>7, <2>2, <2>3 DEF UpMessage, CommandKind
<1>9. /\ hold \in [id : Nat, give : Nat] /\ hold.id = Newest + 1
      /\ inflight' \subseteq {hold}
      /\ cmd.kind = "OFFER" => hold \in inflight'
  BY <1>1, <1>2, <1>3, <1>7 DEF Registered
<1>10. hold = [id |-> m.id, give |-> m.amount]
  BY <1>8, <1>2
<1> HIDE DEF m, hold
<1>11. /\ up' \in Seq(UpMessage) /\ OneCommand(up') /\ Commands' \subseteq {m}
  <2>1. \A n \in Contents(up) : n.kind = "READY"
    BY <1>3 DEF Commands
  <2>2. CASE up' = up
    BY <1>2, <1>3, <2>2 DEF SessionInv, CommandInv, Commands, Contents
  <2>3. CASE up' = Append(up, m)
    <3>1. /\ up' \in Seq(UpMessage) /\ OneCommand(up')
          /\ Contents(up') = Contents(up) \cup {m}
      BY <1>2, <1>8, <2>1, <2>3, AppendContents
    <3>2. Contents(up)' = Contents(up')
      BY DEF Contents
    <3> QED
      BY <2>1, <3>1, <3>2 DEF Commands
  <2> QED
    BY <1>1, <2>2, <2>3
<1>12. /\ wait' \in Waiting /\ wait'.on = "COMMAND" /\ wait'.key = Newest + 1
       /\ wait'.status = "PENDING" /\ wait'.state = NoSnapshot
  BY <1>1, <1>2, WaitTypes
<1>13. \A q \in server.results : q.id \in 1..Newest /\ q.id # Newest + 1
  BY <1>6 DEF SessionInv, ResultInv
<1>14. SessionType'
  <2>1. ServerType' /\ LinkType'
    BY <1>1, <1>2, <1>11 DEF SessionType, ServerType, LinkType
  <2>2. ClientType'
    BY <1>1, <1>2, <1>9, <1>12 DEF SessionType, ClientType
  <2>3. CarriedType'
    BY <1>1, <1>2, <1>4, <1>6, SlotIsLeft DEF SessionType, CarriedType
  <2> QED
    BY <2>1, <2>2, <2>3 DEF SessionType
<1>15. ResultInv'
  BY <1>5, <1>6 DEF SessionInv, ResultInv
<1>16. CommandInv'
  BY <1>1, <1>5, <1>6, <1>7, <1>8, <1>9, <1>10, <1>11, <1>13 DEF CommandInv
<1>17. LinkInv'
  BY <1>1 DEF SessionInv, LinkInv
<1>18. WaitInv'
  BY <1>1, <1>2, <1>6, <1>12, NothingTypes DEF WaitInv
<1>19. AnswerInv'
  <2>1. \A id \in 1..Newest : NoResultFor(id) => NoResultFor(id)'
    BY <1>5, <1>6, <1>8, <1>11 DEF NoResultFor
  <2> QED
    BY <1>1, <1>5, <1>6, <1>12, <2>1 DEF SessionInv, AnswerInv
<1>20. ShownInv'
  <2>1. \A x \in Shown : x.seq <= seat.seq /\ Reflects(x) /\ Slack(x)
    BY DEF SessionInv, ShownInv
  <2>2. \A x \in Shown : Reflects(x)' /\ Slack(x)'
    BY <1>3, <1>5, <2>1 DEF Reflects, Slack
  <2> QED
    BY <1>1, <1>5, <2>1, <2>2 DEF SessionInv, ShownInv
<1>21. SettledInv'
  BY <1>1 DEF SettledInv
<1>22. BookInv'
  <2>1. \A o \in server.book : o.id # Newest + 1
    BY <1>13 DEF SessionInv, BookInv
  <2> QED
    BY <1>5, <1>6, <2>1 DEF SessionInv, BookInv
<1>23. HeldInv'
  BY <1>1, <1>6, <1>9 DEF HeldInv
<1>24. PromiseInv'
  <2>1. PICK d \in Nat : /\ Covered(server, d, m.amount)
                         /\ m.amount > 0 => d = view.tick
    BY <1>1, <1>7, <1>8, AvailableIsThere
  <2>2. m.kind = "OFFER" => m.amount > 0
    BY <1>7, <1>8 DEF SessionAssumption
  <2>3. m.expires <= view.tick + OfferTtl
    <3>1. view.tick + OfferTtl \in Nat /\ DurationTicks \in Nat
      BY <1>2 DEF Snapshot, SessionAssumption
    <3>2. m.expires = Min({view.tick + OfferTtl, DurationTicks})
      BY DEF m
    <3> QED
      BY <3>1, <3>2, MinOfTwo
  <2>4. \E c \in Nat : Covered(server, c, 0)
    BY DEF SessionInv, PromiseInv
  <2> QED
    BY <1>5, <1>11, <2>1, <2>2, <2>3, <2>4 DEF PromiseInv
<1>25. RateInv'
  BY <1>1, <1>4, <1>5, SendKeepsRate
<1> QED
  BY <1>14, <1>15, <1>16, <1>17, <1>18, <1>19, <1>20, <1>21, <1>22, <1>23,
     <1>24, <1>25 DEF SessionInv

-----------------------------------------------------------------------------
(* The theorems *)

\* Every start establishes the invariant.
LEMMA InitSessionInv ==
    ASSUME SessionAssumption, Init
    PROVE  SessionInv
<1>1. /\ server = [phase |-> "READY", tick |-> 0, count |-> 0,
                   stock |-> InitialStock, book |-> {}, results |-> {}]
      /\ seat = [mine |-> FALSE, ready |-> FALSE, seq |-> 0]
      /\ link = "NONE" /\ up = <<>> /\ down = <<>>
      /\ pc = "START" /\ wait = NoWait
      /\ cs = "DISCONNECTED" /\ latest = NoSnapshot
      /\ acked = FALSE /\ pumping = FALSE
      /\ next = 0 /\ view = NoSnapshot /\ budget = 0 /\ ending = FALSE
      /\ answer = NoAnswer /\ inflight = {}
      /\ throttle = [tick |-> 0, sent |-> 0, blocked |-> 0]
      /\ session = 0 /\ sent = <<>> /\ breaks = 0
  BY DEF Init
<1>2. /\ InitialStock \in Nat /\ DurationTicks \in Nat \ {0}
      /\ CommandsPerTick \in Nat \ {0} /\ MaxRequests \in Nat
  BY DEF SessionAssumption
<1>3. /\ server \in Worlds /\ server.phase = "READY" /\ server.tick = 0
      /\ server.count = 0 /\ server.stock = InitialStock
      /\ server.book = {} /\ server.results = {}
  BY <1>1, <1>2 DEF Worlds, Phase
<1>4. server \in World
  BY <1>2, <1>3 DEF World
<1>5. Newest = 0 /\ sent \in Seq(Nat) /\ Len(sent) <= MaxRequests
  BY <1>1, <1>2 DEF Newest
<1>6. Contents(up) = {} /\ Contents(down) = {} /\ Commands = {}
  BY <1>1, EmptyContents DEF Commands
<1>7. Shown = {}
  BY <1>1, <1>6, NothingTypes DEF Shown, Arriving
<1>8. SessionType
  <2>1. ServerType /\ LinkType
    BY <1>1, <1>4, EmptyContents DEF ServerType, LinkType
  <2>2. ClientType
    <3>1. /\ wait \in Waiting /\ latest \in Snapshot /\ view \in Snapshot
          /\ answer \in Answers
      BY <1>1, NothingTypes
    <3>2. /\ pc = "START" /\ next \in Nat /\ budget \in 0..1
          /\ cs = "DISCONNECTED" /\ inflight \subseteq [id : Nat, give : Nat]
      BY <1>1
    <3>3. acked \in BOOLEAN /\ pumping \in BOOLEAN /\ ending \in BOOLEAN
      BY <1>1
    <3> QED
      BY <3>1, <3>2, <3>3 DEF ClientType
  <2>3. CarriedType
    BY <1>1, <1>2, <1>5 DEF CarriedType
  <2> QED
    BY <2>1, <2>2, <2>3 DEF SessionType
<1>9. ResultInv /\ BookInv /\ HeldInv /\ SettledInv
  BY <1>1, <1>3, <1>7, FS_EmptySet DEF ResultInv, BookInv, HeldInv, SettledInv
<1>10. CommandInv /\ LinkInv
  BY <1>1, <1>6, EmptyContents DEF CommandInv, LinkInv
<1>11. WaitInv /\ AnswerInv
  BY <1>1, <1>6, NothingTypes DEF WaitInv, AnswerInv
<1>12. ShownInv
  BY <1>1, <1>7 DEF ShownInv
<1>13. PromiseInv
  <2>1. Covered(server, 0, 0)
    BY <1>2, <1>3, TotalOfNothing, TakenAdds DEF Covered, Backing
  <2> QED
    BY <1>6, <2>1 DEF PromiseInv
<1>14. RateInv
  <2>1. 1..Newest = {}
    BY <1>5
  <2>2. \A t : Charged(t) = {} /\ ProcessedIn(t) = {}
    BY <2>1 DEF Charged, ProcessedIn
  <2>3. Cardinality({}) = 0
    BY FS_EmptySet
  <2>4. throttle.tick = 0 /\ throttle.sent = 0 /\ 0 <= CommandsPerTick
    BY <1>1, <1>2
  <2>5. \A t : /\ Cardinality(Charged(t)) = 0
               /\ Cardinality(ProcessedIn(t)) = 0
    BY <2>2, <2>3
  <2>6. server.tick = 0 /\ server.count = 0
    BY <1>3
  <2> QED
    BY <1>7, <2>1, <2>4, <2>5, <2>6 DEF RateInv
<1> QED
  BY <1>8, <1>9, <1>10, <1>11, <1>12, <1>13, <1>14 DEF SessionInv

\* Every step preserves it.
LEMMA NextSessionInv ==
    ASSUME SessionAssumption, SessionInv, [Next]_vars
    PROVE  SessionInv'
<1>1. CASE UNCHANGED vars
  <2>1. UNCHANGED <<server, seat, link, up, down, pc, wait, cs, latest, acked,
                    pumping, next, view, budget, ending, answer, inflight,
                    throttle, session, sent, breaks>>
    BY <1>1 DEF vars, serverVars, sessionVars, loopVars, carriedVars
  <2>2. /\ Contents(down)' = Contents(down) /\ Shown' = Shown
        /\ Commands' = Commands
    BY <2>1 DEF Contents, Shown, Arriving, Commands
  <2>3. Quiet /\ NoNewAnswers
    BY <2>1, <2>2 DEF Quiet, NoNewAnswers, SessionInv, CommandInv
  <2>4. AnswerInv'
    BY <2>1, <2>3, AnswersStand
  <2>5. SessionType' /\ LinkInv'
    BY <2>1 DEF SessionInv, SessionType, ServerType, LinkType, ClientType,
                CarriedType, LinkInv
  <2> QED
    BY <2>1, <2>3, <2>4, <2>5, ConnectionStep
<1>2. CASE ServerNext
  <2>1. CASE StartRun \/ AdvanceTick \/ CounterpartAccepts
    BY <2>1, WorldKeepsInv
  <2>2. CASE Seat
    BY <2>2, SeatKeepsInv
  <2>3. CASE ServerReady
    BY <2>3, ReadyKeepsInv
  <2>4. CASE ServerCommand
    BY <2>4, CommandKeepsInv
  <2> QED
    BY <1>2, <2>1, <2>2, <2>3, <2>4 DEF ServerNext
<1>3. CASE PumpNext
  <2>1. CASE PumpState
    BY <2>1, PumpStateKeepsInv
  <2>2. CASE PumpAnswer
    BY <2>2, PumpAnswerKeepsInv
  <2>3. CASE PumpAck \/ PumpFenced \/ PumpClosed
    BY <2>3, PumpEndKeepsInv
  <2> QED
    BY <1>3, <2>1, <2>2, <2>3 DEF PumpNext
<1>4. CASE LoopNext
  <2>1. CASE Connect
    BY <2>1, ConnectKeepsInv
  <2>2. CASE SessionEnds
    BY <2>2, EndKeepsInv
  <2>3. CASE FirstState \/ Readiness \/ StepBegins
    BY <2>3, WaitedKeepsInv
  <2>4. CASE DecideNothing \/ \E cmd \in Command : SendBlocked(cmd)
    BY <2>4, DecideKeepsInv
  <2>5. CASE \E cmd \in Command : Send(cmd)
    BY <2>5, SendKeepsInv
  <2>6. CASE Answer \/ Confirm
    BY <2>6, AnswerKeepsInv
  <2> QED
    BY <1>4, <2>1, <2>2, <2>3, <2>4, <2>5, <2>6 DEF LoopNext
<1>5. CASE TimesOut
  BY <1>5, EndKeepsInv
<1>6. CASE IdlePoll
  BY <1>1, <1>6 DEF IdlePoll
<1>7. CASE Drop
  BY <1>7, DropKeepsInv
<1>8. CASE Takeover
  BY <1>8, TakeoverKeepsInv
<1> QED
  BY <1>1, <1>2, <1>3, <1>4, <1>5, <1>6, <1>7, <1>8 DEF Next

\* The invariant holds throughout.
LEMMA SessionInvariant ==
    ASSUME SessionAssumption
    PROVE  Spec => []SessionInv
<1>1. Init => SessionInv
  BY InitSessionInv
<1>2. SessionInv /\ [Next]_vars => SessionInv'
  BY NextSessionInv
<1> QED
  BY <1>1, <1>2, PTL DEF Spec

\* The values both sides keep are always of their types: stock never goes below
\* zero, no counter passes its quota, no open offer outlives its expiry, and
\* the client's newest state is never ahead of the server's world.
THEOREM SessionTypeCorrect ==
    ASSUME SessionAssumption
    PROVE  Spec => []TypeOK
<1>1. SessionInv => TypeOK
  <2> SUFFICES ASSUME SessionInv PROVE TypeOK
    OBVIOUS
  <2>1. /\ server \in World /\ server \in Worlds /\ SessionType
        /\ server.results \subseteq Results /\ server.book \subseteq Offers
        /\ DurationTicks \in Nat
    BY DEF SessionInv, SessionType, ServerType, World, Worlds,
           SessionAssumption
  <2>2. /\ server.phase \in {"READY", "RUNNING", "FINISHED"}
        /\ server.tick \in 0..DurationTicks
        /\ server.count \in 0..CommandsPerTick /\ server.stock \in Nat
    BY <2>1 DEF Worlds, Phase
  <2>3. \A o \in server.book : o.give \in Amounts /\ o.expires > server.tick
    <3>1. ASSUME NEW o \in server.book
          PROVE  o.give \in Amounts /\ o.expires > server.tick
      <4>1. o.give \in Amounts /\ o.expires \in Nat
        BY <2>1 DEF Offers
      <4>2. server.tick < o.expires
        BY DEF SessionInv, BookInv
      <4>3. server.tick \in Nat
        BY <2>1, <2>2
      <4> QED
        BY <4>1, <4>2, <4>3
    <3> QED
      BY <3>1
  <2>4. server.results \subseteq Answers
    BY <2>1 DEF Results, Answers
  <2>5. latest.seq \in Nat /\ latest.tick \in 0..server.tick
    <3>1. latest.seq \in Nat /\ latest.tick \in Nat
      BY <2>1 DEF SessionType, ClientType, Snapshot
    <3>2. CASE latest = NoSnapshot
      BY <2>2, <3>2 DEF NoSnapshot
    <3>3. CASE latest.seq > 0
      <4>1. latest \in Shown
        BY <3>1, <3>3 DEF Shown
      <4>2. latest.tick <= server.tick /\ server.tick \in Nat
        BY <2>2, <4>1 DEF SessionInv, ShownInv, Reflects
      <4> QED
        BY <3>1, <4>2
    <3> QED
      BY <3>2, <3>3 DEF SessionInv, LinkInv
  <2>6. wait.status \in {"NONE", "PENDING", "DONE", "FAILED"}
        /\ wait.answer \in Answers
    BY <2>1 DEF SessionType, ClientType, Waiting
  <2>7. throttle.sent \in 0..CommandsPerTick
    BY <2>1 DEF SessionType, CarriedType
  <2> QED
    BY <2>1, <2>2, <2>3, <2>4, <2>5, <2>6, <2>7
       DEF TypeOK, SessionType, LinkType, ClientType, CarriedType
<1> QED
  BY <1>1, SessionInvariant, PTL

\* An offer that is open at the server and that no state has shown to its
\* client is held in the executor's in-flight ledger, over any number of
\* connections that are lost or taken over.
THEOREM OffersAreHeldUntilSeen ==
    ASSUME SessionAssumption
    PROVE  Spec => []HeldUntilSeen
<1>1. SessionInv => HeldUntilSeen
  <2> SUFFICES ASSUME SessionInv, latest.seq > 0, NEW o \in server.book,
                      o \notin latest.book
               PROVE  \E h \in inflight : h.id = o.id /\ h.give = o.give
    BY DEF HeldUntilSeen
  <2>1. latest \in Shown
    <3>1. latest.seq \in Nat
      BY DEF SessionInv, SessionType, ClientType, Snapshot
    <3> QED
      BY <3>1 DEF Shown
  <2>2. PICK r \in server.results : r.id = o.id /\ r.code = "OK"
    BY DEF SessionInv, BookInv
  <2>3. r \notin latest.results /\ o.id = Newest
    BY <2>1, <2>2 DEF SessionInv, ShownInv, Reflects
  <2>4. pc \in {"ANSWER", "CONFIRM"}
    <3>1. pc \notin {"FIRST", "READINESS", "IDLE", "DECIDE"}
      BY <2>1, <2>3 DEF SessionInv, SettledInv
    <3>2. pc \notin {"START", "DONE"}
      <4>1. latest # NoSnapshot
        BY DEF NoSnapshot
      <4> QED
        BY <4>1 DEF SessionInv, LinkInv
    <3> QED
      BY <3>1, <3>2 DEF SessionInv, SessionType, ClientType
  <2>5. [id |-> o.id, give |-> o.give] \in inflight
    BY <2>3, <2>4 DEF SessionInv, BookInv
  <2> QED
    BY <2>5
<1> QED
  BY <1>1, SessionInvariant, PTL

\* No path through the executor, refused, blocked, failed or confirmed, leaves
\* a reservation behind when the loop waits for the next state.
THEOREM ReservationsAreReleased ==
    ASSUME SessionAssumption
    PROVE  Spec => []NoLeakedReservation
<1>1. SessionInv => NoLeakedReservation
  BY DEF SessionInv, HeldInv, NoLeakedReservation
<1> QED
  BY <1>1, SessionInvariant, PTL

\* What the planet has open in offers exceeds its stock by no more than ticks
\* took since it decided the newest of them, though the server does not check
\* it and the client sees the server's world late.
THEOREM UncoveredByUpkeepOnly ==
    ASSUME SessionAssumption
    PROVE  Spec => []OnlyUpkeepUncovers
<1>1. SessionInv => OnlyUpkeepUncovers
  <2> SUFFICES ASSUME SessionInv, NEW o \in server.book
               PROVE  GiveTotal(server.book) <= server.stock + Taken(Age(o))
    BY DEF OnlyUpkeepUncovers, Taken
  <2>1. /\ server.tick \in Nat /\ server.stock \in Nat /\ OfferTtl \in Nat
        /\ o.expires \in Nat /\ GiveTotal(server.book) \in Nat
    <3>1. server \in Worlds /\ IsFiniteSet(server.book)
      BY DEF SessionInv, SessionType, ServerType, World, BookInv
    <3> QED
      BY <3>1, OffersType DEF Worlds, Offers, SessionAssumption
  <2>2. PICK d \in Nat : Covered(server, d, 0)
    BY DEF SessionInv, PromiseInv
  <2>3. /\ d <= server.tick /\ o.expires <= d + OfferTtl
        /\ GiveTotal(server.book) + 0 + Taken(d)
              <= server.stock + Taken(server.tick)
    BY <2>2 DEF Covered, Backing
  <2>4. /\ server.tick - d \in Nat /\ Age(o) \in Nat
        /\ server.tick - d <= Age(o)
    BY <2>1, <2>3 DEF Age
  <2>5. Taken(server.tick) = Taken(d) + Taken(server.tick - d)
    BY <2>1, <2>3, TicksTake
  <2>6. Taken(server.tick - d) <= Taken(Age(o))
    BY <2>4, TicksTake
  <2>7. /\ Taken(d) \in Nat /\ Taken(server.tick - d) \in Nat
        /\ Taken(Age(o)) \in Nat
    BY <2>4, TakenAdds
  <2> QED
    BY <2>1, <2>3, <2>5, <2>6, <2>7
<1> QED
  BY <1>1, SessionInvariant, PTL

\* The strategy decides on a state that includes every result the server has
\* stored for the planet.
THEOREM DecisionsAreInformed ==
    ASSUME SessionAssumption
    PROVE  Spec => []DecidesOnItsOwnResults
<1>1. SessionInv => DecidesOnItsOwnResults
  BY DEF SessionInv, SettledInv, DecidesOnItsOwnResults
<1> QED
  BY <1>1, SessionInvariant, PTL

\* Of a refusal for the quota and what was processed before it in the tick,
\* one was charged to an earlier tick: they are more than the quota allows.
LEMMA RefusedIsLate ==
    ASSUME SessionAssumption, SessionInv,
           NEW cmd \in Commands, CodeOf(cmd) = "RATE_LIMITED"
    PROVE  \/ sent[Newest] < server.tick
           \/ \E q \in server.results :
                  q.tick = server.tick /\ sent[q.id] < server.tick
<1> DEFINE now == server.tick
           done == ProcessedIn(now)
           all == done \cup {Newest}
<1>1. /\ CommandsPerTick \in Nat /\ server.count \in Nat
      /\ now \in 0..DurationTicks /\ now \in Nat
  BY DEF SessionInv, SessionType, ServerType, World, Worlds, SessionAssumption
<1>2. /\ IsFiniteSet(Charged(now)) /\ IsFiniteSet(done)
      /\ Cardinality(Charged(now)) \in Nat /\ Cardinality(done) \in Nat
      /\ Newest \in Nat
  BY ProcessedCounts DEF SessionInv
<1>3. /\ Newest \in 1..Newest /\ Newest \notin done
      /\ server.count >= CommandsPerTick
  <2>1. /\ cmd.id \in Nat \ {0} /\ cmd.id = Newest
        /\ server.count >= CommandsPerTick
    BY CommandVerdict
  <2>2. Newest \notin done
    BY DEF ProcessedIn, SessionInv, CommandInv
  <2> QED
    BY <1>2, <2>1, <2>2
<1>4. Cardinality(all) > Cardinality(Charged(now))
  <2> HIDE DEF done
  <2>1. Cardinality(all) = Cardinality(done) + 1
    BY <1>2, <1>3, FS_AddElement
  <2>2. /\ server.count <= Cardinality(done)
        /\ Cardinality(Charged(now)) <= CommandsPerTick
    BY <1>1 DEF SessionInv, RateInv, done
  <2> QED
    BY <1>1, <1>2, <1>3, <2>1, <2>2
<1>5. PICK i \in all : sent[i] # now
  <2>1. SUFFICES ASSUME \A i \in all : sent[i] = now PROVE FALSE
    OBVIOUS
  <2>2. all \subseteq Charged(now)
    BY <1>3, <2>1 DEF ProcessedIn, Charged
  <2> HIDE DEF all
  <2>3. Cardinality(all) <= Cardinality(Charged(now)) /\ IsFiniteSet(all)
    BY <1>2, <2>2, FS_Subset
  <2>4. Cardinality(all) \in Nat
    BY <2>3, FS_CardinalityType
  <2> QED
    BY <1>2, <1>4, <2>3, <2>4
<1>6. sent[i] < now
  <2>1. i \in 1..Newest
    BY <1>3 DEF ProcessedIn
  <2>2. CarriedType /\ RateInv
    BY DEF SessionInv, SessionType
  <2>3. sent \in Seq(Nat) /\ throttle.tick \in Nat
    BY <2>2 DEF CarriedType
  <2>4. sent[i] \in Nat
    BY <2>1, <2>3 DEF Newest
  <2>5. sent[i] <= throttle.tick /\ throttle.tick <= now
    BY <2>1, <2>2 DEF RateInv
  <2> QED
    BY <1>1, <1>5, <2>3, <2>4, <2>5
<1>7. CASE i = Newest
  BY <1>6, <1>7
<1>8. CASE i \in done
  <2>1. PICK q \in server.results : q.id = i /\ q.tick = now
    BY <1>8 DEF ProcessedIn
  <2> QED
    BY <1>6, <2>1
<1> QED
  BY <1>5, <1>7, <1>8

\* Only the server's processing of a command stores a result.
LEMMA ServerResults ==
    ASSUME SessionInv, ServerNext
    PROVE  /\ sent' = sent
           /\ \/ server'.results = server.results
              \/ /\ ServerCommand
                 /\ server' = After(Head(up))
<1>1. server \in Worlds
  BY DEF SessionInv, SessionType, ServerType, World
<1>2. sent' = sent
  BY DEF ServerNext, Seat, ServerReady, ServerCommand, StartRun, AdvanceTick,
         CounterpartAccepts, carriedVars
<1>3. CASE StartRun
  <2>1. server' = [server EXCEPT !.phase = "RUNNING"]
    BY <1>3 DEF StartRun, Publish
  <2> QED
    BY <1>1, <1>2, <2>1 DEF Worlds
<1>4. CASE AdvanceTick
  <2> DEFINE over == server.tick + 1 >= DurationTicks
  <2>1. PICK production \in ProductionLevels :
            server' = [server EXCEPT
               !.tick = server.tick + 1, !.count = 0,
               !.stock = StockAfter(@, production),
               !.phase = IF over THEN "FINISHED" ELSE @,
               !.book = IF over THEN {}
                        ELSE {o \in @ : o.expires > server.tick + 1}]
    BY <1>4 DEF AdvanceTick, Publish
  <2> HIDE DEF over
  <2> QED
    BY <1>1, <1>2, <2>1 DEF Worlds
<1>5. CASE CounterpartAccepts
  <2>1. PICK o \in server.book :
            /\ o.give <= server.stock
            /\ Publish(<<>>, [server EXCEPT !.book = @ \ {o},
                                            !.stock = @ - o.give])
    BY <1>5, OfferTaken
  <2>2. server' = [server EXCEPT !.book = @ \ {o}, !.stock = @ - o.give]
    BY <2>1 DEF Publish
  <2> QED
    BY <1>1, <1>2, <2>2 DEF Worlds
<1>6. CASE ServerCommand
  <2>1. server' = After(Head(up)) \/ server' = server
    BY <1>6, CommandTaken DEF Publish, serverVars
  <2> QED
    BY <1>2, <1>6, <2>1
<1>7. CASE Seat \/ ServerReady
  BY <1>2, <1>7 DEF Seat, ServerReady
<1> QED
  BY <1>3, <1>4, <1>5, <1>6, <1>7 DEF ServerNext

\* Only sending a command charges a tick, and nothing but the server changes
\* its world.
LEMMA ClientResults ==
    ASSUME [Next]_vars, ~ServerNext
    PROVE  /\ server' = server
           /\ sent' = sent \/ sent' = Append(sent, latest.tick)
<1>1. CASE UNCHANGED vars
  BY <1>1 DEF vars, serverVars, carriedVars
<1>2. CASE Drop \/ Takeover \/ IdlePoll
  BY <1>2 DEF Drop, Takeover, IdlePoll, vars, serverVars, carriedVars
<1>3. CASE PumpNext
  BY <1>3 DEF PumpNext, PumpState, PumpAnswer, PumpAck, PumpFenced,
              PumpClosed, serverVars, carriedVars
<1>4. CASE TimesOut \/ SessionEnds
  BY <1>4 DEF TimesOut, SessionEnds, Stop, serverVars, carriedVars
<1>5. CASE Connect \/ FirstState \/ Readiness \/ StepBegins
  BY <1>5 DEF Connect, FirstState, Readiness, StepBegins, serverVars,
              carriedVars
<1>6. ASSUME NEW held, StepEnds(held)
      PROVE  server' = server /\ sent' = sent
  BY <1>6 DEF StepEnds, Stop, serverVars, carriedVars
<1>7. CASE DecideNothing
  BY <1>6, <1>7 DEF DecideNothing
<1>8. ASSUME NEW cmd \in Command, SendBlocked(cmd) \/ Send(cmd)
      PROVE  /\ server' = server
             /\ sent' = sent \/ sent' = Append(sent, latest.tick)
  <2>1. CASE SendBlocked(cmd)
    BY <1>6, <2>1 DEF SendBlocked
  <2>2. CASE Send(cmd)
    BY <2>2 DEF Send, serverVars
  <2> QED
    BY <1>8, <2>1, <2>2
<1>9. CASE Answer \/ Confirm
  <2>1. ASSUME NEW a, NEW s, AwaitConfirmation(a, s)
        PROVE  server' = server /\ sent' = sent
    BY <1>6, <2>1 DEF AwaitConfirmation, serverVars, carriedVars
  <2> QED
    BY <1>9, <2>1 DEF Answer, Confirm
<1> QED
  BY <1>1, <1>2, <1>3, <1>4, <1>5, <1>7, <1>8, <1>9 DEF Next, LoopNext

\* Over any number of connections, a command is refused for the quota only in
\* a tick in which one was processed that had been charged to an earlier tick:
\* the client's throttle counts every tick's commands within the quota.
THEOREM QuotaRefusalsAreLate ==
    ASSUME SessionAssumption
    PROVE  Spec => []RateLimitMeansLate
<1>1. Init => RateLimitMeansLate
  BY DEF Init, RateLimitMeansLate, RateLimited
<1>2. ASSUME SessionInv, RateLimitMeansLate, [Next]_vars
      PROVE  RateLimitMeansLate'
  <2>1. /\ \A r \in server.results : r.id \in 1..Newest
        /\ sent \in Seq(Nat) /\ up \in Seq(UpMessage)
    BY <1>2 DEF SessionInv, SessionType, LinkType, CarriedType, ResultInv
  <2>2. \A q \in server.results : sent'[q.id] = sent[q.id]
    <3>1. sent' = sent \/ sent' = Append(sent, latest.tick)
      BY <1>2, ServerResults, ClientResults
    <3>2. latest.tick \in Nat
      BY <1>2 DEF SessionInv, SessionType, ClientType, Snapshot
    <3>3. \A i \in 1..Newest : Append(sent, latest.tick)[i] = sent[i]
      BY <2>1, <3>2 DEF Newest
    <3>4. \A q \in server.results : Append(sent, latest.tick)[q.id] = sent[q.id]
      BY <2>1, <3>3
    <3>5. CASE sent' = sent
      BY <3>5
    <3>6. CASE sent' = Append(sent, latest.tick)
      BY <3>4, <3>6
    <3> QED
      BY <3>1, <3>5, <3>6
  <2>3. CASE server'.results = server.results
    BY <1>2, <2>2, <2>3 DEF RateLimitMeansLate, RateLimited
  <2>4. CASE ServerCommand /\ server' = After(Head(up)) /\ sent' = sent
    <3> DEFINE cmd == Head(up)
               r == StoredResult(cmd)
    <3>1. cmd \in Commands
      <4>1. up # <<>> /\ cmd.kind # "READY"
        BY <1>2, <2>4, CommandTaken
      <4> QED
        BY <2>1, <4>1, TailContents DEF Commands
    <3>2. server'.results = server.results \cup {r}
      BY <1>2, <2>4, <3>1, CommandEffect
    <3>3. r.id = Newest /\ r.tick = server.tick /\ r.code = CodeOf(cmd)
      BY <1>2, <3>1, CommandVerdict DEF StoredResult
    <3>4. ASSUME r.code = "RATE_LIMITED"
          PROVE  \E q \in server.results \cup {r} :
                    q.tick = r.tick /\ sent[q.id] < r.tick
      BY <1>2, <3>1, <3>3, <3>4, RefusedIsLate
    <3> HIDE DEF r
    <3> QED
      BY <1>2, <2>4, <3>2, <3>4 DEF RateLimitMeansLate, RateLimited
  <2> QED
    BY <1>2, <2>3, <2>4, ServerResults, ClientResults
<1> QED
  BY <1>1, <1>2, SessionInvariant, PTL DEF Spec
=============================================================================

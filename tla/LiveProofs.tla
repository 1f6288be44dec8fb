----------------------------- MODULE LiveProofs -----------------------------
(***************************************************************************)
(* What the dashboard shows of the evidence logs, however many clients     *)
(* there are, however they are killed and started again, wherever their    *)
(* lines are cut, and however much is read at once; and what the           *)
(* orchestrator leaves running when it returns.                            *)
(***************************************************************************)
EXTENDS Orchestra, SumProofs

-----------------------------------------------------------------------------
(* Reading one unit after another: FoldLeft(IngestUnit, ...) *)

\* A set of numbers up to n has a greatest.
LEMMA MaxIsTaken ==
    ASSUME NEW n \in Nat, NEW S \in SUBSET (1..n), S # {}
    PROVE  Max(S) \in S /\ \A k \in S : k <= Max(S)
<1> DEFINE Bad == {m \in Nat : \E k \in S : m = n - k}
<1>1. Bad # {} /\ Bad \in SUBSET Nat
  <2>1. PICK k \in S : k \in 1..n
    OBVIOUS
  <2>2. n - k \in Nat /\ n - k \in Bad
    BY <2>1
  <2> QED
    BY <2>2
<1> HIDE DEF Bad
<1>2. PICK m \in Bad : \A k \in Bad : m <= k
  BY <1>1, LeastNumber
<1>3. PICK x \in S : m = n - x
  BY <1>2 DEF Bad
<1>4. ASSUME NEW k \in S
      PROVE  k <= x
  <2>1. k \in Nat /\ k <= n /\ x \in Nat
    BY <1>3
  <2>2. n - k \in Bad
    BY <2>1 DEF Bad
  <2> QED
    BY <1>2, <1>3, <2>1, <2>2
<1>5. \E y \in S : \A k \in S : y >= k
  BY <1>3, <1>4
<1> QED
  BY <1>5 DEF Max

\* g reads the units of u at the places of a set, the last one last.
Reads(b, u, g, family) ==
    g = [s \in family |-> IF s = {} THEN b
                          ELSE IngestUnit(g[s \ {Max(s)}], u[Max(s)])]

\* There is such a g: on the sets of up to n places, for every n.
LEMMA ReadsExist ==
    ASSUME NEW T, NEW u \in Seq(T), NEW b
    PROVE  \E g : Reads(b, u, g, SUBSET DOMAIN u)
<1> DEFINE S == DOMAIN u
           Bad == {n \in Nat : ~ \E g : Reads(b, u, g, UpTo(S, n))}
<1>0. S = 1..Len(u) /\ Len(u) \in Nat /\ IsFiniteSet(S)
  BY FS_Interval
<1> HIDE DEF S
<1>1. \A s \in SUBSET S : IsFiniteSet(s) /\ Cardinality(s) \in Nat
  BY <1>0, FS_Subset, FS_CardinalityType
<1>2. \A s \in SUBSET S : s # {} =>
          /\ Max(s) \in s
          /\ Cardinality(s \ {Max(s)}) = Cardinality(s) - 1
          /\ s \ {Max(s)} \in SUBSET S
  <2> SUFFICES ASSUME NEW s \in SUBSET S, s # {}
               PROVE  /\ Max(s) \in s
                      /\ Cardinality(s \ {Max(s)}) = Cardinality(s) - 1
    OBVIOUS
  <2>1. Max(s) \in s
    BY <1>0, MaxIsTaken
  <2> QED
    BY <1>1, <2>1, FS_RemoveElement
<1>3. Bad = {}
  <2> SUFFICES ASSUME Bad # {}
               PROVE  FALSE
    OBVIOUS
  <2>1. PICK m \in Bad : \A k \in Bad : m <= k
    BY LeastNumber
  <2>2. CASE m = 0
    <3> DEFINE g == [s \in UpTo(S, 0) |-> b]
    <3>1. \A s \in UpTo(S, 0) : s = {}
      BY <1>1, FS_EmptySet DEF UpTo
    <3>2. g = [s \in UpTo(S, 0) |-> IF s = {} THEN b
                          ELSE IngestUnit(g[s \ {Max(s)}], u[Max(s)])]
      BY <3>1
    <3> HIDE DEF g
    <3> QED
      BY <2>1, <2>2, <3>2 DEF Reads
  <2>3. CASE m # 0
    <3>1. m \in Nat \ {0} /\ m - 1 \in Nat /\ m - 1 \notin Bad
      BY <2>1, <2>3
    <3>2. PICK g : Reads(b, u, g, UpTo(S, m - 1))
      BY <3>1
    <3> DEFINE h == [s \in UpTo(S, m) |-> IF s = {} THEN b
                          ELSE IngestUnit(g[s \ {Max(s)}], u[Max(s)])]
    <3>3. \A s \in UpTo(S, m) : s # {} => s \ {Max(s)} \in UpTo(S, m - 1)
      BY <1>1, <1>2, <3>1 DEF UpTo
    <3>4. UpTo(S, m - 1) \subseteq UpTo(S, m)
      BY <1>1, <3>1 DEF UpTo
    <3>5. \A s \in UpTo(S, m - 1) : h[s] = g[s]
      BY <3>2, <3>4 DEF Reads
    <3>6. h = [s \in UpTo(S, m) |-> IF s = {} THEN b
                          ELSE IngestUnit(h[s \ {Max(s)}], u[Max(s)])]
      BY <3>3, <3>5
    <3> HIDE DEF h
    <3> QED
      BY <2>1, <3>6 DEF Reads
  <2> QED
    BY <2>2, <2>3
<1>4. Cardinality(S) \in Nat /\ UpTo(S, Cardinality(S)) = SUBSET S
  BY <1>0, <1>1, FS_Subset, FS_CardinalityType DEF UpTo
<1>5. \E g : Reads(b, u, g, UpTo(S, Cardinality(S)))
  BY <1>3, <1>4
<1> QED
  BY <1>4, <1>5 DEF S

\* The states of reading u from b on, one unit at a time.
Steps(b, u, h) ==
    /\ h[0] = b
    /\ \A n \in 1..Len(u) : h[n] = IngestUnit(h[n - 1], u[n])

\* The fold goes through them.
LEMMA FoldSteps ==
    ASSUME NEW T, NEW u \in Seq(T), NEW b
    PROVE  \E h : Steps(b, u, h) /\ FoldLeft(IngestUnit, b, u) = h[Len(u)]
<1> DEFINE S == DOMAIN u
           fold == CHOOSE g : Reads(b, u, g, SUBSET S)
           h == [n \in 0..Len(u) |-> fold[1..n]]
<1>1. Reads(b, u, fold, SUBSET S)
  BY ReadsExist
<1>2. FoldLeft(IngestUnit, b, u) = fold[S]
  BY DEF FoldLeft, MapThenFoldSet, Reads
<1>3. S = 1..Len(u) /\ Len(u) \in Nat
  OBVIOUS
<1> HIDE DEF fold, S
<1>4. ASSUME NEW n \in 1..Len(u)
      PROVE  /\ 1..n \in SUBSET S /\ 1..n # {}
             /\ Max(1..n) = n /\ (1..n) \ {n} = 1..(n - 1)
  <2>1. 1..n \in SUBSET S /\ n \in 1..n /\ (1..n) \ {n} = 1..(n - 1)
    BY <1>3
  <2>2. Max(1..n) \in 1..n /\ \A k \in 1..n : k <= Max(1..n)
    BY <1>3, <2>1, MaxIsTaken
  <2> QED
    BY <2>1, <2>2
<1>5. ASSUME NEW n \in 1..Len(u)
      PROVE  fold[1..n] = IngestUnit(fold[1..(n - 1)], u[n])
  <2> DEFINE s == 1..n
  <2>1. s \in SUBSET S /\ s # {} /\ Max(s) = n /\ s \ {n} = 1..(n - 1)
    BY <1>4
  <2> HIDE DEF s
  <2>2. fold[s] = IngestUnit(fold[s \ {Max(s)}], u[Max(s)])
    BY <1>1, <2>1 DEF Reads
  <2> QED
    BY <2>1, <2>2 DEF s
<1>6. fold[1..0] = b
  <2>1. 1..0 = {} /\ {} \in SUBSET S
    OBVIOUS
  <2> QED
    BY <1>1, <2>1 DEF Reads
<1>7. /\ h[0] = b
      /\ \A n \in 1..Len(u) : h[n] = IngestUnit(h[n - 1], u[n])
  <2>1. h[0] = fold[1..0]
    BY <1>3
  <2>2. ASSUME NEW n \in 1..Len(u)
        PROVE  h[n] = fold[1..n] /\ h[n - 1] = fold[1..(n - 1)]
    <3>1. n \in 0..Len(u) /\ n - 1 \in 0..Len(u)
      BY <1>3
    <3> QED
      BY <3>1
  <2> HIDE DEF h
  <2> QED
    BY <1>5, <1>6, <2>1, <2>2
<1>8. h[Len(u)] = fold[S]
  BY <1>3
<1> HIDE DEF h
<1> QED
  BY <1>2, <1>7, <1>8 DEF Steps

\* Reading in two goes is reading at once.
LEMMA ReadOn ==
    ASSUME NEW T, NEW u \in Seq(T), NEW b, NEW from \in 0..Len(u),
           NEW to \in from..Len(u)
    PROVE  FoldLeft(IngestUnit, b, SubSeq(u, 1, to)) =
               FoldLeft(IngestUnit,
                        FoldLeft(IngestUnit, b, SubSeq(u, 1, from)),
                        SubSeq(u, from + 1, to))
<1> DEFINE x == SubSeq(u, 1, from)
           y == SubSeq(u, from + 1, to)
           z == SubSeq(u, 1, to)
           mid == FoldLeft(IngestUnit, b, x)
<1>1. /\ x \in Seq(T) /\ y \in Seq(T) /\ z \in Seq(T)
      /\ Len(x) = from /\ Len(y) = to - from /\ Len(z) = to
      /\ from \in Nat /\ to \in Nat /\ from <= to /\ to - from \in Nat
      /\ \A n \in 1..from : x[n] = z[n]
      /\ \A n \in 1..(to - from) : y[n] = z[from + n]
  OBVIOUS
<1> HIDE DEF x, y, z
<1>2. PICK h : Steps(b, x, h) /\ mid = h[from]
  BY <1>1, FoldSteps
<1> HIDE DEF mid
<1>3. PICK g : Steps(mid, y, g) /\ FoldLeft(IngestUnit, mid, y) = g[Len(y)]
  BY <1>1, FoldSteps
<1>4. PICK f : Steps(b, z, f) /\ FoldLeft(IngestUnit, b, z) = f[to]
  BY <1>1, FoldSteps
<1>5. /\ h[0] = b /\ \A n \in 1..from : h[n] = IngestUnit(h[n - 1], x[n])
  BY <1>1, <1>2 DEF Steps
<1>6. /\ g[0] = mid
      /\ \A n \in 1..(to - from) : g[n] = IngestUnit(g[n - 1], y[n])
  BY <1>1, <1>3 DEF Steps
<1>7. /\ f[0] = b /\ \A n \in 1..to : f[n] = IngestUnit(f[n - 1], z[n])
  BY <1>1, <1>4 DEF Steps
<1>8. \A n \in 0..from : h[n] = f[n]
  <2> DEFINE Bad == {n \in Nat : n \in 0..from /\ h[n] # f[n]}
  <2> SUFFICES ASSUME Bad # {}
               PROVE  FALSE
    BY <1>1
  <2>1. PICK n \in Bad : \A k \in Bad : n <= k
    BY LeastNumber
  <2>2. n # 0
    BY <2>1, <1>5, <1>7
  <2>3. n \in 1..from /\ n - 1 \in Nat /\ n - 1 \in 0..from
    BY <1>1, <2>1, <2>2
  <2>4. h[n - 1] = f[n - 1]
    BY <2>1, <2>3
  <2>5. h[n] = IngestUnit(h[n - 1], x[n]) /\ f[n] = IngestUnit(f[n - 1], z[n])
    <3>1. n \in 1..to
      BY <1>1, <2>3
    <3> QED
      BY <1>5, <1>7, <2>3, <3>1
  <2> QED
    BY <1>1, <2>1, <2>3, <2>4, <2>5
<1>9. \A n \in 0..(to - from) : g[n] = f[from + n]
  <2> DEFINE Bad == {n \in Nat : n \in 0..(to - from) /\ g[n] # f[from + n]}
  <2> SUFFICES ASSUME Bad # {}
               PROVE  FALSE
    BY <1>1
  <2>1. PICK n \in Bad : \A k \in Bad : n <= k
    BY LeastNumber
  <2>2. n # 0
    <3>1. mid = f[from]
      BY <1>1, <1>2, <1>8
    <3> QED
      BY <1>1, <1>6, <2>1, <3>1
  <2>3. n \in 1..(to - from) /\ n - 1 \in Nat /\ n - 1 \in 0..(to - from)
    BY <1>1, <2>1, <2>2
  <2>4. g[n - 1] = f[from + (n - 1)]
    <3>1. n - 1 \notin Bad
      <4> HIDE DEF Bad
      <4> QED
        BY <2>1, <2>3
    <3> QED
      BY <2>3, <3>1
  <2>5. from + n \in 1..to /\ from + n - 1 = from + (n - 1)
    BY <1>1, <2>3
  <2>6. g[n] = IngestUnit(g[n - 1], y[n])
    BY <1>6, <2>3
  <2>7. f[from + n] = IngestUnit(f[from + n - 1], z[from + n])
    BY <1>7, <2>5
  <2> QED
    BY <1>1, <2>1, <2>3, <2>4, <2>5, <2>6, <2>7
<1>10. g[to - from] = f[to]
  <2>1. to - from \in 0..(to - from) /\ from + (to - from) = to
    BY <1>1
  <2> QED
    BY <1>9, <2>1
<1> QED
  BY <1>1, <1>3, <1>4, <1>10 DEF mid, x, y, z

-----------------------------------------------------------------------------
(* A station's view, with or without the report on top *)

\* v is a view of a station.
Views(T) ==
    [known : BOOLEAN, status : T, connection : T, tick : T, confirmed : T,
     rejected : T, trades : T, ended : T]

IsStation(v) == \E T : v \in Views(T)

IsOk(r) == r.kind = "command" /\ r.answer = "OK"
IsRefusal(r) == r.kind = "command" /\ r.answer \in {"REFUSED", "PROTOCOL"}

\* The view a record is added to.
Before(v, r) == IF v.known /\ r.kind # "run_start" THEN v ELSE NewStation

\* z is the view b after the record r, as far as the report leaves it alone.
Counts(z, b, r) ==
    /\ IsStation(z) /\ z.known
    /\ z.connection = IF r.kind = "connection" THEN r.event ELSE b.connection
    /\ z.confirmed = IF IsOk(r) THEN b.confirmed + 1 ELSE b.confirmed
    /\ z.rejected = IF IsRefusal(r) THEN b.rejected + 1 ELSE b.rejected
    /\ z.trades = IF r.kind = "decision" THEN b.trades + Cardinality(r.new)
                  ELSE b.trades

LEMMA IngestCounts ==
    ASSUME NEW v, IsStation(v), NEW r
    PROVE  Counts(Ingest(v, r), Before(v, r), r)
<1> DEFINE b == Before(v, r)
           z == Ingest(v, r)
<1> SUFFICES Counts(z, b, r)
  OBVIOUS
<1>1. IsStation(NewStation) /\ NewStation.known
  <2>1. NoStation \in Views({"none", Never, 0, FALSE, "connecting"})
    BY DEF NoStation, Views
  <2> HIDE DEF NoStation
  <2>2. NewStation \in Views({"none", Never, 0, FALSE, "connecting"})
    BY <2>1 DEF NewStation, Views
  <2>3. NewStation.known
    BY <2>1 DEF NewStation, Views
  <2> QED
    BY <2>2, <2>3 DEF IsStation
<1>2. IsStation(b) /\ b.known
  BY <1>1 DEF Before
<1>3. PICK T : b \in Views(T)
  BY <1>2 DEF IsStation
<1>4. z = CASE r.kind = "decision" ->
                 [b EXCEPT !.tick = r.tick,
                           !.trades = b.trades + Cardinality(r.new)]
            [] r.kind = "status" -> [b EXCEPT !.status = r.status]
            [] r.kind = "connection" -> [b EXCEPT !.connection = r.event]
            [] r.kind = "run_end" -> [b EXCEPT !.ended = TRUE]
            [] IsOk(r) -> [b EXCEPT !.confirmed = b.confirmed + 1]
            [] IsRefusal(r) -> [b EXCEPT !.rejected = b.rejected + 1]
            [] OTHER -> b
  BY DEF Ingest, IsOk, IsRefusal, Before
<1> HIDE DEF b, z
<1>5. CASE r.kind = "decision"
  <2>1. z = [b EXCEPT !.tick = r.tick,
                   !.trades = b.trades + Cardinality(r.new)]
    BY <1>4, <1>5 DEF IsOk, IsRefusal
  <2>2. z \in Views(T \cup {r.tick, b.trades + Cardinality(r.new)})
    BY <1>3, <2>1 DEF Views
  <2>3. /\ z.known = b.known /\ z.connection = b.connection
        /\ z.confirmed = b.confirmed /\ z.rejected = b.rejected
        /\ z.trades = b.trades + Cardinality(r.new)
    BY <1>3, <2>1 DEF Views
  <2> QED
    BY <1>2, <1>5, <2>2, <2>3 DEF Counts, IsStation, IsOk, IsRefusal
<1>6. CASE r.kind = "status"
  <2>1. z = [b EXCEPT !.status = r.status]
    BY <1>4, <1>6 DEF IsOk, IsRefusal
  <2>2. z \in Views(T \cup {r.status})
    BY <1>3, <2>1 DEF Views
  <2>3. /\ z.known = b.known /\ z.connection = b.connection
        /\ z.confirmed = b.confirmed /\ z.rejected = b.rejected
        /\ z.trades = b.trades
    BY <1>3, <2>1 DEF Views
  <2> QED
    BY <1>2, <1>6, <2>2, <2>3 DEF Counts, IsStation, IsOk, IsRefusal
<1>7. CASE r.kind = "connection"
  <2>1. z = [b EXCEPT !.connection = r.event]
    BY <1>4, <1>7 DEF IsOk, IsRefusal
  <2>2. z \in Views(T \cup {r.event})
    BY <1>3, <2>1 DEF Views
  <2>3. /\ z.known = b.known /\ z.connection = r.event
        /\ z.confirmed = b.confirmed /\ z.rejected = b.rejected
        /\ z.trades = b.trades
    BY <1>3, <2>1 DEF Views
  <2> QED
    BY <1>2, <1>7, <2>2, <2>3 DEF Counts, IsStation, IsOk, IsRefusal
<1>8. CASE r.kind = "run_end"
  <2>1. z = [b EXCEPT !.ended = TRUE]
    BY <1>4, <1>8 DEF IsOk, IsRefusal
  <2>2. z \in Views(T \cup {TRUE})
    BY <1>3, <2>1 DEF Views
  <2>3. /\ z.known = b.known /\ z.connection = b.connection
        /\ z.confirmed = b.confirmed /\ z.rejected = b.rejected
        /\ z.trades = b.trades
    BY <1>3, <2>1 DEF Views
  <2> QED
    BY <1>2, <1>8, <2>2, <2>3 DEF Counts, IsStation, IsOk, IsRefusal
<1>9. CASE IsOk(r)
  <2>1. z = [b EXCEPT !.confirmed = b.confirmed + 1]
    BY <1>4, <1>9 DEF IsOk, IsRefusal
  <2>2. z \in Views(T \cup {b.confirmed + 1})
    BY <1>3, <2>1 DEF Views
  <2>3. /\ z.known = b.known /\ z.connection = b.connection
        /\ z.confirmed = b.confirmed + 1 /\ z.rejected = b.rejected
        /\ z.trades = b.trades
    BY <1>3, <2>1 DEF Views
  <2> QED
    BY <1>2, <1>9, <2>2, <2>3 DEF Counts, IsStation, IsOk, IsRefusal
<1>10. CASE IsRefusal(r)
  <2>1. z = [b EXCEPT !.rejected = b.rejected + 1]
    BY <1>4, <1>10 DEF IsOk, IsRefusal
  <2>2. z \in Views(T \cup {b.rejected + 1})
    BY <1>3, <2>1 DEF Views
  <2>3. /\ z.known = b.known /\ z.connection = b.connection
        /\ z.confirmed = b.confirmed /\ z.rejected = b.rejected + 1
        /\ z.trades = b.trades
    BY <1>3, <2>1 DEF Views
  <2> QED
    BY <1>2, <1>10, <2>2, <2>3 DEF Counts, IsStation, IsOk, IsRefusal
<1>11. CASE /\ r.kind \notin {"decision", "status", "connection", "run_end"}
            /\ ~IsOk(r) /\ ~IsRefusal(r)
  <2>1. z = b
    BY <1>4, <1>11
  <2> QED
    BY <1>2, <1>11, <2>1 DEF Counts
<1> QED
  BY <1>5, <1>6, <1>7, <1>8, <1>9, <1>10, <1>11

\* What a report makes of a view of which these parts are left.
Final(connection, confirmed, rejected, trades) ==
    [known |-> TRUE, status |-> "finished", connection |-> connection,
     tick |-> setup.ticks, confirmed |-> confirmed, rejected |-> rejected,
     trades |-> trades, ended |-> TRUE]

FinalOf(v) == Final(v.connection, v.confirmed, v.rejected, v.trades)

LEMMA OverlaidParts ==
    ASSUME NEW v, IsStation(v), NEW final \in BOOLEAN
    PROVE  /\ ~final \/ ~v.known => Overlaid(final, v) = v
           /\ final /\ v.known => Overlaid(final, v) = FinalOf(v)
<1>1. PICK T : v \in Views(T)
  BY DEF IsStation
<1>2. CASE final /\ v.known
  <2>1. Overlaid(final, v) =
            [v EXCEPT !.status = "finished", !.ended = TRUE, !.tick = setup.ticks]
    BY <1>2 DEF Overlaid
  <2>2. v.known = TRUE
    BY <1>1, <1>2 DEF Views
  <2> QED
    BY <1>1, <1>2, <2>1, <2>2 DEF Views, Final, FinalOf
<1>3. CASE ~(final /\ v.known)
  BY <1>3 DEF Overlaid
<1> QED
  BY <1>2, <1>3

\* A view with the report on top is a view, and the report changes it no more.
LEMMA OverlaidTwice ==
    ASSUME NEW v, IsStation(v), NEW final \in BOOLEAN
    PROVE  /\ IsStation(Overlaid(final, v))
           /\ Overlaid(final, Overlaid(final, v)) = Overlaid(final, v)
<1>1. CASE final /\ v.known
  <2> DEFINE o == Overlaid(final, v)
             T == {v.connection, v.confirmed, v.rejected, v.trades, "finished",
                   TRUE, setup.ticks}
  <2>1. o = FinalOf(v)
    BY <1>1, OverlaidParts
  <2> HIDE DEF o
  <2>2. /\ o.known /\ o.connection = v.connection /\ o.rejected = v.rejected
        /\ o.confirmed = v.confirmed /\ o.trades = v.trades
    BY <2>1 DEF Final, FinalOf
  <2>3. o \in Views(T)
    BY <2>1 DEF Views, Final, FinalOf
  <2>4. IsStation(o)
    BY <2>3 DEF IsStation
  <2>5. Overlaid(final, o) = FinalOf(o)
    BY <1>1, <2>2, <2>4, OverlaidParts
  <2>6. FinalOf(o) = FinalOf(v)
    BY <2>2 DEF FinalOf
  <2> QED
    BY <2>1, <2>4, <2>5, <2>6 DEF o
<1>2. CASE ~(final /\ v.known)
  BY <1>2, OverlaidParts
<1> QED
  BY <1>1, <1>2

\* v and w differ at most in what the report overlays.
Alike(final, v, w) == Overlaid(final, v) = Overlaid(final, w)

\* With a report, they are alike in the parts it leaves.
LEMMA AlikeParts ==
    ASSUME NEW v, NEW w, IsStation(v), IsStation(w), Alike(TRUE, v, w)
    PROVE  /\ v.known <=> w.known
           /\ v.known => /\ v.connection = w.connection
                         /\ v.confirmed = w.confirmed
                         /\ v.rejected = w.rejected /\ v.trades = w.trades
<1>1. /\ v.known => Overlaid(TRUE, v) = FinalOf(v)
      /\ w.known => Overlaid(TRUE, w) = FinalOf(w)
      /\ ~v.known => Overlaid(TRUE, v) = v
      /\ ~w.known => Overlaid(TRUE, w) = w
  BY OverlaidParts
<1>2. FinalOf(v).known /\ FinalOf(w).known
  BY DEF FinalOf, Final
<1>3. v.known <=> w.known
  BY <1>1, <1>2 DEF Alike
<1>4. ASSUME v.known
      PROVE  /\ v.connection = w.connection
             /\ v.confirmed = w.confirmed
             /\ v.rejected = w.rejected /\ v.trades = w.trades
  <2>1. FinalOf(v) = FinalOf(w)
    BY <1>1, <1>3, <1>4 DEF Alike
  <2> QED
    BY <2>1 DEF FinalOf, Final
<1> QED
  BY <1>3, <1>4

\* They stay so when the same record is added to both.
LEMMA IngestAlike ==
    ASSUME NEW final \in BOOLEAN, NEW v, NEW w, IsStation(v), IsStation(w),
           Alike(final, v, w), NEW r
    PROVE  /\ IsStation(Ingest(v, r)) /\ IsStation(Ingest(w, r))
           /\ Alike(final, Ingest(v, r), Ingest(w, r))
<1> DEFINE a == Before(v, r)
           b == Before(w, r)
           x == Ingest(v, r)
           y == Ingest(w, r)
<1>1. Counts(x, a, r) /\ Counts(y, b, r)
  BY IngestCounts
<1>2. IsStation(x) /\ IsStation(y) /\ x.known /\ y.known
  BY <1>1 DEF Counts
<1>3. CASE ~final
  <2>1. v = w
    BY <1>3, OverlaidParts DEF Alike
  <2> QED
    BY <1>2, <2>1 DEF Alike
<1>4. CASE final
  <2>1. a = b \/ /\ a.connection = b.connection /\ a.confirmed = b.confirmed
                 /\ a.rejected = b.rejected /\ a.trades = b.trades
    BY <1>4, AlikeParts DEF Before
  <2> HIDE DEF a, b, x, y
  <2>2. /\ x.connection = y.connection /\ x.confirmed = y.confirmed
        /\ x.rejected = y.rejected /\ x.trades = y.trades
    BY <1>1, <2>1 DEF Counts
  <2>3. FinalOf(x) = FinalOf(y)
    BY <2>2 DEF FinalOf
  <2>4. Overlaid(final, x) = Overlaid(final, y)
    BY <1>2, <1>4, <2>3, OverlaidParts
  <2> QED
    BY <1>2, <2>4 DEF Alike, x, y
<1> QED
  BY <1>3, <1>4

-----------------------------------------------------------------------------
(* Reading on top of two views that are alike *)

\* t is a state of reading: a view, an unfinished line, and whether there is
\* something new.
IsReading(t) ==
    /\ DOMAIN t = {"station", "partial", "news", "restarted"}
    /\ IsStation(t.station) /\ t.news \in BOOLEAN

\* A unit that ends a line which was kept from its beginning.
Completes(partial, u) ==
    \/ u.part = "whole" /\ partial = "none"
    \/ u.part = "tail" /\ partial = "head"

Unfinished(partial, u) ==
    IF u.part # "head" THEN "none"
    ELSE IF partial = "none" THEN "head" ELSE "junk"

\* What reading a unit does to each part.
LEMMA UnitParts ==
    ASSUME NEW t, IsReading(t), NEW u
    PROVE  LET n == IngestUnit(t, u)
           IN /\ IsReading(n) /\ n.partial = Unfinished(t.partial, u)
              /\ Completes(t.partial, u) =>
                    n.station = Ingest(t.station, u.rec) /\ n.news = TRUE
              /\ ~Completes(t.partial, u) =>
                    n.station = t.station /\ n.news = t.news
<1> DEFINE n == IngestUnit(t, u)
           read == [t EXCEPT !.station = Ingest(@, u.rec), !.partial = "none",
                             !.news = TRUE,
                             !.restarted = @ \/ u.rec.kind = "run_start"]
<1> SUFFICES /\ IsReading(n) /\ n.partial = Unfinished(t.partial, u)
             /\ Completes(t.partial, u) =>
                   n.station = Ingest(t.station, u.rec) /\ n.news = TRUE
             /\ ~Completes(t.partial, u) =>
                   n.station = t.station /\ n.news = t.news
  OBVIOUS
<1>1. IsStation(Ingest(t.station, u.rec))
  BY IngestCounts DEF Counts, IsReading
<1>2. DOMAIN t = {"station", "partial", "news", "restarted"}
  BY DEF IsReading
<1>3. CASE u.part = "head"
  <2>1. n = [t EXCEPT !.partial = IF t.partial = "none" THEN "head" ELSE "junk"]
    BY <1>3 DEF IngestUnit
  <2> HIDE DEF n
  <2> QED
    BY <1>2, <1>3, <2>1 DEF IsReading, Unfinished, Completes
<1>4. CASE Completes(t.partial, u)
  <2>1. n = read
    BY <1>4 DEF IngestUnit, Completes
  <2> HIDE DEF n
  <2>2. /\ DOMAIN n = {"station", "partial", "news", "restarted"}
        /\ n.station = Ingest(t.station, u.rec) /\ n.news = TRUE
        /\ n.partial = "none"
    BY <1>2, <2>1
  <2> QED
    BY <1>1, <1>4, <2>2 DEF IsReading, Unfinished, Completes
<1>5. CASE u.part # "head" /\ ~Completes(t.partial, u)
  <2>1. n = [t EXCEPT !.partial = "none"]
    BY <1>5 DEF IngestUnit, Completes
  <2> HIDE DEF n
  <2> QED
    BY <1>2, <1>5, <2>1 DEF IsReading, Unfinished
<1> QED
  BY <1>3, <1>4, <1>5

\* s and t are as far in their lines, and their views are alike.
Abreast(final, s, t) ==
    /\ IsReading(s) /\ IsReading(t)
    /\ s.partial = t.partial /\ Alike(final, s.station, t.station)

\* They stay abreast, and a view nothing was read into is as it was.
LEMMA UnitAbreast ==
    ASSUME NEW final \in BOOLEAN, NEW s, NEW t, Abreast(final, s, t),
           NEW first, ~s.news => s.station = first, NEW u
    PROVE  /\ Abreast(final, IngestUnit(s, u), IngestUnit(t, u))
           /\ ~IngestUnit(s, u).news => IngestUnit(s, u).station = first
<1> DEFINE x == IngestUnit(s, u)
           y == IngestUnit(t, u)
<1> SUFFICES Abreast(final, x, y) /\ (~x.news => x.station = first)
  OBVIOUS
<1>1. IsReading(x) /\ IsReading(y) /\ x.partial = y.partial
  BY UnitParts DEF Abreast
<1>2. s.partial = t.partial
  BY DEF Abreast
<1>3. CASE Completes(s.partial, u)
  <2>1. /\ x.station = Ingest(s.station, u.rec) /\ x.news = TRUE
        /\ y.station = Ingest(t.station, u.rec)
    BY <1>2, <1>3, UnitParts DEF Abreast
  <2> HIDE DEF x, y
  <2>2. Alike(final, x.station, y.station)
    BY <2>1, IngestAlike DEF Abreast, IsReading
  <2> QED
    BY <1>1, <2>1, <2>2 DEF Abreast
<1>4. CASE ~Completes(s.partial, u)
  <2>1. /\ x.station = s.station /\ x.news = s.news
        /\ y.station = t.station
    BY <1>2, <1>4, UnitParts DEF Abreast
  <2> HIDE DEF x, y
  <2> QED
    BY <1>1, <2>1 DEF Abreast
<1> QED
  BY <1>3, <1>4

LEMMA ReadAbreast ==
    ASSUME NEW final \in BOOLEAN, NEW s, NEW t, Abreast(final, s, t), ~s.news,
           NEW T, NEW u \in Seq(T), NEW x, NEW y,
           x = FoldLeft(IngestUnit, s, u), y = FoldLeft(IngestUnit, t, u)
    PROVE  /\ Abreast(final, x, y)
           /\ ~x.news => x.station = s.station
<1>1. PICK h : Steps(s, u, h) /\ x = h[Len(u)]
  BY FoldSteps
<1>2. PICK g : Steps(t, u, g) /\ y = g[Len(u)]
  BY FoldSteps
<1> DEFINE Fine(n) == /\ Abreast(final, h[n], g[n])
                      /\ ~h[n].news => h[n].station = s.station
           Bad == {n \in Nat : n \in 0..Len(u) /\ ~Fine(n)}
<1>3. Bad = {}
  <2> SUFFICES ASSUME Bad # {}
               PROVE  FALSE
    OBVIOUS
  <2>1. PICK n \in Bad : \A k \in Bad : n <= k
    BY LeastNumber
  <2>2. n # 0
    BY <1>1, <1>2, <2>1 DEF Steps
  <2>3. n \in 1..Len(u) /\ n - 1 \in Nat /\ n - 1 \in 0..Len(u)
    BY <2>1, <2>2
  <2>4. Fine(n - 1)
    BY <2>1, <2>3
  <2>5. h[n] = IngestUnit(h[n - 1], u[n]) /\ g[n] = IngestUnit(g[n - 1], u[n])
    BY <1>1, <1>2, <2>3 DEF Steps
  <2>6. Fine(n)
    <3> DEFINE a == h[n - 1]
               b == g[n - 1]
               r == u[n]
    <3>1. Abreast(final, a, b) /\ (~a.news => a.station = s.station)
      BY <2>4
    <3> HIDE DEF a, b, r
    <3>2. /\ Abreast(final, IngestUnit(a, r), IngestUnit(b, r))
          /\ ~IngestUnit(a, r).news => IngestUnit(a, r).station = s.station
      BY <3>1, UnitAbreast
    <3> QED
      BY <2>5, <3>2 DEF a, b, r
  <2> QED
    BY <2>1, <2>6
<1>4. Len(u) \in Nat /\ Len(u) \in 0..Len(u)
  OBVIOUS
<1>5. Fine(Len(u))
  BY <1>3, <1>4
<1> QED
  BY <1>1, <1>2, <1>5

-----------------------------------------------------------------------------
(* What processes write is a sequence of records *)

IsSeq(s) == \E T : s \in Seq(T)

LEMMA SeqParts ==
    ASSUME NEW s, IsSeq(s)
    PROVE  /\ Len(s) \in Nat /\ DOMAIN s = 1..Len(s)
           /\ \A e : IsSeq(Append(s, e))
           /\ s # <<>> => IsSeq(Tail(s))
           /\ \A from \in Nat : from > 0 => \A to \in 0..Len(s) : IsSeq(SubSeq(s, from, to))
<1>1. PICK T : s \in Seq(T)
  BY DEF IsSeq
<1>2. Len(s) \in Nat /\ DOMAIN s = 1..Len(s)
  BY <1>1
<1>3. ASSUME NEW e
      PROVE  IsSeq(Append(s, e))
  <2>1. s \in Seq(T \cup {e}) /\ e \in T \cup {e}
    BY <1>1
  <2>2. Append(s, e) \in Seq(T \cup {e})
    BY <2>1
  <2> QED
    BY <2>2 DEF IsSeq
<1>4. ASSUME s # <<>>
      PROVE  IsSeq(Tail(s))
  <2>1. Tail(s) \in Seq(T)
    BY <1>1, <1>4
  <2> QED
    BY <2>1 DEF IsSeq
<1>5. ASSUME NEW from \in Nat, from > 0, NEW to \in 0..Len(s)
      PROVE  IsSeq(SubSeq(s, from, to))
  <2>1. SubSeq(s, from, to) \in Seq(T)
    BY <1>1, <1>5
  <2> QED
    BY <2>1 DEF IsSeq
<1> QED
  BY <1>2, <1>3, <1>4, <1>5

\* Two sequences in a row, the second with an operator applied to each entry.
LEMMA SeqJoined ==
    ASSUME NEW s, IsSeq(s), NEW t, IsSeq(t)
    PROVE  /\ IsSeq(s \o t) /\ Len(s \o t) = Len(s) + Len(t)
           /\ \A n \in 0..Len(s) : SubSeq(s \o t, 1, n) = SubSeq(s, 1, n)
<1>1. PICK S : s \in Seq(S)
  BY DEF IsSeq
<1>2. PICK T : t \in Seq(T)
  BY DEF IsSeq
<1> DEFINE U == S \cup T
<1>3. s \in Seq(U) /\ t \in Seq(U)
  BY <1>1, <1>2
<1> HIDE DEF U
<1>4. s \o t \in Seq(U) /\ Len(s \o t) = Len(s) + Len(t)
  BY <1>3
<1>5. \A n \in 0..Len(s) : SubSeq(s \o t, 1, n) = SubSeq(s, 1, n)
  BY <1>3
<1> QED
  BY <1>4, <1>5 DEF IsSeq

IsProcess(p) == {"out", "pc", "signal"} \subseteq DOMAIN p /\ IsSeq(p.out)

LEMMA NothingWritten ==
    ASSUME NEW s, s = <<>>
    PROVE  IsSeq(s)
<1>1. s \in Seq({0})
  OBVIOUS
<1> QED
  BY <1>1 DEF IsSeq

LEMMA LogKeeps ==
    ASSUME NEW p, IsProcess(p), NEW r
    PROVE  IsProcess(Log(p, r))
BY SeqParts DEF IsProcess, Log

LEMMA StatusKeeps ==
    ASSUME NEW p, IsProcess(p), NEW s
    PROVE  IsProcess(StatusSet(p, s))
<1> DEFINE q == [p EXCEPT !.timeIn[p.status] = @ + p.now - p.since,
                          !.status = s, !.since = p.now]
<1>1. IsProcess(q)
  BY DEF IsProcess
<1> HIDE DEF q
<1>2. StatusSet(p, s) = IF s = p.status THEN p
                        ELSE Log(q, [kind |-> "status", at |-> p.now, status |-> s])
  BY DEF StatusSet, q
<1> QED
  BY <1>1, <1>2, LogKeeps

LEMMA EventKeeps ==
    ASSUME NEW p, IsProcess(p), NEW event, NEW category
    PROVE  IsProcess(ConnectionEvent(p, event, category))
BY LogKeeps DEF ConnectionEvent

\* What only touches other parts of a process.
LEMMA PartsKeep ==
    ASSUME NEW p, IsProcess(p)
    PROVE  /\ \A d : IsProcess(Elapse(p, d))
           /\ \A s : IsProcess([p EXCEPT !.out = <<>>])
           /\ IsProcess(Dead(p)) /\ IsProcess(RecordOutcome(p))
           /\ IsProcess(IF p.made THEN [p EXCEPT !.attempt = 0] ELSE p)
<1>1. ASSUME NEW d
      PROVE  IsProcess(Elapse(p, d))
  BY DEF Elapse, IsProcess
<1>2. IsProcess([p EXCEPT !.out = <<>>])
  <2> DEFINE q == [p EXCEPT !.out = <<>>]
  <2>1. {"out", "pc", "signal"} \subseteq DOMAIN q /\ q.out = <<>>
    BY DEF IsProcess
  <2> QED
    BY <2>1, NothingWritten DEF IsProcess
<1>3. IsProcess(Dead(p))
  <2> DEFINE q == Dead(p)
  <2>1. {"out", "pc", "signal"} \subseteq DOMAIN q /\ q.out = <<>>
    BY DEF IsProcess, Dead
  <2> QED
    BY <2>1, NothingWritten DEF IsProcess
<1>4. IsProcess(RecordOutcome(p))
  BY DEF IsProcess, RecordOutcome
<1>5. IsProcess(IF p.made THEN [p EXCEPT !.attempt = 0] ELSE p)
  BY DEF IsProcess
<1> QED
  BY <1>1, <1>2, <1>3, <1>4, <1>5

LEMMA NewProcess ==
    ASSUME NEW pc
    PROVE  IsProcess(Process(pc))
<1> DEFINE p == Process(pc)
<1>1. {"out", "pc", "signal"} \subseteq DOMAIN p /\ p.out = <<>>
  BY DEF Process
<1> QED
  BY <1>1, NothingWritten DEF IsProcess

LEMMA CheckKeeps ==
    ASSUME NEW p, IsProcess(p)
    PROVE  IsProcess(CheckStale(p))
BY StatusKeeps DEF CheckStale

LEMMA OnStateKeeps ==
    ASSUME NEW p, IsProcess(p), NEW view
    PROVE  IsProcess(OnState(p, view))
<1>1. IsProcess(StatusSet(p, StatusOf(view.phase)))
  BY StatusKeeps
<1> QED
  BY <1>1 DEF OnState, IsProcess

LEMMA RetryKeeps ==
    ASSUME NEW p, IsProcess(p)
    PROVE  IsProcess(Retry(p))
<1> DEFINE q == ConnectionEvent(StatusSet(p, "disconnected"), "reconnecting", "none")
<1>1. IsProcess(q)
  BY StatusKeeps, EventKeeps
<1> HIDE DEF q
<1>2. IsProcess([q EXCEPT !.pc = "backoff", !.link = "none", !.view = NoView, !.fresh = FALSE])
  BY <1>1 DEF IsProcess
<1> QED
  BY <1>2 DEF Retry, q

LEMMA RaisesKeeps ==
    ASSUME NEW p, IsProcess(p), NEW cause
    PROVE  IsProcess(Raises(p, cause))
<1> DEFINE kind == FailureKind(cause)
           q == ConnectionEvent(StatusSet(p, "disconnected"), "disconnected", kind)
           r == ConnectionEvent(StatusSet(p, "disconnected"), "failed", kind)
<1>1. IsProcess(q) /\ IsProcess(r)
  BY StatusKeeps, EventKeeps
<1> HIDE DEF kind, q, r
<1>2. IsProcess(Retry(q))
  BY <1>1, RetryKeeps
<1>3. IsProcess([r EXCEPT !.pc = "ending", !.exit = ExitCode(kind)])
  BY <1>1 DEF IsProcess
<1>4. Raises(p, cause) = IF kind \in Retryable THEN Retry(q)
                         ELSE [r EXCEPT !.pc = "ending", !.exit = ExitCode(kind)]
  BY DEF Raises, Diagnosed, kind, q, r
<1> QED
  BY <1>2, <1>3, <1>4

LEMMA AbortsKeeps ==
    ASSUME NEW p, IsProcess(p)
    PROVE  IsProcess(Aborts(p)) /\ IsProcess(Breaks(p))
<1> DEFINE q == ConnectionEvent(StatusSet(p, "disconnected"), "closed", "protocol")
           r == IF p.made THEN [p EXCEPT !.attempt = 0] ELSE p
<1>1. IsProcess(q) /\ IsProcess(r)
  BY StatusKeeps, EventKeeps, PartsKeep
<1>2. IsProcess(Retry(r))
  BY <1>1, RetryKeeps
<1> HIDE DEF q, r
<1>3. IsProcess([q EXCEPT !.pc = "ending"])
  BY <1>1 DEF IsProcess
<1> QED
  BY <1>2, <1>3 DEF Aborts, Breaks, q, r

LEMMA RecordKeeps ==
    ASSUME NEW p, IsProcess(p), NEW confirmed
    PROVE  IsProcess(CommandRecord(p, confirmed))
BY LogKeeps DEF CommandRecord

LEMMA ContinuesKeeps ==
    ASSUME NEW p, IsProcess(p)
    PROVE  IsProcess(Continues(p))
<1> DEFINE q == ConnectionEvent(p, "closed", "none")
<1>1. IsProcess(q)
  BY EventKeeps
<1> HIDE DEF q
<1>2. IsProcess([q EXCEPT !.pc = "ending", !.attempt = 0])
  BY <1>1 DEF IsProcess
<1>3. IsProcess([p EXCEPT !.pc = "watch"])
  BY DEF IsProcess
<1> QED
  BY <1>2, <1>3 DEF Continues, q

LEMMA DecisionKeeps ==
    ASSUME NEW p, IsProcess(p), NEW act
    PROVE  IsProcess(LogDecision(p, act))
<1> DEFINE q == [p EXCEPT !.logged = p.snap.tick, !.count = @ + 1, !.seen = p.snap.trades]
<1>1. IsProcess(q)
  BY DEF IsProcess
<1> HIDE DEF q
<1>2. \A r : IsProcess(Log(q, r))
  BY <1>1, LogKeeps
<1> QED
  BY <1>2 DEF LogDecision, q

LEMMA ToldKeeps ==
    ASSUME NEW p, IsProcess(p)
    PROVE  IsProcess(Told(p))
<1>1. IsProcess(Raises(p, "closed"))
  BY RaisesKeeps
<1>2. IsProcess(Raises(CommandRecord(p, FALSE), "closed"))
  BY RaisesKeeps, RecordKeeps
<1>3. IsProcess([p EXCEPT !.link = "dead"])
  BY DEF IsProcess
<1> QED
  BY <1>1, <1>2, <1>3, AbortsKeeps DEF Told

-----------------------------------------------------------------------------
(* Files grow, are moved aside, and are made anew with another inode *)

IsFile(f) ==
    /\ DOMAIN f = {"inode", "next", "units"}
    /\ f.inode \in Nat /\ f.next \in Nat /\ f.inode < f.next
    /\ IsSeq(f.units)

\* g begins with all that f has.
Extends(f, g) ==
    /\ Len(f.units) <= Len(g.units)
    /\ \A n \in 0..Len(f.units) : SubSeq(g.units, 1, n) = SubSeq(f.units, 1, n)

FileMoves(f, g) ==
    /\ IsFile(g) /\ f.next <= g.next
    /\ \/ g.inode = f.inode /\ Extends(f, g)
       \/ g.inode = 0
       \/ g.inode = f.next

LEMMA FileKept ==
    ASSUME NEW f, IsFile(f)
    PROVE  FileMoves(f, f)
<1>1. Len(f.units) \in Nat
  BY SeqParts DEF IsFile
<1>2. Extends(f, f)
  BY <1>1 DEF Extends
<1> QED
  BY <1>2 DEF FileMoves, IsFile

LEMMA FileJoined ==
    ASSUME NEW f, IsFile(f), NEW t, IsSeq(t)
    PROVE  FileMoves(f, [f EXCEPT !.units = @ \o t])
<1> DEFINE g == [f EXCEPT !.units = @ \o t]
<1> SUFFICES FileMoves(f, g)
  OBVIOUS
<1>1. /\ DOMAIN g = {"inode", "next", "units"} /\ g.inode = f.inode
      /\ g.next = f.next /\ g.units = f.units \o t
  BY DEF IsFile
<1> HIDE DEF g
<1>2. /\ IsSeq(g.units) /\ Len(g.units) = Len(f.units) + Len(t)
      /\ \A n \in 0..Len(f.units) : SubSeq(g.units, 1, n) = SubSeq(f.units, 1, n)
  BY <1>1, SeqJoined DEF IsFile
<1>3. Len(f.units) \in Nat /\ Len(t) \in Nat
  BY SeqParts DEF IsFile
<1>4. Extends(f, g)
  BY <1>2, <1>3 DEF Extends
<1> QED
  BY <1>1, <1>2, <1>4 DEF FileMoves, IsFile

LEMMA FileAppended ==
    ASSUME NEW f, IsFile(f), NEW e
    PROVE  FileMoves(f, [f EXCEPT !.units = Append(@, e)])
<1> DEFINE t == <<e>>
<1>1. t \in Seq({e}) /\ Append(f.units, e) = f.units \o t
  <2>1. PICK T : f.units \in Seq(T)
    BY DEF IsFile, IsSeq
  <2> QED
    BY <2>1
<1> HIDE DEF t
<1>2. IsSeq(t)
  BY <1>1 DEF IsSeq
<1>3. [f EXCEPT !.units = Append(@, e)] = [f EXCEPT !.units = @ \o t]
  BY <1>1 DEF IsFile
<1> QED
  BY <1>2, <1>3, FileJoined

LEMMA FileMovedAside ==
    ASSUME NEW f, IsFile(f)
    PROVE  FileMoves(f, [f EXCEPT !.inode = 0, !.units = <<>>])
<1> DEFINE g == [f EXCEPT !.inode = 0, !.units = <<>>]
<1> SUFFICES FileMoves(f, g)
  OBVIOUS
<1>1. /\ DOMAIN g = {"inode", "next", "units"} /\ g.inode = 0
      /\ g.next = f.next /\ g.units = <<>>
  BY DEF IsFile
<1> HIDE DEF g
<1>2. IsSeq(g.units)
  BY <1>1, NothingWritten
<1> QED
  BY <1>1, <1>2 DEF FileMoves, IsFile

LEMMA FileMadeAnew ==
    ASSUME NEW f, IsFile(f)
    PROVE  FileMoves(f, Rewritten(f))
<1>1. CASE Exists(f)
  BY <1>1, FileKept DEF Rewritten
<1>2. CASE ~Exists(f)
  <2> DEFINE g == [f EXCEPT !.inode = f.next, !.next = f.next + 1]
  <2>1. /\ DOMAIN g = {"inode", "next", "units"} /\ g.inode = f.next
        /\ g.next = f.next + 1 /\ g.units = f.units
    BY DEF IsFile
  <2>2. Rewritten(f) = g
    BY <1>2 DEF Rewritten
  <2> HIDE DEF g
  <2> QED
    BY <2>1, <2>2 DEF FileMoves, IsFile
<1> QED
  BY <1>1, <1>2

Orderly ==
    /\ DOMAIN cl = Clients /\ DOMAIN file = Clients
    /\ \A c \in Clients : IsProcess(cl[c]) /\ IsFile(file[c])

\* A step that does to the files what their writers may do.
FilesMove ==
    /\ setup' = setup /\ Orderly'
    /\ \A c \in Clients : FileMoves(file[c], file'[c])

\* One process is another one, and one file has moved.
LEMMA OneMoves ==
    ASSUME Orderly, setup' = setup, NEW c \in Clients, NEW p, IsProcess(p),
           cl' = [cl EXCEPT ![c] = p], NEW g, FileMoves(file[c], g),
           file' = [file EXCEPT ![c] = g]
    PROVE  FilesMove
<1>1. \A d \in Clients : IsProcess(cl[d]) /\ IsFile(file[d])
  BY DEF Orderly
<1>2. DOMAIN cl' = Clients /\ DOMAIN file' = Clients
  BY DEF Orderly
<1>3. \A d \in Clients : cl'[d] = IF d = c THEN p ELSE cl[d]
  BY DEF Orderly
<1>4. \A d \in Clients : file'[d] = IF d = c THEN g ELSE file[d]
  BY DEF Orderly
<1>5. \A d \in Clients : FileMoves(file[d], file'[d])
  BY <1>1, <1>4, FileKept
<1>6. \A d \in Clients : IsProcess(cl'[d]) /\ IsFile(file'[d])
  BY <1>1, <1>3, <1>5 DEF FileMoves
<1> QED
  BY <1>2, <1>5, <1>6 DEF FilesMove, Orderly

\* No file has moved.
LEMMA NoneMoves ==
    ASSUME Orderly, setup' = setup, file' = file,
           DOMAIN cl' = Clients, \A c \in Clients : IsProcess(cl'[c])
    PROVE  FilesMove
BY FileKept DEF FilesMove, Orderly

LEMMA OneProcess ==
    ASSUME Orderly, setup' = setup, file' = file, NEW c \in Clients, NEW p,
           IsProcess(p), cl' = [cl EXCEPT ![c] = p]
    PROVE  FilesMove
<1>1. \A d \in Clients : cl'[d] = IF d = c THEN p ELSE cl[d]
  BY DEF Orderly
<1>2. DOMAIN cl' = Clients /\ \A d \in Clients : IsProcess(cl'[d])
  BY <1>1 DEF Orderly
<1> QED
  BY <1>2, NoneMoves

LEMMA PutsMoves ==
    ASSUME Orderly, setup' = setup, NEW c \in Clients, NEW p, IsProcess(p),
           Puts(c, p)
    PROVE  FilesMove
<1>1. CASE setup.shared
  BY <1>1, OneProcess DEF Puts
<1>2. CASE ~setup.shared
  <2> DEFINE q == [p EXCEPT !.out = <<>>]
             t == [i \in DOMAIN p.out |-> [rec |-> p.out[i], part |-> "whole"]]
             g == [file[c] EXCEPT !.units = @ \o t]
  <2>1. cl' = [cl EXCEPT ![c] = q] /\ file' = [file EXCEPT ![c].units = @ \o t]
    BY <1>2 DEF Puts
  <2>2. IsSeq(t)
    <3>1. DOMAIN p.out = 1..Len(p.out) /\ Len(p.out) \in Nat
      BY SeqParts DEF IsProcess
    <3> DEFINE T == {t[i] : i \in 1..Len(p.out)}
    <3>2. t \in Seq(T)
      <4>1. t \in [1..Len(p.out) -> T]
        BY <3>1
      <4> QED
        BY <3>1, <4>1
    <3> HIDE DEF t
    <3> QED
      BY <3>2 DEF IsSeq
  <2>3. IsProcess(q)
    BY PartsKeep
  <2>4. IsFile(file[c])
    BY DEF Orderly
  <2> HIDE DEF t, q
  <2>5. FileMoves(file[c], g)
    BY <2>2, <2>4, FileJoined
  <2>6. file' = [file EXCEPT ![c] = g]
    BY <2>1
  <2> HIDE DEF g
  <2> QED
    BY <2>1, <2>3, <2>5, <2>6, OneMoves
<1> QED
  BY <1>1, <1>2

LEMMA BecomesMoves ==
    ASSUME Orderly, NEW c \in Clients, NEW p, IsProcess(p), Becomes(c, p)
    PROVE  FilesMove
BY PutsMoves DEF Becomes

\* p, but for parts other than what it writes.
Turned(p, q) == DOMAIN q = DOMAIN p /\ q.out = p.out

LEMMA TurnedKeeps ==
    ASSUME NEW p, IsProcess(p), NEW q, Turned(p, q)
    PROVE  IsProcess(q)
BY DEF Turned, IsProcess

LEMMA WriteMoves ==
    ASSUME Orderly, NEW c \in Clients, WriteLine(c)
    PROVE  FilesMove
<1>1. PICK r, part :
          /\ file' = [file EXCEPT ![c].units = Append(@, [rec |-> r, part |-> part])]
          /\ cl' = IF part = "head" THEN cl ELSE [cl EXCEPT ![c].out = Tail(@)]
          /\ cl[c].out # <<>> /\ setup' = setup
  BY DEF WriteLine
<1> DEFINE e == [rec |-> r, part |-> part]
           f == file[c]
           g == [f EXCEPT !.units = Append(@, e)]
           p == cl[c]
           q == [p EXCEPT !.out = Tail(@)]
<1>2. IsProcess(p) /\ IsFile(f) /\ DOMAIN cl = Clients
  BY DEF Orderly
<1>3. IsProcess(q)
  <2>1. {"out", "pc", "signal"} \subseteq DOMAIN q /\ q.out = Tail(p.out)
    BY <1>2 DEF IsProcess
  <2>2. IsSeq(Tail(p.out))
    BY <1>1, <1>2, SeqParts DEF IsProcess
  <2> QED
    BY <2>1, <2>2 DEF IsProcess
<1>4. FileMoves(f, g)
  BY <1>2, FileAppended
<1>5. file' = [file EXCEPT ![c] = g] /\ setup' = setup
  BY <1>1
<1>6. cl' = cl \/ cl' = [cl EXCEPT ![c] = q]
  BY <1>1
<1>7. CASE cl' = cl
  <2>1. \A d \in Clients : IsProcess(cl[d]) /\ IsFile(file[d])
    BY DEF Orderly
  <2>2. DOMAIN cl' = Clients /\ DOMAIN file' = Clients
    BY <1>5, <1>7 DEF Orderly
  <2> HIDE DEF f, g
  <2>3. \A d \in Clients : file'[d] = IF d = c THEN g ELSE file[d]
    BY <1>5 DEF Orderly
  <2>4. \A d \in Clients : FileMoves(file[d], file'[d])
    BY <1>4, <2>1, <2>3, FileKept DEF f
  <2> QED
    BY <1>5, <1>7, <2>1, <2>2, <2>4 DEF FilesMove, Orderly, FileMoves
<1>8. CASE cl' = [cl EXCEPT ![c] = q]
  <2> HIDE DEF f, g, p, q
  <2> QED
    BY <1>3, <1>4, <1>5, <1>8, OneMoves DEF f
<1> QED
  BY <1>6, <1>7, <1>8

\* Other parts of a process may change in any way.
LEMMA SomePartsKeep ==
    ASSUME NEW p, IsProcess(p)
    PROVE  /\ \A pc : IsProcess([p EXCEPT !.pc = pc])
           /\ \A pc : IsProcess([p EXCEPT !.pc = pc, !.link = "up"])
           /\ \A pc : IsProcess([p EXCEPT !.pc = pc, !.link = "none"])
           /\ \A pc : IsProcess([p EXCEPT !.pc = pc, !.made = FALSE])
           /\ \A view : IsProcess([p EXCEPT !.view = view, !.fresh = TRUE])
           /\ \A pc, quota : IsProcess([p EXCEPT !.pc = pc, !.quota = quota])
           /\ \A pc, exit : IsProcess([p EXCEPT !.pc = pc, !.exit = exit,
                                                !.signal = FALSE])
           /\ \A pc, sum, exit : IsProcess([p EXCEPT !.pc = pc, !.summary = sum,
                                                     !.exit = exit])
           /\ \A signal : IsProcess([p EXCEPT !.signal = signal])
BY DEF IsProcess

LEMMA OpeningMoves ==
    ASSUME Orderly, NEW c \in Clients,
           \/ Rotate(c) \/ CreateLog(c) \/ Begins(c) \/ Connecting(c) \/ Opened(c)
           \/ OpenFails(c)
    PROVE  FilesMove
<1> DEFINE p == cl[c]
           f == file[c]
<1>1. IsProcess(p) /\ IsFile(f)
  BY DEF Orderly
<1>2. CASE Rotate(c)
  <2> DEFINE q == [p EXCEPT !.pc = "create"]
             g == IF f.units = <<>> THEN f ELSE [f EXCEPT !.inode = 0, !.units = <<>>]
  <2>1. FileMoves(f, g) /\ IsProcess(q)
    BY <1>1, FileKept, FileMovedAside, SomePartsKeep
  <2>2. setup' = setup /\ cl' = [cl EXCEPT ![c] = q]
    BY <1>2 DEF Rotate
  <2>3. CASE f.units = <<>>
    <3>1. file' = file
      BY <1>2, <2>3 DEF Rotate
    <3> QED
      BY <2>1, <2>2, <3>1, OneProcess
  <2>4. CASE f.units # <<>>
    <3>1. file' = [file EXCEPT ![c] = g]
      BY <1>2, <2>4 DEF Rotate
    <3> QED
      BY <2>1, <2>2, <3>1, OneMoves
  <2> QED
    BY <2>3, <2>4
<1>3. CASE CreateLog(c)
  <2> DEFINE q == [p EXCEPT !.pc = "begin"]
  <2>1. FileMoves(f, Rewritten(f)) /\ IsProcess(q)
    BY <1>1, FileMadeAnew, SomePartsKeep
  <2>2. /\ setup' = setup /\ cl' = [cl EXCEPT ![c] = q]
        /\ file' = [file EXCEPT ![c] = Rewritten(f)]
    BY <1>3 DEF CreateLog
  <2> QED
    BY <2>1, <2>2, OneMoves
<1>4. CASE Begins(c)
  <2> DEFINE q == Log(RunStart(p), [kind |-> "status", at |-> p.now, status |-> "starting"])
  <2>1. IsProcess(q)
    BY <1>1, LogKeeps DEF RunStart
  <2> HIDE DEF q
  <2>2. IsProcess([q EXCEPT !.pc = "connect"])
    BY <2>1, SomePartsKeep
  <2>3. IsProcess(Starts(p))
    BY <2>2 DEF Starts, q
  <2> QED
    BY <1>4, <2>3, BecomesMoves DEF Begins
<1>5. CASE Connecting(c)
  <2> DEFINE a == [p EXCEPT !.attempt = @ + 1]
             q == ConnectionEvent(StatusSet(a, "connecting"), "connecting", "none")
             r == [q EXCEPT !.pc = "opening", !.made = FALSE]
  <2>1. IsProcess(a)
    BY <1>1 DEF IsProcess
  <2> HIDE DEF a
  <2>2. IsProcess(q)
    BY <2>1, StatusKeeps, EventKeeps
  <2> HIDE DEF q
  <2>3. IsProcess(r)
    BY <2>2, SomePartsKeep
  <2>4. setup' = setup /\ Puts(c, r)
    BY <1>5 DEF Connecting, r, q, a
  <2> HIDE DEF r
  <2> QED
    BY <2>3, <2>4, PutsMoves
<1>6. CASE Opened(c)
  <2> DEFINE q == ConnectionEvent(StatusSet(Elapse(p, 1), "connected"), "connected", "none")
             r == [q EXCEPT !.pc = "first", !.link = "up"]
  <2>1. IsProcess(Elapse(p, 1))
    BY <1>1, PartsKeep
  <2>2. IsProcess(q)
    BY <2>1, StatusKeeps, EventKeeps
  <2> HIDE DEF q
  <2>3. IsProcess(r)
    BY <2>2, SomePartsKeep
  <2>4. Becomes(c, r)
    BY <1>6 DEF Opened, r, q
  <2> HIDE DEF r
  <2> QED
    BY <2>3, <2>4, BecomesMoves
<1>7. CASE OpenFails(c)
  <2>1. PICK cause : Becomes(c, Raises(Elapse(p, 1), cause))
    BY <1>7 DEF OpenFails
  <2>2. IsProcess(Raises(Elapse(p, 1), cause))
    BY <1>1, PartsKeep, RaisesKeeps
  <2> QED
    BY <2>1, <2>2, BecomesMoves
<1> QED
  BY <1>2, <1>3, <1>4, <1>5, <1>6, <1>7

LEMMA ConnectedMoves ==
    ASSUME Orderly, NEW c \in Clients,
           \/ Deliver(c) \/ FirstState(c) \/ Readiness(c) \/ Backoff(c)
           \/ TakeState(c) \/ Quiet(c)
    PROVE  FilesMove
<1> DEFINE p == cl[c]
<1>1. IsProcess(p)
  BY DEF Orderly
<1>2. CASE Deliver(c)
  <2>1. IsProcess([p EXCEPT !.view = View(c), !.fresh = TRUE])
    BY <1>1, SomePartsKeep
  <2> QED
    BY <1>2, <2>1, BecomesMoves DEF Deliver
<1>3. CASE FirstState(c)
  <2> DEFINE q == StatusSet(p, "authenticated")
  <2>1. IsProcess(q)
    BY <1>1, StatusKeeps
  <2> HIDE DEF q
  <2>2. IsProcess([q EXCEPT !.pc = "ready"])
    BY <2>1, SomePartsKeep
  <2>3. Becomes(c, [q EXCEPT !.pc = "ready"])
    BY <1>3 DEF FirstState, q
  <2> QED
    BY <2>2, <2>3, BecomesMoves
<1>4. CASE Readiness(c)
  <2> DEFINE q == StatusSet(p, "synchronized")
             r == [q EXCEPT !.pc = "watch"]
  <2>1. IsProcess(q)
    BY <1>1, StatusKeeps
  <2> HIDE DEF q
  <2>2. IsProcess(r) /\ IsProcess(Aborts(p))
    BY <1>1, <2>1, SomePartsKeep, AbortsKeeps
  <2>3. setup' = setup /\ (Puts(c, r) \/ Puts(c, Aborts(p)))
    BY <1>4 DEF Readiness, r, q
  <2> HIDE DEF r
  <2> QED
    BY <2>2, <2>3, PutsMoves
<1>5. CASE Backoff(c)
  <2> DEFINE q == Elapse(p, BackoffDelay(p.attempt))
  <2>1. IsProcess(q)
    BY <1>1, PartsKeep
  <2> HIDE DEF q
  <2>2. IsProcess([q EXCEPT !.pc = "connect"])
    BY <2>1, SomePartsKeep
  <2>3. Becomes(c, [q EXCEPT !.pc = "connect"])
    BY <1>5 DEF Backoff, q
  <2> QED
    BY <2>2, <2>3, BecomesMoves
<1>6. CASE TakeState(c)
  <2> DEFINE q == OnState(p, p.view)
             r == [q EXCEPT !.pc = "think", !.snap = cl[c].view, !.fresh = FALSE,
                            !.final = cl[c].view.phase,
                            !.may = /\ setup.answers # {} /\ cl[c].view.phase = "RUNNING"
                                    /\ cl[c].link = "up"
                                    /\ cl[c].quota < cl[c].view.tick]
  <2>1. IsProcess(q)
    BY <1>1, OnStateKeeps
  <2>2. Becomes(c, r)
    BY <1>6 DEF TakeState
  <2> HIDE DEF q
  <2>3. IsProcess(r)
    <3>1. DOMAIN r = DOMAIN q
      OBVIOUS
    <3>2. "out" \in DOMAIN q => r.out = q.out
      OBVIOUS
    <3> HIDE DEF r
    <3> QED
      BY <2>1, <3>1, <3>2 DEF IsProcess
  <2> HIDE DEF r
  <2> QED
    BY <2>2, <2>3, BecomesMoves
<1>7. CASE Quiet(c)
  <2>1. IsProcess(CheckStale(Elapse(p, 1)))
    BY <1>1, PartsKeep, CheckKeeps
  <2>2. setup' = setup /\ Puts(c, CheckStale(Elapse(p, 1)))
    BY <1>7 DEF Quiet
  <2> QED
    BY <2>1, <2>2, PutsMoves
<1> QED
  BY <1>2, <1>3, <1>4, <1>5, <1>6, <1>7

LEMMA CommandMoves ==
    ASSUME Orderly, NEW c \in Clients,
           \/ \E act \in BOOLEAN : Decide(c, act)
           \/ Blocked(c) \/ Send(c) \/ Confirmed(c)
           \/ \E code \in {"OK", "REFUSED", "PROTOCOL"} : Answer(c, code)
    PROVE  FilesMove
<1> DEFINE p == cl[c]
<1>1. IsProcess(p)
  BY DEF Orderly
<1>2. ASSUME NEW act \in BOOLEAN, Decide(c, act)
      PROVE  FilesMove
  <2> DEFINE q == [LogDecision(p, act) EXCEPT !.made = TRUE, !.stats.decisions = @ + 1]
             cmd == [id |-> IF IsLogged(cl[c], act) THEN q.count ELSE 0,
                     answer |-> "NO_ANSWER", seq |-> 0, txn |-> 0]
             r == [q EXCEPT !.pc = "command", !.cmd = cmd]
  <2>1. Becomes(c, IF act THEN r ELSE Continues(q))
    BY <1>2 DEF Decide
  <2>2. IsProcess(q)
    <3> DEFINE o == LogDecision(p, act)
    <3>1. IsProcess(o)
      BY <1>1, DecisionKeeps
    <3> HIDE DEF o
    <3>2. IsProcess([o EXCEPT !.made = TRUE, !.stats.decisions = @ + 1])
      BY <3>1 DEF IsProcess
    <3> QED
      BY <3>2 DEF o
  <2> HIDE DEF q
  <2>3. IsProcess(Continues(q))
    BY <2>2, ContinuesKeeps
  <2> HIDE DEF cmd
  <2>4. IsProcess(r)
    BY <2>2 DEF IsProcess
  <2> HIDE DEF r
  <2>5. IsProcess(IF act THEN r ELSE Continues(q))
    BY <2>3, <2>4
  <2> QED
    BY <2>1, <2>5, BecomesMoves
<1>3. CASE Blocked(c)
  <2>1. IsProcess(Continues(CommandRecord(p, FALSE)))
    BY <1>1, RecordKeeps, ContinuesKeeps
  <2> QED
    BY <1>3, <2>1, BecomesMoves DEF Blocked
<1>4. CASE Send(c)
  <2>1. IsProcess([p EXCEPT !.pc = "answer", !.quota = p.view.tick])
    BY <1>1, SomePartsKeep
  <2> QED
    BY <1>4, <2>1, BecomesMoves DEF Send
<1>5. CASE Confirmed(c)
  <2>1. IsProcess(Continues(CommandRecord(RecordOutcome(p), TRUE)))
    BY <1>1, PartsKeep, RecordKeeps, ContinuesKeeps
  <2> QED
    BY <1>5, <2>1, BecomesMoves DEF Confirmed
<1>6. ASSUME NEW code \in {"OK", "REFUSED", "PROTOCOL"}, Answer(c, code)
      PROVE  FilesMove
  <2> DEFINE q == [cl[c] EXCEPT !.cmd.answer = code, !.cmd.seq = srv.seq + 1,
                               !.cmd.txn = IF code = "OK" THEN srv.trades[c] + 1 ELSE 0]
             z == IF code = "PROTOCOL" THEN Continues(CommandRecord(RecordOutcome(q), FALSE))
                  ELSE [q EXCEPT !.pc = "confirm"]
  <2>1. Puts(c, z) /\ setup' = setup
    BY <1>6 DEF Answer
  <2>2. IsProcess(q)
    <3>1. DOMAIN q = DOMAIN p /\ ("out" \in DOMAIN p => q.out = p.out)
      OBVIOUS
    <3> HIDE DEF q
    <3> QED
      BY <1>1, <3>1 DEF IsProcess
  <2> HIDE DEF q
  <2>3. IsProcess(Continues(CommandRecord(RecordOutcome(q), FALSE)))
    BY <2>2, PartsKeep, RecordKeeps, ContinuesKeeps
  <2>4. IsProcess([q EXCEPT !.pc = "confirm"])
    BY <2>2, SomePartsKeep
  <2>5. IsProcess(z)
    BY <2>3, <2>4
  <2> HIDE DEF z
  <2> QED
    BY <2>1, <2>5, PutsMoves
<1> QED
  BY <1>2, <1>3, <1>4, <1>5, <1>6

LEMMA EndMoves ==
    ASSUME Orderly, NEW c \in Clients,
           \/ LinkClosed(c) \/ Ending(c) \/ Reports(c) \/ Interrupted(c)
           \/ Killed(c) \/ StartedByHand(c)
    PROVE  FilesMove
<1> DEFINE p == cl[c]
<1>1. IsProcess(p)
  BY DEF Orderly
<1>2. CASE LinkClosed(c)
  <2>1. setup' = setup /\ Puts(c, Told(p))
    BY <1>2 DEF LinkClosed
  <2> QED
    BY <1>1, <2>1, ToldKeeps, PutsMoves
<1>3. CASE Ending(c)
  <2> DEFINE r == [kind |-> "run_end", at |-> p.now, seconds |-> Durations(p),
                   final |-> p.status, decisions |-> p.stats.decisions,
                   sent |-> p.stats.sent, ok |-> p.stats.ok,
                   rejected |-> p.stats.rejected]
             q == Log(p, r)
  <2>1. IsProcess(q)
    BY <1>1, LogKeeps
  <2>2. q = RunEnd(p)
    BY DEF RunEnd
  <2> HIDE DEF q
  <2>3. IsProcess([q EXCEPT !.pc = "reports", !.link = "none"])
    BY <2>1, SomePartsKeep
  <2>4. Becomes(c, [q EXCEPT !.pc = "reports", !.link = "none"])
    BY <1>3, <2>2 DEF Ending
  <2> QED
    BY <2>3, <2>4, BecomesMoves
<1>4. CASE Reports(c)
  <2> DEFINE sum == Written(file[c].units)
             exit == CASE p.exit # "none" -> p.exit
                       [] p.exit = "none" /\ p.final = "NONE" -> "1"
                       [] OTHER -> "0"
             q == [p EXCEPT !.pc = "done", !.summary = sum, !.exit = exit]
  <2>1. Becomes(c, q)
    BY <1>4 DEF Reports
  <2> HIDE DEF sum, exit
  <2>2. IsProcess(q)
    BY <1>1, SomePartsKeep
  <2> HIDE DEF q
  <2> QED
    BY <2>1, <2>2, BecomesMoves
<1>5. CASE Interrupted(c)
  <2> DEFINE q == IF p.pc \in {"answer", "confirm"} THEN CommandRecord(p, FALSE) ELSE p
             pc == IF q.pc \in {"rotate", "create", "begin"} THEN "done" ELSE "ending"
             r == [q EXCEPT !.pc = pc, !.exit = "130", !.signal = FALSE]
  <2>1. Becomes(c, r)
    BY <1>5 DEF Interrupted
  <2>2. IsProcess(q)
    BY <1>1, RecordKeeps
  <2> HIDE DEF q, pc
  <2>3. IsProcess(r)
    BY <2>2, SomePartsKeep
  <2> HIDE DEF r
  <2> QED
    BY <2>1, <2>3, BecomesMoves
<1>6. CASE Killed(c)
  <2>1. /\ setup' = setup /\ file' = file /\ cl' = [cl EXCEPT ![c] = Dead(p)]
    BY <1>6 DEF Killed
  <2> QED
    BY <1>1, <2>1, PartsKeep, OneProcess
<1>7. CASE StartedByHand(c)
  <2>1. setup' = setup /\ file' = file /\ cl' = [cl EXCEPT ![c] = Process("rotate")]
    BY <1>7 DEF StartedByHand
  <2> QED
    BY <2>1, NewProcess, OneProcess
<1> QED
  BY <1>2, <1>3, <1>4, <1>5, <1>6, <1>7

LEMMA ClientMoves ==
    ASSUME Orderly, NEW c \in Clients, ClientStep(c) \/ LinkClosed(c) \/ Mishap(c)
    PROVE  FilesMove
BY WriteMoves, OpeningMoves, ConnectedMoves, CommandMoves, EndMoves
   DEF ClientStep, Mishap

\* What neither writes a log nor reads one.
Apart == setup' = setup /\ cl' = cl /\ file' = file

LEMMA ApartMoves ==
    ASSUME Orderly, Apart
    PROVE  FilesMove
BY NoneMoves DEF Apart, Orderly

LEMMA ServerMoves ==
    ASSUME Orderly, ServerNext \/ ServerFails
    PROVE  FilesMove
<1>1. Apart
  BY DEF ServerNext, ServerFails, ServerStarts, StartRun, ServerTick, ReportWritten,
         ServerExits, ServerInterrupted, Apart
<1> QED
  BY <1>1, ApartMoves

LEMMA MainMoves ==
    ASSUME Orderly, MainStep
    PROVE  FilesMove /\ feed' = feed
<1>1. CASE \E c \in Clients : Launch(c)
  <2>1. PICK c \in Clients : Launch(c)
    BY <1>1
  <2>2. /\ setup' = setup /\ file' = file /\ feed' = feed
        /\ cl' = [cl EXCEPT ![c] = Process("rotate")]
    BY <2>1 DEF Launch, dashVars
  <2> QED
    BY <2>2, NewProcess, OneProcess
<1>2. CASE \E c \in Clients : TimedOut(c) \/ StopClient(c)
  <2>1. PICK c \in Clients : TimedOut(c) \/ StopClient(c)
    BY <1>2
  <2>2. /\ setup' = setup /\ file' = file /\ feed' = feed
        /\ cl' = [cl EXCEPT ![c] = Terminated(cl[c])]
    BY <2>1 DEF TimedOut, StopClient, dashVars
  <2>3. IsProcess(cl[c])
    BY DEF Orderly
  <2>4. IsProcess(Terminated(cl[c]))
    BY <2>3, PartsKeep DEF Terminated
  <2> QED
    BY <2>2, <2>4, OneProcess
<1>3. CASE \E c \in Clients : Exited(c)
  <2>1. Apart /\ feed' = feed
    BY <1>3 DEF Exited, clientVars, dashVars, Apart
  <2> QED
    BY <2>1, ApartMoves
<1>4. CASE \/ MainBegins \/ AwaitDashboard \/ StartServer \/ AwaitCredentials
           \/ AwaitServer
  <2>1. Apart /\ feed' = feed
    BY <1>4 DEF MainBegins, AwaitDashboard, StartServer, AwaitCredentials, AwaitServer,
                clientVars, dashVars, Apart
  <2> QED
    BY <2>1, ApartMoves
<1>5. CASE StopServer \/ Summarise \/ Show \/ StopDashboard \/ MainInterrupted
  <2>1. Apart /\ feed' = feed
    BY <1>5 DEF StopServer, Summarise, Show, StopDashboard, MainInterrupted,
                clientVars, dashVars, Apart
  <2> QED
    BY <2>1, ApartMoves
<1> QED
  BY <1>1, <1>2, <1>3, <1>4, <1>5 DEF MainStep

LEMMA CtrlCMoves ==
    ASSUME Orderly, CtrlC
    PROVE  FilesMove /\ feed' = feed
<1>1. /\ setup' = setup /\ file' = file /\ feed' = feed
      /\ cl' = [c \in Clients |-> [cl[c] EXCEPT !.signal = Alive(cl[c])]]
  BY DEF CtrlC, Use
<1>2. ASSUME NEW c \in Clients
      PROVE  IsProcess(cl'[c])
  <2> DEFINE p == cl[c]
             signal == Alive(p)
             q == [p EXCEPT !.signal = signal]
  <2>1. IsProcess(p)
    BY DEF Orderly
  <2>2. cl'[c] = q
    BY <1>1
  <2> HIDE DEF p, signal
  <2>3. IsProcess(q)
    BY <2>1, SomePartsKeep
  <2> HIDE DEF q
  <2> QED
    BY <2>2, <2>3
<1>3. DOMAIN cl' = Clients
  BY <1>1
<1> QED
  BY <1>1, <1>2, <1>3, NoneMoves

\* The dashboard's steps that read no log.
LEMMA DashboardApart ==
    ASSUME \/ DashboardStarts \/ DashboardInterrupted \/ Publish
           \/ \E v \in Viewers : ViewerStep(v) \/ Leaves(v)
    PROVE  Apart /\ (feed' = feed \/ feed' = [feed EXCEPT !.dirty = FALSE])
<1>1. CASE DashboardStarts \/ DashboardInterrupted
  BY <1>1 DEF DashboardStarts, DashboardInterrupted, Apart, clientVars
<1>2. CASE Publish
  BY <1>2 DEF Publish, Apart, clientVars
<1>3. CASE \E v \in Viewers : ViewerStep(v) \/ Leaves(v)
  BY <1>3 DEF ViewerStep, Joins, SendFrame, Leaves, Apart, clientVars
<1> QED
  BY <1>1, <1>2, <1>3

-----------------------------------------------------------------------------
(* What a cursor and a view have to do with the file *)

Base == [station |-> NoStation, partial |-> "none", news |-> FALSE, restarted |-> FALSE]

\* Reading the first n units of a file from the beginning.
Reading(units, n) == FoldLeft(IngestUnit, Base, SubSeq(units, 1, n))

LEMMA NoStationIs == IsStation(NoStation) /\ IsReading(Base) /\ ~NoStation.known
<1>1. NoStation \in Views({"none", Never, 0, FALSE}) /\ ~NoStation.known
  BY DEF NoStation, Views
<1>2. IsStation(NoStation)
  BY <1>1 DEF IsStation
<1> HIDE DEF NoStation
<1>3. IsReading(Base)
  BY <1>2 DEF IsReading, Base
<1> QED
  BY <1>1, <1>2, <1>3

LEMMA AlikeItself ==
    ASSUME NEW t, IsReading(t), NEW final
    PROVE  Abreast(final, t, t)
BY DEF Abreast, Alike

LEMMA ReadingIs ==
    ASSUME NEW units, IsSeq(units), NEW n \in 0..Len(units)
    PROVE  /\ IsReading(Reading(units, n))
           /\ n = 0 => Reading(units, n) = Base
<1> DEFINE u == SubSeq(units, 1, n)
           x == Reading(units, n)
<1>1. PICK T : units \in Seq(T)
  BY DEF IsSeq
<1>2. u \in Seq(T) /\ Len(u) = n
  BY <1>1
<1>3. x = FoldLeft(IngestUnit, Base, u)
  BY DEF Reading
<1> HIDE DEF u, x
<1>4. Abreast(FALSE, Base, Base) /\ ~Base.news
  BY NoStationIs, AlikeItself DEF Base
<1>5. Abreast(FALSE, x, x)
  BY <1>2, <1>3, <1>4, ReadAbreast
<1>6. PICK h : Steps(Base, u, h) /\ x = h[Len(u)]
  BY <1>2, <1>3, FoldSteps
<1>7. n = 0 => x = Base
  BY <1>2, <1>6 DEF Steps
<1> QED
  BY <1>5, <1>7 DEF Abreast, x

\* The cursor stands in the file, what it keeps of an unfinished line is what
\* reading the file so far leaves, and the view differs from what that shows
\* at most by the report; once it is settled, not even in that.
Fits(final, settled, cursor, station, units) ==
    LET l == Reading(units, cursor.offset)
    IN /\ cursor.offset <= Len(units)
       /\ cursor.partial = l.partial
       /\ Alike(final, station, l.station)
       /\ settled => station = Overlaid(final, l.station)

LEMMA FitsAnew ==
    ASSUME NEW units, IsSeq(units), NEW final \in BOOLEAN, NEW settled,
           NEW cursor, cursor.offset = 0, cursor.partial = "none"
    PROVE  Fits(final, settled, cursor, NoStation, units)
<1>1. Len(units) \in Nat /\ 0 \in 0..Len(units)
  BY SeqParts
<1>2. Reading(units, 0) = Base
  BY <1>1, ReadingIs
<1>3. Overlaid(final, NoStation) = NoStation
  BY NoStationIs, OverlaidParts
<1>4. Base.station = NoStation /\ Base.partial = "none"
  BY DEF Base
<1> QED
  BY <1>1, <1>2, <1>3, <1>4 DEF Fits, Alike

LEMMA FitsMoved ==
    ASSUME NEW f, NEW g, Extends(f, g), IsFile(f), IsFile(g),
           NEW final, NEW settled, NEW cursor, cursor.offset \in Nat, NEW station,
           Fits(final, settled, cursor, station, f.units)
    PROVE  Fits(final, settled, cursor, station, g.units)
<1>1. Len(f.units) \in Nat /\ Len(g.units) \in Nat
  BY SeqParts DEF IsFile
<1>2. cursor.offset \in 0..Len(f.units)
  BY <1>1 DEF Fits
<1>3. Reading(g.units, cursor.offset) = Reading(f.units, cursor.offset)
  BY <1>2 DEF Extends, Reading
<1>4. cursor.offset <= Len(g.units)
  BY <1>1, <1>2 DEF Extends
<1> QED
  BY <1>3, <1>4 DEF Fits

LEMMA FitsReported ==
    ASSUME NEW final \in BOOLEAN, NEW report \in BOOLEAN, final => report,
           NEW settled, NEW cursor, NEW station, IsStation(station),
           NEW units, IsSeq(units), cursor.offset \in Nat,
           Fits(final, settled, cursor, station, units)
    PROVE  Fits(report, TRUE, cursor, Overlaid(report, station), units)
<1> DEFINE l == Reading(units, cursor.offset)
           v == l.station
<1>1. cursor.offset \in 0..Len(units)
  BY SeqParts DEF Fits
<1>2. IsStation(v)
  BY <1>1, ReadingIs DEF IsReading
<1>3. Overlaid(final, station) = Overlaid(final, v)
  BY DEF Fits, Alike
<1> HIDE DEF l
<1>4. Overlaid(report, station) = Overlaid(report, v)
  <2>1. CASE final = report
    BY <1>3, <2>1
  <2>2. CASE ~final
    <3>1. station = v
      BY <1>2, <1>3, <2>2, OverlaidParts
    <3> QED
      BY <3>1
  <2> QED
    BY <2>1, <2>2
<1>5. Overlaid(report, Overlaid(report, v)) = Overlaid(report, v)
  BY <1>2, OverlaidTwice
<1> QED
  BY <1>4, <1>5 DEF Fits, Alike, l

\* Reading on.
LEMMA FitsRead ==
    ASSUME NEW final \in BOOLEAN, NEW settled, NEW cursor, NEW station,
           IsStation(station), NEW units, IsSeq(units), cursor.offset \in Nat,
           Fits(final, settled, cursor, station, units),
           NEW to \in cursor.offset..Len(units), NEW x,
           x = IngestAll(station, cursor.partial, SubSeq(units, cursor.offset + 1, to)),
           NEW after, after.offset = to, after.partial = x.partial
    PROVE  Fits(final, settled /\ ~x.news, after, x.station, units)
<1> DEFINE n == cursor.offset
           s == [station |-> station, partial |-> cursor.partial, news |-> FALSE,
                 restarted |-> FALSE]
           l == Reading(units, n)
           u == SubSeq(units, n + 1, to)
           y == Reading(units, to)
<1>1. PICK T : units \in Seq(T)
  BY DEF IsSeq
<1>2. n \in 0..Len(units) /\ to \in 0..Len(units) /\ Len(units) \in Nat
  BY <1>1 DEF Fits
<1>3. u \in Seq(T)
  BY <1>1, <1>2
<1>4. IsReading(l)
  BY <1>2, ReadingIs
<1>5. y = FoldLeft(IngestUnit, l, u)
  BY <1>1, <1>2, ReadOn DEF Reading
<1>6. x = FoldLeft(IngestUnit, s, u)
  BY DEF IngestAll
<1>7. /\ cursor.partial = l.partial /\ Alike(final, station, l.station)
      /\ settled => station = Overlaid(final, l.station)
  BY DEF Fits
<1> HIDE DEF l, u, y
<1>8. Abreast(final, s, l) /\ ~s.news /\ s.station = station
  BY <1>4, <1>7 DEF Abreast, IsReading
<1> HIDE DEF s
<1>9. Abreast(final, x, y) /\ (~x.news => x.station = s.station)
  BY <1>3, <1>5, <1>6, <1>8, ReadAbreast
<1>10. IsStation(l.station)
  BY <1>4 DEF IsReading
<1>11. ASSUME settled, ~x.news
       PROVE  x.station = Overlaid(final, y.station)
  <2>1. x.station = station /\ station = Overlaid(final, l.station)
    BY <1>7, <1>8, <1>9, <1>11
  <2>2. Overlaid(final, station) = station
    BY <1>10, <2>1, OverlaidTwice
  <2>3. Overlaid(final, x.station) = Overlaid(final, y.station)
    BY <1>9 DEF Abreast, Alike
  <2> QED
    BY <2>1, <2>2, <2>3
<1>12. x.partial = y.partial /\ Alike(final, x.station, y.station)
  BY <1>9 DEF Abreast
<1>13. y = Reading(units, after.offset) /\ after.offset <= Len(units)
  BY <1>2 DEF y
<1> HIDE DEF n
<1> QED
  BY <1>11, <1>12, <1>13 DEF Fits

-----------------------------------------------------------------------------
(* The invariant *)

IsCursor(k) ==
    /\ DOMAIN k = {"inode", "offset", "partial"}
    /\ k.inode \in Nat /\ k.offset \in Nat

IsFeed(f) ==
    /\ DOMAIN f = {"at", "todo", "cursor", "stations", "dirty", "news", "final",
                   "finished"}
    /\ DOMAIN f.cursor = Clients /\ DOMAIN f.stations = Clients
    /\ f.final \in BOOLEAN /\ f.news \in BOOLEAN
    /\ \A c \in Clients : IsCursor(f.cursor[c]) /\ IsStation(f.stations[c])

Settled(f) == f.at = "idle" \/ ~f.news

\* A cursor is in no file that is yet to be made; in the file that is there, it
\* fits.
ClientFits(f, c, g) ==
    /\ f.cursor[c].inode < g.next
    /\ g.inode > 0 /\ f.cursor[c].inode = g.inode =>
           Fits(f.final, Settled(f), f.cursor[c], f.stations[c], g.units)

FeedInv ==
    /\ setup \in Setups /\ Orderly /\ IsFeed(feed)
    /\ \A c \in Clients : ClientFits(feed, c, file[c])

LEMMA FeedNext ==
    ASSUME setup \in Setups, setup' = setup, Orderly', IsFeed(feed'),
           \A c \in Clients : ClientFits(feed', c, file'[c])
    PROVE  FeedInv'
BY DEF FeedInv, ClientFits, Fits, Alike, Overlaid

LEMMA FeedShows ==
    ASSUME FeedInv
    PROVE  FeedFollowsLog
<1> SUFFICES ASSUME NEW c \in Clients, feed.at = "idle", Exists(file[c]),
                    feed.cursor[c].inode = file[c].inode
             PROVE  feed.stations[c] =
                        Overlaid(feed.final, LoggedStation(SubSeq(file[c].units, 1,
                                                            feed.cursor[c].offset)))
  BY DEF FeedFollowsLog
<1>1. Fits(feed.final, Settled(feed), feed.cursor[c], feed.stations[c], file[c].units)
  BY DEF FeedInv, ClientFits, Exists
<1>2. Reading(file[c].units, feed.cursor[c].offset).station =
          LoggedStation(SubSeq(file[c].units, 1, feed.cursor[c].offset))
  BY DEF Reading, LoggedStation, IngestAll, Base
<1> QED
  BY <1>1, <1>2 DEF Fits, Settled

LEMMA FeedBegins ==
    ASSUME LiveInit
    PROVE  FeedInv
<1>1. /\ setup \in Setups
      /\ cl = [c \in Clients |-> Process("off")]
      /\ file = [c \in Clients |-> [inode |-> 0, next |-> 1, units |-> <<>>]]
  BY DEF LiveInit, ClientsInit
<1>2. feed = [at |-> "idle", todo |-> <<>>, cursor |-> [c \in Clients |-> NewCursor],
              stations |-> [c \in Clients |-> NoStation], dirty |-> FALSE, news |-> FALSE,
              final |-> FALSE, finished |-> FALSE]
  BY DEF LiveInit, DashboardInit
<1>3. Orderly
  <2> DEFINE f == [inode |-> 0, next |-> 1, units |-> <<>>]
  <2>1. IsFile(f)
    BY NothingWritten DEF IsFile
  <2> HIDE DEF f
  <2>2. \A c \in Clients : cl[c] = Process("off") /\ file[c] = f
    BY <1>1 DEF f
  <2>3. DOMAIN cl = Clients /\ DOMAIN file = Clients
    BY <1>1
  <2> QED
    BY <2>1, <2>2, <2>3, NewProcess DEF Orderly
<1>4. IsCursor(NewCursor) /\ NewCursor.inode = 0
  BY DEF IsCursor, NewCursor
<1>5. IsFeed(feed)
  <2> HIDE DEF NoStation, NewCursor
  <2> QED
    BY <1>2, <1>4, NoStationIs DEF IsFeed
<1>6. ASSUME NEW c \in Clients
      PROVE  ClientFits(feed, c, file[c])
  <2>1. file[c].inode = 0 /\ file[c].next = 1
    BY <1>1
  <2>2. feed.cursor[c].inode = 0
    BY <1>2, <1>4
  <2> QED
    BY <2>1, <2>2 DEF ClientFits
<1> QED
  BY <1>1, <1>3, <1>5, <1>6 DEF FeedInv

\* Writers do not make what the dashboard has read untrue.
LEMMA FilesMoveFits ==
    ASSUME FeedInv, FilesMove, feed' = feed
    PROVE  FeedInv'
<1>1. ASSUME NEW c \in Clients
      PROVE  ClientFits(feed', c, file'[c])
  <2> DEFINE f == file[c]
             g == file'[c]
             k == feed.cursor[c]
  <2>1. /\ IsFile(f) /\ FileMoves(f, g) /\ IsCursor(k) /\ ClientFits(feed, c, f)
    BY DEF FeedInv, Orderly, FilesMove, IsFeed
  <2>2. feed'.cursor[c] = k
    OBVIOUS
  <2> HIDE DEF f, g, k
  <2>3. ClientFits(feed, c, g)
    <3>1. /\ f.next \in Nat /\ g.next \in Nat /\ f.next <= g.next /\ k.inode \in Nat
          /\ k.inode < f.next /\ IsFile(g)
      BY <2>1 DEF IsFile, FileMoves, IsCursor, ClientFits, k
    <3>2. ASSUME g.inode > 0, k.inode = g.inode
          PROVE  Fits(feed.final, Settled(feed), k, feed.stations[c], g.units)
      <4>1. g.inode = f.inode /\ Extends(f, g)
        BY <2>1, <3>1, <3>2 DEF FileMoves
      <4>2. Fits(feed.final, Settled(feed), k, feed.stations[c], f.units)
        BY <2>1, <3>2, <4>1 DEF ClientFits, k
      <4> QED
        BY <2>1, <3>1, <4>1, <4>2, FitsMoved DEF IsCursor
    <3> QED
      BY <3>1, <3>2 DEF ClientFits, k
  <2> QED
    BY <2>3 DEF g
<1> QED
  BY <1>1, FeedNext DEF FeedInv, FilesMove

\* A view that fits when it is settled fits when it is not.
LEMMA FitsLess ==
    ASSUME NEW final, NEW settled, NEW less, less => settled, NEW cursor, NEW station,
           NEW units, Fits(final, settled, cursor, station, units)
    PROVE  Fits(final, less, cursor, station, units)
BY DEF Fits

LEMMA ApartFits ==
    ASSUME FeedInv, Apart, feed' = [feed EXCEPT !.dirty = FALSE]
    PROVE  FeedInv'
<1>1. IsFeed(feed) /\ setup \in Setups /\ Orderly
  BY DEF FeedInv
<1>2. /\ DOMAIN feed' = DOMAIN feed /\ feed'.cursor = feed.cursor
      /\ feed'.stations = feed.stations /\ feed'.final = feed.final
      /\ feed'.news = feed.news /\ feed'.at = feed.at
  BY <1>1 DEF IsFeed
<1>3. IsFeed(feed')
  BY <1>1, <1>2 DEF IsFeed
<1>4. setup' = setup /\ file' = file /\ Orderly'
  BY <1>1 DEF Apart, Orderly
<1>5. \A c \in Clients : ClientFits(feed', c, file'[c])
  <2>1. \A c \in Clients : ClientFits(feed, c, file[c])
    BY DEF FeedInv
  <2> QED
    BY <1>2, <1>4, <2>1 DEF ClientFits, Settled
<1> QED
  BY <1>1, <1>3, <1>4, <1>5, FeedNext

\* What a step of the poll changes of the feed, if it is about the client c.
PollOf(c, z, k, station) ==
    /\ IsFeed(z) /\ z.final = feed.final
    /\ z.at # "idle"
    /\ z.cursor = [feed.cursor EXCEPT ![c] = k]
    /\ z.stations = [feed.stations EXCEPT ![c] = station]

\* It is enough to look at that client.
LEMMA PollFits ==
    ASSUME FeedInv, Apart, NEW c \in Clients, NEW k, NEW station,
           PollOf(c, feed', k, station), Settled(feed') => Settled(feed),
           k.inode < file[c].next,
           file[c].inode > 0 /\ k.inode = file[c].inode =>
               Fits(feed.final, Settled(feed'), k, station, file[c].units)
    PROVE  FeedInv'
<1>1. IsFeed(feed) /\ setup \in Setups /\ Orderly
  BY DEF FeedInv
<1>2. setup' = setup /\ file' = file /\ Orderly'
  BY <1>1 DEF Apart, Orderly
<1>3. IsFeed(feed') /\ feed'.final = feed.final
  BY DEF PollOf
<1>4. \A d \in Clients :
          /\ feed'.cursor[d] = IF d = c THEN k ELSE feed.cursor[d]
          /\ feed'.stations[d] = IF d = c THEN station ELSE feed.stations[d]
  BY <1>1 DEF PollOf, IsFeed
<1>5. ASSUME NEW d \in Clients
      PROVE  ClientFits(feed', d, file'[d])
  <2>1. CASE d = c
    <3>1. feed'.cursor[d] = k /\ feed'.stations[d] = station
      BY <1>4, <2>1
    <3> QED
      BY <1>2, <1>3, <2>1, <3>1 DEF ClientFits
  <2>2. CASE d # c
    <3>1. feed'.cursor[d] = feed.cursor[d] /\ feed'.stations[d] = feed.stations[d]
      BY <1>4, <2>2
    <3>2. ClientFits(feed, d, file[d])
      BY DEF FeedInv
    <3>3. ASSUME file[d].inode > 0, feed.cursor[d].inode = file[d].inode
          PROVE  Fits(feed.final, Settled(feed'), feed.cursor[d], feed.stations[d],
                      file[d].units)
      BY <3>2, <3>3, FitsLess DEF ClientFits
    <3> QED
      BY <1>2, <1>3, <3>1, <3>2, <3>3 DEF ClientFits
  <2> QED
    BY <2>1, <2>2
<1> QED
  BY <1>1, <1>2, <1>3, <1>5, FeedNext

LEMMA StatFits ==
    ASSUME FeedInv, NEW c \in Clients, PollStat(c)
    PROVE  FeedInv'
<1> DEFINE f == file[c]
           reset == Exists(f) /\ MustReset(feed.cursor[c], f)
           k == IF reset THEN [NewCursor EXCEPT !.inode = f.inode] ELSE feed.cursor[c]
           station == IF reset THEN NoStation ELSE feed.stations[c]
           news == feed.at # "idle" /\ feed.news
           found == [feed EXCEPT !.todo = Todo, !.news = news, !.cursor[c] = k,
                                 !.stations[c] = station]
<1>1. IsFeed(feed) /\ IsFile(f) /\ ClientFits(feed, c, f)
  BY DEF FeedInv, Orderly
<1>2. Apart
  BY DEF PollStat, Apart, clientVars
<1>3. \/ feed' = [found EXCEPT !.at = "stat", !.todo = Tail(@)]
      \/ feed' = [found EXCEPT !.at = "read"]
  BY ZenonT(60) DEF PollStat
<1>4. /\ k.inode \in Nat /\ k.inode < f.next
      /\ reset => k.inode = f.inode /\ k.offset = 0 /\ k.partial = "none"
      /\ IsCursor(k) /\ IsStation(station) /\ news \in BOOLEAN
  <2>1. CASE reset
    <3>1. k = [inode |-> f.inode, offset |-> 0, partial |-> "none"]
      BY <2>1 DEF NewCursor
    <3> HIDE DEF k, reset, f
    <3>2. k.inode = f.inode /\ k.offset = 0 /\ k.partial = "none" /\ IsCursor(k)
      BY <1>1, <3>1 DEF IsCursor, IsFile
    <3>3. f.inode \in Nat /\ f.inode < f.next
      BY <1>1 DEF IsFile
    <3>4. station = NoStation
      BY <2>1
    <3> QED
      BY <3>2, <3>3, <3>4, NoStationIs
  <2>2. CASE ~reset
    BY <1>1, <2>2 DEF IsFeed, IsCursor, ClientFits
  <2> QED
    BY <2>1, <2>2
<1>5. /\ DOMAIN feed' = DOMAIN feed /\ feed'.final = feed.final /\ feed'.news = news
      /\ feed'.at # "idle"
      /\ feed'.cursor = [feed.cursor EXCEPT ![c] = k]
      /\ feed'.stations = [feed.stations EXCEPT ![c] = station]
  <2> HIDE DEF k, station, news
  <2>1. /\ DOMAIN found = DOMAIN feed /\ found.final = feed.final /\ found.news = news
        /\ found.cursor = [feed.cursor EXCEPT ![c] = k]
        /\ found.stations = [feed.stations EXCEPT ![c] = station]
    BY <1>1 DEF IsFeed
  <2>2. DOMAIN found = {"at", "todo", "cursor", "stations", "dirty", "news", "final",
                        "finished"}
    BY <1>1, <2>1 DEF IsFeed
  <2> HIDE DEF found
  <2> QED
    BY <1>3, <2>1, <2>2
<1> HIDE DEF found, k, station
<1>6. IsFeed(feed')
  BY <1>1, <1>4, <1>5 DEF IsFeed
<1>7. Settled(feed') <=> Settled(feed)
  BY <1>5 DEF Settled
<1>8. ASSUME f.inode > 0, k.inode = f.inode
      PROVE  Fits(feed.final, Settled(feed'), k, station, f.units)
  <2>1. CASE reset
    <3>1. station = NoStation
      BY <2>1 DEF station
    <3>2. feed.final \in BOOLEAN /\ IsSeq(f.units)
      BY <1>1 DEF IsFeed, IsFile
    <3> HIDE DEF f, reset
    <3> QED
      BY <1>4, <2>1, <3>1, <3>2, FitsAnew
  <2>2. CASE ~reset
    <3>1. k = feed.cursor[c] /\ station = feed.stations[c]
      BY <2>2 DEF k, station
    <3>2. Fits(feed.final, Settled(feed), k, station, f.units)
      BY <1>1, <1>8, <3>1 DEF ClientFits
    <3> QED
      BY <1>7, <3>2, FitsLess
  <2> QED
    BY <2>1, <2>2
<1>9. PollOf(c, feed', k, station)
  BY <1>5, <1>6 DEF PollOf
<1> HIDE DEF reset
<1> QED
  BY <1>2, <1>4, <1>7, <1>8, <1>9, PollFits

\* How far is read at once.
LEMMA ReadTo ==
    ASSUME NEW from \in Nat, NEW chunk \in Nat, NEW size \in Nat, NEW to,
           to = Max({from, Min({from + chunk, size})})
    PROVE  to \in Nat /\ from <= to /\ (to = from \/ to <= size)
<1> DEFINE a == from + chunk
           m == Min({a, size})
<1>1. a \in Nat
  OBVIOUS
<1> HIDE DEF a
<1>2. m \in {a, size} /\ m <= size
  <2>1. \E x \in {a, size} : \A y \in {a, size} : x <= y
    BY <1>1
  <2>2. m \in {a, size} /\ \A y \in {a, size} : m <= y
    BY <2>1 DEF Min
  <2> QED
    BY <2>2
<1>3. m \in Nat
  BY <1>1, <1>2
<1> HIDE DEF m
<1>4. to = Max({from, m})
  BY DEF m, a
<1>5. to \in {from, m} /\ from <= to
  <2>1. \E x \in {from, m} : \A y \in {from, m} : x >= y
    BY <1>3
  <2>2. to \in {from, m} /\ \A y \in {from, m} : to >= y
    BY <1>4, <2>1 DEF Max
  <2> QED
    BY <1>3, <2>2
<1> QED
  BY <1>2, <1>3, <1>5

\* What is read into a view leaves a view.
LEMMA StationRead ==
    ASSUME NEW station, IsStation(station), NEW partial, NEW u, IsSeq(u), NEW x,
           x = IngestAll(station, partial, u)
    PROVE  IsReading(x)
<1> DEFINE s == [station |-> station, partial |-> partial, news |-> FALSE,
                 restarted |-> FALSE]
<1>1. PICK T : u \in Seq(T)
  BY DEF IsSeq
<1>2. IsReading(s) /\ ~s.news
  BY DEF IsReading
<1>3. x = FoldLeft(IngestUnit, s, u)
  BY DEF IngestAll
<1> HIDE DEF s
<1>4. Abreast(FALSE, s, s)
  BY <1>2, AlikeItself
<1>5. Abreast(FALSE, x, x)
  BY <1>1, <1>2, <1>3, <1>4, ReadAbreast
<1> QED
  BY <1>5 DEF Abreast

LEMMA ReadFits ==
    ASSUME DashboardAssumption, FeedInv, NEW c \in Clients, PollRead(c)
    PROVE  FeedInv'
<1> DEFINE k == feed.cursor[c]
           from == k.offset
           units == file[c].units
           to == Max({from, Min({from + setup.chunk, Len(units)})})
           t == IngestAll(feed.stations[c], k.partial, SubSeq(units, from + 1, to))
           after == [k EXCEPT !.offset = to, !.partial = t.partial]
           z == [feed EXCEPT
                   !.at = "stat", !.todo = Tail(@),
                   !.cursor[c].offset = to, !.cursor[c].partial = t.partial,
                   !.stations[c] = t.station,
                   !.finished = @ /\ ~t.restarted,
                   !.news = @ \/ t.news, !.dirty = @ \/ t.news]
<1>1. /\ IsFeed(feed) /\ IsCursor(k) /\ IsStation(feed.stations[c]) /\ IsFile(file[c])
      /\ ClientFits(feed, c, file[c]) /\ setup.chunk \in Nat
  BY DEF FeedInv, Orderly, IsFeed, DashboardAssumption
<1>2. Apart /\ feed.at = "read"
  BY DEF PollRead, Apart, clientVars
<1>3. feed' = z
  <2> DEFINE To(a) == Max({a, Min({a + setup.chunk, Len(file[c].units)})})
             In(a, b) == IngestAll(feed.stations[c], feed.cursor[c].partial,
                                   SubSeq(file[c].units, a + 1, b))
             Z(b, s) == [feed EXCEPT
                           !.at = "stat", !.todo = Tail(@),
                           !.cursor[c].offset = b, !.cursor[c].partial = s.partial,
                           !.stations[c] = s.station,
                           !.finished = @ /\ ~s.restarted,
                           !.news = @ \/ s.news, !.dirty = @ \/ s.news]
  <2>1. \E a \in {feed.cursor[c].offset} : \E b \in {To(a)} : \E s \in {In(a, b)} :
            feed' = Z(b, s)
    BY Zenon DEF PollRead
  <2>2. z = Z(to, t) /\ to = To(from) /\ t = In(from, to)
    BY Zenon
  <2> HIDE DEF Z, To, In, from, to, t, z
  <2> QED
    BY <2>1, <2>2 DEF from
<1>4. IsSeq(units) /\ Len(units) \in Nat /\ from \in Nat
  BY <1>1, SeqParts DEF IsFile, IsCursor
<1>5. to \in Nat /\ from <= to /\ (to = from \/ to <= Len(units))
  <2> HIDE DEF from, units
  <2> QED
    BY <1>1, <1>4, ReadTo
<1> HIDE DEF from, units, to
<1>6. IsSeq(SubSeq(units, from + 1, to))
  <2>1. CASE to <= Len(units)
    <3>1. from + 1 \in Nat /\ from + 1 > 0 /\ to \in 0..Len(units)
      BY <1>4, <1>5, <2>1
    <3> QED
      BY <1>4, <3>1, SeqParts
  <2>2. CASE to = from
    <3> DEFINE e == SubSeq(units, from + 1, to)
    <3>1. e = <<>>
      BY <1>4, <2>2
    <3> HIDE DEF e
    <3>2. IsSeq(e)
      BY <3>1, NothingWritten
    <3> QED
      BY <3>2 DEF e
  <2> QED
    BY <1>5, <2>1, <2>2
<1>7. IsReading(t)
  BY <1>1, <1>6, StationRead
<1> DEFINE station == t.station
<1>8. /\ DOMAIN feed' = DOMAIN feed /\ feed'.final = feed.final
      /\ feed'.news = (feed.news \/ t.news)
      /\ feed'.at = "stat"
      /\ feed'.cursor = [feed.cursor EXCEPT ![c] = after]
      /\ feed'.stations = [feed.stations EXCEPT ![c] = station]
  <2> HIDE DEF t
  <2>1. DOMAIN feed = {"at", "todo", "cursor", "stations", "dirty", "news", "final",
                       "finished"}
    BY <1>1 DEF IsFeed
  <2>2. /\ DOMAIN z = DOMAIN feed /\ z.final = feed.final
        /\ z.at = "stat"
    BY <2>1
  <2>3. z.news = (feed.news \/ t.news)
    BY <2>1
  <2>4. z.stations = [feed.stations EXCEPT ![c] = station]
    BY <2>1
  <2>5. z.cursor = [[feed.cursor EXCEPT ![c].offset = to] EXCEPT ![c].partial = t.partial]
    BY <2>1
  <2>6. z.cursor = [feed.cursor EXCEPT ![c] = after]
    <3>1. DOMAIN feed.cursor = Clients
      BY <1>1 DEF IsFeed
    <3> QED
      BY <2>5, <3>1
  <2> HIDE DEF z
  <2> QED
    BY <1>3, <2>2, <2>3, <2>4, <2>6
<1> HIDE DEF z, t
<1>9. /\ IsCursor(after) /\ after.inode = k.inode /\ after.offset = to
      /\ after.partial = t.partial
  BY <1>1, <1>5 DEF IsCursor
<1>10. IsStation(station) /\ t.news \in BOOLEAN
  BY <1>7 DEF IsReading
<1> HIDE DEF after, station
<1>11. IsFeed(feed')
  <2>1. feed.news \in BOOLEAN /\ DOMAIN feed.cursor = Clients
    BY <1>1 DEF IsFeed
  <2>2. feed'.news \in BOOLEAN
    BY <1>8
  <2> QED
    BY <1>1, <1>8, <1>9, <1>10, <2>2 DEF IsFeed
<1>12. Settled(feed') <=> Settled(feed) /\ ~t.news
  BY <1>2, <1>8 DEF Settled
<1>13. after.inode < file[c].next
  BY <1>1, <1>9 DEF ClientFits, k
<1>14. ASSUME file[c].inode > 0, after.inode = file[c].inode
       PROVE  Fits(feed.final, Settled(feed'), after, station, units)
  <2>1. Fits(feed.final, Settled(feed), k, feed.stations[c], units)
    BY <1>1, <1>9, <1>14 DEF ClientFits, k, units
  <2>2. from <= Len(units)
    BY <2>1 DEF Fits, from
  <2>3. to \in from..Len(units)
    BY <1>4, <1>5, <2>2
  <2>4. t = IngestAll(feed.stations[c], k.partial, SubSeq(units, from + 1, to))
    BY DEF t
  <2>5. feed.final \in BOOLEAN
    BY <1>1 DEF IsFeed
  <2> HIDE DEF k
  <2>6. Fits(feed.final, Settled(feed) /\ ~t.news, after, t.station, units)
    BY <1>1, <1>4, <1>9, <2>1, <2>3, <2>4, <2>5, FitsRead DEF from
  <2> QED
    BY <1>12, <2>6, FitsLess DEF station
<1>15. PollOf(c, feed', after, station)
  BY <1>8, <1>11 DEF PollOf
<1>16. Settled(feed') => Settled(feed)
  BY <1>12
<1> HIDE DEF k
<1> QED
  BY <1>2, <1>13, <1>14, <1>15, <1>16, PollFits DEF units

LEMMA ReportFits ==
    ASSUME FeedInv, PollReport
    PROVE  FeedInv'
<1> DEFINE final == feed.final \/ UnreadReport
           stations == IF feed.news \/ UnreadReport
                       THEN [c \in Clients |-> Overlaid(final, feed.stations[c])]
                       ELSE feed.stations
<1>1. IsFeed(feed) /\ setup \in Setups /\ Orderly
  BY DEF FeedInv
<1>2. Apart
  BY DEF PollReport, Apart, clientVars
<1>3. setup' = setup /\ file' = file /\ Orderly'
  BY <1>1, <1>2 DEF Apart, Orderly
<1>4. /\ DOMAIN feed' = DOMAIN feed /\ feed'.at = "idle"
      /\ feed'.final = final /\ feed'.news = feed.news
      /\ feed'.cursor = feed.cursor /\ feed'.stations = stations
  <2> DEFINE To(b) == [feed EXCEPT
               !.at = "idle", !.final = b, !.finished = @ \/ UnreadReport,
               !.dirty = @ \/ UnreadReport,
               !.stations = IF feed.news \/ UnreadReport
                            THEN [c \in Clients |-> Overlaid(b, @[c])] ELSE @]
  <2>1. \E b \in {final} : feed' = To(b)
    BY Zenon DEF PollReport
  <2>2. feed' = To(final)
    <3> HIDE DEF To, final
    <3> QED
      BY <2>1
  <2> HIDE DEF final
  <2>3. /\ DOMAIN To(final) = DOMAIN feed /\ To(final).at = "idle"
        /\ To(final).final = final /\ To(final).news = feed.news
        /\ To(final).cursor = feed.cursor /\ To(final).stations = stations
    BY <1>1 DEF IsFeed
  <2> HIDE DEF To, stations
  <2> QED
    BY <2>2, <2>3
<1>5. final \in BOOLEAN /\ (feed.final => final) /\ feed.final \in BOOLEAN
  BY <1>1 DEF IsFeed
<1>6. \A c \in Clients : /\ IsStation(feed.stations[c]) /\ IsCursor(feed.cursor[c])
                         /\ IsStation(Overlaid(final, feed.stations[c]))
  BY <1>1, <1>5, OverlaidTwice DEF IsFeed
<1>7. CASE feed.news \/ UnreadReport
  <2> HIDE DEF final
  <2>1. stations = [c \in Clients |-> Overlaid(final, feed.stations[c])]
    BY <1>7
  <2> HIDE DEF stations
  <2>2. IsFeed(feed')
    BY <1>1, <1>4, <1>5, <1>6, <2>1 DEF IsFeed
  <2>3. ASSUME NEW c \in Clients
        PROVE  ClientFits(feed', c, file'[c])
    <3> DEFINE station == feed.stations[c]
               k == feed.cursor[c]
               units == file[c].units
    <3>1. /\ ClientFits(feed, c, file[c]) /\ IsStation(station) /\ k.offset \in Nat
          /\ IsSeq(units)
      BY <1>1, <1>6 DEF FeedInv, Orderly, IsFile, IsCursor
    <3>2. feed'.stations[c] = Overlaid(final, station) /\ feed'.cursor[c] = k
      BY <1>4, <2>1
    <3>3. ASSUME file[c].inode > 0, k.inode = file[c].inode
          PROVE  Fits(final, TRUE, k, Overlaid(final, station), units)
      <4>1. Fits(feed.final, Settled(feed), k, station, units)
        BY <3>1, <3>3 DEF ClientFits
      <4> HIDE DEF k, station, units
      <4> QED
        BY <1>5, <3>1, <4>1, FitsReported
    <3>4. ASSUME file[c].inode > 0, k.inode = file[c].inode
          PROVE  Fits(final, Settled(feed'), k, Overlaid(final, station), units)
      BY <3>3, <3>4, FitsLess
    <3> QED
      BY <1>3, <1>4, <3>1, <3>2, <3>4 DEF ClientFits
  <2> QED
    BY <1>1, <1>3, <2>2, <2>3, FeedNext
<1>8. CASE ~(feed.news \/ UnreadReport)
  <2>1. final = feed.final /\ stations = feed.stations
    BY <1>5, <1>8
  <2> HIDE DEF final, stations
  <2>2. IsFeed(feed')
    BY <1>1, <1>4, <2>1 DEF IsFeed
  <2>3. Settled(feed)
    BY <1>8 DEF Settled
  <2>4. ASSUME NEW c \in Clients
        PROVE  ClientFits(feed', c, file'[c])
    <3>1. ClientFits(feed, c, file[c])
      BY DEF FeedInv
    <3>2. ASSUME file[c].inode > 0, feed.cursor[c].inode = file[c].inode
          PROVE  Fits(feed.final, Settled(feed'), feed.cursor[c], feed.stations[c],
                      file[c].units)
      BY <2>3, <3>1, <3>2, FitsLess DEF ClientFits
    <3> QED
      BY <1>3, <1>4, <2>1, <3>1, <3>2 DEF ClientFits
  <2> QED
    BY <1>1, <1>3, <2>2, <2>4, FeedNext
<1> QED
  BY <1>7, <1>8

LEMMA FeedSteps ==
    ASSUME DashboardAssumption, FeedInv, [LiveNext]_liveVars
    PROVE  FeedInv'
<1>1. Orderly /\ setup \in Setups
  BY DEF FeedInv
<1>2. CASE /\ ServerNext \/ ServerFails
                \/ \E c \in Clients : ClientStep(c) \/ LinkClosed(c) \/ Mishap(c)
           /\ UNCHANGED <<dashVars, main>>
  <2>1. FilesMove
    BY <1>1, <1>2, ServerMoves, ClientMoves
  <2>2. feed' = feed
    BY <1>2 DEF dashVars
  <2> QED
    BY <2>1, <2>2, FilesMoveFits
<1>3. CASE MainStep \/ CtrlC
  <2>1. FilesMove /\ feed' = feed
    BY <1>1, <1>3, MainMoves, CtrlCMoves
  <2> QED
    BY <2>1, FilesMoveFits
<1>4. CASE \/ DashboardStarts \/ DashboardInterrupted \/ Publish
           \/ \E v \in Viewers : ViewerStep(v) \/ Leaves(v)
  <2>1. Apart /\ (feed' = feed \/ feed' = [feed EXCEPT !.dirty = FALSE])
    BY <1>4, DashboardApart
  <2>2. CASE feed' = feed
    BY <1>1, <2>1, <2>2, ApartMoves, FilesMoveFits
  <2>3. CASE feed' = [feed EXCEPT !.dirty = FALSE]
    BY <2>1, <2>3, ApartFits
  <2> QED
    BY <2>1, <2>2, <2>3
<1>5. CASE PollReport
  BY <1>5, ReportFits
<1>6. CASE \E c \in Clients : PollStat(c) \/ PollRead(c)
  BY <1>6, StatFits, ReadFits
<1>7. CASE UNCHANGED liveVars
  <2>1. Apart /\ feed' = feed
    BY <1>7 DEF liveVars, Apart
  <2> QED
    BY <1>1, <2>1, ApartMoves, FilesMoveFits
<1> QED
  BY <1>2, <1>3, <1>4, <1>5, <1>6, <1>7
     DEF LiveNext, Running, Happening, DashboardStep

\* Between polls, whatever the writers did while the files were looked at, a
\* station shows what the lines its cursor has passed say, and each of them
\* once: for any number of clients, lines, kills and restarts, and whatever is
\* read at once (Feed.poll, Feed._ingest_file).
THEOREM FeedShowsTheLog ==
    ASSUME DashboardAssumption
    PROVE  LiveSpec => []FeedFollowsLog
<1>1. LiveInit => FeedInv
  BY FeedBegins
<1>2. FeedInv /\ [LiveNext]_liveVars => FeedInv'
  BY FeedSteps
<1>3. FeedInv => FeedFollowsLog
  BY FeedShows
<1> QED
  BY <1>1, <1>2, <1>3, PTL DEF LiveSpec

-----------------------------------------------------------------------------
(* What runs, and what was told to stop *)

Halting(p) == Alive(p) => IsStopping(p)
AllHalting == (ServerAlive => srv.signal) /\ \A c \in Clients : Halting(cl[c])

\* A step after which no client runs that did not, and none that was told to
\* stop has forgotten it.
ClientsCalm ==
    \A c \in Clients : /\ Alive(cl'[c]) => Alive(cl[c])
                       /\ Halting(cl[c]) => Halting(cl'[c])

\* The same for the server, which stays a process.
IsServer(s) == {"pc", "signal"} \subseteq DOMAIN s
ServerCalm ==
    /\ IsServer(srv') /\ (ServerAlive' => ServerAlive)
    /\ (ServerAlive => srv.signal) => (ServerAlive' => srv'.signal)

Calm == ClientsCalm /\ ServerCalm

\* Runs, and has not been told to stop: it may become anything.
Busy(p) == Alive(p) /\ ~IsStopping(p)

LEMMA OneIsCalm ==
    ASSUME Orderly, NEW c \in Clients, NEW p, cl' = [cl EXCEPT ![c] = p],
           Alive(p) => Alive(cl[c]), Halting(cl[c]) => Halting(p)
    PROVE  ClientsCalm
<1>1. \A d \in Clients : cl'[d] = IF d = c THEN p ELSE cl[d]
  BY DEF Orderly
<1> QED
  BY <1>1 DEF ClientsCalm

LEMMA BusyIsCalm ==
    ASSUME Orderly, NEW c \in Clients, Busy(cl[c]),
           cl' = cl \/ \E p : cl' = [cl EXCEPT ![c] = p]
    PROVE  ClientsCalm
<1>1. CASE cl' = cl
  BY <1>1 DEF ClientsCalm
<1>2. CASE \E p : cl' = [cl EXCEPT ![c] = p]
  <2>1. PICK p : cl' = [cl EXCEPT ![c] = p]
    BY <1>2
  <2>2. Alive(cl[c]) /\ ~Halting(cl[c])
    BY DEF Busy, Halting
  <2> QED
    BY <2>1, <2>2, OneIsCalm
<1> QED
  BY <1>1, <1>2

LEMMA PutsOne ==
    ASSUME NEW c, NEW p, Puts(c, p)
    PROVE  \E q : cl' = [cl EXCEPT ![c] = q]
<1>1. CASE setup.shared
  BY <1>1 DEF Puts
<1>2. CASE ~setup.shared
  BY <1>2 DEF Puts
<1> QED
  BY <1>1, <1>2

\* A process that goes on as q, whose pc and signal say what it does.
LEMMA PutsCalm ==
    ASSUME Orderly, NEW c \in Clients, NEW p, IsProcess(p), Puts(c, p),
           Alive(p) => Alive(cl[c]), Halting(cl[c]) => Halting(p)
    PROVE  ClientsCalm
<1>1. CASE setup.shared
  <2>1. cl' = [cl EXCEPT ![c] = p]
    BY <1>1 DEF Puts
  <2> QED
    BY <2>1, OneIsCalm
<1>2. CASE ~setup.shared
  <2> DEFINE q == [p EXCEPT !.out = <<>>]
  <2>1. cl' = [cl EXCEPT ![c] = q]
    BY <1>2 DEF Puts
  <2>2. q.pc = p.pc /\ q.signal = p.signal
    BY DEF IsProcess
  <2> HIDE DEF q
  <2>3. (Alive(q) <=> Alive(p)) /\ (Halting(q) <=> Halting(p))
    BY <2>2 DEF Alive, Halting, IsStopping
  <2> QED
    BY <2>1, <2>3, OneIsCalm
<1> QED
  BY <1>1, <1>2

LEMMA TurnIsBusy ==
    ASSUME NEW c, NEW pc \in ClientPcs \ {"off", "ending", "reports", "done"}, Turn(c, pc)
    PROVE  Busy(cl[c])
BY DEF Turn, Busy, Alive, IsStopping, ClientPcs

LEMMA OpeningCalm ==
    ASSUME Orderly, NEW c \in Clients,
           \/ Rotate(c) \/ CreateLog(c) \/ Begins(c) \/ Connecting(c) \/ Opened(c)
           \/ OpenFails(c)
    PROVE  ClientsCalm
<1>1. /\ Turn(c, "rotate") \/ Turn(c, "create") \/ Turn(c, "begin") \/ Turn(c, "connect")
            \/ Turn(c, "opening")
      /\ \E p : cl' = [cl EXCEPT ![c] = p]
  <2>1. CASE Rotate(c)
    BY <2>1 DEF Rotate
  <2>2. CASE CreateLog(c)
    BY <2>2 DEF CreateLog
  <2>3. CASE Begins(c)
    <3>1. Turn(c, "begin") /\ \E p : Puts(c, p)
      BY Zenon, <2>3 DEF Begins, Becomes
    <3> QED
      BY Zenon, <3>1, PutsOne
  <2>4. CASE Connecting(c)
    <3>1. Turn(c, "connect") /\ \E p : Puts(c, p)
      BY Zenon, <2>4 DEF Connecting
    <3> QED
      BY Zenon, <3>1, PutsOne
  <2>5. CASE Opened(c)
    <3>1. Turn(c, "opening") /\ \E p : Puts(c, p)
      BY Zenon, <2>5 DEF Opened, Becomes
    <3> QED
      BY Zenon, <3>1, PutsOne
  <2>6. CASE OpenFails(c)
    <3>1. Turn(c, "opening") /\ \E p : Puts(c, p)
      BY Zenon, <2>6 DEF OpenFails, Becomes
    <3> QED
      BY Zenon, <3>1, PutsOne
  <2> QED
    BY <2>1, <2>2, <2>3, <2>4, <2>5, <2>6
<1>2. Busy(cl[c])
  BY <1>1, TurnIsBusy DEF ClientPcs
<1> QED
  BY <1>1, <1>2, BusyIsCalm

LEMMA ConnectedCalm ==
    ASSUME Orderly, NEW c \in Clients,
           \/ FirstState(c) \/ Readiness(c) \/ Backoff(c) \/ TakeState(c) \/ Quiet(c)
    PROVE  ClientsCalm
<1>1. /\ Turn(c, "first") \/ Turn(c, "ready") \/ Turn(c, "backoff") \/ Turn(c, "watch")
      /\ \E p : Puts(c, p)
  <2>1. CASE FirstState(c)
    BY Zenon, <2>1 DEF FirstState, Becomes
  <2>2. CASE Readiness(c)
    BY Zenon, <2>2 DEF Readiness
  <2>3. CASE Backoff(c)
    BY Zenon, <2>3 DEF Backoff, Becomes
  <2>4. CASE TakeState(c)
    BY Zenon, <2>4 DEF TakeState, Becomes
  <2>5. CASE Quiet(c)
    BY Zenon, <2>5 DEF Quiet
  <2> QED
    BY <2>1, <2>2, <2>3, <2>4, <2>5
<1>2. Busy(cl[c])
  BY <1>1, TurnIsBusy DEF ClientPcs
<1>3. \E p : cl' = [cl EXCEPT ![c] = p]
  BY Zenon, <1>1, PutsOne
<1> QED
  BY <1>2, <1>3, BusyIsCalm

LEMMA CommandCalm ==
    ASSUME Orderly, NEW c \in Clients,
           \/ \E act \in BOOLEAN : Decide(c, act)
           \/ Blocked(c) \/ Send(c) \/ Confirmed(c) \/ LinkClosed(c)
           \/ \E code \in {"OK", "REFUSED", "PROTOCOL"} : Answer(c, code)
    PROVE  ClientsCalm
<1>1. /\ \E pc \in {"first", "ready", "watch", "think", "command", "answer", "confirm"} :
             Turn(c, pc)
      /\ \E p : Puts(c, p)
  <2>1. ASSUME NEW act \in BOOLEAN, Decide(c, act)
        PROVE  Turn(c, "think") /\ \E p : Puts(c, p)
    BY Zenon, <2>1 DEF Decide, Becomes
  <2>2. CASE Blocked(c)
    BY Zenon, <2>2 DEF Blocked, Becomes
  <2>3. CASE Send(c)
    BY Zenon, <2>3 DEF Send, Becomes
  <2>4. CASE Confirmed(c)
    BY Zenon, <2>4 DEF Confirmed, Becomes
  <2>5. CASE LinkClosed(c)
    BY Zenon, <2>5 DEF LinkClosed, Turn
  <2>6. ASSUME NEW code \in {"OK", "REFUSED", "PROTOCOL"}, Answer(c, code)
        PROVE  Turn(c, "answer") /\ \E p : Puts(c, p)
    BY Zenon, <2>6 DEF Answer
  <2> QED
    BY Zenon, <2>1, <2>2, <2>3, <2>4, <2>5, <2>6
<1>2. Busy(cl[c])
  BY <1>1, TurnIsBusy DEF ClientPcs
<1>3. \E p : cl' = [cl EXCEPT ![c] = p]
  BY Zenon, <1>1, PutsOne
<1> QED
  BY <1>2, <1>3, BusyIsCalm

LEMMA WriteCalm ==
    ASSUME Orderly, NEW c \in Clients, WriteLine(c) \/ Deliver(c)
    PROVE  ClientsCalm
<1> DEFINE p == cl[c]
<1>1. IsProcess(p) /\ DOMAIN cl = Clients
  BY DEF Orderly
<1>2. CASE WriteLine(c)
  <2> DEFINE q == [p EXCEPT !.out = Tail(@)]
  <2>1. cl' = cl \/ cl' = [cl EXCEPT ![c] = q]
    <3>1. PICK part : cl' = IF part = "head" THEN cl ELSE [cl EXCEPT ![c].out = Tail(@)]
      BY <1>2 DEF WriteLine
    <3> QED
      BY <3>1
  <2>2. q.pc = p.pc /\ q.signal = p.signal
    BY <1>1 DEF IsProcess
  <2> HIDE DEF q
  <2>3. (Alive(q) <=> Alive(p)) /\ (Halting(q) <=> Halting(p))
    BY <2>2 DEF Alive, Halting, IsStopping
  <2>4. cl' = cl => ClientsCalm
    BY DEF ClientsCalm
  <2> QED
    BY <2>1, <2>3, <2>4, OneIsCalm
<1>3. CASE Deliver(c)
  <2> DEFINE q == [p EXCEPT !.view = View(c), !.fresh = TRUE]
  <2>1. Becomes(c, q)
    BY <1>3 DEF Deliver
  <2>2. q.pc = p.pc /\ q.signal = p.signal
    BY <1>1 DEF IsProcess
  <2>3. IsProcess(q)
    BY <1>1, SomePartsKeep
  <2> HIDE DEF q
  <2>4. (Alive(q) <=> Alive(p)) /\ (Halting(q) <=> Halting(p))
    BY <2>2 DEF Alive, Halting, IsStopping
  <2>5. Puts(c, q)
    BY <2>1 DEF Becomes
  <2> QED
    BY <2>3, <2>4, <2>5, PutsCalm
<1> QED
  BY <1>2, <1>3

\* A process that ends goes through run_end and the summary, or is done.
LEMMA EndingCalm ==
    ASSUME Orderly, NEW c \in Clients,
           Ending(c) \/ Reports(c) \/ Interrupted(c) \/ Killed(c)
    PROVE  ClientsCalm
<1> DEFINE p == cl[c]
<1>1. IsProcess(p)
  BY DEF Orderly
<1>2. ASSUME NEW q, IsProcess(q), Puts(c, q), Alive(p),
             q.pc \in {"ending", "reports", "done"}
      PROVE  ClientsCalm
  <2>1. Halting(q)
    BY <1>2 DEF Halting, Alive, IsStopping
  <2> QED
    BY <1>2, <2>1, PutsCalm
<1>3. CASE Ending(c)
  <2> DEFINE r == [kind |-> "run_end", at |-> p.now, seconds |-> Durations(p),
                   final |-> p.status, decisions |-> p.stats.decisions,
                   sent |-> p.stats.sent, ok |-> p.stats.ok,
                   rejected |-> p.stats.rejected]
             q == Log(p, r)
             z == [q EXCEPT !.pc = "reports", !.link = "none"]
  <2>1. IsProcess(q)
    BY <1>1, LogKeeps
  <2>2. q = RunEnd(p)
    BY DEF RunEnd
  <2> HIDE DEF q
  <2>3. IsProcess(z) /\ z.pc = "reports"
    BY <2>1, SomePartsKeep DEF IsProcess
  <2>4. Puts(c, z) /\ p.pc = "ending"
    BY <1>3, <2>2 DEF Ending, Becomes
  <2> HIDE DEF z
  <2> QED
    BY <1>2, <2>3, <2>4 DEF Alive
<1>4. CASE Reports(c)
  <2> DEFINE sum == Written(file[c].units)
             exit == CASE p.exit # "none" -> p.exit
                       [] p.exit = "none" /\ p.final = "NONE" -> "1"
                       [] OTHER -> "0"
             q == [p EXCEPT !.pc = "done", !.summary = sum, !.exit = exit]
  <2>1. Puts(c, q) /\ p.pc = "reports"
    BY <1>4 DEF Reports, Becomes
  <2> HIDE DEF sum, exit
  <2>2. IsProcess(q) /\ q.pc = "done"
    BY <1>1, SomePartsKeep DEF IsProcess
  <2> HIDE DEF q
  <2> QED
    BY <1>2, <2>1, <2>2 DEF Alive
<1>5. CASE Interrupted(c)
  <2> DEFINE q == IF p.pc \in {"answer", "confirm"} THEN CommandRecord(p, FALSE) ELSE p
             pc == IF q.pc \in {"rotate", "create", "begin"} THEN "done" ELSE "ending"
             r == [q EXCEPT !.pc = pc, !.exit = "130", !.signal = FALSE]
  <2>1. Puts(c, r) /\ Alive(p)
    BY <1>5 DEF Interrupted, Becomes
  <2>2. IsProcess(q) /\ pc \in {"done", "ending"}
    BY <1>1, RecordKeeps
  <2> HIDE DEF q, pc
  <2>3. IsProcess(r) /\ r.pc = pc
    BY <2>2, SomePartsKeep DEF IsProcess
  <2> HIDE DEF r
  <2> QED
    BY <1>2, <2>1, <2>2, <2>3
<1>6. CASE Killed(c)
  <2>1. cl' = [cl EXCEPT ![c] = Dead(p)]
    BY <1>6 DEF Killed
  <2>2. ~Alive(Dead(p))
    BY <1>1 DEF Alive, Dead, IsProcess
  <2> QED
    BY <2>1, <2>2, OneIsCalm DEF Halting
<1> QED
  BY <1>3, <1>4, <1>5, <1>6

\* What a person may do while no orchestrator runs is all that is left.
LEMMA ClientCalm ==
    ASSUME Orderly, setup.main, NEW c \in Clients,
           ClientStep(c) \/ LinkClosed(c) \/ Mishap(c)
    PROVE  ClientsCalm
<1>1. ~StartedByHand(c)
  BY DEF StartedByHand
<1> QED
  BY <1>1, OpeningCalm, ConnectedCalm, CommandCalm, WriteCalm, EndingCalm
     DEF ClientStep, Mishap

LEMMA ServerKept ==
    ASSUME IsServer(srv), IsServer(srv'), srv'.pc = srv.pc, srv'.signal = srv.signal
    PROVE  ServerCalm
<1>1. ServerAlive' <=> ServerAlive
  BY DEF ServerAlive, ServerUp
<1> QED
  BY <1>1 DEF ServerCalm

\* Clients only put themselves on the server's lists.
LEMMA ClientServerCalm ==
    ASSUME IsServer(srv), NEW c \in Clients, ClientStep(c) \/ LinkClosed(c) \/ Mishap(c)
    PROVE  ServerCalm
<1>1. CASE srv' = srv
  BY <1>1, ServerKept
<1>2. ASSUME NEW code
      PROVE  /\ IsServer(Executed(c, code))
             /\ Executed(c, code).pc = srv.pc /\ Executed(c, code).signal = srv.signal
  BY DEF Executed, IsServer
<1>3. ASSUME NEW s, IsServer(s)
      PROVE  /\ IsServer([s EXCEPT !.ready = @ \ {c}])
             /\ [s EXCEPT !.ready = @ \ {c}].pc = s.pc
             /\ [s EXCEPT !.ready = @ \ {c}].signal = s.signal
  BY <1>3 DEF IsServer
<1>4. CASE Readiness(c)
  <2>1. srv' = [srv EXCEPT !.ready = @ \cup {c}] \/ srv' = srv
    BY <1>4 DEF Readiness
  <2>2. CASE srv' = [srv EXCEPT !.ready = @ \cup {c}]
    <3>1. IsServer(srv') /\ srv'.pc = srv.pc /\ srv'.signal = srv.signal
      BY <2>2 DEF IsServer
    <3> QED
      BY <3>1, ServerKept
  <2> QED
    BY <1>1, <2>1, <2>2
<1>5. ASSUME NEW code, Answer(c, code)
      PROVE  ServerCalm
  <2>1. srv' = srv \/ srv' = Executed(c, code)
    BY <1>5 DEF Answer
  <2> QED
    BY <1>1, <1>2, <2>1, ServerKept
<1>6. CASE LinkClosed(c)
  <2> DEFINE Next(executed) == IF executed THEN Executed(c, "OK") ELSE srv
  <2>1. PICK executed : srv' = [Next(executed) EXCEPT !.ready = @ \ {c}]
    BY Zenon, <1>6 DEF LinkClosed
  <2>2. /\ IsServer(Next(executed)) /\ Next(executed).pc = srv.pc
        /\ Next(executed).signal = srv.signal
    BY <1>2
  <2> HIDE DEF Next
  <2>3. IsServer(srv') /\ srv'.pc = srv.pc /\ srv'.signal = srv.signal
    BY <1>3, <2>1, <2>2
  <2> QED
    BY <2>3, ServerKept
<1>7. CASE Killed(c)
  <2>1. srv' = [srv EXCEPT !.ready = @ \ {c}]
    BY <1>7 DEF Killed
  <2>2. IsServer(srv') /\ srv'.pc = srv.pc /\ srv'.signal = srv.signal
    BY <1>3, <2>1
  <2> QED
    BY <2>2, ServerKept
<1>8. CASE \/ WriteLine(c) \/ Rotate(c) \/ CreateLog(c) \/ Begins(c) \/ Connecting(c)
           \/ Opened(c) \/ OpenFails(c) \/ Deliver(c) \/ FirstState(c) \/ Backoff(c)
           \/ TakeState(c) \/ Quiet(c) \/ StartedByHand(c)
  <2>1. srv' = srv
    BY <1>8 DEF WriteLine, Rotate, CreateLog, Begins, Connecting, Opened, OpenFails,
                Deliver, FirstState, Backoff, TakeState, Quiet, StartedByHand, Becomes
  <2> QED
    BY <1>1, <2>1
<1>9. CASE \/ \E act \in BOOLEAN : Decide(c, act)
           \/ Blocked(c) \/ Send(c) \/ Confirmed(c) \/ Ending(c) \/ Reports(c)
           \/ Interrupted(c)
  <2>1. srv' = srv
    BY <1>9 DEF Decide, Blocked, Send, Confirmed, Ending, Reports, Interrupted, Becomes
  <2> QED
    BY <1>1, <2>1
<1> QED
  BY <1>4, <1>5, <1>6, <1>7, <1>8, <1>9 DEF ClientStep, Mishap

LEMMA ServerStepsCalm ==
    ASSUME IsServer(srv), ServerNext \/ ServerFails
    PROVE  Calm
<1>1. ClientsCalm
  <2>1. cl' = cl
    BY DEF ServerNext, ServerFails, ServerStarts, StartRun, ServerTick, ReportWritten,
           ServerExits, ServerInterrupted
  <2> QED
    BY <2>1 DEF ClientsCalm
<1>2. ServerAlive \/ ServerUp
  BY DEF ServerNext, ServerFails, ServerStarts, StartRun, ServerTick, ReportWritten,
         ServerExits, ServerInterrupted, ServerAlive, ServerUp
<1>3. IsServer(srv')
  BY DEF IsServer, ServerNext, ServerFails, ServerStarts, StartRun, ServerTick,
         ReportWritten, ServerExits, ServerInterrupted
<1>4. srv'.signal = srv.signal
  BY DEF IsServer, ServerNext, ServerFails, ServerStarts, StartRun, ServerTick,
         ReportWritten, ServerExits, ServerInterrupted
<1> QED
  BY <1>1, <1>2, <1>3, <1>4 DEF Calm, ServerCalm, ServerAlive

-----------------------------------------------------------------------------
(* The orchestrator *)

MainParts == {"pc", "i", "err", "code", "codes", "summaries", "result", "signal"}

\* Before anything is started, and after everything was stopped.
Early == {"begin", "dashboard", "server"}
Late == {"summarise", "show", "stop_dashboard", "done"}

\* The client of every process that runs is on the roster, finally has stopped
\* those it has passed, and where the orchestrator could return, or was itself
\* told to stop, nothing runs that was not told to.
MainFits(m) ==
    /\ DOMAIN m = MainParts /\ m.i \in Nat \ {0}
    /\ setup.main \/ m.pc = "absent"
    /\ setup.main /\ (m.signal \/ m.pc \in Early \cup Late) => AllHalting
    /\ m.pc \in Early \cup {"credentials"} => m.i = 1
    /\ m.pc = "launch" => m.i <= Len(setup.roster)
    /\ m.pc = "stop" => \A j \in DOMAIN setup.roster :
                            j < m.i => ~Alive(cl[setup.roster[j]])
    /\ m.pc = "done" => ~DashboardAlive

OnRoster ==
    setup.main => \A c \in Clients :
                      Alive(cl[c]) => \E j \in DOMAIN setup.roster : setup.roster[j] = c

StopInv ==
    /\ setup \in Setups /\ Orderly
    /\ IsServer(srv) /\ {"pc", "signal"} \subseteq DOMAIN dash
    /\ OnRoster /\ MainFits(main)

LEMMA StopBegins ==
    ASSUME LiveInit
    PROVE  StopInv
<1>1. setup \in Setups /\ Orderly
  BY FeedBegins DEF FeedInv
<1>2. IsServer(srv) /\ {"pc", "signal"} \subseteq DOMAIN dash
  BY DEF LiveInit, ClientsInit, DashboardInit, IsServer
<1>3. \A c \in Clients : ~Alive(cl[c])
  BY DEF LiveInit, ClientsInit, Process, Alive
<1>4. setup.main => AllHalting
  <2>1. setup.main => ~ServerAlive
    BY DEF LiveInit, ClientsInit, ServerAlive, ServerUp
  <2> QED
    BY <1>3, <2>1 DEF AllHalting, Halting
<1>5. /\ DOMAIN main = MainParts /\ main.i = 1 /\ main.signal = FALSE
      /\ main.pc = IF setup.main THEN "begin" ELSE "absent"
  BY DEF LiveInit, MainParts
<1>6. MainFits(main)
  BY <1>4, <1>5 DEF MainFits, Early, Late
<1> QED
  BY <1>1, <1>2, <1>3, <1>6 DEF StopInv, OnRoster

\* The clients and the server go on by themselves, and the orchestrator does not.
LEMMA CalmKeepsStop ==
    ASSUME OrchestraAssumption, StopInv, setup' = setup, Orderly', setup.main => Calm,
           IsServer(srv'), {"pc", "signal"} \subseteq DOMAIN dash',
           DashboardAlive' => DashboardAlive, main' = main
    PROVE  StopInv'
<1>1. setup.main => (AllHalting => AllHalting')
  BY DEF Calm, ClientsCalm, ServerCalm, AllHalting
<1>2. setup.main => \A c \in Clients : Alive(cl'[c]) => Alive(cl[c])
  BY DEF Calm, ClientsCalm
<1>3. OnRoster'
  BY <1>2 DEF StopInv, OnRoster
<1>4. \A j \in DOMAIN setup.roster : setup.roster[j] \in Clients
  BY DEF OrchestraAssumption, StopInv
<1>5. MainFits(main) /\ setup \in Setups
  BY DEF StopInv
<1>6. MainFits(main)'
  BY <1>1, <1>2, <1>4, <1>5 DEF MainFits, Early, Late
<1> QED
  BY <1>3, <1>5, <1>6 DEF StopInv

\* Steps of the orchestrator that touch no client and no server.
LEMMA MainKeepsStop ==
    ASSUME OrchestraAssumption, StopInv, Orderly', IsServer(srv'),
           UNCHANGED <<setup, srv, cl>>, {"pc", "signal"} \subseteq DOMAIN dash',
           DOMAIN main' = MainParts, main'.i \in Nat \ {0}, setup.main,
           main'.pc \in Late \/ main'.signal => AllHalting,
           main'.pc \in Early => AllHalting,
           main'.pc \in Early \cup {"credentials"} => main'.i = 1,
           main'.pc = "launch" => main'.i <= Len(setup.roster),
           main'.pc = "stop" => \A j \in DOMAIN setup.roster :
                                    j < main'.i => ~Alive(cl[setup.roster[j]]),
           main'.pc = "done" => ~DashboardAlive'
    PROVE  StopInv'
<1>1. AllHalting' <=> AllHalting
  BY DEF AllHalting, ServerAlive, ServerUp
<1>2. MainFits(main)'
  BY <1>1 DEF MainFits, Early, Late
<1>3. OnRoster'
  BY DEF StopInv, OnRoster
<1> QED
  BY <1>2, <1>3 DEF StopInv

LEMMA MainIsIn ==
    ASSUME StopInv, main.pc # "absent"
    PROVE  /\ setup \in Setups /\ setup.main /\ DOMAIN main = MainParts
           /\ main.i \in Nat \ {0}
           /\ {"pc", "signal"} \subseteq DOMAIN dash /\ IsServer(srv)
           /\ main.signal \/ main.pc \in Early \cup Late => AllHalting
BY DEF StopInv, MainFits

\* What main becomes, by its parts.
LEMMA MainParted ==
    ASSUME DOMAIN main = MainParts
    PROVE  /\ \A pc : Moves(pc) => /\ DOMAIN main' = MainParts
                                   /\ main'.i = main.i /\ main'.pc = pc
                                   /\ main'.signal = main.signal
           /\ \A err : Fails(err) => /\ DOMAIN main' = MainParts /\ main'.i = main.i
                                     /\ main'.pc = "stop_dashboard"
                                     /\ main'.signal = main.signal
           /\ \A err : Unwinds(err) => /\ DOMAIN main' = MainParts /\ main'.i = 1
                                       /\ main'.pc = "stop" /\ main'.signal = main.signal
BY DEF Moves, Fails, Unwinds, MainParts

LEMMA StartingStops ==
    ASSUME OrchestraAssumption, StopInv, Orderly',
           MainBegins \/ AwaitDashboard \/ AwaitCredentials \/ AwaitServer
    PROVE  StopInv'
<1>1. main.pc # "absent" /\ ~main.signal
  BY DEF MainBegins, AwaitDashboard, AwaitCredentials, AwaitServer, MainTurn
<1>2. /\ setup \in Setups /\ setup.main /\ DOMAIN main = MainParts
      /\ main.i \in Nat \ {0} /\ {"pc", "signal"} \subseteq DOMAIN dash
      /\ IsServer(srv) /\ (main.pc \in Early \cup Late => AllHalting)
  BY <1>1, MainIsIn
<1>3. main.pc \in Early \cup {"credentials"} => main.i = 1
  BY DEF StopInv, MainFits
<1>4. Len(setup.roster) >= 1 /\ DOMAIN setup.roster = 1..Len(setup.roster)
  BY <1>2 DEF OrchestraAssumption
<1>5. UNCHANGED <<setup, srv, cl>>
  BY DEF MainBegins, AwaitDashboard, AwaitCredentials, AwaitServer, clientVars
<1>6. {"pc", "signal"} \subseteq DOMAIN dash'
  BY <1>2 DEF MainBegins, AwaitDashboard, AwaitCredentials, AwaitServer, dashVars
<1>7. /\ DOMAIN main' = MainParts /\ main'.signal = main.signal
      /\ \/ main.pc \in Early /\ main'.pc \in Early \cup {"stop_dashboard"} /\ main'.i = 1
         \/ main'.pc = "launch" /\ main'.i = 1
         \/ main'.pc = "stop" /\ main'.i = 1
         \/ main'.pc = "collect" /\ main'.i = main.i
  <2>1. CASE MainBegins \/ AwaitDashboard
    <3>1. main.pc \in Early
      BY <2>1 DEF MainBegins, AwaitDashboard, MainTurn, Early
    <3>2. Moves("dashboard") \/ Moves("server") \/ Fails("ValueError")
      BY <2>1 DEF MainBegins, AwaitDashboard
    <3> QED
      BY <1>2, <1>3, <3>1, <3>2, MainParted DEF Early
  <2>2. CASE AwaitCredentials
    <3>1. main.pc = "credentials"
      BY <2>2 DEF AwaitCredentials, MainTurn
    <3>2. Moves("launch") \/ \E err : Unwinds(err)
      BY Zenon, <2>2 DEF AwaitCredentials
    <3> QED
      BY <1>2, <1>3, <3>1, <3>2, MainParted
  <2>3. CASE AwaitServer
    <3>1. Moves("collect") \/ \E err : Unwinds(err)
      BY Zenon, <2>3 DEF AwaitServer
    <3> QED
      BY <1>2, <3>1, MainParted
  <2> QED
    BY <2>1, <2>2, <2>3
<1> QED
  BY <1>1, <1>2, <1>4, <1>5, <1>6, <1>7, MainKeepsStop DEF Early, Late

LEMMA EndingStops ==
    ASSUME OrchestraAssumption, StopInv, Orderly',
           Summarise \/ Show \/ StopDashboard \/ MainInterrupted
    PROVE  StopInv'
<1>1. main.pc # "absent"
  BY DEF Summarise, Show, StopDashboard, MainInterrupted, MainTurn
<1>2. /\ setup \in Setups /\ setup.main /\ DOMAIN main = MainParts
      /\ main.i \in Nat \ {0} /\ {"pc", "signal"} \subseteq DOMAIN dash
      /\ IsServer(srv) /\ (main.signal \/ main.pc \in Early \cup Late => AllHalting)
  BY <1>1, MainIsIn
<1>3. UNCHANGED <<setup, srv, cl>>
  BY DEF Summarise, Show, StopDashboard, MainInterrupted, clientVars
<1>4. {"pc", "signal"} \subseteq DOMAIN dash'
  BY <1>2 DEF Summarise, Show, StopDashboard, MainInterrupted, dashVars
<1>5. DOMAIN setup.roster = 1..Len(setup.roster)
  BY <1>2 DEF OrchestraAssumption
<1>6. CASE Summarise
  <2>1. main.pc \in Late
    BY <1>6 DEF Summarise, Late
  <2>2. Fails("ValueError") \/ \E pc \in {"show", "stop_dashboard"} : \E summaries, code :
            main' = [main EXCEPT !.result = TRUE, !.signal = FALSE,
                        !.summaries = summaries, !.code = code, !.pc = pc]
    BY Zenon, <1>6 DEF Summarise
  <2>3. /\ DOMAIN main' = MainParts /\ main'.i = main.i
        /\ main'.pc \in {"show", "stop_dashboard"}
    BY <1>2, <2>2, MainParted DEF MainParts
  <2> QED
    BY <1>2, <1>3, <1>4, <2>1, <2>3, MainKeepsStop DEF Early, Late
<1>7. CASE Show
  <2>1. main.pc \in Late /\ Moves("stop_dashboard")
    BY <1>7 DEF Show, MainTurn, Late
  <2>2. /\ DOMAIN main' = MainParts /\ main'.i = main.i /\ main'.pc = "stop_dashboard"
    BY <1>2, <2>1, MainParted
  <2> QED
    BY <1>2, <1>3, <1>4, <2>1, <2>2, MainKeepsStop DEF Early, Late
<1>8. CASE StopDashboard
  <2>1. main.pc \in Late /\ Moves("done")
    BY <1>8 DEF StopDashboard, Late
  <2>2. DOMAIN main' = MainParts /\ main'.i = main.i /\ main'.pc = "done"
    BY <1>2, <2>1, MainParted
  <2>3. ~DashboardAlive'
    BY <1>2, <1>8 DEF StopDashboard, DashboardAlive
  <2> QED
    BY <1>2, <1>3, <1>4, <2>1, <2>2, <2>3, MainKeepsStop DEF Early, Late
<1>9. CASE MainInterrupted
  <2>1. CASE Fails("KeyboardInterrupt")
    <3>1. DOMAIN main' = MainParts /\ main'.i = main.i /\ main'.pc = "stop_dashboard"
      BY <1>2, <2>1, MainParted
    <3>2. AllHalting
      BY <1>2, <1>9 DEF MainInterrupted
    <3> QED
      BY <1>2, <1>3, <1>4, <3>1, <3>2, MainKeepsStop DEF Early, Late
  <2>2. CASE main' = [main EXCEPT !.pc = "stop", !.i = 1, !.err = "KeyboardInterrupt",
                                  !.signal = FALSE]
    <3>1. /\ DOMAIN main' = MainParts /\ main'.i = 1 /\ main'.pc = "stop"
          /\ main'.signal = FALSE
      BY <1>2, <2>2 DEF MainParts
    <3> QED
      BY <1>2, <1>3, <1>4, <1>5, <3>1, MainKeepsStop DEF Early, Late
  <2> QED
    BY <1>9, <2>1, <2>2 DEF MainInterrupted
<1> QED
  BY <1>6, <1>7, <1>8, <1>9

LEMMA ServerStopCases ==
    ASSUME OrchestraAssumption, StopInv, Orderly', StartServer \/ StopServer
    PROVE  StopInv'
<1>1. main.pc # "absent" /\ ~main.signal
  BY DEF StartServer, StopServer, MainTurn
<1>2. /\ setup \in Setups /\ setup.main /\ DOMAIN main = MainParts
      /\ main.i \in Nat \ {0} /\ {"pc", "signal"} \subseteq DOMAIN dash /\ IsServer(srv)
  BY <1>1, MainIsIn
<1>3. setup' = setup /\ cl' = cl /\ dash' = dash
  BY DEF StartServer, StopServer, dashVars
<1>4. IsServer(srv')
  BY <1>2 DEF StartServer, StopServer, IsServer
<1>5. OnRoster'
  BY <1>3 DEF StopInv, OnRoster
<1>6. CASE StartServer
  <2>1. main.pc = "server" /\ Moves("credentials")
    BY <1>6 DEF StartServer, MainTurn
  <2>2. main.i = 1
    BY <2>1 DEF StopInv, MainFits, Early
  <2>3. /\ DOMAIN main' = MainParts /\ main'.i = 1 /\ main'.pc = "credentials"
        /\ ~main'.signal
    BY <1>1, <1>2, <2>1, <2>2, MainParted
  <2>4. MainFits(main)'
    BY <1>2, <1>3, <2>3 DEF MainFits, Early, Late
  <2> QED
    BY <1>2, <1>3, <1>4, <1>5, <2>4 DEF StopInv
<1>7. CASE StopServer
  <2>1. main.pc = "stop" /\ main.i > Len(setup.roster)
    BY <1>7 DEF StopServer, MainTurn
  <2>2. \A j \in DOMAIN setup.roster : j < main.i
    BY <1>2, <2>1 DEF OrchestraAssumption
  <2>3. \A c \in Clients : ~Alive(cl[c])
    BY <1>2, <2>1, <2>2 DEF StopInv, MainFits, OnRoster
  <2>4. ~ServerAlive'
    BY <1>2, <1>7 DEF StopServer, ServerAlive, ServerUp, IsServer
  <2>5. AllHalting'
    BY <1>3, <2>3, <2>4 DEF AllHalting, Halting
  <2>6. Moves("summarise") \/ Fails(main.err)
    BY <1>7 DEF StopServer
  <2>7. /\ DOMAIN main' = MainParts /\ main'.i = main.i
        /\ main'.pc \in {"summarise", "stop_dashboard"}
    BY <1>2, <2>6, MainParted
  <2>8. MainFits(main)'
    BY <1>2, <1>3, <2>5, <2>7 DEF MainFits, Early, Late
  <2> QED
    BY <1>2, <1>3, <1>4, <1>5, <2>8 DEF StopInv
<1> QED
  BY <1>6, <1>7

\* One client after another is started, awaited, or stopped.
LEMMA RosterStops ==
    ASSUME OrchestraAssumption, StopInv, Orderly', NEW c \in Clients,
           Launch(c) \/ Exited(c) \/ TimedOut(c) \/ StopClient(c)
    PROVE  StopInv'
<1>1. main.pc # "absent" /\ ~main.signal /\ c = setup.roster[main.i]
  BY DEF Launch, Exited, TimedOut, StopClient, MainTurn
<1>2. /\ setup \in Setups /\ setup.main /\ DOMAIN main = MainParts
      /\ main.i \in Nat \ {0} /\ {"pc", "signal"} \subseteq DOMAIN dash /\ IsServer(srv)
  BY <1>1, MainIsIn
<1>3. /\ DOMAIN setup.roster = 1..Len(setup.roster) /\ Len(setup.roster) \in Nat
      /\ \A j \in DOMAIN setup.roster : setup.roster[j] \in Clients
  BY <1>2 DEF OrchestraAssumption
<1>4. setup' = setup /\ srv' = srv /\ dash' = dash
  BY DEF Launch, Exited, TimedOut, StopClient, clientVars, dashVars
<1>5. IsProcess(cl[c]) /\ DOMAIN cl = Clients
  BY DEF StopInv, Orderly
<1>6. ~Alive(Terminated(cl[c]))
  BY <1>5 DEF Terminated, Alive, Dead, IsProcess
<1>7. ASSUME \A d \in Clients : Alive(cl'[d]) =>
                 Alive(cl[d]) \/ \E j \in DOMAIN setup.roster : setup.roster[j] = d,
             MainFits(main)'
      PROVE  StopInv'
  <2>1. OnRoster'
    BY <1>4, <1>7 DEF StopInv, OnRoster
  <2> QED
    BY <1>2, <1>4, <1>7, <2>1 DEF StopInv
<1>8. ASSUME NEW codes
      PROVE  LET m == NextClient([main EXCEPT !.codes[c] = codes]) IN
             /\ DOMAIN m = MainParts /\ m.signal = main.signal
             /\ \/ m.pc = main.pc /\ m.i = main.i + 1
                \/ m.pc = "stop" /\ m.i = 1
  BY <1>2 DEF NextClient, MainParts
<1>9. CASE Launch(c)
  <2>1. cl' = [cl EXCEPT ![c] = Process("rotate")] /\ main.pc = "launch"
    BY <1>9 DEF Launch, MainTurn
  <2>2. main.i \in DOMAIN setup.roster
    BY <1>2, <1>3, <2>1 DEF StopInv, MainFits
  <2>3. /\ DOMAIN main' = MainParts /\ main'.signal = main.signal
        /\ main'.i \in Nat \ {0}
        /\ \/ main'.pc = "launch" /\ main'.i <= Len(setup.roster)
           \/ main'.pc = "run"
    BY <1>2, <1>3, <1>9, <2>1 DEF Launch, MainParts
  <2>4. MainFits(main)'
    BY <1>1, <1>2, <1>4, <2>3 DEF MainFits, Early, Late
  <2>5. \A d \in Clients : d # c => cl'[d] = cl[d]
    BY <1>5, <2>1
  <2> QED
    BY <1>1, <1>7, <2>2, <2>4, <2>5
<1>10. CASE Exited(c) \/ TimedOut(c)
  <2>1. \E codes : main' = NextClient([main EXCEPT !.codes[c] = codes])
    BY Zenon, <1>10 DEF Exited, TimedOut
  <2>2. main.pc = "collect"
    BY <1>10 DEF Exited, TimedOut, MainTurn
  <2>3. /\ DOMAIN main' = MainParts /\ main'.signal = main.signal
        /\ \/ main'.pc = "collect" /\ main'.i = main.i + 1
           \/ main'.pc = "stop" /\ main'.i = 1
    BY <1>8, <2>1, <2>2
  <2>4. MainFits(main)'
    BY <1>1, <1>2, <1>3, <1>4, <2>3 DEF MainFits, Early, Late
  <2>5. cl' = cl \/ cl' = [cl EXCEPT ![c] = Terminated(cl[c])]
    BY <1>10 DEF Exited, TimedOut, clientVars
  <2>6. \A d \in Clients : Alive(cl'[d]) => Alive(cl[d])
    BY <1>5, <1>6, <2>5
  <2> QED
    BY <1>7, <2>4, <2>6
<1>11. CASE StopClient(c)
  <2>1. /\ cl' = [cl EXCEPT ![c] = Terminated(cl[c])] /\ main.pc = "stop"
        /\ main' = [main EXCEPT !.i = @ + 1]
    BY <1>11 DEF StopClient, MainTurn
  <2>2. /\ DOMAIN main' = MainParts /\ main'.signal = main.signal
        /\ main'.pc = "stop" /\ main'.i = main.i + 1
    BY <1>2, <2>1 DEF MainParts
  <2>3. \A d \in Clients : cl'[d] = IF d = c THEN Terminated(cl[c]) ELSE cl[d]
    BY <1>5, <2>1
  <2>4. \A d \in Clients : Alive(cl'[d]) => Alive(cl[d]) /\ d # c
    BY <1>6, <2>3
  <2>5. ASSUME NEW j \in DOMAIN setup.roster, j < main.i + 1
        PROVE  ~Alive(cl'[setup.roster[j]])
    <3>1. CASE j = main.i
      BY <1>1, <1>3, <2>4, <3>1
    <3>2. CASE j < main.i
      <4>1. ~Alive(cl[setup.roster[j]])
        BY <2>1, <3>2 DEF StopInv, MainFits
      <4> QED
        BY <1>3, <2>4, <4>1
    <3> QED
      BY <1>2, <1>3, <2>5, <3>1, <3>2
  <2>6. MainFits(main)'
    BY <1>1, <1>2, <1>4, <2>2, <2>5 DEF MainFits, Early, Late
  <2> QED
    BY <1>7, <2>4, <2>6
<1> QED
  BY <1>9, <1>10, <1>11

\* Ctrl+C reaches whatever runs.
LEMMA CtrlCStops ==
    ASSUME OrchestraAssumption, StopInv, Orderly', CtrlC
    PROVE  StopInv'
<1> DEFINE signals == ServerAlive
           watched == DashboardAlive
<1>1. /\ setup' = setup /\ main' = [main EXCEPT !.signal = TRUE]
      /\ srv' = [srv EXCEPT !.signal = signals]
      /\ cl' = [d \in Clients |-> [cl[d] EXCEPT !.signal = Alive(cl[d])]]
      /\ dash' = [dash EXCEPT !.signal = watched]
  BY DEF CtrlC, Use
<1>2. /\ setup \in Setups /\ DOMAIN main = MainParts /\ MainFits(main) /\ OnRoster
      /\ {"pc", "signal"} \subseteq DOMAIN dash /\ IsServer(srv)
  BY DEF StopInv, MainFits
<1>3. \A j \in DOMAIN setup.roster : setup.roster[j] \in Clients
  BY <1>2 DEF OrchestraAssumption
<1>4. IsServer(srv') /\ (ServerAlive' => srv'.signal)
  <2>1. ServerAlive <=> signals
    OBVIOUS
  <2> HIDE DEF signals
  <2>2. IsServer(srv') /\ srv'.pc = srv.pc /\ srv'.signal = signals
    BY <1>1, <1>2 DEF IsServer
  <2>3. ServerAlive' <=> ServerAlive
    BY <2>2 DEF ServerAlive, ServerUp
  <2> QED
    BY <2>1, <2>2, <2>3
<1>5. {"pc", "signal"} \subseteq DOMAIN dash' /\ dash'.pc = dash.pc
  <2> HIDE DEF watched
  <2> QED
    BY <1>1, <1>2
<1>6. DashboardAlive' <=> DashboardAlive
  BY <1>5 DEF DashboardAlive
<1>7. ASSUME NEW d \in Clients
      PROVE  (Alive(cl'[d]) <=> Alive(cl[d])) /\ Halting(cl'[d])
  <2> DEFINE p == cl[d]
             signal == Alive(p)
             q == [p EXCEPT !.signal = signal]
  <2>1. IsProcess(p)
    BY DEF StopInv, Orderly
  <2>2. cl'[d] = q
    BY <1>1
  <2>3. signal <=> Alive(p)
    OBVIOUS
  <2> HIDE DEF p, signal
  <2>4. q.pc = p.pc /\ q.signal = signal
    BY <2>1 DEF IsProcess
  <2> HIDE DEF q
  <2>5. Alive(q) <=> Alive(p)
    BY <2>4 DEF Alive
  <2>6. Halting(q)
    BY <2>3, <2>4, <2>5 DEF Halting, IsStopping
  <2> QED
    BY <2>2, <2>5, <2>6 DEF p
<1>8. AllHalting'
  BY <1>4, <1>7 DEF AllHalting
<1>9. DOMAIN main' = MainParts /\ main'.i = main.i /\ main'.pc = main.pc
  BY <1>1, <1>2 DEF MainParts
<1>10. MainFits(main)'
  BY <1>1, <1>2, <1>3, <1>6, <1>7, <1>8, <1>9 DEF MainFits
<1>11. OnRoster'
  BY <1>1, <1>2, <1>7 DEF OnRoster
<1> QED
  BY <1>1, <1>2, <1>4, <1>5, <1>10, <1>11 DEF StopInv

LEMMA StopSteps ==
    ASSUME OrchestraAssumption, StopInv, [LiveNext]_liveVars
    PROVE  StopInv'
<1>1. /\ Orderly /\ setup \in Setups /\ IsServer(srv)
      /\ {"pc", "signal"} \subseteq DOMAIN dash
  BY DEF StopInv
<1>2. CASE /\ ServerNext \/ ServerFails
                \/ \E c \in Clients : ClientStep(c) \/ LinkClosed(c) \/ Mishap(c)
           /\ UNCHANGED <<dashVars, main>>
  <2>1. setup' = setup /\ Orderly'
    BY <1>1, <1>2, ServerMoves, ClientMoves DEF FilesMove
  <2>2. ServerCalm /\ (setup.main => ClientsCalm)
    BY <1>1, <1>2, ServerStepsCalm, ClientServerCalm, ClientCalm DEF Calm
  <2>3. dash' = dash /\ main' = main
    BY <1>2 DEF dashVars
  <2>4. DashboardAlive' => DashboardAlive
    BY <2>3 DEF DashboardAlive
  <2>5. IsServer(srv')
    BY <2>2 DEF ServerCalm
  <2>6. setup.main => Calm
    BY <2>2 DEF Calm
  <2> QED
    BY <1>1, <2>1, <2>3, <2>4, <2>5, <2>6, CalmKeepsStop
<1>3. CASE MainStep
  <2>1. Orderly'
    BY <1>1, <1>3, MainMoves DEF FilesMove
  <2> QED
    BY <1>3, <2>1, StartingStops, EndingStops, ServerStopCases, RosterStops DEF MainStep
<1>4. CASE CtrlC
  <2>1. Orderly'
    BY <1>1, <1>4, CtrlCMoves DEF FilesMove
  <2> QED
    BY <1>4, <2>1, CtrlCStops
<1>5. CASE \/ DashboardStep /\ UNCHANGED main
           \/ (\E v \in Viewers : ViewerStep(v) \/ Leaves(v)) /\ UNCHANGED main
           \/ UNCHANGED liveVars
  <2>1. setup' = setup /\ cl' = cl /\ file' = file /\ srv' = srv /\ main' = main
    BY <1>5 DEF DashboardStep, DashboardStarts, DashboardInterrupted, PollReport, Publish,
                PollStat, PollRead, ViewerStep, Joins, SendFrame, Leaves, clientVars, liveVars
  <2>2. Orderly'
    BY <1>1, <2>1 DEF Orderly
  <2>3. ServerCalm /\ Calm
    BY <1>1, <2>1, ServerKept DEF Calm, ClientsCalm
  <2>4. \/ dash' = dash
        \/ DashboardAlive /\ dash' \in {[dash EXCEPT !.pc = "on"], [dash EXCEPT !.pc = "gone"]}
    BY <1>5 DEF DashboardStep, DashboardStarts, DashboardInterrupted, PollReport, Publish,
                PollStat, PollRead, ViewerStep, Joins, SendFrame, Leaves, dashVars,
                DashboardAlive, liveVars
  <2>5. /\ {"pc", "signal"} \subseteq DOMAIN dash'
        /\ DashboardAlive' => DashboardAlive
    BY <1>1, <2>4 DEF DashboardAlive
  <2> QED
    BY <1>1, <2>1, <2>2, <2>3, <2>5, CalmKeepsStop DEF ServerCalm
<1> QED
  BY <1>2, <1>3, <1>4, <1>5 DEF LiveNext, Running, Happening

\* However the orchestrator returns (a time-out, Ctrl+C in the middle of the
\* launches, a server that would not start, a log that cannot be read), its
\* finally clause has left no process running that was not told to stop: for
\* any number of planets (orchestrate's try and finally, and main).
THEOREM NothingStaysRunning ==
    ASSUME OrchestraAssumption
    PROVE  LiveSpec => []NothingIsLeft
<1>1. LiveInit => StopInv
  BY StopBegins
<1>2. StopInv /\ [LiveNext]_liveVars => StopInv'
  BY StopSteps
<1>3. StopInv => NothingIsLeft
  <2> SUFFICES ASSUME StopInv, main.pc = "done"
               PROVE  NothingLeftRunning
    BY DEF NothingIsLeft
  <2>1. main.pc # "absent"
    OBVIOUS
  <2>2. AllHalting
    BY <2>1, MainIsIn DEF Late
  <2>3. ~DashboardAlive
    BY DEF StopInv, MainFits
  <2> QED
    BY <2>2, <2>3 DEF NothingLeftRunning, AllHalting, Halting
<1> QED
  BY <1>1, <1>2, <1>3, PTL DEF LiveSpec
-----------------------------------------------------------------------------
(* What an exit code says *)

Marks == {"pc", "out", "exit", "status", "final", "snap"}

\* Before it has a session, and with one.
Joining == {"rotate", "create", "begin", "connect", "opening", "first", "ready", "backoff"}
Trading == {"think", "command", "answer", "confirm"}

\* A whole last line that ends a log, and says that the run was seen to its end.
IsHappyEnd(r) == r.kind = "run_end" /\ r.final = "finished"
EndsHappily(units) ==
    units # <<>> /\ Last(units).part = "whole" /\ IsHappyEnd(Last(units).rec)

\* How far a client with process p and this log has followed its run; unaborted
\* says that no session can be aborted any more.
Follows(p, units, unaborted) ==
    /\ Marks \subseteq DOMAIN p
    /\ p.exit # "none" => p.pc \in {"ending", "reports", "done"}
    /\ p.pc \in Joining => p.final = "NONE" \/ unaborted
    /\ p.pc \in Trading /\ p.snap.phase \in Terminal => p.status = "finished"
    /\ p.pc = "ending" /\ p.exit = "none" => p.final = "NONE" \/ p.status = "finished"
    /\ p.pc = "reports" /\ p.exit = "none" =>
          \/ p.final = "NONE"
          \/ \E r : p.out = <<r>> /\ IsHappyEnd(r)
          \/ p.out = <<>> /\ EndsHappily(units)
    /\ p.pc \in {"ending", "reports"} => p.exit # "0"
    /\ p.exit = "0" => p.pc = "done" /\ p.out = <<>> /\ EndsHappily(units)

Unaborted == "ABORTED" \notin setup.causes \/ srv.pc = "gone"

ClientsFollow == \A c \in Clients : Follows(cl[c], file[c].units, Unaborted)

\* Only a server that has finished is there to be reported.
ReportStands ==
    /\ {"pc", "report"} \subseteq DOMAIN srv
    /\ srv.report = "FINISHED" => srv.pc \in {"closing", "gone"}

\* What the orchestrator knows of its clients.
CodesFit(m) ==
    /\ DOMAIN m.codes = Clients
    /\ m.pc \in Early => ~ServerAlive /\ srv.report # "FINISHED" /\ \A c \in Clients : ~Alive(cl[c])
    /\ m.pc \in Early \cup {"credentials", "launch"} => \A c \in Clients : m.codes[c] # "0"
    /\ \A c \in Clients : m.codes[c] = "0" => cl[c].exit = "0"
    /\ m.code = "0" =>
          /\ m.pc \in Late /\ m.result /\ Clean
          /\ Range(setup.roster) \subseteq m.summaries

ZeroInv ==
    setup.main =>
        /\ "cut" \in DOMAIN left /\ ("ABORTED" \in setup.causes => left.cut = 0)
        /\ ReportStands /\ ClientsFollow /\ CodesFit(main)

\* A process with other things to write, or in another status.
Marked(p) == Marks \subseteq DOMAIN p
SameRun(p, q) == Marked(q) /\ q.exit = p.exit /\ q.final = p.final /\ q.snap = p.snap

LEMMA LogMarks ==
    ASSUME NEW p, Marked(p), NEW r
    PROVE  LET q == Log(p, r)
           IN SameRun(p, q) /\ q.pc = p.pc /\ q.status = p.status /\ q.out = Append(p.out, r)
BY DEF Log, SameRun, Marked, Marks

LEMMA EventMarks ==
    ASSUME NEW p, Marked(p), NEW event, NEW category
    PROVE  LET q == ConnectionEvent(p, event, category)
           IN SameRun(p, q) /\ q.pc = p.pc /\ q.status = p.status
BY LogMarks DEF ConnectionEvent

LEMMA StatusMarks ==
    ASSUME NEW p, Marked(p), NEW s
    PROVE  LET q == StatusSet(p, s)
           IN SameRun(p, q) /\ q.pc = p.pc /\ q.status = s
<1> DEFINE q == [p EXCEPT !.timeIn[p.status] = @ + p.now - p.since,
                          !.status = s, !.since = p.now]
<1>1. SameRun(p, q) /\ q.pc = p.pc /\ q.status = s
  BY DEF SameRun, Marked, Marks
<1> HIDE DEF q
<1>2. StatusSet(p, s) = IF s = p.status THEN p
                        ELSE Log(q, [kind |-> "status", at |-> p.now, status |-> s])
  BY DEF StatusSet, q
<1>3. \A r : SameRun(p, Log(q, r)) /\ Log(q, r).pc = p.pc /\ Log(q, r).status = s
  BY <1>1, LogMarks DEF SameRun
<1> QED
  BY <1>2, <1>3 DEF SameRun

LEMMA RecordMarks ==
    ASSUME NEW p, Marked(p), NEW confirmed
    PROVE  LET q == CommandRecord(p, confirmed)
           IN SameRun(p, q) /\ q.pc = p.pc /\ q.status = p.status
BY LogMarks DEF CommandRecord

LEMMA OutcomeMarks ==
    ASSUME NEW p, Marked(p)
    PROVE  /\ LET q == RecordOutcome(p)
              IN SameRun(p, q) /\ q.pc = p.pc /\ q.status = p.status
           /\ \A d : LET q == Elapse(p, d)
                     IN SameRun(p, q) /\ q.pc = p.pc /\ q.status = p.status
BY DEF RecordOutcome, Elapse, SameRun, Marked, Marks

LEMMA DecisionMarks ==
    ASSUME NEW p, Marked(p), NEW act
    PROVE  LET q == LogDecision(p, act)
           IN SameRun(p, q) /\ q.pc = p.pc /\ q.status = p.status
<1> DEFINE q == [p EXCEPT !.logged = p.snap.tick, !.count = @ + 1, !.seen = p.snap.trades]
<1>1. SameRun(p, q) /\ q.pc = p.pc /\ q.status = p.status
  BY DEF SameRun, Marked, Marks
<1> HIDE DEF q
<1>2. \A r : SameRun(p, Log(q, r)) /\ Log(q, r).pc = p.pc /\ Log(q, r).status = p.status
  BY <1>1, LogMarks DEF SameRun
<1> QED
  BY <1>2 DEF LogDecision, q, SameRun

\* A connection is given up for another one, or for good with a code that is
\* not zero.
GivesUp(p, q) ==
    /\ Marked(q) /\ q.final = p.final
    /\ \/ q.pc = "backoff" /\ q.exit = p.exit
       \/ q.pc = "ending" /\ q.exit \notin {"none", "0"}

LEMMA RetryMarks ==
    ASSUME NEW p, Marked(p)
    PROVE  GivesUp(p, Retry(p)) /\ Retry(p).pc = "backoff" /\ Retry(p).exit = p.exit
<1> DEFINE q == ConnectionEvent(StatusSet(p, "disconnected"), "reconnecting", "none")
<1>1. SameRun(p, q)
  BY StatusMarks, EventMarks DEF SameRun
<1> HIDE DEF q
<1>2. LET z == [q EXCEPT !.pc = "backoff", !.link = "none", !.view = NoView, !.fresh = FALSE]
      IN GivesUp(p, z) /\ z.pc = "backoff" /\ z.exit = p.exit
  BY <1>1 DEF SameRun, GivesUp, Marked, Marks
<1> QED
  BY <1>2 DEF Retry, q

LEMMA RaisesMarks ==
    ASSUME NEW p, Marked(p), NEW cause
    PROVE  GivesUp(p, Raises(p, cause))
<1> DEFINE kind == FailureKind(cause)
           q == ConnectionEvent(StatusSet(p, "disconnected"), "disconnected", kind)
           r == ConnectionEvent(StatusSet(p, "disconnected"), "failed", kind)
           z == [r EXCEPT !.pc = "ending", !.exit = ExitCode(kind)]
<1>1. SameRun(p, q) /\ SameRun(p, r)
  BY StatusMarks, EventMarks DEF SameRun
<1>2. ExitCode(kind) \notin {"none", "0"}
  <2>1. kind \in {"configuration", "authentication", "protocol", "network", "application"}
    BY DEF FailureKind
  <2> HIDE DEF kind
  <2> QED
    BY <2>1 DEF ExitCode
<1>3. Raises(p, cause) = IF kind \in Retryable THEN Retry(q) ELSE z
  BY DEF Raises, Diagnosed
<1> HIDE DEF kind, q, r
<1>4. GivesUp(p, Retry(q))
  BY <1>1, RetryMarks DEF SameRun, GivesUp
<1>5. GivesUp(p, z)
  BY <1>1, <1>2 DEF SameRun, GivesUp, Marked, Marks
<1> HIDE DEF z
<1> QED
  BY <1>3, <1>4, <1>5

LEMMA AbortsMarks ==
    ASSUME NEW p, Marked(p)
    PROVE  /\ LET z == Aborts(p)
              IN SameRun(p, z) /\ z.pc = "ending"
           /\ GivesUp(p, Breaks(p))
<1> DEFINE q == ConnectionEvent(StatusSet(p, "disconnected"), "closed", "protocol")
           r == IF p.made THEN [p EXCEPT !.attempt = 0] ELSE p
<1>1. SameRun(p, q) /\ SameRun(p, r)
  BY StatusMarks, EventMarks DEF SameRun, Marked, Marks
<1> HIDE DEF q, r
<1>2. LET z == [q EXCEPT !.pc = "ending"]
      IN SameRun(p, z) /\ z.pc = "ending"
  BY <1>1 DEF SameRun, Marked, Marks
<1>3. GivesUp(p, Retry(r))
  BY <1>1, RetryMarks DEF SameRun, GivesUp
<1> QED
  BY <1>2, <1>3 DEF Aborts, Breaks, q, r

\* The loop goes on, or ends with the phase that it has seen.
LEMMA ContinuesMarks ==
    ASSUME NEW p, Marked(p)
    PROVE  LET z == Continues(p)
           IN /\ SameRun(p, z) /\ z.status = p.status
              /\ z.pc = IF p.snap.phase \in Terminal THEN "ending" ELSE "watch"
<1> DEFINE q == ConnectionEvent(p, "closed", "none")
<1>1. SameRun(p, q) /\ q.status = p.status
  BY EventMarks DEF SameRun
<1> HIDE DEF q
<1>2. LET z == [q EXCEPT !.pc = "ending", !.attempt = 0]
      IN SameRun(p, z) /\ z.status = p.status /\ z.pc = "ending"
  BY <1>1 DEF SameRun, Marked, Marks
<1>3. LET z == [p EXCEPT !.pc = "watch"]
      IN SameRun(p, z) /\ z.status = p.status /\ z.pc = "watch"
  BY DEF SameRun, Marked, Marks
<1> QED
  BY <1>2, <1>3 DEF Continues, q

\* A process that is not where a log is ended, nor has returned 0: what it has
\* written does not matter.
Underway(p, unaborted) ==
    /\ Marked(p) /\ p.pc # "reports" /\ p.exit # "0"
    /\ p.exit # "none" => p.pc \in {"ending", "done"}
    /\ p.pc \in Joining => p.final = "NONE" \/ unaborted
    /\ p.pc \in Trading /\ p.snap.phase \in Terminal => p.status = "finished"
    /\ p.pc = "ending" /\ p.exit = "none" => p.final = "NONE" \/ p.status = "finished"

LEMMA UnderwayFollows ==
    ASSUME NEW p, NEW unaborted, Underway(p, unaborted), NEW units
    PROVE  Follows(p, units, unaborted)
BY DEF Underway, Follows, Marked

LEMMA PutsFollows ==
    ASSUME Orderly, NEW c \in Clients, NEW p, NEW unaborted,
           Follows(p, file[c].units, unaborted), Puts(c, p)
    PROVE  /\ Follows(cl'[c], file'[c].units, unaborted)
           /\ \A d \in Clients : d # c => cl'[d] = cl[d] /\ file'[d] = file[d]
<1>1. CASE setup.shared
  <2>1. cl' = [cl EXCEPT ![c] = p] /\ file' = file
    BY <1>1 DEF Puts
  <2> QED
    BY <2>1 DEF Orderly
<1>2. CASE ~setup.shared
  <2> DEFINE q == [p EXCEPT !.out = <<>>]
             t == [i \in DOMAIN p.out |-> [rec |-> p.out[i], part |-> "whole"]]
             units == file[c].units
  <2>1. cl' = [cl EXCEPT ![c] = q] /\ file' = [file EXCEPT ![c].units = units \o t]
    BY <1>2 DEF Puts
  <2>2. DOMAIN cl = Clients /\ DOMAIN file = Clients /\ IsFile(file[c])
    BY DEF Orderly
  <2>3. IsSeq(units) /\ file'[c].units = units \o t
    BY <2>1, <2>2 DEF IsFile
  <2>4. /\ Marked(q) /\ q.pc = p.pc /\ q.exit = p.exit /\ q.status = p.status
        /\ q.final = p.final /\ q.snap = p.snap /\ q.out = <<>>
    BY DEF Follows, Marked, Marks
  <2>5. ASSUME p.out = <<>>
        PROVE  units \o t = units
    <3>1. PICK S : units \in Seq(S)
      BY <2>3 DEF IsSeq
    <3>2. t = <<>>
      BY <2>5
    <3> HIDE DEF t, units
    <3> QED
      BY <3>1, <3>2
  <2>6. ASSUME NEW r, p.out = <<r>>, IsHappyEnd(r)
        PROVE  EndsHappily(units \o t)
    <3>1. PICK S : units \in Seq(S)
      BY <2>3 DEF IsSeq
    <3> DEFINE e == [rec |-> r, part |-> "whole"]
               U == S \cup {e}
    <3>2. t = <<e>>
      BY <2>6
    <3>3. e.rec = r /\ e.part = "whole" /\ units \in Seq(U) /\ e \in U
      BY <3>1
    <3> HIDE DEF e, U, t, units
    <3>4. units \o t # <<>> /\ Last(units \o t) = e
      BY <3>2, <3>3 DEF Last
    <3> QED
      BY <2>6, <3>3, <3>4 DEF EndsHappily
  <2>7. Follows(p, units, unaborted)
    OBVIOUS
  <2> HIDE DEF q, t, units
  <2>8. Follows(q, units \o t, unaborted)
    BY <2>4, <2>5, <2>6, <2>7 DEF Follows, Marked
  <2>9. cl'[c] = q /\ \A d \in Clients : d # c => cl'[d] = cl[d] /\ file'[d] = file[d]
    BY <2>1, <2>2
  <2> QED
    BY <2>3, <2>8, <2>9 DEF units
<1> QED
  BY <1>1, <1>2

\* A step on the way to a session, the end of one, and a step within one.
LEMMA JoinFollows ==
    ASSUME NEW p, NEW units, NEW unaborted, Follows(p, units, unaborted), p.pc \in Joining,
           NEW q, SameRun(p, q), q.pc \in Joining \cup {"watch"}
    PROVE  Underway(q, unaborted)
BY DEF Follows, Underway, SameRun, Joining, Trading

LEMMA GiveUpFollows ==
    ASSUME NEW p, NEW units, NEW unaborted, Follows(p, units, unaborted),
           p.pc \notin {"ending", "reports", "done"}, p.final = "NONE" \/ unaborted,
           NEW q, GivesUp(p, q)
    PROVE  Underway(q, unaborted)
BY DEF Follows, Underway, GivesUp, Joining, Trading

LEMMA TradeFollows ==
    ASSUME NEW p, NEW units, NEW unaborted, Follows(p, units, unaborted), p.pc \in Trading,
           NEW q, SameRun(p, q), q.status = p.status,
           \/ q.pc \in Trading
           \/ q.pc = IF p.snap.phase \in Terminal THEN "ending" ELSE "watch"
    PROVE  Underway(q, unaborted)
BY DEF Follows, Underway, SameRun, Joining, Trading

\* A client's step leaves it where it has followed its run, and leaves the
\* others alone.
OneFollows(c) ==
    /\ Follows(cl'[c], file'[c].units, Unaborted)
    /\ \A d \in Clients : d # c => cl'[d] = cl[d] /\ file'[d] = file[d]

LEMMA PutsUnderway ==
    ASSUME Orderly, NEW c \in Clients, NEW p, Underway(p, Unaborted), Puts(c, p)
    PROVE  OneFollows(c)
BY UnderwayFollows, PutsFollows DEF OneFollows

LEMMA JoiningFollows ==
    ASSUME Orderly, NEW c \in Clients, Follows(cl[c], file[c].units, Unaborted),
           \/ Begins(c) \/ Connecting(c) \/ Opened(c) \/ OpenFails(c)
           \/ FirstState(c) \/ Readiness(c) \/ Backoff(c)
    PROVE  OneFollows(c)
<1> DEFINE p == cl[c]
           B == Unaborted
<1>1. Marked(p) /\ Follows(p, file[c].units, B)
  BY DEF Follows, Marked
<1>2. ASSUME NEW q, SameRun(p, q), NEW pc
      PROVE  /\ LET z == [q EXCEPT !.pc = pc] IN SameRun(p, z) /\ z.pc = pc
             /\ LET z == [q EXCEPT !.pc = pc, !.made = FALSE] IN SameRun(p, z) /\ z.pc = pc
             /\ LET z == [q EXCEPT !.pc = pc, !.link = "up"] IN SameRun(p, z) /\ z.pc = pc
  BY <1>2 DEF SameRun, Marked, Marks
<1>3. ASSUME NEW q, SameRun(p, q), NEW event, NEW s
      PROVE  /\ SameRun(p, StatusSet(q, s))
             /\ SameRun(p, ConnectionEvent(StatusSet(q, s), event, "none"))
  BY <1>3, StatusMarks, EventMarks DEF SameRun
<1>4. ASSUME NEW q, SameRun(p, q), q.pc \in Joining \cup {"watch"}, Puts(c, q),
             p.pc \in Joining
      PROVE  OneFollows(c)
  BY <1>1, <1>4, JoinFollows, PutsUnderway
<1>5. SameRun(p, p) /\ \A d : SameRun(p, Elapse(p, d))
  BY <1>1, OutcomeMarks DEF SameRun
<1>6. CASE Begins(c)
  <2> DEFINE r == [kind |-> "run_start", at |-> p.now]
             q == Log(RunStart(p), [kind |-> "status", at |-> p.now, status |-> "starting"])
             z == [q EXCEPT !.pc = "connect"]
  <2>1. Puts(c, z) /\ p.pc = "begin"
    BY <1>6 DEF Begins, Becomes, Turn, Starts
  <2>2. SameRun(p, RunStart(p))
    BY <1>1, LogMarks DEF RunStart
  <2>3. SameRun(p, q)
    BY <2>2, LogMarks DEF SameRun
  <2> HIDE DEF q
  <2>4. SameRun(p, z) /\ z.pc = "connect"
    BY <1>2, <2>3
  <2> HIDE DEF z, p
  <2> QED
    BY <1>4, <2>1, <2>4 DEF Joining
<1>7. CASE Connecting(c)
  <2> DEFINE r == [p EXCEPT !.attempt = @ + 1]
             q == ConnectionEvent(StatusSet(r, "connecting"), "connecting", "none")
             z == [q EXCEPT !.pc = "opening", !.made = FALSE]
  <2>1. Puts(c, z) /\ p.pc = "connect"
    BY <1>7 DEF Connecting, Turn
  <2>2. SameRun(p, r)
    BY <1>1 DEF SameRun, Marked, Marks
  <2> HIDE DEF r
  <2>3. SameRun(p, q)
    BY <1>3, <2>2
  <2> HIDE DEF q
  <2>4. SameRun(p, z) /\ z.pc = "opening"
    BY <1>2, <2>3
  <2> HIDE DEF z, p
  <2> QED
    BY <1>4, <2>1, <2>4 DEF Joining
<1>8. CASE Opened(c)
  <2> DEFINE q == ConnectionEvent(StatusSet(Elapse(p, 1), "connected"), "connected", "none")
             z == [q EXCEPT !.pc = "first", !.link = "up"]
  <2>1. Puts(c, z) /\ p.pc = "opening"
    BY <1>8 DEF Opened, Becomes, Turn
  <2>3. SameRun(p, q)
    BY <1>3, <1>5
  <2> HIDE DEF q
  <2>4. SameRun(p, z) /\ z.pc = "first"
    BY <1>2, <2>3
  <2> HIDE DEF z, p
  <2> QED
    BY <1>4, <2>1, <2>4 DEF Joining
<1>9. CASE OpenFails(c)
  <2> DEFINE q == Elapse(p, 1)
  <2>1. PICK cause : Puts(c, Raises(q, cause))
    BY <1>9 DEF OpenFails, Becomes
  <2>2. p.pc = "opening"
    BY <1>9 DEF OpenFails, Turn
  <2>3. SameRun(p, q)
    BY <1>5
  <2> HIDE DEF q
  <2>4. GivesUp(p, Raises(q, cause))
    BY <2>3, RaisesMarks DEF GivesUp, SameRun
  <2> HIDE DEF p
  <2>5. Underway(Raises(q, cause), B)
    <3>1. p.final = "NONE" \/ B
      BY <1>1, <2>2 DEF Follows, Joining
    <3> QED
      BY <1>1, <2>2, <2>4, <3>1, GiveUpFollows
  <2> QED
    BY <2>1, <2>5, PutsUnderway
<1>10. CASE FirstState(c)
  <2> DEFINE q == StatusSet(p, "authenticated")
             z == [q EXCEPT !.pc = "ready"]
  <2>1. Puts(c, z) /\ p.pc = "first"
    BY <1>10 DEF FirstState, Becomes, Turn
  <2>3. SameRun(p, q)
    BY <1>3, <1>5
  <2> HIDE DEF q
  <2>4. SameRun(p, z) /\ z.pc = "ready"
    BY <1>2, <2>3
  <2> HIDE DEF z, p
  <2> QED
    BY <1>4, <2>1, <2>4 DEF Joining
<1>11. CASE Readiness(c)
  <2> DEFINE q == StatusSet(p, "synchronized")
             z == [q EXCEPT !.pc = "watch"]
  <2>1. /\ p.pc = "ready" /\ ServerUp
        /\ Puts(c, z) \/ ("ABORTED" \in setup.causes /\ Puts(c, Aborts(p)))
    BY <1>11 DEF Readiness, Turn
  <2>2. CASE Puts(c, z)
    <3>3. SameRun(p, q)
      BY <1>3, <1>5
    <3> HIDE DEF q
    <3>4. SameRun(p, z) /\ z.pc = "watch"
      BY <1>2, <3>3
    <3> HIDE DEF z, p
    <3> QED
      BY <1>4, <2>1, <2>2, <3>4 DEF Joining
  <2>3. CASE "ABORTED" \in setup.causes /\ Puts(c, Aborts(p))
    <3>1. ~B
      BY <2>1, <2>3 DEF Unaborted, ServerUp
    <3>2. SameRun(p, Aborts(p)) /\ Aborts(p).pc = "ending"
      BY <1>1, AbortsMarks
    <3> HIDE DEF p
    <3>3. p.final = "NONE" /\ p.exit = "none"
      BY <1>1, <2>1, <3>1 DEF Follows, Joining
    <3>4. Underway(Aborts(p), B)
      BY <3>2, <3>3 DEF Underway, SameRun, Joining, Trading
    <3> QED
      BY <2>3, <3>4, PutsUnderway
  <2> QED
    BY <2>1, <2>2, <2>3
<1>12. CASE Backoff(c)
  <2> DEFINE q == Elapse(p, BackoffDelay(p.attempt))
             z == [q EXCEPT !.pc = "connect"]
  <2>1. Puts(c, z) /\ p.pc = "backoff"
    BY <1>12 DEF Backoff, Becomes, Turn
  <2>3. SameRun(p, q)
    BY <1>5
  <2> HIDE DEF q
  <2>4. SameRun(p, z) /\ z.pc = "connect"
    BY <1>2, <2>3
  <2> HIDE DEF z, p
  <2> QED
    BY <1>4, <2>1, <2>4 DEF Joining
<1> QED
  BY <1>6, <1>7, <1>8, <1>9, <1>10, <1>11, <1>12

\* What it thinks about, and what it has decided.
LEMMA WatchingFollows ==
    ASSUME Orderly, NEW c \in Clients, Follows(cl[c], file[c].units, Unaborted),
           TakeState(c) \/ Quiet(c) \/ Deliver(c)
    PROVE  OneFollows(c)
<1> DEFINE p == cl[c]
           B == Unaborted
<1>1. Marked(p) /\ Follows(p, file[c].units, B)
  BY DEF Follows, Marked
<1>2. CASE TakeState(c)
  <2> DEFINE v == p.view
             q == StatusSet(p, StatusOf(v.phase))
             r == [q EXCEPT !.heard = p.now, !.phase = v.phase]
             may == /\ setup.answers # {} /\ v.phase = "RUNNING" /\ p.link = "up"
                    /\ p.quota < v.tick
             z == [r EXCEPT !.pc = "think", !.snap = v, !.fresh = FALSE,
                            !.final = v.phase, !.may = may]
  <2>1. Puts(c, z) /\ p.pc = "watch"
    BY <1>2 DEF TakeState, Becomes, Turn, OnState
  <2>2. v.phase \in Terminal => StatusOf(v.phase) = "finished"
    BY DEF StatusOf, Terminal
  <2>3. SameRun(p, q) /\ q.status = StatusOf(v.phase)
    BY <1>1, StatusMarks
  <2>4. p.exit = "none"
    BY <1>1, <2>1 DEF Follows
  <2> HIDE DEF q, may, v
  <2>5. /\ Marked(z) /\ z.pc = "think" /\ z.snap = v /\ z.exit = p.exit
        /\ z.status = StatusOf(v.phase)
    BY <2>3 DEF SameRun, Marked, Marks
  <2> HIDE DEF z, p
  <2>6. Underway(z, B)
    BY <2>2, <2>4, <2>5 DEF Underway, Joining, Trading
  <2> QED
    BY <2>1, <2>6, PutsUnderway
<1>3. CASE Quiet(c)
  <2> DEFINE q == Elapse(p, 1)
  <2>1. Puts(c, CheckStale(q)) /\ p.pc = "watch"
    BY <1>3 DEF Quiet, Turn
  <2>2. SameRun(p, q) /\ q.pc = p.pc
    BY <1>1, OutcomeMarks
  <2> HIDE DEF q
  <2>3. SameRun(p, CheckStale(q)) /\ CheckStale(q).pc = "watch"
    BY <2>1, <2>2, StatusMarks DEF CheckStale, SameRun
  <2>4. p.exit = "none"
    BY <1>1, <2>1 DEF Follows
  <2> HIDE DEF p
  <2>5. Underway(CheckStale(q), B)
    BY <2>3, <2>4 DEF Underway, SameRun, Joining, Trading
  <2> QED
    BY <2>1, <2>5, PutsUnderway
<1>4. CASE Deliver(c)
  <2> DEFINE z == [p EXCEPT !.view = View(c), !.fresh = TRUE]
  <2>1. Puts(c, z)
    BY <1>4 DEF Deliver, Becomes
  <2>2. SameRun(p, z) /\ z.pc = p.pc /\ z.status = p.status /\ z.out = p.out
    BY <1>1 DEF SameRun, Marked, Marks
  <2> HIDE DEF z, p
  <2>3. Follows(z, file[c].units, B)
    BY <1>1, <2>2 DEF Follows, SameRun, Marked
  <2> QED
    BY <2>1, <2>3, PutsFollows DEF OneFollows
<1> QED
  BY <1>2, <1>3, <1>4

LEMMA TradingFollows ==
    ASSUME Orderly, NEW c \in Clients, Follows(cl[c], file[c].units, Unaborted),
           \/ \E act \in BOOLEAN : Decide(c, act)
           \/ Blocked(c) \/ Send(c) \/ Confirmed(c)
           \/ \E code \in {"OK", "REFUSED", "PROTOCOL"} : Answer(c, code)
    PROVE  OneFollows(c)
<1> DEFINE p == cl[c]
           B == Unaborted
           On(q) == SameRun(p, q) /\ q.status = p.status
<1>1. Marked(p) /\ Follows(p, file[c].units, B)
  BY DEF Follows, Marked
<1>2. On(p)
  BY <1>1 DEF SameRun
<1>3. ASSUME NEW q, On(q)
      PROVE  /\ On(Continues(q))
             /\ Continues(q).pc = IF p.snap.phase \in Terminal THEN "ending" ELSE "watch"
             /\ \A confirmed : On(CommandRecord(q, confirmed))
             /\ On(RecordOutcome(q))
  BY <1>3, ContinuesMarks, RecordMarks, OutcomeMarks DEF SameRun
<1>4. ASSUME NEW q, On(q), q.pc \in Trading \/ q.pc = Continues(p).pc,
             p.pc \in Trading, Puts(c, q)
      PROVE  OneFollows(c)
  <2>1. Underway(q, B)
    BY <1>1, <1>2, <1>3, <1>4, TradeFollows
  <2> QED
    BY <1>4, <2>1, PutsUnderway
<1>5. ASSUME NEW q, On(q), Puts(c, Continues(q)), p.pc \in Trading
      PROVE  OneFollows(c)
  <2>1. On(Continues(q)) /\ Continues(q).pc = Continues(p).pc
    BY <1>2, <1>3, <1>5
  <2> HIDE DEF On
  <2> QED
    BY <1>4, <1>5, <2>1
<1>6. ASSUME NEW act \in BOOLEAN, Decide(c, act)
      PROVE  OneFollows(c)
  <2> DEFINE l == LogDecision(p, act)
             q == [l EXCEPT !.made = TRUE, !.stats.decisions = @ + 1]
             cmd == [id |-> IF IsLogged(p, act) THEN q.count ELSE 0,
                     answer |-> "NO_ANSWER", seq |-> 0, txn |-> 0]
             z == [q EXCEPT !.pc = "command", !.cmd = cmd]
  <2>1. p.pc = "think" /\ Puts(c, IF act THEN z ELSE Continues(q))
    BY <1>6 DEF Decide, Becomes, Turn
  <2>2. On(l)
    BY <1>1, DecisionMarks
  <2> HIDE DEF l
  <2>3. On(q)
    BY <2>2 DEF SameRun, Marked, Marks
  <2> HIDE DEF q, cmd
  <2>4. On(z) /\ z.pc = "command"
    BY <2>3 DEF SameRun, Marked, Marks
  <2> HIDE DEF z, On, p
  <2> QED
    BY <1>4, <1>5, <2>1, <2>3, <2>4 DEF Trading
<1>7. CASE Blocked(c)
  <2>1. p.pc = "command" /\ Puts(c, Continues(CommandRecord(p, FALSE)))
    BY <1>7 DEF Blocked, Becomes, Turn
  <2>2. On(CommandRecord(p, FALSE))
    BY <1>2, <1>3
  <2> HIDE DEF On, p
  <2> QED
    BY <1>5, <2>1, <2>2 DEF Trading
<1>8. CASE Send(c)
  <2> DEFINE z == [p EXCEPT !.pc = "answer", !.quota = p.view.tick]
  <2>1. p.pc = "command" /\ Puts(c, z)
    BY <1>8 DEF Send, Becomes, Turn
  <2>2. On(z) /\ z.pc = "answer"
    BY <1>1 DEF SameRun, Marked, Marks
  <2> HIDE DEF z, On, p
  <2> QED
    BY <1>4, <2>1, <2>2 DEF Trading
<1>9. CASE Confirmed(c)
  <2>1. p.pc = "confirm" /\ Puts(c, Continues(CommandRecord(RecordOutcome(p), TRUE)))
    BY <1>9 DEF Confirmed, Becomes, Turn
  <2>2. On(CommandRecord(RecordOutcome(p), TRUE))
    BY <1>2, <1>3
  <2> HIDE DEF On, p
  <2> QED
    BY <1>5, <2>1, <2>2 DEF Trading
<1>10. ASSUME NEW code, Answer(c, code)
       PROVE  OneFollows(c)
  <2> DEFINE txn == IF code = "OK" THEN srv.trades[c] + 1 ELSE 0
             q == [p EXCEPT !.cmd.answer = code, !.cmd.seq = srv.seq + 1, !.cmd.txn = txn]
             z == [q EXCEPT !.pc = "confirm"]
             w == CommandRecord(RecordOutcome(q), FALSE)
  <2>1. p.pc = "answer" /\ Puts(c, IF code = "PROTOCOL" THEN Continues(w) ELSE z)
    BY <1>10 DEF Answer, Turn
  <2> HIDE DEF txn
  <2>2. On(q)
    BY <1>1 DEF SameRun, Marked, Marks
  <2> HIDE DEF q
  <2>3. On(z) /\ z.pc = "confirm"
    BY <2>2 DEF SameRun, Marked, Marks
  <2>4. On(w)
    BY <1>3, <2>2
  <2> HIDE DEF z, w, On, p
  <2> QED
    BY <1>4, <1>5, <2>1, <2>3, <2>4 DEF Trading
<1> QED
  BY <1>6, <1>7, <1>8, <1>9, <1>10

\* A connection that ends after its client has taken a state is not followed by
\* one whose session is aborted.
LEMMA LinkFollows ==
    ASSUME Orderly, NEW c \in Clients, Follows(cl[c], file[c].units, Unaborted),
           "ABORTED" \in setup.causes => left.cut = 0, LinkClosed(c)
    PROVE  OneFollows(c)
<1> DEFINE p == cl[c]
           B == Unaborted
           w == CommandRecord(p, FALSE)
           z == [p EXCEPT !.link = "dead"]
<1>1. Marked(p) /\ Follows(p, file[c].units, B)
  BY DEF Follows, Marked
<1>2. B
  <2>1. srv.pc = "gone" \/ left.cut > 0
    BY DEF LinkClosed, LinkEnds, Use
  <2> QED
    BY <2>1 DEF Unaborted
<1>3. /\ p.pc \in {"first", "ready", "watch", "think", "command", "answer", "confirm"}
      /\ Puts(c, Told(p))
  BY DEF LinkClosed
<1>4. GivesUp(p, Raises(p, "closed")) /\ GivesUp(p, Breaks(p)) /\ GivesUp(p, Raises(w, "closed"))
  <2>1. SameRun(p, w)
    BY <1>1, RecordMarks
  <2> HIDE DEF w, p
  <2>2. GivesUp(w, Raises(w, "closed"))
    BY <2>1, RaisesMarks DEF SameRun
  <2> QED
    BY <1>1, <2>1, <2>2, RaisesMarks, AbortsMarks DEF GivesUp, SameRun
<1>5. SameRun(p, z) /\ z.pc = p.pc /\ z.status = p.status
  BY <1>1 DEF SameRun, Marked, Marks
<1>6. GivesUp(p, Told(p)) \/ (Told(p) = z /\ p.pc \in {"watch", "think", "command"})
  BY <1>3, <1>4 DEF Told
<1>7. p.exit = "none"
  BY <1>1, <1>3 DEF Follows
<1> HIDE DEF p, z, B
<1>8. Underway(Told(p), B)
  <2>1. CASE GivesUp(p, Told(p))
    BY <1>1, <1>2, <1>3, <2>1, GiveUpFollows
  <2>2. CASE Told(p) = z /\ p.pc = "watch"
    BY <1>5, <1>7, <2>2 DEF Underway, SameRun, Joining, Trading
  <2>3. CASE Told(p) = z /\ p.pc \in Trading
    BY <1>1, <1>5, <2>3, TradeFollows
  <2> QED
    BY <1>6, <2>1, <2>2, <2>3 DEF Trading
<1> QED
  BY <1>3, <1>8, PutsUnderway DEF B

\* The line that ends a log is written whole.
LEMMA WritingFollows ==
    ASSUME Orderly, NEW c \in Clients, Follows(cl[c], file[c].units, Unaborted), WriteLine(c)
    PROVE  OneFollows(c)
<1> DEFINE p == cl[c]
           B == Unaborted
           units == file[c].units
           r == Head(p.out)
           q == [p EXCEPT !.out = Tail(@)]
<1>1. Marked(p) /\ Follows(p, units, B)
  BY DEF Follows, Marked
<1>2. DOMAIN cl = Clients /\ DOMAIN file = Clients /\ IsFile(file[c])
  BY DEF Orderly
<1>3. p.out # <<>>
  BY DEF WriteLine
<1>4. PICK part :
          /\ ~IsLong(r) => part = "whole"
          /\ file' = [file EXCEPT ![c].units = Append(units, [rec |-> r, part |-> part])]
          /\ cl' = IF part = "head" THEN cl ELSE [cl EXCEPT ![c] = q]
  BY DEF WriteLine
<1> DEFINE e == [rec |-> r, part |-> part]
<1>5. /\ \A d \in Clients : d # c => cl'[d] = cl[d] /\ file'[d] = file[d]
      /\ file'[c].units = Append(units, e)
      /\ cl'[c] = p \/ cl'[c] = q
      /\ part = "whole" => cl'[c] = q
  BY <1>2, <1>4 DEF IsFile
<1>6. /\ Marked(q) /\ q.pc = p.pc /\ q.exit = p.exit /\ q.status = p.status
      /\ q.final = p.final /\ q.snap = p.snap /\ q.out = Tail(p.out)
  BY <1>1 DEF Marked, Marks
<1>7. p.exit # "0"
  BY <1>1, <1>3 DEF Follows
<1>8. ASSUME p.pc = "reports", p.exit = "none", p.final # "NONE"
      PROVE  q.out = <<>> /\ part = "whole" /\ EndsHappily(Append(units, e))
  <2>1. PICK s : p.out = <<s>> /\ IsHappyEnd(s)
    BY <1>1, <1>3, <1>8 DEF Follows
  <2>2. r = s /\ q.out = <<>>
    BY <1>6, <2>1
  <2>3. part = "whole"
    BY <1>4, <2>1, <2>2 DEF IsLong, IsHappyEnd
  <2>4. PICK S : units \in Seq(S)
    BY <1>2 DEF IsFile, IsSeq
  <2>5. e.rec = s /\ e.part = "whole"
    BY <2>2, <2>3
  <2> HIDE DEF e, units
  <2>6. Append(units, e) # <<>> /\ Last(Append(units, e)) = e
    BY <2>4 DEF Last
  <2> QED
    BY <2>1, <2>2, <2>3, <2>5, <2>6 DEF EndsHappily
<1> HIDE DEF p, q, e, units
<1>9. Follows(cl'[c], Append(units, e), B)
  BY <1>1, <1>5, <1>6, <1>7, <1>8 DEF Follows, Marked
<1> QED
  BY <1>5, <1>9 DEF OneFollows

\* The log is opened, and at the end closed and summarised; or the process is
\* stopped on the way.
LEMMA ClosingFollows ==
    ASSUME Orderly, NEW c \in Clients, Follows(cl[c], file[c].units, Unaborted),
           Rotate(c) \/ CreateLog(c) \/ Interrupted(c) \/ Killed(c)
    PROVE  OneFollows(c)
<1> DEFINE p == cl[c]
           B == Unaborted
<1>1. Marked(p) /\ Follows(p, file[c].units, B)
  BY DEF Follows, Marked
<1>2. DOMAIN cl = Clients /\ DOMAIN file = Clients
  BY DEF Orderly
<1>3. ASSUME NEW q, cl' = [cl EXCEPT ![c] = q], Underway(q, B),
             \A d \in Clients : d # c => file'[d] = file[d]
      PROVE  OneFollows(c)
  BY <1>2, <1>3, UnderwayFollows DEF OneFollows
<1>4. ASSUME NEW pc \in {"create", "begin"}, cl' = [cl EXCEPT ![c].pc = pc],
             p.pc \in {"rotate", "create"}, \A d \in Clients : d # c => file'[d] = file[d]
      PROVE  OneFollows(c)
  <2> DEFINE q == [p EXCEPT !.pc = pc]
  <2>1. SameRun(p, q) /\ q.pc = pc
    BY <1>1 DEF SameRun, Marked, Marks
  <2>2. cl' = [cl EXCEPT ![c] = q]
    BY <1>4
  <2> HIDE DEF q, p
  <2>3. Underway(q, B)
    BY <1>1, <1>4, <2>1, JoinFollows DEF Joining
  <2> QED
    BY <1>3, <1>4, <2>2, <2>3
<1>5. CASE Rotate(c)
  <2>1. p.pc = "rotate" /\ cl' = [cl EXCEPT ![c].pc = "create"]
    BY <1>5 DEF Rotate, Turn
  <2>2. \A d \in Clients : d # c => file'[d] = file[d]
    BY <1>2, <1>5 DEF Rotate
  <2> QED
    BY <1>4, <2>1, <2>2
<1>6. CASE CreateLog(c)
  <2>1. p.pc = "create" /\ cl' = [cl EXCEPT ![c].pc = "begin"]
    BY <1>6 DEF CreateLog, Turn
  <2>2. \A d \in Clients : d # c => file'[d] = file[d]
    BY <1>2, <1>6 DEF CreateLog
  <2> QED
    BY <1>4, <2>1, <2>2
<1>7. CASE Interrupted(c)
  <2> DEFINE q == IF p.pc \in {"answer", "confirm"} THEN CommandRecord(p, FALSE) ELSE p
             pc == IF q.pc \in {"rotate", "create", "begin"} THEN "done" ELSE "ending"
             z == [q EXCEPT !.pc = pc, !.exit = "130", !.signal = FALSE]
  <2>1. Puts(c, z)
    BY <1>7 DEF Interrupted, Becomes
  <2>2. SameRun(p, q) /\ pc \in {"done", "ending"}
    BY <1>1, RecordMarks DEF SameRun
  <2> HIDE DEF q, pc
  <2>3. Marked(z) /\ z.pc = pc /\ z.exit = "130"
    BY <2>2 DEF SameRun, Marked, Marks
  <2> HIDE DEF z
  <2>4. Underway(z, B)
    BY <2>2, <2>3 DEF Underway, Joining, Trading
  <2> QED
    BY <2>1, <2>4, PutsUnderway
<1>8. CASE Killed(c)
  <2> DEFINE z == Dead(p)
  <2>1. cl' = [cl EXCEPT ![c] = z] /\ file' = file
    BY <1>8 DEF Killed
  <2>2. Marked(z) /\ z.pc = "done" /\ z.exit = "killed"
    BY <1>1 DEF Dead, Marked, Marks
  <2> HIDE DEF z
  <2>3. Underway(z, B)
    BY <2>2 DEF Underway, Joining, Trading
  <2> QED
    BY <1>3, <2>1, <2>3
<1> QED
  BY <1>5, <1>6, <1>7, <1>8

LEMMA EndFollows ==
    ASSUME Orderly, NEW c \in Clients, Follows(cl[c], file[c].units, Unaborted),
           Ending(c) \/ Reports(c)
    PROVE  OneFollows(c)
<1> DEFINE p == cl[c]
           B == Unaborted
           units == file[c].units
<1>1. Marked(p) /\ Follows(p, units, B) /\ p.out = <<>>
  BY DEF Follows, Marked, Ending, Reports
<1>2. ASSUME NEW q, Puts(c, q), Follows(q, units, B)
      PROVE  OneFollows(c)
  BY <1>2, PutsFollows DEF OneFollows
<1>3. CASE Ending(c)
  <2> DEFINE r == [kind |-> "run_end", at |-> p.now, seconds |-> Durations(p),
                   final |-> p.status, decisions |-> p.stats.decisions,
                   sent |-> p.stats.sent, ok |-> p.stats.ok,
                   rejected |-> p.stats.rejected]
             q == Log(p, r)
             z == [q EXCEPT !.pc = "reports", !.link = "none"]
  <2>1. Puts(c, z) /\ p.pc = "ending"
    BY <1>3 DEF Ending, Becomes, RunEnd
  <2>2. r.kind = "run_end" /\ r.final = p.status
    OBVIOUS
  <2> HIDE DEF r
  <2>3. SameRun(p, q) /\ q.out = Append(p.out, r)
    BY <1>1, LogMarks
  <2>4. q.out = <<r>>
    BY <1>1, <2>3
  <2> HIDE DEF q
  <2>5. /\ Marked(z) /\ z.pc = "reports" /\ z.exit = p.exit /\ z.final = p.final
        /\ z.out = <<r>>
    BY <2>3, <2>4 DEF SameRun, Marked, Marks
  <2> HIDE DEF z, p, units
  <2>6. Follows(z, units, B)
    BY <1>1, <2>1, <2>2, <2>5 DEF Follows, Marked, IsHappyEnd, Joining, Trading
  <2> QED
    BY <1>2, <2>1, <2>6
<1>4. CASE Reports(c)
  <2> DEFINE sum == Written(units)
             exit == CASE p.exit # "none" -> p.exit
                       [] p.exit = "none" /\ p.final = "NONE" -> "1"
                       [] OTHER -> "0"
             z == [p EXCEPT !.pc = "done", !.summary = sum, !.exit = exit]
  <2>1. Puts(c, z) /\ p.pc = "reports"
    BY <1>4 DEF Reports, Becomes
  <2> HIDE DEF p, units, sum
  <2>2. exit # "0" \/ EndsHappily(units)
    BY <1>1, <2>1 DEF Follows
  <2> HIDE DEF exit
  <2>3. Marked(z) /\ z.pc = "done" /\ z.exit = exit /\ z.out = <<>>
    BY <1>1 DEF Marked, Marks
  <2> HIDE DEF z
  <2>4. Follows(z, units, B)
    BY <2>2, <2>3 DEF Follows, Marked, Joining, Trading
  <2> QED
    BY <1>2, <2>1, <2>4
<1> QED
  BY <1>3, <1>4

\* Clients change neither how far the server is nor its report.
SameServer == /\ DOMAIN srv' = DOMAIN srv
              /\ srv'.pc = srv.pc /\ srv'.report = srv.report

LEMMA ClientsOnServer ==
    ASSUME {"pc", "report"} \subseteq DOMAIN srv,
           NEW c \in Clients, ClientStep(c) \/ LinkClosed(c) \/ Mishap(c)
    PROVE  SameServer /\ setup' = setup
<1>1. ASSUME NEW s, DOMAIN s = DOMAIN srv, s.pc = srv.pc, s.report = srv.report
      PROVE  LET z == [s EXCEPT !.ready = @ \ {c}]
             IN DOMAIN z = DOMAIN srv /\ z.pc = srv.pc /\ z.report = srv.report
  BY <1>1
<1>2. ASSUME NEW code
      PROVE  LET z == Executed(c, code)
             IN DOMAIN z = DOMAIN srv /\ z.pc = srv.pc /\ z.report = srv.report
  BY DEF Executed
<1>3. CASE Readiness(c)
  <2>1. (srv' = [srv EXCEPT !.ready = @ \cup {c}] \/ srv' = srv) /\ setup' = setup
    BY <1>3 DEF Readiness
  <2> QED
    BY <2>1 DEF SameServer
<1>4. ASSUME NEW code, Answer(c, code)
      PROVE  SameServer /\ setup' = setup
  <2>1. (srv' = srv \/ srv' = Executed(c, code)) /\ setup' = setup
    BY <1>4 DEF Answer
  <2> QED
    BY <1>2, <2>1 DEF SameServer
<1>5. CASE LinkClosed(c)
  <2> DEFINE Next(executed) == IF executed THEN Executed(c, "OK") ELSE srv
  <2>1. setup' = setup /\ \E executed : srv' = [Next(executed) EXCEPT !.ready = @ \ {c}]
    BY Zenon, <1>5 DEF LinkClosed
  <2>2. PICK executed : srv' = [Next(executed) EXCEPT !.ready = @ \ {c}]
    BY <2>1
  <2>3. /\ DOMAIN Next(executed) = DOMAIN srv /\ Next(executed).pc = srv.pc
        /\ Next(executed).report = srv.report
    BY <1>2
  <2> HIDE DEF Next
  <2> QED
    BY <1>1, <2>1, <2>2, <2>3 DEF SameServer
<1>6. CASE Killed(c)
  <2>1. srv' = [srv EXCEPT !.ready = @ \ {c}] /\ setup' = setup
    BY <1>6 DEF Killed
  <2> QED
    BY <1>1, <2>1 DEF SameServer
<1>7. CASE \/ WriteLine(c) \/ Rotate(c) \/ CreateLog(c) \/ Begins(c) \/ Connecting(c)
           \/ Opened(c) \/ OpenFails(c) \/ Deliver(c) \/ FirstState(c) \/ Backoff(c)
           \/ TakeState(c) \/ Quiet(c) \/ StartedByHand(c)
  <2>1. srv' = srv /\ setup' = setup
    BY <1>7 DEF WriteLine, Rotate, CreateLog, Begins, Connecting, Opened, OpenFails,
                Deliver, FirstState, Backoff, TakeState, Quiet, StartedByHand, Becomes
  <2> QED
    BY <2>1 DEF SameServer
<1>8. CASE \/ \E act \in BOOLEAN : Decide(c, act)
           \/ Blocked(c) \/ Send(c) \/ Confirmed(c) \/ Ending(c) \/ Reports(c)
           \/ Interrupted(c)
  <2>1. srv' = srv /\ setup' = setup
    BY <1>8 DEF Decide, Blocked, Send, Confirmed, Ending, Reports, Interrupted, Becomes
  <2> QED
    BY <2>1 DEF SameServer
<1> QED
  BY <1>3, <1>4, <1>5, <1>6, <1>7, <1>8 DEF ClientStep, Mishap

\* A process that has returned does nothing more.
LEMMA ReturnedIsOver ==
    ASSUME setup.main, NEW c \in Clients, ClientStep(c) \/ LinkClosed(c) \/ Mishap(c)
    PROVE  cl[c].pc # "done" \/ cl[c].out # <<>>
<1>1. CASE \/ WriteLine(c) \/ Rotate(c) \/ CreateLog(c) \/ Begins(c) \/ Connecting(c)
           \/ Opened(c) \/ OpenFails(c) \/ Deliver(c) \/ FirstState(c) \/ Readiness(c)
           \/ Backoff(c) \/ TakeState(c) \/ Quiet(c) \/ StartedByHand(c)
  BY <1>1 DEF WriteLine, Rotate, CreateLog, Begins, Connecting, Opened, OpenFails, Deliver,
              FirstState, Readiness, Backoff, TakeState, Quiet, StartedByHand, Turn
<1>2. CASE \/ \E act \in BOOLEAN : Decide(c, act)
           \/ Blocked(c) \/ Send(c) \/ Confirmed(c) \/ Ending(c) \/ Reports(c)
           \/ Interrupted(c) \/ Killed(c) \/ LinkClosed(c)
           \/ \E code \in {"OK", "REFUSED", "PROTOCOL"} : Answer(c, code)
  BY <1>2 DEF Decide, Blocked, Send, Confirmed, Ending, Reports, Interrupted, Killed,
              LinkClosed, Answer, Turn, Alive
<1> QED
  BY <1>1, <1>2 DEF ClientStep, Mishap

\* How often something may happen is only used up.
LEMMA UsedUp ==
    ASSUME "cut" \in DOMAIN left, left' = left \/ \E what : Use(what)
    PROVE  "cut" \in DOMAIN left' /\ (left.cut = 0 => left'.cut = 0)
BY DEF Use

\* What a step keeps whoever takes it, as far as the exit codes go.
Carried ==
    /\ setup' = setup /\ (left' = left \/ \E what : Use(what))
    /\ ReportStands' /\ (srv.report = "FINISHED" => srv'.report = "FINISHED")
    /\ ~ServerAlive /\ srv.report # "FINISHED" => ~ServerAlive' /\ srv'.report # "FINISHED"
    /\ \A c \in Clients : /\ cl[c].exit = "0" => cl'[c].exit = "0"
                          /\ Alive(cl'[c]) => Alive(cl[c])
    /\ ClientsFollow'

LEMMA FollowsMore ==
    ASSUME NEW p, NEW units, NEW unaborted, Follows(p, units, unaborted),
           NEW more, unaborted => more
    PROVE  Follows(p, units, more)
BY DEF Follows

LEMMA ClientsCarry ==
    ASSUME Orderly, setup.main, ZeroInv, NEW c \in Clients,
           ClientStep(c) \/ LinkClosed(c) \/ Mishap(c)
    PROVE  Carried
<1>1. /\ "ABORTED" \in setup.causes => left.cut = 0
      /\ ReportStands /\ ClientsFollow
  BY DEF ZeroInv
<1>2. SameServer /\ setup' = setup
  BY <1>1, ClientsOnServer DEF ReportStands
<1>3. left' = left \/ \E what : Use(what)
  <2>1. CASE \/ WriteLine(c) \/ Rotate(c) \/ CreateLog(c) \/ Begins(c) \/ Connecting(c)
             \/ Opened(c) \/ OpenFails(c) \/ Deliver(c) \/ FirstState(c) \/ Readiness(c)
             \/ Backoff(c) \/ TakeState(c) \/ Quiet(c) \/ StartedByHand(c)
    BY Zenon, <2>1 DEF WriteLine, Rotate, CreateLog, Begins, Connecting, Opened, OpenFails,
                       Deliver, FirstState, Readiness, Backoff, TakeState, Quiet,
                       StartedByHand, Becomes
  <2>2. CASE \/ \E act \in BOOLEAN : Decide(c, act)
             \/ Blocked(c) \/ Send(c) \/ Confirmed(c) \/ Ending(c) \/ Reports(c)
             \/ Interrupted(c) \/ Killed(c) \/ LinkClosed(c)
             \/ \E code \in {"OK", "REFUSED", "PROTOCOL"} : Answer(c, code)
    BY Zenon, <2>2 DEF Decide, Blocked, Send, Confirmed, Ending, Reports, Interrupted, Killed,
                       LinkClosed, LinkEnds, Answer, Becomes
  <2> QED
    BY <2>1, <2>2 DEF ClientStep, Mishap
<1>4. \A d \in Clients : Follows(cl[d], file[d].units, Unaborted)
  BY <1>1 DEF ClientsFollow
<1>5. OneFollows(c)
  <2>1. ~StartedByHand(c)
    BY DEF StartedByHand
  <2> QED
    BY <1>1, <1>4, <2>1, JoiningFollows, WatchingFollows, TradingFollows, LinkFollows,
       WritingFollows, ClosingFollows, EndFollows DEF ClientStep, Mishap
<1>6. Unaborted => Unaborted'
  BY <1>2 DEF SameServer, Unaborted
<1>7. ClientsFollow'
  <2>1. \A d \in Clients : Follows(cl'[d], file'[d].units, Unaborted)
    BY <1>4, <1>5 DEF OneFollows
  <2> QED
    BY <1>6, <2>1, FollowsMore DEF ClientsFollow
<1>8. \A d \in Clients : cl[d].exit = "0" => cl'[d].exit = "0"
  <2>1. cl[c].exit # "0"
    BY <1>4, ReturnedIsOver DEF Follows
  <2> QED
    BY <1>5, <2>1 DEF OneFollows
<1>9. \A d \in Clients : Alive(cl'[d]) => Alive(cl[d])
  BY ClientCalm DEF ClientsCalm
<1>10. (ServerAlive' <=> ServerAlive) /\ ReportStands' /\ srv'.report = srv.report
  BY <1>1, <1>2 DEF SameServer, ServerAlive, ServerUp, ReportStands
<1> QED
  BY <1>2, <1>3, <1>7, <1>8, <1>9, <1>10 DEF Carried

\* The report is finished by a server that then closes, and by no other.
LEMMA ServerCarries ==
    ASSUME ZeroInv, setup.main, ServerNext \/ ServerFails
    PROVE  Carried
<1>1. ReportStands /\ ClientsFollow
  BY DEF ZeroInv
<1>2. setup' = setup /\ left' = left /\ cl' = cl /\ file' = file
  BY DEF ServerNext, ServerFails, ServerStarts, StartRun, ServerTick, ReportWritten,
         ServerExits, ServerInterrupted
<1>3. /\ ReportStands' /\ (srv.report = "FINISHED" => srv'.report = "FINISHED")
      /\ ServerAlive /\ srv.pc # "gone"
  <2>1. CASE ServerStarts \/ StartRun \/ ServerFails
    <3>1. /\ {"pc", "report"} \subseteq DOMAIN srv' /\ srv'.report = srv.report
          /\ srv.pc # "gone" /\ ServerAlive
          /\ srv.pc = "closing" => srv'.pc = "gone"
      <4>1. CASE ServerStarts
        BY <1>1, <4>1 DEF ServerStarts, ReportStands, ServerAlive
      <4>2. CASE StartRun
        BY <1>1, <4>2 DEF StartRun, ReportStands, ServerAlive, ServerUp
      <4>3. CASE ServerFails
        BY <1>1, <4>3 DEF ServerFails, ReportStands, ServerAlive, ServerUp
      <4> QED
        BY <2>1, <4>1, <4>2, <4>3
    <3> QED
      BY <1>1, <3>1 DEF ReportStands, ServerAlive, ServerUp
  <2>2. CASE ServerTick
    <3> DEFINE report == IF setup.main THEN "TORN" ELSE srv.report
    <3>1. /\ srv.pc = "running"
          /\ \/ srv' = [srv EXCEPT !.pc = "reporting", !.tick = @ + 1, !.phase = "FINISHED",
                                   !.report = report]
             \/ srv' = [srv EXCEPT !.tick = @ + 1, !.seq = @ + 1]
      BY <2>2 DEF ServerTick
    <3>2. report # "FINISHED"
      OBVIOUS
    <3> HIDE DEF report
    <3> QED
      BY <1>1, <3>1, <3>2 DEF ReportStands, ServerAlive, ServerUp
  <2>3. CASE ReportWritten
    <3> DEFINE report == IF setup.main THEN "FINISHED" ELSE srv.report
    <3>1. /\ srv.pc = "reporting"
          /\ srv' = [srv EXCEPT !.pc = "closing", !.seq = @ + 1, !.report = report]
      BY <2>3 DEF ReportWritten
    <3> HIDE DEF report
    <3> QED
      BY <1>1, <3>1 DEF ReportStands, ServerAlive, ServerUp
  <2>4. CASE ServerExits \/ ServerInterrupted
    BY <1>1, <2>4 DEF ServerExits, ServerInterrupted, ReportStands, ServerAlive, ServerUp
  <2> QED
    BY <2>1, <2>2, <2>3, <2>4 DEF ServerNext
<1>4. Unaborted => Unaborted'
  BY <1>2, <1>3 DEF Unaborted
<1>5. ClientsFollow'
  BY <1>1, <1>2, <1>4, FollowsMore DEF ClientsFollow
<1> QED
  BY <1>2, <1>3, <1>5 DEF Carried

\* A dashboard looks on; a signal is only noted.
LEMMA OthersCarry ==
    ASSUME Orderly, ZeroInv, setup.main,
           \/ DashboardStep
           \/ \E v \in Viewers : ViewerStep(v) \/ Leaves(v)
           \/ CtrlC \/ UNCHANGED liveVars
    PROVE  Carried
<1>1. ReportStands /\ ClientsFollow
  BY DEF ZeroInv
<1>2. CASE \/ DashboardStep \/ (\E v \in Viewers : ViewerStep(v) \/ Leaves(v))
           \/ UNCHANGED liveVars
  <2>1. /\ setup' = setup /\ cl' = cl /\ file' = file /\ srv' = srv
        /\ left' = left \/ \E what : Use(what)
    BY Zenon, <1>2 DEF DashboardStep, DashboardStarts, DashboardInterrupted, PollReport, Publish,
                PollStat, PollRead, ViewerStep, Joins, SendFrame, Leaves, clientVars, liveVars
  <2> QED
    BY <1>1, <2>1 DEF Carried, ReportStands, ServerAlive, ServerUp, ClientsFollow, Unaborted
<1>3. CASE CtrlC
  <2> DEFINE alive == ServerAlive
  <2>1. /\ setup' = setup /\ file' = file /\ Use("interrupt")
        /\ srv' = [srv EXCEPT !.signal = alive]
        /\ cl' = [d \in Clients |-> [cl[d] EXCEPT !.signal = Alive(cl[d])]]
    BY <1>3 DEF CtrlC
  <2> HIDE DEF alive
  <2>2. /\ {"pc", "report"} \subseteq DOMAIN srv'
        /\ srv'.pc = srv.pc /\ srv'.report = srv.report
    BY <1>1, <2>1 DEF ReportStands
  <2>3. ASSUME NEW d \in Clients
        PROVE  /\ Follows(cl'[d], file'[d].units, Unaborted)
               /\ cl'[d].exit = cl[d].exit /\ (Alive(cl'[d]) <=> Alive(cl[d]))
    <3> DEFINE p == cl[d]
               signal == Alive(p)
               q == [p EXCEPT !.signal = signal]
    <3>1. Follows(p, file[d].units, Unaborted)
      BY <1>1 DEF ClientsFollow
    <3>2. cl'[d] = q
      BY <2>1
    <3> HIDE DEF signal
    <3>3. /\ SameRun(p, q) /\ q.pc = p.pc /\ q.status = p.status /\ q.out = p.out
      BY <3>1 DEF Follows, SameRun, Marked, Marks
    <3> HIDE DEF q, p
    <3>4. Follows(q, file[d].units, Unaborted)
      BY <3>1, <3>3 DEF Follows, SameRun, Marked
    <3>5. Alive(q) <=> Alive(p)
      BY <3>3 DEF Alive
    <3> QED
      BY <2>1, <3>2, <3>3, <3>4, <3>5 DEF p, SameRun
  <2>4. (Unaborted' <=> Unaborted) /\ (ServerAlive' <=> ServerAlive) /\ ReportStands'
    BY <1>1, <2>1, <2>2 DEF Unaborted, ServerAlive, ServerUp, ReportStands
  <2>5. ClientsFollow'
    BY <2>3, <2>4, FollowsMore DEF ClientsFollow
  <2> QED
    BY <2>1, <2>2, <2>3, <2>4, <2>5 DEF Carried
<1> QED
  BY <1>2, <1>3

LEMMA CarriedZero ==
    ASSUME setup.main, ZeroInv, Carried,
           main'.pc = main.pc, main'.codes = main.codes, main'.code = main.code,
           main'.result = main.result, main'.summaries = main.summaries
    PROVE  ZeroInv'
<1>1. /\ "cut" \in DOMAIN left' /\ ("ABORTED" \in setup'.causes => left'.cut = 0)
      /\ ReportStands' /\ ClientsFollow'
  BY UsedUp DEF ZeroInv, Carried
<1>2. CodesFit(main) /\ setup' = setup
  BY DEF ZeroInv, Carried
<1>3. Clean => Clean'
  BY DEF Clean, Carried
<1>4. CodesFit(main)'
  BY <1>2, <1>3 DEF CodesFit, Carried
<1> QED
  BY <1>1, <1>4 DEF ZeroInv

\* The orchestrator starts processes that have yet to follow a run, and ends
\* those that no longer will.
MainKeeps ==
    /\ setup' = setup /\ left' = left /\ ReportStands' /\ ClientsFollow'
    /\ \/ main.pc = "launch"
       \/ \A c \in Clients : cl[c].exit = "0" => cl'[c].exit = "0"

LEMMA MainCarries ==
    ASSUME Orderly, ZeroInv, setup.main, MainStep
    PROVE  MainKeeps
<1>1. /\ ReportStands /\ ClientsFollow /\ CodesFit(main)
      /\ DOMAIN cl = Clients /\ DOMAIN file = Clients
  BY DEF ZeroInv, Orderly
<1>2. ASSUME NEW c \in Clients, NEW p, Follows(p, file[c].units, Unaborted),
             cl' = [cl EXCEPT ![c] = p], UNCHANGED <<setup, left, srv, file>>,
             main.pc = "launch" \/ cl[c].exit # "0" \/ p = cl[c]
      PROVE  MainKeeps
  <2>1. \A d \in Clients : cl'[d] = IF d = c THEN p ELSE cl[d]
    BY <1>1, <1>2
  <2>2. \A d \in Clients : Follows(cl'[d], file[d].units, Unaborted)
    BY <1>1, <1>2, <2>1 DEF ClientsFollow
  <2>3. (Unaborted' <=> Unaborted) /\ ReportStands'
    BY <1>1, <1>2 DEF Unaborted, ReportStands
  <2>4. ClientsFollow'
    BY <1>2, <2>2, <2>3, FollowsMore DEF ClientsFollow
  <2> QED
    BY <1>2, <2>1, <2>3, <2>4 DEF MainKeeps
<1>3. ASSUME UNCHANGED <<setup, left, cl, srv, file>>
      PROVE  MainKeeps
  BY <1>1, <1>3 DEF MainKeeps, ReportStands, ClientsFollow, Unaborted
<1>4. ASSUME NEW c \in Clients, Launch(c)
      PROVE  MainKeeps
  <2> DEFINE p == Process("rotate")
  <2>1. Marked(p) /\ p.pc = "rotate" /\ p.exit = "none" /\ p.final = "NONE"
    BY DEF Process, Marked, Marks
  <2>2. /\ cl' = [cl EXCEPT ![c] = p] /\ UNCHANGED <<setup, left, srv, file>>
        /\ main.pc = "launch"
    BY <1>4 DEF Launch, MainTurn
  <2> HIDE DEF p
  <2>3. Underway(p, Unaborted)
    BY <2>1 DEF Underway, Joining, Trading
  <2> QED
    BY <1>2, <2>2, <2>3, UnderwayFollows
<1>5. ASSUME NEW c \in Clients, TimedOut(c) \/ StopClient(c)
      PROVE  MainKeeps
  <2> DEFINE p == cl[c]
             z == Dead(p)
  <2>1. /\ cl' = [cl EXCEPT ![c] = IF Alive(p) THEN z ELSE p]
        /\ UNCHANGED <<setup, left, srv, file>>
    BY <1>5 DEF TimedOut, StopClient, Terminated
  <2>2. Follows(p, file[c].units, Unaborted)
    BY <1>1 DEF ClientsFollow
  <2>3. Marked(z) /\ z.pc = "done" /\ z.exit = "killed"
    BY <2>2 DEF Dead, Follows, Marked, Marks
  <2>4. cl[c] = p
    OBVIOUS
  <2> HIDE DEF z, p
  <2>5. Underway(z, Unaborted)
    BY <2>3 DEF Underway, Joining, Trading
  <2>6. CASE Alive(p)
    <3>1. p.exit # "0"
      BY <2>2, <2>6 DEF Follows, Alive
    <3> QED
      BY <1>2, <2>1, <2>4, <2>5, <2>6, <3>1, UnderwayFollows
  <2>7. CASE ~Alive(p)
    BY <1>2, <2>1, <2>2, <2>4, <2>7
  <2> QED
    BY <2>6, <2>7
<1>6. CASE \/ MainBegins \/ AwaitDashboard \/ AwaitCredentials \/ AwaitServer
           \/ (\E c \in Clients : Exited(c))
           \/ Summarise \/ Show \/ StopDashboard \/ MainInterrupted
  BY <1>3, <1>6 DEF MainBegins, AwaitDashboard, AwaitCredentials, AwaitServer, Exited,
                    Summarise, Show, StopDashboard, MainInterrupted, clientVars
<1>7. CASE StartServer
  <2>1. /\ srv' = [srv EXCEPT !.pc = "starting"] /\ main.pc = "server"
        /\ UNCHANGED <<setup, left, cl, file>>
    BY <1>7 DEF StartServer, MainTurn
  <2>2. srv.report # "FINISHED" /\ \A c \in Clients : ~Alive(cl[c])
    BY <1>1, <2>1 DEF CodesFit, Early
  <2>3. ReportStands'
    BY <1>1, <2>1, <2>2 DEF ReportStands
  <2>4. \A c \in Clients : Follows(cl[c], file[c].units, FALSE)
    BY <1>1, <2>2 DEF ClientsFollow, Follows, Alive, Joining
  <2>5. ClientsFollow'
    BY <2>1, <2>4, FollowsMore DEF ClientsFollow
  <2> QED
    BY <2>1, <2>3, <2>5 DEF MainKeeps
<1>8. CASE StopServer
  <2>1. /\ srv' = srv \/ srv' = [srv EXCEPT !.pc = "gone", !.exit = "killed"]
        /\ UNCHANGED <<setup, left, cl, file>>
    BY <1>8 DEF StopServer
  <2>2. ReportStands' /\ (Unaborted => Unaborted')
    BY <1>1, <2>1 DEF ReportStands, Unaborted
  <2>3. ClientsFollow'
    BY <1>1, <2>1, <2>2, FollowsMore DEF ClientsFollow
  <2> QED
    BY <2>1, <2>2, <2>3 DEF MainKeeps
<1> QED
  BY <1>4, <1>5, <1>6, <1>7, <1>8 DEF MainStep

\* A client that returned 0 leaves a log that load and write_reports take.
LEMMA HappyIsWritten ==
    ASSUME NEW units, EndsHappily(units)
    PROVE  /\ Written(units) = "SUMMARY"
           /\ HasEnded(units) /\ Last(units).rec.final = "finished"
BY DEF EndsHappily, IsHappyEnd, Written, Parses, HasEnded

\* What is left of what the orchestrator knows when it has not come to its result.
LEMMA NoResultYet ==
    ASSUME CodesFit(main), main.pc \notin Late \/ main.code # "0",
           DOMAIN main'.codes = Clients, main'.pc \notin Early, main'.code # "0",
           main'.pc \in {"credentials", "launch"} => \A c \in Clients : main'.codes[c] # "0",
           \A c \in Clients : main'.codes[c] = "0" => cl'[c].exit = "0"
    PROVE  CodesFit(main)'
BY DEF CodesFit

LEMMA CodesKept ==
    ASSUME OrchestraAssumption, StopInv, ZeroInv, MainStep
    PROVE  CodesFit(main)'
<1>1. main.pc # "absent"
  BY DEF MainStep, MainBegins, AwaitDashboard, StartServer, AwaitCredentials, AwaitServer,
         Launch, Exited, TimedOut, StopClient, StopServer, Summarise, Show, StopDashboard,
         MainInterrupted, MainTurn
<1>2. /\ setup.main /\ DOMAIN main = MainParts /\ Orderly /\ setup \in Setups
      /\ \A d \in Range(setup.roster) : d \in Clients
  <2>1. setup.main /\ DOMAIN main = MainParts /\ setup \in Setups
    BY <1>1, MainIsIn
  <2>2. \A j \in DOMAIN setup.roster : setup.roster[j] \in Clients
    BY <2>1 DEF OrchestraAssumption
  <2> QED
    BY <2>1, <2>2 DEF StopInv, Range
<1>3. /\ ReportStands /\ ClientsFollow /\ CodesFit(main) /\ MainKeeps
      /\ DOMAIN main.codes = Clients
      /\ main.pc \notin Late => main.code # "0"
  BY <1>2, MainCarries DEF ZeroInv, CodesFit
<1>4. ASSUME NEW err
      PROVE  CodeFor(err) # "0"
  BY DEF CodeFor
<1>5. ASSUME NEW err, Fails(err)
      PROVE  /\ main'.pc = "stop_dashboard" /\ main'.codes = main.codes /\ main'.code # "0"
  BY <1>2, <1>4, <1>5 DEF Fails, MainParts
<1>6. ASSUME NEW pc, Moves(pc)
      PROVE  /\ main'.pc = pc /\ main'.codes = main.codes /\ main'.code = main.code
             /\ main'.result = main.result /\ main'.summaries = main.summaries
  BY <1>2, <1>6 DEF Moves, MainParts
<1>7. ASSUME NEW err, Unwinds(err)
      PROVE  main'.pc = "stop" /\ main'.codes = main.codes /\ main'.code = main.code
  BY <1>2, <1>7 DEF Unwinds, MainParts
<1>8. ASSUME main'.codes = main.codes, main.pc \notin Late, main.pc # "launch",
             main'.pc \notin Early, main'.code # "0",
             main'.pc \in {"credentials", "launch"} => main.pc \in {"server", "credentials"}
      PROVE  CodesFit(main)'
  BY <1>3, <1>8, NoResultYet DEF MainKeeps, CodesFit, Early
<1>9. CASE MainBegins \/ AwaitDashboard
  <2>1. main.pc \in Early \ {"server"} /\ cl' = cl /\ srv' = srv
    BY <1>9 DEF MainBegins, AwaitDashboard, MainTurn, Early, clientVars
  <2>2. main.pc \notin Late /\ main.pc # "launch"
    BY <2>1 DEF Early, Late
  <2>3. CASE Fails("ValueError")
    BY <1>5, <1>8, <2>2, <2>3 DEF Early
  <2>4. CASE Moves("dashboard") \/ Moves("server")
    <3>1. /\ main'.pc \in Early /\ main'.codes = main.codes /\ main'.code # "0"
      BY <1>3, <1>6, <2>2, <2>4 DEF Early
    <3> QED
      BY <1>3, <2>1, <3>1 DEF CodesFit, Early, ServerAlive, ServerUp
  <2> QED
    BY <1>9, <2>3, <2>4 DEF MainBegins, AwaitDashboard
<1>10. CASE StartServer \/ AwaitCredentials \/ AwaitServer
  <2>1. /\ main.pc \in {"server", "credentials", "run"}
        /\ \/ Moves("credentials") /\ main.pc = "server"
           \/ Moves("launch") /\ main.pc = "credentials"
           \/ Moves("collect")
           \/ \E err : Unwinds(err)
    BY Zenon, <1>10 DEF StartServer, AwaitCredentials, AwaitServer, MainTurn
  <2>2. /\ main'.codes = main.codes /\ main'.code = main.code
        /\ main'.pc \in {"credentials", "launch", "collect", "stop"}
        /\ main'.pc \in {"credentials", "launch"} => main.pc \in {"server", "credentials"}
    BY <1>6, <1>7, <2>1
  <2>3. main.pc \notin Late
    BY <2>1 DEF Late
  <2> QED
    BY <1>3, <1>8, <2>1, <2>2, <2>3 DEF Early
<1>11. CASE \E c \in Clients : Launch(c)
  <2>1. /\ main.pc = "launch"
        /\ main' = [main EXCEPT !.i = @ + 1] \/ main' = [main EXCEPT !.i = 1, !.pc = "run"]
    BY <1>11 DEF Launch, MainTurn
  <2>2. main'.codes = main.codes /\ main'.code = main.code /\ main'.pc \in {"launch", "run"}
    BY <1>2, <2>1 DEF MainParts
  <2>3. (\A d \in Clients : main.codes[d] # "0") /\ main.code # "0"
    BY <1>3, <2>1 DEF CodesFit, Late
  <2> QED
    BY <1>3, <2>1, <2>2, <2>3, NoResultYet DEF Early, Late
<1>12. ASSUME NEW c \in Clients, Exited(c) \/ TimedOut(c)
       PROVE  CodesFit(main)'
  <2> DEFINE m(code) == [main EXCEPT !.codes[c] = code]
  <2>1. PICK code : main' = NextClient(m(code)) /\ (code = "0" => cl[c].exit = "0")
    <3>1. main' = NextClient(m(cl[c].exit)) \/ main' = NextClient(m("timed out"))
      BY <1>12 DEF Exited, TimedOut
    <3>2. \E code \in {cl[c].exit, "timed out"} : main' = NextClient(m(code))
      BY Zenon, <3>1
    <3>3. PICK code \in {cl[c].exit, "timed out"} : main' = NextClient(m(code))
      BY <3>2
    <3>4. code = "0" => cl[c].exit = "0"
      BY <3>3
    <3> QED
      BY Zenon, <3>3, <3>4
  <2>2. main.pc = "collect"
    BY <1>12 DEF Exited, TimedOut, MainTurn
  <2>3. /\ DOMAIN m(code) = MainParts /\ m(code).codes = [main.codes EXCEPT ![c] = code]
        /\ m(code).pc = main.pc /\ m(code).code = main.code
    BY <1>2 DEF MainParts
  <2> HIDE DEF m
  <2>4. /\ main'.codes = [main.codes EXCEPT ![c] = code] /\ main'.code = main.code
        /\ main'.pc \in {"collect", "stop"}
    BY <2>1, <2>2, <2>3 DEF NextClient, MainParts
  <2>5. /\ DOMAIN main'.codes = Clients
        /\ \A d \in Clients : main'.codes[d] = IF d = c THEN code ELSE main.codes[d]
    BY <1>3, <2>4
  <2>6. \A d \in Clients : main'.codes[d] = "0" => cl'[d].exit = "0"
    BY <1>3, <2>1, <2>2, <2>5 DEF MainKeeps, CodesFit
  <2> QED
    BY <1>3, <2>2, <2>4, <2>5, <2>6, NoResultYet DEF Early, Late
<1>13. CASE \E c \in Clients : StopClient(c)
  <2>1. main.pc = "stop" /\ main' = [main EXCEPT !.i = @ + 1]
    BY <1>13 DEF StopClient, MainTurn
  <2>2. main'.codes = main.codes /\ main'.code = main.code /\ main'.pc = "stop"
    BY <1>2, <2>1 DEF MainParts
  <2> QED
    BY <1>3, <1>8, <2>1, <2>2 DEF Early, Late
<1>14. CASE StopServer
  <2>1. main.pc = "stop" /\ (Moves("summarise") \/ Fails(main.err))
    BY <1>14 DEF StopServer, MainTurn
  <2>2. main.code # "0"
    BY <1>3, <2>1 DEF Late
  <2>3. /\ main'.codes = main.codes /\ main'.code # "0"
        /\ main'.pc \in {"summarise", "stop_dashboard"}
    BY <1>5, <1>6, <2>1, <2>2
  <2> QED
    BY <1>8, <2>1, <2>3 DEF Early, Late
<1>15. CASE Show \/ StopDashboard
  <2>1. /\ Moves("stop_dashboard") \/ Moves("done")
        /\ main.pc \in Late /\ srv' = srv /\ setup' = setup
    BY <1>15 DEF Show, StopDashboard, MainTurn, Late, clientVars
  <2>2. /\ main'.codes = main.codes /\ main'.code = main.code
        /\ main'.result = main.result /\ main'.summaries = main.summaries
        /\ main'.pc \in {"stop_dashboard", "done"}
    BY <1>6, <2>1
  <2>3. Clean' <=> Clean
    BY <2>1, <2>2 DEF Clean
  <2> QED
    BY <1>3, <2>1, <2>2, <2>3 DEF CodesFit, MainKeeps, Early, Late
<1>16. CASE MainInterrupted
  <2>1. CASE Fails("KeyboardInterrupt")
    <3>1. \A d \in Clients : main.codes[d] = "0" => cl'[d].exit = "0"
      BY <1>3, <1>16 DEF MainInterrupted, MainKeeps, CodesFit
    <3> QED
      BY <1>3, <1>5, <2>1, <3>1 DEF CodesFit, Early
  <2>2. CASE /\ main.pc \in {"credentials", "launch", "run", "collect"}
             /\ main' = [main EXCEPT !.pc = "stop", !.i = 1, !.err = "KeyboardInterrupt",
                                     !.signal = FALSE]
    <3>1. main'.codes = main.codes /\ main'.code = main.code /\ main'.pc = "stop"
      BY <1>2, <2>2 DEF MainParts
    <3>2. main.pc \notin Late
      BY <2>2 DEF Late
    <3>3. \A d \in Clients : main.codes[d] = "0" => cl'[d].exit = "0"
      BY <1>3, <2>2 DEF MainKeeps, CodesFit
    <3> QED
      BY <1>3, <3>1, <3>2, <3>3, NoResultYet DEF Early
  <2> QED
    BY <1>16, <2>1, <2>2 DEF MainInterrupted
<1>17. CASE Summarise
  <2>1. main.pc = "summarise" /\ srv' = srv /\ cl' = cl /\ setup' = setup
    BY <1>17 DEF Summarise, clientVars
  <2>2. CASE Fails("ValueError")
    BY <1>3, <1>5, <2>1, <2>2 DEF CodesFit, Early
  <2>3. ASSUME NEW summaries, summaries = {c \in Range(setup.roster) :
                                              Written(file[c].units) = "SUMMARY"},
               NEW code, code = "0" => Clean, NEW pc \in {"show", "stop_dashboard"},
               main' = [main EXCEPT !.result = TRUE, !.signal = FALSE,
                            !.summaries = summaries, !.code = code, !.pc = pc]
        PROVE  CodesFit(main)'
    <3>1. /\ main'.codes = main.codes /\ main'.code = code /\ main'.pc = pc
          /\ main'.result = TRUE /\ main'.summaries = summaries
      BY <1>2, <2>3 DEF MainParts
    <3>2. Clean' <=> Clean
      BY <2>1, <3>1 DEF Clean
    <3>3. Clean => Range(setup.roster) \subseteq summaries
      <4> SUFFICES ASSUME Clean, NEW c \in Range(setup.roster)
                   PROVE  Written(file[c].units) = "SUMMARY"
        BY <2>3
      <4>1. c \in Clients /\ main.codes[c] = "0"
        BY <1>2 DEF Clean
      <4>2. cl[c].exit = "0"
        BY <1>3, <4>1 DEF CodesFit
      <4>3. EndsHappily(file[c].units)
        BY <1>3, <4>1, <4>2 DEF ClientsFollow, Follows
      <4> QED
        BY <4>3, HappyIsWritten
    <3> QED
      BY <1>3, <2>1, <2>3, <3>1, <3>2, <3>3 DEF CodesFit, Early, Late
  <2>4. \/ Fails("ValueError")
        \/ \E summaries \in {{c \in Range(setup.roster) : Written(file[c].units) = "SUMMARY"}} :
           \E code \in {IF Clean THEN "0" ELSE "1"} :
           \E pc \in {"show", "stop_dashboard"} :
              main' = [main EXCEPT !.result = TRUE, !.signal = FALSE,
                            !.summaries = summaries, !.code = code, !.pc = pc]
    BY Zenon, <1>17 DEF Summarise
  <2> QED
    BY <2>2, <2>3, <2>4
<1> QED
  BY <1>9, <1>10, <1>11, <1>12, <1>13, <1>14, <1>15, <1>16, <1>17 DEF MainStep

LEMMA ZeroBegins ==
    ASSUME AbortAssumption, LiveInit
    PROVE  ZeroInv
<1>1. /\ setup \in Setups /\ left = setup.limits
      /\ {"pc", "report"} \subseteq DOMAIN srv /\ srv.report = "NONE"
      /\ setup.main => srv.pc = "off"
      /\ cl = [c \in Clients |-> Process("off")]
  BY DEF LiveInit, ClientsInit
<1>2. /\ DOMAIN main.codes = Clients /\ \A c \in Clients : main.codes[c] = "none"
      /\ main.code = "none"
  BY DEF LiveInit
<1>3. /\ Marked(Process("off")) /\ Process("off").pc = "off"
      /\ Process("off").exit = "none" /\ Process("off").final = "NONE"
  BY DEF Process, Marked, Marks
<1>4. Underway(Process("off"), Unaborted)
  BY <1>3 DEF Underway, Joining, Trading
<1>5. ClientsFollow
  BY <1>1, <1>4, UnderwayFollows DEF ClientsFollow
<1>6. setup.main => CodesFit(main)
  BY <1>1, <1>2, <1>3 DEF CodesFit, ServerAlive, ServerUp, Alive
<1> QED
  BY <1>1, <1>5, <1>6 DEF ZeroInv, ReportStands, AbortAssumption

LEMMA ZeroSteps ==
    ASSUME OrchestraAssumption, StopInv, ZeroInv, [LiveNext]_liveVars
    PROVE  ZeroInv'
<1>1. Orderly
  BY DEF StopInv
<1>2. CASE ~setup.main
  <2>1. setup' = setup
    <3>1. CASE \/ ServerNext \/ ServerFails
               \/ \E c \in Clients : ClientStep(c) \/ LinkClosed(c) \/ Mishap(c)
      BY <1>1, <3>1, ServerMoves, ClientMoves DEF FilesMove
    <3>2. CASE MainStep \/ CtrlC
      BY <1>1, <3>2, MainMoves, CtrlCMoves DEF FilesMove
    <3>3. CASE \/ DashboardStep \/ (\E v \in Viewers : ViewerStep(v) \/ Leaves(v))
               \/ UNCHANGED liveVars
      BY <3>3 DEF DashboardStep, DashboardStarts, DashboardInterrupted, PollReport, Publish,
                  PollStat, PollRead, ViewerStep, Joins, SendFrame, Leaves, clientVars, liveVars
    <3> QED
      BY <3>1, <3>2, <3>3 DEF LiveNext, Running, Happening
  <2> QED
    BY <1>2, <2>1 DEF ZeroInv
<1>3. CASE setup.main
  <2>1. CASE MainStep
    <3>1. MainKeeps /\ CodesFit(main)'
      BY <1>1, <1>3, <2>1, MainCarries, CodesKept
    <3> QED
      BY <1>3, <3>1 DEF ZeroInv, MainKeeps
  <2>2. CASE CtrlC
    <3>1. main' = [main EXCEPT !.signal = TRUE] /\ DOMAIN main = MainParts
      BY <2>2 DEF CtrlC, StopInv, MainFits
    <3>2. /\ main'.pc = main.pc /\ main'.codes = main.codes /\ main'.code = main.code
          /\ main'.result = main.result /\ main'.summaries = main.summaries
      BY <3>1 DEF MainParts
    <3>3. Carried
      BY <1>1, <1>3, <2>2, OthersCarry
    <3> QED
      BY <1>3, <3>2, <3>3, CarriedZero
  <2>3. CASE ~MainStep /\ ~CtrlC
    <3>1. main' = main
      BY <2>3 DEF LiveNext, Running, Happening, liveVars
    <3>2. Carried
      BY <1>1, <1>3, <2>3, ServerCarries, ClientsCarry, OthersCarry
         DEF LiveNext, Running, Happening
    <3> QED
      BY <1>3, <3>1, <3>2, CarriedZero
  <2> QED
    BY <2>1, <2>2, <2>3
<1> QED
  BY <1>2, <1>3

\* Exit code 0 of the orchestrator is to be trusted: whatever was killed,
\* interrupted or timed out on the way, the report is whole, and every client
\* has seen the run to its end, written that, and had its log summarised (main
\* and RunResult.clean, after the client's own exit code and run_end).
THEOREM ZeroMeansClean ==
    ASSUME OrchestraAssumption, AbortAssumption
    PROVE  LiveSpec => []ZeroIsClean
<1>1. LiveInit => StopInv /\ ZeroInv
  BY StopBegins, ZeroBegins
<1>2. StopInv /\ ZeroInv /\ [LiveNext]_liveVars => (StopInv /\ ZeroInv)'
  BY StopSteps, ZeroSteps
<1>3. StopInv /\ ZeroInv => ZeroIsClean
  <2> SUFFICES ASSUME StopInv, ZeroInv, main.pc = "done", main.code = "0"
               PROVE  /\ main.result /\ srv.report = "FINISHED"
                      /\ \A c \in Range(setup.roster) :
                            /\ cl[c].exit = "0" /\ c \in main.summaries
                            /\ HasEnded(file[c].units)
                            /\ Last(file[c].units).rec.final = "finished"
    BY DEF ZeroIsClean
  <2>1. setup.main /\ setup \in Setups
    BY MainIsIn
  <2>2. /\ ClientsFollow /\ CodesFit(main) /\ main.result /\ Clean
        /\ Range(setup.roster) \subseteq main.summaries
    BY <2>1 DEF ZeroInv, CodesFit
  <2>3. \A j \in DOMAIN setup.roster : setup.roster[j] \in Clients
    BY <2>1 DEF OrchestraAssumption
  <2>4. ASSUME NEW c \in Range(setup.roster)
        PROVE  c \in Clients /\ main.codes[c] = "0" /\ cl[c].exit = "0"
    BY <2>2, <2>3 DEF Clean, Range, CodesFit
  <2>5. ASSUME NEW c \in Range(setup.roster)
        PROVE  EndsHappily(file[c].units)
    BY <2>2, <2>4 DEF ClientsFollow, Follows
  <2> QED
    BY <2>2, <2>4, <2>5, HappyIsWritten DEF Clean
<1> QED
  BY <1>1, <1>2, <1>3, PTL DEF LiveSpec
=============================================================================

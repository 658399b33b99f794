----------------------------- MODULE RowsProofs -----------------------------
(***************************************************************************)
(* First part, for any number of threads and rows: every row of an answer  *)
(* is worked on by exactly one thread (Partition).  Second part, for any   *)
(* chain of enrichers: the goroutines of each give every row the columns   *)
(* that the enrichers one after the other would give it.  A row has the    *)
(* columns of the enrichers before, and of the one in work as many as the  *)
(* goroutine that owns the row has come to (WorkerInv); the value in each  *)
(* is the described one of the column the heading names there (RowsInv).   *)
(* Third part, for path elements of any length: the points so far are      *)
(* those of the drawn path up to the last character (PointsFit).  Fourth   *)
(* part, for responses of any length: the heading has what it began with   *)
(* and every label of the items passed, no name twice, and the rows are    *)
(* those of the records of the items passed (TableInv).                    *)
(***************************************************************************)
EXTENDS Rows, FiniteSetTheorems, WellFoundedInduction, TLAPS

(* What integer division does around a product.                            *)
LEMMA DivBelow ==
  ASSUME NEW x \in Nat, NEW t \in Nat \ {0}, NEW r \in Nat, x < r * t
  PROVE  x \div t < r
<1> DEFINE d == x \div t
<1>1. d \in Nat /\ d * t <= x
  OBVIOUS
<1>2. SUFFICES ASSUME d >= r PROVE FALSE
  BY <1>1
<1>3. d * t >= r * t
  BY <1>1, <1>2
<1> QED
  BY <1>1, <1>3

LEMMA DivAtLeast ==
  ASSUME NEW x \in Nat, NEW t \in Nat \ {0}, NEW r \in Nat, x >= r * t
  PROVE  x \div t >= r
<1> DEFINE d == x \div t
<1>1. d \in Nat /\ x < (d + 1) * t
  OBVIOUS
<1>2. SUFFICES ASSUME d + 1 <= r PROVE FALSE
  BY <1>1
<1>3. (d + 1) * t <= r * t
  BY <1>1, <1>2
<1>4. (d + 1) * t \in Nat /\ r * t \in Nat
  BY <1>1
<1> QED
  BY <1>1, <1>3, <1>4

(* Row r belongs to the thread whose share of the rows ends behind it:     *)
(* i * n < r * t, but (i + 1) * n >= r * t.                                *)
LEMMA SomeThread ==
  ASSUME NEW n \in Nat \ {0}, NEW t \in 1..n, NEW r \in 1..n
  PROVE  \E i \in 0..(t - 1) : r \in ThreadRows(i, n, t)
<1> DEFINE i == (r * t - 1) \div n
<1>1. r * t \in Nat \ {0}
  OBVIOUS
<1>2. i \in Nat /\ i * n <= r * t - 1 /\ r * t - 1 < (i + 1) * n
  BY <1>1
<1>3. r * t <= n * t
  OBVIOUS
<1>4. i < t
  <2>1. n * t = t * n
    OBVIOUS
  <2>2. r * t - 1 \in Nat /\ r * t - 1 < t * n
    BY <1>1, <1>3, <2>1
  <2> QED
    BY <2>2, DivBelow
<1>5. (i * n) \div t < r
  <2>1. i * n \in Nat /\ i * n < r * t
    BY <1>1, <1>2
  <2> HIDE DEF i
  <2> QED
    BY <2>1, DivBelow
<1>6. ((i + 1) * n) \div t >= r
  <2>1. (i + 1) * n \in Nat /\ (i + 1) * n >= r * t
    BY <1>1, <1>2
  <2> HIDE DEF i
  <2> QED
    BY <2>1, DivAtLeast
<1>7. (i * n) \div t \in Int /\ ((i + 1) * n) \div t \in Int
  <2>1. i * n \in Int /\ (i + 1) * n \in Int
    BY <1>2
  <2> HIDE DEF i
  <2> QED
    BY <2>1
<1> HIDE DEF i
<1>8. r \in ThreadRows(i, n, t)
  BY <1>5, <1>6, <1>7 DEF ThreadRows, Start, Stop
<1> QED
  BY <1>2, <1>4, <1>8

(* The rows of a later thread start where those of an earlier one ended.   *)
LEMMA InOrder ==
  ASSUME NEW n \in Nat \ {0}, NEW t \in 1..n, NEW i \in Nat, NEW j \in Nat, i < j
  PROVE  Stop(i, n, t) <= Start(j, n, t)
<1>1. i + 1 <= j
  OBVIOUS
<1>2. (i + 1) * n <= j * n
  BY <1>1
<1> DEFINE low == (i + 1) * n
           high == j * n
<1>3. low \in Nat /\ high \in Nat /\ low <= high
  BY <1>2
<1>4. low \div t \in Nat /\ (low \div t) * t <= low
  <2> HIDE DEF low
  <2> QED
    BY <1>3
<1>5. high >= (low \div t) * t
  <2>1. (low \div t) * t \in Nat
    BY <1>4
  <2> HIDE DEF low, high
  <2> QED
    BY <1>3, <1>4, <2>1
<1>6. high \div t >= low \div t
  <2> HIDE DEF low, high
  <2> QED
    BY <1>3, <1>4, <1>5, DivAtLeast
<1>7. high \div t \in Int
  <2> HIDE DEF low, high
  <2> QED
    BY <1>3
<1> QED
  BY <1>4, <1>6, <1>7 DEF Stop, Start

(* Whatever the number of rows and the configured number of threads, every *)
(* row of the answer is in the part of exactly one thread: none is lost at *)
(* a boundary, none is counted by two (evaluatecount.go:123-129, and the   *)
(* same lines of evaluatevalue.go and enricher.go).                        *)
THEOREM EveryRowOnce ==
  ASSUME NEW n \in Nat \ {0}, NEW threads \in Int, NEW r \in 1..n,
         NEW t, t = ThreadsNumber(threads, n)
  PROVE  \E i \in 0..(t - 1) :
           /\ r \in ThreadRows(i, n, t)
           /\ \A j \in 0..(t - 1) : r \in ThreadRows(j, n, t) => j = i
<1>1. t \in 1..n
  BY DEF ThreadsNumber
<1>2. PICK i \in 0..(t - 1) : r \in ThreadRows(i, n, t)
  BY <1>1, SomeThread
<1>3. ASSUME NEW j \in 0..(t - 1), r \in ThreadRows(j, n, t)
      PROVE  j = i
  <2>1. /\ Start(i, n, t) \in Int /\ Start(j, n, t) \in Int
        /\ Stop(i, n, t) \in Int /\ Stop(j, n, t) \in Int
    <3>1. i * n \in Int /\ j * n \in Int /\ (i + 1) * n \in Int /\ (j + 1) * n \in Int
      BY <1>1
    <3> QED
      BY <1>1, <3>1 DEF Start, Stop
  <2>2. /\ Start(i, n, t) <= r /\ r < Stop(i, n, t)
        /\ Start(j, n, t) <= r /\ r < Stop(j, n, t)
    BY <1>2, <1>3, <2>1 DEF ThreadRows, Start, Stop
  <2>3. ~(i < j)
    <3>1. ASSUME i < j PROVE Stop(i, n, t) <= Start(j, n, t)
      BY <1>1, <3>1, InOrder
    <3> QED
      BY <2>1, <2>2, <3>1
  <2>4. ~(j < i)
    <3>1. ASSUME j < i PROVE Stop(j, n, t) <= Start(i, n, t)
      BY <1>1, <3>1, InOrder
    <3> QED
      BY <2>1, <2>2, <3>1
  <2> QED
    BY <1>1, <2>3, <2>4
<1> QED
  BY <1>2, <1>3

-----------------------------------------------------------------------------
(* Second part: the columns that the enrichers append.                     *)

(* Induction over the numbers, for a set.                                  *)
LEMMA Least ==
  ASSUME NEW S, S \subseteq Nat, S # {}
  PROVE  \E m \in S : \A k \in S : m <= k
<1>1. PICK m \in S : \A k \in S : <<k, m>> \notin OpToRel(<, Nat)
  BY WFMin, NatLessThanWellFounded, Zenon
<1>2. \A k \in S : ~(k < m)
  BY <1>1, Zenon DEF OpToRel
<1> QED
  BY <1>2

LEMMA SetInduction ==
  ASSUME NEW S, 0 \in S, \A n \in Nat : n \in S => n + 1 \in S
  PROVE  \A n \in Nat : n \in S
<1> DEFINE Out == {n \in Nat : n \notin S}
<1> SUFFICES ASSUME Out # {} PROVE FALSE
  OBVIOUS
<1>1. PICK m \in Out : \A k \in Out : m <= k
  BY Least
<1>2. m # 0 /\ m - 1 \in Nat
  OBVIOUS
<1>3. m - 1 \notin Out
  BY <1>1, <1>2
<1> QED
  BY <1>2, <1>3

(* What the enrichers of a query are.                                      *)
LEMMA QueryFact ==
  ASSUME query \in Queries
  PROVE  /\ Len(query.enrich) \in Nat /\ DOMAIN query.enrich = 1..Len(query.enrich)
         /\ query.maxRows \in Nat
         /\ \A e \in 1..Len(query.enrich) :
              /\ query.enrich[e] \in EnricherType
              /\ query.enrich[e].dest \in Seq(STRING) /\ query.enrich[e].dest # <<>>
              /\ \A i, j \in DOMAIN query.enrich[e].dest :
                   query.enrich[e].dest[i] = query.enrich[e].dest[j] => i = j
              /\ Field \notin Range(query.enrich[e].dest)
              /\ \A f \in 1..Len(query.enrich) : f # e =>
                   Range(query.enrich[e].dest) \cap Range(query.enrich[f].dest) = {}
<1>1. /\ query.enrich \in Seq(EnricherType)
      /\ query.maxRows \in Nat
      /\ \A e \in DOMAIN query.enrich :
            /\ IsInjective(query.enrich[e].dest)
            /\ Field \notin Range(query.enrich[e].dest)
            /\ \A f \in DOMAIN query.enrich \ {e} :
                 Range(query.enrich[e].dest) \cap Range(query.enrich[f].dest) = {}
  BY QueriesAssumption
<1>2. Len(query.enrich) \in Nat /\ DOMAIN query.enrich = 1..Len(query.enrich)
  BY <1>1
<1>3. ASSUME NEW e \in 1..Len(query.enrich)
      PROVE  /\ query.enrich[e] \in EnricherType
             /\ query.enrich[e].dest \in Seq(STRING) /\ query.enrich[e].dest # <<>>
  <2>1. query.enrich[e] \in EnricherType
    BY <1>1, <1>2
  <2> QED
    BY <2>1 DEF EnricherType
<1>4. ASSUME NEW e \in 1..Len(query.enrich), NEW i \in DOMAIN query.enrich[e].dest,
             NEW j \in DOMAIN query.enrich[e].dest, query.enrich[e].dest[i] = query.enrich[e].dest[j]
      PROVE  i = j
  BY <1>1, <1>2, <1>4 DEF IsInjective
<1> QED
  BY <1>1, <1>2, <1>3, <1>4

(* The recursion of ColumnsAfter is over the numbers.                      *)
LEMMA ColumnsExist ==
  ASSUME NEW N \in Nat
  PROVE  \E f : f = [e \in 0..N |-> [record \in Records |->
                       IF e = 0 THEN [name \in {Field} |-> Original(record)]
                       ELSE Enriched(e, record, f[e - 1][record])]]
<1> DEFINE First == [record \in Records |-> [name \in {Field} |-> Original(record)]]
           More(e, known) == [record \in Records |-> Enriched(e, record, known[record])]
           Is(f, n) == f = [e \in 0..n |-> [record \in Records |->
                              IF e = 0 THEN [name \in {Field} |-> Original(record)]
                              ELSE Enriched(e, record, f[e - 1][record])]]
           Has(f, n) == f = [e \in 0..n |-> IF e = 0 THEN First ELSE More(e, f[e - 1])]
           S == {n \in Nat : \E f : Has(f, n)}
<1>1. 0 \in S
  <2>1. Has([e \in 0..0 |-> First], 0)
    <3> HIDE DEF First, More
    <3> QED
      OBVIOUS
  <2> QED
    BY <2>1
<1>2. ASSUME NEW n \in Nat, n \in S PROVE n + 1 \in S
  <2> HIDE DEF First, More
  <2>1. PICK f : Has(f, n)
    BY <1>2
  <2> DEFINE g == [e \in 0..(n + 1) |-> IF e = n + 1 THEN More(e, f[n]) ELSE f[e]]
  <2>2. Has(g, n + 1)
    <3>1. ASSUME NEW e \in 0..(n + 1)
          PROVE  g[e] = IF e = 0 THEN First ELSE More(e, g[e - 1])
      <4>1. CASE e = 0
        BY <2>1, <4>1
      <4>2. CASE e = n + 1
        BY <4>2
      <4>3. CASE e \in 1..n
        <5>1. g[e] = f[e] /\ g[e - 1] = f[e - 1]
          BY <4>3
        <5> QED
          BY <2>1, <4>3, <5>1
      <4> QED
        BY <4>1, <4>2, <4>3
    <3> HIDE DEF g
    <3>2. g = [e \in 0..(n + 1) |-> g[e]]
      BY DEF g
    <3> QED
      BY <3>1, <3>2
  <2>3. n + 1 \in Nat
    OBVIOUS
  <2> QED
    BY <2>2, <2>3
<1>3. N \in S
  <2> HIDE DEF S
  <2> QED
    BY <1>1, <1>2, SetInduction
<1>4. PICK f : Has(f, N)
  BY <1>3
<1>5. ASSUME NEW e \in 0..N
      PROVE  f[e] = [record \in Records |->
                       IF e = 0 THEN [name \in {Field} |-> Original(record)]
                       ELSE Enriched(e, record, f[e - 1][record])]
  <2>1. f[e] = IF e = 0 THEN First ELSE More(e, f[e - 1])
    <3> HIDE DEF First, More
    <3> QED
      BY <1>4
  <2>2. CASE e = 0
    BY <2>1, <2>2
  <2>3. CASE e # 0
    BY <2>1, <2>3
  <2> QED
    BY <2>2, <2>3
<1>6. Is(f, N)
  <2>1. f = [e \in 0..N |-> f[e]]
    <3> HIDE DEF First, More
    <3> QED
      BY <1>4
  <2> QED
    BY <1>5, <2>1
<1> QED
  BY <1>6

LEMMA ColumnsAfterDef ==
  ASSUME Len(query.enrich) \in Nat
  PROVE  \A e \in 0..Len(query.enrich) : \A record \in Records :
           ColumnsAfter[e][record]
             = IF e = 0 THEN [name \in {Field} |-> Original(record)]
               ELSE Enriched(e, record, ColumnsAfter[e - 1][record])
<1> DEFINE Is(f) == f = [e \in 0..Len(query.enrich) |-> [record \in Records |->
                       IF e = 0 THEN [name \in {Field} |-> Original(record)]
                       ELSE Enriched(e, record, f[e - 1][record])]]
<1>1. \E f : Is(f)
  BY ColumnsExist
<1>2. ColumnsAfter = CHOOSE f : Is(f)
  BY DEF ColumnsAfter
<1>3. Is(ColumnsAfter)
  <2> HIDE DEF Is
  <2> QED
    BY <1>1, <1>2
<1>4. ASSUME NEW e \in 0..Len(query.enrich)
      PROVE  ColumnsAfter[e] = [record \in Records |->
               IF e = 0 THEN [name \in {Field} |-> Original(record)]
               ELSE Enriched(e, record, ColumnsAfter[e - 1][record])]
  BY <1>3
<1> QED
  BY <1>4

(* Division around a product of two parts, and of all rows.                *)
LEMMA ThreadFacts ==
  ASSUME NEW n \in Nat, NEW threads \in Int, NEW t, t = ThreadsNumber(threads, n), NEW w \in 1..t
  PROVE  /\ t \in Nat /\ (n # 0 => t \in 1..n)
         /\ Start(w - 1, n, t) \in Nat /\ Stop(w - 1, n, t) \in Nat
         /\ 1 <= Start(w - 1, n, t)
         /\ Start(w - 1, n, t) <= Stop(w - 1, n, t)
         /\ Stop(w - 1, n, t) <= n + 1
<1>1. t \in Nat /\ (n # 0 => t \in 1..n) /\ (n = 0 => t \in 0..1)
  BY DEF ThreadsNumber
<1>2. t \in Nat \ {0} /\ w \in Nat /\ w >= 1 /\ w <= t
  BY <1>1
<1> DEFINE low == (w - 1) * n
           high == w * n
<1>3. low \in Nat /\ high \in Nat /\ low <= high /\ high <= t * n
  BY <1>2
<1>4. low \div t \in Nat /\ high \div t \in Nat
  <2> HIDE DEF low, high
  <2> QED
    BY <1>2, <1>3
<1>5. low \div t <= high \div t
  <2>1. high >= (low \div t) * t
    <3>1. (low \div t) * t <= low
      <4> HIDE DEF low
      <4> QED
        BY <1>2, <1>3
    <3>2. (low \div t) * t \in Nat
      <4> HIDE DEF low
      <4> QED
        BY <1>2, <1>4
    <3> HIDE DEF low, high
    <3> QED
      BY <1>3, <3>1, <3>2
  <2> HIDE DEF low, high
  <2> QED
    BY <1>2, <1>3, <1>4, <2>1, DivAtLeast
<1>6. high \div t <= n
  <2>1. t * n = n * t /\ n * t < (n + 1) * t
    BY <1>2
  <2>2. high < (n + 1) * t
    <3> HIDE DEF high
    <3>1. n * t \in Nat /\ (n + 1) * t \in Nat
      BY <1>2
    <3> QED
      BY <1>3, <2>1, <3>1
  <2>3. high \div t < n + 1
    <3> DEFINE m == n + 1
    <3>1. m \in Nat /\ high < m * t
      BY <2>2
    <3> HIDE DEF high, m
    <3>2. high \div t < m
      BY <1>2, <1>3, <3>1, DivBelow
    <3> QED
      BY <3>2 DEF m
  <2> HIDE DEF high
  <2> QED
    BY <1>4, <2>3
<1>7. Start(w - 1, n, t) = 1 + low \div t /\ Stop(w - 1, n, t) = 1 + high \div t
  <2>1. (w - 1) + 1 = w
    BY <1>2
  <2> QED
    BY <2>1 DEF Start, Stop
<1> HIDE DEF low, high
<1> QED
  BY <1>1, <1>4, <1>5, <1>6, <1>7

(* The rows of the workers of an enricher: each is of exactly one.         *)
LEMMA RowsOfWorkers ==
  ASSUME NEW n \in Nat, NEW threads \in Int, NEW t, t = ThreadsNumber(threads, n)
  PROVE  /\ \A w \in 1..t : ThreadRows(w - 1, n, t) \subseteq 1..n
         /\ \A i \in 1..n : \E w \in 1..t :
              /\ i \in ThreadRows(w - 1, n, t)
              /\ \A v \in 1..t : i \in ThreadRows(v - 1, n, t) => v = w
<1>1. ASSUME NEW w \in 1..t PROVE ThreadRows(w - 1, n, t) \subseteq 1..n
  <2>1. /\ Start(w - 1, n, t) \in Nat /\ Stop(w - 1, n, t) \in Nat
        /\ 1 <= Start(w - 1, n, t) /\ Stop(w - 1, n, t) <= n + 1
    BY <1>1, ThreadFacts
  <2> QED
    BY <2>1 DEF ThreadRows
<1>2. ASSUME NEW i \in 1..n
      PROVE  \E w \in 1..t : /\ i \in ThreadRows(w - 1, n, t)
                             /\ \A v \in 1..t : i \in ThreadRows(v - 1, n, t) => v = w
  <2>1. n \in Nat \ {0} /\ t \in Nat
    BY <1>2 DEF ThreadsNumber
  <2>5. n \in Nat \ {0} /\ threads \in Int /\ t = ThreadsNumber(threads, n)
    BY <2>1
  <2>6. \E j \in 0..(t - 1) :
          /\ i \in ThreadRows(j, n, t)
          /\ \A l \in 0..(t - 1) : i \in ThreadRows(l, n, t) => l = j
    BY <2>5, <1>2, EveryRowOnce, Zenon
  <2>2. PICK j \in 0..(t - 1) :
          /\ i \in ThreadRows(j, n, t)
          /\ \A l \in 0..(t - 1) : i \in ThreadRows(l, n, t) => l = j
    BY <2>6
  <2>3. j + 1 \in 1..t /\ (j + 1) - 1 = j
    BY <2>1
  <2>4. ASSUME NEW v \in 1..t, i \in ThreadRows(v - 1, n, t) PROVE v = j + 1
    <3>1. v - 1 \in 0..(t - 1)
      BY <2>1
    <3>2. v - 1 = j
      BY <2>2, <2>4, <3>1
    <3> QED
      BY <2>1, <3>2
  <2> QED
    BY <2>2, <2>3, <2>4
<1> QED
  BY <1>1, <1>2

-----------------------------------------------------------------------------
(* The inductive invariant.                                                *)

(* What may be done to a value.                                            *)
Steps == STRING \cup {"json", "JSON_NOT_PARSED", "NOT_MATCHED", "uri"}

Value == [record : Records, steps : Seq(Steps)]

Base == Len(heading) - Len(Enricher.dest)

EnrichersDone == IF pc = "work" THEN stage ELSE stage - 1

StageInv ==
  /\ query \in Queries
  /\ pc \in {"idle", "next", "work", "done"}
  /\ pc # "idle" => stage \in 1..(Len(query.enrich) + 1)
  /\ pc = "work" => stage \in 1..Len(query.enrich)
  /\ pc = "done" => stage = Len(query.enrich) + 1

HeadingInv ==
  pc # "idle" =>
    /\ heading \in Seq(STRING) /\ heading # <<>> /\ heading[1] = Field
    /\ \A i, j \in 1..Len(heading) : heading[i] = heading[j] => i = j
    /\ \A i \in 1..Len(heading) :
         heading[i] = Field \/ \E e \in 1..EnrichersDone : heading[i] \in Range(query.enrich[e].dest)
    /\ \A r \in Records :
         DOMAIN ColumnsAfter[EnrichersDone][r] = {heading[j] : j \in 1..Len(heading)}

RowsInv ==
  pc # "idle" =>
    /\ rows \in Seq(Seq(Value))
    /\ \A i \in 1..Len(rows) :
         /\ 1 <= Len(rows[i]) /\ Len(rows[i]) <= Len(heading)
         /\ pc # "work" => Len(rows[i]) = Len(heading)
         /\ \A j \in 1..Len(rows[i]) :
              /\ rows[i][j].record = rows[i][1].record
              /\ rows[i][j] = ColumnsAfter[EnrichersDone][rows[i][1].record][heading[j]]

Threads == ThreadsNumber(Enricher.threads, Len(rows))

Appended(worker, i) ==
  IF i < worker.row THEN Len(Enricher.dest) ELSE IF i = worker.row THEN worker.k - 1 ELSE 0

WorkerInv(w) ==
  /\ workers[w] \in [row : Nat, stop : Nat, k : Nat, done : BOOLEAN]
  /\ workers[w].stop = Stop(w - 1, Len(rows), Threads)
  /\ workers[w].row \in Start(w - 1, Len(rows), Threads)..workers[w].stop
  /\ workers[w].k \in 1..Len(Enricher.dest)
  /\ workers[w].row = workers[w].stop => workers[w].k = 1
  /\ workers[w].done => workers[w].row = workers[w].stop
  /\ \A i \in ThreadRows(w - 1, Len(rows), Threads) : Len(rows[i]) = Base + Appended(workers[w], i)

SourceInv ==
  pc = "work" =>
    /\ Base \in 1..Len(heading)
    /\ \A k \in 1..Len(Enricher.dest) : heading[Base + k] = Enricher.dest[k]
    /\ SourceIndex(Enricher.source) \in 1..Base
    /\ heading[SourceIndex(Enricher.source)] = Enricher.source
    /\ \A r \in Records : /\ Usable(stage, ColumnsAfter[stage - 1][r])
                          /\ DOMAIN ColumnsAfter[stage - 1][r] = {heading[j] : j \in 1..Base}

WorkInv ==
  pc = "work" =>
    /\ DOMAIN workers = 1..Threads
    /\ \A w \in 1..Threads : WorkerInv(w)

Inv == StageInv /\ HeadingInv /\ RowsInv /\ SourceInv /\ WorkInv

(* The first occurrence of a name that is in a heading.                    *)
IndexIn(h, name) ==
  IF \E i \in DOMAIN h : h[i] = name
    THEN CHOOSE i \in DOMAIN h : h[i] = name /\ \A j \in 1..(i - 1) : h[j] # name
    ELSE 0

LEMMA IndexFact ==
  ASSUME NEW h \in Seq(STRING), NEW name
  PROVE  /\ \A k \in 1..Len(h) : h[k] = name =>
              IndexIn(h, name) \in 1..k /\ h[IndexIn(h, name)] = name
         /\ IndexIn(h, name) # 0 => \E k \in 1..Len(h) : h[k] = name
<1>1. DOMAIN h = 1..Len(h) /\ Len(h) \in Nat
  OBVIOUS
<1>2. ASSUME NEW k \in 1..Len(h), h[k] = name
      PROVE  IndexIn(h, name) \in 1..k /\ h[IndexIn(h, name)] = name
  <2> DEFINE S == {i \in Nat : i \in DOMAIN h /\ h[i] = name}
  <2>1. k \in S /\ S \subseteq Nat
    BY <1>1, <1>2
  <2>2. PICK m \in S : \A l \in S : m <= l
    BY <2>1, Least
  <2>3. m \in DOMAIN h /\ h[m] = name /\ \A j \in 1..(m - 1) : h[j] # name
    BY <1>1, <2>2
  <2> DEFINE First(i) == h[i] = name /\ \A j \in 1..(i - 1) : h[j] # name
  <2>4. IndexIn(h, name) = CHOOSE i \in DOMAIN h : First(i)
    BY <1>1, <1>2 DEF IndexIn
  <2>5. \E i \in DOMAIN h : First(i)
    BY <2>3
  <2>6. IndexIn(h, name) \in DOMAIN h /\ First(IndexIn(h, name))
    <3> HIDE DEF First
    <3> QED
      BY <2>4, <2>5
  <2> QED
    BY <1>1, <1>2, <2>6
<1> QED
  BY <1>1, <1>2 DEF IndexIn

(* What a goroutine computes is what the guide describes.                  *)
LEMMA ThenFact ==
  ASSUME NEW value \in Value, NEW s \in Steps
  PROVE  Then(value, s) \in Value /\ Then(value, s).record = value.record
BY DEF Then, Value

LEMMA DestValueFact ==
  ASSUME query \in Queries, stage \in 1..Len(query.enrich),
         NEW value \in Value, NEW name \in STRING
  PROVE  /\ DestValue(name, Content(value)) \in Value
         /\ DestValue(name, Content(value)).record = value.record
         /\ DestValue(name, Content(value)) = Described(stage, name, value.record, value)
<1>1. /\ Enricher.json \in BOOLEAN /\ Enricher.regexp \in BOOLEAN
  BY QueryFact DEF Enricher, EnricherType
<1>7. /\ "json" \in Steps /\ "JSON_NOT_PARSED" \in Steps /\ "NOT_MATCHED" \in Steps /\ "uri" \in Steps
      /\ name \in Steps
  BY DEF Steps
<1>2. /\ Content(value) \in Value
      /\ Content(value).record = value.record
      /\ Content(value) = CASE ~Enricher.json -> value
                            [] Enricher.json /\ value.record \in Unparsed
                                 -> Then(value, "JSON_NOT_PARSED")
                            [] OTHER -> Then(value, "json")
  <2>1. Content(value) = IF Enricher.json
                           THEN IF value.record \in Unparsed THEN Then(value, "JSON_NOT_PARSED")
                                ELSE Then(value, "json")
                           ELSE value
    BY DEF Content, ProcessJson
  <2>2. /\ Then(value, "json") \in Value /\ Then(value, "json").record = value.record
        /\ Then(value, "JSON_NOT_PARSED") \in Value
        /\ Then(value, "JSON_NOT_PARSED").record = value.record
    BY <1>7, ThenFact
  <2> QED
    BY <1>1, <2>1, <2>2
<1> DEFINE content == Content(value)
           plain == IF Enricher.regexp THEN Then(content, name) ELSE content
<1>3. plain \in Value /\ plain.record = value.record
  BY <1>7, <1>2, ThenFact
<1>4. /\ Then(content, "NOT_MATCHED") \in Value /\ Then(content, "NOT_MATCHED").record = value.record
      /\ Then(plain, "uri") \in Value /\ Then(plain, "uri").record = value.record
  BY <1>7, <1>2, <1>3, ThenFact
<1>5. DestValue(name, content)
        = IF Enricher.regexp /\ <<stage, value.record>> \notin query.matched
             THEN Then(content, "NOT_MATCHED")
          ELSE IF name \in Enricher.uri THEN Then(plain, "uri") ELSE plain
  BY <1>1, <1>2 DEF DestValue, Processed, RemoveIDs
<1>6. Described(stage, name, value.record, value)
        = IF Enricher.regexp /\ <<stage, value.record>> \notin query.matched
             THEN Then(content, "NOT_MATCHED")
          ELSE IF name \in Enricher.uri THEN Then(plain, "uri") ELSE plain
  BY <1>1, <1>2 DEF Described, Enricher
<1> HIDE DEF plain, content
<1> QED
  BY <1>3, <1>4, <1>5, <1>6 DEF content

(* Only the query decides what the columns of a record are.                *)
LEMMA ColumnsStay == query' = query => ColumnsAfter' = ColumnsAfter
BY DEF ColumnsAfter, Enriched, Usable, Described, Original, Then

(* The columns of a record, from enricher to enricher.                     *)
LEMMA FirstColumns ==
  ASSUME query \in Queries, NEW r \in Records
  PROVE  ColumnsAfter[0][r] = [name \in {Field} |-> Original(r)]
<1>1. Len(query.enrich) \in Nat /\ 0 \in 0..Len(query.enrich)
  BY QueryFact
<1> QED
  BY <1>1, ColumnsAfterDef

LEMMA NextColumns ==
  ASSUME query \in Queries, NEW r \in Records, NEW e \in 1..Len(query.enrich)
  PROVE  /\ ~Usable(e, ColumnsAfter[e - 1][r]) => ColumnsAfter[e][r] = ColumnsAfter[e - 1][r]
         /\ Usable(e, ColumnsAfter[e - 1][r]) =>
              /\ DOMAIN ColumnsAfter[e][r] = DOMAIN ColumnsAfter[e - 1][r] \cup Range(query.enrich[e].dest)
              /\ \A name \in DOMAIN ColumnsAfter[e - 1][r] :
                   ColumnsAfter[e][r][name] = ColumnsAfter[e - 1][r][name]
              /\ \A name \in Range(query.enrich[e].dest) \ DOMAIN ColumnsAfter[e - 1][r] :
                   ColumnsAfter[e][r][name]
                     = Described(e, name, r, ColumnsAfter[e - 1][r][query.enrich[e].source])
<1>1. ColumnsAfter[e][r] = Enriched(e, r, ColumnsAfter[e - 1][r])
  <2>1. e \in 0..Len(query.enrich) /\ e # 0
    BY QueryFact
  <2> QED
    BY <2>1, QueryFact, ColumnsAfterDef
<1> QED
  BY <1>1 DEF Enriched

LEMMA RowFact ==
  ASSUME Inv, pc # "idle", NEW i \in 1..Len(rows)
  PROVE  /\ rows[i] \in Seq(Value) /\ Len(rows[i]) \in Nat
         /\ \A j \in 1..Len(rows[i]) : rows[i][j] \in Value
         /\ rows[i][1].record \in Records
<1>1. rows \in Seq(Seq(Value)) /\ 1 <= Len(rows[i])
  BY DEF Inv, RowsInv
<1>2. rows[i] \in Seq(Value)
  BY <1>1
<1>3. Len(rows[i]) \in Nat /\ \A j \in 1..Len(rows[i]) : rows[i][j] \in Value
  BY <1>2
<1>4. rows[i][1] \in Value
  BY <1>1, <1>3
<1> QED
  BY <1>2, <1>3, <1>4 DEF Value

LEMMA ArriveInv ==
  ASSUME Inv, NEW records \in BoundedSeq(Records, query.maxRows), Arrive(records)
  PROVE  Inv'
<1>1. /\ query \in Queries /\ query' = query /\ ColumnsAfter' = ColumnsAfter
      /\ heading' = <<Field>> /\ rows' = [i \in 1..Len(records) |-> <<Original(records[i])>>]
      /\ stage' = 1 /\ pc' = "next"
  <2>1. /\ query' = query /\ heading' = <<Field>>
        /\ rows' = [i \in 1..Len(records) |-> <<Original(records[i])>>]
        /\ stage' = 1 /\ pc' = "next"
    BY DEF Arrive
  <2>2. query \in Queries
    BY DEF Inv, StageInv
  <2>3. ColumnsAfter' = ColumnsAfter
    BY <2>1, ColumnsStay
  <2> QED
    BY <2>1, <2>2, <2>3
<1>2. records \in Seq(Records)
  <2>1. PICK m \in 0..query.maxRows : records \in [1..m -> Records]
    BY DEF BoundedSeq, SeqOf
  <2>2. m \in Nat
    BY <1>1, QueryFact
  <2> QED
    BY <2>1, <2>2
<1>3. Field \in STRING
  BY QueriesAssumption
<1>4. StageInv'
  BY <1>1, QueryFact DEF StageInv
<1>5. EnrichersDone' = 0
  BY <1>1 DEF EnrichersDone
<1>6. \A r \in Records : ColumnsAfter'[0][r] = [name \in {Field} |-> Original(r)]
  BY <1>1, FirstColumns
<1>7. HeadingInv'
  <2>1. heading' \in Seq(STRING) /\ heading' # <<>> /\ heading'[1] = Field /\ Len(heading') = 1
    BY <1>1, <1>3
  <2>2. \A r \in Records : DOMAIN ColumnsAfter'[0][r] = {heading'[j] : j \in 1..Len(heading')}
    BY <1>6, <2>1
  <2> QED
    BY <1>5, <2>1, <2>2 DEF HeadingInv
<1>8. RowsInv'
  <2>1. ASSUME NEW i \in 1..Len(records)
        PROVE  /\ rows'[i] \in Seq(Value) /\ Len(rows'[i]) = 1
               /\ rows'[i][1] = Original(records[i])
               /\ rows'[i][1].record = records[i] /\ records[i] \in Records
    <3>1. Original(records[i]) \in Value /\ Original(records[i]).record = records[i]
      BY <1>2, <2>1 DEF Original, Value
    <3> QED
      BY <1>1, <1>2, <2>1, <3>1
  <2>2. rows' \in Seq(Seq(Value)) /\ Len(rows') = Len(records)
    BY <1>1, <1>2, <2>1
  <2>3. ASSUME NEW i \in 1..Len(records)
        PROVE  rows'[i][1] = ColumnsAfter'[0][rows'[i][1].record][heading'[1]]
    <3>1. heading'[1] = Field
      BY <1>1
    <3>2. ColumnsAfter'[0][records[i]] = [name \in {Field} |-> Original(records[i])]
      BY <1>6, <2>1
    <3>3. rows'[i][1] = Original(records[i]) /\ rows'[i][1].record = records[i]
      BY <2>1
    <3> HIDE DEF Original
    <3>4. ColumnsAfter'[0][records[i]][Field] = Original(records[i])
      BY <3>2
    <3> QED
      BY <3>1, <3>3, <3>4
  <2>4. Len(heading') = 1
    BY <1>1
  <2>5. ASSUME NEW i \in 1..Len(rows')
        PROVE  /\ Len(rows'[i]) = 1
               /\ \A j \in 1..1 :
                    /\ rows'[i][j].record = rows'[i][1].record
                    /\ rows'[i][j] = ColumnsAfter'[0][rows'[i][1].record][heading'[j]]
    BY <2>1, <2>2, <2>3
  <2>6. ASSUME NEW i \in 1..Len(rows')
        PROVE  /\ 1 <= Len(rows'[i]) /\ Len(rows'[i]) <= Len(heading')
               /\ Len(rows'[i]) = Len(heading')
               /\ \A j \in 1..Len(rows'[i]) :
                    /\ rows'[i][j].record = rows'[i][1].record
                    /\ rows'[i][j] = ColumnsAfter'[EnrichersDone'][rows'[i][1].record][heading'[j]]
    <3>1. 1..Len(rows'[i]) = 1..1 /\ Len(rows'[i]) = 1 /\ Len(heading') = 1
      BY <2>4, <2>5
    <3>2. \A j \in 1..1 :
            /\ rows'[i][j].record = rows'[i][1].record
            /\ rows'[i][j] = ColumnsAfter'[EnrichersDone'][rows'[i][1].record][heading'[j]]
      BY <1>5, <2>5
    <3> QED
      BY <3>1, <3>2
  <2> QED
    BY <2>2, <2>6 DEF RowsInv
<1>9. SourceInv' /\ WorkInv'
  BY <1>1 DEF SourceInv, WorkInv
<1> QED
  BY <1>4, <1>7, <1>8, <1>9 DEF Inv

LEMMA SkipInv ==
  ASSUME Inv, SkipEnricher
  PROVE  Inv'
<1>1. /\ query \in Queries /\ query' = query /\ ColumnsAfter' = ColumnsAfter
      /\ heading' = heading /\ rows' = rows /\ stage' = stage + 1 /\ pc = "next" /\ pc' = "next"
      /\ stage \in 1..Len(query.enrich) /\ Len(query.enrich) \in Nat
  BY ColumnsStay, QueryFact DEF SkipEnricher, Inv, StageInv
<1>2. StageInv'
  BY <1>1 DEF StageInv
<1>3. EnrichersDone = stage - 1 /\ EnrichersDone' = stage
  BY <1>1 DEF EnrichersDone
<1>4. ASSUME NEW r \in Records
      PROVE  ColumnsAfter[stage][r] = ColumnsAfter[stage - 1][r]
  <2>1. CASE Enricher.regexp /\ ~Enricher.compiled
    <3>1. ~Usable(stage, ColumnsAfter[stage - 1][r])
      BY <2>1 DEF Usable, Enricher
    <3> QED
      BY <1>1, <3>1, NextColumns
  <2>2. CASE SourceIndex(Enricher.source) = 0
    <3>1. IndexIn(heading, Enricher.source) = 0
      BY <2>2 DEF SourceIndex, IndexIn
    <3>2. \A k \in 1..Len(heading) : heading[k] # Enricher.source
      BY <1>1, <3>1, IndexFact DEF Inv, HeadingInv
    <3>3. DOMAIN ColumnsAfter[stage - 1][r] = {heading[j] : j \in 1..Len(heading)}
      BY <1>1, <1>3 DEF Inv, HeadingInv
    <3>4. ~Usable(stage, ColumnsAfter[stage - 1][r])
      BY <3>2, <3>3 DEF Usable, Enricher
    <3> QED
      BY <1>1, <3>4, NextColumns
  <2> QED
    BY <2>1, <2>2 DEF SkipEnricher, Applies
<1>5. HeadingInv'
  <2>1. \A i \in 1..Len(heading) :
          heading[i] = Field \/ \E e \in 1..stage : heading[i] \in Range(query.enrich[e].dest)
    BY <1>1, <1>3 DEF Inv, HeadingInv
  <2> QED
    BY <1>1, <1>3, <1>4, <2>1 DEF Inv, HeadingInv
<1>6. RowsInv'
  <2>1. ASSUME NEW i \in 1..Len(rows), NEW j \in 1..Len(rows[i])
        PROVE  rows[i][j] = ColumnsAfter[stage][rows[i][1].record][heading[j]]
    <3>1. rows[i][1].record \in Records
      BY <1>1, RowFact
    <3>2. ColumnsAfter[stage][rows[i][1].record] = ColumnsAfter[stage - 1][rows[i][1].record]
      BY <1>4, <3>1
    <3>3. rows[i][j] = ColumnsAfter[stage - 1][rows[i][1].record][heading[j]]
      BY <1>1, <1>3 DEF Inv, RowsInv
    <3> QED
      BY <3>2, <3>3
  <2> QED
    BY <1>1, <1>3, <2>1 DEF Inv, RowsInv
<1>7. SourceInv' /\ WorkInv'
  BY <1>1 DEF SourceInv, WorkInv
<1> QED
  BY <1>2, <1>5, <1>6, <1>7 DEF Inv

LEMMA FinishInv ==
  ASSUME Inv, Finish
  PROVE  Inv'
<1>1. /\ query' = query /\ ColumnsAfter' = ColumnsAfter /\ UNCHANGED <<stage, heading, rows>>
      /\ pc = "next" /\ pc' = "done" /\ stage > Len(query.enrich) /\ Len(query.enrich) \in Nat
  BY ColumnsStay, QueryFact DEF Finish, Inv, StageInv
<1>2. StageInv'
  BY <1>1 DEF Inv, StageInv
<1>3. EnrichersDone' = EnrichersDone
  BY <1>1 DEF EnrichersDone
<1>4. HeadingInv'
  BY <1>1, <1>3 DEF Inv, HeadingInv
<1>5. RowsInv'
  BY <1>1, <1>3 DEF Inv, RowsInv
<1>6. SourceInv' /\ WorkInv'
  BY <1>1 DEF SourceInv, WorkInv
<1> QED
  BY <1>2, <1>4, <1>5, <1>6 DEF Inv

(* What does not change while an enricher works: its rows' partition.      *)
LEMMA WorkStay ==
  ASSUME query' = query, stage' = stage, Len(rows') = Len(rows)
  PROVE  Enricher' = Enricher /\ Threads' = Threads
BY DEF Enricher, Threads, ThreadsNumber

LEMMA EnricherFact ==
  ASSUME query \in Queries, stage \in 1..Len(query.enrich)
  PROVE  /\ Enricher = query.enrich[stage] /\ Enricher.threads \in Int
         /\ Enricher.dest \in Seq(STRING) /\ Len(Enricher.dest) \in Nat \ {0}
         /\ DOMAIN Enricher.dest = 1..Len(Enricher.dest)
         /\ \A i, j \in 1..Len(Enricher.dest) : Enricher.dest[i] = Enricher.dest[j] => i = j
         /\ Range(Enricher.dest) = {Enricher.dest[k] : k \in 1..Len(Enricher.dest)}
         /\ Field \notin Range(Enricher.dest)
         /\ \A e \in 1..(stage - 1) : Range(Enricher.dest) \cap Range(query.enrich[e].dest) = {}
<1>1. Enricher = query.enrich[stage] /\ Enricher \in EnricherType
      /\ Enricher.dest \in Seq(STRING) /\ Enricher.dest # <<>>
  BY QueryFact DEF Enricher
<1>2. Enricher.threads \in Int
  BY <1>1 DEF EnricherType
<1>3. Len(Enricher.dest) \in Nat \ {0} /\ DOMAIN Enricher.dest = 1..Len(Enricher.dest)
  BY <1>1
<1>4. Range(Enricher.dest) = {Enricher.dest[k] : k \in 1..Len(Enricher.dest)}
  BY <1>3 DEF Range
<1>5. \A e \in 1..(stage - 1) : e \in 1..Len(query.enrich) /\ e # stage
  BY QueryFact
<1> QED
  BY <1>1, <1>2, <1>3, <1>4, <1>5, QueryFact

LEMMA OwnRows ==
  ASSUME Len(rows) \in Nat, Enricher.threads \in Int
  PROVE  /\ \A w \in 1..Threads :
              /\ ThreadRows(w - 1, Len(rows), Threads) \subseteq 1..Len(rows)
              /\ Start(w - 1, Len(rows), Threads) \in Nat /\ Stop(w - 1, Len(rows), Threads) \in Nat
              /\ Start(w - 1, Len(rows), Threads) <= Stop(w - 1, Len(rows), Threads)
         /\ \A i \in 1..Len(rows) : \E w \in 1..Threads :
              /\ i \in ThreadRows(w - 1, Len(rows), Threads)
              /\ \A v \in 1..Threads : i \in ThreadRows(v - 1, Len(rows), Threads) => v = w
<1>1. \A t : t = ThreadsNumber(Enricher.threads, Len(rows)) =>
        /\ \A w \in 1..t : ThreadRows(w - 1, Len(rows), t) \subseteq 1..Len(rows)
        /\ \A i \in 1..Len(rows) : \E w \in 1..t :
             /\ i \in ThreadRows(w - 1, Len(rows), t)
             /\ \A v \in 1..t : i \in ThreadRows(v - 1, Len(rows), t) => v = w
  BY RowsOfWorkers, Zenon
<1>2. \A t : t = ThreadsNumber(Enricher.threads, Len(rows)) =>
        \A w \in 1..t :
          /\ Start(w - 1, Len(rows), t) \in Nat /\ Stop(w - 1, Len(rows), t) \in Nat
          /\ Start(w - 1, Len(rows), t) <= Stop(w - 1, Len(rows), t)
  BY ThreadFacts, Zenon
<1> QED
  BY <1>1, <1>2, Zenon DEF Threads

LEMMA StartInv ==
  ASSUME Inv, StartEnricher
  PROVE  Inv'
<1> DEFINE dest == Enricher.dest
           n == Len(rows)
           base == Len(heading)
<1>1. /\ query \in Queries /\ query' = query /\ ColumnsAfter' = ColumnsAfter
      /\ heading' = heading \o dest /\ rows' = rows /\ stage' = stage /\ pc = "next" /\ pc' = "work"
      /\ stage \in 1..Len(query.enrich) /\ Len(query.enrich) \in Nat
  <2>1. /\ query' = query /\ heading' = heading \o dest /\ rows' = rows /\ stage' = stage
        /\ pc = "next" /\ pc' = "work" /\ stage <= Len(query.enrich)
    BY DEF StartEnricher, NewColumns
  <2>2. query \in Queries /\ stage \in 1..(Len(query.enrich) + 1)
    BY <2>1 DEF Inv, StageInv
  <2> QED
    BY <2>1, <2>2, ColumnsStay, QueryFact
<1>2. Enricher' = Enricher /\ Threads' = Threads
  BY <1>1, WorkStay
<1>3. StageInv'
  BY <1>1 DEF StageInv
<1>4. EnrichersDone = stage - 1 /\ EnrichersDone' = stage
  BY <1>1 DEF EnrichersDone
<1>5. /\ dest \in Seq(STRING) /\ Len(dest) \in Nat \ {0}
      /\ \A i, j \in 1..Len(dest) : dest[i] = dest[j] => i = j
      /\ Range(dest) = {dest[k] : k \in 1..Len(dest)}
      /\ Field \notin Range(dest)
      /\ \A e \in 1..(stage - 1) : Range(dest) \cap Range(query.enrich[e].dest) = {}
      /\ dest = query.enrich[stage].dest /\ Enricher.threads \in Int
  BY <1>1, EnricherFact
<1>6. /\ heading \in Seq(STRING) /\ base \in Nat \ {0} /\ heading[1] = Field
      /\ \A i, j \in 1..base : heading[i] = heading[j] => i = j
      /\ \A i \in 1..base :
           heading[i] = Field \/ \E e \in 1..(stage - 1) : heading[i] \in Range(query.enrich[e].dest)
      /\ \A r \in Records : DOMAIN ColumnsAfter[stage - 1][r] = {heading[j] : j \in 1..base}
  BY <1>1, <1>4 DEF Inv, HeadingInv
<1> HIDE DEF dest, base
<1>7. /\ heading' \in Seq(STRING) /\ Len(heading') = base + Len(dest)
      /\ \A i \in 1..base : heading'[i] = heading[i]
      /\ \A k \in 1..Len(dest) : heading'[base + k] = dest[k]
  BY <1>1, <1>5, <1>6 DEF base
<1>8. \A i \in 1..base : heading[i] \notin Range(dest)
  BY <1>5, <1>6
<1>9. \A i \in 1..(base + Len(dest)) : i \in 1..base \/ \E k \in 1..Len(dest) : i = base + k
  <2>1. ASSUME NEW i \in 1..(base + Len(dest)), i \notin 1..base
        PROVE  i - base \in 1..Len(dest) /\ i = base + (i - base)
    BY <1>5, <1>6, <2>1
  <2> QED
    BY <2>1
<1>10. {heading'[j] : j \in 1..Len(heading')} = {heading[j] : j \in 1..base} \cup Range(dest)
  <2>1. ASSUME NEW j \in 1..Len(heading')
        PROVE  heading'[j] \in {heading[i] : i \in 1..base} \cup Range(dest)
    <3>1. j \in 1..(base + Len(dest))
      BY <1>7, <2>1
    <3>2. CASE j \in 1..base
      BY <1>7, <3>2
    <3>3. CASE j \notin 1..base
      <4>1. PICK k \in 1..Len(dest) : j = base + k
        BY <1>9, <3>1, <3>3
      <4>2. heading'[j] = dest[k]
        BY <1>7, <4>1
      <4>3. dest[k] \in Range(dest)
        BY <1>5
      <4> QED
        BY <4>2, <4>3
    <3> QED
      BY <3>2, <3>3
  <2>2. ASSUME NEW i \in 1..base PROVE heading[i] \in {heading'[j] : j \in 1..Len(heading')}
    <3>1. i \in 1..Len(heading')
      BY <1>5, <1>6, <1>7
    <3> QED
      BY <1>7, <3>1
  <2>3. ASSUME NEW k \in 1..Len(dest) PROVE dest[k] \in {heading'[j] : j \in 1..Len(heading')}
    <3>1. base + k \in 1..Len(heading')
      BY <1>5, <1>6, <1>7
    <3> QED
      BY <1>7, <3>1
  <2>4. Range(dest) \subseteq {heading'[j] : j \in 1..Len(heading')}
    <3>1. Range(dest) = {dest[k] : k \in 1..Len(dest)}
      BY <1>5
    <3> QED
      BY <2>3, <3>1
  <2>5. {heading[i] : i \in 1..base} \subseteq {heading'[j] : j \in 1..Len(heading')}
    BY <2>2
  <2>6. {heading'[j] : j \in 1..Len(heading')} \subseteq {heading[i] : i \in 1..base} \cup Range(dest)
    BY <2>1
  <2> QED
    BY <2>4, <2>5, <2>6
<1>11. PICK s \in 1..base : heading[s] = Enricher.source /\ Applies
  <2>1. Applies /\ SourceIndex(Enricher.source) # 0
    BY DEF StartEnricher, Applies
  <2>2. IndexIn(heading, Enricher.source) # 0
    BY <2>1 DEF SourceIndex, IndexIn
  <2> QED
    BY <1>6, <2>1, <2>2, IndexFact DEF base
<1>12. \A r \in Records : Usable(stage, ColumnsAfter[stage - 1][r])
  <2>1. Enricher.regexp => Enricher.compiled
    BY <1>11 DEF Applies
  <2> QED
    BY <1>6, <1>11, <2>1 DEF Usable, Enricher
<1>13. HeadingInv'
  <2>1. heading' # <<>> /\ heading'[1] = Field
    BY <1>5, <1>6, <1>7
  <2>2. ASSUME NEW i \in 1..Len(heading'), NEW j \in 1..Len(heading'), heading'[i] = heading'[j]
        PROVE  i = j
    <3>1. CASE i \in 1..base /\ j \in 1..base
      BY <1>6, <1>7, <2>2, <3>1
    <3>2. ASSUME NEW b \in 1..base, NEW k \in 1..Len(dest) PROVE heading'[b] # heading'[base + k]
      <4>1. heading'[b] = heading[b] /\ heading'[base + k] = dest[k]
        BY <1>7
      <4>2. heading[b] \notin Range(dest) /\ dest[k] \in Range(dest)
        BY <1>5, <1>8
      <4> QED
        BY <4>1, <4>2
    <3>5. i \in 1..(base + Len(dest)) /\ j \in 1..(base + Len(dest))
      BY <1>7, <2>2
    <3>6. i \in 1..base \/ \E k \in 1..Len(dest) : i = base + k
      BY <1>9, <3>5
    <3>7. j \in 1..base \/ \E k \in 1..Len(dest) : j = base + k
      BY <1>9, <3>5
    <3>3. (i \in 1..base) = (j \in 1..base)
      BY <2>2, <3>2, <3>6, <3>7
    <3>4. CASE i \notin 1..base /\ j \notin 1..base
      <4>1. PICK k \in 1..Len(dest) : i = base + k
        BY <3>4, <3>6
      <4>2. PICK l \in 1..Len(dest) : j = base + l
        BY <3>4, <3>7
      <4>3. dest[k] = dest[l]
        BY <1>7, <2>2, <4>1, <4>2
      <4> QED
        BY <1>5, <4>1, <4>2, <4>3
    <3> QED
      BY <3>1, <3>3, <3>4
  <2>3. ASSUME NEW i \in 1..Len(heading')
        PROVE  heading'[i] = Field \/ \E e \in 1..stage : heading'[i] \in Range(query.enrich[e].dest)
    <3>1. CASE i \in 1..base
      BY <1>1, <1>6, <1>7, <3>1
    <3>2. CASE i \notin 1..base
      <4>1. heading'[i] \in Range(query.enrich[stage].dest)
        <5>1. PICK k \in 1..Len(dest) : i = base + k
          BY <1>7, <1>9, <3>2
        <5>2. heading'[i] = dest[k]
          BY <1>7, <5>1
        <5>3. dest[k] \in Range(dest)
          BY <1>5
        <5> QED
          BY <1>5, <5>2, <5>3
      <4> QED
        BY <1>1, <4>1
    <3> QED
      BY <3>1, <3>2
  <2>4. ASSUME NEW r \in Records
        PROVE  DOMAIN ColumnsAfter[stage][r] = {heading'[j] : j \in 1..Len(heading')}
    <3>1. DOMAIN ColumnsAfter[stage][r]
            = DOMAIN ColumnsAfter[stage - 1][r] \cup Range(query.enrich[stage].dest)
      BY <1>1, <1>12, NextColumns
    <3>2. DOMAIN ColumnsAfter[stage - 1][r] = {heading[j] : j \in 1..base}
      BY <1>6
    <3> QED
      BY <1>5, <1>10, <3>1, <3>2
  <2> QED
    BY <1>1, <1>4, <1>7, <2>1, <2>2, <2>3, <2>4 DEF HeadingInv
<1>14. RowsInv'
  <2>1. ASSUME NEW i \in 1..Len(rows)
        PROVE  /\ Len(rows[i]) = base
               /\ \A j \in 1..base : /\ rows[i][j].record = rows[i][1].record
                                     /\ rows[i][j] = ColumnsAfter[stage][rows[i][1].record][heading'[j]]
    <3> DEFINE rec == rows[i][1].record
               before == ColumnsAfter[stage - 1][rec]
               after == ColumnsAfter[stage][rec]
    <3>1. rec \in Records
      BY <1>1, RowFact DEF Inv
    <3>2. Len(rows[i]) = base
      BY <1>1 DEF Inv, RowsInv, base
    <3>3. \A j \in 1..base : rows[i][j].record = rec /\ rows[i][j] = before[heading[j]]
      <4>1. before = ColumnsAfter[EnrichersDone][rec]
        BY <1>4
      <4> HIDE DEF before
      <4> QED
        BY <1>1, <3>2, <4>1 DEF Inv, RowsInv
    <3>4. ASSUME NEW j \in 1..base PROVE after[heading[j]] = before[heading[j]]
      <4>1. heading[j] \in DOMAIN before
        BY <1>6, <3>1
      <4> QED
        BY <1>1, <1>12, <3>1, <4>1, NextColumns
    <3>5. \A j \in 1..base : heading'[j] = heading[j]
      BY <1>7
    <3> HIDE DEF before, after
    <3>6. ASSUME NEW j \in 1..base
          PROVE  rows[i][j].record = rec /\ rows[i][j] = after[heading'[j]]
      BY <3>3, <3>4, <3>5
    <3> QED
      BY <3>2, <3>6 DEF after
  <2>2. base <= Len(heading')
    BY <1>5, <1>6, <1>7
  <2>3. rows \in Seq(Seq(Value)) /\ pc' # "idle" /\ 1 <= base
    BY <1>1, <1>6 DEF Inv, RowsInv
  <2>4. ASSUME NEW i \in 1..Len(rows)
        PROVE  /\ 1 <= Len(rows[i]) /\ Len(rows[i]) <= Len(heading')
               /\ \A j \in 1..Len(rows[i]) :
                    /\ rows[i][j].record = rows[i][1].record
                    /\ rows[i][j] = ColumnsAfter'[EnrichersDone'][rows[i][1].record][heading'[j]]
    <3>1. ColumnsAfter'[EnrichersDone'] = ColumnsAfter[stage]
      BY <1>1, <1>4
    <3> QED
      BY <2>1, <2>2, <2>3, <3>1
  <2> QED
    BY <1>1, <2>3, <2>4 DEF RowsInv
<1>15. Base' = base /\ base \in 1..Len(heading')
  BY <1>2, <1>5, <1>6, <1>7 DEF Base, dest
<1>16. SourceInv'
  <2>1. SourceIndex(Enricher.source)' = IndexIn(heading', Enricher.source)
    BY <1>2 DEF SourceIndex, IndexIn
  <2>2. s \in 1..Len(heading') /\ heading'[s] = Enricher.source
    BY <1>5, <1>6, <1>7, <1>11
  <2>3. /\ IndexIn(heading', Enricher.source) \in 1..s
        /\ heading'[IndexIn(heading', Enricher.source)] = Enricher.source
    BY <1>7, <2>2, IndexFact
  <2>4. \A r \in Records : /\ Usable(stage, ColumnsAfter[stage - 1][r])'
                           /\ DOMAIN ColumnsAfter[stage - 1][r] = {heading'[j] : j \in 1..base}
    BY <1>1, <1>6, <1>7, <1>12 DEF Usable
  <2>5. (\A k \in 1..Len(Enricher.dest) : heading[Base + k] = Enricher.dest[k])'
    BY <1>2, <1>7, <1>15 DEF dest
  <2>6. /\ SourceIndex(Enricher.source)' \in 1..base
        /\ heading'[SourceIndex(Enricher.source)'] = Enricher'.source
    BY <1>2, <1>6, <2>1, <2>3
  <2> QED
    BY <1>1, <1>15, <2>4, <2>5, <2>6 DEF SourceInv
<1>17. WorkInv'
  <2>1. n \in Nat /\ Len(rows') = n /\ Threads = ThreadsNumber(Enricher.threads, n)
    BY <1>1 DEF Inv, RowsInv, Threads
  <2>2. workers' = [w \in 1..Threads |-> NewWorker(w - 1, n, Threads)]
    BY DEF StartEnricher, Threads
  <2>3. ASSUME NEW w \in 1..Threads PROVE WorkerInv(w)'
    <3>1. /\ Start(w - 1, n, Threads) \in Nat /\ Stop(w - 1, n, Threads) \in Nat
          /\ Start(w - 1, n, Threads) <= Stop(w - 1, n, Threads)
      BY <1>5, <2>1, OwnRows
    <3>2. workers'[w] = [row |-> Start(w - 1, n, Threads), stop |-> Stop(w - 1, n, Threads),
                         k |-> 1, done |-> FALSE]
      BY <2>2, <2>3 DEF NewWorker
    <3>3. ASSUME NEW i \in ThreadRows(w - 1, n, Threads)
          PROVE  Len(rows'[i]) = base + Appended(workers[w], i)'
      <4>1. i \in 1..n
        <5>1. ThreadRows(w - 1, n, Threads) \subseteq 1..n
          BY <1>5, <2>1, OwnRows
        <5> QED
          BY <3>3, <5>1
      <4>2. Len(rows[i]) = base
        BY <1>1, <4>1 DEF Inv, RowsInv, base
      <4>3. i \in Int /\ ~(i < Start(w - 1, n, Threads))
        BY <3>1, <3>3, <4>1 DEF ThreadRows
      <4>4. Appended(workers[w], i)' = 0
        BY <3>2, <4>3 DEF Appended
      <4> QED
        BY <1>1, <1>6, <4>2, <4>4
    <3>4. /\ workers'[w] \in [row : Nat, stop : Nat, k : Nat, done : BOOLEAN]
          /\ workers'[w].stop = Stop(w - 1, n, Threads)
          /\ workers'[w].row \in Start(w - 1, n, Threads)..workers'[w].stop
          /\ workers'[w].k \in 1..Len(dest) /\ workers'[w].k = 1 /\ ~workers'[w].done
      BY <1>5, <3>1, <3>2
    <3> QED
      BY <1>2, <1>15, <2>1, <3>3, <3>4 DEF WorkerInv, dest
  <2>4. DOMAIN workers' = 1..Threads
    BY <2>2
  <2> QED
    BY <1>1, <1>2, <2>3, <2>4 DEF WorkInv
<1> QED
  BY <1>3, <1>13, <1>14, <1>16, <1>17 DEF Inv

(* The column that a goroutine appends is the next one of its row.         *)
LEMMA AppendedValue ==
  ASSUME Inv, pc = "work", NEW i \in 1..Len(rows), NEW k \in 1..Len(Enricher.dest),
         Len(rows[i]) = Base + (k - 1),
         NEW value,
         value = DestValue(Enricher.dest[k], Content(rows[i][SourceIndex(Enricher.source)]))
  PROVE  /\ value \in Value /\ value.record = rows[i][1].record
         /\ value = ColumnsAfter[stage][rows[i][1].record][heading[Base + k]]
<1> DEFINE r == rows[i][1].record
           s == SourceIndex(Enricher.source)
           dest == Enricher.dest
<1>1. /\ query \in Queries /\ stage \in 1..Len(query.enrich) /\ EnrichersDone = stage
  BY DEF Inv, StageInv, EnrichersDone
<1>2. /\ dest \in Seq(STRING) /\ Len(dest) \in Nat \ {0} /\ Enricher = query.enrich[stage]
      /\ Range(dest) = {dest[l] : l \in 1..Len(dest)}
  BY <1>1, EnricherFact
<1>3. /\ Base \in 1..Len(heading) /\ Len(heading) \in Nat /\ Len(heading) = Base + Len(dest)
      /\ \A l \in 1..Len(dest) : heading[Base + l] = dest[l]
      /\ s \in 1..Base /\ heading[s] = Enricher.source
      /\ \A q \in Records : /\ Usable(stage, ColumnsAfter[stage - 1][q])
                            /\ DOMAIN ColumnsAfter[stage - 1][q] = {heading[j] : j \in 1..Base}
      /\ \A j, l \in 1..Len(heading) : heading[j] = heading[l] => j = l
  <2>1. /\ heading \in Seq(STRING)
        /\ \A j, l \in 1..Len(heading) : heading[j] = heading[l] => j = l
    BY DEF Inv, HeadingInv
  <2>2. Len(heading) \in Nat /\ Len(heading) = Base + Len(dest)
    BY <1>2, <2>1 DEF Base
  <2> QED
    BY <2>1, <2>2 DEF Inv, SourceInv
<1>4. /\ rows[i] \in Seq(Value) /\ Len(rows[i]) \in Nat
      /\ \A j \in 1..Len(rows[i]) : /\ rows[i][j] \in Value /\ rows[i][j].record = r
                                    /\ rows[i][j] = ColumnsAfter[stage][r][heading[j]]
      /\ r \in Records
  BY <1>1, RowFact DEF Inv, RowsInv
<1> HIDE DEF r, s, dest
<1>5. s \in 1..Len(rows[i])
  BY <1>2, <1>3, <1>4 DEF dest
<1>6. rows[i][s] \in Value /\ rows[i][s].record = r /\ r \in Records
  BY <1>4, <1>5
<1>7. rows[i][s] = ColumnsAfter[stage - 1][r][Enricher.source]
  <2>1. Enricher.source \in DOMAIN ColumnsAfter[stage - 1][r]
    BY <1>3, <1>6
  <2>2. ColumnsAfter[stage][r][Enricher.source] = ColumnsAfter[stage - 1][r][Enricher.source]
    BY <1>1, <1>3, <1>6, <2>1, NextColumns
  <2> QED
    <3>1. rows[i][s] = ColumnsAfter[stage][r][heading[s]]
      BY <1>4, <1>5
    <3>2. heading[s] = Enricher.source
      BY <1>3
    <3> QED
      BY <2>2, <3>1, <3>2
<1>8. dest[k] \in STRING /\ dest[k] \in Range(dest)
  BY <1>2 DEF dest
<1>9. /\ value \in Value /\ value.record = r
      /\ value = Described(stage, dest[k], r, rows[i][s])
  <2>1. value = DestValue(dest[k], Content(rows[i][s]))
    BY DEF dest, s
  <2>2. /\ DestValue(dest[k], Content(rows[i][s])) \in Value
        /\ DestValue(dest[k], Content(rows[i][s])).record = rows[i][s].record
        /\ DestValue(dest[k], Content(rows[i][s]))
             = Described(stage, dest[k], rows[i][s].record, rows[i][s])
    BY <1>1, <1>6, <1>8, DestValueFact
  <2> QED
    BY <1>6, <2>1, <2>2
<1>10. dest[k] \notin DOMAIN ColumnsAfter[stage - 1][r]
  <2>1. k \in 1..Len(dest) /\ heading[Base + k] = dest[k]
    BY <1>3 DEF dest
  <2>4. Base \in Nat /\ k \in Nat \ {0} /\ k <= Len(dest)
    <3>1. Base \in Nat
      BY <1>3
    <3>2. Len(dest) \in Nat
      BY <1>2
    <3> QED
      BY <2>1, <3>1, <3>2
  <2>5. Base + k \in 1..Len(heading)
    BY <1>2, <1>3, <2>4
  <2>2. ASSUME NEW j \in 1..Base PROVE heading[j] # dest[k]
    <3>1. j \in 1..Len(heading) /\ j # Base + k
      BY <1>3, <2>4
    <3> QED
      BY <1>3, <2>1, <2>5, <3>1
  <2>3. DOMAIN ColumnsAfter[stage - 1][r] = {heading[j] : j \in 1..Base}
    BY <1>3, <1>6
  <2> QED
    BY <2>2, <2>3
<1>11. ColumnsAfter[stage][r][dest[k]]
         = Described(stage, dest[k], r, ColumnsAfter[stage - 1][r][Enricher.source])
  <2>1. dest[k] \in Range(query.enrich[stage].dest) \ DOMAIN ColumnsAfter[stage - 1][r]
    BY <1>2, <1>8, <1>10 DEF dest
  <2>2. Usable(stage, ColumnsAfter[stage - 1][r]) /\ Enricher.source = query.enrich[stage].source
    BY <1>2, <1>3, <1>6
  <2> QED
    BY <1>1, <1>6, <2>1, <2>2, NextColumns
<1>12. heading[Base + k] = dest[k]
  BY <1>3 DEF dest
<1> QED
  BY <1>7, <1>9, <1>11, <1>12 DEF r

LEMMA AppendInv ==
  ASSUME Inv, NEW w \in DOMAIN workers, AppendValue(w)
  PROVE  Inv'
<1> DEFINE n == Len(rows)
           i == workers[w].row
           k == workers[w].k
           L == Len(Enricher.dest)
           value == DestValue(Enricher.dest[k], Content(rows[i][SourceIndex(Enricher.source)]))
<1>1. /\ pc = "work" /\ i < workers[w].stop
      /\ rows' = [rows EXCEPT ![i] = Append(@, value)]
      /\ workers' = [workers EXCEPT ![w] = NextField(@)]
      /\ UNCHANGED <<query, pc, stage, heading>>
  BY DEF AppendValue, Working
<1>2. /\ query \in Queries /\ stage \in 1..Len(query.enrich) /\ Len(query.enrich) \in Nat
      /\ ColumnsAfter' = ColumnsAfter
  BY <1>1, ColumnsStay, QueryFact DEF Inv, StageInv
<1>3. Enricher.threads \in Int /\ L \in Nat \ {0}
  BY <1>2, EnricherFact
<1>4. /\ rows \in Seq(Seq(Value)) /\ n \in Nat /\ DOMAIN rows = 1..n
      /\ Threads = ThreadsNumber(Enricher.threads, n) /\ Threads \in Nat
      /\ DOMAIN workers = 1..Threads /\ w \in 1..Threads
      /\ \A v \in 1..Threads : WorkerInv(v)
      /\ Base \in Nat \ {0} /\ Len(heading) = Base + L /\ Len(heading) \in Nat
  <2>1. /\ rows \in Seq(Seq(Value)) /\ DOMAIN workers = 1..Threads
        /\ \A v \in 1..Threads : WorkerInv(v)
        /\ Base \in 1..Len(heading) /\ heading \in Seq(STRING)
    BY <1>1 DEF Inv, RowsInv, WorkInv, SourceInv, HeadingInv
  <2>2. n \in Nat /\ DOMAIN rows = 1..n
    BY <2>1
  <2>3. Threads = ThreadsNumber(Enricher.threads, n) /\ Threads \in Nat
    BY <1>3, <2>2 DEF Threads, ThreadsNumber
  <2>4. Len(heading) \in Nat /\ Len(heading) = Base + L
    BY <1>3, <2>1 DEF Base
  <2> QED
    BY <2>1, <2>2, <2>3, <2>4
<1>5. /\ workers[w] \in [row : Nat, stop : Nat, k : Nat, done : BOOLEAN]
      /\ workers[w].stop = Stop(w - 1, n, Threads)
      /\ i \in Start(w - 1, n, Threads)..workers[w].stop
      /\ k \in 1..L
      /\ ~workers[w].done
      /\ \A j \in ThreadRows(w - 1, n, Threads) : Len(rows[j]) = Base + Appended(workers[w], j)
  <2>1. WorkerInv(w)
    BY <1>4
  <2>2. workers[w].done => i = workers[w].stop
    BY <2>1 DEF WorkerInv
  <2>3. i \in Nat /\ workers[w].stop \in Nat
    BY <2>1 DEF WorkerInv
  <2> QED
    BY <1>1, <2>1, <2>2, <2>3 DEF WorkerInv
<1>6. Start(w - 1, n, Threads) \in Nat /\ Stop(w - 1, n, Threads) \in Nat
  BY <1>3, <1>4, OwnRows
<1>7. i \in ThreadRows(w - 1, n, Threads) /\ i \in 1..n
  <2>1. i \in ThreadRows(w - 1, n, Threads)
    BY <1>1, <1>5, <1>6 DEF ThreadRows
  <2>2. ThreadRows(w - 1, n, Threads) \subseteq 1..n
    BY <1>3, <1>4, OwnRows
  <2> QED
    BY <2>1, <2>2
<1>8. Len(rows[i]) = Base + (k - 1)
  <2>1. Appended(workers[w], i) = k - 1
    BY <1>5, <1>6 DEF Appended
  <2> QED
    BY <1>5, <1>7, <2>1
<1>9. /\ value \in Value /\ value.record = rows[i][1].record
      /\ value = ColumnsAfter[stage][rows[i][1].record][heading[Base + k]]
  BY <1>1, <1>5, <1>7, <1>8, AppendedValue
<1> HIDE DEF value, n, i, k, L
<1>10. /\ Len(rows') = n /\ rows' \in Seq(Seq(Value))
       /\ \A j \in 1..n : j # i => rows'[j] = rows[j]
       /\ rows'[i] = Append(rows[i], value) /\ rows[i] \in Seq(Value)
  <2>1. rows[i] \in Seq(Value)
    BY <1>4, <1>7
  <2>2. Append(rows[i], value) \in Seq(Value)
    BY <1>9, <2>1
  <2> QED
    BY <1>1, <1>4, <1>7, <2>1, <2>2 DEF n
<1>11. /\ Len(rows'[i]) = Base + k
       /\ \A j \in 1..(Base + (k - 1)) : rows'[i][j] = rows[i][j]
       /\ rows'[i][Base + k] = value
  <2>1. Len(rows[i]) \in Nat /\ Len(rows[i]) + 1 = Base + k
    BY <1>4, <1>5, <1>8
  <2>2. /\ Len(rows'[i]) = Len(rows[i]) + 1
        /\ \A j \in 1..Len(rows[i]) : rows'[i][j] = rows[i][j]
        /\ rows'[i][Len(rows[i]) + 1] = value
    BY <1>10
  <2> QED
    BY <1>8, <2>1, <2>2
<1>12. StageInv' /\ HeadingInv' /\ EnrichersDone' = stage /\ EnrichersDone = stage
  <2>1. StageInv'
    BY <1>1 DEF Inv, StageInv
  <2>2. EnrichersDone' = stage /\ EnrichersDone = stage
    BY <1>1 DEF EnrichersDone
  <2>3. HeadingInv'
    BY <1>1, <1>2, <2>2 DEF Inv, HeadingInv
  <2> QED
    BY <2>1, <2>2, <2>3
<1>13. RowsInv'
  <2>1. ASSUME NEW j \in 1..n
        PROVE  /\ 1 <= Len(rows'[j]) /\ Len(rows'[j]) <= Len(heading)
               /\ \A c \in 1..Len(rows'[j]) :
                    /\ rows'[j][c].record = rows'[j][1].record
                    /\ rows'[j][c] = ColumnsAfter[stage][rows'[j][1].record][heading[c]]
    <3>1. /\ 1 <= Len(rows[j]) /\ Len(rows[j]) <= Len(heading) /\ Len(rows[j]) \in Nat
          /\ \A c \in 1..Len(rows[j]) :
               /\ rows[j][c].record = rows[j][1].record
               /\ rows[j][c] = ColumnsAfter[stage][rows[j][1].record][heading[c]]
      BY <1>1, <1>12 DEF Inv, RowsInv, n
    <3>2. CASE j # i
      BY <1>10, <3>1, <3>2
    <3>3. CASE j = i
      <4>1. rows'[i][1] = rows[i][1]
        BY <1>4, <1>5, <1>11
      <4>2. ASSUME NEW c \in 1..(Base + k)
            PROVE  /\ rows'[i][c].record = rows[i][1].record
                   /\ rows'[i][c] = ColumnsAfter[stage][rows[i][1].record][heading[c]]
        <5>1. CASE c = Base + k
          BY <1>9, <1>11, <5>1
        <5>2. CASE c # Base + k
          <6>1. c \in 1..(Base + (k - 1)) /\ c \in 1..Len(rows[i])
            BY <1>4, <1>5, <1>8, <5>2
          <6>2. rows'[i][c] = rows[i][c]
            BY <1>11, <6>1
          <6>3. /\ rows[i][c].record = rows[i][1].record
                /\ rows[i][c] = ColumnsAfter[stage][rows[i][1].record][heading[c]]
            BY <3>1, <3>3, <6>1
          <6> QED
            BY <6>2, <6>3
        <5> QED
          BY <5>1, <5>2
      <4>3. Base + k \in Nat /\ 1 <= Base + k /\ Base + k <= Len(heading)
        BY <1>3, <1>4, <1>5
      <4> QED
        BY <1>11, <3>3, <4>1, <4>2, <4>3
    <3> QED
      BY <3>2, <3>3
  <2>2. ASSUME NEW j \in 1..Len(rows')
        PROVE  /\ 1 <= Len(rows'[j]) /\ Len(rows'[j]) <= Len(heading')
               /\ \A c \in 1..Len(rows'[j]) :
                    /\ rows'[j][c].record = rows'[j][1].record
                    /\ rows'[j][c] = ColumnsAfter'[EnrichersDone'][rows'[j][1].record][heading'[c]]
    <3>1. j \in 1..n /\ heading' = heading
      BY <1>1, <1>10
    <3>2. ColumnsAfter'[EnrichersDone'] = ColumnsAfter[stage]
      BY <1>2, <1>12
    <3> QED
      BY <2>1, <3>1, <3>2
  <2>3. pc' = "work" /\ rows' \in Seq(Seq(Value))
    BY <1>1, <1>10
  <2> QED
    BY <2>2, <2>3 DEF RowsInv
<1>14. Enricher' = Enricher /\ Threads' = Threads /\ Base' = Base
  <2>1. Enricher' = Enricher /\ Threads' = Threads
    BY <1>1, <1>10, WorkStay DEF n
  <2> QED
    BY <1>1, <2>1 DEF Base
<1>15. SourceInv'
  BY <1>1, <1>2, <1>14 DEF Inv, SourceInv, SourceIndex, Usable
<1>16. WorkInv'
  <2>1. DOMAIN workers' = 1..Threads
    BY <1>1, <1>4
  <2>2. ASSUME NEW v \in 1..Threads, v # w PROVE WorkerInv(v)'
    <3>1. WorkerInv(v) /\ workers'[v] = workers[v]
      BY <1>1, <1>4, <2>2
    <3>2. ASSUME NEW j \in ThreadRows(v - 1, n, Threads)
          PROVE  rows'[j] = rows[j]
      <4>1. j # i
        <5>1. PICK u \in 1..Threads :
                /\ i \in ThreadRows(u - 1, n, Threads)
                /\ \A x \in 1..Threads : i \in ThreadRows(x - 1, n, Threads) => x = u
          BY <1>3, <1>4, <1>7, OwnRows DEF n
        <5> QED
          BY <1>4, <1>7, <2>2, <3>2, <5>1
      <4>2. j \in 1..n
        <5>1. ThreadRows(v - 1, n, Threads) \subseteq 1..n
          BY <1>3, <1>4, OwnRows DEF n
        <5> QED
          BY <3>2, <5>1
      <4> QED
        BY <1>10, <4>1, <4>2
    <3>3. \A j \in ThreadRows(v - 1, n, Threads) :
            Len(rows'[j]) = Base + Appended(workers[v], j)'
      BY <1>14, <3>1, <3>2 DEF WorkerInv, Appended, n
    <3> QED
      BY <1>10, <1>14, <3>1, <3>3 DEF WorkerInv, n
  <2>3. WorkerInv(w)'
    <3>1. workers'[w] = NextField(workers[w])
      BY <1>1, <1>4
    <3>2. CASE k < L
      <4>1. workers'[w] = [workers[w] EXCEPT !.k = k + 1]
        BY <3>1, <3>2 DEF NextField, k, L
      <4>2. /\ workers'[w] \in [row : Nat, stop : Nat, k : Nat, done : BOOLEAN]
            /\ workers'[w].row = i /\ workers'[w].stop = workers[w].stop /\ workers'[w].k = k + 1
            /\ workers'[w].done = workers[w].done
        BY <1>5, <4>1 DEF i, k
      <4>3. ASSUME NEW j \in ThreadRows(w - 1, n, Threads)
            PROVE  Len(rows'[j]) = Base + Appended(workers[w], j)'
        <5>1. j \in 1..n
          <6>1. ThreadRows(w - 1, n, Threads) \subseteq 1..n
            BY <1>3, <1>4, OwnRows DEF n
          <6> QED
            BY <4>3, <6>1
        <5>2. CASE j = i
          <6>1. Appended(workers[w], j)' = k
            BY <1>3, <1>5, <4>2, <5>2 DEF Appended
          <6> QED
            BY <1>11, <5>2, <6>1
        <5>3. CASE j # i
          <6>1. Appended(workers[w], j)' = Appended(workers[w], j)
            BY <1>14, <4>2, <5>3 DEF Appended, i
          <6> QED
            BY <1>5, <1>10, <4>3, <5>1, <5>3, <6>1
        <5> QED
          BY <5>2, <5>3
      <4>4. i # workers[w].stop
        BY <1>1, <1>5, <1>6
      <4> QED
        BY <1>3, <1>5, <1>10, <1>14, <3>2, <4>2, <4>3, <4>4 DEF WorkerInv, n, L
    <3>3. CASE k = L
      <4>1. workers'[w] = [workers[w] EXCEPT !.k = 1, !.row = i + 1]
        BY <1>3, <3>1, <3>3 DEF NextField, i, k, L
      <4>2. /\ workers'[w] \in [row : Nat, stop : Nat, k : Nat, done : BOOLEAN]
            /\ workers'[w].row = i + 1 /\ workers'[w].stop = workers[w].stop /\ workers'[w].k = 1
            /\ workers'[w].done = workers[w].done
        <5>1. i + 1 \in Nat
          BY <1>5, <1>6
        <5> DEFINE next == [workers[w] EXCEPT !.k = 1]
        <5>2. /\ next \in [row : Nat, stop : Nat, k : Nat, done : BOOLEAN]
              /\ next.k = 1 /\ next.stop = workers[w].stop /\ next.done = workers[w].done
          BY <1>5
        <5>3. workers'[w] = [next EXCEPT !.row = i + 1]
          BY <4>1
        <5> HIDE DEF next
        <5> QED
          BY <5>1, <5>2, <5>3
      <4>3. ASSUME NEW j \in ThreadRows(w - 1, n, Threads)
            PROVE  Len(rows'[j]) = Base + Appended(workers[w], j)'
        <5>1. j \in 1..n
          <6>1. ThreadRows(w - 1, n, Threads) \subseteq 1..n
            BY <1>3, <1>4, OwnRows DEF n
          <6> QED
            BY <4>3, <6>1
        <5>2. CASE j = i
          <6>1. Appended(workers[w], j)' = L
            BY <1>7, <1>14, <4>2, <5>2 DEF Appended, L
          <6> QED
            BY <1>11, <3>3, <5>2, <6>1
        <5>3. CASE j # i
          <6>1. Appended(workers[w], j)' = Appended(workers[w], j)
            BY <1>7, <1>14, <4>2, <5>1, <5>3 DEF Appended, i
          <6> QED
            BY <1>5, <1>10, <4>3, <5>1, <5>3, <6>1
        <5> QED
          BY <5>2, <5>3
      <4>4. i + 1 \in Start(w - 1, n, Threads)..workers[w].stop
        BY <1>1, <1>5, <1>6
      <4> QED
        BY <1>3, <1>5, <1>10, <1>14, <4>2, <4>3, <4>4 DEF WorkerInv, n, L
    <3> QED
      BY <1>3, <1>5, <3>2, <3>3
  <2> QED
    BY <1>1, <1>14, <2>1, <2>2, <2>3 DEF WorkInv
<1> QED
  BY <1>12, <1>13, <1>15, <1>16 DEF Inv

LEMMA FinishWorkerInv ==
  ASSUME Inv, NEW w \in DOMAIN workers, FinishWorker(w)
  PROVE  Inv'
<1>1. /\ pc = "work" /\ workers[w].row >= workers[w].stop
      /\ workers' = [workers EXCEPT ![w].done = TRUE]
      /\ UNCHANGED <<query, pc, stage, heading, rows>>
  BY DEF FinishWorker
<1>2. ColumnsAfter' = ColumnsAfter /\ Enricher' = Enricher /\ Threads' = Threads /\ Base' = Base
      /\ EnrichersDone' = EnrichersDone
  BY <1>1, ColumnsStay DEF Enricher, Threads, ThreadsNumber, Base, EnrichersDone
<1>3. StageInv' /\ HeadingInv' /\ RowsInv'
  BY <1>1, <1>2 DEF Inv, StageInv, HeadingInv, RowsInv
<1>4. SourceInv'
  BY <1>1, <1>2 DEF Inv, SourceInv, SourceIndex, Usable
<1>5. DOMAIN workers = 1..Threads /\ \A v \in 1..Threads : WorkerInv(v)
  BY <1>1 DEF Inv, WorkInv
<1>8. Len(rows) \in Nat /\ Enricher.threads \in Int
  BY <1>1, EnricherFact DEF Inv, StageInv, RowsInv
<1>6. ASSUME NEW v \in 1..Threads
      PROVE  WorkerInv(v)'
  <2>1. WorkerInv(v)
    BY <1>5
  <2>2. CASE v # w
    <3>1. workers'[v] = workers[v]
      BY <1>1, <1>5, <2>2
    <3> QED
      BY <1>1, <1>2, <2>1, <3>1 DEF WorkerInv, Appended
  <2>3. CASE v = w
    <3>1. workers'[w] = [workers[w] EXCEPT !.done = TRUE]
      BY <1>1, <1>5
    <3>2. /\ workers[w] \in [row : Nat, stop : Nat, k : Nat, done : BOOLEAN]
          /\ workers[w].row \in Start(w - 1, Len(rows), Threads)..workers[w].stop
      BY <2>1, <2>3 DEF WorkerInv
    <3>3. /\ workers'[w] \in [row : Nat, stop : Nat, k : Nat, done : BOOLEAN]
          /\ workers'[w].row = workers[w].row /\ workers'[w].stop = workers[w].stop
          /\ workers'[w].k = workers[w].k /\ workers[w].row = workers[w].stop
      <4>1. Start(w - 1, Len(rows), Threads) \in Nat
        BY <1>8, <1>5, <2>3, OwnRows
      <4>2. workers[w].row = workers[w].stop
        BY <1>1, <3>2, <4>1
      <4> QED
        BY <3>1, <3>2, <4>2
    <3>4. \A j : Appended(workers[w], j)' = Appended(workers[w], j)
      BY <1>2, <3>3 DEF Appended
    <3> QED
      BY <1>1, <1>2, <2>1, <2>3, <3>3, <3>4 DEF WorkerInv
  <2> QED
    BY <2>2, <2>3
<1>7. WorkInv'
  BY <1>1, <1>2, <1>5, <1>6 DEF WorkInv
<1> QED
  BY <1>3, <1>4, <1>7 DEF Inv

LEMMA EndInv ==
  ASSUME Inv, EndEnricher
  PROVE  Inv'
<1>1. /\ pc = "work" /\ AllDone /\ pc' = "next" /\ stage' = stage + 1
      /\ UNCHANGED <<query, heading, rows>>
  BY DEF EndEnricher
<1>2. /\ query \in Queries /\ stage \in 1..Len(query.enrich) /\ Len(query.enrich) \in Nat
      /\ ColumnsAfter' = ColumnsAfter /\ EnrichersDone = stage /\ EnrichersDone' = stage
  BY <1>1, ColumnsStay, QueryFact DEF Inv, StageInv, EnrichersDone
<1>3. StageInv'
  BY <1>1, <1>2 DEF StageInv
<1>4. HeadingInv'
  BY <1>1, <1>2 DEF Inv, HeadingInv
<1>5. Enricher.threads \in Int /\ Len(Enricher.dest) \in Nat
  BY <1>2, EnricherFact
<1>6. /\ rows \in Seq(Seq(Value)) /\ Len(rows) \in Nat
      /\ Base \in 1..Len(heading) /\ heading \in Seq(STRING)
  BY <1>1 DEF Inv, RowsInv, SourceInv, HeadingInv
<1>7. ASSUME NEW i \in 1..Len(rows) PROVE Len(rows[i]) = Len(heading)
  <2>1. PICK w \in 1..Threads : i \in ThreadRows(w - 1, Len(rows), Threads)
    BY <1>5, <1>6, OwnRows
  <2>2. WorkerInv(w) /\ workers[w].done
    BY <1>1 DEF Inv, WorkInv, AllDone
  <2>3. i < workers[w].row
    <3>1. /\ Start(w - 1, Len(rows), Threads) \in Nat /\ Stop(w - 1, Len(rows), Threads) \in Nat
      BY <1>5, <1>6, OwnRows
    <3> QED
      BY <2>1, <2>2, <3>1 DEF WorkerInv, ThreadRows
  <2>4. Len(rows[i]) = Base + Len(Enricher.dest)
    BY <2>1, <2>2, <2>3 DEF WorkerInv, Appended
  <2> QED
    BY <1>5, <1>6, <2>4 DEF Base
<1>8. RowsInv'
  BY <1>1, <1>2, <1>7 DEF Inv, RowsInv
<1>9. SourceInv' /\ WorkInv'
  BY <1>1 DEF SourceInv, WorkInv
<1> QED
  BY <1>3, <1>4, <1>8, <1>9 DEF Inv

LEMMA StepInv == Inv /\ [Next]_vars => Inv'
<1> SUFFICES ASSUME Inv, [Next]_vars PROVE Inv'
  OBVIOUS
<1>1. ASSUME UNCHANGED vars PROVE Inv'
  <2>1. /\ query' = query /\ pc' = pc /\ stage' = stage /\ heading' = heading /\ rows' = rows
        /\ workers' = workers
    BY <1>1 DEF vars
  <2>2. ColumnsAfter' = ColumnsAfter /\ Enricher' = Enricher /\ Threads' = Threads /\ Base' = Base
        /\ EnrichersDone' = EnrichersDone
    BY <2>1, ColumnsStay DEF Enricher, Threads, ThreadsNumber, Base, EnrichersDone
  <2>3. StageInv' /\ HeadingInv' /\ RowsInv'
    BY <2>1, <2>2 DEF Inv, StageInv, HeadingInv, RowsInv
  <2>4. SourceInv'
    BY <2>1, <2>2 DEF Inv, SourceInv, SourceIndex, Usable
  <2>5. WorkInv'
    BY <2>1, <2>2 DEF Inv, WorkInv, WorkerInv, Appended
  <2> QED
    BY <2>3, <2>4, <2>5 DEF Inv
<1> QED
  BY <1>1, ArriveInv, SkipInv, StartInv, AppendInv, FinishWorkerInv, EndInv, FinishInv DEF Next

(* However the goroutines of the enrichers interleave, for any number of   *)
(* them, of rows and of enrichers: an answer that is enriched has the      *)
(* columns of the usable enrichers, and every row has in each of them the  *)
(* value that the guide describes for its record (Enrich, addColumn).      *)
THEOREM ColumnsAsDescribed == Spec => []ColumnsAreSequential
<1>1. Init => Inv
  BY DEF Init, Inv, StageInv, HeadingInv, RowsInv, SourceInv, WorkInv
<1>2. Inv => ColumnsAreSequential
  <2> SUFFICES ASSUME Inv, pc = "done" PROVE ColumnsAreSequential
    BY DEF ColumnsAreSequential
  <2>1. /\ query \in Queries /\ Len(query.enrich) \in Nat /\ EnrichersDone = Len(query.enrich)
    BY QueryFact DEF Inv, StageInv, EnrichersDone
  <2>2. heading \in Seq(STRING) /\ Range(heading) = {heading[j] : j \in 1..Len(heading)}
        /\ DOMAIN heading = 1..Len(heading)
    BY DEF Inv, HeadingInv, Range
  <2>3. \A r \in Records : Range(heading) = DOMAIN ColumnsAfter[Len(query.enrich)][r]
    BY <2>1, <2>2 DEF Inv, HeadingInv
  <2>4. rows \in Seq(Seq(Value)) /\ DOMAIN rows = 1..Len(rows)
    BY DEF Inv, RowsInv
  <2>5. ASSUME NEW i \in DOMAIN rows
        PROVE  /\ Len(rows[i]) = Len(heading)
               /\ \A j \in DOMAIN heading :
                    rows[i][j] = ColumnsAfter[Len(query.enrich)][rows[i][1].record][heading[j]]
    BY <2>1, <2>2, <2>4, <2>5 DEF Inv, RowsInv
  <2> QED
    BY <2>3, <2>5 DEF ColumnsAreSequential
<1> QED
  BY <1>1, <1>2, StepInv, PTL DEF Spec
-----------------------------------------------------------------------------
(* Third part: the score of a path element.                                *)

(* What is defined by its first value and a step from value to value       *)
(* exists.                                                                 *)
IsStep(next, N, V) == next \in [(1..N) \X V -> V]

Follows(f, next, first, N, V) ==
  f \in [0..N -> V] /\ f[0] = first /\ \A i \in 1..N : f[i] = next[<<i, f[i - 1]>>]

LEMMA RecursionExists ==
  ASSUME NEW N \in Nat, NEW V, NEW first \in V, NEW next, IsStep(next, N, V)
  PROVE  \E f : Follows(f, next, first, N, V)
<1> DEFINE Has(f, n) == /\ f \in [0..n -> V] /\ f[0] = first
                        /\ \A i \in 1..n : i <= N => f[i] = next[<<i, f[i - 1]>>]
           S == {n \in Nat : \E f : Has(f, n)}
<1>0. next \in [(1..N) \X V -> V]
  BY DEF IsStep
<1>1. 0 \in S
  <2>1. Has([i \in 0..0 |-> first], 0)
    OBVIOUS
  <2> QED
    BY <2>1
<1>2. ASSUME NEW n \in Nat, n \in S PROVE n + 1 \in S
  <2>1. PICK f : Has(f, n)
    BY <1>2
  <2> DEFINE v == IF n + 1 <= N THEN next[<<n + 1, f[n]>>] ELSE first
             g == [i \in 0..(n + 1) |-> IF i = n + 1 THEN v ELSE f[i]]
  <2>2. v \in V
    <3>1. n \in 0..n /\ f[n] \in V
      BY <2>1
    <3>2. CASE n + 1 <= N
      BY <1>0, <3>1, <3>2
    <3> QED
      BY <3>2
  <2>3. g \in [0..(n + 1) -> V] /\ g[0] = first
    BY <2>1, <2>2
  <2>4. ASSUME NEW i \in 1..(n + 1), i <= N PROVE g[i] = next[<<i, g[i - 1]>>]
    <3>1. CASE i = n + 1
      <4>1. g[i] = v /\ g[i - 1] = f[n] /\ n + 1 <= N
        BY <2>4, <3>1
      <4>2. v = next[<<n + 1, f[n]>>]
        BY <4>1
      <4> HIDE DEF g, v
      <4> QED
        BY <3>1, <4>1, <4>2
    <3>2. CASE i # n + 1
      <4>1. i \in 1..n /\ g[i] = f[i] /\ g[i - 1] = f[i - 1]
        BY <3>2
      <4> QED
        BY <2>1, <2>4, <4>1
    <3> QED
      BY <3>1, <3>2
  <2>5. Has(g, n + 1)
    BY <2>3, <2>4
  <2>6. n + 1 \in Nat
    OBVIOUS
  <2> HIDE DEF Has, g
  <2> QED
    BY <2>5, <2>6
<1>3. N \in S
  <2> HIDE DEF S
  <2> QED
    BY <1>1, <1>2, SetInduction
<1>4. PICK f : Has(f, N)
  BY <1>3
<1>5. Follows(f, next, first, N, V)
  BY <1>4 DEF Follows
<1> QED
  BY <1>5

(* The sums of the first numbers of a list.                                *)
LEMMA SumsExist ==
  ASSUME NEW N \in Nat, NEW cost \in [1..N -> Int]
  PROVE  \E f : f \in [0..N -> Int] /\ f[0] = 0 /\ \A i \in 1..N : f[i] = f[i - 1] + cost[i]
<1> DEFINE next == [p \in (1..N) \X Int |-> p[2] + cost[p[1]]]
<1>1. IsStep(next, N, Int) /\ 0 \in Int
  BY DEF IsStep
<1>2. PICK f : Follows(f, next, 0, N, Int)
  BY <1>1, RecursionExists
<1>3. ASSUME NEW i \in 1..N PROVE f[i] = f[i - 1] + cost[i]
  <2>1. <<i, f[i - 1]>> \in (1..N) \X Int
    BY <1>2 DEF Follows
  <2> QED
    BY <1>2, <2>1 DEF Follows
<1> QED
  BY <1>2, <1>3 DEF Follows

(* Path elements are finite sequences of characters.                       *)
PathElements == Beginnings \subseteq Seq(Uri!Char) /\ MaxTail \in Nat /\ Limit \in Int

LEMMA ElementFact ==
  ASSUME PathElements, NEW e \in Uri!Elements
  PROVE  e \in Seq(Uri!Char)
<1>1. PICK prefix \in Beginnings, tail \in Uri!BoundedSeq(Uri!Char, MaxTail) : e = prefix \o tail
  BY DEF Uri!Elements
<1>2. tail \in Seq(Uri!Char)
  BY DEF Uri!BoundedSeq, Uri!SeqOf, PathElements
<1> QED
  BY <1>1, <1>2 DEF PathElements

LEMMA DrawnFact ==
  ASSUME NEW from, NEW to
  PROVE  Uri!Drawn(from, to) \in Int
BY DEF Uri!Drawn

(* The points along the path, place by place.                              *)
LEMMA PointsFact ==
  ASSUME Len(element) \in Nat
  PROVE  /\ Uri!DrawnPoints[0] = 0
         /\ \A i \in 1..(Len(element) + 1) :
              /\ Uri!DrawnPoints[i - 1] \in Int
              /\ Uri!DrawnPoints[i]
                   = Uri!DrawnPoints[i - 1] + Uri!Drawn(Uri!ClassAt(i - 1), Uri!ClassAt(i))
<1> DEFINE N == Len(element) + 1
           cost(i) == Uri!Drawn(Uri!ClassAt(i - 1), Uri!ClassAt(i))
           Is(f) == f = [i \in 0..N |-> IF i = 0 THEN 0 ELSE f[i - 1] + cost(i)]
<1>1. N \in Nat /\ \A i \in 1..N : cost(i) \in Int
  BY DrawnFact
<1> HIDE DEF cost, N
<1>2. [i \in 1..N |-> cost(i)] \in [1..N -> Int]
  BY <1>1
<1>3. PICK f : /\ f \in [0..N -> Int] /\ f[0] = 0
               /\ \A i \in 1..N : f[i] = f[i - 1] + [k \in 1..N |-> cost(k)][i]
  BY <1>1, <1>2, SumsExist
<1>4. \A i \in 1..N : f[i] = f[i - 1] + cost(i)
  BY <1>3
<1> USE DEF N
<1>5. Is(f)
  <2>1. \A i \in 0..N : f[i] = IF i = 0 THEN 0 ELSE f[i - 1] + cost(i)
    BY <1>3, <1>4
  <2>2. f = [i \in 0..N |-> f[i]]
    BY <1>3
  <2> QED
    BY <2>1, <2>2
<1>6. Uri!DrawnPoints = CHOOSE g : Is(g)
  BY DEF Uri!DrawnPoints, cost
<1>7. Is(Uri!DrawnPoints)
  <2> HIDE DEF Is
  <2> QED
    BY <1>5, <1>6
<1> DEFINE points == Uri!DrawnPoints
<1>8. points = [i \in 0..N |-> IF i = 0 THEN 0 ELSE points[i - 1] + cost(i)]
  BY <1>7
<1> HIDE DEF points
<1>9. points[0] = 0 /\ \A i \in 1..N : points[i] = points[i - 1] + cost(i)
  BY <1>8
<1>10. \A i \in 0..N : points[i] \in Int
  <2> DEFINE S == {n \in Nat : n <= N => points[n] \in Int}
  <2>1. 0 \in S
    BY <1>9
  <2>2. ASSUME NEW n \in Nat, n \in S PROVE n + 1 \in S
    <3>1. CASE n + 1 <= N
      <4>1. points[n + 1] = points[n] + cost(n + 1) /\ points[n] \in Int /\ cost(n + 1) \in Int
        BY <1>1, <1>9, <2>2, <3>1
      <4> QED
        BY <4>1
    <3> QED
      BY <3>1
  <2>3. \A n \in Nat : n \in S
    <3> HIDE DEF S
    <3> QED
      BY <2>1, <2>2, SetInduction
  <2> QED
    BY <2>3
<1>11. \A i \in 1..N : points[i - 1] \in Int
  BY <1>10
<1> QED
  BY <1>9, <1>11 DEF points, cost

(* The points so far are those drawn up to the last character.             *)
StateFits == state = Uri!ClassAt(pos)

DigitsFit ==
  digitsAndOtherCounter # 0
    <=> \E i \in 1..pos : Uri!Class(element[i]) \in {"digit", "other"}

PointsFit ==
  result = "reading" /\ (element = <<>> \/ Head(element) # "delimiter") =>
    counter = Uri!DrawnPoints[pos]

ScoreInv ==
  /\ element \in Seq(Uri!Char)
  /\ pos \in 0..Len(element)
  /\ counter \in Int /\ digitsAndOtherCounter \in Nat
  /\ result \in {"reading", "id", "plain"}
  /\ StateFits /\ DigitsFit /\ PointsFit
  /\ ScoredAsDrawn

LEMMA PointsStay ==
  element' = element =>
    Uri!DrawnPoints' = Uri!DrawnPoints /\ Uri!Heuristics' = Uri!Heuristics
BY DEF Uri!DrawnPoints, Uri!ClassAt, Uri!Drawn, Uri!Class, Uri!Heuristics, Uri!Bytes

(* One character more.                                                     *)
LEMMA TakeStep ==
  ASSUME ScoreInv, NEW class \in {"lower", "upper", "digit", "delimiter", "other"},
         Uri!Take(class),
         NEW cost \in Int, counter' = counter + cost,
         pos # 0 \/ class # "delimiter" => cost = Uri!Drawn(state, class),
         digitsAndOtherCounter'
           = digitsAndOtherCounter + (IF class \in {"digit", "other"} THEN 1 ELSE 0)
  PROVE  ScoreInv'
<1>1. /\ result = "reading" /\ pos \in Nat /\ pos < Len(element) /\ pos' = pos + 1
      /\ state' = class /\ element' = element /\ result' = result
      /\ Len(element) \in Nat /\ pos' \in 1..Len(element)
      /\ element[pos + 1] \in (IF class = "other" THEN {"other", "wide"} ELSE {class})
  BY DEF Uri!Take, ScoreInv
<1>2. Uri!Class(element[pos + 1]) = class
  BY <1>1 DEF Uri!Class
<1>3. Uri!ClassAt(pos + 1) = class
  BY <1>1, <1>2 DEF Uri!ClassAt
<1>4. StateFits'
  BY <1>1, <1>3 DEF StateFits, Uri!ClassAt, Uri!Class
<1>5. ASSUME element = <<>> \/ Head(element) # "delimiter"
      PROVE  counter' = Uri!DrawnPoints[pos + 1]
  <2>1. pos # 0 \/ class # "delimiter"
    BY <1>1, <1>5 DEF ScoreInv
  <2>2. cost = Uri!Drawn(Uri!ClassAt(pos), Uri!ClassAt(pos + 1))
    BY <1>3, <2>1 DEF ScoreInv, StateFits
  <2>3. pos + 1 \in 1..(Len(element) + 1) /\ (pos + 1) - 1 = pos
    BY <1>1
  <2>4. Uri!DrawnPoints[pos + 1]
          = Uri!DrawnPoints[pos] + Uri!Drawn(Uri!ClassAt(pos), Uri!ClassAt(pos + 1))
    BY <1>1, <2>3, PointsFact
  <2> QED
    BY <1>1, <1>5, <2>2, <2>4 DEF ScoreInv, PointsFit
<1>6. digitsAndOtherCounter' # 0
        <=> \E i \in 1..pos' : Uri!Class(element[i]) \in {"digit", "other"}
  <2>1. digitsAndOtherCounter' # 0 <=> digitsAndOtherCounter # 0 \/ class \in {"digit", "other"}
    BY DEF ScoreInv
  <2>2. \A i \in 1..pos' : i \in 1..pos \/ i = pos + 1
    BY <1>1
  <2>3. \A i \in 1..pos : i \in 1..pos'
    BY <1>1
  <2>4. pos + 1 \in 1..pos'
    BY <1>1
  <2> DEFINE counts(i) == Uri!Class(element[i]) \in {"digit", "other"}
  <2>5. counts(pos + 1) <=> class \in {"digit", "other"}
    BY <1>2
  <2>6. digitsAndOtherCounter # 0 <=> \E i \in 1..pos : counts(i)
    BY DEF ScoreInv, DigitsFit
  <2> HIDE DEF counts
  <2>7. (\E i \in 1..pos' : counts(i)) <=> (\E i \in 1..pos : counts(i)) \/ counts(pos + 1)
    BY <2>2, <2>3, <2>4
  <2> QED
    BY <2>1, <2>5, <2>6, <2>7 DEF counts
<1>7. DigitsFit'
  BY <1>1, <1>6 DEF DigitsFit, Uri!Class
<1>8. Uri!DrawnPoints' = Uri!DrawnPoints
  BY <1>1, PointsStay
<1>9. ScoredAsDrawn'
  BY <1>1 DEF ScoredAsDrawn, Uri!ScoredAsDrawn
<1>10. counter' \in Int /\ digitsAndOtherCounter' \in Nat
  BY DEF ScoreInv
<1>11. element' \in Seq(Uri!Char) /\ result' \in {"reading", "id", "plain"}
  BY <1>1 DEF ScoreInv, Uri!Char
<1>12. pos' \in 0..Len(element')
  BY <1>1
<1>13. PointsFit'
  BY <1>1, <1>5, <1>8 DEF PointsFit
<1> QED
  BY <1>4, <1>7, <1>9, <1>10, <1>11, <1>12, <1>13 DEF ScoreInv

(* The end of the element.                                                 *)
LEMMA FinishScore ==
  ASSUME ScoreInv, Uri!Finish, Limit \in Int
  PROVE  ScoreInv'
<1>1. /\ result = "reading" /\ pos = Len(element) /\ Len(element) \in Nat
      /\ element' = element /\ pos' = pos /\ state' = state
      /\ digitsAndOtherCounter' = digitsAndOtherCounter
      /\ result' = IF counter' >= Limit THEN "id" ELSE "plain"
  BY DEF Uri!Finish, ScoreInv
<1> DEFINE few == IF digitsAndOtherCounter = 0 THEN 5 ELSE 0
           bonus == Uri!LengthBonus(Uri!Bytes(element))
<1>2. counter' = counter + Uri!EndCost - few + bonus
  BY DEF Uri!Finish
<1>3. Uri!EndCost \in Int /\ bonus \in Int
  BY DEF Uri!EndCost, Uri!LengthBonus
<1>4. bonus = IF Uri!Bytes(element) >= 16 /\ Uri!Bytes(element) % 4 = 0 THEN 1 ELSE 0
  BY DEF Uri!LengthBonus
<1> HIDE DEF bonus
<1>5. Uri!Heuristics = bonus - few
  <2>1. DOMAIN element = 1..pos
    BY <1>1 DEF ScoreInv
  <2>2. digitsAndOtherCounter # 0
          <=> \E i \in DOMAIN element : Uri!Class(element[i]) \in {"digit", "other"}
    BY <2>1 DEF ScoreInv, DigitsFit
  <2> DEFINE has == \E i \in DOMAIN element : Uri!Class(element[i]) \in {"digit", "other"}
  <2>3. Uri!Heuristics = bonus - (IF has THEN 0 ELSE 5)
    BY <1>4 DEF Uri!Heuristics
  <2>4. digitsAndOtherCounter # 0 <=> has
    BY <2>2
  <2> HIDE DEF has
  <2> QED
    BY <2>3, <2>4
<1>6. counter' \in Int
  BY <1>2, <1>3 DEF ScoreInv
<1>7. Uri!Drawn(state, "end") = Uri!EndCost
  <2>1. state \in {"start", "lower", "upper", "digit", "delimiter", "other"}
    BY <1>1 DEF ScoreInv, StateFits, Uri!ClassAt, Uri!Class, Uri!Char
  <2> QED
    BY <2>1 DEF Uri!Drawn, Uri!EndCost
<1>8. ASSUME element = <<>> \/ Head(element) # "delimiter"
      PROVE  counter' = Uri!DrawnPoints[Len(element) + 1] + Uri!Heuristics
  <2>1. counter = Uri!DrawnPoints[pos]
    BY <1>1, <1>8 DEF ScoreInv, PointsFit
  <2>2. Uri!ClassAt(pos) = state /\ Uri!ClassAt(pos + 1) = "end"
    BY <1>1 DEF ScoreInv, StateFits, Uri!ClassAt
  <2>3. Uri!DrawnPoints[pos + 1] = Uri!DrawnPoints[pos] + Uri!Drawn(state, "end")
    <3>1. pos + 1 \in 1..(Len(element) + 1) /\ (pos + 1) - 1 = pos
      BY <1>1
    <3> QED
      BY <1>1, <2>2, <3>1, PointsFact
  <2>4. few \in Int /\ counter \in Int
    BY DEF ScoreInv
  <2> HIDE DEF few
  <2> QED
    BY <1>1, <1>2, <1>3, <1>5, <1>7, <2>1, <2>3, <2>4
<1>9. Uri!DrawnPoints' = Uri!DrawnPoints /\ Uri!Heuristics' = Uri!Heuristics
  BY <1>1, PointsStay
<1>10. ScoredAsDrawn'
  BY <1>1, <1>8, <1>9 DEF ScoredAsDrawn, Uri!ScoredAsDrawn
<1>11. StateFits' /\ DigitsFit'
  BY <1>1 DEF ScoreInv, StateFits, DigitsFit, Uri!ClassAt, Uri!Class
<1>12. PointsFit'
  BY <1>1 DEF PointsFit
<1> QED
  BY <1>1, <1>6, <1>10, <1>11, <1>12 DEF ScoreInv, Uri!Char

LEMMA CharacterScore ==
  ASSUME ScoreInv, Uri!Lower \/ Uri!Upper \/ Uri!Digit \/ Uri!Delimiter \/ Uri!Other
  PROVE  ScoreInv'
<1>1. /\ state \in {"start", "lower", "upper", "digit", "delimiter", "other"}
      /\ counter \in Int /\ digitsAndOtherCounter \in Nat /\ (pos = 0 <=> state = "start")
  BY DEF ScoreInv, StateFits, Uri!ClassAt, Uri!Class, Uri!Char
<1>2. CASE Uri!Lower
  <2> DEFINE cost == CASE state = "upper" -> 1 [] state \in {"digit", "other"} -> 2 [] OTHER -> 0
  <2>1. cost \in Int /\ cost = Uri!Drawn(state, "lower")
    BY <1>1 DEF Uri!Drawn
  <2>2. /\ Uri!Take("lower") /\ counter' = counter + cost
        /\ digitsAndOtherCounter' = digitsAndOtherCounter + 0
    BY <1>1, <1>2 DEF Uri!Lower
  <2> HIDE DEF cost
  <2> QED
    BY <2>1, <2>2, TakeStep
<1>3. CASE Uri!Upper
  <2> DEFINE cost == CASE state = "lower" -> 1 [] state \in {"digit", "other"} -> 2 [] OTHER -> 0
  <2>1. cost \in Int /\ cost = Uri!Drawn(state, "upper")
    BY <1>1 DEF Uri!Drawn
  <2>2. /\ Uri!Take("upper") /\ counter' = counter + cost
        /\ digitsAndOtherCounter' = digitsAndOtherCounter + 0
    BY <1>1, <1>3 DEF Uri!Upper
  <2> HIDE DEF cost
  <2> QED
    BY <2>1, <2>2, TakeStep
<1>4. CASE Uri!Digit
  <2>1. Uri!DigitCost \in Int /\ Uri!DigitCost = Uri!Drawn(state, "digit")
    BY <1>1 DEF Uri!Drawn, Uri!DigitCost
  <2>2. /\ Uri!Take("digit") /\ counter' = counter + Uri!DigitCost
        /\ digitsAndOtherCounter' = digitsAndOtherCounter + 1
    BY <1>4 DEF Uri!Digit
  <2> QED
    BY <2>1, <2>2, TakeStep
<1>5. CASE Uri!Delimiter
  <2> DEFINE cost == CASE state \in {"lower", "upper"} -> 0
                       [] state = "digit" -> 1
                       [] state \in {"start", "other"} -> 3
                       [] state = "delimiter" -> 2
  <2>1. cost \in Int /\ (pos # 0 => cost = Uri!Drawn(state, "delimiter"))
    BY <1>1 DEF Uri!Drawn
  <2>2. /\ Uri!Take("delimiter") /\ counter' = counter + cost
        /\ digitsAndOtherCounter' = digitsAndOtherCounter + 0
    BY <1>1, <1>5 DEF Uri!Delimiter
  <2> HIDE DEF cost
  <2> QED
    BY <2>1, <2>2, TakeStep
<1>6. CASE Uri!Other
  <2>1. 3 \in Int /\ 3 = Uri!Drawn(state, "other")
    BY <1>1 DEF Uri!Drawn
  <2>2. /\ Uri!Take("other") /\ counter' = counter + 3
        /\ digitsAndOtherCounter' = digitsAndOtherCounter + 1
    BY <1>6 DEF Uri!Other
  <2> QED
    BY <2>1, <2>2, TakeStep
<1> QED
  BY <1>2, <1>3, <1>4, <1>5, <1>6

(* For path elements of any length and any limit: an element that does not *)
(* begin with a delimiter gets exactly the points of the drawn machine and *)
(* the heuristics (utils.IsIdFSM).                                         *)
THEOREM ScoresAsDrawn == PathElements => (Uri!Spec => []ScoredAsDrawn)
<1> SUFFICES ASSUME PathElements PROVE Uri!Spec => []ScoredAsDrawn
  OBVIOUS
<1>1. Uri!Init => ScoreInv
  <2> SUFFICES ASSUME Uri!Init PROVE ScoreInv
    OBVIOUS
  <2>1. element \in Seq(Uri!Char) /\ Len(element) \in Nat
    BY ElementFact DEF Uri!Init
  <2>2. StateFits /\ DigitsFit
    BY DEF Uri!Init, StateFits, DigitsFit, Uri!ClassAt
  <2>3. PointsFit /\ ScoredAsDrawn
    BY <2>1, PointsFact DEF Uri!Init, PointsFit, ScoredAsDrawn, Uri!ScoredAsDrawn
  <2> QED
    BY <2>1, <2>2, <2>3 DEF Uri!Init, ScoreInv
<1>2. ScoreInv /\ [Uri!Next]_Uri!vars => ScoreInv'
  <2> SUFFICES ASSUME ScoreInv, [Uri!Next]_Uri!vars PROVE ScoreInv'
    OBVIOUS
  <2>1. CASE UNCHANGED Uri!vars
    <3>1. /\ element' = element /\ pos' = pos /\ state' = state /\ counter' = counter
          /\ digitsAndOtherCounter' = digitsAndOtherCounter /\ result' = result
      BY <2>1 DEF Uri!vars
    <3>2. Uri!DrawnPoints' = Uri!DrawnPoints /\ Uri!Heuristics' = Uri!Heuristics
      BY <3>1, PointsStay
    <3>3. StateFits' /\ DigitsFit'
      BY <3>1 DEF ScoreInv, StateFits, DigitsFit, Uri!ClassAt, Uri!Class
    <3>4. PointsFit' /\ ScoredAsDrawn'
      BY <3>1, <3>2 DEF ScoreInv, PointsFit, ScoredAsDrawn, Uri!ScoredAsDrawn
    <3> QED
      BY <3>1, <3>3, <3>4 DEF ScoreInv, Uri!Char
  <2>2. CASE Uri!Next
    BY <2>2, FinishScore, CharacterScore DEF Uri!Next, PathElements
  <2> QED
    BY <2>1, <2>2
<1>3. ScoreInv => ScoredAsDrawn
  BY DEF ScoreInv
<1> QED
  BY <1>1, <1>2, <1>3, PTL DEF Uri!Spec

-----------------------------------------------------------------------------
(* Fourth part: the tables of the datasource services.                     *)

Distinct(list) == \A i, j \in 1..Len(list) : list[i] = list[j] => i = j
NamesIn(list) == {list[j] : j \in 1..Len(list)}

(* Records with some of the names, and the items of a response.            *)
Record(Name, Text) == UNION {[D -> Text] : D \in SUBSET Name}
Labels(Name, Text) == UNION {[D -> Text] : D \in {S \in SUBSET Name : IsFiniteSet(S)}}

Items(kind, Name, Text) ==
  CASE kind = "loki" -> [labels : Labels(Name, Text), lines : Seq(Text)]
    [] kind = "events" -> [labels : Labels(Name, Text)]
    [] OTHER -> [name : {name \in Seq(Text) : Len(name) = Len(FacetNames)}, counts : Seq(Text)]

(* Responses are sequences of any items of their service.  No field is     *)
(* configured twice, no attribute of the facet is, and none is the result. *)
AllResponses(Name, Text) ==
  /\ message \in Name /\ RESULT \in Name /\ Tables!Empty \in Text
  /\ LokiFields \in Seq(Name) /\ Distinct(LokiFields)
  /\ FacetNames \in Seq(Name) /\ Distinct(FacetNames) /\ RESULT \notin NamesIn(FacetNames)
  /\ DOMAIN Responses \subseteq {"loki", "events", "facets"}
  /\ \A kind \in DOMAIN Responses : Responses[kind] \subseteq Seq(Items(kind, Name, Text))

(* A list that is gone through once keeps what is not x, in its order.     *)
LEMMA KeptExists ==
  ASSUME NEW V, NEW list \in Seq(V), NEW x
  PROVE  \E f \in [0..Len(list) -> Seq(V)] :
           /\ f[0] = <<>>
           /\ \A i \in 1..Len(list) :
                f[i] = IF list[i] = x THEN f[i - 1] ELSE Append(f[i - 1], list[i])
           /\ Tables!Without(list, x) = f[Len(list)]
<1> DEFINE N == Len(list)
           More(i, v) == IF list[i] = x THEN v ELSE Append(v, list[i])
           next == [p \in (1..N) \X Seq(V) |-> More(p[1], p[2])]
           Is(f) == f = [k \in 0..N |-> IF k = 0 THEN <<>> ELSE More(k, f[k - 1])]
<1>1. N \in Nat /\ \A i \in 1..N : list[i] \in V
  OBVIOUS
<1>2. ASSUME NEW i \in 1..N, NEW v \in Seq(V) PROVE More(i, v) \in Seq(V)
  BY <1>1
<1>3. IsStep(next, N, Seq(V)) /\ <<>> \in Seq(V)
  <2> HIDE DEF More, N
  <2> QED
    BY <1>2 DEF IsStep
<1>4. PICK f : Follows(f, next, <<>>, N, Seq(V))
  <2> HIDE DEF next, N
  <2> QED
    BY <1>1, <1>3, RecursionExists
<1>5. Is(f)
  <2> HIDE DEF More, N
  <2>1. f \in [0..N -> Seq(V)] /\ f[0] = <<>>
    BY <1>4 DEF Follows
  <2>2. ASSUME NEW i \in 1..N PROVE f[i] = More(i, f[i - 1])
    <3>1. <<i, f[i - 1]>> \in (1..N) \X Seq(V)
      BY <1>1, <2>1
    <3> QED
      BY <1>4, <3>1 DEF Follows
  <2>3. \A k \in 0..N : f[k] = IF k = 0 THEN <<>> ELSE More(k, f[k - 1])
    BY <1>1, <2>1, <2>2
  <2>4. f = [k \in 0..N |-> f[k]]
    BY <2>1
  <2> QED
    BY <2>3, <2>4
<1> DEFINE kept == CHOOSE g : Is(g)
<1>6. Is(kept)
  <2> HIDE DEF Is
  <2> QED
    BY <1>5
<1>7. Tables!Without(list, x) = kept[N]
  BY DEF Tables!Without
<1> HIDE DEF kept
<1>8. kept = [k \in 0..N |-> IF k = 0 THEN <<>> ELSE More(k, kept[k - 1])]
  BY <1>6
<1> HIDE DEF N, More
<1>9. kept[0] = <<>> /\ \A i \in 1..N : kept[i] = More(i, kept[i - 1])
  BY <1>1, <1>8
<1> DEFINE S == {n \in Nat : n <= N => kept[n] \in Seq(V)}
<1>10. 0 \in S
  BY <1>3, <1>9
<1>11. ASSUME NEW n \in Nat, n \in S PROVE n + 1 \in S
  <2>1. CASE n + 1 <= N
    <3>1. n + 1 \in 1..N /\ (n + 1) - 1 = n /\ kept[n] \in Seq(V)
      BY <1>1, <1>11, <2>1
    <3>2. kept[n + 1] = More(n + 1, kept[n])
      BY <1>9, <3>1
    <3> QED
      BY <1>2, <3>1, <3>2
  <2> QED
    BY <2>1
<1>12. \A n \in Nat : n \in S
  <2> HIDE DEF S
  <2> QED
    BY <1>10, <1>11, SetInduction
<1>13. kept \in [0..N -> Seq(V)]
  <2>1. \A n \in 0..N : kept[n] \in Seq(V)
    BY <1>1, <1>12
  <2> QED
    BY <1>8, <2>1
<1> QED
  BY <1>7, <1>9, <1>13 DEF N, More

LEMMA WithoutFact ==
  ASSUME NEW V, NEW list \in Seq(V), NEW x
  PROVE  /\ Tables!Without(list, x) \in Seq(V)
         /\ NamesIn(Tables!Without(list, x)) = NamesIn(list) \ {x}
         /\ Distinct(list) => Distinct(Tables!Without(list, x))
<1> DEFINE N == Len(list)
<1>1. N \in Nat /\ \A i \in 1..N : list[i] \in V
  OBVIOUS
<1>2. PICK kept \in [0..N -> Seq(V)] :
        /\ kept[0] = <<>>
        /\ \A i \in 1..N : kept[i] = IF list[i] = x THEN kept[i - 1]
                                     ELSE Append(kept[i - 1], list[i])
        /\ Tables!Without(list, x) = kept[N]
  BY KeptExists
<1> DEFINE Right(v, n) == /\ v \in Seq(V)
                          /\ NamesIn(v) = {list[j] : j \in 1..n} \ {x}
                          /\ Distinct(list) => Distinct(v)
           S == {n \in Nat : n <= N => Right(kept[n], n)}
<1>9. 0 \in S
  <2>1. kept[0] = <<>> /\ Len(<<>>) = 0 /\ <<>> \in Seq(V)
    BY <1>2
  <2>2. Right(<<>>, 0)
    BY <2>1 DEF NamesIn, Distinct
  <2> HIDE DEF Right
  <2> QED
    BY <2>1, <2>2
<1>10. ASSUME NEW n \in Nat, n \in S PROVE n + 1 \in S
  <2> SUFFICES ASSUME n + 1 <= N PROVE Right(kept[n + 1], n + 1)
    OBVIOUS
  <2>1. Right(kept[n], n)
    BY <1>1, <1>10
  <2>2. n + 1 \in 1..N /\ (n + 1) - 1 = n /\ list[n + 1] \in V
    BY <1>1
  <2>3. {list[j] : j \in 1..(n + 1)} = {list[j] : j \in 1..n} \cup {list[n + 1]}
    <3>1. \A j \in 1..(n + 1) : j \in 1..n \/ j = n + 1
      OBVIOUS
    <3>2. n + 1 \in 1..(n + 1) /\ \A j \in 1..n : j \in 1..(n + 1)
      OBVIOUS
    <3>3. ASSUME NEW y \in {list[j] : j \in 1..(n + 1)}
          PROVE  y \in {list[j] : j \in 1..n} \cup {list[n + 1]}
      BY <3>1
    <3>4. ASSUME NEW y \in {list[j] : j \in 1..n} \cup {list[n + 1]}
          PROVE  y \in {list[j] : j \in 1..(n + 1)}
      BY <3>2
    <3> QED
      BY <3>3, <3>4
  <2> DEFINE v == kept[n]
  <2> HIDE DEF v
  <2>4. CASE list[n + 1] = x
    <3>1. kept[n + 1] = v
      BY <1>2, <2>2, <2>4 DEF v
    <3> QED
      BY <2>1, <2>3, <2>4, <3>1 DEF v
  <2>5. CASE list[n + 1] # x
    <3> DEFINE w == Append(v, list[n + 1])
    <3>1. kept[n + 1] = w
      BY <1>2, <2>2, <2>5 DEF v
    <3>2. v \in Seq(V) /\ Len(v) \in Nat
      BY <2>1 DEF v
    <3>3. /\ w \in Seq(V) /\ Len(w) = Len(v) + 1 /\ w[Len(v) + 1] = list[n + 1]
          /\ \A j \in 1..Len(v) : w[j] = v[j]
      BY <2>2, <3>2
    <3> HIDE DEF w
    <3>4. NamesIn(w) = NamesIn(v) \cup {list[n + 1]}
      <4>1. \A j \in 1..Len(w) : j \in 1..Len(v) \/ j = Len(v) + 1
        BY <3>2, <3>3
      <4>2. \A j \in 1..Len(v) : j \in 1..Len(w)
        BY <3>2, <3>3
      <4>3. Len(v) + 1 \in 1..Len(w)
        BY <3>2, <3>3
      <4>4. ASSUME NEW y \in NamesIn(w) PROVE y \in NamesIn(v) \cup {list[n + 1]}
        BY <3>3, <4>1 DEF NamesIn
      <4>5. ASSUME NEW y \in NamesIn(v) PROVE y \in NamesIn(w)
        BY <3>3, <4>2 DEF NamesIn
      <4>6. list[n + 1] \in NamesIn(w)
        BY <3>3, <4>3 DEF NamesIn
      <4> QED
        BY <4>4, <4>5, <4>6
    <3>5. NamesIn(v) = {list[j] : j \in 1..n} \ {x}
      BY <2>1 DEF v
    <3>6. NamesIn(w) = {list[j] : j \in 1..(n + 1)} \ {x}
      BY <2>3, <2>5, <3>4, <3>5
    <3>7. ASSUME Distinct(list) PROVE Distinct(w)
      <4>1. list[n + 1] \notin NamesIn(v)
        <5>1. \A j \in 1..n : list[j] # list[n + 1]
          <6>1. \A j \in 1..n : j \in 1..N /\ j # n + 1
            BY <1>1, <2>2
          <6> QED
            BY <2>2, <3>7, <6>1 DEF Distinct
        <5> QED
          BY <3>5, <5>1
      <4>2. Distinct(v)
        BY <2>1, <3>7 DEF v
      <4>3. \A j \in 1..Len(w) : j \in 1..Len(v) \/ j = Len(v) + 1
        BY <3>2, <3>3
      <4>4. \A j \in 1..Len(v) : w[j] # list[n + 1]
        BY <3>3, <4>1 DEF NamesIn
      <4> QED
        BY <3>3, <4>2, <4>3, <4>4 DEF Distinct
    <3> QED
      BY <3>1, <3>3, <3>6, <3>7
  <2> QED
    BY <2>4, <2>5
<1>11. Right(kept[N], N)
  <2>1. \A n \in Nat : n \in S
    <3> HIDE DEF S
    <3> QED
      BY <1>9, <1>10, SetInduction
  <2> HIDE DEF Right
  <2> QED
    BY <1>1, <2>1
<1> QED
  BY <1>2, <1>11 DEF NamesIn

(* Lists one behind the other.                                             *)
LEMMA ConcatFact ==
  ASSUME NEW V, NEW a \in Seq(V), NEW b \in Seq(V)
  PROVE  /\ a \o b \in Seq(V) /\ Len(a \o b) = Len(a) + Len(b)
         /\ Len(a) \in Nat /\ Len(b) \in Nat
         /\ \A i \in 1..Len(a) : i \in 1..Len(a \o b) /\ (a \o b)[i] = a[i]
         /\ \A i \in 1..Len(b) : Len(a) + i \in 1..Len(a \o b) /\ (a \o b)[Len(a) + i] = b[i]
         /\ \A i \in 1..Len(a \o b) : i \in 1..Len(a) \/ \E k \in 1..Len(b) : i = Len(a) + k
<1>1. a \o b \in Seq(V) /\ Len(a \o b) = Len(a) + Len(b) /\ Len(a) \in Nat /\ Len(b) \in Nat
  OBVIOUS
<1>2. ASSUME NEW i \in 1..Len(a) PROVE i \in 1..Len(a \o b) /\ (a \o b)[i] = a[i]
  BY <1>1
<1>3. ASSUME NEW i \in 1..Len(b)
      PROVE  Len(a) + i \in 1..Len(a \o b) /\ (a \o b)[Len(a) + i] = b[i]
  BY <1>1
<1>4. ASSUME NEW i \in 1..Len(a \o b), i \notin 1..Len(a)
      PROVE  \E k \in 1..Len(b) : i = Len(a) + k
  <2>1. i - Len(a) \in 1..Len(b) /\ i = Len(a) + (i - Len(a))
    BY <1>1, <1>4
  <2> QED
    BY <2>1
<1> QED
  BY <1>1, <1>2, <1>3, <1>4

LEMMA ConcatDistinct ==
  ASSUME NEW V, NEW a \in Seq(V), NEW b \in Seq(V), Distinct(a), Distinct(b),
         NamesIn(a) \cap NamesIn(b) = {}
  PROVE  Distinct(a \o b) /\ NamesIn(a \o b) = NamesIn(a) \cup NamesIn(b)
<1> DEFINE c == a \o b
<1>1. /\ Len(a) \in Nat /\ Len(b) \in Nat
      /\ \A i \in 1..Len(a) : i \in 1..Len(c) /\ c[i] = a[i]
      /\ \A i \in 1..Len(b) : Len(a) + i \in 1..Len(c) /\ c[Len(a) + i] = b[i]
      /\ \A i \in 1..Len(c) : i \in 1..Len(a) \/ \E k \in 1..Len(b) : i = Len(a) + k
  BY ConcatFact
<1> HIDE DEF c
<1>2. ASSUME NEW i \in 1..Len(c), NEW j \in 1..Len(c), c[i] = c[j] PROVE i = j
  <2>1. CASE i \in 1..Len(a) /\ j \in 1..Len(a)
    BY <1>1, <1>2, <2>1 DEF Distinct
  <2>2. ASSUME NEW p \in 1..Len(a), NEW q \in 1..Len(b) PROVE c[p] # c[Len(a) + q]
    <3>1. c[p] \in NamesIn(a) /\ c[Len(a) + q] \in NamesIn(b)
      BY <1>1 DEF NamesIn
    <3> QED
      BY <3>1
  <2>3. CASE i \notin 1..Len(a) /\ j \notin 1..Len(a)
    <3>1. PICK p \in 1..Len(b) : i = Len(a) + p
      BY <1>1, <2>3
    <3>2. PICK q \in 1..Len(b) : j = Len(a) + q
      BY <1>1, <2>3
    <3>3. b[p] = b[q]
      BY <1>1, <1>2, <3>1, <3>2
    <3> QED
      BY <3>1, <3>2, <3>3 DEF Distinct
  <2>4. CASE i \in 1..Len(a) /\ j \notin 1..Len(a)
    <3>1. PICK q \in 1..Len(b) : j = Len(a) + q
      BY <1>1, <2>4
    <3> QED
      BY <1>2, <2>2, <2>4, <3>1
  <2>5. CASE i \notin 1..Len(a) /\ j \in 1..Len(a)
    <3>1. PICK q \in 1..Len(b) : i = Len(a) + q
      BY <1>1, <2>5
    <3> QED
      BY <1>2, <2>2, <2>5, <3>1
  <2> QED
    BY <2>1, <2>3, <2>4, <2>5
<1>3. ASSUME NEW y \in NamesIn(c) PROVE y \in NamesIn(a) \cup NamesIn(b)
  <2>1. PICK i \in 1..Len(c) : y = c[i]
    BY DEF NamesIn
  <2> QED
    BY <1>1, <2>1 DEF NamesIn
<1>4. NamesIn(a) \subseteq NamesIn(c) /\ NamesIn(b) \subseteq NamesIn(c)
  BY <1>1 DEF NamesIn
<1> QED
  BY <1>2, <1>3, <1>4 DEF c, Distinct

(* A list has as many names as places if none is there twice.              *)
LEMMA SizeFact ==
  ASSUME NEW V, NEW list \in Seq(V), Distinct(list)
  PROVE  Cardinality(NamesIn(list)) = Len(list)
<1>1. Len(list) \in Nat /\ DOMAIN list = 1..Len(list)
  OBVIOUS
<1>2. list \in Bijection(1..Len(list), NamesIn(list))
  BY <1>1 DEF Bijection, Injection, Surjection, IsInjective, NamesIn, Distinct
<1>3. ExistsBijection(1..Len(list), NamesIn(list))
  BY <1>2 DEF ExistsBijection
<1>4. IsFiniteSet(1..Len(list)) /\ Cardinality(1..Len(list)) = Len(list)
  BY <1>1, FS_Interval
<1> QED
  BY <1>3, <1>4, FS_Bijection

LEMMA SameCardinality == \A S : Tables!Cardinality(S) = Cardinality(S)
BY DEF Tables!Cardinality, Cardinality

(* The elements of a finite set in any order.                              *)
LEMMA OrderFact ==
  ASSUME NEW S, IsFiniteSet(S), NEW new \in Tables!SetToSeqs(S)
  PROVE  new \in Seq(S) /\ Distinct(new) /\ NamesIn(new) = S
<1> DEFINE n == Cardinality(S)
<1>1. n \in Nat
  BY FS_CardinalityType
<1>2. new \in [1..n -> S] /\ \A i, j \in 1..n : i # j => new[i] # new[j]
  BY SameCardinality DEF Tables!SetToSeqs
<1> HIDE DEF n
<1>3. new \in Seq(S) /\ Len(new) = n
  BY <1>1, <1>2
<1>4. Distinct(new)
  BY <1>2, <1>3 DEF Distinct
<1>5. new \in Injection(1..n, S)
  BY <1>2 DEF Injection, IsInjective
<1>6. Cardinality(1..n) = n
  BY <1>1, FS_Interval
<1>7. new \in Surjection(1..n, S)
  BY <1>5, <1>6, FS_Injection DEF n
<1>8. NamesIn(new) = S
  BY <1>2, <1>3, <1>7 DEF NamesIn, Surjection
<1> QED
  BY <1>3, <1>4, <1>8

(* The columns of a heading.                                               *)
LEMMA ColumnsFact ==
  ASSUME NEW V, NEW list \in Seq(V), Distinct(list)
  PROVE  /\ DOMAIN Tables!ColumnsOf(list) = NamesIn(list)
         /\ \A c \in 1..Len(list) : Tables!ColumnsOf(list)[list[c]] = c
<1>1. DOMAIN list = 1..Len(list)
  OBVIOUS
<1>2. Tables!Range(list) = NamesIn(list)
  BY <1>1 DEF Tables!Range, NamesIn
<1>3. ASSUME NEW c \in 1..Len(list)
      PROVE  (CHOOSE d \in DOMAIN list : list[d] = list[c]) = c
  BY <1>1 DEF Distinct
<1>4. \A c \in 1..Len(list) : list[c] \in Tables!Range(list)
  BY <1>1 DEF Tables!Range
<1> QED
  BY <1>2, <1>3, <1>4 DEF Tables!ColumnsOf

(* The row of a record: under each name of the heading its value.          *)
RowIs(row, rec, Text) ==
  /\ row \in Seq(Text) /\ Len(row) = Len(heading)
  /\ DOMAIN rec \subseteq NamesIn(heading)
  /\ \A c \in 1..Len(heading) :
       row[c] = IF heading[c] \in DOMAIN rec THEN rec[heading[c]] ELSE Tables!Empty

RowsAre(rs, recs, Name, Text) ==
  /\ rs \in Seq(Seq(Text)) /\ recs \in Seq(Record(Name, Text)) /\ Len(rs) = Len(recs)
  /\ \A k \in 1..Len(rs) : RowIs(rs[k], recs[k], Text)

LEMMA ConcatRows ==
  ASSUME NEW Name, NEW Text, NEW rs, NEW recs, NEW more, NEW moreRecs,
         RowsAre(rs, recs, Name, Text), RowsAre(more, moreRecs, Name, Text)
  PROVE  RowsAre(rs \o more, recs \o moreRecs, Name, Text)
<1>1. /\ rs \in Seq(Seq(Text)) /\ recs \in Seq(Record(Name, Text)) /\ Len(rs) = Len(recs)
      /\ more \in Seq(Seq(Text)) /\ moreRecs \in Seq(Record(Name, Text))
      /\ Len(more) = Len(moreRecs)
  BY DEF RowsAre
<1> DEFINE rows2 == rs \o more
           recs2 == recs \o moreRecs
           n == Len(rs)
<1>2. /\ rows2 \in Seq(Seq(Text)) /\ Len(rows2) = n + Len(more) /\ n \in Nat /\ Len(more) \in Nat
      /\ \A i \in 1..n : i \in 1..Len(rows2) /\ rows2[i] = rs[i]
      /\ \A i \in 1..Len(more) : n + i \in 1..Len(rows2) /\ rows2[n + i] = more[i]
      /\ \A i \in 1..Len(rows2) : i \in 1..n \/ \E k \in 1..Len(more) : i = n + k
  <2>1. rs \in Seq(Seq(Text)) /\ more \in Seq(Seq(Text))
    BY <1>1
  <2> HIDE DEF rows2, recs2, n
  <2> QED
    BY <2>1, ConcatFact DEF rows2, n
<1>3. /\ recs2 \in Seq(Record(Name, Text)) /\ Len(recs2) = n + Len(more)
      /\ \A i \in 1..n : recs2[i] = recs[i]
      /\ \A i \in 1..Len(more) : recs2[n + i] = moreRecs[i]
  <2> HIDE DEF recs2
  <2>1. /\ recs2 \in Seq(Record(Name, Text)) /\ Len(recs2) = Len(recs) + Len(moreRecs)
        /\ \A i \in 1..Len(recs) : recs2[i] = recs[i]
        /\ \A i \in 1..Len(moreRecs) : recs2[Len(recs) + i] = moreRecs[i]
    BY <1>1, ConcatFact DEF recs2
  <2> QED
    BY <1>1, <2>1
<1> HIDE DEF rows2, recs2
<1>4. ASSUME NEW i \in 1..Len(rows2) PROVE RowIs(rows2[i], recs2[i], Text)
  <2> HIDE DEF n
  <2>1. CASE i \in 1..n
    <3>1. RowIs(rs[i], recs[i], Text)
      BY <2>1 DEF RowsAre, n
    <3>2. rows2[i] = rs[i] /\ recs2[i] = recs[i]
      BY <1>2, <1>3, <2>1
    <3> QED
      BY <3>1, <3>2
  <2>2. CASE i \notin 1..n
    <3>1. PICK k \in 1..Len(more) : i = n + k
      BY <1>2, <2>2
    <3>2. RowIs(more[k], moreRecs[k], Text)
      BY DEF RowsAre
    <3>3. rows2[i] = more[k] /\ recs2[i] = moreRecs[k]
      BY <1>2, <1>3, <3>1
    <3> QED
      BY <3>2, <3>3
  <2> QED
    BY <2>1, <2>2
<1> QED
  BY <1>2, <1>3, <1>4 DEF RowsAre, rows2, recs2

(* A value is found in the row of a record under its name only.            *)
LEMMA FoundFact ==
  ASSUME NEW Name, NEW Text, heading \in Seq(Name), Distinct(heading),
         NEW row, NEW rec, RowIs(row, rec, Text),
         NEW n \in Tables!Range(heading) \cup DOMAIN rec
  PROVE  Tables!Found(row, n) = IF n \in DOMAIN rec THEN rec[n] ELSE Tables!Empty
<1>1. DOMAIN heading = 1..Len(heading)
  OBVIOUS
<1>2. PICK c \in 1..Len(heading) : n = heading[c]
  BY <1>1 DEF Tables!Range, RowIs, NamesIn
<1>3. {d \in DOMAIN heading : heading[d] = n} = {c}
  BY <1>1, <1>2 DEF Distinct
<1>4. Tables!Min({c}) = c
  BY <1>2 DEF Tables!Min
<1>5. Tables!Found(row, n) = row[c]
  BY <1>3, <1>4 DEF Tables!Found
<1> QED
  BY <1>2, <1>5 DEF RowIs

(* The values of an item that has a column for each of them.               *)
LEMMA TemplateFact ==
  ASSUME NEW Name, NEW Text, heading \in Seq(Name), Distinct(heading),
         columns = Tables!ColumnsOf(heading), Tables!Empty \in Text,
         NEW labels \in Record(Name, Text), DOMAIN labels \subseteq NamesIn(heading)
  PROVE  RowIs(Tables!Template(labels), labels, Text)
<1>1. Len(heading) \in Nat /\ \A n \in DOMAIN labels : labels[n] \in Text
  BY DEF Record
<1>2. \A c \in 1..Len(heading) : columns[heading[c]] = c
  BY ColumnsFact
<1> DEFINE n(c) == CHOOSE m \in DOMAIN labels : columns[m] = c
           value(c) == IF \E m \in DOMAIN labels : columns[m] = c THEN labels[n(c)]
                       ELSE Tables!Empty
<1>3. ASSUME NEW c \in 1..Len(heading)
      PROVE  value(c) = IF heading[c] \in DOMAIN labels THEN labels[heading[c]] ELSE Tables!Empty
  <2>1. ASSUME NEW m \in DOMAIN labels, columns[m] = c PROVE m = heading[c]
    <3>1. PICK d \in 1..Len(heading) : m = heading[d]
      BY DEF NamesIn
    <3> QED
      BY <1>2, <2>1, <3>1
  <2>2. CASE heading[c] \in DOMAIN labels
    <3>1. heading[c] \in DOMAIN labels /\ columns[heading[c]] = c
      BY <1>2, <2>2
    <3>2. n(c) \in DOMAIN labels /\ columns[n(c)] = c
      BY <3>1
    <3>3. n(c) = heading[c]
      BY <2>1, <3>2
    <3> HIDE DEF n
    <3> QED
      BY <2>2, <3>1, <3>3
  <2>3. CASE heading[c] \notin DOMAIN labels
    <3>1. ~\E m \in DOMAIN labels : columns[m] = c
      BY <2>1, <2>3
    <3> QED
      BY <2>3, <3>1
  <2> QED
    BY <2>2, <2>3
<1> HIDE DEF value
<1>4. \A c \in 1..Len(heading) : value(c) \in Text
  BY <1>1, <1>3
<1>5. Tables!Template(labels) = [c \in 1..Len(heading) |-> value(c)]
  BY DEF Tables!Template, value
<1>6. Tables!Template(labels) \in Seq(Text) /\ Len(Tables!Template(labels)) = Len(heading)
  BY <1>1, <1>4, <1>5
<1> QED
  BY <1>3, <1>5, <1>6 DEF RowIs

(* A line of a stream has the row of its own that is meant.                *)
LEMMA LineRow ==
  ASSUME NEW Name, NEW Text, NEW row, NEW labels, RowIs(row, labels, Text),
         NEW text \in Text, Len(heading) \in Nat \ {0}, heading[1] = message,
         \A c \in 1..Len(heading) : heading[c] = message => c = 1
  PROVE  RowIs([row EXCEPT ![1] = text],
               [n \in DOMAIN labels \cup {message} |-> IF n = message THEN text ELSE labels[n]],
               Text)
<1> DEFINE new == [row EXCEPT ![1] = text]
           rec == [n \in DOMAIN labels \cup {message} |-> IF n = message THEN text ELSE labels[n]]
<1>1. /\ row \in Seq(Text) /\ Len(row) = Len(heading) /\ DOMAIN labels \subseteq NamesIn(heading)
      /\ \A c \in 1..Len(heading) :
           row[c] = IF heading[c] \in DOMAIN labels THEN labels[heading[c]] ELSE Tables!Empty
  BY DEF RowIs
<1>2. new \in Seq(Text) /\ Len(new) = Len(heading)
  BY <1>1
<1>3. new[1] = text /\ \A c \in 1..Len(heading) : c # 1 => new[c] = row[c]
  BY <1>1
<1>4. DOMAIN rec = DOMAIN labels \cup {message} /\ rec[message] = text
  OBVIOUS
<1>5. \A n \in DOMAIN labels : n # message => rec[n] = labels[n]
  OBVIOUS
<1> HIDE DEF new, rec
<1>6. message \in NamesIn(heading)
  BY DEF NamesIn
<1>7. ASSUME NEW c \in 1..Len(heading)
      PROVE  new[c] = IF heading[c] \in DOMAIN rec THEN rec[heading[c]] ELSE Tables!Empty
  <2>1. CASE c = 1
    BY <1>3, <1>4, <2>1
  <2>2. CASE c # 1
    <3>1. heading[c] # message /\ new[c] = row[c]
      BY <1>3, <2>2
    <3>2. heading[c] \in DOMAIN rec <=> heading[c] \in DOMAIN labels
      BY <1>4, <3>1
    <3>3. heading[c] \in DOMAIN labels => rec[heading[c]] = labels[heading[c]]
      BY <1>5, <3>1
    <3> QED
      BY <1>1, <3>1, <3>2, <3>3
  <2> QED
    BY <2>1, <2>2
<1>8. RowIs(new, rec, Text)
  BY <1>1, <1>2, <1>4, <1>6, <1>7 DEF RowIs
<1> QED
  BY <1>8 DEF new, rec

(* The labels of a record and a line make a record.                        *)
LEMMA LineRecord ==
  ASSUME NEW Name, NEW Text, message \in Name, NEW labels \in Record(Name, Text), NEW text \in Text
  PROVE  [n \in DOMAIN labels \cup {message} |-> IF n = message THEN text ELSE labels[n]]
           \in Record(Name, Text)
<1> DEFINE D == DOMAIN labels \cup {message}
           rec == [n \in D |-> IF n = message THEN text ELSE labels[n]]
<1>1. DOMAIN labels \in SUBSET Name /\ labels \in [DOMAIN labels -> Text]
  BY DEF Record
<1>2. D \in SUBSET Name /\ rec \in [D -> Text]
  BY <1>1
<1> HIDE DEF rec, D
<1>3. rec \in Record(Name, Text)
  BY <1>2 DEF Record
<1> QED
  BY <1>3 DEF rec, D

(* The row of a facet is its name and its count, in the order of the       *)
(* attributes.                                                             *)
FacetRecord(name, count) ==
  [n \in Tables!Range(FacetNames) \cup {RESULT} |->
    IF n = RESULT THEN count
    ELSE name[CHOOSE c \in DOMAIN FacetNames : FacetNames[c] = n]]

LEMMA FacetRecordFact ==
  ASSUME NEW Name, NEW Text, AllResponses(Name, Text),
         NEW name \in Seq(Text), Len(name) = Len(FacetNames), NEW count \in Text
  PROVE  /\ FacetRecord(name, count) \in Record(Name, Text)
         /\ FacetRecord(name, count)[RESULT] = count
         /\ \A c \in 1..Len(FacetNames) : FacetRecord(name, count)[FacetNames[c]] = name[c]
<1> DEFINE N == Len(FacetNames)
           rec == FacetRecord(name, count)
<1>1. /\ FacetNames \in Seq(Name) /\ Distinct(FacetNames) /\ RESULT \in Name
      /\ RESULT \notin NamesIn(FacetNames) /\ N \in Nat /\ DOMAIN FacetNames = 1..N
  BY DEF AllResponses
<1>2. Tables!Range(FacetNames) = NamesIn(FacetNames)
  BY <1>1 DEF Tables!Range, NamesIn
<1>3. DOMAIN rec = NamesIn(FacetNames) \cup {RESULT} /\ rec[RESULT] = count
  BY <1>2 DEF FacetRecord
<1>4. ASSUME NEW c \in 1..N PROVE rec[FacetNames[c]] = name[c]
  <2>1. FacetNames[c] \in NamesIn(FacetNames) /\ FacetNames[c] # RESULT
    BY <1>1 DEF NamesIn
  <2>2. (CHOOSE d \in DOMAIN FacetNames : FacetNames[d] = FacetNames[c]) = c
    BY <1>1 DEF Distinct
  <2> QED
    BY <1>2, <2>1, <2>2 DEF FacetRecord
<1>5. rec = [n \in NamesIn(FacetNames) \cup {RESULT} |-> rec[n]]
  BY <1>2 DEF FacetRecord
<1> HIDE DEF rec
<1>6. \A n \in NamesIn(FacetNames) \cup {RESULT} : n \in Name /\ rec[n] \in Text
  <2>1. ASSUME NEW n \in NamesIn(FacetNames) PROVE n \in Name /\ rec[n] \in Text
    <3>1. PICK c \in 1..N : n = FacetNames[c]
      BY DEF NamesIn
    <3> QED
      BY <1>1, <1>4, <3>1
  <2> QED
    BY <1>1, <1>3, <2>1
<1>7. rec \in Record(Name, Text)
  <2> DEFINE D == NamesIn(FacetNames) \cup {RESULT}
  <2>1. D \in SUBSET Name /\ rec \in [D -> Text]
    BY <1>5, <1>6
  <2> HIDE DEF D
  <2> QED
    BY <2>1 DEF Record
<1> QED
  BY <1>3, <1>4, <1>7 DEF rec

LEMMA FacetRow ==
  ASSUME NEW Name, NEW Text, AllResponses(Name, Text), heading = FacetNames \o <<RESULT>>,
         NEW name \in Seq(Text), Len(name) = Len(FacetNames), NEW count \in Text
  PROVE  RowIs(name \o <<count>>, FacetRecord(name, count), Text)
<1> DEFINE N == Len(FacetNames)
           rec == FacetRecord(name, count)
           row == name \o <<count>>
<1>1. FacetNames \in Seq(Name) /\ N \in Nat
  BY DEF AllResponses
<1>2. /\ DOMAIN rec = NamesIn(FacetNames) \cup {RESULT} /\ rec[RESULT] = count
      /\ \A c \in 1..N : rec[FacetNames[c]] = name[c]
  <2> HIDE DEF row
  <2>1. DOMAIN rec = NamesIn(FacetNames) \cup {RESULT}
    <3>1. DOMAIN FacetNames = 1..Len(FacetNames)
      BY <1>1
    <3>2. Tables!Range(FacetNames) = NamesIn(FacetNames)
      BY <3>1 DEF Tables!Range, NamesIn
    <3> QED
      BY <3>2 DEF FacetRecord
  <2>2. rec[RESULT] = count
    BY FacetRecordFact
  <2>3. \A c \in 1..N : rec[FacetNames[c]] = name[c]
    BY FacetRecordFact
  <2> QED
    BY <2>1, <2>2, <2>3
<1> HIDE DEF rec
<1>3. name \in Seq(Text) /\ Len(name) = N
  BY <1>1
<1>4. /\ row \in Seq(Text) /\ Len(row) = N + 1 /\ row[N + 1] = count
      /\ \A c \in 1..N : row[c] = name[c]
  <2>1. <<count>> \in Seq(Text) /\ Len(<<count>>) = 1 /\ <<count>>[1] = count /\ 1 \in 1..1
    OBVIOUS
  <2> HIDE DEF row, N
  <2>2. /\ row \in Seq(Text) /\ Len(row) = Len(name) + 1
        /\ \A c \in 1..Len(name) : row[c] = name[c]
        /\ row[Len(name) + 1] = count
    BY <1>3, <2>1, ConcatFact DEF row
  <2> QED
    BY <1>3, <2>2
<1>5. /\ Len(heading) = N + 1 /\ heading[N + 1] = RESULT
      /\ \A c \in 1..N : heading[c] = FacetNames[c]
  BY <1>1
<1> HIDE DEF row
<1>6. NamesIn(FacetNames) \cup {RESULT} \subseteq NamesIn(heading)
  <2>1. \A c \in 1..N : c \in 1..Len(heading)
    BY <1>1, <1>5
  <2>2. N + 1 \in 1..Len(heading)
    BY <1>1, <1>5
  <2> QED
    BY <1>5, <2>1, <2>2 DEF NamesIn
<1>7. ASSUME NEW c \in 1..Len(heading)
      PROVE  heading[c] \in DOMAIN rec /\ row[c] = rec[heading[c]]
  <2>1. CASE c = N + 1
    BY <1>2, <1>4, <1>5, <2>1
  <2>2. CASE c # N + 1
    <3>1. c \in 1..N
      BY <1>1, <1>5, <2>2
    <3>2. FacetNames[c] \in NamesIn(FacetNames)
      BY <3>1 DEF NamesIn
    <3> QED
      BY <1>2, <1>4, <1>5, <3>1, <3>2
  <2> QED
    BY <2>1, <2>2
<1>8. RowIs(row, rec, Text)
  BY <1>2, <1>4, <1>5, <1>6, <1>7 DEF RowIs
<1> QED
  BY <1>8 DEF rec, row

(* The rows of an item, and the records that are meant.                    *)
NewRows(i) ==
  CASE service = "loki" -> Tables!StreamRows(i)
    [] service = "events" -> Tables!EventRows(i)
    [] OTHER -> Tables!FacetRows(i)

HeadingFits(Name) ==
  /\ heading \in Seq(Name) /\ Distinct(heading) /\ columns = Tables!ColumnsOf(heading)
  /\ service = "loki" => Len(heading) # 0 /\ heading[1] = message
  /\ service = "facets" => heading = FacetNames \o <<RESULT>>

LEMMA ItemFact ==
  ASSUME NEW Name, NEW Text, service \in {"loki", "events", "facets"},
         NEW i \in Items(service, Name, Text)
  PROVE  /\ service # "facets" => /\ i.labels \in Record(Name, Text)
                                  /\ IsFiniteSet(DOMAIN i.labels) /\ DOMAIN i.labels \subseteq Name
         /\ service = "loki" => Tables!Lines(i) \in Seq(Text)
         /\ service = "facets" => /\ i.name \in Seq(Text) /\ Len(i.name) = Len(FacetNames)
                                  /\ i.counts \in Seq(Text)
<1>1. \A labels \in Labels(Name, Text) :
        labels \in Record(Name, Text) /\ IsFiniteSet(DOMAIN labels) /\ DOMAIN labels \subseteq Name
  BY DEF Labels, Record
<1>2. CASE service = "loki"
  <2>1. i.labels \in Labels(Name, Text) /\ i.lines \in Seq(Text)
    BY <1>2 DEF Items
  <2>2. Tables!Lines(i) \in Seq(Text)
    BY <2>1, WithoutFact DEF Tables!Lines
  <2> QED
    BY <1>1, <1>2, <2>1, <2>2
<1>3. CASE service = "events"
  BY <1>1, <1>3 DEF Items
<1>4. CASE service = "facets"
  BY <1>4 DEF Items
<1> QED
  BY <1>2, <1>3, <1>4

LEMMA MeantFact ==
  ASSUME NEW Name, NEW Text, AllResponses(Name, Text), service \in {"loki", "events", "facets"},
         NEW i \in Items(service, Name, Text)
  PROVE  Tables!Meant(i) \in Seq(Record(Name, Text))
<1>1. CASE service = "loki"
  <2> DEFINE lines == Tables!Lines(i)
             rec(k) == [n \in DOMAIN i.labels \cup {message} |->
                         IF n = message THEN lines[k] ELSE i.labels[n]]
  <2>1. i.labels \in Record(Name, Text) /\ lines \in Seq(Text) /\ message \in Name
    BY <1>1, ItemFact DEF AllResponses
  <2>2. Len(lines) \in Nat /\ \A k \in 1..Len(lines) : lines[k] \in Text
    BY <2>1
  <2>3. ASSUME NEW k \in 1..Len(lines) PROVE rec(k) \in Record(Name, Text)
    BY <2>1, <2>2, LineRecord
  <2>4. Tables!Meant(i) = [k \in 1..Len(lines) |-> rec(k)]
    BY <1>1 DEF Tables!Meant
  <2> HIDE DEF rec, lines
  <2> QED
    BY <2>2, <2>3, <2>4
<1>2. CASE service = "events"
  <2>1. i.labels \in Record(Name, Text) /\ Tables!Meant(i) = <<i.labels>>
    BY <1>2, ItemFact DEF Tables!Meant
  <2> QED
    BY <2>1
<1>3. CASE service = "facets"
  <2>1. i.name \in Seq(Text) /\ Len(i.name) = Len(FacetNames) /\ i.counts \in Seq(Text)
    BY <1>3, ItemFact
  <2>2. CASE i.counts = <<>>
    <3>1. Tables!Meant(i) = <<>>
      BY <1>3, <2>2 DEF Tables!Meant
    <3> QED
      BY <3>1
  <2>3. CASE i.counts # <<>>
    <3>1. i.counts[1] \in Text
      BY <2>1, <2>3
    <3>2. Tables!Meant(i) = <<FacetRecord(i.name, i.counts[1])>>
      BY <1>3, <2>3 DEF Tables!Meant, FacetRecord
    <3>3. FacetRecord(i.name, i.counts[1]) \in Record(Name, Text)
      BY <2>1, <3>1, FacetRecordFact
    <3> QED
      BY <3>2, <3>3
  <2> QED
    BY <2>2, <2>3
<1> QED
  BY <1>1, <1>2, <1>3

LEMMA ItemRows ==
  ASSUME NEW Name, NEW Text, AllResponses(Name, Text), service \in {"loki", "events", "facets"},
         HeadingFits(Name), NEW i \in Items(service, Name, Text),
         service # "facets" => DOMAIN i.labels \subseteq NamesIn(heading)
  PROVE  RowsAre(NewRows(i), Tables!Meant(i), Name, Text)
<1>1. Tables!Meant(i) \in Seq(Record(Name, Text))
  BY MeantFact
<1>2. CASE service # "facets"
  <2> DEFINE template == Tables!Template(i.labels)
  <2>1. i.labels \in Record(Name, Text) /\ DOMAIN i.labels \subseteq NamesIn(heading)
    BY <1>2, ItemFact
  <2>2. Tables!Empty \in Text
    BY DEF AllResponses
  <2>3. RowIs(template, i.labels, Text)
    BY <2>1, <2>2, TemplateFact DEF HeadingFits
  <2> HIDE DEF template
  <2>4. CASE service = "loki"
    <3> DEFINE lines == Tables!Lines(i)
               row(k) == [template EXCEPT ![1] = lines[k]]
               rec(k) == [n \in DOMAIN i.labels \cup {message} |->
                           IF n = message THEN lines[k] ELSE i.labels[n]]
    <3>1. lines \in Seq(Text) /\ Len(lines) \in Nat /\ \A k \in 1..Len(lines) : lines[k] \in Text
      BY <2>4, ItemFact
    <3>2. /\ Len(heading) \in Nat \ {0} /\ heading[1] = message
          /\ \A c \in 1..Len(heading) : heading[c] = message => c = 1
      BY <2>4 DEF HeadingFits, Distinct
    <3> HIDE DEF lines
    <3>3. ASSUME NEW k \in 1..Len(lines) PROVE RowIs(row(k), rec(k), Text)
      BY <2>3, <3>1, <3>2, LineRow
    <3>4. NewRows(i) = [k \in 1..Len(lines) |-> row(k)]
      BY <2>4 DEF NewRows, Tables!StreamRows, template, lines
    <3>5. Tables!Meant(i) = [k \in 1..Len(lines) |-> rec(k)]
      BY <2>4 DEF Tables!Meant, lines
    <3> HIDE DEF row, rec
    <3>6. \A k \in 1..Len(lines) : row(k) \in Seq(Text)
      BY <3>3 DEF RowIs
    <3>7. NewRows(i) \in Seq(Seq(Text)) /\ Len(NewRows(i)) = Len(lines)
      BY <3>1, <3>4, <3>6
    <3>8. Len(Tables!Meant(i)) = Len(lines)
      BY <3>1, <3>5
    <3>9. ASSUME NEW k \in 1..Len(lines) PROVE RowIs(NewRows(i)[k], Tables!Meant(i)[k], Text)
      BY <3>3, <3>4, <3>5
    <3> QED
      BY <1>1, <3>7, <3>8, <3>9 DEF RowsAre
  <2>5. CASE service = "events"
    <3>1. NewRows(i) = <<template>> /\ Tables!Meant(i) = <<i.labels>>
      BY <2>5 DEF NewRows, Tables!EventRows, Tables!Meant, template
    <3>2. template \in Seq(Text)
      BY <2>3 DEF RowIs
    <3> QED
      BY <1>1, <2>3, <3>1, <3>2 DEF RowsAre
  <2> QED
    BY <1>2, <2>4, <2>5
<1>3. CASE service = "facets"
  <2>1. i.name \in Seq(Text) /\ Len(i.name) = Len(FacetNames) /\ i.counts \in Seq(Text)
    BY <1>3, ItemFact
  <2>2. CASE i.counts = <<>>
    <3>1. NewRows(i) = <<>> /\ Tables!Meant(i) = <<>>
      BY <1>3, <2>2 DEF NewRows, Tables!FacetRows, Tables!Meant
    <3> QED
      BY <1>1, <3>1 DEF RowsAre
  <2>3. CASE i.counts # <<>>
    <3> DEFINE rec == FacetRecord(i.name, i.counts[1])
               row == i.name \o <<i.counts[1]>>
    <3>1. i.counts[1] \in Text
      BY <2>1, <2>3
    <3>2. NewRows(i) = <<row>> /\ Tables!Meant(i) = <<rec>>
      BY <1>3, <2>3 DEF NewRows, Tables!FacetRows, Tables!Meant, FacetRecord
    <3>3. RowIs(row, rec, Text)
      BY <1>3, <2>1, <3>1, FacetRow DEF HeadingFits
    <3> HIDE DEF row, rec
    <3>4. row \in Seq(Text)
      BY <3>3 DEF RowIs
    <3> QED
      BY <1>1, <3>2, <3>3, <3>4 DEF RowsAre
  <2> QED
    BY <2>2, <2>3
<1> QED
  BY <1>2, <1>3

(* The records of a response, item by item.                                *)
LEMMA RecordsFact ==
  ASSUME NEW Name, NEW Text, AllResponses(Name, Text), service \in {"loki", "events", "facets"},
         response \in Seq(Items(service, Name, Text))
  PROVE  /\ Tables!RecordsOf[0] = <<>>
         /\ \A i \in 1..Len(response) :
              Tables!RecordsOf[i] = Tables!RecordsOf[i - 1] \o Tables!Meant(response[i])
<1> DEFINE V == Seq(Record(Name, Text))
           N == Len(response)
           meant(i) == Tables!Meant(response[i])
           next == [p \in (1..N) \X V |-> p[2] \o meant(p[1])]
           Is(f) == f = [i \in 0..N |-> IF i = 0 THEN <<>> ELSE f[i - 1] \o meant(i)]
<1>1. N \in Nat /\ \A i \in 1..N : meant(i) \in V
  BY MeantFact
<1> HIDE DEF meant, N
<1>2. ASSUME NEW i \in 1..N, NEW v \in V PROVE v \o meant(i) \in V
  BY <1>1
<1>3. IsStep(next, N, V) /\ <<>> \in V
  <2>1. <<>> \in V
    OBVIOUS
  <2> HIDE DEF V
  <2> QED
    BY <1>2, <2>1 DEF IsStep
<1>4. PICK f : Follows(f, next, <<>>, N, V)
  <2> HIDE DEF next, V
  <2> QED
    BY <1>1, <1>3, RecursionExists
<1>5. Is(f)
  <2> HIDE DEF V
  <2>1. f \in [0..N -> V] /\ f[0] = <<>>
    BY <1>4 DEF Follows
  <2>2. ASSUME NEW i \in 1..N PROVE f[i] = f[i - 1] \o meant(i)
    <3>1. <<i, f[i - 1]>> \in (1..N) \X V
      BY <1>1, <2>1
    <3> QED
      BY <1>4, <3>1 DEF Follows
  <2>3. \A i \in 0..N : f[i] = IF i = 0 THEN <<>> ELSE f[i - 1] \o meant(i)
    BY <1>1, <2>1, <2>2
  <2>4. f = [i \in 0..N |-> f[i]]
    BY <2>1
  <2> QED
    BY <2>3, <2>4
<1>6. Tables!RecordsOf = CHOOSE g : Is(g)
  BY DEF Tables!RecordsOf, meant, N
<1>7. Is(Tables!RecordsOf)
  <2> HIDE DEF Is
  <2> QED
    BY <1>5, <1>6
<1> DEFINE records == Tables!RecordsOf
<1>8. records = [i \in 0..N |-> IF i = 0 THEN <<>> ELSE records[i - 1] \o meant(i)]
  BY <1>7
<1> HIDE DEF records
<1>9. records[0] = <<>> /\ \A i \in 1..N : records[i] = records[i - 1] \o meant(i)
  <2> DEFINE More(i, v) == v \o meant(i)
  <2>1. records = [i \in 0..N |-> IF i = 0 THEN <<>> ELSE More(i, records[i - 1])]
    BY <1>8
  <2> HIDE DEF More
  <2>2. records[0] = <<>> /\ \A i \in 1..N : records[i] = More(i, records[i - 1])
    BY <1>1, <2>1
  <2> QED
    BY <2>2 DEF More
<1> QED
  BY <1>9 DEF records, meant, N

(* What a heading begins with.                                             *)
LEMMA FirstFact ==
  ASSUME NEW Name, NEW Text, AllResponses(Name, Text), service \in {"loki", "events", "facets"}
  PROVE  /\ Tables!FirstNames \in Seq(Name) /\ Distinct(Tables!FirstNames)
         /\ service = "loki" =>
              /\ NamesIn(Tables!FirstNames) = NamesIn(LokiFields) \cup {message}
              /\ Len(Tables!FirstNames) # 0 /\ Tables!FirstNames[1] = message
         /\ service = "facets" => Tables!FirstNames = FacetNames \o <<RESULT>>
<1>1. ASSUME NEW n \in Name
      PROVE  <<n>> \in Seq(Name) /\ Distinct(<<n>>) /\ NamesIn(<<n>>) = {n}
  BY DEF Distinct, NamesIn
<1>2. CASE service = "loki"
  <2> DEFINE others == Tables!Without(LokiFields, message)
             one == <<message>>
  <2>1. /\ others \in Seq(Name) /\ NamesIn(others) = NamesIn(LokiFields) \ {message}
        /\ Distinct(others)
    BY WithoutFact DEF AllResponses
  <2>2. /\ one \in Seq(Name) /\ Distinct(one) /\ NamesIn(one) = {message}
        /\ Len(one) = 1 /\ one[1] = message
    BY <1>1 DEF AllResponses
  <2>3. Tables!FirstNames = one \o others
    BY <1>2 DEF Tables!FirstNames
  <2> HIDE DEF others, one
  <2>4. Distinct(one \o others) /\ NamesIn(one \o others) = NamesIn(one) \cup NamesIn(others)
    BY <2>1, <2>2, ConcatDistinct
  <2>5. one \o others \in Seq(Name) /\ Len(one \o others) # 0 /\ (one \o others)[1] = message
    <3> DEFINE both == one \o others
    <3>1. one \in Seq(Name) /\ others \in Seq(Name)
      BY <2>1, <2>2
    <3> HIDE DEF both
    <3>2. /\ both \in Seq(Name) /\ Len(both) = Len(one) + Len(others) /\ Len(others) \in Nat
          /\ \A j \in 1..Len(one) : both[j] = one[j]
      BY <3>1, ConcatFact DEF both
    <3> QED
      BY <2>2, <3>2 DEF both
  <2> QED
    BY <1>2, <2>1, <2>2, <2>3, <2>4, <2>5
<1>3. CASE service = "events"
  <2>1. Tables!FirstNames = <<>>
    BY <1>3 DEF Tables!FirstNames
  <2> QED
    BY <1>3, <2>1 DEF Distinct
<1>4. CASE service = "facets"
  <2> DEFINE one == <<RESULT>>
  <2>1. one \in Seq(Name) /\ Distinct(one) /\ NamesIn(one) = {RESULT}
    BY <1>1 DEF AllResponses
  <2>2. FacetNames \in Seq(Name) /\ Distinct(FacetNames) /\ RESULT \notin NamesIn(FacetNames)
    BY DEF AllResponses
  <2>3. Tables!FirstNames = FacetNames \o one
    BY <1>4 DEF Tables!FirstNames
  <2> HIDE DEF one
  <2>4. Distinct(FacetNames \o one) /\ FacetNames \o one \in Seq(Name)
    BY <2>1, <2>2, ConcatDistinct
  <2> QED
    BY <1>4, <2>3, <2>4 DEF one
<1> QED
  BY <1>2, <1>3, <1>4

(* The heading keeps what it began with and has the labels that the first  *)
(* pass has come to; the rows are those of the items that the second pass  *)
(* has come to.                                                            *)
AnswerInv(Name, Text) ==
  /\ service \in DOMAIN Responses /\ response \in Responses[service]
  /\ step \in {"heading", "rows", "done"}
  /\ item \in 1..(Len(response) + 1)
  /\ step = "heading" => service # "facets" /\ rows = <<>>
  /\ step = "done" => item = Len(response) + 1

HeadingBegins ==
  /\ Len(Tables!FirstNames) <= Len(heading)
  /\ \A j \in 1..Len(Tables!FirstNames) : heading[j] = Tables!FirstNames[j]

LabelsCovered ==
  service # "facets" =>
    \A i \in 1..Len(response) :
      step # "heading" \/ i < item => DOMAIN response[i].labels \subseteq NamesIn(heading)

RowsMade(Name, Text) ==
  step # "heading" => RowsAre(rows, Tables!RecordsOf[item - 1], Name, Text)

TableInv(Name, Text) ==
  /\ AnswerInv(Name, Text) /\ HeadingFits(Name) /\ HeadingBegins
  /\ LabelsCovered /\ RowsMade(Name, Text)

LEMMA ResponseFact ==
  ASSUME NEW Name, NEW Text, AllResponses(Name, Text), AnswerInv(Name, Text)
  PROVE  /\ service \in {"loki", "events", "facets"}
         /\ response \in Seq(Items(service, Name, Text)) /\ Len(response) \in Nat
         /\ \A i \in 1..Len(response) : response[i] \in Items(service, Name, Text)
<1>1. service \in {"loki", "events", "facets"} /\ response \in Seq(Items(service, Name, Text))
  BY DEF AllResponses, AnswerInv
<1> DEFINE I == Items(service, Name, Text)
<1> HIDE DEF I
<1>2. response \in Seq(I)
  BY <1>1 DEF I
<1>3. Len(response) \in Nat /\ \A i \in 1..Len(response) : response[i] \in I
  BY <1>2
<1> QED
  BY <1>1, <1>3 DEF I

LEMMA InitTable ==
  ASSUME NEW Name, NEW Text, AllResponses(Name, Text), Tables!Init
  PROVE  TableInv(Name, Text)
<1>1. /\ service \in DOMAIN Responses /\ response \in Responses[service]
      /\ step = (IF service = "facets" THEN "rows" ELSE "heading") /\ item = 1
      /\ heading = Tables!FirstNames /\ columns = Tables!ColumnsOf(heading) /\ rows = <<>>
  BY DEF Tables!Init
<1>2. service \in {"loki", "events", "facets"} /\ response \in Seq(Items(service, Name, Text))
  BY <1>1 DEF AllResponses
<1>3. Len(response) \in Nat
  <2> DEFINE I == Items(service, Name, Text)
  <2> HIDE DEF I
  <2>1. response \in Seq(I)
    BY <1>2 DEF I
  <2> QED
    BY <2>1
<1>4. AnswerInv(Name, Text)
  BY <1>1, <1>3 DEF AnswerInv
<1>5. HeadingFits(Name)
  BY <1>1, <1>2, FirstFact DEF HeadingFits
<1>6. HeadingBegins
  <2>1. Len(heading) \in Nat
    BY <1>5 DEF HeadingFits
  <2> QED
    BY <1>1, <2>1 DEF HeadingBegins
<1>7. LabelsCovered
  BY <1>1, <1>2, <1>3 DEF LabelsCovered
<1>8. RowsMade(Name, Text)
  <2>1. Tables!RecordsOf[0] = <<>>
    BY <1>2, RecordsFact
  <2>2. RowsAre(<<>>, <<>>, Name, Text)
    BY DEF RowsAre
  <2> QED
    BY <1>1, <2>1, <2>2 DEF RowsMade
<1> QED
  BY <1>4, <1>5, <1>6, <1>7, <1>8 DEF TableInv

LEMMA AddNamesTable ==
  ASSUME NEW Name, NEW Text, AllResponses(Name, Text), TableInv(Name, Text), Tables!AddNames
  PROVE  TableInv(Name, Text)'
<1>1. /\ step = "heading" /\ item <= Len(response) /\ item' = item + 1 /\ step' = step
      /\ service' = service /\ response' = response /\ rows' = rows
  BY DEF Tables!AddNames
<1>2. /\ service \in {"loki", "events"} /\ response \in Seq(Items(service, Name, Text))
      /\ Len(response) \in Nat /\ item \in 1..Len(response)
      /\ \A i \in 1..Len(response) : response[i] \in Items(service, Name, Text)
  BY <1>1, ResponseFact DEF TableInv, AnswerInv
<1> DEFINE labels == response[item].labels
<1>3. /\ IsFiniteSet(DOMAIN labels) /\ DOMAIN labels \subseteq Name
  BY <1>2, ItemFact
<1>4. /\ heading \in Seq(Name) /\ Distinct(heading) /\ DOMAIN columns = NamesIn(heading)
      /\ service = "loki" => Len(heading) # 0 /\ heading[1] = message
  BY ColumnsFact DEF TableInv, HeadingFits
<1>5. PICK new \in Tables!SetToSeqs(DOMAIN labels \ DOMAIN columns) :
        heading' = heading \o new /\ columns' = Tables!ColumnsOf(heading')
  BY DEF Tables!AddNames
<1> DEFINE S == DOMAIN labels \ DOMAIN columns
<1>6. IsFiniteSet(S) /\ S \subseteq Name /\ S \cap NamesIn(heading) = {}
  BY <1>3, <1>4, FS_Subset
<1>7. new \in Seq(S) /\ Distinct(new) /\ NamesIn(new) = S
  <2> HIDE DEF S
  <2>1. new \in Tables!SetToSeqs(S)
    BY <1>5 DEF S
  <2> QED
    BY <1>6, <2>1, OrderFact
<1>8. new \in Seq(Name)
  <2> HIDE DEF S
  <2> QED
    BY <1>6, <1>7
<1> HIDE DEF S
<1>9. Distinct(heading') /\ NamesIn(heading') = NamesIn(heading) \cup S
  BY <1>4, <1>5, <1>6, <1>7, <1>8, ConcatDistinct
<1>10. /\ heading' \in Seq(Name) /\ Len(heading') = Len(heading) + Len(new)
       /\ Len(heading) \in Nat /\ Len(new) \in Nat
       /\ \A j \in 1..Len(heading) : heading'[j] = heading[j]
  <2> DEFINE both == heading \o new
  <2> HIDE DEF both
  <2>1. /\ both \in Seq(Name) /\ Len(both) = Len(heading) + Len(new)
        /\ Len(heading) \in Nat /\ Len(new) \in Nat
        /\ \A j \in 1..Len(heading) : both[j] = heading[j]
    BY <1>4, <1>8, ConcatFact DEF both
  <2> QED
    BY <1>5, <2>1 DEF both
<1>11. HeadingFits(Name)'
  BY <1>1, <1>2, <1>4, <1>5, <1>9, <1>10 DEF HeadingFits
<1>12. Tables!FirstNames' = Tables!FirstNames
  BY <1>1 DEF Tables!FirstNames, Tables!Without
<1>13. HeadingBegins'
  <2>1. HeadingBegins
    BY DEF TableInv
  <2>2. Len(Tables!FirstNames) \in Nat
    BY <1>2, FirstFact
  <2>3. \A j \in 1..Len(Tables!FirstNames) : j \in 1..Len(heading)
    BY <1>10, <2>1, <2>2 DEF HeadingBegins
  <2>4. Len(Tables!FirstNames) <= Len(heading')
    BY <1>10, <2>1, <2>2 DEF HeadingBegins
  <2>5. \A j \in 1..Len(Tables!FirstNames) : heading'[j] = Tables!FirstNames[j]
    BY <1>10, <2>1, <2>3 DEF HeadingBegins
  <2> QED
    BY <1>12, <2>4, <2>5 DEF HeadingBegins
<1>14. LabelsCovered'
  <2>1. DOMAIN labels \subseteq NamesIn(heading')
    BY <1>4, <1>9 DEF S
  <2>2. ASSUME NEW i \in 1..Len(response), i < item + 1
        PROVE  DOMAIN response[i].labels \subseteq NamesIn(heading')
    <3>1. CASE i = item
      BY <2>1, <3>1
    <3>2. CASE i # item
      <4>1. i < item
        BY <1>2, <2>2, <3>2
      <4>2. DOMAIN response[i].labels \subseteq NamesIn(heading)
        BY <1>2, <4>1 DEF TableInv, LabelsCovered
      <4> QED
        BY <1>9, <4>2
    <3> QED
      BY <3>1, <3>2
  <2> QED
    BY <1>1, <2>2 DEF LabelsCovered
<1>15. AnswerInv(Name, Text)'
  BY <1>1, <1>2 DEF TableInv, AnswerInv
<1>16. RowsMade(Name, Text)'
  BY <1>1 DEF RowsMade
<1> QED
  BY <1>11, <1>13, <1>14, <1>15, <1>16 DEF TableInv

(* What stays when the heading and the columns do.                         *)
LEMMA HeadingStays ==
  ASSUME NEW Name, NEW Text, TableInv(Name, Text),
         UNCHANGED <<service, response, heading, columns>>
  PROVE  /\ HeadingFits(Name)' /\ HeadingBegins'
         /\ Tables!RecordsOf' = Tables!RecordsOf
<1>1. HeadingFits(Name) /\ HeadingBegins
  BY DEF TableInv
<1>2. Tables!FirstNames' = Tables!FirstNames
  BY DEF Tables!FirstNames, Tables!Without
<1>3. HeadingFits(Name)'
  BY <1>1 DEF HeadingFits
<1>4. HeadingBegins'
  BY <1>1, <1>2 DEF HeadingBegins
<1>5. Tables!RecordsOf' = Tables!RecordsOf
  BY DEF Tables!RecordsOf, Tables!Meant, Tables!Lines, Tables!Without
<1> QED
  BY <1>3, <1>4, <1>5

LEMMA HeadingDoneTable ==
  ASSUME NEW Name, NEW Text, AllResponses(Name, Text), TableInv(Name, Text), Tables!HeadingDone
  PROVE  TableInv(Name, Text)'
<1>1. /\ step = "heading" /\ item > Len(response) /\ step' = "rows" /\ item' = 1
      /\ UNCHANGED <<service, response, heading, columns, rows>>
  BY DEF Tables!HeadingDone
<1>2. /\ service \in {"loki", "events", "facets"} /\ response \in Seq(Items(service, Name, Text))
      /\ Len(response) \in Nat
  BY ResponseFact DEF TableInv
<1>3. HeadingFits(Name)' /\ HeadingBegins' /\ Tables!RecordsOf' = Tables!RecordsOf
  BY <1>1, HeadingStays
<1>4. AnswerInv(Name, Text)'
  BY <1>1, <1>2 DEF TableInv, AnswerInv
<1>5. LabelsCovered'
  <2>1. \A i \in 1..Len(response) : i < item
    BY <1>1, <1>2 DEF TableInv, AnswerInv
  <2> QED
    BY <1>1, <2>1 DEF TableInv, LabelsCovered, NamesIn
<1>6. RowsMade(Name, Text)'
  <2>1. rows' = <<>> /\ Tables!RecordsOf'[item' - 1] = <<>>
    <3>1. rows = <<>>
      BY <1>1 DEF TableInv, AnswerInv
    <3>2. Tables!RecordsOf[0] = <<>>
      BY <1>2, RecordsFact
    <3> QED
      BY <1>1, <1>3, <3>1, <3>2
  <2>2. RowsAre(<<>>, <<>>, Name, Text)'
    BY DEF RowsAre
  <2> QED
    BY <2>1, <2>2 DEF RowsMade
<1> QED
  BY <1>3, <1>4, <1>5, <1>6 DEF TableInv

LEMMA AddRowsTable ==
  ASSUME NEW Name, NEW Text, AllResponses(Name, Text), TableInv(Name, Text), Tables!AddRows
  PROVE  TableInv(Name, Text)'
<1> DEFINE i == response[item]
           records == Tables!RecordsOf
<1>1. /\ step = "rows" /\ item <= Len(response) /\ item' = item + 1 /\ step' = step
      /\ rows' = rows \o NewRows(i)
      /\ UNCHANGED <<service, response, heading, columns>>
  BY DEF Tables!AddRows, NewRows
<1>2. /\ service \in {"loki", "events", "facets"} /\ response \in Seq(Items(service, Name, Text))
      /\ Len(response) \in Nat /\ item \in 1..Len(response) /\ i \in Items(service, Name, Text)
  BY <1>1, ResponseFact DEF TableInv, AnswerInv
<1>3. HeadingFits(Name)' /\ HeadingBegins' /\ Tables!RecordsOf' = Tables!RecordsOf
  BY <1>1, HeadingStays
<1>4. AnswerInv(Name, Text)'
  BY <1>1, <1>2 DEF TableInv, AnswerInv
<1>5. LabelsCovered'
  BY <1>1 DEF TableInv, LabelsCovered, NamesIn
<1>6. RowsMade(Name, Text)'
  <2>1. RowsAre(rows, records[item - 1], Name, Text)
    BY <1>1 DEF TableInv, RowsMade
  <2>2. service # "facets" => DOMAIN i.labels \subseteq NamesIn(heading)
    BY <1>1, <1>2 DEF TableInv, LabelsCovered
  <2>3. RowsAre(NewRows(i), Tables!Meant(i), Name, Text)
    BY <1>2, <2>2, ItemRows DEF TableInv
  <2>4. RowsAre(rows \o NewRows(i), records[item - 1] \o Tables!Meant(i), Name, Text)
    BY <2>1, <2>3, ConcatRows
  <2>5. records[item] = records[item - 1] \o Tables!Meant(i)
    BY <1>2, RecordsFact
  <2>6. RowsAre(rows \o NewRows(i), records[item' - 1], Name, Text)
    <3>1. item' - 1 = item
      BY <1>1, <1>2
    <3> HIDE DEF records, i
    <3> QED
      BY <2>4, <2>5, <3>1
  <2> HIDE DEF records, i
  <2>7. RowsAre(rows', records[item' - 1], Name, Text)
    BY <1>1, <2>6
  <2> QED
    BY <1>1, <1>3, <2>7 DEF RowsMade, RowsAre, RowIs, NamesIn, records
<1> QED
  BY <1>3, <1>4, <1>5, <1>6 DEF TableInv

LEMMA TableDoneTable ==
  ASSUME NEW Name, NEW Text, AllResponses(Name, Text), TableInv(Name, Text), Tables!TableDone
  PROVE  TableInv(Name, Text)'
<1>1. /\ step = "rows" /\ item > Len(response) /\ step' = "done"
      /\ UNCHANGED <<service, response, item, heading, columns, rows>>
  BY DEF Tables!TableDone
<1>2. Len(response) \in Nat
  BY ResponseFact DEF TableInv
<1>3. HeadingFits(Name)' /\ HeadingBegins' /\ Tables!RecordsOf' = Tables!RecordsOf
  BY <1>1, HeadingStays
<1>4. AnswerInv(Name, Text)'
  BY <1>1, <1>2 DEF TableInv, AnswerInv
<1>5. LabelsCovered'
  BY <1>1 DEF TableInv, LabelsCovered, NamesIn
<1>6. RowsMade(Name, Text)'
  <2>1. RowsAre(rows, Tables!RecordsOf[item - 1], Name, Text)
    BY <1>1 DEF TableInv, RowsMade
  <2> QED
    BY <1>1, <1>3, <2>1 DEF RowsMade, RowsAre, RowIs, NamesIn
<1> QED
  BY <1>3, <1>4, <1>5, <1>6 DEF TableInv

LEMMA TableStutters ==
  ASSUME NEW Name, NEW Text, TableInv(Name, Text), UNCHANGED Tables!vars
  PROVE  TableInv(Name, Text)'
<1>1. UNCHANGED <<service, response, step, item, heading, columns, rows>>
  BY DEF Tables!vars
<1>2. HeadingFits(Name)' /\ HeadingBegins' /\ Tables!RecordsOf' = Tables!RecordsOf
  BY <1>1, HeadingStays
<1>3. AnswerInv(Name, Text)' /\ LabelsCovered'
  BY <1>1 DEF TableInv, AnswerInv, LabelsCovered, NamesIn
<1>4. RowsMade(Name, Text)'
  <2>1. RowsMade(Name, Text)
    BY DEF TableInv
  <2> QED
    BY <1>1, <1>2, <2>1 DEF RowsMade, RowsAre, RowIs, NamesIn
<1> QED
  BY <1>2, <1>3, <1>4 DEF TableInv

LEMMA FinishedTable ==
  ASSUME NEW Name, NEW Text, AllResponses(Name, Text), TableInv(Name, Text)
  PROVE  TableIsResponse
<1> SUFFICES ASSUME step = "done" PROVE Tables!TableIsResponse
  BY DEF TableIsResponse, Tables!TableIsResponse
<1>1. /\ service \in {"loki", "events", "facets"} /\ Len(response) \in Nat
      /\ item = Len(response) + 1 /\ heading \in Seq(Name) /\ Distinct(heading)
  BY ResponseFact DEF TableInv, AnswerInv, HeadingFits
<1> DEFINE recs == Tables!AnswerRecords
<1>2. RowsAre(rows, recs, Name, Text)
  <2>1. item - 1 = Len(response)
    BY <1>1
  <2> QED
    BY <2>1 DEF TableInv, RowsMade, Tables!AnswerRecords
<1> HIDE DEF recs
<1>3. /\ Len(rows) = Len(recs) /\ DOMAIN rows = 1..Len(rows)
      /\ \A k \in 1..Len(rows) : RowIs(rows[k], recs[k], Text)
  BY <1>2 DEF RowsAre
<1>4. ASSUME NEW k \in DOMAIN rows
      PROVE  /\ Len(rows[k]) = Len(heading)
             /\ \A n \in Tables!Range(heading) \cup DOMAIN recs[k] :
                  Tables!Found(rows[k], n)
                    = IF n \in DOMAIN recs[k] THEN recs[k][n] ELSE Tables!Empty
  <2>1. RowIs(rows[k], recs[k], Text)
    BY <1>3
  <2>2. Len(rows[k]) = Len(heading)
    BY <2>1 DEF RowIs
  <2>3. ASSUME NEW n \in Tables!Range(heading) \cup DOMAIN recs[k]
        PROVE  Tables!Found(rows[k], n)
                 = IF n \in DOMAIN recs[k] THEN recs[k][n] ELSE Tables!Empty
    BY <1>1, <2>1, FoundFact
  <2> QED
    BY <2>2, <2>3
<1>5. ASSUME service = "loki"
      PROVE  Tables!Range(LokiFields) \cup {message}
               = Tables!Range(SubSeq(heading, 1,
                     Tables!Cardinality(Tables!Range(LokiFields) \cup {message})))
  <2> DEFINE first == Tables!FirstNames
             start == SubSeq(heading, 1, Len(first))
  <2>1. /\ first \in Seq(Name) /\ Distinct(first)
        /\ NamesIn(first) = NamesIn(LokiFields) \cup {message}
    BY <1>1, <1>5, FirstFact
  <2>2. /\ Len(first) <= Len(heading)
        /\ \A j \in 1..Len(first) : heading[j] = first[j]
    BY DEF TableInv, HeadingBegins
  <2>3. Tables!Range(LokiFields) = NamesIn(LokiFields)
    <3>1. DOMAIN LokiFields = 1..Len(LokiFields)
      BY DEF AllResponses
    <3> QED
      BY <3>1 DEF Tables!Range, NamesIn
  <2>4. Tables!Cardinality(Tables!Range(LokiFields) \cup {message}) = Len(first)
    BY <2>1, <2>3, SizeFact, SameCardinality
  <2> HIDE DEF first
  <2>5. Len(first) \in Nat /\ Len(heading) \in Nat
    BY <1>1, <2>1
  <2>6. /\ DOMAIN start = 1..Len(first)
        /\ \A j \in 1..Len(first) : start[j] = heading[j]
    BY <1>1, <2>2, <2>5
  <2> HIDE DEF start
  <2>7. Tables!Range(start) = NamesIn(first)
    BY <2>2, <2>6 DEF Tables!Range, NamesIn
  <2> QED
    BY <2>1, <2>3, <2>4, <2>7 DEF start
<1> QED
  BY <1>3, <1>4, <1>5 DEF Tables!TableIsResponse, recs

(* For responses of any length with any labels: whatever order the maps    *)
(* are gone through in, the finished table has a row for every record, and *)
(* the evaluation finds every value of it under its name (GetDataRaw of    *)
(* the services for Loki and New Relic).                                   *)
THEOREM TablesAreResponses ==
  ASSUME NEW Name, NEW Text, AllResponses(Name, Text)
  PROVE  Tables!Spec => []TableIsResponse
<1>1. Tables!Init => TableInv(Name, Text)
  BY InitTable
<1>2. TableInv(Name, Text) /\ [Tables!Next]_Tables!vars => TableInv(Name, Text)'
  BY AddNamesTable, HeadingDoneTable, AddRowsTable, TableDoneTable, TableStutters
     DEF Tables!Next
<1>3. TableInv(Name, Text) => TableIsResponse
  BY FinishedTable
<1> QED
  BY <1>1, <1>2, <1>3, PTL DEF Tables!Spec
=============================================================================

--------------------------- MODULE RecoveryProofs ---------------------------
(***************************************************************************)
(* Crash and restart, for every interval, look-back, capacity, retry count *)
(* and number of crashes: every window that came due has a fate, none is   *)
(* evaluated twice, and an ample look-back cuts nothing.                   *)
(*                                                                         *)
(* All windows lie on one grid: the cron's ticks are the multiples of      *)
(* Interval, and a history counts back from the next one.  Three           *)
(* invariants follow the windows on it.  Core: what is in flight or stored *)
(* is on the grid and came due, nothing is in flight before the history is *)
(* computed, and the last timestamp in use is the end of the newest        *)
(* sample.  Apart: no queue holds a window that another one holds.         *)
(* Accounted: up to the next tick once the history is computed (Upcoming), *)
(* up to now while the cron fires (Running), and up to the newest sample   *)
(* while the exporter is down or starts (Behind).                          *)
(***************************************************************************)
EXTENDS Recovery, SequenceTheorems, WellFoundedInduction, TLAPS

-----------------------------------------------------------------------------
(* Arithmetic of the cron's grid.                                          *)

LEMMA MulStep ==
  ASSUME NEW a \in Int, NEW b \in Int, NEW m \in Nat \ {0}, a < b
  PROVE  m * a + m <= m * b
<1>1. b = a + 1 + (b - a - 1) /\ b - a - 1 \in Nat
  OBVIOUS
<1>2. PICK d \in Nat : b = a + 1 + d
  BY <1>1
<1>3. m * b = m * a + m + m * d /\ m * d >= 0
  BY <1>2, SMTT(30)
<1> QED
  BY <1>3

LEMMA DivMod ==
  ASSUME NEW a \in Int, NEW m \in Nat \ {0}
  PROVE  /\ a \div m \in Int /\ a % m \in Int
         /\ a = m * (a \div m) + (a % m)
         /\ 0 <= a % m /\ a % m < m
BY SMTT(30)

LEMMA Multiple ==
  ASSUME NEW a \in Int, NEW m \in Nat \ {0}, NEW k \in Int, a = m * k
  PROVE  a % m = 0 /\ a \div m = k
<1>1. /\ a \div m \in Int /\ a % m \in Int
      /\ a = m * (a \div m) + (a % m)
      /\ 0 <= a % m /\ a % m < m
  BY DivMod
<1>2. ~(k < a \div m)
  <2>1. k < a \div m => m * k + m <= m * (a \div m)
    BY <1>1, MulStep
  <2> QED
    BY <1>1, <2>1
<1>3. ~(a \div m < k)
  <2>1. a \div m < k => m * (a \div m) + m <= m * k
    BY <1>1, MulStep
  <2> QED
    BY <1>1, <2>1
<1>4. a \div m = k
  BY <1>1, <1>2, <1>3
<1> QED
  BY <1>1, <1>4

Grid(w) == (w - Start(0)) % Interval = 0

LEMMA StartFact ==
  ASSUME NEW t \in Int
  PROVE  Start(t) \in Int /\ Start(t) = t + Start(0)
BY RangeAssumption DEF Start

LEMMA GridForm ==
  ASSUME NEW w \in Int
  PROVE  Grid(w) <=> \E k \in Int : w = Start(0) + Interval * k
<1> DEFINE a == w - Start(0)
<1>1. a \in Int /\ Interval \in Nat \ {0} /\ Start(0) \in Int /\ w = Start(0) + a
  BY RangeAssumption, StartFact
<1>2. Grid(w) <=> a % Interval = 0
  BY DEF Grid
<1> HIDE DEF a
<1>3. ASSUME a % Interval = 0
      PROVE  \E k \in Int : w = Start(0) + Interval * k
  <2>1. a \div Interval \in Int /\ a = Interval * (a \div Interval)
    BY <1>1, <1>3, DivMod
  <2> QED
    BY <1>1, <2>1
<1>4. ASSUME NEW k \in Int, w = Start(0) + Interval * k
      PROVE  a % Interval = 0
  <2>1. a = Interval * k
    BY <1>1, <1>4
  <2> QED
    BY <1>1, <2>1, Multiple
<1> QED
  BY <1>2, <1>3, <1>4

(* Two windows of the grid are an interval apart.                          *)
LEMMA GridStep ==
  ASSUME NEW v \in Int, NEW w \in Int, Grid(v), Grid(w), v < w
  PROVE  v + Interval <= w
<1>1. PICK j \in Int : v = Start(0) + Interval * j
  BY GridForm
<1>2. PICK k \in Int : w = Start(0) + Interval * k
  BY GridForm
<1>3. Interval \in Nat \ {0} /\ Start(0) \in Int /\ Interval * j \in Int /\ Interval * k \in Int
  BY RangeAssumption, StartFact
<1>4. k \in Int /\ j \in Int /\ (k < j \/ k = j \/ j < k)
  OBVIOUS
<1>5. ~(k < j)
  BY <1>1, <1>2, <1>3, MulStep
<1>6. k # j
  BY <1>1, <1>2, <1>3
<1>7. Interval * j + Interval <= Interval * k
  BY <1>3, <1>4, <1>5, <1>6, MulStep
<1> QED
  BY <1>1, <1>2, <1>3, <1>7

(* The cron ticks, and the windows of its ticks.                           *)
LEMMA TickGrid ==
  ASSUME NEW t \in Int
  PROVE  Grid(Start(t)) <=> t % Interval = 0
<1>1. Start(t) - Start(0) = t
  BY StartFact
<1> QED
  BY <1>1 DEF Grid

LEMMA UpcomingFact ==
  ASSUME NEW t \in Int
  PROVE  LET u == NearestUpcomingCronTime(t)
         IN  u \in Int /\ t < u /\ u <= t + Interval /\ u % Interval = 0
<1> DEFINE d == t \div Interval
           u == (d + 1) * Interval
<1>1. /\ Interval \in Nat \ {0} /\ d \in Int /\ t % Interval \in Int
      /\ t = Interval * d + (t % Interval)
      /\ 0 <= t % Interval /\ t % Interval < Interval
  BY RangeAssumption, DivMod
<1> HIDE DEF d
<1>2. u = Interval * (d + 1) /\ u = Interval * d + Interval /\ Interval * d \in Int
  BY <1>1
<1>3. u \in Int /\ t < u /\ u <= t + Interval
  BY <1>1, <1>2
<1>4. u % Interval = 0
  BY <1>1, <1>2, <1>3, Multiple
<1> QED
  BY <1>3, <1>4 DEF NearestUpcomingCronTime, d

-----------------------------------------------------------------------------
(* The history.                                                            *)

LEMMA SizeFact ==
  ASSUME NEW u \in Int, last \in Int
  PROVE  HistorySize(u) \in Int /\ Interval * HistorySize(u) <= Start(u) - last
<1> DEFINE d == Start(u) - last
           m == Smaller(d, MaxLookup)
           k == m \div Interval
           n == Smaller(k, QueueSize)
<1>1. /\ Interval \in Nat \ {0} /\ MaxLookup \in Int /\ QueueSize \in Int
      /\ d \in Int
  BY RangeAssumption, StartFact
<1> HIDE DEF d
<1>2. m \in Int /\ m <= d
  BY <1>1 DEF Smaller
<1> HIDE DEF m
<1>3. k \in Int /\ Interval * k <= m
  BY <1>1, <1>2, DivMod
<1> HIDE DEF k
<1>4. n \in Int /\ (n = k \/ n < k)
  BY <1>1, <1>3 DEF Smaller
<1> HIDE DEF n
<1>5. Interval * n <= Interval * k
  <2>1. CASE n = k
    BY <1>1, <1>3, <2>1
  <2>2. CASE n < k
    <3>1. Interval * n + Interval <= Interval * k
      BY <1>1, <1>3, <1>4, <2>2, MulStep
    <3> QED
      BY <1>1, <1>3, <1>4, <3>1
  <2> QED
    BY <1>4, <2>1, <2>2
<1>6. Interval * n <= d
  BY <1>1, <1>2, <1>3, <1>4, <1>5
<1> QED
  BY <1>4, <1>6 DEF HistorySize, n, k, m, d

(* A history is a part of the grid, without gaps, that begins at the last  *)
(* timestamp at the earliest and ends just before the window of the next   *)
(* tick.                                                                   *)
HistoryOk(u) ==
  /\ History(u) \in Seq(Int)
  /\ Distinct(History(u))
  /\ \A w \in Elements(History(u)) :
       w \in Int /\ Grid(w) /\ last <= w /\ w + Interval <= Start(u)
  /\ Oldest(u) \in Int
  /\ \A w \in Int : Grid(w) /\ Oldest(u) <= w /\ w < Start(u) => w \in Elements(History(u))

LEMMA HistoryFact ==
  ASSUME NEW u \in Int, u % Interval = 0, last \in Int
  PROVE  HistoryOk(u)
<1> DEFINE n == HistorySize(u)
           s == Start(u)
           h == History(u)
           o == Start(0)
<1>1. /\ Interval \in Nat \ {0} /\ s \in Int /\ n \in Int /\ o \in Int /\ Interval * n \in Int
      /\ Interval * n <= s - last /\ Grid(s)
  <2>1. Interval \in Nat \ {0} /\ s \in Int /\ o \in Int /\ Grid(s)
    BY RangeAssumption, StartFact, TickGrid
  <2>2. n \in Int /\ Interval * n <= s - last
    BY SizeFact
  <2> HIDE DEF n, s, o
  <2> QED
    BY <2>1, <2>2
<1>2. h = [i \in 1..n |-> s - Interval * (n + 1 - i)]
  BY DEF History
<1>3. Oldest(u) = IF h = <<>> THEN s ELSE h[1]
  BY DEF Oldest
<1>4. PICK m \in Int : s = o + Interval * m
  BY <1>1, GridForm
<1> HIDE DEF n, s, h, o
<1>5. ASSUME NEW i \in 1..n
      PROVE  /\ h[i] \in Int /\ last <= h[i] /\ h[i] + Interval <= s /\ Grid(h[i])
             /\ h[i] = o + Interval * (m - (n + 1 - i))
  <2> DEFINE j == n + 1 - i
  <2>1. i \in Int /\ j \in Int /\ 1 <= j /\ j <= n /\ m - j \in Int
    BY <1>1
  <2>2. h[i] = s - Interval * j
    BY <1>2
  <2> HIDE DEF j
  <2>3. Interval * j \in Int /\ Interval <= Interval * j /\ Interval * j <= Interval * n
    <3>1. Interval * j \in Int /\ Interval * 0 = 0
      BY <1>1, <2>1
    <3>2. Interval * 0 + Interval <= Interval * j
      BY <1>1, <2>1, MulStep
    <3>3. j = n \/ Interval * j + Interval <= Interval * n
      BY <1>1, <2>1, MulStep
    <3> QED
      BY <1>1, <3>1, <3>2, <3>3
  <2>4. Interval * (m - j) = Interval * m - Interval * j /\ Interval * m \in Int
    BY <1>1, <2>1
  <2>5. h[i] \in Int /\ last <= h[i] /\ h[i] + Interval <= s
    BY <1>1, <2>2, <2>3
  <2>6. h[i] = o + Interval * (m - j)
    BY <1>1, <1>4, <2>2, <2>3, <2>4
  <2>7. Grid(h[i])
    BY <2>1, <2>5, <2>6, GridForm DEF o
  <2> QED
    BY <2>5, <2>6, <2>7 DEF j
<1>6. h \in Seq(Int) /\ (n \in Nat => Len(h) = n) /\ (n \notin Nat => h = <<>>)
  <2>1. CASE n \in Nat
    <3>1. \A i \in 1..n : s - Interval * (n + 1 - i) \in Int
      BY <1>1
    <3> QED
      BY <1>2, <2>1, <3>1
  <2>2. CASE n \notin Nat
    <3>1. 1..n = {}
      BY <1>1, <2>2
    <3>2. h = <<>>
      BY <1>2, <3>1
    <3> QED
      BY <2>2, <3>2
  <2> QED
    BY <2>1, <2>2
<1>7. 1..Len(h) = 1..n
  <2>1. n \notin Nat => 1..n = {} /\ 1..Len(h) = {}
    BY <1>1, <1>6
  <2> QED
    BY <1>6, <2>1
<1>8. Distinct(h)
  <2> SUFFICES ASSUME NEW i \in 1..n, NEW j \in 1..n, i < j
               PROVE  h[i] # h[j]
    BY <1>1, <1>7 DEF Distinct
  <2> DEFINE x == m - (n + 1 - i)
             y == m - (n + 1 - j)
  <2>1. h[i] = o + Interval * x /\ h[j] = o + Interval * y
    BY <1>5
  <2>2. x \in Int /\ y \in Int /\ x < y
    BY <1>1
  <2> HIDE DEF x, y
  <2>3. Interval * x + Interval <= Interval * y /\ Interval * x \in Int /\ Interval * y \in Int
    BY <1>1, <2>2, MulStep
  <2> QED
    BY <1>1, <2>1, <2>3
<1>9. Elements(h) = {h[i] : i \in 1..n}
  BY <1>7 DEF Elements
<1>10. \A w \in Elements(h) : w \in Int /\ Grid(w) /\ last <= w /\ w + Interval <= s
  BY <1>5, <1>9
<1>11. h # <<>> => n \in Nat \ {0} /\ 1 \in 1..n
  BY <1>6
<1>12. Oldest(u) \in Int
  BY <1>1, <1>3, <1>5, <1>11
<1>13. ASSUME NEW w \in Int, Grid(w), Oldest(u) <= w, w < s
       PROVE  w \in Elements(h)
  <2>1. h # <<>>
    BY <1>1, <1>3, <1>13
  <2>2. n \in Nat \ {0} /\ 1 \in 1..n /\ Oldest(u) = h[1]
    BY <1>3, <1>11, <2>1
  <2>3. PICK k \in Int : w = o + Interval * k
    BY <1>13, GridForm DEF o
  <2>4. h[1] = o + Interval * (m - n) /\ m - n \in Int
    <3>1. h[1] = o + Interval * (m - (n + 1 - 1)) /\ m - (n + 1 - 1) = m - n
      BY <1>5, <2>2
    <3> QED
      BY <2>2, <3>1
  <2>5. ~(k < m - n)
    <3>1. k < m - n => Interval * k + Interval <= Interval * (m - n)
      BY <1>1, <2>3, <2>4, MulStep
    <3>2. Interval * k \in Int /\ Interval * (m - n) \in Int
      BY <1>1, <2>3, <2>4
    <3> QED
      BY <1>1, <1>13, <2>2, <2>3, <2>4, <3>1, <3>2
  <2>6. k < m
    <3>1. m < k => Interval * m + Interval <= Interval * k
      BY <1>1, <2>3, MulStep
    <3>2. Interval * k \in Int /\ Interval * m \in Int
      BY <1>1, <2>3
    <3> QED
      BY <1>1, <1>4, <1>13, <2>3, <3>1, <3>2
  <2> DEFINE i == n + 1 - (m - k)
  <2>7. i \in 1..n /\ m - (n + 1 - i) = k
    BY <2>2, <2>5, <2>6
  <2>8. h[i] = w
    BY <1>5, <2>3, <2>7
  <2> QED
    BY <1>9, <2>7, <2>8
<1> QED
  BY <1>6, <1>8, <1>10, <1>12, <1>13 DEF HistoryOk, h, s

-----------------------------------------------------------------------------
(* Queues.                                                                 *)

LEMMA DequeueFact ==
  ASSUME NEW s \in Seq(Int), s # <<>>
  PROVE  /\ Head(s) \in Int /\ Tail(s) \in Seq(Int)
         /\ Elements(s) = Elements(Tail(s)) \cup {Head(s)}
         /\ Distinct(s) => Distinct(Tail(s)) /\ Head(s) \notin Elements(Tail(s))
<1> DEFINE t == Tail(s)
           m == Len(t)
<1>1. /\ Len(s) \in Nat /\ m \in Nat /\ Len(s) = m + 1 /\ Head(s) = s[1] /\ t \in Seq(Int)
      /\ \A i \in 1..m : t[i] = s[i + 1]
  BY HeadTailProperties
<1> HIDE DEF t
<1>2. /\ 1 \in 1..Len(s)
      /\ \A i \in 1..m : i + 1 \in 1..Len(s) /\ i + 1 # 1
      /\ \A i \in 1..Len(s) : i # 1 => i - 1 \in 1..m /\ (i - 1) + 1 = i
  BY <1>1
<1>3. Elements(s) = {s[i] : i \in 1..Len(s)} /\ Elements(t) = {t[i] : i \in 1..m}
  BY DEF Elements
<1>4. Head(s) \in Int /\ Head(s) \in Elements(s) /\ Elements(t) \subseteq Elements(s)
  <2>1. Head(s) \in Elements(s)
    BY <1>1, <1>2, <1>3
  <2>2. s[1] \in Int
    BY <1>2, ElementOfSeq, SMTT(60)
  <2>3. Elements(t) \subseteq Elements(s)
    <3> SUFFICES ASSUME NEW i \in 1..m PROVE t[i] \in Elements(s)
      BY <1>3
    <3>1. i + 1 \in 1..Len(s) /\ t[i] = s[i + 1]
      BY <1>1, <1>2
    <3> QED
      BY <1>3, <3>1
  <2> QED
    BY <1>1, <2>1, <2>2, <2>3
<1>5. Elements(s) \ {Head(s)} \subseteq Elements(t)
  <2> SUFFICES ASSUME NEW i \in 1..Len(s), s[i] # Head(s) PROVE s[i] \in Elements(t)
    BY <1>3
  <2>1. i - 1 \in 1..m /\ t[i - 1] = s[i]
    BY <1>1, <1>2
  <2> QED
    BY <1>3, <2>1
<1>6. ASSUME Distinct(s)
      PROVE  Distinct(t) /\ Head(s) \notin Elements(t)
  <2>1. \A i, j \in 1..Len(s) : s[i] = s[j] => i = j
    BY <1>6 DEF Distinct
  <2>2. ASSUME NEW i \in 1..m, NEW j \in 1..m, t[i] = t[j]
        PROVE  i = j
    <3>1. i + 1 = j + 1
      BY <1>1, <1>2, <2>1, <2>2
    <3> QED
      BY <1>1, <3>1
  <2>3. \A i \in 1..m : t[i] # Head(s)
    BY <1>1, <1>2, <2>1
  <2> QED
    BY <1>3, <2>2, <2>3 DEF Distinct
<1> QED
  BY <1>1, <1>4, <1>5, <1>6 DEF t

LEMMA EnqueueFact ==
  ASSUME NEW s \in Seq(Int), NEW w \in Int
  PROVE  /\ Append(s, w) \in Seq(Int)
         /\ Elements(Append(s, w)) = Elements(s) \cup {w}
         /\ Distinct(s) /\ w \notin Elements(s) => Distinct(Append(s, w))
<1> DEFINE a == Append(s, w)
           m == Len(s)
<1>1. /\ m \in Nat /\ Len(a) = m + 1 /\ a[m + 1] = w /\ a \in Seq(Int)
      /\ \A i \in 1..m : a[i] = s[i]
  OBVIOUS
<1>2. Elements(s) = {s[i] : i \in 1..m} /\ Elements(a) = {a[i] : i \in 1..(m + 1)}
  BY <1>1 DEF Elements
<1> HIDE DEF a, m
<1>3. /\ \A i \in 1..(m + 1) : i \in 1..m \/ i = m + 1
      /\ m + 1 \in 1..(m + 1) /\ \A i \in 1..m : i \in 1..(m + 1)
  BY <1>1
<1>4. Elements(a) = Elements(s) \cup {w}
  BY <1>1, <1>2, <1>3
<1>5. ASSUME Distinct(s), w \notin Elements(s)
      PROVE  Distinct(a)
  <2>1. /\ \A i, j \in 1..m : s[i] = s[j] => i = j
        /\ \A i \in 1..m : s[i] # w
    BY <1>2, <1>5 DEF Distinct, m
  <2>2. \A i, j \in 1..(m + 1) : a[i] = a[j] => i = j
    BY <1>1, <1>3, <2>1
  <2> QED
    BY <1>1, <2>2 DEF Distinct
<1> QED
  BY <1>1, <1>4, <1>5 DEF a

LEMMA JoinFact ==
  ASSUME NEW s \in Seq(Int), NEW t \in Seq(Int),
         Distinct(s), Distinct(t), Elements(s) \cap Elements(t) = {}
  PROVE  /\ s \o t \in Seq(Int)
         /\ Distinct(s \o t)
         /\ Elements(s \o t) = Elements(s) \cup Elements(t)
<1> DEFINE m == Len(s)
           n == Len(t)
           u == s \o t
<1>1. /\ m \in Nat /\ n \in Nat /\ Len(u) = m + n /\ u \in Seq(Int)
      /\ \A i \in 1..(m + n) : u[i] = IF i <= m THEN s[i] ELSE t[i - m]
  BY ConcatProperties
<1>2. /\ \A i, j \in 1..m : s[i] = s[j] => i = j
      /\ \A i, j \in 1..n : t[i] = t[j] => i = j
      /\ \A i \in 1..m : s[i] \in Elements(s)
      /\ \A i \in 1..n : t[i] \in Elements(t)
  BY DEF Distinct, Elements
<1>3. Elements(s) = {s[i] : i \in 1..m} /\ Elements(t) = {t[i] : i \in 1..n}
  BY DEF Elements
<1> HIDE DEF m, n, u
<1>4. \A i \in 1..m : i \in 1..(m + n) /\ u[i] = s[i]
  BY <1>1
<1>5. \A i \in 1..n : m + i \in 1..(m + n) /\ u[m + i] = t[i]
  <2> SUFFICES ASSUME NEW i \in 1..n PROVE m + i \in 1..(m + n) /\ u[m + i] = t[i]
    OBVIOUS
  <2>1. m + i \in 1..(m + n) /\ ~(m + i <= m) /\ (m + i) - m = i
    BY <1>1
  <2> QED
    BY <1>1, <2>1
<1>6. \A i \in 1..(m + n) : i \in 1..m \/ (i - m \in 1..n /\ i = m + (i - m))
  BY <1>1
<1>7. \A i \in 1..m : u[i] \in Elements(s)
  BY <1>2, <1>4
<1>8. ASSUME NEW i \in 1..(m + n), i \notin 1..m  PROVE u[i] \in Elements(t)
  <2>1. i - m \in 1..n /\ i = m + (i - m)
    BY <1>6, <1>8
  <2>2. u[m + (i - m)] = t[i - m] /\ t[i - m] \in Elements(t)
    BY <1>2, <1>5, <2>1
  <2> QED
    BY <2>1, <2>2
<1>9. Distinct(u)
  <2> SUFFICES ASSUME NEW i \in 1..(m + n), NEW j \in 1..(m + n), u[i] = u[j]
               PROVE  i = j
    BY <1>1 DEF Distinct
  <2>1. CASE i \in 1..m /\ j \in 1..m
    BY <1>2, <1>4, <2>1
  <2>2. CASE i \in 1..m /\ j \notin 1..m
    <3>1. u[i] \in Elements(s) /\ u[j] \in Elements(t)
      BY <1>7, <1>8, <2>2
    <3> QED
      BY <3>1
  <2>3. CASE i \notin 1..m /\ j \in 1..m
    <3>1. u[i] \in Elements(t) /\ u[j] \in Elements(s)
      BY <1>7, <1>8, <2>3
    <3> QED
      BY <3>1
  <2>4. CASE i \notin 1..m /\ j \notin 1..m
    <3>1. i - m \in 1..n /\ i = m + (i - m) /\ j - m \in 1..n /\ j = m + (j - m)
      BY <1>6, <2>4
    <3>2. u[m + (i - m)] = t[i - m] /\ u[m + (j - m)] = t[j - m]
      BY <1>5, <3>1
    <3>3. t[i - m] = t[j - m]
      BY <3>1, <3>2
    <3>4. i - m = j - m
      BY <1>2, <3>1, <3>3
    <3> QED
      BY <3>1, <3>4
  <2> QED
    BY <2>1, <2>2, <2>3, <2>4
<1>10. Elements(u) = {u[i] : i \in 1..(m + n)}
  BY <1>1 DEF Elements
<1>11. Elements(u) \subseteq Elements(s) \cup Elements(t)
  BY <1>3, <1>7, <1>8, <1>10
<1>12. Elements(s) \cup Elements(t) \subseteq Elements(u)
  BY <1>3, <1>4, <1>5, <1>10
<1> QED
  BY <1>1, <1>9, <1>11, <1>12 DEF u

LEMMA NoElements == Elements(<<>>) = {} /\ Distinct(<<>>) /\ <<>> \in Seq(Int)
BY DEF Elements, Distinct

(* A set of times that is not empty and has an upper bound has a last one. *)
LEMMA LastTime ==
  ASSUME NEW T \in SUBSET Int, T # {}, NEW b \in Int, \A t \in T : t <= b
  PROVE  \E t \in T : \A s \in T : s <= t
<1> DEFINE D == {b - t : t \in T}
<1>1. D \subseteq Nat /\ D # {}
  <2>1. \A t \in T : b - t \in Nat
    OBVIOUS
  <2>2. PICK t \in T : b - t \in D
    OBVIOUS
  <2> QED
    BY <2>1, <2>2
<1> HIDE DEF D
<1>2. PICK d \in D : \A e \in D : <<e, d>> \notin OpToRel(<, Nat)
  BY <1>1, WFMin, NatLessThanWellFounded, Zenon
<1>3. \A e \in D : ~(e < d)
  <2> SUFFICES ASSUME NEW e \in D PROVE ~(e < d)
    OBVIOUS
  <2>1. e \in Nat /\ d \in Nat
    BY <1>1
  <2> QED
    BY <1>2, <2>1, Zenon DEF OpToRel
<1>4. PICK t \in T : d = b - t
  BY <1>2 DEF D
<1>5. \A s \in T : s <= t
  <2> SUFFICES ASSUME NEW s \in T PROVE s <= t
    OBVIOUS
  <2>1. b - s \in D /\ s \in Int /\ t \in Int
    BY <1>4 DEF D
  <2>2. ~(b - s < b - t)
    BY <1>3, <1>4, <2>1
  <2> QED
    BY <2>1, <2>2
<1> QED
  BY <1>5

-----------------------------------------------------------------------------
(* What holds whatever the interval, the length and the number of windows. *)

TypeOK ==
  /\ ltsRetryCount \in Nat /\ now \in Nat /\ attempts \in Nat
  /\ boot \in {"down", "load", "nearest", "send", "done"} /\ cronOn \in BOOLEAN
  /\ last \in Int /\ next \in Int /\ since \in Int
  /\ todo \in Seq(Int) /\ gts \in Seq(Int) /\ stage \in Seq(Int)
  /\ jobs \subseteq Int /\ stored \subseteq Int /\ samples \subseteq Int

(* Until the history is computed nothing is in flight.                     *)
Booting == boot \in {"down", "load", "nearest"}

Idle == Booting => InFlight = {}

(* Windows in flight and samples are windows of the grid that came due.    *)
Due ==
  /\ Lag + Timerange <= now
  /\ \A w \in InFlight \cup samples : w \in Int /\ 0 <= w /\ w <= Start(now) /\ Grid(w)

(* The last timestamp that was loaded is the end of the newest sample.     *)
Loaded ==
  boot = "nearest" =>
    /\ 0 <= last
    /\ IF ltsRetryCount = 0 THEN last = 0
       ELSE /\ \A w \in samples : End(w) <= last
            /\ \E w \in samples : End(w) = last

(* The clock had started before the exporter did.                          *)
Scheduled == since # NoTick => Lag + Timerange < since

Core == TypeOK /\ Idle /\ Due /\ Loaded /\ Scheduled

(* What a step of the queues does: a window moves on, or is stored or      *)
(* refused; nothing enters.                                                *)
Passed ==
  /\ todo' \in Seq(Int) /\ gts' \in Seq(Int) /\ stage' \in Seq(Int)
  /\ jobs' \subseteq Int /\ stored' \subseteq Int
  /\ InFlight' \subseteq InFlight
  /\ InFlight \subseteq InFlight' \cup stored' \cup refused'
  /\ stored \subseteq stored' /\ refused \subseteq refused'
  /\ samples \subseteq samples' /\ samples' \subseteq samples \cup InFlight
  /\ UNCHANGED <<ltsRetryCount, now, boot, cronOn, attempts, last, next, since, cut,
                 unloaded, raced, overtaken>>

LEMMA SendPassed ==
  ASSUME TypeOK, SendHistory, Configured
  PROVE  Passed
<1>1. todo # <<>> /\ gts' = Append(gts, Head(todo)) /\ todo' = Tail(todo)
  BY DEF SendHistory
<1>2. /\ Head(todo) \in Int /\ todo' \in Seq(Int)
      /\ Elements(todo) = Elements(todo') \cup {Head(todo)}
  BY <1>1, DequeueFact DEF TypeOK
<1>3. gts' \in Seq(Int) /\ Elements(gts') = Elements(gts) \cup {Head(todo)}
  BY <1>1, <1>2, EnqueueFact DEF TypeOK
<1>4. jobs' = jobs /\ Elements(stage') = Elements(stage)
  BY DEF SendHistory
<1>5. InFlight' = InFlight
  BY <1>2, <1>3, <1>4 DEF InFlight, Elements
<1> QED
  BY <1>2, <1>3, <1>5 DEF SendHistory, Configured, TypeOK, Passed, dbVars, goneVars

LEMMA TakePassed ==
  ASSUME TypeOK, Take, Configured
  PROVE  Passed
<1>1. gts # <<>> /\ stage' = Append(stage, Head(gts)) /\ gts' = Tail(gts)
  BY DEF Take
<1>2. /\ Head(gts) \in Int /\ gts' \in Seq(Int)
      /\ Elements(gts) = Elements(gts') \cup {Head(gts)}
  BY <1>1, DequeueFact DEF TypeOK
<1>3. stage' \in Seq(Int) /\ Elements(stage') = Elements(stage) \cup {Head(gts)}
  BY <1>1, <1>2, EnqueueFact DEF TypeOK
<1>4. jobs' = jobs /\ todo' = todo
  BY DEF Take, bootVars
<1>5. InFlight' = InFlight
  BY <1>2, <1>3, <1>4 DEF InFlight, Elements
<1> QED
  BY <1>2, <1>3, <1>4, <1>5 DEF Take, Configured, TypeOK, Passed, bootVars, dbVars, goneVars

LEMMA LeavePassed ==
  ASSUME TypeOK, Deliver \/ GiveUp, Configured
  PROVE  Passed
<1>1. stage # <<>> /\ stage' = Tail(stage)
  BY DEF Deliver, GiveUp
<1>2. /\ Head(stage) \in Int /\ stage' \in Seq(Int)
      /\ Elements(stage) = Elements(stage') \cup {Head(stage)}
  BY <1>1, DequeueFact DEF TypeOK
<1>3. jobs' = jobs /\ todo' = todo /\ gts' = gts
  BY DEF Deliver, GiveUp, bootVars
<1>4. InFlight = InFlight' \cup {Head(stage)}
  BY <1>2, <1>3 DEF InFlight, Elements
<1>5. CASE Deliver
  <2>1. /\ stored' = stored \cup {Head(stage)} /\ refused' = refused
        /\ samples' = samples \cup {Head(stage)} \/ samples' = samples
        /\ UNCHANGED <<now, boot, cronOn, attempts, last, next, since, cut, unloaded, raced,
                       overtaken>>
    BY <1>5 DEF Deliver, bootVars, goneVars
  <2> QED
    BY <1>2, <1>3, <1>4, <2>1 DEF Configured, TypeOK, Passed
<1>6. CASE GiveUp
  <2>1. /\ refused' = refused \cup {Head(stage)} /\ stored' = stored /\ samples' = samples
        /\ UNCHANGED <<now, boot, cronOn, attempts, last, next, since, cut, unloaded, raced,
                       overtaken>>
    BY <1>6 DEF GiveUp, bootVars, dbVars
  <2> QED
    BY <1>2, <1>3, <1>4, <2>1 DEF Configured, TypeOK, Passed
<1> QED
  BY <1>5, <1>6

LEMMA PutPassed ==
  ASSUME TypeOK, NEW w \in jobs, Put(w), Configured
  PROVE  Passed
<1>1. w \in Int /\ jobs = jobs' \cup {w} /\ todo' = todo /\ stage' = stage
  BY DEF Put, TypeOK, bootVars
<1>2. /\ stored' = stored /\ samples' = samples
      /\ UNCHANGED <<now, boot, cronOn, attempts, last, next, since, cut, unloaded, raced,
                       overtaken>>
  BY DEF Put, bootVars, dbVars
<1>3. CASE Len(gts) < QueueSize
  <2>1. gts' = Append(gts, w) /\ refused' = refused
    BY <1>3 DEF Put
  <2>2. gts' \in Seq(Int) /\ Elements(gts') = Elements(gts) \cup {w}
    BY <1>1, <2>1, EnqueueFact DEF TypeOK
  <2>3. InFlight' = InFlight
    BY <1>1, <2>2 DEF InFlight, Elements
  <2> QED
    BY <1>1, <1>2, <2>1, <2>2, <2>3 DEF Configured, TypeOK, Passed
<1>4. CASE ~(Len(gts) < QueueSize)
  <2>1. gts' = gts /\ refused' = refused \cup {w}
    BY <1>4 DEF Put
  <2>2. InFlight = InFlight' \cup {w}
    BY <1>1, <2>1 DEF InFlight, Elements
  <2> QED
    BY <1>1, <1>2, <2>1, <2>2 DEF Configured, TypeOK, Passed
<1> QED
  BY <1>3, <1>4

LEMMA NewestFact ==
  ASSUME Core, samples # {}
  PROVE  /\ LastTimestamp \in Int /\ 0 <= LastTimestamp
         /\ \A w \in samples : End(w) <= LastTimestamp
         /\ \E w \in samples : End(w) = LastTimestamp
<1> DEFINE T == {End(w) : w \in samples}
<1>1. /\ now \in Int /\ Lag \in Nat /\ Timerange \in Nat
      /\ \A w \in samples : w \in Int /\ 0 <= w /\ w <= Start(now)
  BY RangeAssumption DEF Core, TypeOK, Due
<1>2. \A w \in samples : End(w) \in Int /\ 0 <= End(w) /\ End(w) <= now
  BY <1>1 DEF Start, End
<1>3. T \in SUBSET Int /\ T # {} /\ \A t \in T : 0 <= t /\ t <= now
  BY <1>2
<1>4. \E t \in T : \A s \in T : s <= t
  BY <1>1, <1>3, LastTime
<1>5. \E t \in T : \A w \in samples : End(w) <= t
  BY <1>4
<1>6. LastTimestamp = CHOOSE t \in T : \A w \in samples : End(w) <= t
  BY DEF LastTimestamp
<1>7. LastTimestamp \in T /\ \A w \in samples : End(w) <= LastTimestamp
  BY <1>5, <1>6
<1> QED
  BY <1>3, <1>7

LEMMA NextTickFact ==
  ASSUME TypeOK
  PROVE  LET u == NearestUpcomingCronTime(now)
         IN  /\ u \in Int /\ now < u /\ u <= now + Interval /\ u % Interval = 0
             /\ Start(u) \in Int /\ Start(now) < Start(u) /\ Start(u) <= Start(now) + Interval
<1> DEFINE u == NearestUpcomingCronTime(now)
<1>1. now \in Int /\ Interval \in Nat \ {0} /\ Lag \in Nat /\ Timerange \in Nat
  BY RangeAssumption DEF TypeOK
<1>2. u \in Int /\ now < u /\ u <= now + Interval /\ u % Interval = 0
  BY <1>1, UpcomingFact
<1> HIDE DEF u
<1> QED
  BY <1>1, <1>2 DEF u, Start

LEMMA InitCore == Init => Core
<1> SUFFICES ASSUME Init PROVE Core
  OBVIOUS
<1>1. /\ Lag \in Nat /\ Timerange \in Nat /\ RetryCounts \subseteq Nat
      /\ NotLoaded \in Int /\ NoTick \in Int
  BY RangeAssumption DEF NotLoaded, NoTick
<1>2. InFlight = {}
  BY NoElements DEF Init, InFlight
<1>3. TypeOK
  <2>1. now \in Nat /\ ltsRetryCount \in Nat /\ attempts \in Nat
    BY <1>1 DEF Init
  <2>2. boot \in {"down", "load", "nearest", "send", "done"} /\ cronOn \in BOOLEAN
    BY DEF Init
  <2> QED
    BY <1>1, <2>1, <2>2, NoElements DEF Init, TypeOK
<1> QED
  BY <1>1, <1>2, <1>3 DEF Init, Core, Idle, Due, Loaded, Scheduled

LEMMA PassedCore ==
  ASSUME Core, Passed
  PROVE  Core'
<1>1. TypeOK'
  BY DEF Core, TypeOK, Passed
<1>2. Idle'
  BY DEF Core, Idle, Booting, Passed
<1>3. Due'
  BY DEF Core, Due, Passed, Start, Grid
<1>4. Loaded'
  <2>1. boot = "nearest" => samples' = samples
    BY DEF Core, Idle, Booting, Passed
  <2> QED
    BY <2>1 DEF Core, Loaded, Passed, End
<1>5. Scheduled'
  BY DEF Core, Scheduled, Passed
<1> QED
  BY <1>1, <1>2, <1>3, <1>4, <1>5 DEF Core

(* The steps that leave the windows where they are.                        *)
Unmoved == UNCHANGED <<todo, jobs, gts, stage, stored, samples, ltsRetryCount>>

LEMMA UnmovedFact ==
  ASSUME Unmoved
  PROVE  InFlight' = InFlight
BY DEF Unmoved, InFlight, Elements

(* They keep the invariant if the clock does not move either, and if what  *)
(* they change is right.                                                   *)
LEMMA UnmovedCore ==
  ASSUME Core, Unmoved, now' = now,
         boot' \in {"down", "load", "nearest", "send", "done"}, cronOn' \in BOOLEAN,
         attempts' \in Nat, last' \in Int, next' \in Int, since' \in Int,
         Booting' => Booting, Loaded', Scheduled'
  PROVE  Core'
<1>1. InFlight' = InFlight
  BY UnmovedFact
<1>2. TypeOK'
  BY DEF Core, TypeOK, Unmoved
<1>3. Idle'
  BY <1>1 DEF Core, Idle
<1>4. Due'
  BY <1>1 DEF Core, Due, Unmoved, Start, Grid
<1> QED
  BY <1>2, <1>3, <1>4 DEF Core

LEMMA BecomeReadyFact ==
  ASSUME Core, BecomeReady, now' = now
  PROVE  since' \in Int /\ Scheduled'
<1>1. now \in Int /\ since \in Int /\ Lag \in Nat /\ Timerange \in Nat /\ Lag + Timerange <= now
  BY RangeAssumption DEF Core, TypeOK, Due
<1>2. since' = since \/ since' = now + 1
  BY DEF BecomeReady
<1> QED
  BY <1>1, <1>2 DEF Core, Scheduled

LEMMA BootCore ==
  ASSUME Core, Configured,
         StartProcess \/ LoadOk \/ LoadNothing \/ LoadError \/ LoadNoAttempt \/ Register \/ StartCron
  PROVE  Core'
<1> USE DEF Configured, flowVars, dbVars
<1>1. TypeOK /\ Scheduled
  BY DEF Core
<1>2. CASE StartProcess
  <2>1. /\ Unmoved /\ now' = now /\ boot' = "load" /\ Booting
        /\ UNCHANGED <<cronOn, attempts, last, next, since>>
    BY <1>2 DEF StartProcess, Unmoved, Booting
  <2> QED
    BY <1>1, <2>1, UnmovedCore DEF TypeOK, Booting, Loaded, Scheduled
<1>3. CASE LoadOk
  <2>1. /\ Unmoved /\ now' = now /\ boot' = "nearest" /\ Booting /\ last' = LastTimestamp
        /\ UNCHANGED <<cronOn, next, since>> /\ samples # {}
        /\ 0 < ltsRetryCount /\ attempts' \in Nat
    BY <1>1, <1>3 DEF LoadOk, KeepAtBoot, Unmoved, Booting, TypeOK
  <2>2. Loaded' /\ last' \in Int
    BY <2>1, NewestFact DEF Loaded, Unmoved, End
  <2> QED
    BY <1>1, <2>1, <2>2, UnmovedCore DEF TypeOK, Booting, Scheduled
<1>4. CASE LoadNothing \/ LoadError
  <2>1. /\ Unmoved /\ now' = now /\ UNCHANGED <<cronOn, last, since>>
        /\ boot = "load"
        /\ (boot' = boot /\ next' = next) \/ SkipHistory
        /\ attempts' = attempts + 1
    BY <1>4 DEF LoadNothing, LoadError, KeepAtBoot, Unmoved
  <2>2. boot' \in {"load", "send"} /\ next' \in Int
    BY <1>1, <2>1, NextTickFact DEF SkipHistory, TypeOK
  <2> QED
    BY <1>1, <2>1, <2>2, UnmovedCore DEF TypeOK, Booting, Loaded, Scheduled
<1>5. CASE LoadNoAttempt
  <2>1. /\ Unmoved /\ now' = now /\ boot' = "nearest" /\ Booting /\ last' = 0
        /\ UNCHANGED <<cronOn, attempts, next, since>> /\ ltsRetryCount = 0
    BY <1>5 DEF LoadNoAttempt, KeepAtBoot, Unmoved, Booting
  <2>2. Loaded'
    BY <2>1 DEF Loaded, Unmoved
  <2> QED
    BY <1>1, <2>1, <2>2, UnmovedCore DEF TypeOK, Booting, Scheduled
<1>6. CASE Register
  <2>1. /\ Unmoved /\ now' = now /\ boot' = "done" /\ UNCHANGED <<cronOn, attempts, last, next>>
        /\ BecomeReady
    BY <1>6 DEF Register, Unmoved
  <2> QED
    BY <1>1, <2>1, UnmovedCore, BecomeReadyFact DEF TypeOK, Booting, Loaded
<1>7. CASE StartCron
  <2>1. /\ Unmoved /\ now' = now /\ cronOn' = TRUE /\ UNCHANGED <<boot, attempts, last, next>>
        /\ BecomeReady
    BY <1>7 DEF StartCron, Unmoved
  <2>2. Loaded'
    BY <2>1 DEF Core, Loaded, Unmoved, End
  <2> QED
    BY <1>1, <2>1, <2>2, UnmovedCore, BecomeReadyFact DEF TypeOK, Booting
<1> QED
  BY <1>2, <1>3, <1>4, <1>5, <1>6, <1>7

(* Nothing was in flight before the history, and the last timestamp is     *)
(* never in the future.                                                    *)
Computed ==
  /\ next' \in Int /\ next' % Interval = 0 /\ now < next'
  /\ Start(next') \in Int /\ Start(now) < Start(next') /\ Start(next') <= Start(now) + Interval
  /\ HistoryOk(next') /\ todo' = History(next')
  /\ cut' = cut \cup (Windows(last, Oldest(next')) \ stored)
  /\ InFlight = {} /\ InFlight' = Elements(History(next'))
  /\ UNCHANGED <<ltsRetryCount, now, cronOn, attempts, last, since, jobs, gts, stage, stored,
                 samples, unloaded, raced, overtaken, refused>>
  /\ boot' = "send"

LEMMA ComputedFact ==
  ASSUME Core, ComputeHistory, Configured
  PROVE  Computed
<1> DEFINE u == next'
<1>1. u = NearestUpcomingCronTime(now) /\ boot = "nearest"
  BY DEF ComputeHistory
<1>2. /\ u \in Int /\ now < u /\ u % Interval = 0
      /\ Start(u) \in Int /\ Start(now) < Start(u) /\ Start(u) <= Start(now) + Interval
  BY <1>1, NextTickFact DEF Core
<1>3. last <= now
  <2>1. now \in Nat /\ Lag \in Nat /\ Timerange \in Nat
    BY RangeAssumption DEF Core, TypeOK
  <2>2. CASE ltsRetryCount = 0
    BY <1>1, <2>1, <2>2 DEF Core, Loaded
  <2>3. CASE ltsRetryCount # 0
    <3>1. PICK w \in samples : End(w) = last
      BY <1>1, <2>3 DEF Core, Loaded
    <3>2. w \in Int /\ w <= Start(now)
      BY DEF Core, Due
    <3> QED
      BY <2>1, <3>1, <3>2 DEF Start, End
  <2> QED
    BY <2>2, <2>3
<1>4. last \in Int /\ now \in Int
  BY DEF Core, TypeOK
<1>5. HistoryOk(u)
  BY <1>2, <1>4, HistoryFact
<1>6. ~(last > now)
  BY <1>3, <1>4
<1>7. todo' = History(u) /\ cut' = cut \cup (Windows(last, Oldest(u)) \ stored)
  BY <1>6 DEF ComputeHistory
<1>8. /\ boot' = "send"
      /\ UNCHANGED <<ltsRetryCount, now, cronOn, attempts, last, since, jobs, gts, stage,
                     stored, samples, unloaded, raced, overtaken, refused>>
  BY DEF ComputeHistory, KeepAtBoot, Configured, flowVars, dbVars
<1>9. InFlight = {}
  BY <1>1 DEF Core, Idle, Booting
<1>10. InFlight' = Elements(History(u))
  <2>1. Elements(gts) = {} /\ Elements(stage) = {} /\ jobs = {}
    BY <1>9 DEF InFlight
  <2>2. Elements(gts') = {} /\ Elements(stage') = {} /\ jobs' = {} /\ todo' = History(u)
    BY <1>7, <1>8, <2>1
  <2> QED
    BY <2>2 DEF InFlight, Elements
<1> QED
  BY <1>2, <1>5, <1>7, <1>8, <1>9, <1>10 DEF Computed

LEMMA ComputeCore ==
  ASSUME Core, ComputeHistory, Configured
  PROVE  Core'
<1>1. Computed
  BY ComputedFact
<1>2. TypeOK'
  BY <1>1 DEF Core, TypeOK, Computed, HistoryOk
<1>3. boot' = "send" /\ since' = since /\ now' = now /\ samples' = samples
  BY <1>1 DEF Computed
<1>4. ~Booting' /\ Loaded' /\ Idle'
  BY <1>3 DEF Booting, Loaded, Idle
<1>5. Due'
  <2>1. ASSUME NEW w \in InFlight'
        PROVE  w \in Int /\ 0 <= w /\ w <= Start(now) /\ Grid(w)
    <3>1. w \in Int /\ Grid(w) /\ last <= w /\ w + Interval <= Start(next')
      BY <1>1, <2>1 DEF Computed, HistoryOk
    <3>2. 0 <= last /\ last \in Int /\ Start(now) \in Int /\ Interval \in Nat
      BY RangeAssumption, StartFact DEF Core, TypeOK, Loaded, ComputeHistory
    <3>3. Start(next') \in Int /\ Start(next') <= Start(now) + Interval
      BY <1>1 DEF Computed
    <3> QED
      BY <3>1, <3>2, <3>3
  <2>2. \A w \in samples : w \in Int /\ 0 <= w /\ w <= Start(now) /\ Grid(w)
    BY DEF Core, Due
  <2>3. Lag + Timerange <= now
    BY DEF Core, Due
  <2> QED
    BY <1>3, <2>1, <2>2, <2>3 DEF Due, Start, Grid
<1>6. Scheduled'
  BY <1>3 DEF Core, Scheduled
<1> QED
  BY <1>2, <1>4, <1>5, <1>6 DEF Core

(* What a tick adds is the window that just came due.                      *)
LEMMA TickFact ==
  ASSUME Core, Tick, Configured
  PROVE  /\ now' = now + 1 /\ Start(now') = Start(now) + 1
         /\ Start(now) \in Int /\ 0 <= Start(now) /\ now < MaxTime
         /\ UNCHANGED <<ltsRetryCount, boot, cronOn, attempts, last, next, since, todo, gts, stage,
                        stored, samples, cut, unloaded, raced, overtaken, refused>>
         /\ jobs' = IF Ready /\ Grid(Start(now')) THEN jobs \cup {Start(now')} ELSE jobs
         /\ InFlight' = InFlight \cup (jobs' \ jobs)
<1>1. /\ now' = now + 1 /\ now < MaxTime
      /\ UNCHANGED <<ltsRetryCount, boot, cronOn, attempts, last, next, since, todo, gts, stage,
                     stored, samples, cut, unloaded, raced, overtaken, refused>>
      /\ jobs' = IF Ready /\ now' % Interval = 0 THEN jobs \cup {Start(now')} ELSE jobs
  BY DEF Tick, Configured, bootVars, dbVars, goneVars
<1>2. now \in Int /\ Lag \in Nat /\ Timerange \in Nat /\ Lag + Timerange <= now
  BY RangeAssumption DEF Core, TypeOK, Due
<1>3. Start(now') = Start(now) + 1 /\ Start(now) \in Int /\ 0 <= Start(now) /\ now' \in Int
  BY <1>1, <1>2 DEF Start
<1>4. Grid(Start(now')) <=> now' % Interval = 0
  BY <1>3, TickGrid
<1>5. InFlight' = InFlight \cup (jobs' \ jobs)
  <2>1. jobs \subseteq jobs'
    BY <1>1
  <2> QED
    BY <1>1, <2>1 DEF InFlight, Elements
<1> QED
  BY <1>1, <1>3, <1>4, <1>5

LEMMA TickCore ==
  ASSUME Core, Tick, Configured
  PROVE  Core'
<1> DEFINE w0 == Start(now')
<1>1. /\ now' = now + 1 /\ w0 = Start(now) + 1
      /\ Start(now) \in Int /\ 0 <= Start(now)
      /\ UNCHANGED <<ltsRetryCount, boot, cronOn, attempts, last, next, since, todo, gts, stage,
                     stored, samples>>
      /\ jobs' = IF Ready /\ Grid(w0) THEN jobs \cup {w0} ELSE jobs
      /\ InFlight' = InFlight \cup (jobs' \ jobs)
  BY TickFact
<1>2. w0 \in Int
  BY <1>1
<1> HIDE DEF w0
<1>3. TypeOK'
  <2>1. now \in Nat /\ jobs \subseteq Int
    BY DEF Core, TypeOK
  <2>2. now' \in Nat
    BY <1>1, <2>1
  <2>3. jobs' \subseteq Int
    BY <1>1, <1>2, <2>1
  <2> QED
    BY <1>1, <2>2, <2>3 DEF Core, TypeOK
<1>4. Idle'
  <2>1. Booting' => jobs' = jobs /\ Booting
    BY <1>1 DEF Booting, Ready
  <2> QED
    BY <1>1, <2>1 DEF Core, Idle
<1>5. Due'
  <2>1. ASSUME NEW w \in InFlight' \cup samples'
        PROVE  w \in Int /\ 0 <= w /\ w <= w0 /\ Grid(w)
    <3>1. CASE w \in InFlight \cup samples
      <4>1. w \in Int /\ 0 <= w /\ w <= Start(now) /\ Grid(w)
        BY <3>1 DEF Core, Due
      <4> QED
        BY <1>1, <4>1
    <3>2. CASE w \notin InFlight \cup samples
      <4>1. w = w0 /\ Grid(w0)
        BY <1>1, <2>1, <3>2
      <4> QED
        BY <1>1, <1>2, <4>1
    <3> QED
      BY <3>1, <3>2
  <2>2. Lag + Timerange <= now'
    BY <1>1, RangeAssumption DEF Core, TypeOK, Due
  <2> QED
    BY <2>1, <2>2 DEF Due, w0, Start, Grid
<1>6. Loaded' /\ Scheduled'
  BY <1>1 DEF Core, Loaded, Scheduled, End
<1> QED
  BY <1>3, <1>4, <1>5, <1>6 DEF Core

LEMMA StopFact ==
  ASSUME Stop, Configured
  PROVE  /\ InFlight' = {} /\ boot' = "down" /\ cronOn' = FALSE /\ attempts' = 0
         /\ last' = NotLoaded /\ next' = NoTick
         /\ todo' = <<>> /\ gts' = <<>> /\ stage' = <<>> /\ jobs' = {}
         /\ overtaken' = overtaken \cup {w \in InFlight : samples # {} /\ w < LastTimestamp}
         /\ UNCHANGED <<ltsRetryCount, now, since, stored, samples, cut, unloaded, raced, refused>>
<1>1. InFlight' = {}
  BY NoElements DEF Stop, InFlight, Elements
<1> QED
  BY <1>1 DEF Stop, Configured, dbVars

LEMMA StopCore ==
  ASSUME Core, Stop, Configured
  PROVE  Core'
<1>1. /\ InFlight' = {} /\ boot' = "down" /\ cronOn' = FALSE /\ attempts' = 0
      /\ last' = NotLoaded /\ next' = NoTick
      /\ todo' = <<>> /\ gts' = <<>> /\ stage' = <<>> /\ jobs' = {}
      /\ UNCHANGED <<ltsRetryCount, now, since, stored, samples>>
  BY StopFact
<1>2. TypeOK'
  <2>1. /\ last' \in Int /\ next' \in Int /\ jobs' \subseteq Int
        /\ todo' \in Seq(Int) /\ gts' \in Seq(Int) /\ stage' \in Seq(Int)
    BY <1>1, NoElements DEF NotLoaded, NoTick
  <2>2. boot' \in {"down", "load", "nearest", "send", "done"} /\ cronOn' \in BOOLEAN
    BY <1>1
  <2> QED
    BY <1>1, <2>1, <2>2 DEF Core, TypeOK
<1>3. Idle' /\ Loaded' /\ Scheduled'
  BY <1>1 DEF Core, Idle, Loaded, Scheduled
<1>4. Due'
  BY <1>1 DEF Core, Due, Start, Grid
<1> QED
  BY <1>2, <1>3, <1>4 DEF Core

LEMMA StepCore ==
  ASSUME Core, [Next]_vars
  PROVE  Core'
<1>0. TypeOK
  BY DEF Core
<1>1. CASE Scheduling
  <2>1. CASE SendHistory /\ Configured
    BY <1>0, <2>1, SendPassed, PassedCore
  <2>2. CASE ComputeHistory /\ Configured
    BY <2>2, ComputeCore
  <2> QED
    BY <1>1, <2>1, <2>2, BootCore DEF Scheduling
<1>2. CASE CronStarts
  BY <1>2, BootCore DEF CronStarts
<1>3. CASE Flow
  BY <1>0, <1>3, TakePassed, LeavePassed, PutPassed, PassedCore DEF Flow
<1>4. CASE Environment
  BY <1>4, BootCore, TickCore, StopCore DEF Environment
<1>5. CASE UNCHANGED vars
  <2>1. /\ Unmoved /\ now' = now
        /\ UNCHANGED <<boot, cronOn, attempts, last, next, since>>
    BY <1>5 DEF vars, bootVars, flowVars, dbVars, Unmoved
  <2>2. Loaded' /\ Scheduled' /\ (Booting' => Booting)
    BY <2>1 DEF Core, Loaded, Scheduled, Booting, Unmoved, End
  <2> QED
    BY <1>0, <2>1, <2>2, UnmovedCore DEF TypeOK
<1> QED
  BY <1>1, <1>2, <1>3, <1>4, <1>5 DEF Next

-----------------------------------------------------------------------------
(* No window is evaluated twice.                                           *)

(* The queues have no window in common and hold none twice.                *)
Apart ==
  /\ Distinct(todo) /\ Distinct(gts) /\ Distinct(stage)
  /\ Elements(stage) \cap Elements(gts) = {}
  /\ (Elements(stage) \cup Elements(gts)) \cap Elements(todo) = {}
  /\ jobs \cap (Elements(stage) \cup Elements(gts) \cup Elements(todo)) = {}

Fresh == ltsRetryCount > 0 => InFlight \cap samples = {}

LEMMA ApartNothingTwice ==
  ASSUME TypeOK, Apart, Fresh
  PROVE  NothingTwice
<1>1. /\ stage \o gts \in Seq(Int) /\ Distinct(stage \o gts)
      /\ Elements(stage \o gts) = Elements(stage) \cup Elements(gts)
  BY JoinFact DEF TypeOK, Apart
<1>2. PICK c : c = stage \o gts
  OBVIOUS
<1>3. /\ Distinct(c \o todo)
      /\ Elements(c \o todo) = Elements(c) \cup Elements(todo)
  BY <1>1, <1>2, JoinFact DEF TypeOK, Apart
<1>4. c \o todo = stage \o gts \o todo
  BY <1>2
<1> QED
  BY <1>1, <1>2, <1>3, <1>4 DEF NothingTwice, Apart, Fresh

LEMMA InitApart == Init => Apart /\ Fresh
<1> SUFFICES ASSUME Init PROVE Apart /\ Fresh
  OBVIOUS
<1>1. /\ todo = <<>> /\ gts = <<>> /\ stage = <<>> /\ jobs = {} /\ samples = {}
  BY DEF Init
<1> QED
  BY <1>1, NoElements DEF Apart, Fresh

LEMMA SendApart ==
  ASSUME TypeOK, Apart, Fresh, SendHistory, Configured
  PROVE  Apart' /\ Fresh'
<1>1. /\ todo # <<>> /\ gts' = Append(gts, Head(todo)) /\ todo' = Tail(todo)
      /\ UNCHANGED <<stage, jobs, samples, ltsRetryCount>>
  BY DEF SendHistory, Configured, dbVars
<1>2. /\ Head(todo) \in Int /\ Elements(todo) = Elements(todo') \cup {Head(todo)}
      /\ Distinct(todo') /\ Head(todo) \notin Elements(todo')
  BY <1>1, DequeueFact DEF TypeOK, Apart
<1>3. /\ Head(todo) \notin Elements(gts)
  BY <1>2 DEF Apart
<1>4. Distinct(gts') /\ Elements(gts') = Elements(gts) \cup {Head(todo)}
  BY <1>1, <1>2, <1>3, EnqueueFact DEF TypeOK, Apart
<1>5. Apart'
  BY <1>1, <1>2, <1>3, <1>4 DEF Apart
<1>6. InFlight' = InFlight
  BY <1>1, <1>2, <1>4 DEF InFlight
<1> QED
  BY <1>1, <1>5, <1>6 DEF Fresh

LEMMA TakeApart ==
  ASSUME TypeOK, Apart, Fresh, Take, Configured
  PROVE  Apart' /\ Fresh'
<1>1. /\ gts # <<>> /\ stage' = Append(stage, Head(gts)) /\ gts' = Tail(gts)
      /\ UNCHANGED <<todo, jobs, samples, ltsRetryCount>>
  BY DEF Take, Configured, bootVars, dbVars
<1>2. /\ Head(gts) \in Int /\ Elements(gts) = Elements(gts') \cup {Head(gts)}
      /\ Distinct(gts') /\ Head(gts) \notin Elements(gts')
  BY <1>1, DequeueFact DEF TypeOK, Apart
<1>3. /\ Head(gts) \notin Elements(stage)
  BY <1>2 DEF Apart
<1>4. Distinct(stage') /\ Elements(stage') = Elements(stage) \cup {Head(gts)}
  BY <1>1, <1>2, <1>3, EnqueueFact DEF TypeOK, Apart
<1>5. Apart'
  BY <1>1, <1>2, <1>3, <1>4 DEF Apart
<1>6. InFlight' = InFlight
  BY <1>1, <1>2, <1>4 DEF InFlight
<1> QED
  BY <1>1, <1>5, <1>6 DEF Fresh

LEMMA LeaveApart ==
  ASSUME TypeOK, Apart, Fresh, Deliver \/ GiveUp, Configured
  PROVE  Apart' /\ Fresh'
<1>1. /\ stage # <<>> /\ stage' = Tail(stage)
      /\ UNCHANGED <<todo, gts, jobs, ltsRetryCount>>
      /\ samples' \subseteq samples \cup {Head(stage)}
  BY DEF Deliver, GiveUp, Configured, bootVars, dbVars
<1>2. /\ Elements(stage) = Elements(stage') \cup {Head(stage)}
      /\ Distinct(stage') /\ Head(stage) \notin Elements(stage')
  BY <1>1, DequeueFact DEF TypeOK, Apart
<1>3. Apart'
  BY <1>1, <1>2 DEF Apart
<1>4. InFlight = InFlight' \cup {Head(stage)} /\ Head(stage) \notin InFlight'
  BY <1>1, <1>2 DEF InFlight, Apart
<1> QED
  BY <1>1, <1>3, <1>4 DEF Fresh

LEMMA PutApart ==
  ASSUME TypeOK, Apart, Fresh, NEW w \in jobs, Put(w), Configured
  PROVE  Apart' /\ Fresh'
<1>1. /\ w \in Int /\ jobs' = jobs \ {w}
      /\ UNCHANGED <<todo, stage, samples, ltsRetryCount>>
  BY DEF Put, Configured, bootVars, dbVars, TypeOK
<1>2. w \notin Elements(gts) /\ w \notin Elements(stage) /\ w \notin Elements(todo)
  BY DEF Apart
<1>3. CASE gts' = gts
  BY <1>1, <1>3 DEF Apart, Fresh, InFlight
<1>4. CASE gts' = Append(gts, w)
  <2>1. Distinct(gts') /\ Elements(gts') = Elements(gts) \cup {w}
    BY <1>1, <1>2, <1>4, EnqueueFact DEF TypeOK, Apart
  <2>2. Apart'
    BY <1>1, <1>2, <2>1 DEF Apart
  <2>3. InFlight' = InFlight
    BY <1>1, <2>1 DEF InFlight
  <2> QED
    BY <1>1, <2>2, <2>3 DEF Fresh
<1> QED
  BY <1>3, <1>4 DEF Put

(* The history begins where the samples end.                               *)
LEMMA ComputeApart ==
  ASSUME Timerange # 0, Core, Apart, Fresh, ComputeHistory, Configured
  PROVE  Apart' /\ Fresh'
<1>1. Computed
  BY ComputedFact
<1>2. /\ todo' = History(next') /\ Distinct(todo')
      /\ InFlight = {} /\ InFlight' = Elements(todo')
      /\ UNCHANGED <<jobs, gts, stage, samples, ltsRetryCount>>
  BY <1>1 DEF Computed, HistoryOk
<1>3. jobs = {} /\ Elements(gts) = {} /\ Elements(stage) = {}
  BY <1>2 DEF InFlight
<1>4. Apart'
  BY <1>2, <1>3 DEF Apart
<1>5. ASSUME ltsRetryCount > 0, NEW w \in InFlight', w \in samples
      PROVE  FALSE
  <2>1. w \in Int /\ last <= w
    BY <1>1, <1>2, <1>5 DEF Computed, HistoryOk
  <2>2. End(w) <= last /\ last \in Int
    BY <1>5 DEF Core, TypeOK, Loaded, ComputeHistory
  <2>3. Timerange \in Nat /\ w < End(w)
    BY <2>1, RangeAssumption DEF End
  <2> QED
    BY <2>1, <2>2, <2>3 DEF End
<1>6. Fresh'
  BY <1>2, <1>5 DEF Fresh
<1> QED
  BY <1>4, <1>6

LEMMA TickApart ==
  ASSUME Core, Apart, Fresh, Tick, Configured
  PROVE  Apart' /\ Fresh'
<1> DEFINE w0 == Start(now')
<1>1. /\ w0 = Start(now) + 1 /\ Start(now) \in Int
      /\ UNCHANGED <<ltsRetryCount, todo, gts, stage, samples>>
      /\ jobs' \subseteq jobs \cup {w0}
      /\ InFlight' = InFlight \cup (jobs' \ jobs)
  BY TickFact
<1> HIDE DEF w0
<1>2. w0 \notin InFlight \cup samples
  <2>1. \A w \in InFlight \cup samples : w \in Int /\ w <= Start(now)
    BY DEF Core, Due
  <2>2. w0 \in Int /\ ~(w0 <= Start(now))
    BY <1>1
  <2> QED
    BY <2>1, <2>2
<1>3. w0 \notin Elements(stage) \cup Elements(gts) \cup Elements(todo)
  BY <1>2 DEF InFlight
<1>4. Apart'
  BY <1>1, <1>3 DEF Apart
<1>5. Fresh'
  BY <1>1, <1>2 DEF Fresh
<1> QED
  BY <1>4, <1>5

LEMMA StepApart ==
  ASSUME Timerange # 0, Core, Apart, Fresh, [Next]_vars
  PROVE  Apart' /\ Fresh'
<1>0. TypeOK
  BY DEF Core
<1>1. ASSUME Unmoved
      PROVE  Apart' /\ Fresh'
  <2>1. InFlight' = InFlight /\ UNCHANGED <<todo, gts, stage, jobs, samples, ltsRetryCount>>
    BY <1>1, UnmovedFact DEF Unmoved
  <2> QED
    BY <2>1 DEF Apart, Fresh
<1>2. CASE Scheduling
  <2>1. CASE SendHistory
    BY <1>0, <1>2, <2>1, SendApart DEF Scheduling
  <2>2. CASE ComputeHistory
    BY <1>2, <2>2, ComputeApart DEF Scheduling
  <2>3. CASE LoadOk \/ LoadNothing \/ LoadError \/ LoadNoAttempt \/ Register
    <3>1. Unmoved
      BY <1>2, <2>3 DEF Scheduling, LoadOk, LoadNothing, LoadError, LoadNoAttempt, Register,
         KeepAtBoot, Configured, Unmoved, flowVars, dbVars
    <3> QED
      BY <1>1, <3>1
  <2> QED
    BY <1>2, <2>1, <2>2, <2>3 DEF Scheduling
<1>3. CASE CronStarts
  <2>1. Unmoved
    BY <1>3 DEF CronStarts, StartCron, Configured, Unmoved, flowVars, dbVars
  <2> QED
    BY <1>1, <2>1
<1>4. CASE Flow
  BY <1>0, <1>4, TakeApart, LeaveApart, PutApart DEF Flow
<1>5. CASE Environment
  <2>1. CASE StartProcess /\ Configured
    <3>1. Unmoved
      BY <2>1 DEF StartProcess, Configured, Unmoved, flowVars, dbVars
    <3> QED
      BY <1>1, <3>1
  <2>2. CASE Tick /\ Configured
    BY <2>2, TickApart
  <2>3. CASE Stop /\ Configured
    <3>1. /\ InFlight' = {} /\ todo' = <<>> /\ gts' = <<>> /\ stage' = <<>> /\ jobs' = {}
      BY <2>3, StopFact
    <3> QED
      BY <3>1, NoElements DEF Apart, Fresh
  <2> QED
    BY <1>5, <2>1, <2>2, <2>3 DEF Environment
<1>6. CASE UNCHANGED vars
  <2>1. Unmoved
    BY <1>6 DEF vars, bootVars, flowVars, dbVars, Unmoved
  <2> QED
    BY <1>1, <2>1
<1> QED
  BY <1>2, <1>3, <1>4, <1>5, <1>6 DEF Next

(* No window is scheduled before it came due, whether by the cron or by a  *)
(* history, and all of them are windows of the cron's ticks.               *)
THEOREM OnlyDueWindows == Spec => []Due
<1>1. Core => Due
  BY DEF Core
<1> QED
  BY <1>1, InitCore, StepCore, PTL DEF Spec

(* Whatever the interval, the look-back, the capacities and the number of  *)
(* crashes: a window that the monitoring system has a sample of is not     *)
(* evaluated again after a restart, and none is in flight twice.  A window *)
(* has a length: the history begins at the end of the newest sample, which *)
(* for an empty window is its own start.                                   *)
THEOREM EvaluatedOnce == Timerange # 0 => (Spec => []NothingTwice)
<1> SUFFICES ASSUME Timerange # 0 PROVE Spec => []NothingTwice
  OBVIOUS
<1>1. Init => Core /\ Apart /\ Fresh
  BY InitCore, InitApart
<1>2. Core /\ Apart /\ Fresh /\ [Next]_vars => (Core /\ Apart /\ Fresh)'
  BY StepCore, StepApart
<1>3. Core /\ Apart /\ Fresh => NothingTwice
  BY ApartNothingTwice DEF Core
<1> QED
  BY <1>1, <1>2, <1>3, PTL DEF Spec

-----------------------------------------------------------------------------
(* Every window is accounted for.                                          *)

Known == stored \cup InFlight \cup Gone

(* Between the computation of the history and the first tick that the cron *)
(* can see.                                                                *)
Upcoming ==
  boot \in {"send", "done"} /\ ~Ready =>
    /\ next % Interval = 0
    /\ \A w \in InFlight \cup samples : w < Start(next)
    /\ since # NoTick => Windows(Start(since), Start(next)) \subseteq Known

Running ==
  Ready => since # NoTick /\ Windows(Start(since), Start(now + 1)) \subseteq Known

(* What lies before the newest sample is accounted for without a look at   *)
(* what is in flight: a restart begins there.                              *)
Behind ==
  Booting /\ since # NoTick =>
    \A w \in Int : Grid(w) /\ Start(since) <= w /\ (\E v \in samples : w < End(v))
                     => w \in stored \cup Gone

Accounted == Upcoming /\ Running /\ Behind

LEMMA WindowsFact ==
  ASSUME NEW a \in Int, NEW b \in Int
  PROVE  \A w : w \in Windows(a, b) <=> w \in Int /\ Grid(w) /\ a <= w /\ w < b
BY DEF Windows, Grid

LEMMA InitAccounted == Init => Accounted
BY DEF Init, Accounted, Upcoming, Running, Behind, Ready

LEMMA PassedAccounted ==
  ASSUME Core, Accounted, Passed
  PROVE  Accounted'
<1>1. Known \subseteq Known'
  BY DEF Known, Gone, Passed
<1>2. Ready' = Ready /\ Booting' = Booting
  BY DEF Ready, Booting, Passed
<1>3. Upcoming'
  <2>1. InFlight' \cup samples' \subseteq InFlight \cup samples
    BY DEF Passed
  <2>2. Windows(Start(since), Start(next))' = Windows(Start(since), Start(next))
        /\ Start(next') = Start(next)
    BY DEF Passed, Windows, Start
  <2>3. UNCHANGED <<boot, next, since>>
    BY DEF Passed
  <2> QED
    BY <1>1, <1>2, <2>1, <2>2, <2>3 DEF Accounted, Upcoming
<1>4. Running'
  <2>1. Windows(Start(since), Start(now + 1))' = Windows(Start(since), Start(now + 1))
        /\ since' = since
    BY DEF Passed, Windows, Start
  <2> QED
    BY <1>1, <1>2, <2>1 DEF Accounted, Running
<1>5. Behind'
  <2>1. Booting => samples' = samples
    BY DEF Core, Idle, Passed
  <2>2. stored \cup Gone \subseteq stored' \cup Gone' /\ since' = since
    BY DEF Gone, Passed
  <2> QED
    BY <1>2, <2>1, <2>2 DEF Accounted, Behind, Start, End, Grid
<1> QED
  BY <1>3, <1>4, <1>5 DEF Accounted

(* The job is registered, or the cron starts.                              *)
LEMMA ReadyAccounted ==
  ASSUME Core, Accounted, Configured, Register \/ StartCron
  PROVE  Accounted'
<1>1. /\ BecomeReady
      /\ (boot = "send" /\ boot' = "done" /\ cronOn' = cronOn)
         \/ (boot # "down" /\ boot' = boot /\ ~cronOn /\ cronOn' = TRUE)
      /\ UNCHANGED <<now, next, cut, unloaded, overtaken, refused>> /\ Unmoved
      /\ stored' = stored /\ samples' = samples
  BY DEF Register, StartCron, Configured, Unmoved, flowVars, dbVars
<1>2. InFlight' = InFlight /\ stored' = stored /\ samples' = samples
  BY <1>1, UnmovedFact
<1>3. now \in Int /\ next \in Int /\ since \in Int /\ NoTick \notin Nat /\ now \in Nat
  BY DEF Core, TypeOK, NoTick
<1>4. /\ ~Ready /\ Booting' = Booting
      /\ Ready' => boot \in {"send", "done"}
      /\ boot' \in {"send", "done"} => boot \in {"send", "done"}
  BY <1>1 DEF Ready, Booting
<1>5. CASE Ready'
  <2>1. /\ raced' = raced \cup Windows(Start(next), Start(now + 1))
        /\ since' = IF since = NoTick THEN now + 1 ELSE since
    BY <1>1, <1>5 DEF BecomeReady, Ready
  <2>2. Known \cup Windows(Start(next), Start(now + 1)) = Known'
    BY <1>1, <1>2, <2>1 DEF Known, Gone
  <2>3. since' # NoTick /\ since' \in Int /\ Start(since') \in Int /\ Start(now + 1) \in Int
    BY <1>3, <2>1, StartFact
  <2>4. Start(next) \in Int
    BY <1>3, StartFact
  <2>5. ASSUME NEW w \in Windows(Start(since'), Start(now + 1))
        PROVE  w \in Known'
    <3>1. w \in Int /\ Grid(w) /\ Start(since') <= w /\ w < Start(now + 1)
      BY <2>3, <2>5, WindowsFact
    <3>2. CASE since = NoTick
      BY <2>1, <2>3, <3>1, <3>2
    <3>3. CASE since # NoTick /\ w < Start(next)
      <4>1. w \in Windows(Start(since), Start(next))
        BY <1>3, <2>1, <2>4, <3>1, <3>3, WindowsFact, StartFact
      <4> QED
        BY <1>4, <1>5, <2>2, <3>3, <4>1 DEF Accounted, Upcoming
    <3>4. CASE ~(w < Start(next))
      <4>1. w \in Windows(Start(next), Start(now + 1))
        BY <2>3, <2>4, <3>1, <3>4, WindowsFact
      <4> QED
        BY <2>2, <4>1
    <3> QED
      BY <3>2, <3>3, <3>4
  <2>6. Windows(Start(since), Start(now + 1))' = Windows(Start(since'), Start(now + 1))
    BY <1>1 DEF Windows, Start
  <2>7. Running'
    BY <2>3, <2>5, <2>6 DEF Running
  <2>8. Upcoming' /\ ~Booting'
    BY <1>4, <1>5 DEF Upcoming, Booting
  <2> QED
    BY <2>7, <2>8 DEF Accounted, Behind
<1>6. CASE ~Ready'
  <2>1. raced' = raced /\ since' = since
    BY <1>1, <1>6 DEF BecomeReady, Ready
  <2>2. Known' = Known /\ Gone' = Gone
    BY <1>1, <1>2, <2>1 DEF Known, Gone
  <2>3. Windows(Start(since), Start(next))' = Windows(Start(since), Start(next))
        /\ Start(next') = Start(next) /\ next' = next
    BY <1>1, <2>1 DEF Windows, Start
  <2>4. Upcoming'
    BY <1>2, <1>4, <2>1, <2>2, <2>3 DEF Accounted, Upcoming
  <2>5. Behind'
    BY <1>2, <1>4, <2>1, <2>2 DEF Accounted, Behind, Start, End, Grid
  <2> QED
    BY <1>6, <2>4, <2>5 DEF Accounted, Running
<1> QED
  BY <1>5, <1>6

(* Without a last timestamp everything up to the next tick that was not    *)
(* stored is given up.                                                     *)
LEMMA SkipAccounted ==
  ASSUME Core, Accounted, Configured, LoadNothing \/ LoadError, SkipHistory
  PROVE  Accounted'
<1>1. /\ boot' = "send" /\ next' = NearestUpcomingCronTime(now)
      /\ unloaded' = IF since = NoTick THEN unloaded
                     ELSE unloaded \cup (Windows(Start(since), Start(next')) \ stored)
  BY DEF SkipHistory
<1>2. boot = "load" /\ Unmoved /\ UNCHANGED <<now, cronOn, since>>
  BY DEF LoadNothing, LoadError, KeepAtBoot, Configured, Unmoved, flowVars, dbVars
<1>3. InFlight = {} /\ InFlight' = {} /\ stored' = stored /\ samples' = samples
  BY <1>2, UnmovedFact DEF Core, Idle, Booting, Unmoved
<1>4. /\ next' \in Int /\ next' % Interval = 0
      /\ Start(next') \in Int /\ Start(now) < Start(next')
  BY <1>1, NextTickFact DEF Core
<1>5. \A w \in samples : w < Start(next')
  <2> SUFFICES ASSUME NEW w \in samples PROVE w < Start(next')
    OBVIOUS
  <2>1. w \in Int /\ w <= Start(now) /\ Start(now) \in Int
    BY StartFact DEF Core, TypeOK, Due
  <2> QED
    BY <1>4, <2>1
<1>6. since # NoTick => Windows(Start(since), Start(next')) \subseteq stored' \cup unloaded'
  BY <1>1, <1>3
<1>7. Windows(Start(since), Start(next))' = Windows(Start(since), Start(next'))
  BY <1>2 DEF Windows, Start
<1>8. Upcoming'
  BY <1>2, <1>3, <1>4, <1>5, <1>6, <1>7 DEF Upcoming, Known, Gone
<1>9. ~Ready' /\ ~Booting'
  BY <1>1 DEF Ready, Booting
<1> QED
  BY <1>8, <1>9 DEF Accounted, Running, Behind

(* What lies before the last timestamp was accounted for, and what lies    *)
(* behind it is in the history or was cut from it.                         *)
LEMMA ComputeAccounted ==
  ASSUME Core, Accounted, ComputeHistory, Configured
  PROVE  Accounted'
<1>1. Computed
  BY ComputedFact
<1>2. /\ next' \in Int /\ next' % Interval = 0 /\ Start(next') \in Int /\ Start(now) < Start(next')
      /\ HistoryOk(next')
      /\ cut' = cut \cup (Windows(last, Oldest(next')) \ stored)
      /\ InFlight' = Elements(History(next'))
      /\ UNCHANGED <<ltsRetryCount, now, since, stored, samples, unloaded, raced, overtaken, refused>>
      /\ boot' = "send"
  BY <1>1 DEF Computed
<1>3. boot = "nearest" /\ last \in Int /\ since \in Int /\ Interval \in Nat \ {0}
  BY RangeAssumption DEF ComputeHistory, Core, TypeOK
<1>4. \A w \in InFlight' \cup samples' : w < Start(next')
  <2>1. ASSUME NEW w \in InFlight'
        PROVE  w < Start(next')
    <3>1. w \in Int /\ w + Interval <= Start(next')
      BY <1>2, <2>1 DEF HistoryOk
    <3> QED
      BY <1>2, <1>3, <3>1
  <2>2. ASSUME NEW w \in samples
        PROVE  w < Start(next')
    <3>1. w \in Int /\ w <= Start(now) /\ Start(now) \in Int
      BY StartFact DEF Core, TypeOK, Due
    <3> QED
      BY <1>2, <3>1
  <2> QED
    BY <1>2, <2>1, <2>2
<1>5. ASSUME since # NoTick, NEW w \in Windows(Start(since), Start(next'))
      PROVE  w \in Known'
  <2>1. w \in Int /\ Grid(w) /\ Start(since) <= w /\ w < Start(next')
    BY <1>2, <1>3, <1>5, WindowsFact, StartFact
  <2>2. CASE w < last
    <3>1. ltsRetryCount # 0
      <4>1. /\ Lag \in Nat /\ Timerange \in Nat /\ Lag + Timerange < since
        BY <1>5, RangeAssumption DEF Core, Scheduled
      <4>2. 0 < Start(since) /\ Start(since) \in Int
        BY <1>3, <4>1 DEF Start
      <4>3. last # 0
        BY <2>1, <2>2, <4>2
      <4> QED
        BY <1>3, <4>3 DEF Core, Loaded
    <3>2. \E v \in samples : w < End(v)
      BY <1>3, <2>2, <3>1 DEF Core, Loaded
    <3>3. w \in stored \cup Gone
      BY <1>3, <1>5, <2>1, <3>2 DEF Accounted, Behind, Booting
    <3> QED
      BY <1>2, <3>3 DEF Known, Gone
  <2>3. CASE ~(w < last) /\ w < Oldest(next')
    <3>1. w \in Windows(last, Oldest(next'))
      BY <1>2, <1>3, <2>1, <2>3, WindowsFact DEF HistoryOk
    <3> QED
      BY <1>2, <3>1 DEF Known, Gone
  <2>4. CASE ~(w < Oldest(next'))
    <3>1. w \in InFlight'
      BY <1>2, <2>1, <2>4 DEF HistoryOk
    <3> QED
      BY <3>1 DEF Known
  <2> QED
    BY <2>2, <2>3, <2>4
<1>6. Windows(Start(since), Start(next))' = Windows(Start(since), Start(next'))
  BY <1>2 DEF Windows, Start
<1>7. Upcoming'
  <2>1. Start(next)' = Start(next')
    BY DEF Start
  <2>2. since' # NoTick => Windows(Start(since), Start(next))' \subseteq Known'
    BY <1>2, <1>5, <1>6
  <2> QED
    BY <1>2, <1>4, <2>1, <2>2 DEF Upcoming
<1>8. ~Ready' /\ ~Booting'
  BY <1>2 DEF Ready, Booting
<1> QED
  BY <1>7, <1>8 DEF Accounted, Running, Behind

LEMMA TickAccounted ==
  ASSUME Core, Accounted, Tick, Configured
  PROVE  Accounted'
<1> DEFINE w0 == Start(now')
<1>1. /\ now' = now + 1 /\ w0 = Start(now) + 1 /\ Start(now) \in Int
      /\ UNCHANGED <<boot, cronOn, next, since, stored, samples, cut, unloaded, raced, overtaken,
                     refused>>
      /\ jobs' = IF Ready /\ Grid(w0) THEN jobs \cup {w0} ELSE jobs
      /\ InFlight' = InFlight \cup (jobs' \ jobs)
  BY TickFact
<1>2. /\ now \in Int /\ now' \in Int /\ since \in Int
      /\ Start(now + 1) = w0 /\ Start(now' + 1) = w0 + 1 /\ w0 \in Int /\ Start(since) \in Int
  <2>1. now \in Int /\ since \in Int /\ now' \in Int /\ Lag \in Nat /\ Timerange \in Nat
    BY <1>1, RangeAssumption DEF Core, TypeOK
  <2>2. w0 = now + 1 - Lag - Timerange
    BY <1>1, <2>1 DEF Start
  <2>3. Start(now + 1) = w0 /\ Start(now' + 1) = w0 + 1
    BY <1>1, <2>1, <2>2 DEF Start
  <2> QED
    BY <1>1, <2>1, <2>2, <2>3, StartFact
<1> HIDE DEF w0
<1>3. Known \subseteq Known' /\ stored' \cup Gone' = stored \cup Gone /\ jobs \subseteq InFlight
  BY <1>1 DEF Known, Gone, InFlight
<1>4. Ready' = Ready /\ Booting' = Booting
  BY <1>1 DEF Ready, Booting
<1>5. Upcoming'
  <2>1. ~Ready => InFlight' = InFlight
    BY <1>1
  <2>2. Windows(Start(since), Start(next))' = Windows(Start(since), Start(next))
        /\ Start(next') = Start(next)
    BY <1>1 DEF Windows, Start
  <2> QED
    BY <1>1, <1>3, <1>4, <2>1, <2>2 DEF Accounted, Upcoming
<1>6. Running'
  <2>1. SUFFICES ASSUME Ready, NEW w \in Windows(Start(since), w0 + 1)
                 PROVE  w \in Known'
    <3>1. Windows(Start(since), Start(now + 1))' = Windows(Start(since), w0 + 1)
      BY <1>1, <1>2 DEF Windows, Start
    <3> QED
      BY <1>1, <1>4, <2>1, <3>1 DEF Accounted, Running
  <2>2. w \in Int /\ Grid(w) /\ Start(since) <= w /\ w < w0 + 1
    BY <1>2, <2>1, WindowsFact
  <2>3. CASE w = w0
    <3>1. w0 \in jobs'
      BY <1>1, <2>1, <2>2, <2>3
    <3>2. w0 \in InFlight'
      BY <3>1 DEF InFlight
    <3> QED
      BY <2>3, <3>2 DEF Known
  <2>4. CASE w # w0
    <3>1. w < w0
      BY <1>2, <2>2, <2>4
    <3>2. w \in Windows(Start(since), Start(now + 1))
      BY <1>2, <2>2, <3>1, WindowsFact
    <3> QED
      BY <1>3, <2>1, <3>2 DEF Accounted, Running
  <2> QED
    BY <2>3, <2>4
<1>7. Behind'
  BY <1>1, <1>3, <1>4 DEF Accounted, Behind, Start, End, Grid
<1> QED
  BY <1>5, <1>6, <1>7 DEF Accounted

(* A window in flight that lies before the newest sample was overtaken; a  *)
(* window before a sample's end is not behind the sample, because windows  *)
(* do not overlap.                                                         *)
LEMMA StopAccounted ==
  ASSUME Timerange <= Interval, Core, Accounted, Stop, Configured
  PROVE  Accounted'
<1>1. /\ boot' = "down" /\ cronOn' = FALSE
      /\ overtaken' = overtaken \cup {w \in InFlight : samples # {} /\ w < LastTimestamp}
      /\ UNCHANGED <<now, since, stored, samples, cut, unloaded, raced, refused>>
  BY StopFact
<1>2. ASSUME since # NoTick, NEW w \in Int, Grid(w), Start(since) <= w,
             NEW v \in samples, w < End(v)
      PROVE  w \in stored' \cup Gone'
  <2>1. /\ v \in Int /\ v <= Start(now) /\ Grid(v) /\ Start(now) \in Int
        /\ now \in Int /\ since \in Int /\ next \in Int
    BY StartFact DEF Core, TypeOK, Due
  <2>2. Interval \in Nat \ {0} /\ Timerange \in Nat /\ End(v) = v + Timerange
    BY RangeAssumption DEF End
  <2>3. w <= v
    <3>1. v < w => v + Interval <= w
      BY <1>2, <2>1, GridStep
    <3> QED
      BY <1>2, <2>1, <2>2, <3>1
  <2>4. stored \cup Gone \subseteq stored' \cup Gone'
    BY <1>1 DEF Gone
  <2>5. CASE Booting
    BY <1>2, <2>4, <2>5 DEF Accounted, Behind
  <2>6. CASE ~Booting
    <3>1. w \in Known
      <4>1. CASE Ready
        <5>1. Start(now + 1) = Start(now) + 1 /\ Start(since) \in Int
          BY <2>1, StartFact DEF Start
        <5>2. w < Start(now + 1) /\ Start(now + 1) \in Int
          BY <2>1, <2>3, <5>1
        <5>3. w \in Windows(Start(since), Start(now + 1))
          BY <1>2, <5>1, <5>2, WindowsFact
        <5> QED
          BY <4>1, <5>3 DEF Accounted, Running
      <4>2. CASE ~Ready
        <5>1. boot \in {"send", "done"}
          BY <2>6 DEF Booting, Core, TypeOK
        <5>2. v < Start(next) /\ Start(next) \in Int /\ Start(since) \in Int
          BY <2>1, <4>2, <5>1, StartFact DEF Accounted, Upcoming
        <5>3. w \in Windows(Start(since), Start(next))
          BY <1>2, <2>1, <2>3, <5>2, WindowsFact
        <5> QED
          BY <1>2, <4>2, <5>1, <5>3 DEF Accounted, Upcoming
      <4> QED
        BY <4>1, <4>2
    <3>2. ASSUME w \in InFlight
          PROVE  w \in overtaken'
      <4>1. LastTimestamp \in Int /\ End(v) <= LastTimestamp
        BY NewestFact
      <4>2. w < LastTimestamp
        BY <1>2, <2>1, <2>2, <4>1
      <4> QED
        BY <1>1, <3>2, <4>2
    <3> QED
      BY <2>4, <3>1, <3>2 DEF Known, Gone
  <2> QED
    BY <2>5, <2>6
<1>3. Behind'
  BY <1>1, <1>2 DEF Behind, Start, End, Grid
<1>4. ~Ready' /\ boot' \notin {"send", "done"}
  BY <1>1 DEF Ready
<1> QED
  BY <1>3, <1>4 DEF Accounted, Running, Upcoming

(* Nothing that the accounts are about changes.                            *)
LEMMA StillAccounted ==
  ASSUME Accounted, Unmoved, Booting' = Booting, Ready' = Ready,
         boot' \in {"send", "done"} => boot \in {"send", "done"},
         UNCHANGED <<now, since, next, cut, unloaded, raced, overtaken, refused>>
  PROVE  Accounted'
<1>1. InFlight' = InFlight /\ stored' = stored /\ samples' = samples
  BY UnmovedFact DEF Unmoved
<1>2. Known' = Known /\ stored' \cup Gone' = stored \cup Gone
  BY <1>1 DEF Known, Gone
<1>3. Windows(Start(since), Start(next))' = Windows(Start(since), Start(next))
      /\ Windows(Start(since), Start(now + 1))' = Windows(Start(since), Start(now + 1))
      /\ Start(next') = Start(next)
  BY DEF Windows, Start
<1>4. Upcoming' /\ Running'
  BY <1>1, <1>2, <1>3 DEF Accounted, Upcoming, Running
<1>5. Behind'
  BY <1>1, <1>2 DEF Accounted, Behind, Start, End, Grid
<1> QED
  BY <1>4, <1>5 DEF Accounted

LEMMA StepAccounted ==
  ASSUME Timerange <= Interval, Core, Accounted, [Next]_vars
  PROVE  Accounted'
<1>0. TypeOK
  BY DEF Core
<1>1. CASE Scheduling
  <2>1. CASE SendHistory
    BY <1>0, <1>1, <2>1, SendPassed, PassedAccounted DEF Scheduling
  <2>2. CASE ComputeHistory
    BY <1>1, <2>2, ComputeAccounted DEF Scheduling
  <2>3. CASE Register
    BY <1>1, <2>3, ReadyAccounted DEF Scheduling
  <2>4. CASE LoadNothing \/ LoadError
    <3>1. CASE SkipHistory
      BY <1>1, <2>4, <3>1, SkipAccounted DEF Scheduling
    <3>2. CASE ~SkipHistory
      <4>1. /\ boot = "load" /\ boot' = boot /\ Unmoved
            /\ UNCHANGED <<now, since, next, cut, unloaded, raced, overtaken, refused>>
        BY <1>1, <2>4, <3>2 DEF Scheduling, LoadNothing, LoadError, KeepAtBoot, Configured,
           Unmoved, flowVars, dbVars
      <4> QED
        BY <4>1, StillAccounted DEF Booting, Ready
    <3> QED
      BY <3>1, <3>2
  <2>5. CASE LoadOk \/ LoadNoAttempt
    <3>1. /\ boot = "load" /\ boot' = "nearest" /\ Unmoved
          /\ UNCHANGED <<now, since, next, cut, unloaded, raced, overtaken, refused>>
      BY <1>1, <2>5 DEF Scheduling, LoadOk, LoadNoAttempt, KeepAtBoot, Configured,
         Unmoved, flowVars, dbVars, goneVars
    <3> QED
      BY <3>1, StillAccounted DEF Booting, Ready
  <2> QED
    BY <1>1, <2>1, <2>2, <2>3, <2>4, <2>5 DEF Scheduling
<1>2. CASE CronStarts
  BY <1>2, ReadyAccounted DEF CronStarts
<1>3. CASE Flow
  BY <1>0, <1>3, TakePassed, LeavePassed, PutPassed, PassedAccounted DEF Flow
<1>4. CASE Environment
  <2>1. CASE StartProcess /\ Configured
    <3>1. /\ boot = "down" /\ boot' = "load" /\ Unmoved
          /\ UNCHANGED <<now, since, next, cut, unloaded, raced, overtaken, refused>>
      BY <2>1 DEF StartProcess, Configured, Unmoved, flowVars, dbVars, goneVars
    <3> QED
      BY <3>1, StillAccounted DEF Booting, Ready
  <2>2. CASE (Tick \/ Stop) /\ Configured
    BY <2>2, TickAccounted, StopAccounted
  <2> QED
    BY <1>4, <2>1, <2>2 DEF Environment
<1>5. CASE UNCHANGED vars
  <2>1. /\ boot' = boot /\ cronOn' = cronOn /\ Unmoved
        /\ UNCHANGED <<now, since, next, cut, unloaded, raced, overtaken, refused>>
    BY <1>5 DEF vars, bootVars, flowVars, dbVars, goneVars, Unmoved
  <2> QED
    BY <2>1, StillAccounted DEF Booting, Ready
<1> QED
  BY <1>1, <1>2, <1>3, <1>4, <1>5 DEF Next

(* Whatever the look-back, the capacities, the retry count, the number of  *)
(* crashes and the steps they fall between: while the exporter runs, every *)
(* window that came due since it was first started was stored, is in       *)
(* flight, or is missing for a reason that has a name (gtsqueue.go), as    *)
(* long as the windows of a query do not overlap: one that begins before   *)
(* the end of the newest sample is not in a history.                       *)
THEOREM EveryWindowHasAFate == Timerange <= Interval => (Spec => []EveryWindowAccounted)
<1> SUFFICES ASSUME Timerange <= Interval PROVE Spec => []EveryWindowAccounted
  OBVIOUS
<1>1. Init => Core /\ Accounted
  BY InitCore, InitAccounted
<1>2. Core /\ Accounted /\ [Next]_vars => (Core /\ Accounted)'
  BY StepCore, StepAccounted
<1>3. Accounted => EveryWindowAccounted
  BY DEF Accounted, Running, Known, EveryWindowAccounted
<1> QED
  BY <1>1, <1>2, <1>3, PTL DEF Spec

-----------------------------------------------------------------------------
(* Nothing is cut from a history that the look-back and the queue allow.   *)

Ample == MaxLookup >= MaxTime + Interval /\ QueueSize * Interval >= MaxTime + Interval

(* The clock stops at MaxTime, or never starts.                            *)
Bounded == Start(now) <= MaxTime

LEMMA StepBounded ==
  ASSUME Core, Bounded, [Next]_vars
  PROVE  Bounded'
<1>1. CASE Tick /\ Configured
  <2>1. now' = now + 1 /\ now < MaxTime /\ now \in Int /\ MaxTime \in Nat
        /\ Lag \in Nat /\ Timerange \in Nat
    BY <1>1, TickFact, RangeAssumption, LimitsAssumption DEF Core, TypeOK
  <2> QED
    BY <2>1 DEF Bounded, Start
<1>2. CASE ~(Tick /\ Configured)
  <2>1. now' = now
    BY <1>2 DEF Next, vars, CronStarts, StartCron, Scheduling, LoadOk, LoadNothing, LoadError,
       LoadNoAttempt, ComputeHistory, SendHistory, Register, Flow, Take, Deliver, GiveUp, Put,
       Environment, StartProcess, Stop, KeepAtBoot
  <2> QED
    BY <2>1 DEF Bounded, Start
<1> QED
  BY <1>1, <1>2

(* The history then begins less than an interval after the last timestamp. *)
LEMMA AmpleHistory ==
  ASSUME Ample, Core, Bounded, Computed, boot = "nearest"
  PROVE  Windows(last, Oldest(next')) = {}
<1> DEFINE u == next'
           s == Start(u)
           d == s - last
           n == HistorySize(u)
<1>1. /\ Interval \in Nat \ {0} /\ MaxLookup \in Nat /\ QueueSize \in Nat /\ MaxTime \in Nat
      /\ u \in Int /\ u % Interval = 0 /\ s \in Int /\ last \in Int /\ 0 <= last
      /\ Start(now) \in Int /\ s <= Start(now) + Interval /\ HistoryOk(u)
  <2>1. /\ Interval \in Nat \ {0} /\ MaxLookup \in Nat /\ QueueSize \in Nat /\ MaxTime \in Nat
    BY RangeAssumption, LimitsAssumption
  <2>2. /\ u \in Int /\ u % Interval = 0 /\ s \in Int
        /\ s <= Start(now) + Interval /\ HistoryOk(u)
    BY DEF Computed
  <2>3. last \in Int /\ 0 <= last
    BY DEF Core, TypeOK, Loaded
  <2>4. Start(now) \in Int
    BY StartFact DEF Core, TypeOK
  <2> HIDE DEF u, s
  <2> QED
    BY <2>1, <2>2, <2>3, <2>4
<1>2. d \in Int /\ d <= MaxTime + Interval /\ d <= MaxLookup
  BY <1>1 DEF Ample, Bounded
<1>3. n = Smaller(Smaller(d, MaxLookup) \div Interval, QueueSize)
  BY DEF HistorySize
<1>4. Smaller(d, MaxLookup) = d
  BY <1>2 DEF Smaller
<1>5. Grid(s)
  BY <1>1, TickGrid
<1> HIDE DEF u, s, d, n
<1>6. PICK k \in Int : k = d \div Interval /\ d < Interval * k + Interval /\ Interval * k <= d
  <2>1. /\ d \div Interval \in Int /\ d % Interval \in Int
        /\ d = Interval * (d \div Interval) + (d % Interval)
        /\ 0 <= d % Interval /\ d % Interval < Interval
    BY <1>1, <1>2, DivMod
  <2>2. PICK k \in Int, r \in Int : k = d \div Interval /\ r = d % Interval
    BY <2>1
  <2>3. d = Interval * k + r /\ 0 <= r /\ r < Interval /\ Interval * k \in Int
    BY <1>1, <2>1, <2>2
  <2>4. d < Interval * k + Interval /\ Interval * k <= d
    BY <1>1, <2>3
  <2> QED
    BY <2>2, <2>4
<1>7. k <= QueueSize
  <2>1. QueueSize < k => Interval * QueueSize + Interval <= Interval * k
    BY <1>1, <1>6, MulStep
  <2>2. Interval * QueueSize \in Int /\ MaxTime + Interval <= Interval * QueueSize
    BY <1>1 DEF Ample
  <2>3. Interval * k \in Int
    BY <1>1, <1>6
  <2> QED
    BY <1>1, <1>2, <1>6, <2>1, <2>2, <2>3
<1>8. n = k
  BY <1>3, <1>4, <1>6, <1>7 DEF Smaller
<1>9. s - Interval * n < last + Interval /\ Interval * n \in Int /\ n \in Int
  BY <1>1, <1>2, <1>6, <1>8 DEF d
<1>10. Oldest(u) \in Int /\ Grid(Oldest(u)) /\ Oldest(u) < last + Interval
  <2>1. CASE History(u) = <<>>
    <3>1. Oldest(u) = s
      BY <2>1 DEF Oldest, s
    <3>2. n <= 0
      <4>1. \A i : i \in 1..n => i \in DOMAIN History(u)
        BY DEF History, n
      <4>2. 1 \notin 1..n
        BY <2>1, <4>1
      <4> QED
        BY <1>9, <4>2
    <3>3. Interval * n <= 0
      <4>1. n = 0 \/ Interval * n + Interval <= Interval * 0
        BY <1>1, <1>9, <3>2, MulStep
      <4> QED
        BY <1>1, <1>9, <4>1
    <3> QED
      BY <1>1, <1>5, <1>9, <3>1, <3>3
  <2>2. CASE History(u) # <<>>
    <3>1. Oldest(u) = History(u)[1]
      BY <2>2 DEF Oldest
    <3>2. History(u) \in Seq(Int)
      BY <1>1 DEF HistoryOk
    <3>3. 1 \in 1..Len(History(u)) /\ DOMAIN History(u) = 1..Len(History(u))
      BY <2>2, <3>2
    <3>4. 1 \in 1..n
      BY <3>3 DEF History, n
    <3>5. History(u)[1] = s - Interval * (n + 1 - 1)
      BY <3>4 DEF History, n, s
    <3>6. Oldest(u) = s - Interval * n
      BY <1>9, <3>1, <3>5
    <3>7. History(u)[1] \in Elements(History(u))
      BY <3>3 DEF Elements
    <3>8. Grid(Oldest(u))
      BY <1>1, <3>1, <3>7 DEF HistoryOk
    <3> QED
      BY <1>1, <1>9, <3>6, <3>8
  <2> QED
    BY <2>1, <2>2
<1>11. ASSUME NEW w \in Windows(last, Oldest(u))
       PROVE  FALSE
  <2>1. w \in Int /\ Grid(w) /\ last <= w /\ w < Oldest(u)
    BY <1>1, <1>10, <1>11, WindowsFact
  <2>2. w + Interval <= Oldest(u)
    BY <1>10, <2>1, GridStep
  <2> QED
    BY <1>1, <1>10, <2>1, <2>2
<1> QED
  BY <1>11 DEF u

LEMMA StepCut ==
  ASSUME Ample, Core, Bounded, cut = {}, [Next]_vars
  PROVE  cut' = {}
<1>1. CASE ComputeHistory /\ Configured
  <2>1. Computed /\ boot = "nearest"
    BY <1>1, ComputedFact DEF ComputeHistory
  <2>2. cut' = cut \cup (Windows(last, Oldest(next')) \ stored)
    BY <2>1 DEF Computed
  <2> QED
    BY <2>1, <2>2, AmpleHistory
<1>2. CASE ~(ComputeHistory /\ Configured)
  BY <1>2 DEF Next, vars, CronStarts, StartCron, Scheduling, LoadOk, LoadNothing, LoadError,
     LoadNoAttempt, SendHistory, Register, Flow, Take, Deliver, GiveUp, Put,
     Environment, StartProcess, Tick, Stop, SkipHistory, goneVars
<1> QED
  BY <1>1, <1>2

(* A look-back and a queue that cover the longest time the exporter can be *)
(* down lose no window to the limits of the history.                       *)
THEOREM AmpleLosesNothing == Spec => []LookbackSuffices
<1>1. CASE ~Ample
  <2>1. LookbackSuffices
    BY <1>1 DEF Ample, LookbackSuffices
  <2> QED
    BY <2>1, PTL
<1>2. CASE Ample
  <2>1. Init => Core /\ Bounded /\ cut = {}
    <3>1. Init => Bounded
      <4> SUFFICES ASSUME Init PROVE Bounded
        OBVIOUS
      <4>1. now = Lag + Timerange /\ Lag \in Nat /\ Timerange \in Nat /\ MaxTime \in Nat
        BY RangeAssumption, LimitsAssumption DEF Init
      <4> QED
        BY <4>1 DEF Bounded, Start
    <3> QED
      BY <3>1, InitCore DEF Init
  <2>2. Core /\ Bounded /\ cut = {} /\ [Next]_vars => (Core /\ Bounded /\ cut = {})'
    BY <1>2, StepCore, StepBounded, StepCut
  <2>3. cut = {} => LookbackSuffices
    BY DEF LookbackSuffices
  <2> QED
    BY <2>1, <2>2, <2>3, PTL DEF Spec
<1> QED
  BY <1>1, <1>2
=============================================================================

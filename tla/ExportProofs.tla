---------------------------- MODULE ExportProofs ----------------------------
(***************************************************************************)
(* For any number of queries, metrics and concurrent scrapes, and any      *)
(* number of panics: a scrape shows whole windows, and the copy that is    *)
(* pushed is the query's own window.                                       *)
(*                                                                         *)
(* Both rest on who may change a metric.  A metric of a query is only      *)
(* changed while the query holds the write lock and has the metric still   *)
(* to update (Owners); what nobody is changing has buckets that fit its    *)
(* count, and the count that was released.  A scrape therefore reads from  *)
(* standing metrics, because it keeps the writers out (Scrapes), and a     *)
(* copy does, because only its own query changes them (Copies).            *)
(*                                                                         *)
(* And the self counter never falls at the push target (module             *)
(* SelfMetrics).                                                           *)
(***************************************************************************)
EXTENDS ExportPaths, Sequences, SequenceTheorems, TLAPS

Counts == UNION {[D -> Nat] : D \in SUBSET Metric}

TypeOK ==
  /\ writer \in Query \cup {NoQuery}
  /\ pc \in [Query -> {"get", "lock", "update", "copy"}]
  /\ left \in [Query -> SUBSET Metric]
  /\ observing \in SUBSET Metric
  /\ bucket \in [Metric -> Nat] /\ count \in [Metric -> Nat] /\ released \in [Metric -> Nat]
  /\ windows \in [Query -> Nat]
  /\ budget \in [events : Nat, panics : Nat]

(* Who holds the lock is updating, and nobody else has metrics to update.  *)
Locked ==
  \A q \in Query :
    /\ pc[q] = "update" <=> writer = q
    /\ left[q] \subseteq Metrics[q]
    /\ pc[q] # "update" => left[q] = {}

(* The buckets are ahead by the observation that is half done.             *)
Halves ==
  /\ \A m \in observing \ {Self} : \E q \in Query : m \in left[q]
  /\ \A m \in Metric : bucket[m] = IF m \in observing THEN count[m] + 1 ELSE count[m]

(* Without the lock, the counts of a query are the released ones.          *)
Settled ==
  \A q \in Query : writer # q => \A m \in Metrics[q] : released[m] = count[m]

(* Every metric has every window of its query: those that were updated to  *)
(* the end, the one that is updated now, and perhaps some that panicked.   *)
Updated(q, m) == IF pc[q] = "update" /\ m \notin left[q] THEN windows[q] + 1 ELSE windows[q]

Fed ==
  \A q \in Query : \A m \in Metrics[q] :
    Updated(q, m) <= count[m] /\ count[m] <= Updated(q, m) + budget.panics

Owners == TypeOK /\ Locked /\ Halves /\ Settled /\ Fed

-----------------------------------------------------------------------------
(* Names.                                                                  *)

LEMMA MetricFact ==
  /\ \A q \in Query : \A m \in Metrics[q] : m \in Metric /\ m \in QueryMetric /\ m # Self
  /\ \A m \in Metric : m # Self => \E q \in Query : m \in Metrics[q]
  /\ Self \in Metric
BY NamesAssumption DEF Metric, QueryMetric

LEMMA OtherOwner ==
  ASSUME NEW p \in Query, NEW q \in Query, p # q, NEW m \in Metrics[q]
  PROVE  m \notin Metrics[p]
BY NamesAssumption

LEMMA InitOwners == Init => Owners
<1> SUFFICES ASSUME Init PROVE Owners
  OBVIOUS
<1>1. TypeOK
  BY DEF Init, TypeOK
<1>2. Locked
  BY NamesAssumption DEF Init, Locked
<1>3. Halves
  BY DEF Init, Halves
<1>4. Settled
  BY MetricFact DEF Init, Settled
<1>5. Fed
  BY MetricFact DEF Init, Fed, Updated
<1> QED
  BY <1>1, <1>2, <1>3, <1>4, <1>5 DEF Owners

(* Steps that touch neither the metrics nor the lock.                      *)
LEMMA QuietOwners ==
  ASSUME Owners, UNCHANGED <<writer, left, observing, bucket, count, released, windows>>,
         pc' \in [Query -> {"get", "lock", "update", "copy"}],
         \A q \in Query : pc'[q] = "update" <=> pc[q] = "update",
         budget' \in [events : Nat, panics : Nat], budget'.panics = budget.panics
  PROVE  Owners'
<1>1. TypeOK'
  BY DEF Owners, TypeOK
<1>2. Locked' /\ Halves' /\ Settled'
  BY DEF Owners, Locked, Halves, Settled
<1>3. Fed'
  BY DEF Owners, Fed, Updated
<1> QED
  BY <1>1, <1>2, <1>3 DEF Owners

LEMMA LockOwners ==
  ASSUME Owners, NEW q \in Query, Lock(q)
  PROVE  Owners'
<1>1. /\ pc[q] = "lock" /\ writer = NoQuery /\ writer' = q
      /\ left' = [left EXCEPT ![q] = Metrics[q]]
      /\ pc' = [pc EXCEPT ![q] = "update"]
      /\ UNCHANGED <<observing, bucket, count, released, windows, budget>>
  BY DEF Lock, Writable
<1>2. /\ pc'[q] = "update" /\ left'[q] = Metrics[q]
      /\ \A p \in Query : p # q => pc'[p] = pc[p] /\ left'[p] = left[p]
      /\ left[q] = {}
  BY <1>1 DEF Owners, TypeOK, Locked
<1>3. TypeOK'
  BY <1>1, MetricFact DEF Owners, TypeOK
<1>4. Locked'
  BY <1>1, <1>2, NamesAssumption DEF Owners, Locked
<1>5. Halves'
  BY <1>1, <1>2 DEF Owners, Halves
<1>6. Settled'
  BY <1>1, NamesAssumption DEF Owners, Settled
<1>7. Fed'
  BY <1>1, <1>2 DEF Owners, Fed, Updated
<1> QED
  BY <1>3, <1>4, <1>5, <1>6, <1>7 DEF Owners

LEMMA BucketsOwners ==
  ASSUME Owners, NEW m \in Metric, ObserveBuckets(m),
         m = Self \/ \E q \in Query : m \in left[q],
         UNCHANGED <<writer, pc, left, count, released, windows>>,
         budget' \in [events : Nat, panics : Nat], budget'.panics = budget.panics
  PROVE  Owners'
<1>1. /\ m \notin observing /\ observing' = observing \cup {m}
      /\ bucket' = [bucket EXCEPT ![m] = @ + 1]
  BY DEF ObserveBuckets
<1>2. TypeOK'
  BY <1>1 DEF Owners, TypeOK
<1>3. Locked' /\ Settled'
  BY DEF Owners, Locked, Settled
<1>4. Halves'
  <2>1. \A n \in Metric : n # m => bucket'[n] = bucket[n] /\ (n \in observing' <=> n \in observing)
    BY <1>1 DEF Owners, TypeOK
  <2>2. bucket'[m] = count[m] + 1 /\ m \in observing'
    BY <1>1 DEF Owners, TypeOK, Halves
  <2>3. \A n \in Metric : bucket'[n] = IF n \in observing' THEN count'[n] + 1 ELSE count'[n]
    BY <2>1, <2>2 DEF Owners, Halves
  <2>4. \A n \in observing' \ {Self} : \E q \in Query : n \in left'[q]
    BY <1>1 DEF Owners, Halves
  <2> QED
    BY <2>3, <2>4 DEF Halves
<1>5. Fed'
  BY DEF Owners, Fed, Updated
<1> QED
  BY <1>2, <1>3, <1>4, <1>5 DEF Owners

(* The second half of an observation, by the query that holds the lock or  *)
(* of the self metric.                                                     *)
LEMMA CountFact ==
  ASSUME TypeOK, Halves, NEW m \in Metric, ObserveCount(m)
  PROVE  /\ m \in observing /\ observing' = observing \ {m}
         /\ count' \in [Metric -> Nat] /\ count'[m] = count[m] + 1
         /\ \A n \in Metric : n # m => count'[n] = count[n]
<1>1. /\ m \in observing /\ observing' = observing \ {m}
      /\ count' = [count EXCEPT ![m] = bucket[m]]
  BY DEF ObserveCount
<1>2. bucket[m] = count[m] + 1 /\ bucket[m] \in Nat
  BY <1>1 DEF Halves, TypeOK
<1> QED
  BY <1>1, <1>2 DEF TypeOK

LEMMA CountHalves ==
  ASSUME TypeOK, Halves, NEW m \in Metric, ObserveCount(m), bucket' = bucket,
         \A n \in observing \ {Self, m} : \E q \in Query : n \in left'[q]
  PROVE  Halves'
<1>1. /\ m \in observing /\ observing' = observing \ {m}
      /\ count'[m] = count[m] + 1
      /\ \A n \in Metric : n # m => count'[n] = count[n]
  BY CountFact
<1>2. \A n \in Metric : bucket'[n] = IF n \in observing' THEN count'[n] + 1 ELSE count'[n]
  BY <1>1 DEF Halves
<1>3. \A n \in observing' \ {Self} : \E q \in Query : n \in left'[q]
  BY <1>1
<1> QED
  BY <1>2, <1>3 DEF Halves

LEMMA UpdateOwners ==
  ASSUME Owners, NEW q \in Query, NEW m \in QueryMetric, UpdateCount(q, m)
  PROVE  Owners'
<1>1. /\ pc[q] = "update" /\ m \in left[q]
      /\ left' = [left EXCEPT ![q] = @ \ {m}]
      /\ UNCHANGED <<writer, pc, bucket, released, windows, budget>>
      /\ ObserveCount(m) /\ m \in Metric
  BY DEF UpdateCount, Metric
<1>2. /\ left'[q] = left[q] \ {m} /\ \A p \in Query : p # q => left'[p] = left[p]
      /\ left' \in [Query -> SUBSET Metric]
  BY <1>1 DEF Owners, TypeOK
<1>3. /\ m \in observing /\ observing' = observing \ {m}
      /\ count' \in [Metric -> Nat] /\ count'[m] = count[m] + 1
      /\ \A n \in Metric : n # m => count'[n] = count[n]
  BY <1>1, CountFact DEF Owners
<1>4. writer = q /\ m \in Metrics[q]
  BY <1>1 DEF Owners, Locked
<1>5. \A p \in Query : p # q => pc[p] # "update" /\ writer # p /\ m \notin Metrics[p]
  BY <1>4, OtherOwner DEF Owners, Locked
<1>6. TypeOK'
  BY <1>1, <1>2, <1>3 DEF Owners, TypeOK
<1>7. Locked'
  BY <1>1, <1>2 DEF Owners, Locked
<1>8. Halves'
  <2>1. \A n \in observing \ {Self, m} : \E p \in Query : n \in left'[p]
    BY <1>2 DEF Owners, Halves
  <2> QED
    BY <1>1, <2>1, CountHalves DEF Owners
<1>9. Settled'
  BY <1>1, <1>3, <1>4, <1>5, MetricFact DEF Owners, Settled
<1>10. Fed'
  <2> SUFFICES ASSUME NEW p \in Query, NEW n \in Metrics[p]
               PROVE  Updated(p, n)' <= count'[n] /\ count'[n] <= Updated(p, n)' + budget'.panics
    BY DEF Fed
  <2>0. /\ n \in Metric /\ count[n] \in Nat /\ windows[p] \in Nat /\ budget.panics \in Nat
        /\ Updated(p, n) <= count[n] /\ count[n] <= Updated(p, n) + budget.panics
    BY MetricFact DEF Owners, TypeOK, Fed
  <2>1. CASE p = q /\ n = m
    <3>1. Updated(p, n) = windows[p] /\ Updated(p, n)' = windows[p] + 1
      BY <1>1, <1>2, <2>1 DEF Updated
    <3> QED
      BY <1>1, <1>3, <2>0, <2>1, <3>1
  <2>2. CASE ~(p = q /\ n = m)
    <3>1. n # m
      BY <1>4, <1>5, <2>2
    <3>2. Updated(p, n)' = Updated(p, n)
      BY <1>1, <1>2, <3>1 DEF Updated
    <3> QED
      BY <1>1, <1>3, <2>0, <3>1, <3>2
  <2> QED
    BY <2>1, <2>2
<1> QED
  BY <1>6, <1>7, <1>8, <1>9, <1>10 DEF Owners

LEMMA SelfOwners ==
  ASSUME Owners, ObserveSelf
  PROVE  Owners'
<1>1. Self \in Metric /\ UNCHANGED <<writer, pc, left, released, windows>>
  BY MetricFact DEF ObserveSelf
<1>2. CASE ObserveBuckets(Self) /\ budget' = [budget EXCEPT !.events = @ + 1] /\ UNCHANGED count
  <2>1. budget' \in [events : Nat, panics : Nat] /\ budget'.panics = budget.panics
    BY <1>2 DEF Owners, TypeOK
  <2> QED
    BY <1>1, <1>2, <2>1, BucketsOwners
<1>3. CASE ObserveCount(Self) /\ UNCHANGED <<bucket, budget>>
  <2>1. /\ observing' = observing \ {Self}
        /\ count' \in [Metric -> Nat] /\ \A n \in Metric : n # Self => count'[n] = count[n]
    BY <1>1, <1>3, CountFact DEF Owners
  <2>2. TypeOK' /\ Locked'
    BY <1>1, <1>3, <2>1 DEF Owners, TypeOK, Locked
  <2>3. Halves'
    <3>1. \A n \in observing \ {Self} : \E q \in Query : n \in left'[q]
      BY <1>1 DEF Owners, Halves
    <3> QED
      BY <1>1, <1>3, <3>1, CountHalves DEF Owners
  <2>4. Settled' /\ Fed'
    BY <1>1, <1>3, <2>1, MetricFact DEF Owners, Settled, Fed, Updated
  <2> QED
    BY <2>2, <2>3, <2>4 DEF Owners
<1> QED
  BY <1>2, <1>3 DEF ObserveSelf

(* The lock is given back, after the whole update or by a panic.           *)
LEMMA BackOwners ==
  ASSUME Owners, NEW q \in Query, pc[q] = "update", left[q] \cap observing = {},
         left' = [left EXCEPT ![q] = {}],
         pc' \in [Query -> {"get", "lock", "update", "copy"}], pc'[q] # "update",
         \A p \in Query : p # q => pc'[p] = pc[p],
         writer' = NoQuery, released' = count,
         UNCHANGED <<observing, bucket, count>>,
         windows' \in [Query -> Nat], budget' \in [events : Nat, panics : Nat],
         budget'.panics \in {budget.panics, budget.panics + 1},
         \A p \in Query : p # q => windows'[p] = windows[p],
         \/ left[q] = {} /\ windows'[q] = windows[q] + 1
         \/ windows'[q] = windows[q] /\ budget'.panics = budget.panics + 1
  PROVE  Owners'
<1>1. /\ left'[q] = {} /\ \A p \in Query : p # q => left'[p] = left[p]
      /\ left' \in [Query -> SUBSET Metric]
  BY DEF Owners, TypeOK
<1>2. writer = q /\ \A p \in Query : p # q => pc[p] # "update" /\ left[p] = {}
  BY DEF Owners, Locked
<1>3. TypeOK'
  BY <1>1 DEF Owners, TypeOK
<1>4. Locked'
  BY <1>1, <1>2, NamesAssumption DEF Owners, Locked
<1>5. Halves'
  BY <1>1, <1>2 DEF Owners, Halves
<1>6. Settled'
  BY MetricFact DEF Owners, Settled
<1>7. Fed'
  <2> SUFFICES ASSUME NEW p \in Query, NEW n \in Metrics[p]
               PROVE  Updated(p, n)' <= count'[n] /\ count'[n] <= Updated(p, n)' + budget'.panics
    BY DEF Fed
  <2>0. /\ n \in Metric /\ count[n] \in Nat /\ windows[p] \in Nat /\ budget.panics \in Nat
        /\ Updated(p, n) <= count[n] /\ count[n] <= Updated(p, n) + budget.panics
        /\ budget'.panics \in Nat
    BY MetricFact DEF Owners, TypeOK, Fed
  <2>1. pc'[p] # "update" /\ Updated(p, n)' = windows'[p]
    BY <1>2 DEF Updated
  <2>2. CASE p # q
    <3>1. Updated(p, n) = windows[p]
      BY <1>2, <2>2 DEF Updated
    <3> QED
      BY <2>0, <2>1, <2>2, <3>1
  <2>3. CASE p = q /\ left[q] = {} /\ windows'[q] = windows[q] + 1
    <3>1. Updated(p, n) = windows[p] + 1
      BY <2>3 DEF Updated
    <3> QED
      BY <2>0, <2>1, <2>3, <3>1
  <2>4. CASE p = q /\ windows'[q] = windows[q] /\ budget'.panics = budget.panics + 1
    <3>1. Updated(p, n) \in {windows[p], windows[p] + 1}
      BY DEF Updated
    <3> QED
      BY <2>0, <2>1, <2>4, <3>1
  <2> QED
    BY <2>2, <2>3, <2>4
<1> QED
  BY <1>3, <1>4, <1>5, <1>6, <1>7 DEF Owners

LEMMA UnlockOwners ==
  ASSUME Owners, NEW q \in Query, Unlock(q)
  PROVE  Owners'
<1>1. /\ pc[q] = "update" /\ left[q] = {} /\ writer' = NoQuery /\ released' = count
      /\ windows' = [windows EXCEPT ![q] = @ + 1] /\ pc' = [pc EXCEPT ![q] = "copy"]
      /\ UNCHANGED <<left, observing, bucket, count, budget>>
  BY DEF Unlock
<1>2. /\ left' = [left EXCEPT ![q] = {}]
      /\ pc' \in [Query -> {"get", "lock", "update", "copy"}] /\ pc'[q] # "update"
      /\ \A p \in Query : p # q => pc'[p] = pc[p] /\ windows'[p] = windows[p]
      /\ windows' \in [Query -> Nat] /\ windows'[q] = windows[q] + 1
      /\ budget' \in [events : Nat, panics : Nat] /\ budget'.panics = budget.panics
      /\ left[q] \cap observing = {}
      /\ budget'.panics \in {budget.panics, budget.panics + 1}
  BY <1>1 DEF Owners, TypeOK
<1> QED
  BY <1>1, <1>2, BackOwners

LEMMA PanicOwners ==
  ASSUME Owners, NEW q \in Query, Panic(q)
  PROVE  Owners'
<1>1. /\ pc[q] = "update" /\ left[q] \cap observing = {} /\ writer' = NoQuery /\ released' = count
      /\ left' = [left EXCEPT ![q] = {}] /\ pc' = [pc EXCEPT ![q] = "get"]
      /\ budget' = [events |-> budget.events + 1, panics |-> budget.panics + 1]
      /\ UNCHANGED <<observing, bucket, count, windows>>
  BY DEF Panic, PanicUnlocks
<1>2. /\ pc' \in [Query -> {"get", "lock", "update", "copy"}] /\ pc'[q] # "update"
      /\ \A p \in Query : p # q => pc'[p] = pc[p] /\ windows'[p] = windows[p]
      /\ windows' \in [Query -> Nat] /\ windows'[q] = windows[q]
      /\ budget' \in [events : Nat, panics : Nat] /\ budget'.panics = budget.panics + 1
  BY <1>1 DEF Owners, TypeOK
<1> QED
  BY <1>1, <1>2, BackOwners

LEMMA QuietSteps ==
  ASSUME Owners,
         \/ \E q \in Query : GetAnswer(q) \/ Copied(q)
         \/ \E s \in Scraper : Gather(s) \/ Answered(s)
         \/ \E r \in Reader : Reading(r)
         \/ UNCHANGED vars
  PROVE  Owners'
<1>1. budget \in [events : Nat, panics : Nat] /\ pc \in [Query -> {"get", "lock", "update", "copy"}]
  BY DEF Owners, TypeOK
<1>2. ASSUME NEW q \in Query, GetAnswer(q)  PROVE Owners'
  <2>1. pc[q] = "get" /\ pc' = [pc EXCEPT ![q] = "lock"]
    BY <1>2 DEF GetAnswer
  <2>2. pc' \in [Query -> {"get", "lock", "update", "copy"}]
    BY <1>1, <2>1
  <2>3. \A p \in Query : pc'[p] = "update" <=> pc[p] = "update"
    BY <1>1, <2>1
  <2>4. budget' \in [events : Nat, panics : Nat] /\ budget'.panics = budget.panics
    BY <1>1, <1>2 DEF GetAnswer
  <2> QED
    BY <1>2, <2>2, <2>3, <2>4, QuietOwners DEF GetAnswer
<1>3. ASSUME NEW q \in Query, Copied(q)  PROVE Owners'
  <2>1. pc[q] = "copy" /\ pc' = [pc EXCEPT ![q] = "get"]
    BY <1>3 DEF Copied
  <2>2. pc' \in [Query -> {"get", "lock", "update", "copy"}]
    BY <1>1, <2>1
  <2>3. \A p \in Query : pc'[p] = "update" <=> pc[p] = "update"
    BY <1>1, <2>1
  <2> QED
    BY <1>1, <1>3, <2>2, <2>3, QuietOwners DEF Copied
<1>4. ASSUME NEW s \in Scraper, Gather(s)  PROVE Owners'
  <2>1. budget' \in [events : Nat, panics : Nat] /\ budget'.panics = budget.panics
    BY <1>1, <1>4 DEF Gather
  <2> QED
    BY <1>1, <1>4, <2>1, QuietOwners DEF Gather
<1>5. ASSUME NEW s \in Scraper, Answered(s)  PROVE Owners'
  BY <1>1, <1>5, QuietOwners DEF Answered
<1>6. ASSUME NEW r \in Reader, NEW m \in Metric, Collect(r, m) \/ WriteOut(r, m)  PROVE Owners'
  <2>1. UNCHANGED <<writer, pc, left, observing, bucket, count, released, windows, budget>>
    BY <1>6 DEF Collect, WriteOut
  <2> QED
    BY <1>1, <2>1, QuietOwners
<1>7. CASE UNCHANGED vars
  BY <1>1, <1>7, QuietOwners DEF vars
<1> QED
  BY <1>2, <1>3, <1>4, <1>5, <1>6, <1>7 DEF Reading

LEMMA StepOwners == Owners /\ [Next]_vars => Owners'
<1> SUFFICES ASSUME Owners, [Next]_vars  PROVE Owners'
  OBVIOUS
<1>1. ASSUME NEW q \in Query, NEW m \in QueryMetric, UpdateBuckets(q, m)  PROVE Owners'
  <2>1. m \in Metric /\ m \in left[q] /\ ObserveBuckets(m)
    BY <1>1 DEF UpdateBuckets, Metric
  <2>2. budget' \in [events : Nat, panics : Nat] /\ budget'.panics = budget.panics
    BY <1>1 DEF UpdateBuckets, Owners, TypeOK
  <2> QED
    BY <1>1, <2>1, <2>2, BucketsOwners DEF UpdateBuckets
<1> QED
  BY <1>1, QuietSteps, LockOwners, UpdateOwners, UnlockOwners, PanicOwners, SelfOwners
  DEF Next, Evaluation

-----------------------------------------------------------------------------
(* Readers.                                                                *)
ReaderState ==
  [pc : {"idle", "read", "done"}, left : SUBSET Metric,
   since : Counts, taken : Counts, written : Counts]

LEMMA WithFact ==
  ASSUME NEW f \in Counts, NEW m \in Metric, NEW v \in Nat
  PROVE  /\ With(f, m, v) \in Counts
         /\ DOMAIN With(f, m, v) = DOMAIN f \cup {m}
         /\ With(f, m, v)[m] = v
         /\ \A x \in DOMAIN f : x # m => With(f, m, v)[x] = f[x]
<1>1. PICK D \in SUBSET Metric : f \in [D -> Nat]
  BY DEF Counts
<1>2. /\ DOMAIN With(f, m, v) = DOMAIN f \cup {m}
      /\ With(f, m, v)[m] = v
      /\ \A x \in DOMAIN f : x # m => With(f, m, v)[x] = f[x]
  BY DEF With
<1>3. With(f, m, v) \in [D \cup {m} -> Nat]
  BY <1>1 DEF With
<1> QED
  BY <1>2, <1>3 DEF Counts

ReaderOK == reader \in [Reader -> ReaderState]

LEMMA EmptyFact == <<>> \in Counts /\ DOMAIN <<>> = {}
<1>1. <<>> \in [{} -> Nat] /\ DOMAIN <<>> = {}
  OBVIOUS
<1> QED
  BY <1>1 DEF Counts

LEMMA NotReadingFact ==
  /\ NotReading \in ReaderState
  /\ NotReading.pc = "idle" /\ NotReading.left = {}
  /\ DOMAIN NotReading.taken = {} /\ DOMAIN NotReading.written = {}
BY EmptyFact DEF NotReading, ReaderState

LEMMA ReadsFact ==
  ASSUME TypeOK, NEW metrics \in SUBSET Metric
  PROVE  /\ Reads(metrics) \in ReaderState
         /\ Reads(metrics).pc = "read" /\ Reads(metrics).left = metrics
         /\ Reads(metrics).since = released
         /\ DOMAIN Reads(metrics).taken = {} /\ DOMAIN Reads(metrics).written = {}
<1>1. released \in Counts
  BY DEF TypeOK, Counts
<1> QED
  BY <1>1, EmptyFact DEF NotReading, Reads, ReaderState

LEMMA CollectFact ==
  ASSUME TypeOK, ReaderOK, NEW r \in Reader, NEW m \in Metric, Collect(r, m)
  PROVE  /\ ReaderOK'
         /\ reader[r].pc = "read" /\ m \in reader[r].left /\ m \notin observing
         /\ reader'[r] = [reader[r] EXCEPT !.left = @ \ {m}, !.taken = With(@, m, count[m])]
         /\ \A s \in Reader : s # r => reader'[s] = reader[s]
         /\ With(reader[r].taken, m, count[m]) \in Counts
<1>1. /\ reader[r].pc = "read" /\ m \in reader[r].left /\ m \notin observing
      /\ reader' = [reader EXCEPT ![r].left = @ \ {m}, ![r].taken = With(@, m, count[m])]
  BY DEF Collect
<1>2. reader[r] \in ReaderState
  BY DEF ReaderOK
<1>3. With(reader[r].taken, m, count[m]) \in Counts
  BY <1>2, WithFact DEF ReaderState, TypeOK
<1>4. /\ reader'[r] = [reader[r] EXCEPT !.left = @ \ {m}, !.taken = With(@, m, count[m])]
      /\ \A s \in Reader : s # r => reader'[s] = reader[s]
      /\ DOMAIN reader' = Reader
  BY <1>1 DEF ReaderOK
<1>5. reader'[r] \in ReaderState
  BY <1>2, <1>3, <1>4 DEF ReaderState
<1>6. ReaderOK'
  BY <1>1, <1>5, <1>4 DEF ReaderOK
<1> QED
  BY <1>1, <1>3, <1>4, <1>6

LEMMA WriteFact ==
  ASSUME TypeOK, ReaderOK, NEW r \in Reader, NEW m \in Metric, WriteOut(r, m)
  PROVE  /\ ReaderOK'
         /\ reader[r].pc = "read" /\ m \in DOMAIN reader[r].taken
         /\ With(reader[r].written, m, bucket[m]) \in Counts
         /\ \E p \in {"read", "done"} :
              reader'[r] = [reader[r] EXCEPT !.pc = p, !.written = With(@, m, bucket[m])]
         /\ \A s \in Reader : s # r => reader'[s] = reader[s]
<1> DEFINE all == IF r \in Query THEN Metrics[r] ELSE Metric
           new == With(reader[r].written, m, bucket[m])
           next == IF DOMAIN new = all THEN "done" ELSE reader[r].pc
<1>1. /\ reader[r].pc = "read" /\ m \in DOMAIN reader[r].taken
      /\ reader' = [reader EXCEPT ![r].written = new,
                                  ![r].pc = IF DOMAIN new = all THEN "done" ELSE @]
  BY DEF WriteOut
<1>2. reader[r] \in ReaderState
  BY DEF ReaderOK
<1>3. new \in Counts
  BY <1>2, WithFact DEF ReaderState, TypeOK
<1> HIDE DEF new, all
<1>4. next \in {"read", "done"}
  BY <1>1
<1>5. /\ reader'[r] = [reader[r] EXCEPT !.written = new, !.pc = next]
      /\ \A s \in Reader : s # r => reader'[s] = reader[s]
      /\ reader' = [reader EXCEPT ![r] = [reader[r] EXCEPT !.written = new, !.pc = next]]
  BY <1>1 DEF ReaderOK
<1> HIDE DEF next
<1>6. reader'[r] = [reader[r] EXCEPT !.pc = next, !.written = new]
  BY <1>2, <1>5 DEF ReaderState
<1>7. reader'[r] \in ReaderState
  BY <1>2, <1>3, <1>4, <1>6 DEF ReaderState
<1>8. ReaderOK'
  BY <1>5, <1>7 DEF ReaderOK
<1>9. [reader[r] EXCEPT !.pc = next, !.written = new]
        = [reader[r] EXCEPT !.pc = next, !.written = With(@, m, bucket[m])]
  BY DEF new
<1>10. new = With(reader[r].written, m, bucket[m])
  BY DEF new
<1> QED
  BY <1>1, <1>3, <1>4, <1>5, <1>6, <1>8, <1>9, <1>10

-----------------------------------------------------------------------------
(* Who changes a metric.                                                   *)

LEMMA OnlyTheOwner ==
  ASSUME Owners, [Next]_vars, NEW m \in Metric, m # Self,
         count'[m] # count[m] \/ bucket'[m] # bucket[m]
  PROVE  \E q \in Query : pc[q] = "update" /\ m \in left[q]
<1> USE DEF Owners
<1>1. ASSUME NEW n \in Metric, ObserveBuckets(n), UNCHANGED count  PROVE n = m
  BY <1>1 DEF ObserveBuckets, TypeOK
<1>2. ASSUME NEW n \in Metric, ObserveCount(n), UNCHANGED bucket  PROVE n = m
  BY <1>2 DEF ObserveCount, TypeOK
<1>3. ~UNCHANGED <<count, bucket>>
  OBVIOUS
<1>4. ASSUME NEW q \in Query, NEW n \in QueryMetric, UpdateBuckets(q, n) \/ UpdateCount(q, n)
      PROVE  pc[q] = "update" /\ m \in left[q]
  BY <1>1, <1>2, <1>4 DEF UpdateBuckets, UpdateCount, Metric
<1>5. ~ObserveSelf
  BY <1>1, <1>2, MetricFact DEF ObserveSelf
<1>6. /\ \A q \in Query : ~(GetAnswer(q) \/ Lock(q) \/ Unlock(q) \/ Panic(q) \/ Copied(q))
      /\ \A s \in Scraper : ~(Gather(s) \/ Answered(s))
      /\ \A r \in Reader : ~Reading(r)
      /\ ~UNCHANGED vars
  BY <1>3
     DEF GetAnswer, Lock, Unlock, Panic, Copied, Gather, Answered, Reading, Collect, WriteOut,
     vars
<1> QED
  BY <1>4, <1>5, <1>6 DEF Next, Evaluation

LEMMA Standing ==
  ASSUME Owners, writer = NoQuery, NEW m \in Metric, m # Self
  PROVE  m \notin observing /\ bucket[m] = count[m] /\ released[m] = count[m]
<1>1. \A q \in Query : writer # q /\ left[q] = {}
  BY NamesAssumption DEF Owners, Locked
<1>2. m \notin observing
  BY <1>1 DEF Owners, Halves
<1> QED
  BY <1>1, <1>2, MetricFact DEF Owners, Halves, Settled

LEMMA OwnStanding ==
  ASSUME Owners, NEW q \in Query, pc[q] # "update", NEW m \in Metrics[q]
  PROVE  m \notin observing /\ bucket[m] = count[m]
<1>1. left[q] = {} /\ m \in Metric /\ m # Self
  BY MetricFact DEF Owners, Locked
<1>2. ASSUME NEW p \in Query, m \in left[p]  PROVE FALSE
  BY <1>1, <1>2, OtherOwner DEF Owners, Locked
<1> QED
  BY <1>1, <1>2 DEF Owners, Halves

-----------------------------------------------------------------------------
(* What a step does to a reader.                                           *)

LEMMA ReaderStep ==
  ASSUME Owners, ReaderOK, [Next]_vars
  PROVE  /\ ReaderOK'
         /\ \A r \in Reader :
              \/ reader'[r] = reader[r]
              \/ r \in Scraper /\ (Gather(r) \/ Answered(r))
              \/ r \in Query /\ (Unlock(r) \/ Copied(r))
              \/ \E m \in Metric : Collect(r, m) \/ WriteOut(r, m)
<1> DEFINE Goal ==
      /\ ReaderOK'
      /\ \A r \in Reader :
           \/ reader'[r] = reader[r]
           \/ r \in Scraper /\ (Gather(r) \/ Answered(r))
           \/ r \in Query /\ (Unlock(r) \/ Copied(r))
           \/ \E m \in Metric : Collect(r, m) \/ WriteOut(r, m)
<1>1. CASE UNCHANGED reader
  BY <1>1 DEF ReaderOK
<1>2. ASSUME NEW q \in Query, Unlock(q)  PROVE Goal
  <2>1. Metrics[q] \in SUBSET Metric /\ reader' = [reader EXCEPT ![q] = Reads(Metrics[q])]
    BY <1>2, MetricFact DEF Unlock
  <2>2. Reads(Metrics[q]) \in ReaderState
    BY <2>1, ReadsFact DEF Owners
  <2> QED
    BY <1>2, <2>1, <2>2 DEF ReaderOK, Reader
<1>3. ASSUME NEW q \in Query, Copied(q)  PROVE Goal
  BY <1>3, NotReadingFact DEF ReaderOK, Reader, Copied
<1>4. ASSUME NEW s \in Scraper, Gather(s)  PROVE Goal
  <2>1. Reads(Metric) \in ReaderState
    BY ReadsFact DEF Owners
  <2> QED
    BY <1>4, <2>1 DEF ReaderOK, Reader, Gather
<1>5. ASSUME NEW s \in Scraper, Answered(s)  PROVE Goal
  BY <1>5, NotReadingFact DEF ReaderOK, Reader, Answered
<1>6. ASSUME NEW r \in Reader, NEW m \in Metric, Collect(r, m) \/ WriteOut(r, m)  PROVE Goal
  <2>1. ReaderOK' /\ \A s \in Reader : s # r => reader'[s] = reader[s]
    BY <1>6, CollectFact, WriteFact DEF Owners
  <2> QED
    BY <1>6, <2>1
<1> HIDE DEF Goal
<1>7. ASSUME NEW q \in Query, GetAnswer(q) \/ Lock(q) \/ Panic(q)  PROVE UNCHANGED reader
  BY <1>7 DEF GetAnswer, Lock, Panic
<1>8. ASSUME NEW q \in Query, NEW m \in QueryMetric, UpdateBuckets(q, m) \/ UpdateCount(q, m)
      PROVE  UNCHANGED reader
  BY <1>8 DEF UpdateBuckets, UpdateCount
<1>9. ASSUME ObserveSelf \/ UNCHANGED vars  PROVE UNCHANGED reader
  BY <1>9 DEF ObserveSelf, vars
<1>10. UNCHANGED reader => Goal
  BY <1>1 DEF Goal
<1>11. Goal
  BY <1>2, <1>3, <1>4, <1>5, <1>6, <1>7, <1>8, <1>9, <1>10 DEF Next, Evaluation, Reading
<1> QED
  BY <1>11 DEF Goal

-----------------------------------------------------------------------------
(* Scrapes.                                                                *)

(* While a scrape reads there is no writer, and the counts are the ones it *)
(* began with.                                                             *)
Calm(s) ==
  reader[s].pc = "read" =>
    writer = NoQuery /\ \A m \in QueryMetric : reader[s].since[m] = count[m]

Scrapes == \A s \in Scraper : Calm(s)

Whole(s) ==
  reader[s].pc # "idle" =>
    /\ \A m \in DOMAIN reader[s].taken \ {Self} : reader[s].taken[m] = reader[s].since[m]
    /\ \A m \in DOMAIN reader[s].written \ {Self} : reader[s].written[m] = reader[s].since[m]

LEMMA NamesApart ==
  /\ QueryMetric \subseteq Metric /\ Self \notin QueryMetric
  /\ \A m \in Metric : m # Self => m \in QueryMetric
  /\ \A q \in Query : q \in Reader /\ q \notin Scraper
  /\ \A s \in Scraper : s \in Reader /\ s \notin Query
BY NamesAssumption DEF Metric, QueryMetric, Reader

(* A reading scrape that goes on reading stays calm: nobody gets the lock. *)
LEMMA CalmStays ==
  ASSUME Owners, [Next]_vars, NEW s \in Scraper, Calm(s),
         reader[s].pc = "read", reader'[s].since = reader[s].since
  PROVE  Calm(s)'
<1>1. writer = NoQuery /\ \A m \in QueryMetric : reader[s].since[m] = count[m]
  BY DEF Calm
<1>2. \A q \in Query : pc[q] # "update"
  BY <1>1, NamesAssumption DEF Owners, Locked
<1>3. \A m \in QueryMetric : count'[m] = count[m]
  BY <1>2, OnlyTheOwner, NamesApart
<1>4. writer' = writer
  <2>1. \A q \in Query : ~Lock(q)
    BY DEF Lock, Writable, Scraping
  <2> QED
    BY <1>1, <2>1 DEF Next, Evaluation, Reading, GetAnswer, Unlock, Panic, PanicUnlocks, Copied,
       UpdateBuckets, UpdateCount, Gather, Answered, Collect, WriteOut, ObserveSelf, vars
<1> QED
  BY <1>1, <1>3, <1>4 DEF Calm

LEMMA ScrapeStep ==
  ASSUME Owners, ReaderOK, [Next]_vars, NEW s \in Scraper, Calm(s), Whole(s)
  PROVE  Calm(s)' /\ Whole(s)'
<1>0. s \in Reader /\ s \notin Query /\ reader[s] \in ReaderState
  BY NamesApart DEF ReaderOK
<1>1. CASE reader'[s] = reader[s]
  <2>1. Whole(s)'
    BY <1>1 DEF Whole
  <2>2. Calm(s)'
    BY <1>1, CalmStays DEF Calm
  <2> QED
    BY <2>1, <2>2
<1>2. CASE Gather(s)
  <2>1. /\ reader'[s] = Reads(Metric)
        /\ writer = NoQuery /\ UNCHANGED <<writer, count>>
    BY <1>0, <1>2 DEF Gather, Readable, ReaderOK
  <2>2. /\ reader'[s].pc = "read" /\ reader'[s].since = released
        /\ DOMAIN reader'[s].taken = {} /\ DOMAIN reader'[s].written = {}
    BY <2>1, ReadsFact DEF Owners
  <2>3. \A m \in QueryMetric : released[m] = count[m]
    BY <2>1, Standing, NamesApart
  <2> QED
    BY <2>1, <2>2, <2>3 DEF Calm, Whole
<1>3. CASE Answered(s)
  <2>1. reader'[s].pc = "idle"
    BY <1>0, <1>3, NotReadingFact DEF Answered, ReaderOK
  <2> QED
    BY <2>1 DEF Calm, Whole
<1>4. ASSUME NEW m \in Metric, Collect(s, m)  PROVE Calm(s)' /\ Whole(s)'
  <2>1. /\ reader[s].pc = "read"
        /\ reader'[s] = [reader[s] EXCEPT !.left = @ \ {m}, !.taken = With(@, m, count[m])]
    BY <1>0, <1>4, CollectFact DEF Owners
  <2>2. /\ reader'[s].since = reader[s].since /\ reader'[s].written = reader[s].written
        /\ reader'[s].taken = With(reader[s].taken, m, count[m])
    BY <1>0, <2>1 DEF ReaderState
  <2>3. reader[s].taken \in Counts /\ count[m] \in Nat
    BY <1>0 DEF ReaderState, Owners, TypeOK
  <2>4. m # Self => count[m] = reader[s].since[m]
    BY <2>1, NamesApart DEF Calm
  <2>5. \A n \in DOMAIN reader'[s].taken \ {Self} : reader'[s].taken[n] = reader'[s].since[n]
    <3>1. /\ DOMAIN reader'[s].taken = DOMAIN reader[s].taken \cup {m}
          /\ reader'[s].taken[m] = count[m]
          /\ \A n \in DOMAIN reader[s].taken : n # m => reader'[s].taken[n] = reader[s].taken[n]
      <4> DEFINE new == With(reader[s].taken, m, count[m])
      <4>1. /\ DOMAIN new = DOMAIN reader[s].taken \cup {m} /\ new[m] = count[m]
            /\ \A n \in DOMAIN reader[s].taken : n # m => new[n] = reader[s].taken[n]
        BY DEF With
      <4>2. reader'[s].taken = new
        BY <2>2
      <4> HIDE DEF new
      <4> QED
        BY <4>1, <4>2
    <3>2. \A n \in DOMAIN reader[s].taken \ {Self} : reader[s].taken[n] = reader[s].since[n]
      BY <2>1 DEF Whole
    <3> QED
      BY <2>2, <2>4, <3>1, <3>2
  <2>6. Calm(s)'
    BY <2>1, <2>2, CalmStays
  <2> QED
    BY <2>1, <2>2, <2>5, <2>6 DEF Whole
<1>5. ASSUME NEW m \in Metric, WriteOut(s, m)  PROVE Calm(s)' /\ Whole(s)'
  <2>1. /\ reader[s].pc = "read"
        /\ \E p \in {"read", "done"} :
             reader'[s] = [reader[s] EXCEPT !.pc = p, !.written = With(@, m, bucket[m])]
    BY <1>0, <1>5, WriteFact DEF Owners
  <2>2. /\ reader'[s].since = reader[s].since /\ reader'[s].taken = reader[s].taken
        /\ reader'[s].written = With(reader[s].written, m, bucket[m])
    BY <1>0, <2>1 DEF ReaderState
  <2>3. reader[s].written \in Counts /\ bucket[m] \in Nat
    BY <1>0 DEF ReaderState, Owners, TypeOK
  <2>4. m # Self => bucket[m] = reader[s].since[m]
    BY <2>1, NamesApart, Standing DEF Calm
  <2>5. \A n \in DOMAIN reader'[s].written \ {Self} : reader'[s].written[n] = reader'[s].since[n]
    <3>1. /\ DOMAIN reader'[s].written = DOMAIN reader[s].written \cup {m}
          /\ reader'[s].written[m] = bucket[m]
          /\ \A n \in DOMAIN reader[s].written : n # m => reader'[s].written[n] = reader[s].written[n]
      <4> DEFINE new == With(reader[s].written, m, bucket[m])
      <4>1. /\ DOMAIN new = DOMAIN reader[s].written \cup {m} /\ new[m] = bucket[m]
            /\ \A n \in DOMAIN reader[s].written : n # m => new[n] = reader[s].written[n]
        BY DEF With
      <4>2. reader'[s].written = new
        BY <2>2
      <4> HIDE DEF new
      <4> QED
        BY <4>1, <4>2
    <3>2. \A n \in DOMAIN reader[s].written \ {Self} : reader[s].written[n] = reader[s].since[n]
      BY <2>1 DEF Whole
    <3> QED
      BY <2>2, <2>4, <3>1, <3>2
  <2>6. Calm(s)'
    BY <2>1, <2>2, CalmStays
  <2> QED
    BY <2>1, <2>2, <2>5, <2>6 DEF Whole
<1> QED
  BY <1>0, <1>1, <1>2, <1>3, <1>4, <1>5, ReaderStep

-----------------------------------------------------------------------------
(* Copies.                                                                 *)

(* The copy has metrics of its query only, as they stand.                  *)
Copying(q) ==
  /\ pc[q] # "copy" => reader[q] = NotReading
  /\ reader[q].left \subseteq Metrics[q]
  /\ DOMAIN reader[q].written \subseteq DOMAIN reader[q].taken
  /\ \A m \in DOMAIN reader[q].taken : m \in Metrics[q] /\ reader[q].taken[m] = count[m]
  /\ \A m \in DOMAIN reader[q].written : reader[q].written[m] = count[m]

Copies == \A q \in Query : Copying(q)

(* Until the copy is in the push queue its query waits, and its metrics    *)
(* stand.                                                                  *)
LEMMA CopyWaits ==
  ASSUME Owners, [Next]_vars, NEW q \in Query, pc[q] = "copy"
  PROVE  /\ \A m \in Metrics[q] : count'[m] = count[m]
         /\ ~Copied(q) => pc'[q] = "copy"
<1>1. \A m \in Metrics[q] : count'[m] = count[m]
  BY OnlyTheOwner, OtherOwner, MetricFact DEF Owners, Locked
<1>2. ASSUME ~Copied(q)  PROVE pc'[q] = "copy"
  <2>1. ASSUME NEW p \in Query, GetAnswer(p) \/ Lock(p) \/ Unlock(p) \/ Panic(p) \/ Copied(p)
        PROVE  pc'[q] = "copy"
    <3>1. p # q
      BY <1>2, <2>1 DEF GetAnswer, Lock, Unlock, Panic
    <3> QED
      BY <2>1, <3>1 DEF GetAnswer, Lock, Unlock, Panic, Copied, Owners, TypeOK
  <2> QED
    BY <2>1
       DEF Next, Evaluation, Reading, UpdateBuckets, UpdateCount, Gather, Answered, Collect,
       WriteOut, ObserveSelf, vars
<1> QED
  BY <1>1, <1>2

LEMMA CopyStep ==
  ASSUME Owners, ReaderOK, [Next]_vars, NEW q \in Query, Copying(q)
  PROVE  Copying(q)'
<1>0. q \in Reader /\ q \notin Scraper /\ reader[q] \in ReaderState
  BY NamesApart DEF ReaderOK
<1>1. CASE Unlock(q)
  <2>1. pc'[q] = "copy" /\ reader'[q] = Reads(Metrics[q]) /\ Metrics[q] \in SUBSET Metric
    BY <1>0, <1>1, MetricFact DEF Unlock, ReaderOK, Owners, TypeOK
  <2>2. /\ reader'[q].left = Metrics[q]
        /\ DOMAIN reader'[q].taken = {} /\ DOMAIN reader'[q].written = {}
    BY <2>1, ReadsFact DEF Owners
  <2> QED
    BY <2>1, <2>2 DEF Copying
<1>2. CASE Copied(q)
  <2>1. reader'[q] = NotReading
    BY <1>0, <1>2 DEF Copied, ReaderOK
  <2> QED
    BY <2>1, NotReadingFact DEF Copying
<1>3. CASE reader'[q] = reader[q] /\ ~Copied(q)
  <2>1. CASE pc[q] = "copy"
    <3>1. pc'[q] = "copy" /\ \A m \in Metrics[q] : count'[m] = count[m]
      BY <1>3, <2>1, CopyWaits
    <3> QED
      BY <1>3, <3>1 DEF Copying
  <2>2. CASE pc[q] # "copy"
    <3>1. reader'[q] = NotReading
      BY <1>3, <2>2 DEF Copying
    <3> QED
      BY <3>1, NotReadingFact DEF Copying
  <2> QED
    BY <2>1, <2>2
<1>4. ASSUME NEW m \in Metric, Collect(q, m)  PROVE Copying(q)'
  <2> DEFINE new == With(reader[q].taken, m, count[m])
  <2>1. /\ reader[q].pc = "read" /\ m \in reader[q].left
        /\ reader'[q] = [reader[q] EXCEPT !.left = @ \ {m}, !.taken = new]
        /\ UNCHANGED <<pc, count>>
    BY <1>0, <1>4, CollectFact DEF Owners, Collect
  <2>2. reader[q].taken \in Counts /\ count[m] \in Nat
    BY <1>0 DEF ReaderState, Owners, TypeOK
  <2>3. /\ DOMAIN new = DOMAIN reader[q].taken \cup {m} /\ new[m] = count[m]
        /\ \A n \in DOMAIN reader[q].taken : n # m => new[n] = reader[q].taken[n]
    BY DEF With
  <2> HIDE DEF new
  <2>4. /\ reader'[q].left \subseteq reader[q].left /\ reader'[q].taken = new
        /\ reader'[q].written = reader[q].written
    BY <1>0, <2>1 DEF ReaderState
  <2>5. pc'[q] = "copy"
    BY <2>1, NotReadingFact DEF Copying
  <2> QED
    BY <2>1, <2>3, <2>4, <2>5 DEF Copying
<1>5. ASSUME NEW m \in Metric, WriteOut(q, m)  PROVE Copying(q)'
  <2> DEFINE new == With(reader[q].written, m, bucket[m])
  <2>1. /\ reader[q].pc = "read" /\ m \in DOMAIN reader[q].taken
        /\ \E p \in {"read", "done"} : reader'[q] = [reader[q] EXCEPT !.pc = p, !.written = new]
        /\ UNCHANGED <<pc, count>>
    BY <1>0, <1>5, WriteFact DEF Owners, WriteOut
  <2>2. reader[q].written \in Counts /\ bucket[m] \in Nat
    BY <1>0 DEF ReaderState, Owners, TypeOK
  <2>3. /\ DOMAIN new = DOMAIN reader[q].written \cup {m} /\ new[m] = bucket[m]
        /\ \A n \in DOMAIN reader[q].written : n # m => new[n] = reader[q].written[n]
    BY DEF With
  <2> HIDE DEF new
  <2>4. /\ reader'[q].left = reader[q].left /\ reader'[q].taken = reader[q].taken
        /\ reader'[q].written = new
    BY <1>0, <2>1 DEF ReaderState
  <2>5. pc[q] = "copy" /\ pc'[q] = "copy"
    BY <2>1, NotReadingFact DEF Copying
  <2>6. m \in Metrics[q] /\ bucket[m] = count[m]
    BY <2>1, <2>5, OwnStanding DEF Copying
  <2> QED
    BY <2>1, <2>3, <2>4, <2>5, <2>6 DEF Copying
<1> QED
  BY <1>0, <1>1, <1>2, <1>3, <1>4, <1>5, ReaderStep

-----------------------------------------------------------------------------
(* The theorems.                                                           *)

Wholes == \A s \in Scraper : Whole(s)

IInv == Owners /\ ReaderOK /\ Scrapes /\ Wholes /\ Copies

LEMMA InitIInv == Init => IInv
<1> SUFFICES ASSUME Init PROVE IInv
  OBVIOUS
<1>1. \A r \in Reader : reader[r] = NotReading
  BY DEF Init
<1>2. ReaderOK
  BY NotReadingFact DEF Init, ReaderOK
<1>3. Scrapes /\ Wholes /\ Copies
  BY <1>1, NotReadingFact, NamesApart DEF Scrapes, Calm, Wholes, Whole, Copies, Copying
<1> QED
  BY <1>2, <1>3, InitOwners DEF IInv

LEMMA StepIInv == IInv /\ [Next]_vars => IInv'
BY StepOwners, ReaderStep, ScrapeStep, CopyStep DEF IInv, Scrapes, Wholes, Copies

(* A scrape shows the metrics of every query as they were at one moment,   *)
(* the last time the write lock was given back, with buckets that belong   *)
(* to their counts, however many queries are updated, panic or wait        *)
(* beside it: registry.go gathers under the read lock, and                 *)
(* metricsevaluator.go updates under the write lock.                       *)
THEOREM ScrapesAreWhole == Spec => []ScrapeIsWhole
<1>1. Wholes => ScrapeIsWhole
  BY DEF Wholes, Whole, ScrapeIsWhole
<1> QED
  BY <1>1, InitIInv, StepIInv, PTL DEF Spec, IInv

(* What is pushed for a window is that window of its own query, although   *)
(* the copy is made from the live registry after the lock was given back   *)
(* (metricsevaluator.go, startGoroutine): the query itself waits for its   *)
(* copy, and nobody else changes its metrics.                              *)
THEOREM CopiesAreOwn == Spec => []CopyIsOwnWindow
<1>1. IInv => CopyIsOwnWindow
  <2> SUFFICES ASSUME IInv, NEW q \in Query, NEW m \in DOMAIN reader[q].written
               PROVE  /\ reader[q].taken[m] = reader[q].written[m]
                      /\ windows[q] <= reader[q].written[m]
                      /\ reader[q].written[m] <= windows[q] + budget.panics
    BY DEF CopyIsOwnWindow
  <2>1. /\ m \in Metrics[q] /\ reader[q].written[m] = count[m]
        /\ reader[q].taken[m] = count[m]
    BY DEF IInv, Copies, Copying
  <2>2. pc[q] = "copy"
    BY NotReadingFact DEF IInv, Copies, Copying
  <2>3. Updated(q, m) = windows[q]
    BY <2>2 DEF Updated
  <2> QED
    BY <2>1, <2>3 DEF IInv, Owners, Fed
<1> QED
  BY <1>1, InitIInv, StepIInv, PTL DEF Spec

-----------------------------------------------------------------------------
(* The self metrics, SM for short.  Copies are made in the order of time   *)
(* and keep it: each in the queue is not ahead of the next (Queued), the   *)
(* one the pusher holds not of the queue (Held), and the one at the target *)
(* not of any of them, nor of the one that is being made (Passed).  A      *)
(* retry sends the copy that is held, and puts nothing back into the       *)
(* queue.                                                                  *)

(* No two jobs at the same time, and a queue with a capacity.              *)
OneJob == \A i, j \in Jobs : i = j
Capacities == \A s \in Settings : s.capacity \in Nat

Copy == [time : Nat, value : Nat, floor : Nat]

Holding == {"length", "gauge", "send"}

SelfTypes ==
  /\ setting.capacity \in Nat /\ time \in Nat /\ total \in Nat
  /\ queue \in Seq(Copy) /\ pushed \in Copy
  /\ job \in [Jobs -> [pc : {"idle", "stamp", "read", "put", "length", "gauge"},
                       copy : Copy, seen : Nat]]
  /\ push \in [pc : {"loop", "parked", "restart"} \cup Holding, copy : Copy, seen : Nat]

(* A copy is not ahead of another one.  Times that the target gives are    *)
(* not those of the copies.                                                *)
NotAfter(c, d) == c.value <= d.value /\ (~setting.disableTimestamp => c.time <= d.time)

(* It has what was counted until its time, and nothing that was not.       *)
Sound(c) == c.floor <= c.value /\ c.value <= total /\ c.time <= time

(* The copy that is made is not behind it.                                 *)
Passed(c) ==
  \A j \in Jobs :
    /\ job[j].pc = "read" /\ ~setting.disableTimestamp => c.time <= job[j].copy.time
    /\ job[j].pc = "put" => NotAfter(c, job[j].copy)

Making ==
  \A j \in Jobs :
    /\ job[j].pc = "read" => job[j].copy.floor <= total /\ job[j].copy.time <= time
    /\ job[j].pc = "put" => Sound(job[j].copy)

Queued ==
  /\ \A i \in 1..Len(queue) : Sound(queue[i]) /\ Passed(queue[i]) /\ NotAfter(pushed, queue[i])
  /\ \A i, k \in 1..Len(queue) : i < k => NotAfter(queue[i], queue[k])

Held ==
  push.pc \in Holding =>
    /\ Sound(push.copy) /\ Passed(push.copy) /\ NotAfter(pushed, push.copy)
    /\ \A i \in 1..Len(queue) : NotAfter(push.copy, queue[i])

SelfInv == SelfTypes /\ Making /\ Queued /\ Held /\ Sound(pushed) /\ Passed(pushed)

LEMMA LengthNat == SelfTypes => SM!Length \in Nat
<1> SUFFICES ASSUME SelfTypes PROVE SM!Length \in Nat
  OBVIOUS
<1>1. Len(queue) \in Nat /\ setting.capacity \in Nat
  BY DEF SelfTypes
<1>2. \E x \in {Len(queue), setting.capacity} :
        \A y \in {Len(queue), setting.capacity} : x <= y
  BY <1>1
<1> QED
  BY <1>1, <1>2 DEF SM!Length, SM!Min

LEMMA SelfInitInv == Capacities /\ SM!Init => SelfInv
BY
   DEF Capacities, SM!Init, SelfInv, SelfTypes, Copy, SM!Nothing, SM!Idle, Holding, Making,
       Queued, Held, Sound,
   Passed, NotAfter

(* The clock and the counter go on.                                        *)
LEMMA LaterFact ==
  ASSUME SelfInv, time' \in Nat, total' \in Nat, time <= time', total <= total',
         UNCHANGED <<setting, job, queue, pushed>>, push'.copy = push.copy,
         push' \in [pc : {"loop", "parked", "restart"} \cup Holding, copy : Copy, seen : Nat],
         push'.pc \in Holding => push.pc \in Holding
  PROVE  SelfInv'
<1> USE DEF SelfInv
<1>1. SelfTypes'
  BY DEF SelfTypes
<1>2. ASSUME NEW c \in Copy
      PROVE  (Sound(c) => Sound(c)') /\ (Passed(c) => Passed(c)')
  BY DEF Sound, Passed, NotAfter, Copy, SelfTypes
<1>3. Making'
  BY <1>2 DEF Making, SelfTypes, Copy, Sound
<1>4. /\ \A i \in 1..Len(queue) : queue[i] \in Copy
      /\ push.copy \in Copy /\ pushed \in Copy
  BY ElementOfSeq DEF SelfTypes
<1>5. Queued'
  BY <1>2, <1>4 DEF Queued, NotAfter
<1>6. Held'
  BY <1>2, <1>4 DEF Held, NotAfter
<1>7. Sound(pushed)' /\ Passed(pushed)'
  BY <1>2, <1>4
<1> QED
  BY <1>1, <1>3, <1>5, <1>6, <1>7

LEMMA ElementsFact ==
  SelfTypes => \A i \in 1..Len(queue) : queue[i] \in Copy
BY ElementOfSeq DEF SelfTypes

JobStates ==
  [Jobs -> [pc : {"idle", "stamp", "read", "put", "length", "gauge"}, copy : Copy, seen : Nat]]

(* A job that has no copy in the making.                                   *)
LEMMA JobWithout ==
  ASSUME OneJob, SelfInv, NEW j \in Jobs, job' \in JobStates, job'[j].pc \notin {"read", "put"},
         UNCHANGED <<setting, time, total, queue, push, pushed>>
  PROVE  SelfInv'
<1> USE DEF SelfInv
<1>1. SelfTypes'
  BY DEF SelfTypes, JobStates
<1>2. \A k \in Jobs : job'[k].pc \notin {"read", "put"}
  BY DEF OneJob
<1>3. Making' /\ \A c : Passed(c)'
  BY <1>2 DEF Making, Passed
<1>4. \A c : Sound(c) => Sound(c)'
  BY DEF Sound
<1>5. \A c, d : NotAfter(c, d) => NotAfter(c, d)'
  BY DEF NotAfter
<1>6. Queued' /\ Held' /\ Sound(pushed)'
  <2>1. Queued'
    BY <1>3, <1>4, <1>5 DEF Queued
  <2>2. Held'
    BY <1>3, <1>4, <1>5 DEF Held
  <2> QED
    BY <1>4, <2>1, <2>2
<1> QED
  BY <1>1, <1>3, <1>6

LEMMA JobStamps ==
  ASSUME OneJob, SelfInv, NEW j \in Jobs, SM!Stamp(j)
  PROVE  SelfInv'
<1> USE DEF SelfInv
<1> DEFINE copy == [time |-> time, value |-> 0, floor |-> total]
<1>1. /\ job'[j].pc = "read" /\ job'[j].copy = copy /\ job' \in JobStates
      /\ UNCHANGED <<setting, time, total, queue, push, pushed>>
  BY DEF SM!Stamp, SelfTypes, JobStates, Copy
<1>2. SelfTypes'
  BY <1>1 DEF SelfTypes, JobStates
<1>3. \A k \in Jobs : job'[k].pc = "read" /\ job'[k].copy = copy
  BY <1>1 DEF OneJob
<1>4. Making' /\ \A c : Sound(c) => Passed(c)'
  BY <1>1, <1>3 DEF Making, Passed, Sound, SelfTypes
<1>5. \A c : Sound(c) <=> Sound(c)'
  BY <1>1 DEF Sound
<1>6. Queued' /\ Held' /\ Sound(pushed)' /\ Passed(pushed)'
  BY <1>1, <1>4, <1>5 DEF Queued, Held, NotAfter
<1> QED
  BY <1>2, <1>4, <1>6

LEMMA JobReads ==
  ASSUME OneJob, SelfInv, NEW j \in Jobs, SM!Read(j)
  PROVE  SelfInv'
<1> USE DEF SelfInv
<1>1. /\ job[j].pc = "read" /\ job \in JobStates
      /\ UNCHANGED <<setting, time, total, queue, push, pushed>>
  BY DEF SM!Read, SelfTypes, JobStates
<1>2. /\ job'[j].pc = "put" /\ job'[j].copy = [job[j].copy EXCEPT !.value = total]
      /\ job' \in JobStates
  <2> DEFINE read == [job[j] EXCEPT !.pc = "put", !.copy.value = total]
  <2>1. job' = [job EXCEPT ![j] = read]
    BY DEF SM!Read
  <2>2. read.pc = "put" /\ read.copy = [job[j].copy EXCEPT !.value = total]
    BY <1>1 DEF JobStates
  <2>3. [job[j].copy EXCEPT !.value = total] \in Copy
    BY <1>1 DEF JobStates, Copy, SelfTypes
  <2>4. read \in [pc : {"idle", "stamp", "read", "put", "length", "gauge"},
                  copy : Copy, seen : Nat]
    BY <1>1, <2>3 DEF JobStates
  <2> HIDE DEF read
  <2>5. job'[j] = read /\ job' \in JobStates
    BY <1>1, <2>1, <2>4 DEF JobStates
  <2> QED
    BY <2>2, <2>5
<1>3. /\ job'[j].copy.time = job[j].copy.time /\ job'[j].copy.floor = job[j].copy.floor
      /\ job'[j].copy.value = total
  BY <1>1, <1>2 DEF Copy, JobStates
<1>4. SelfTypes'
  BY <1>1, <1>2 DEF SelfTypes, JobStates
<1>5. \A k \in Jobs : k = j
  BY DEF OneJob
<1>6. Making'
  <2>1. job[j].copy.floor <= total /\ job[j].copy.time <= time
    BY <1>1 DEF Making
  <2>2. total <= total
    BY DEF SelfTypes
  <2>3. Sound(job[j].copy)'
    BY <1>1, <1>3, <2>1, <2>2 DEF Sound
  <2> QED
    BY <1>2, <1>5, <2>3 DEF Making
<1>7. \A c : Sound(c) /\ Passed(c) => Passed(c)'
  BY <1>1, <1>2, <1>3, <1>5 DEF Passed, Sound, NotAfter
<1>8. \A c : Sound(c) <=> Sound(c)'
  BY <1>1 DEF Sound
<1>9. Queued' /\ Held' /\ Sound(pushed)' /\ Passed(pushed)'
  BY <1>1, <1>7, <1>8 DEF Queued, Held, NotAfter
<1> QED
  BY <1>4, <1>6, <1>9

(* The copy goes to the end of the queue: what is there has passed it.     *)
LEMMA JobPuts ==
  ASSUME OneJob, SelfInv, NEW j \in Jobs, SM!Put(j), SM!Room
  PROVE  SelfInv'
<1> USE DEF SelfInv
<1> DEFINE copy == job[j].copy
           n == Len(queue)
<1>1. /\ job[j].pc = "put" /\ queue' = Append(queue, copy)
      /\ job' \in JobStates /\ job'[j].pc = "length"
      /\ UNCHANGED <<setting, time, total, push, pushed>>
  <2>1. job \in JobStates
    BY DEF SelfTypes, JobStates
  <2>2. job' = [job EXCEPT ![j].pc = "length"]
    BY DEF SM!Put
  <2>3. job' \in JobStates /\ job'[j].pc = "length"
    BY <2>1, <2>2 DEF JobStates
  <2> QED
    BY <2>3 DEF SM!Put
<1>2. copy \in Copy /\ queue \in Seq(Copy) /\ n \in Nat
  BY DEF SelfTypes
<1>3. /\ queue' \in Seq(Copy) /\ Len(queue') = n + 1 /\ queue'[n + 1] = copy
      /\ \A i \in 1..n : queue'[i] = queue[i]
  BY <1>1, <1>2, AppendProperties
<1>4. \A i \in 1..n + 1 : i \in 1..n \/ i = n + 1
  BY <1>2
<1>5. SelfTypes'
  BY <1>1, <1>3 DEF SelfTypes, JobStates
<1>6. \A k \in Jobs : job'[k].pc \notin {"read", "put"}
  BY <1>1 DEF OneJob
<1>7. Making' /\ \A c : Passed(c)'
  BY <1>6 DEF Making, Passed
<1>8. /\ \A c : Sound(c) <=> Sound(c)'
      /\ \A c, d : NotAfter(c, d) <=> NotAfter(c, d)'
  BY <1>1 DEF Sound, NotAfter
<1>9. Sound(copy) /\ \A c : Passed(c) => NotAfter(c, copy)
  BY <1>1 DEF Making, Passed
<1> HIDE DEF copy
<1>10. \A i \in 1..n + 1 : Sound(queue'[i]) /\ NotAfter(pushed, queue'[i])
  BY <1>3, <1>4, <1>9 DEF Queued
<1>11. \A i, k \in 1..n + 1 : i < k => NotAfter(queue'[i], queue'[k])
  <2> SUFFICES ASSUME NEW i \in 1..n + 1, NEW k \in 1..n + 1, i < k
               PROVE  NotAfter(queue'[i], queue'[k])
    OBVIOUS
  <2>1. i \in 1..n
    BY <1>2
  <2>2. CASE k \in 1..n
    BY <1>3, <2>1, <2>2 DEF Queued
  <2>3. CASE k = n + 1
    BY <1>3, <1>9, <2>1, <2>3 DEF Queued
  <2> QED
    BY <1>4, <2>2, <2>3
<1>12. Queued'
  BY <1>1, <1>3, <1>7, <1>8, <1>10, <1>11 DEF Queued
<1>13. Held'
  <2> SUFFICES ASSUME push.pc \in Holding PROVE Held'
    BY <1>1 DEF Held
  <2>1. \A i \in 1..n + 1 : NotAfter(push.copy, queue'[i])
    BY <1>3, <1>4, <1>9 DEF Held
  <2> QED
    BY <1>1, <1>3, <1>7, <1>8, <2>1 DEF Held
<1> QED
  BY <1>1, <1>5, <1>7, <1>8, <1>12, <1>13

LEMMA JobInv ==
  ASSUME OneJob, SelfInv, NEW j \in Jobs, SM!Fire(j) \/ SM!JobStep(j)
  PROVE  SelfInv'
<1>1. SM!Nothing \in Copy /\ SM!Idle \in [pc : {"idle"}, copy : Copy, seen : Nat] /\ SM!Length \in Nat
  BY LengthNat DEF SM!Nothing, SM!Idle, Copy, SelfInv
<1>2. job \in JobStates
  BY DEF SelfInv, SelfTypes, JobStates
<1>3. CASE SM!Fire(j)
  <2>1. job' \in JobStates /\ job'[j].pc = "stamp"
    BY <1>2, <1>3 DEF SM!Fire, JobStates
  <2> QED
    BY <1>3, <2>1, JobWithout DEF SM!Fire
<1>4. CASE SM!Put(j) /\ ~SM!Room
  <2>1. job' \in JobStates /\ job'[j].pc = "idle"
    BY <1>1, <1>2, <1>4 DEF SM!Put, JobStates, SM!Idle
  <2> QED
    BY <1>4, <2>1, JobWithout DEF SM!Put
<1>5. CASE SM!JobReadsLength(j)
  <2>1. job' \in JobStates /\ job'[j].pc = "gauge"
    BY <1>1, <1>2, <1>5 DEF SM!JobReadsLength, JobStates
  <2> QED
    BY <1>5, <2>1, JobWithout DEF SM!JobReadsLength
<1>6. CASE SM!JobSetsGauge(j)
  <2>1. job' \in JobStates /\ job'[j].pc = "idle"
    BY <1>1, <1>2, <1>6 DEF SM!JobSetsGauge, JobStates, SM!Idle
  <2> QED
    BY <1>6, <2>1, JobWithout DEF SM!JobSetsGauge
<1> QED
  BY <1>3, <1>4, <1>5, <1>6, JobStamps, JobReads, JobPuts DEF SM!JobStep

-----------------------------------------------------------------------------
(* The push goroutine; it has no copy any more, or the same one.           *)
PushStates == [pc : {"loop", "parked", "restart"} \cup Holding, copy : Copy, seen : Nat]

LEMMA PushGoesOn ==
  ASSUME SelfInv, push' \in PushStates, push'.pc \in Holding => push.pc \in Holding /\ push'.copy = push.copy,
         UNCHANGED <<setting, time, total, job, queue, pushed>>
  PROVE  SelfInv'
<1> USE DEF SelfInv
<1>1. SelfTypes'
  BY DEF SelfTypes, PushStates
<1>2. /\ \A c : (Sound(c) <=> Sound(c)') /\ (Passed(c) <=> Passed(c)')
      /\ \A c, d : NotAfter(c, d) <=> NotAfter(c, d)'
  BY DEF Sound, Passed, NotAfter
<1>3. Making' /\ Queued' /\ Sound(pushed)' /\ Passed(pushed)'
  BY <1>2 DEF Making, Queued
<1>4. Held'
  BY <1>2 DEF Held
<1> QED
  BY <1>1, <1>3, <1>4

(* The head of the queue is taken.                                         *)
LEMMA PushGets ==
  ASSUME SelfInv, SM!Get
  PROVE  SelfInv'
<1> USE DEF SelfInv
<1> DEFINE m == Len(Tail(queue))
<1>1. /\ queue \in Seq(Copy) /\ queue # <<>> /\ queue' = Tail(queue)
      /\ push' = [push EXCEPT !.pc = "length", !.copy = Head(queue)]
      /\ UNCHANGED <<setting, time, total, job, pushed>>
  BY DEF SM!Get, SelfTypes
<1>2. /\ Len(queue) \in Nat /\ m \in Nat /\ Len(queue) = m + 1 /\ Head(queue) = queue[1]
      /\ queue' \in Seq(Copy) /\ \A i \in 1..m : queue'[i] = queue[i + 1]
  BY <1>1, HeadTailProperties
<1>3. Len(queue') = m
  BY <1>1
<1> HIDE DEF m
<1>4. /\ 1 \in 1..Len(queue)
      /\ \A i \in 1..m : i \in Nat /\ i + 1 \in 1..Len(queue) /\ 1 < i + 1
  BY <1>2
<1>5. Head(queue) \in Copy
  BY <1>1, <1>2, <1>4, ElementOfSeq
<1>6. push' \in PushStates /\ push'.pc = "length" /\ push'.copy = queue[1]
  BY <1>1, <1>2, <1>5 DEF SelfTypes, PushStates, Holding
<1>7. SelfTypes'
  BY <1>1, <1>2, <1>6 DEF SelfTypes, PushStates
<1>8. /\ \A c : (Sound(c) <=> Sound(c)') /\ (Passed(c) <=> Passed(c)')
      /\ \A c, d : NotAfter(c, d) <=> NotAfter(c, d)'
  BY <1>1 DEF Sound, Passed, NotAfter
<1>9. Making' /\ Sound(pushed)' /\ Passed(pushed)'
  BY <1>1, <1>8 DEF Making
<1>10. Queued'
  <2>1. \A i \in 1..m : Sound(queue'[i]) /\ Passed(queue'[i]) /\ NotAfter(pushed, queue'[i])
    BY <1>2, <1>4 DEF Queued
  <2>2. \A i, k \in 1..m : i < k => NotAfter(queue'[i], queue'[k])
    <3> SUFFICES ASSUME NEW i \in 1..m, NEW k \in 1..m, i < k
                 PROVE  NotAfter(queue[i + 1], queue[k + 1])
      BY <1>2
    <3>1. i + 1 < k + 1 /\ i + 1 \in 1..Len(queue) /\ k + 1 \in 1..Len(queue)
      BY <1>4
    <3> QED
      BY <3>1 DEF Queued
  <2> QED
    BY <1>1, <1>3, <1>8, <2>1, <2>2 DEF Queued
<1>11. Held'
  <2>1. Sound(queue[1]) /\ Passed(queue[1]) /\ NotAfter(pushed, queue[1])
    BY <1>4 DEF Queued
  <2>2. \A i \in 1..m : NotAfter(queue[1], queue'[i])
    BY <1>2, <1>4 DEF Queued
  <2> QED
    BY <1>1, <1>3, <1>6, <1>8, <2>1, <2>2 DEF Held
<1> QED
  BY <1>7, <1>9, <1>10, <1>11

(* What the target stores comes after what it has, and before the rest.    *)
LEMMA StoredFact ==
  ASSUME SelfInv, push.pc \in Holding
  PROVE  /\ SM!Stored \in Copy /\ Sound(SM!Stored) /\ Passed(SM!Stored)
         /\ SM!Stored.value >= pushed.value /\ SM!Stored.time >= pushed.time
         /\ SM!Stored.value >= SM!Stored.floor
         /\ NotAfter(SM!Stored, push.copy)
         /\ \A i \in 1..Len(queue) : NotAfter(SM!Stored, queue[i])
<1> USE DEF SelfInv
<1>1. /\ push.copy \in Copy /\ time \in Nat /\ pushed \in Copy
      /\ Sound(push.copy) /\ Passed(push.copy) /\ NotAfter(pushed, push.copy)
      /\ \A i \in 1..Len(queue) : NotAfter(push.copy, queue[i])
  BY DEF Held, SelfTypes
<1>2. /\ SM!Stored \in Copy /\ SM!Stored.value = push.copy.value /\ SM!Stored.floor = push.copy.floor
      /\ ~setting.disableTimestamp => SM!Stored = push.copy
      /\ setting.disableTimestamp => SM!Stored.time = time
  BY <1>1 DEF SM!Stored, Copy
<1>3. /\ \A c : NotAfter(push.copy, c) => NotAfter(SM!Stored, c)
      /\ Passed(push.copy) => Passed(SM!Stored)
  BY <1>2 DEF NotAfter, Passed
<1>4. Sound(SM!Stored)
  BY <1>1, <1>2 DEF Sound
<1>5. NotAfter(SM!Stored, push.copy)
  BY <1>1, <1>2 DEF NotAfter, Copy
<1>6. SM!Stored.value >= pushed.value /\ SM!Stored.value >= SM!Stored.floor
  BY <1>1, <1>2 DEF NotAfter, Sound, Copy
<1>7. SM!Stored.time >= pushed.time
  <2>1. CASE setting.disableTimestamp
    BY <1>1, <1>2, <2>1 DEF Sound, Copy
  <2>2. CASE ~setting.disableTimestamp
    BY <1>1, <1>2, <2>2 DEF NotAfter, Copy
  <2> QED
    BY <2>1, <2>2
<1> QED
  BY <1>1, <1>2, <1>3, <1>4, <1>5, <1>6, <1>7

(* The target stores the copy, and the goroutine may keep it.              *)
LEMMA PushStores ==
  ASSUME SelfInv, push.pc \in Holding, pushed' = SM!Stored, push' \in PushStates,
         push'.pc \in Holding => push'.copy = push.copy,
         UNCHANGED <<setting, time, total, job, queue>>
  PROVE  SelfInv'
<1> USE DEF SelfInv
<1>1. /\ SM!Stored \in Copy /\ Sound(SM!Stored) /\ Passed(SM!Stored) /\ NotAfter(SM!Stored, push.copy)
      /\ \A i \in 1..Len(queue) : NotAfter(SM!Stored, queue[i])
  BY StoredFact
<1>2. SelfTypes'
  BY <1>1 DEF SelfTypes, PushStates
<1>3. /\ \A c : (Sound(c) <=> Sound(c)') /\ (Passed(c) <=> Passed(c)')
      /\ \A c, d : NotAfter(c, d) <=> NotAfter(c, d)'
  BY DEF Sound, Passed, NotAfter
<1>4. Making' /\ Sound(pushed)' /\ Passed(pushed)'
  BY <1>1, <1>3 DEF Making
<1>5. Queued'
  BY <1>1, <1>3 DEF Queued
<1>6. Held'
  BY <1>1, <1>3 DEF Held
<1> QED
  BY <1>2, <1>4, <1>5, <1>6

LEMMA PushInv ==
  ASSUME SelfInv, SM!PushStep \/ SM!Panic
  PROVE  SelfInv'
<1>1. /\ push \in PushStates /\ SM!Nothing \in Copy /\ SM!Length \in Nat
  BY LengthNat DEF SelfInv, SelfTypes, PushStates, SM!Nothing, Copy
<1>2. CASE SM!Park \/ SM!PushReadsLength \/ SM!PushSetsGauge \/ SM!Panic
  <2>1. /\ push' \in PushStates
        /\ push'.pc \in Holding => push.pc \in Holding /\ push'.copy = push.copy
    <3>1. CASE SM!Park
      BY <1>1, <3>1 DEF SM!Park, PushStates, Holding
    <3>2. CASE SM!PushReadsLength
      BY <1>1, <3>2 DEF SM!PushReadsLength, PushStates, Holding
    <3>3. CASE SM!PushSetsGauge
      BY <1>1, <3>3 DEF SM!PushSetsGauge, PushStates, Holding
    <3>4. CASE SM!Panic
      BY <1>1, <3>4 DEF SM!Panic, PushStates, Holding
    <3> QED
      BY <1>2, <3>1, <3>2, <3>3, <3>4
  <2> QED
    BY <1>2, <2>1, PushGoesOn DEF SM!Park, SM!PushReadsLength, SM!PushSetsGauge, SM!Panic
<1>3. CASE SM!Accept
  <2>1. push' \in PushStates /\ push'.pc = "loop" /\ push.pc \in Holding
    BY <1>1, <1>3 DEF SM!Accept, PushStates, Holding
  <2> QED
    BY <1>3, <2>1, PushStores DEF SM!Accept, Holding
<1>4. CASE SM!Error
  <2>1. /\ push' \in PushStates /\ push.pc \in Holding
        /\ push'.pc \in Holding => push'.copy = push.copy
    BY <1>1, <1>4 DEF SM!Error, PushStates, Holding
  <2>2. CASE pushed' = pushed
    BY <1>4, <2>1, <2>2, PushGoesOn DEF SM!Error
  <2>3. CASE pushed' = SM!Stored
    BY <1>4, <2>1, <2>3, PushStores DEF SM!Error
  <2> QED
    BY <1>4, <2>2, <2>3 DEF SM!Error
<1>5. CASE SM!Restart
  <2>1. /\ push' \in PushStates /\ push'.copy = push.copy /\ push'.pc = "loop"
        /\ total' = total + 1
        /\ UNCHANGED <<setting, time, job, queue, pushed>>
    BY <1>1, <1>5 DEF SM!Restart, PushStates
  <2>2. total' \in Nat /\ total <= total' /\ time' \in Nat /\ time <= time'
    BY <2>1 DEF SelfInv, SelfTypes
  <2> QED
    BY <2>1, <2>2, LaterFact DEF PushStates, Holding
<1> QED
  BY <1>2, <1>3, <1>4, <1>5, PushGets DEF SM!PushStep

LEMMA SelfStepInv == OneJob /\ SelfInv /\ [SM!Next]_SM!vars => SelfInv'
<1> SUFFICES ASSUME OneJob, SelfInv, [SM!Next]_SM!vars PROVE SelfInv'
  OBVIOUS
<1>1. CASE SM!Tick \/ SM!Observe
  <2>1. /\ time' \in Nat /\ total' \in Nat /\ time <= time' /\ total <= total'
        /\ UNCHANGED <<setting, job, queue, push, pushed>>
    BY <1>1 DEF SM!Tick, SM!Observe, SelfInv, SelfTypes
  <2> QED
    BY <2>1, LaterFact DEF SelfInv, SelfTypes
<1>2. CASE UNCHANGED SM!vars
  BY <1>2 DEF SM!vars, SelfInv, SelfTypes, Making, Queued, Held, Sound, Passed, NotAfter
<1> QED
  BY <1>1, <1>2, JobInv, PushInv DEF SM!Next

(* What is stored is the copy in hand, or nothing new.                     *)
LEMMA StepStores ==
  ASSUME SelfInv, [SM!Next]_SM!vars
  PROVE  pushed' = pushed \/ (push.pc \in Holding /\ pushed' = SM!Stored)
BY
   DEF SM!Next, SM!vars, SM!Tick, SM!Observe, SM!Fire, SM!JobStep, SM!Stamp, SM!Read, SM!Put,
       SM!JobReadsLength, SM!JobSetsGauge,
   SM!PushStep, SM!Park, SM!Get, SM!PushReadsLength, SM!PushSetsGauge, SM!Accept, SM!Error,
   SM!Panic, SM!Restart, Holding

(* With one job at a time: the self counter at the push target never       *)
(* falls and its samples come in the order of their times, for any         *)
(* capacity of the queue, with and without retries, whatever copies are    *)
(* lost, and however often the goroutine panics (selfmonitorscheduler.go). *)
THEOREM CounterOnlyGrows == OneJob /\ Capacities => (SM!Spec => CounterNeverFalls)
<1> SUFFICES ASSUME OneJob, Capacities PROVE SM!Spec => CounterNeverFalls
  OBVIOUS
<1>1. SM!Init => SelfInv
  BY SelfInitInv
<1>2. SelfInv /\ [SM!Next]_SM!vars => SelfInv'
  BY SelfStepInv
<1>3. ASSUME SelfInv, [SM!Next]_SM!vars
      PROVE  [/\ pushed'.value >= pushed.value
              /\ pushed'.time >= pushed.time
              /\ pushed'.value >= pushed'.floor]_SM!vars
  <2>1. pushed \in Copy /\ pushed.floor <= pushed.value
    BY <1>3 DEF SelfInv, SelfTypes, Sound
  <2> QED
    BY <1>3, <2>1, StepStores, StoredFact DEF Copy
<1> QED
  BY <1>1, <1>2, <1>3, PTL DEF SM!Spec, CounterNeverFalls, SM!CounterNeverFalls
=============================================================================

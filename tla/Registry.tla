------------------------------ MODULE Registry ------------------------------
(***************************************************************************)
(* The metric registries and who reads and writes them.  Every query has a *)
(* registry, and so have the metrics of the exporter about itself.  The    *)
(* evaluation goroutine of a query updates the metrics of the query under  *)
(* the write lock of all registries, gives the lock back even if it        *)
(* panics, and then copies the query's own registry without a lock for the *)
(* push.  A scrape gathers all registries under the read lock.  The        *)
(* datasource goroutines observe the self metrics under no lock but the    *)
(* collector's own.                                                        *)
(*                                                                         *)
(* A metric is a histogram with one series.  A constant metric made by the *)
(* collector has the count of the moment it was made, but shares the map   *)
(* of the buckets with the collector: a reader takes the constant metric   *)
(* first and reads the buckets when it is written out.                     *)
(***************************************************************************)
EXTENDS Integers

CONSTANTS
  NoQuery,      \* the write lock is free
  Query,        \* queries
  Scraper,      \* concurrent requests for the metrics
  Self,         \* the histogram in the registry of the self metrics
  Metrics,      \* Metrics[q]: metrics of query q
  MaxPanics,    \* bound: panics of the evaluation
  MaxEvents     \* bound: answers, scrapes, panics and observations of the
                \* self metric together

(* A metric is in the registry of one query, or is about the exporter; of  *)
(* a metric that two queries evaluate the validator says that its          *)
(* behaviour is undefined (validator.go:247).                              *)
ASSUME NamesAssumption ==
  /\ NoQuery \notin Query
  /\ Query \cap Scraper = {}
  /\ \A q \in Query : Self \notin Metrics[q]
  /\ \A p, q \in Query : p # q => Metrics[p] \cap Metrics[q] = {}

QueryMetric == UNION {Metrics[q] : q \in Query}
Metric == QueryMetric \cup {Self}

VARIABLES
  writer,     \* query that holds the write lock of the registries
  pc,         \* evaluation goroutine: "get", "lock", "update" or "copy"
  left,       \* metrics of the window still to be updated
  observing,  \* metrics with buckets that are ahead of their constant metric
  bucket,     \* live map: observations in the buckets of a metric
  count,      \* constant metric: count of a metric
  reader,     \* scrapes and copies: metrics left, taken and written out,
              \* and a ghost: what was released when the reader began
  released,   \* ghost: counts when the write lock was last given back
  windows,    \* ghost: windows of each query that were updated to the end
  budget      \* events so far, and panics among them

Reader == Scraper \cup Query

vars == <<writer, pc, left, observing, bucket, count, reader, released, windows, budget>>

NotReading == [pc |-> "idle", left |-> {}, since |-> <<>>, taken |-> <<>>, written |-> <<>>]
Reads(metrics) == [NotReading EXCEPT !.pc = "read", !.left = metrics, !.since = released]

Init ==
  /\ writer = NoQuery
  /\ pc = [q \in Query |-> "get"]
  /\ left = [q \in Query |-> {}]
  /\ observing = {}
  /\ bucket = [m \in Metric |-> 0]
  /\ count = [m \in Metric |-> 0]
  /\ reader = [r \in Reader |-> NotReading]
  /\ released = count
  /\ windows = [q \in Query |-> 0]
  /\ budget = [events |-> 0, panics |-> 0]

Scraping(s) == reader[s].pc = "read"

(* The function f with value v at m.                                       *)
With(f, m, v) == [x \in DOMAIN f \cup {m} |-> IF x = m THEN v ELSE f[x]]

(* An answer arrives; the goroutine asks for the write lock.               *)
GetAnswer(q) ==
  /\ pc[q] = "get"
  /\ budget.events < MaxEvents
  /\ pc' = [pc EXCEPT ![q] = "lock"]
  /\ budget' = [budget EXCEPT !.events = @ + 1]
  /\ UNCHANGED <<writer, left, observing, bucket, count, reader, released, windows>>

(* Mutant: an update does not wait for scrapes.                            *)
WritableBesideScrapes == writer = NoQuery

(* The write lock waits for the lock of another query and for scrapes.     *)
Writable == writer = NoQuery /\ \A s \in Scraper : ~Scraping(s)

Lock(q) ==
  /\ pc[q] = "lock"
  /\ Writable
  /\ writer' = q
  /\ left' = [left EXCEPT ![q] = Metrics[q]]
  /\ pc' = [pc EXCEPT ![q] = "update"]
  /\ UNCHANGED <<observing, bucket, count, reader, released, windows, budget>>

(* Observe, first half: the buckets, in the map shared with readers.       *)
ObserveBuckets(m) ==
  /\ m \notin observing
  /\ observing' = observing \cup {m}
  /\ bucket' = [bucket EXCEPT ![m] = @ + 1]

(* Mutant: a count starts again in every window.                           *)
ObserveOne(m) ==
  /\ m \in observing
  /\ observing' = observing \ {m}
  /\ count' = [count EXCEPT ![m] = 1]

(* Observe, second half: a new constant metric replaces the old one.       *)
ObserveCount(m) ==
  /\ m \in observing
  /\ observing' = observing \ {m}
  /\ count' = [count EXCEPT ![m] = bucket[m]]

UpdateBuckets(q, m) ==
  /\ pc[q] = "update"
  /\ m \in left[q]
  /\ left[q] \cap observing = {}
  /\ ObserveBuckets(m)
  /\ UNCHANGED <<writer, pc, left, count, reader, released, windows, budget>>

UpdateCount(q, m) ==
  /\ pc[q] = "update"
  /\ m \in left[q]
  /\ ObserveCount(m)
  /\ left' = [left EXCEPT ![q] = @ \ {m}]
  /\ UNCHANGED <<writer, pc, bucket, reader, released, windows, budget>>

(* All metrics of the query are updated.                                   *)
Unlock(q) ==
  /\ pc[q] = "update"
  /\ left[q] = {}
  /\ writer' = NoQuery
  /\ released' = count
  /\ windows' = [windows EXCEPT ![q] = @ + 1]
  /\ pc' = [pc EXCEPT ![q] = "copy"]
  /\ reader' = [reader EXCEPT ![q] = Reads(Metrics[q])]
  /\ UNCHANGED <<left, observing, bucket, count, budget>>

(* Mutant: the unlock is not deferred.                                     *)
PanicKeepsLock(q) == UNCHANGED <<writer, released>>

(* The unlock is deferred: it also happens when the stack unwinds.         *)
PanicUnlocks(q) ==
  /\ writer' = NoQuery
  /\ released' = count

Panic(q) ==
  /\ pc[q] = "update"
  /\ left[q] \cap observing = {}
  /\ budget.events < MaxEvents /\ budget.panics < MaxPanics
  /\ PanicUnlocks(q)
  /\ left' = [left EXCEPT ![q] = {}]
  /\ pc' = [pc EXCEPT ![q] = "get"]
  /\ budget' = [events |-> budget.events + 1, panics |-> budget.panics + 1]
  /\ UNCHANGED <<observing, bucket, count, reader, windows>>

(* The copy of the query's registry is there and goes to the push queue.   *)
Copied(q) ==
  /\ pc[q] = "copy"
  /\ reader[q].pc = "done"
  /\ reader' = [reader EXCEPT ![q] = NotReading]
  /\ pc' = [pc EXCEPT ![q] = "get"]
  /\ UNCHANGED <<writer, left, observing, bucket, count, released, windows, budget>>

(* The read lock waits for the writer.                                     *)
Readable == writer = NoQuery

(* Gather: one registry after the other, under one read lock.              *)
Gather(s) ==
  /\ reader[s].pc = "idle"
  /\ budget.events < MaxEvents
  /\ Readable
  /\ reader' = [reader EXCEPT ![s] = Reads(Metric)]
  /\ budget' = [budget EXCEPT !.events = @ + 1]
  /\ UNCHANGED <<writer, pc, left, observing, bucket, count, released, windows>>

(* Collect: the constant metric, under the collector's lock.               *)
Collect(r, m) ==
  /\ reader[r].pc = "read"
  /\ m \in reader[r].left
  /\ m \notin observing
  /\ reader' = [reader EXCEPT ![r].left = @ \ {m}, ![r].taken = With(@, m, count[m])]
  /\ UNCHANGED <<writer, pc, left, observing, bucket, count, released, windows, budget>>

(* The metric is written out, and its buckets are read.                    *)
WriteOut(r, m) ==
  /\ reader[r].pc = "read"
  /\ m \in DOMAIN reader[r].taken \ DOMAIN reader[r].written
  /\ LET written == With(reader[r].written, m, bucket[m])
         all == IF r \in Query THEN Metrics[r] ELSE Metric
     IN  reader' = [reader EXCEPT ![r].written = written,
                                  ![r].pc = IF DOMAIN written = all THEN "done" ELSE @]
  /\ UNCHANGED <<writer, pc, left, observing, bucket, count, released, windows, budget>>

(* The answer to the scrape is sent; the read lock was given back.         *)
Answered(s) ==
  /\ reader[s].pc = "done"
  /\ reader' = [reader EXCEPT ![s] = NotReading]
  /\ UNCHANGED <<writer, pc, left, observing, bucket, count, released, windows, budget>>

(* A datasource goroutine observes the latency of a query.                 *)
ObserveSelf ==
  /\ \/ /\ budget.events < MaxEvents
        /\ ObserveBuckets(Self)
        /\ budget' = [budget EXCEPT !.events = @ + 1]
        /\ UNCHANGED count
     \/ /\ ObserveCount(Self)
        /\ UNCHANGED <<bucket, budget>>
  /\ UNCHANGED <<writer, pc, left, reader, released, windows>>

Evaluation(q) ==
  \/ GetAnswer(q) \/ Lock(q) \/ Unlock(q) \/ Panic(q) \/ Copied(q)
  \/ \E m \in QueryMetric : UpdateBuckets(q, m) \/ UpdateCount(q, m)

Reading(r) == \E m \in Metric : Collect(r, m) \/ WriteOut(r, m)

Next ==
  \/ \E q \in Query : Evaluation(q)
  \/ \E s \in Scraper : Gather(s) \/ Answered(s)
  \/ \E r \in Reader : Reading(r)
  \/ ObserveSelf

(* No goroutine stops between two steps; a lock is granted in the end, as  *)
(* sync.RWMutex lets neither readers nor writers starve.  Nothing forces   *)
(* an answer, a scrape or an observation to come.                          *)
Fairness ==
  /\ \A q \in Query :
       /\ SF_vars(Lock(q))
       /\ WF_vars(\/ Unlock(q) \/ Copied(q) \/ Reading(q)
                  \/ \E m \in QueryMetric : UpdateBuckets(q, m) \/ UpdateCount(q, m))
  /\ \A s \in Scraper : SF_vars(Reading(s)) /\ WF_vars(Answered(s))
  /\ WF_vars(ObserveCount(Self) /\ UNCHANGED <<bucket, budget, writer, pc, left, reader, released, windows>>)

Spec == Init /\ [][Next]_vars /\ Fairness

-----------------------------------------------------------------------------
(* A scrape shows the metrics of a query as they were when the write lock  *)
(* was last given back, all of one moment and with buckets that belong to  *)
(* the count: never a window whose update goes on.  A panic gives the lock *)
(* back in the middle of a window (the unlock is deferred), and a scrape   *)
(* after it shows what the panic left, half of the window.                 *)
ScrapeIsWhole ==
  \A s \in Scraper : reader[s].pc # "idle" =>
    /\ \A m \in DOMAIN reader[s].taken \ {Self} : reader[s].taken[m] = reader[s].since[m]
    /\ \A m \in DOMAIN reader[s].written \ {Self} : reader[s].written[m] = reader[s].since[m]

(* What is pushed for a window has every metric of the query with exactly  *)
(* that window, though the copy is made after the lock is given back and   *)
(* other queries are updated meanwhile.                                    *)
CopyIsOwnWindow ==
  \A q \in Query : \A m \in DOMAIN reader[q].written :
    /\ reader[q].taken[m] = reader[q].written[m]
    /\ windows[q] <= reader[q].written[m]
    /\ reader[q].written[m] <= windows[q] + budget.panics

(* A goroutine that panics in the middle of an update leaves the lock: a   *)
(* query that got an answer is evaluated in the end, and a scrape is       *)
(* answered.                                                               *)
LockComesBack ==
  /\ \A q \in Query : []<>(pc[q] = "get")
  /\ \A s \in Scraper : []<>~Scraping(s)
=============================================================================

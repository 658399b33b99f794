------------------------- MODULE DurationEvaluation -------------------------
(***************************************************************************)
(* Evaluation of duration metrics of one query.  A call leaves a request   *)
(* record and, perhaps, a response record; both carry its correlation id   *)
(* and may be received in different answers of the query.  Two metrics     *)
(* measure the calls and share a request-time cache, which only one of     *)
(* them, the updater, fills (cache-update).  The updater has a child       *)
(* metric, duration-no-response, with a cache of its own: it counts the    *)
(* requests whose response did not come in time.                           *)
(*                                                                         *)
(* Both caches are lists of batches, one for each answer.  The query's     *)
(* goroutine evaluates all metrics of an answer, in the order of the       *)
(* configuration and under the registry lock: that is one step.            *)
(***************************************************************************)
EXTENDS Integers, FiniteSets, Sequences

CONSTANTS
  Calls,         \* correlation ids
  CacheSize,     \* size of the request-time cache of the query
  NRCacheSize,   \* cache_size of the no-response metric
  UpdaterFirst   \* the updater precedes the other metric in the configuration

(* A cache of no batches panics when it is updated; the size of the        *)
(* no-response cache is checked (durationstructs.go:45, 216).              *)
ASSUME SizesAssumption ==
  /\ CacheSize \in Nat \ {0}
  /\ NRCacheSize \in Nat \ {0}
  /\ UpdaterFirst \in BOOLEAN

None == -1

VARIABLES
  requested,   \* calls whose request record was received
  responded,   \* calls whose response record was received
  rtc,         \* request-time cache: calls by batch, the newest first
  nrc,         \* no-response cache: calls by batch, with and without response
  measured,    \* by metric and call: durations that entered the metric
  unanswered,  \* by call: counts of the no-response metric
  rtAge,       \* ghost: answers with records since the request
  nrAge,       \* ghost: answers without an error since the request
  rtGap,       \* ghost: rtAge when the response came
  nrGap        \* ghost: nrAge when the response came

cacheVars == <<rtc, nrc>>
ageVars == <<rtAge, nrAge, rtGap, nrGap>>
vars == <<requested, responded, cacheVars, measured, unanswered, ageVars>>

Metrics == {"updater", "other"}
NoBatch == [waiting |-> {}, answered |-> {}]

Init ==
  /\ requested = {}
  /\ responded = {}
  /\ rtc = [i \in 1..CacheSize |-> {}]
  /\ nrc = [i \in 1..NRCacheSize |-> NoBatch]
  /\ measured = [m \in Metrics |-> [c \in Calls |-> 0]]
  /\ unanswered = [c \in Calls |-> 0]
  /\ rtAge = [c \in Calls |-> None]
  /\ nrAge = [c \in Calls |-> None]
  /\ rtGap = [c \in Calls |-> None]
  /\ nrGap = [c \in Calls |-> None]

(* The batches move by one, the oldest is dropped.                         *)
PutBatch(cache, batch) == [i \in DOMAIN cache |-> IF i = 1 THEN batch ELSE cache[i - 1]]

(* Mutant: only the newest batch is searched.                              *)
SearchNewestBatch(cache) == cache[1]

(* Calls whose request time the cache has.                                 *)
Search(cache) == UNION {cache[i] : i \in DOMAIN cache}

(* A response marks the newest batch that has the call.                    *)
MarkAsHasResponse(cache, calls) ==
  LET Newest(c) == {i \in DOMAIN cache : /\ c \in cache[i].waiting \cup cache[i].answered
                                         /\ \A j \in 1..(i - 1) : c \notin cache[j].waiting \cup cache[j].answered}
      Hit(i) == {c \in calls : i \in Newest(c)}
  IN  [i \in DOMAIN cache |-> [waiting |-> cache[i].waiting \ Hit(i), answered |-> cache[i].answered \cup Hit(i)]]

(* Mutant: the batch before the oldest is counted.                         *)
CountNoResponseTooEarly(cache) == cache[IF Len(cache) > 1 THEN Len(cache) - 1 ELSE 1].waiting

(* Counted are the waiting calls of the oldest batch, before it is dropped.*)
CountNoResponseInTheLastBatch(cache) == cache[Len(cache)].waiting

Plus(count, calls) == [c \in Calls |-> IF c \in calls THEN count[c] + 1 ELSE count[c]]

(* The child metric sees the calls of the answer after its parent.         *)
EvaluateNoResponse(requests, responses) ==
  LET marked == MarkAsHasResponse(nrc, responses)
  IN  /\ unanswered' = Plus(unanswered, CountNoResponseInTheLastBatch(marked))
      /\ nrc' = PutBatch(marked, [waiting |-> requests \ responses, answered |-> {}])

(* Calls of the answer with a response and a known request time.           *)
IntCalls(requests, responses, cache) == responses \cap (requests \cup Search(cache))

Older(age, calls, bound) ==
  [c \in Calls |-> IF c \in calls THEN 0
                   ELSE IF age[c] = None THEN None
                   ELSE IF age[c] > bound THEN age[c] ELSE age[c] + 1]

GapAt(gap, age, responses) == [c \in Calls |-> IF c \in responses THEN age[c] ELSE gap[c]]

(* An answer with a heading: every record is received in one answer.  If a *)
(* field of the metric is missing in it, neither cache moves, and its      *)
(* records are never received.                                             *)
Answer(requests, responses) ==
  /\ requests \subseteq Calls \ requested
  /\ responses \subseteq Calls \ responded
  /\ requested' = requested \cup requests
  /\ responded' = responded \cup responses
  /\ rtc' = PutBatch(rtc, requests \ responses)
  /\ measured' =
       [updater |-> Plus(measured["updater"], IntCalls(requests, responses, rtc)),
        other |-> Plus(measured["other"], IntCalls(requests, responses, IF UpdaterFirst THEN rtc' ELSE rtc))]
  /\ EvaluateNoResponse(requests, responses)
  /\ rtAge' = Older(rtAge, requests, CacheSize)
  /\ nrAge' = Older(nrAge, requests, NRCacheSize)
  /\ rtGap' = GapAt(rtGap, rtAge', responses)
  /\ nrGap' = GapAt(nrGap, nrAge', responses)

(* An answer of size 0 returns before the request-time cache is updated,   *)
(* but the child metric is evaluated.                                      *)
EmptyAnswer ==
  /\ EvaluateNoResponse({}, {})
  /\ nrAge' = Older(nrAge, {}, NRCacheSize)
  /\ UNCHANGED <<requested, responded, rtc, measured, rtAge, rtGap, nrGap>>

Next ==
  \/ \E requests, responses \in SUBSET Calls : Answer(requests, responses)
  \/ EmptyAnswer

Spec == Init /\ [][Next]_vars

-----------------------------------------------------------------------------
InTime(gap, bound) == gap \in 0..bound

(* A call enters the metric once if its response is received in the same   *)
(* answer as its request or in one of the next CacheSize answers that have *)
(* a heading, and never otherwise.  A metric that precedes the updater of  *)
(* the cache measures the same calls.                                      *)
MeasuredInTime ==
  \A c \in Calls, m \in IF UpdaterFirst THEN {"updater"} ELSE Metrics :
    measured[m][c] = IF InTime(rtGap[c], CacheSize) THEN 1 ELSE 0

(* A request is counted as unanswered once, NRCacheSize evaluated answers  *)
(* after it was received, unless its response came before that; a response *)
(* that was received before its request does not help.                     *)
UnansweredInTime ==
  \A c \in Calls :
    unanswered[c] = IF nrAge[c] >= NRCacheSize /\ ~InTime(nrGap[c], NRCacheSize) THEN 1 ELSE 0
=============================================================================

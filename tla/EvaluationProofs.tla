-------------------------- MODULE EvaluationProofs --------------------------
(***************************************************************************)
(* First part, for any number of calls and caches of any size: which calls *)
(* a duration metric measures, and which requests its child counts as      *)
(* unanswered.  Nothing but the age of a request decides.  A request of    *)
(* age i - 1 is in batch i of a cache and in no other one (RequestTimes,   *)
(* Requests), until it is too old for the last batch.                      *)
(*                                                                         *)
(* Second part, for any metric, number of workers and answers: how long    *)
(* the id-field cache keeps an id, whichever worker asks it first.  The    *)
(* two halves of the cache hold exactly the keys that were seen since the  *)
(* last shift, age answers ago, and in one period more (Kept), and no key  *)
(* was counted later than it was seen (SeenWhenCounted).                   *)
(*                                                                         *)
(* Third part, for any number of goroutines, rows and olvs: what the maps  *)
(* of a count metric give together.  At every moment the maps are the      *)
(* counts of a set of places, which are behind the goroutines (CountedAs): *)
(* all such places, or one for every key that the cache did not have, or   *)
(* all places of one row for every such id.                                *)
(*                                                                         *)
(* Fourth part, the same of a value metric: a map holds sum, count and     *)
(* buckets of the goroutine's rows up to its position (ValueOf), as long   *)
(* as a goroutine that counts finds every bound once in the list           *)
(* (ListKept).                                                             *)
(***************************************************************************)
EXTENDS Evaluations, Partition, FiniteSetTheorems, SequenceTheorems, WellFoundedInduction, TLAPS

Batch == [waiting : SUBSET Calls, answered : SUBSET Calls]

TypeOK ==
  /\ requested \in SUBSET Calls /\ responded \in SUBSET Calls
  /\ rtc \in [1..CacheSize -> SUBSET Calls]
  /\ nrc \in [1..NRCacheSize -> Batch]
  /\ measured \in [Metrics -> [Calls -> Nat]]
  /\ unanswered \in [Calls -> Nat]
  /\ rtAge \in [Calls -> None..CacheSize + 1] /\ rtGap \in [Calls -> None..CacheSize + 1]
  /\ nrAge \in [Calls -> None..NRCacheSize + 1] /\ nrGap \in [Calls -> None..NRCacheSize + 1]

(* A request has an age, and a response that came after it found it not    *)
(* older than it is now.                                                   *)
Ages ==
  \A c \in Calls :
    /\ c \in requested <=> rtAge[c] # None
    /\ c \in requested <=> nrAge[c] # None
    /\ c \notin responded => rtGap[c] = None /\ nrGap[c] = None
    /\ rtGap[c] <= rtAge[c] /\ nrGap[c] <= nrAge[c]

(* The request-time cache keeps calls that were answered meanwhile, but    *)
(* not those whose response came with the request.                         *)
RequestTimes ==
  \A c \in Calls : \A i \in 1..CacheSize : c \in rtc[i] <=> rtAge[c] = i - 1 /\ rtGap[c] # 0

Requests ==
  \A c \in Calls : \A i \in 1..NRCacheSize :
    /\ c \in nrc[i].waiting <=> nrAge[c] = i - 1 /\ nrGap[c] = None
    /\ c \in nrc[i].answered => nrAge[c] = i - 1 /\ nrGap[c] # None

CallInv == TypeOK /\ Ages /\ RequestTimes /\ Requests /\ MeasuredInTime /\ UnansweredInTime

-----------------------------------------------------------------------------
(* The operators of the caches, for one call.                              *)

LEMMA OlderFact ==
  ASSUME NEW bound \in Nat, NEW ages \in [Calls -> None..bound + 1],
         NEW calls \in SUBSET Calls, NEW c \in Calls
  PROVE  /\ Older(ages, calls, bound)[c] \in None..bound + 1
         /\ c \in calls => Older(ages, calls, bound)[c] = 0
         /\ c \notin calls /\ ages[c] = None => Older(ages, calls, bound)[c] = None
         /\ c \notin calls /\ ages[c] \in 0..bound => Older(ages, calls, bound)[c] = ages[c] + 1
         /\ c \notin calls /\ ages[c] = bound + 1 => Older(ages, calls, bound)[c] = bound + 1
<1> DEFINE old == Older(ages, calls, bound)
<1>1. ages[c] \in Int /\ ages[c] >= -1 /\ ages[c] <= bound + 1
  BY DEF None
<1>2. old[c] = IF c \in calls THEN 0
               ELSE IF ages[c] = None THEN None
               ELSE IF ages[c] > bound THEN ages[c] ELSE ages[c] + 1
  BY DEF Older
<1> HIDE DEF old
<1>3. /\ old[c] \in None..bound + 1
      /\ c \in calls => old[c] = 0
      /\ c \notin calls /\ ages[c] = None => old[c] = None
      /\ c \notin calls /\ ages[c] \in 0..bound => old[c] = ages[c] + 1
      /\ c \notin calls /\ ages[c] = bound + 1 => old[c] = bound + 1
  BY <1>1, <1>2 DEF None
<1> QED
  BY <1>3 DEF old

LEMMA RequestAgeFact ==
  ASSUME TypeOK, Ages, NEW requests \in SUBSET (Calls \ requested),
         rtAge' = Older(rtAge, requests, CacheSize), NEW c \in Calls
  PROVE  /\ rtAge[c] \in -1..CacheSize + 1 /\ rtGap[c] \in -1..CacheSize + 1
         /\ rtGap[c] <= rtAge[c] /\ rtAge'[c] \in -1..CacheSize + 1
         /\ c \in requests => rtAge[c] = -1 /\ rtAge'[c] = 0
         /\ c \notin requests /\ rtAge[c] = -1 => rtAge'[c] = -1
         /\ c \notin requests /\ rtAge[c] \in 0..CacheSize => rtAge'[c] = rtAge[c] + 1
         /\ c \notin requests /\ rtAge[c] = CacheSize + 1 => rtAge'[c] = CacheSize + 1
<1>1. CacheSize \in Nat /\ rtAge \in [Calls -> None..CacheSize + 1] /\ requests \in SUBSET Calls
  BY SizesAssumption DEF TypeOK
<1> DEFINE old == Older(rtAge, requests, CacheSize)[c]
<1>2. /\ old \in None..CacheSize + 1
      /\ c \in requests => old = 0
      /\ c \notin requests /\ rtAge[c] = None => old = None
      /\ c \notin requests /\ rtAge[c] \in 0..CacheSize => old = rtAge[c] + 1
      /\ c \notin requests /\ rtAge[c] = CacheSize + 1 => old = CacheSize + 1
  BY <1>1, OlderFact
<1>3. rtAge'[c] = old
  OBVIOUS
<1> HIDE DEF old
<1>4. /\ rtAge[c] \in -1..CacheSize + 1 /\ rtGap[c] \in -1..CacheSize + 1
      /\ rtGap[c] <= rtAge[c] /\ (c \in requests => rtAge[c] = -1)
  BY DEF TypeOK, Ages, None
<1> QED
  BY <1>2, <1>3, <1>4 DEF None

LEMMA UnansweredAgeFact ==
  ASSUME TypeOK, Ages, NEW requests \in SUBSET (Calls \ requested),
         nrAge' = Older(nrAge, requests, NRCacheSize), NEW c \in Calls
  PROVE  /\ nrAge[c] \in -1..NRCacheSize + 1 /\ nrGap[c] \in -1..NRCacheSize + 1
         /\ nrGap[c] <= nrAge[c] /\ nrAge'[c] \in -1..NRCacheSize + 1
         /\ c \in requests => nrAge[c] = -1 /\ nrAge'[c] = 0
         /\ c \notin requests /\ nrAge[c] = -1 => nrAge'[c] = -1
         /\ c \notin requests /\ nrAge[c] \in 0..NRCacheSize => nrAge'[c] = nrAge[c] + 1
         /\ c \notin requests /\ nrAge[c] = NRCacheSize + 1 => nrAge'[c] = NRCacheSize + 1
<1>1. NRCacheSize \in Nat /\ nrAge \in [Calls -> None..NRCacheSize + 1] /\ requests \in SUBSET Calls
  BY SizesAssumption DEF TypeOK
<1> DEFINE old == Older(nrAge, requests, NRCacheSize)[c]
<1>2. /\ old \in None..NRCacheSize + 1
      /\ c \in requests => old = 0
      /\ c \notin requests /\ nrAge[c] = None => old = None
      /\ c \notin requests /\ nrAge[c] \in 0..NRCacheSize => old = nrAge[c] + 1
      /\ c \notin requests /\ nrAge[c] = NRCacheSize + 1 => old = NRCacheSize + 1
  BY <1>1, OlderFact
<1>3. nrAge'[c] = old
  OBVIOUS
<1> HIDE DEF old
<1>4. /\ nrAge[c] \in -1..NRCacheSize + 1 /\ nrGap[c] \in -1..NRCacheSize + 1
      /\ nrGap[c] <= nrAge[c] /\ (c \in requests => nrAge[c] = -1)
  BY DEF TypeOK, Ages, None
<1> QED
  BY <1>2, <1>3, <1>4 DEF None

LEMMA LastFact ==
  ASSUME NEW n \in Nat \ {0}, NEW kept \in [1..n -> Batch]
  PROVE  CountNoResponseInTheLastBatch(kept) = kept[n].waiting
<1>1. kept \in Seq(Batch)
  BY SeqDef
<1>2. Len(kept) = n
  BY <1>1, LenProperties
<1> QED
  BY <1>2 DEF CountNoResponseInTheLastBatch

(* A response moves its call in the only batch that has it.                *)
LEMMA MarkFact ==
  ASSUME TypeOK, Requests, NEW calls \in SUBSET Calls
  PROVE  /\ MarkAsHasResponse(nrc, calls) \in [1..NRCacheSize -> Batch]
         /\ \A c \in Calls : \A i \in 1..NRCacheSize :
              /\ c \in MarkAsHasResponse(nrc, calls)[i].waiting
                   <=> nrAge[c] = i - 1 /\ nrGap[c] = None /\ c \notin calls
              /\ c \in MarkAsHasResponse(nrc, calls)[i].answered
                   => nrAge[c] = i - 1 /\ (nrGap[c] # None \/ c \in calls)
<1> DEFINE marked == MarkAsHasResponse(nrc, calls)
           Has(c, i) == c \in nrc[i].waiting \cup nrc[i].answered
           Hit(i) == {c \in calls : Has(c, i) /\ \A j \in 1..(i - 1) : ~Has(c, j)}
<1>1. marked = [i \in 1..NRCacheSize |->
                  [waiting |-> nrc[i].waiting \ Hit(i), answered |-> nrc[i].answered \cup Hit(i)]]
  BY DEF MarkAsHasResponse, TypeOK
<1>2. \A i \in 1..NRCacheSize : /\ marked[i].waiting = nrc[i].waiting \ Hit(i)
                                /\ marked[i].answered = nrc[i].answered \cup Hit(i)
  BY <1>1
<1>3. marked \in [1..NRCacheSize -> Batch]
  BY <1>1 DEF TypeOK, Batch
<1> HIDE DEF marked
<1>4. ASSUME NEW c \in Calls, NEW i \in 1..NRCacheSize
      PROVE  /\ c \in marked[i].waiting <=> nrAge[c] = i - 1 /\ nrGap[c] = None /\ c \notin calls
             /\ c \in marked[i].answered => nrAge[c] = i - 1 /\ (nrGap[c] # None \/ c \in calls)
  <2>1. \A j \in 1..NRCacheSize : Has(c, j) => nrAge[c] = j - 1
    BY DEF Requests
  <2>2. \A j \in 1..(i - 1) : j \in 1..NRCacheSize /\ j # i
    BY SizesAssumption
  <2>3. c \in Hit(i) <=> c \in calls /\ Has(c, i)
    BY <2>1, <2>2
  <2> QED
    BY <1>2, <2>1, <2>3 DEF Requests
<1> QED
  BY <1>3, <1>4 DEF marked

-----------------------------------------------------------------------------
(* The no-response cache in one evaluation.                                *)

LEMMA NoResponseStep ==
  ASSUME TypeOK, Ages, Requests, UnansweredInTime,
         NEW requests \in SUBSET (Calls \ requested), NEW responses \in SUBSET (Calls \ responded),
         EvaluateNoResponse(requests, responses),
         nrAge' = Older(nrAge, requests, NRCacheSize),
         \A c \in Calls : nrGap'[c] = IF c \in responses THEN nrAge'[c] ELSE nrGap[c]
  PROVE  /\ nrc' \in [1..NRCacheSize -> Batch] /\ unanswered' \in [Calls -> Nat]
         /\ Requests' /\ UnansweredInTime'
<1> DEFINE marked == MarkAsHasResponse(nrc, responses)
           batch == [waiting |-> requests \ responses, answered |-> {}]
<1>0. NRCacheSize \in Nat \ {0} /\ NRCacheSize \in 1..NRCacheSize
  BY SizesAssumption
<1>1. /\ marked \in [1..NRCacheSize -> Batch]
      /\ \A c \in Calls : \A i \in 1..NRCacheSize :
           /\ c \in marked[i].waiting <=> nrAge[c] = i - 1 /\ nrGap[c] = None /\ c \notin responses
           /\ c \in marked[i].answered => nrAge[c] = i - 1 /\ (nrGap[c] # None \/ c \in responses)
  BY MarkFact
<1>2. batch \in Batch
  BY DEF Batch
<1>3. nrc' = PutBatch(marked, batch)
  BY DEF EvaluateNoResponse
<1>4. unanswered' = Plus(unanswered, marked[NRCacheSize].waiting)
  BY <1>0, <1>1, LastFact DEF EvaluateNoResponse
<1> HIDE DEF marked, batch
<1>5. /\ nrc' \in [1..NRCacheSize -> Batch] /\ nrc'[1] = batch
      /\ \A i \in 2..NRCacheSize : nrc'[i] = marked[i - 1]
  BY <1>0, <1>1, <1>2, <1>3 DEF PutBatch
<1>6. unanswered' \in [Calls -> Nat]
  BY <1>4 DEF TypeOK, Plus
<1>7. ASSUME NEW c \in Calls
      PROVE  /\ nrAge[c] \in -1..NRCacheSize + 1 /\ nrGap[c] \in -1..NRCacheSize + 1
             /\ nrGap[c] <= nrAge[c]
             /\ c \in requests => nrAge[c] = -1 /\ nrAge'[c] = 0
             /\ c \in responses => nrGap[c] = -1
             /\ c \notin requests /\ nrAge[c] = -1 => nrAge'[c] = -1
             /\ c \notin requests /\ nrAge[c] \in 0..NRCacheSize => nrAge'[c] = nrAge[c] + 1
             /\ c \notin requests /\ nrAge[c] = NRCacheSize + 1 => nrAge'[c] = NRCacheSize + 1
  BY UnansweredAgeFact DEF Ages, None
<1>8. ASSUME NEW c \in Calls, NEW i \in 1..NRCacheSize
      PROVE  /\ c \in nrc'[i].waiting <=> nrAge'[c] = i - 1 /\ nrGap'[c] = None
             /\ c \in nrc'[i].answered => nrAge'[c] = i - 1 /\ nrGap'[c] # None
  <2>1. CASE i = 1
    <3>1. nrc'[i].waiting = requests \ responses /\ nrc'[i].answered = {}
      BY <1>5, <2>1 DEF batch
    <3>2. nrAge'[c] = 0 <=> c \in requests
      BY <1>0, <1>7
    <3> QED
      BY <1>7, <2>1, <3>1, <3>2 DEF None
  <2>2. CASE i # 1
    <3>1. i - 1 \in 1..NRCacheSize /\ nrc'[i] = marked[i - 1]
      BY <1>0, <1>5, <2>2
    <3>2. nrAge'[c] = i - 1 <=> nrAge[c] = i - 2
      BY <1>0, <1>7, <2>2
    <3> QED
      BY <1>1, <1>7, <3>1, <3>2, <2>2 DEF None
  <2> QED
    BY <2>1, <2>2
<1>9. Requests'
  BY <1>8 DEF Requests
<1>10. ASSUME NEW c \in Calls
       PROVE  unanswered'[c]
                = IF nrAge'[c] >= NRCacheSize /\ ~InTime(nrGap'[c], NRCacheSize) THEN 1 ELSE 0
  <2> DEFINE due == c \in marked[NRCacheSize].waiting
  <2>1. unanswered'[c] = IF due THEN unanswered[c] + 1 ELSE unanswered[c]
    BY <1>4 DEF Plus
  <2>2. unanswered[c]
          = IF nrAge[c] >= NRCacheSize /\ ~(nrGap[c] \in 0..NRCacheSize) THEN 1 ELSE 0
    BY DEF UnansweredInTime, InTime
  <2>3. due <=> nrAge[c] = NRCacheSize - 1 /\ nrGap[c] = -1 /\ c \notin responses
    BY <1>0, <1>1 DEF None
  <2> HIDE DEF due
  <2>4. CASE due
    BY <1>0, <1>7, <2>1, <2>2, <2>3, <2>4 DEF InTime
  <2>5. CASE ~due
    <3>1. (nrAge[c] >= NRCacheSize /\ ~(nrGap[c] \in 0..NRCacheSize))
            <=> (nrAge'[c] >= NRCacheSize /\ ~(nrGap'[c] \in 0..NRCacheSize))
      <4>1. CASE nrAge[c] >= NRCacheSize
        BY <1>0, <1>7, <4>1
      <4>2. CASE nrAge[c] < NRCacheSize
        BY <1>0, <1>7, <2>3, <2>5, <4>2
      <4> QED
        BY <1>0, <1>7, <4>1, <4>2
    <3> QED
      BY <2>1, <2>2, <2>5, <3>1 DEF InTime
  <2> QED
    BY <2>4, <2>5
<1>11. UnansweredInTime'
  BY <1>10 DEF UnansweredInTime
<1> QED
  BY <1>5, <1>6, <1>9, <1>11

-----------------------------------------------------------------------------
(* The request-time cache and the two metrics in one answer.               *)

LEMMA AnswerStep ==
  ASSUME TypeOK, Ages, RequestTimes, MeasuredInTime,
         NEW requests \in SUBSET Calls, NEW responses \in SUBSET Calls,
         Answer(requests, responses)
  PROVE  /\ rtc' \in [1..CacheSize -> SUBSET Calls] /\ measured' \in [Metrics -> [Calls -> Nat]]
         /\ RequestTimes' /\ MeasuredInTime'
<1>0. CacheSize \in Nat \ {0}
  BY SizesAssumption
<1>1. /\ requests \cap requested = {} /\ responses \cap responded = {}
      /\ rtc' = PutBatch(rtc, requests \ responses)
      /\ rtAge' = Older(rtAge, requests, CacheSize)
      /\ \A c \in Calls : rtGap'[c] = IF c \in responses THEN rtAge'[c] ELSE rtGap[c]
  BY DEF Answer, GapAt
<1>2. /\ rtc' \in [1..CacheSize -> SUBSET Calls] /\ rtc'[1] = requests \ responses
      /\ \A i \in 2..CacheSize : rtc'[i] = rtc[i - 1]
  BY <1>0, <1>1 DEF PutBatch, TypeOK
<1>3. ASSUME NEW c \in Calls
      PROVE  /\ rtAge[c] \in -1..CacheSize + 1 /\ rtGap[c] \in -1..CacheSize + 1
             /\ rtGap[c] <= rtAge[c]
             /\ c \in requests => rtAge[c] = -1 /\ rtAge'[c] = 0
             /\ c \in responses => rtGap[c] = -1
             /\ c \notin requests /\ rtAge[c] = -1 => rtAge'[c] = -1
             /\ c \notin requests /\ rtAge[c] \in 0..CacheSize => rtAge'[c] = rtAge[c] + 1
             /\ c \notin requests /\ rtAge[c] = CacheSize + 1 => rtAge'[c] = CacheSize + 1
  <2>1. requests \in SUBSET (Calls \ requested)
    BY <1>1
  <2>2. c \in responses => rtGap[c] = -1
    BY <1>1 DEF Ages, None
  <2> QED
    BY <1>1, <2>1, <2>2, RequestAgeFact
<1>4. ASSUME NEW c \in Calls, NEW i \in 1..CacheSize
      PROVE  c \in rtc'[i] <=> rtAge'[c] = i - 1 /\ rtGap'[c] # 0
  <2>1. CASE i = 1
    <3>1. rtAge'[c] = 0 <=> c \in requests
      BY <1>0, <1>3
    <3>2. c \in rtc'[i] <=> c \in requests /\ c \notin responses
      BY <1>2, <2>1
    <3>3. c \in requests => rtGap[c] # 0
      BY <1>3
    <3> QED
      BY <1>1, <1>3, <2>1, <3>1, <3>2, <3>3
  <2>2. CASE i # 1
    <3>1. i - 1 \in 1..CacheSize /\ rtc'[i] = rtc[i - 1]
      BY <1>0, <1>2, <2>2
    <3>2. rtAge'[c] = i - 1 <=> rtAge[c] = i - 2
      BY <1>0, <1>3, <2>2
    <3> QED
      BY <1>1, <1>3, <2>2, <3>1, <3>2 DEF RequestTimes
  <2> QED
    BY <2>1, <2>2
<1>5. RequestTimes'
  BY <1>4 DEF RequestTimes
<1> DEFINE measurable == IntCalls(requests, responses, rtc)
<1>6. ASSUME NEW c \in Calls
      PROVE  c \in measurable <=> c \in responses /\ rtAge'[c] \in 0..CacheSize
  <2>1. c \in Search(rtc) <=> rtAge[c] \in 0..CacheSize - 1 /\ rtGap[c] # 0
    <3>1. c \in Search(rtc) <=> \E i \in 1..CacheSize : c \in rtc[i]
      BY DEF Search, TypeOK
    <3>2. c \in Search(rtc) <=> \E i \in 1..CacheSize : rtAge[c] = i - 1 /\ rtGap[c] # 0
      BY <3>1 DEF RequestTimes
    <3>3. rtAge[c] \in 0..CacheSize - 1 => rtAge[c] + 1 \in 1..CacheSize
      BY <1>0
    <3> QED
      BY <1>0, <1>3, <3>2, <3>3
  <2>2. c \in measurable <=> c \in responses /\ (c \in requests \/ c \in Search(rtc))
    BY DEF IntCalls
  <2>3. c \in responses
          => (c \in requests \/ rtAge[c] \in 0..CacheSize - 1 <=> rtAge'[c] \in 0..CacheSize)
    BY <1>0, <1>3
  <2> QED
    BY <1>3, <2>1, <2>2, <2>3
<1> HIDE DEF measurable
<1>7. /\ measured' \in [Metrics -> [Calls -> Nat]]
      /\ \A c \in Calls, m \in IF UpdaterFirst THEN {"updater"} ELSE Metrics :
           measured'[m][c] = IF c \in measurable THEN measured[m][c] + 1 ELSE measured[m][c]
  <2>1. measured["updater"] \in [Calls -> Nat] /\ measured["other"] \in [Calls -> Nat]
    BY DEF TypeOK, Metrics
  <2>2. ASSUME NEW count \in [Calls -> Nat], NEW calls
        PROVE  /\ Plus(count, calls) \in [Calls -> Nat]
               /\ \A c \in Calls :
                    Plus(count, calls)[c] = IF c \in calls THEN count[c] + 1 ELSE count[c]
    BY DEF Plus
  <2>3. PICK calls : measured' = [updater |-> Plus(measured["updater"], measurable),
                                  other |-> Plus(measured["other"], calls)]
                     /\ (~UpdaterFirst => calls = measurable)
    <3>1. measured' = [updater |-> Plus(measured["updater"], measurable),
                       other |-> Plus(measured["other"],
                                      IntCalls(requests, responses, IF UpdaterFirst THEN rtc' ELSE rtc))]
      BY DEF Answer, measurable
    <3> QED
      BY <3>1 DEF measurable
  <2>4. /\ measured'["updater"] = Plus(measured["updater"], measurable)
        /\ measured'["other"] = Plus(measured["other"], calls)
        /\ DOMAIN measured' = Metrics
    BY <2>3 DEF Metrics
  <2>5. measured' \in [Metrics -> [Calls -> Nat]]
    <3>1. measured'["updater"] \in [Calls -> Nat] /\ measured'["other"] \in [Calls -> Nat]
      BY <2>1, <2>2, <2>4
    <3>2. measured' = [m \in Metrics |-> measured'[m]]
      BY <2>3 DEF Metrics
    <3> QED
      BY <3>1, <3>2 DEF Metrics
  <2>6. \A c \in Calls :
          /\ measured'["updater"][c]
               = IF c \in measurable THEN measured["updater"][c] + 1 ELSE measured["updater"][c]
          /\ ~UpdaterFirst => measured'["other"][c]
               = IF c \in measurable THEN measured["other"][c] + 1 ELSE measured["other"][c]
    BY <2>1, <2>2, <2>3, <2>4
  <2> QED
    BY <2>5, <2>6, SizesAssumption DEF Metrics
<1>8. ASSUME NEW c \in Calls, NEW m \in IF UpdaterFirst THEN {"updater"} ELSE Metrics
      PROVE  measured'[m][c] = IF InTime(rtGap'[c], CacheSize) THEN 1 ELSE 0
  <2>1. measured[m][c] = IF rtGap[c] \in 0..CacheSize THEN 1 ELSE 0
    BY DEF MeasuredInTime, InTime
  <2>2. measured'[m][c] = IF c \in measurable THEN measured[m][c] + 1 ELSE measured[m][c]
    BY <1>7
  <2>3. CASE c \in responses
    BY <1>0, <1>1, <1>3, <1>6, <2>1, <2>2, <2>3 DEF InTime
  <2>4. CASE c \notin responses
    BY <1>1, <1>6, <2>1, <2>2, <2>4 DEF InTime
  <2> QED
    BY <2>3, <2>4
<1>9. MeasuredInTime'
  BY <1>8 DEF MeasuredInTime
<1> QED
  BY <1>2, <1>5, <1>7, <1>9

-----------------------------------------------------------------------------
(* The theorems.                                                           *)

LEMMA CallInit == Init => CallInv
<1> SUFFICES ASSUME Init PROVE CallInv
  OBVIOUS
<1>0. CacheSize \in Nat \ {0} /\ NRCacheSize \in Nat \ {0}
  BY SizesAssumption
<1>1. TypeOK
  <2>1. /\ rtc \in [1..CacheSize -> SUBSET Calls] /\ nrc \in [1..NRCacheSize -> Batch]
        /\ measured \in [Metrics -> [Calls -> Nat]] /\ unanswered \in [Calls -> Nat]
    BY DEF Init, Batch, NoBatch
  <2>2. None \in None..CacheSize + 1 /\ None \in None..NRCacheSize + 1
    BY <1>0 DEF None
  <2> QED
    BY <2>1, <2>2 DEF Init, TypeOK
<1>2. Ages
  BY DEF Init, Ages, None
<1>3. RequestTimes
  BY DEF Init, RequestTimes, None
<1>4. Requests
  BY DEF Init, Requests, NoBatch, None
<1>5. MeasuredInTime /\ UnansweredInTime
  BY <1>0 DEF Init, MeasuredInTime, UnansweredInTime, InTime, None, Metrics
<1> QED
  BY <1>1, <1>2, <1>3, <1>4, <1>5 DEF CallInv

(* The ages after an answer.                                               *)
LEMMA AgesStep ==
  ASSUME TypeOK, Ages, NEW requests \in SUBSET Calls, NEW responses \in SUBSET Calls,
         Answer(requests, responses)
  PROVE  /\ requested' \in SUBSET Calls /\ responded' \in SUBSET Calls
         /\ rtAge' \in [Calls -> None..CacheSize + 1] /\ rtGap' \in [Calls -> None..CacheSize + 1]
         /\ nrAge' \in [Calls -> None..NRCacheSize + 1]
         /\ nrGap' \in [Calls -> None..NRCacheSize + 1]
         /\ Ages'
<1>0. CacheSize \in Nat \ {0} /\ NRCacheSize \in Nat \ {0}
  BY SizesAssumption
<1>1. /\ requests \subseteq Calls \ requested /\ responses \subseteq Calls \ responded
      /\ requested' = requested \cup requests /\ responded' = responded \cup responses
      /\ rtAge' = Older(rtAge, requests, CacheSize) /\ nrAge' = Older(nrAge, requests, NRCacheSize)
      /\ rtGap' = GapAt(rtGap, rtAge', responses) /\ nrGap' = GapAt(nrGap, nrAge', responses)
  BY DEF Answer
<1>2. /\ \A c \in Calls : rtAge'[c] \in None..CacheSize + 1 /\ nrAge'[c] \in None..NRCacheSize + 1
      /\ rtAge' = [c \in Calls |-> rtAge'[c]] /\ nrAge' = [c \in Calls |-> nrAge'[c]]
  <2>1. \A c \in Calls : rtAge'[c] \in None..CacheSize + 1 /\ nrAge'[c] \in None..NRCacheSize + 1
    BY <1>0, <1>1, OlderFact DEF TypeOK
  <2>2. rtAge' = [c \in Calls |-> rtAge'[c]] /\ nrAge' = [c \in Calls |-> nrAge'[c]]
    BY <1>1 DEF Older
  <2> QED
    BY <2>1, <2>2
<1>3. rtAge' \in [Calls -> None..CacheSize + 1] /\ nrAge' \in [Calls -> None..NRCacheSize + 1]
  BY <1>2
<1>4. rtGap' \in [Calls -> None..CacheSize + 1] /\ nrGap' \in [Calls -> None..NRCacheSize + 1]
  BY <1>1, <1>3 DEF TypeOK, GapAt
<1>5. Ages'
  <2> SUFFICES ASSUME NEW c \in Calls
               PROVE  /\ c \in requested' <=> rtAge'[c] # None
                      /\ c \in requested' <=> nrAge'[c] # None
                      /\ c \notin responded' => rtGap'[c] = None /\ nrGap'[c] = None
                      /\ rtGap'[c] <= rtAge'[c] /\ nrGap'[c] <= nrAge'[c]
    BY DEF Ages
  <2>1. /\ rtGap'[c] = IF c \in responses THEN rtAge'[c] ELSE rtGap[c]
        /\ nrGap'[c] = IF c \in responses THEN nrAge'[c] ELSE nrGap[c]
    BY <1>1 DEF GapAt
  <2>2. /\ rtAge[c] \in -1..CacheSize + 1 /\ nrAge[c] \in -1..NRCacheSize + 1
        /\ rtGap[c] \in -1..CacheSize + 1 /\ nrGap[c] \in -1..NRCacheSize + 1
        /\ rtGap[c] <= rtAge[c] /\ nrGap[c] <= nrAge[c]
    BY DEF TypeOK, Ages, None
  <2>3. /\ c \in requests => rtAge[c] = -1 /\ rtAge'[c] = 0
        /\ c \notin requests /\ rtAge[c] = -1 => rtAge'[c] = -1
        /\ c \notin requests /\ rtAge[c] \in 0..CacheSize => rtAge'[c] = rtAge[c] + 1
        /\ c \notin requests /\ rtAge[c] = CacheSize + 1 => rtAge'[c] = CacheSize + 1
    BY <1>1, RequestAgeFact
  <2>4. /\ c \in requests => nrAge[c] = -1 /\ nrAge'[c] = 0
        /\ c \notin requests /\ nrAge[c] = -1 => nrAge'[c] = -1
        /\ c \notin requests /\ nrAge[c] \in 0..NRCacheSize => nrAge'[c] = nrAge[c] + 1
        /\ c \notin requests /\ nrAge[c] = NRCacheSize + 1 => nrAge'[c] = NRCacheSize + 1
    BY <1>1, UnansweredAgeFact
  <2>5. rtAge[c] <= rtAge'[c] /\ nrAge[c] <= nrAge'[c]
    BY <1>0, <2>2, <2>3, <2>4
  <2>6. c \in requested' <=> rtAge'[c] # None
    BY <1>0, <1>1, <2>2, <2>3 DEF Ages, None
  <2>7. c \in requested' <=> nrAge'[c] # None
    BY <1>0, <1>1, <2>2, <2>4 DEF Ages, None
  <2>8. c \notin responded' => rtGap'[c] = None /\ nrGap'[c] = None
    BY <1>1, <2>1 DEF Ages
  <2>9. rtAge'[c] \in Int /\ nrAge'[c] \in Int
    BY <1>2 DEF None
  <2>10. rtGap'[c] <= rtAge'[c]
    BY <2>1, <2>2, <2>5, <2>9
  <2>11. nrGap'[c] <= nrAge'[c]
    BY <2>1, <2>2, <2>5, <2>9
  <2> QED
    BY <2>6, <2>7, <2>8, <2>10, <2>11
<1>6. requested' \in SUBSET Calls /\ responded' \in SUBSET Calls
  BY <1>1 DEF TypeOK
<1> QED
  BY <1>3, <1>4, <1>5, <1>6

LEMMA CallStep == CallInv /\ [Next]_vars => CallInv'
<1> SUFFICES ASSUME CallInv, [Next]_vars PROVE CallInv'
  OBVIOUS
<1> USE DEF CallInv
<1>1. CASE UNCHANGED vars
  BY <1>1 DEF vars, cacheVars, ageVars, TypeOK, Ages, RequestTimes, Requests, MeasuredInTime,
     UnansweredInTime
<1>2. ASSUME NEW requests \in SUBSET Calls, NEW responses \in SUBSET Calls,
             Answer(requests, responses)
      PROVE  CallInv'
  <2>1. /\ requests \in SUBSET (Calls \ requested) /\ responses \in SUBSET (Calls \ responded)
        /\ EvaluateNoResponse(requests, responses)
        /\ nrAge' = Older(nrAge, requests, NRCacheSize)
        /\ \A c \in Calls : nrGap'[c] = IF c \in responses THEN nrAge'[c] ELSE nrGap[c]
    BY <1>2 DEF Answer, GapAt
  <2>2. /\ nrc' \in [1..NRCacheSize -> Batch] /\ unanswered' \in [Calls -> Nat]
        /\ Requests' /\ UnansweredInTime'
    BY <2>1, NoResponseStep
  <2>3. /\ rtc' \in [1..CacheSize -> SUBSET Calls] /\ measured' \in [Metrics -> [Calls -> Nat]]
        /\ RequestTimes' /\ MeasuredInTime'
    BY <1>2, AnswerStep
  <2>4. /\ requested' \in SUBSET Calls /\ responded' \in SUBSET Calls
        /\ rtAge' \in [Calls -> None..CacheSize + 1] /\ rtGap' \in [Calls -> None..CacheSize + 1]
        /\ nrAge' \in [Calls -> None..NRCacheSize + 1]
        /\ nrGap' \in [Calls -> None..NRCacheSize + 1]
        /\ Ages'
    BY <1>2, AgesStep
  <2> QED
    BY <2>2, <2>3, <2>4 DEF TypeOK
<1>3. CASE EmptyAnswer
  <2>1. /\ {} \in SUBSET (Calls \ requested) /\ {} \in SUBSET (Calls \ responded)
        /\ EvaluateNoResponse({}, {})
        /\ nrAge' = Older(nrAge, {}, NRCacheSize)
        /\ \A c \in Calls : nrGap'[c] = IF c \in {} THEN nrAge'[c] ELSE nrGap[c]
        /\ UNCHANGED <<requested, responded, rtc, measured, rtAge, rtGap, nrGap>>
    BY <1>3 DEF EmptyAnswer
  <2>2. /\ nrc' \in [1..NRCacheSize -> Batch] /\ unanswered' \in [Calls -> Nat]
        /\ Requests' /\ UnansweredInTime'
    BY <2>1, NoResponseStep
  <2>3. RequestTimes' /\ MeasuredInTime'
    BY <2>1 DEF RequestTimes, MeasuredInTime
  <2>4. /\ nrAge' \in [Calls -> None..NRCacheSize + 1]
        /\ \A c \in Calls : /\ nrAge'[c] = None <=> nrAge[c] = None
                            /\ nrGap[c] <= nrAge'[c]
    <3>1. ASSUME NEW c \in Calls
          PROVE  /\ nrAge'[c] \in None..NRCacheSize + 1
                 /\ nrAge'[c] = None <=> nrAge[c] = None
                 /\ nrGap[c] <= nrAge'[c]
      BY <2>1, UnansweredAgeFact, SizesAssumption DEF None
    <3>2. nrAge' = [c \in Calls |-> nrAge'[c]]
      BY <2>1 DEF Older
    <3> QED
      BY <3>1, <3>2
  <2>5. TypeOK'
    BY <2>1, <2>2, <2>4 DEF TypeOK
  <2>6. Ages'
    BY <2>1, <2>4 DEF Ages
  <2> QED
    BY <2>2, <2>3, <2>5, <2>6
<1> QED
  BY <1>1, <1>2, <1>3 DEF Next

LEMMA CallHolds == Spec => []CallInv
BY CallInit, CallStep, PTL DEF Spec

(* A duration metric measures a call once if the response came in the      *)
(* answer of the request or in one of the next CacheSize answers with a    *)
(* heading, and never otherwise: for any number of calls, any size of the  *)
(* cache, and whether the updater of the cache comes first or last         *)
(* (evaluateduration.go, SearchRequestTimeInCache).                        *)
THEOREM MeasuredJustInTime == Spec => []MeasuredInTime
<1>1. CallInv => MeasuredInTime
  BY DEF CallInv
<1> QED
  BY <1>1, CallHolds, PTL

(* A request is counted as unanswered once, when it leaves the last batch  *)
(* of the no-response cache, and only if no response had come until then   *)
(* (MarkAsHasResponse, CountNoResponseInTheLastBatchByOLV).                *)
THEOREM UnansweredJustInTime == Spec => []UnansweredInTime
<1>1. CallInv => UnansweredInTime
  BY DEF CallInv
<1> QED
  BY <1>1, CallHolds, PTL

-----------------------------------------------------------------------------
(* Second part: the id-field cache.                                        *)

(* id-field-ttl is a number; one that is not positive stands for 60.       *)
TTLIsNumber == IdFieldTTL \in Int

LEMMA TTLNat == TTLIsNumber => Count!MaxTTL \in Nat \ {0}
BY DEF TTLIsNumber, Count!MaxTTL

AgeOK == age \in 0..Count!MaxTTL - 1

Since ==
  /\ sinceSeen \in [Count!Keys -> 0..Count!Forgotten]
  /\ sinceCounted \in [Count!Keys -> 0..Count!Forgotten]

Kept ==
  \A key \in Count!Keys :
    /\ key \in cache <=> sinceSeen[key] <= age
    /\ key \in cacheOld => sinceSeen[key] <= age + Count!MaxTTL
    /\ sinceSeen[key] \in age + 1..age + Count!MaxTTL => key \in cacheOld

SeenWhenCounted == \A key \in Count!Keys : sinceSeen[key] <= sinceCounted[key]

CacheInv == AgeOK /\ Since /\ Kept /\ SeenWhenCounted

LEMMA CacheInit == TTLIsNumber /\ Count!Init => CacheInv
BY TTLNat DEF Count!Init, Count!EmptyCache, CacheInv, AgeOK, Since, Kept, SeenWhenCounted, Count!Forgotten

(* An answer: everything gets older, and a full period is shifted.         *)
LEMMA LaterFact ==
  ASSUME TTLIsNumber, NEW since \in [Count!Keys -> 0..Count!Forgotten]
  PROVE  /\ Count!Later(since) \in [Count!Keys -> 0..Count!Forgotten]
         /\ \A key \in Count!Keys :
              /\ Count!Later(since)[key]
                   = IF since[key] < Count!Forgotten THEN since[key] + 1 ELSE Count!Forgotten
              /\ Count!Later(since)[key] # 0
<1>1. Count!Forgotten \in Nat \ {0}
  BY TTLNat DEF Count!Forgotten
<1>2. \A key \in Count!Keys :
        Count!Later(since)[key] = IF since[key] < Count!Forgotten THEN since[key] + 1 ELSE Count!Forgotten
  BY DEF Count!Later
<1>3. \A key \in Count!Keys : Count!Later(since)[key] \in 0..Count!Forgotten /\ Count!Later(since)[key] # 0
  BY <1>1, <1>2
<1>4. Count!Later(since) \in [Count!Keys -> 0..Count!Forgotten]
  BY <1>3 DEF Count!Later
<1> QED
  BY <1>2, <1>3, <1>4

LEMMA CacheAnswer ==
  ASSUME TTLIsNumber, CacheInv, Count!IncAge,
         sinceSeen' = Count!Later(sinceSeen), sinceCounted' = Count!Later(sinceCounted)
  PROVE  CacheInv'
<1>0. Count!MaxTTL \in Nat \ {0} /\ Count!Forgotten = 2 * Count!MaxTTL + 1 /\ age \in 0..Count!MaxTTL - 1
  BY TTLNat DEF Count!Forgotten, CacheInv, AgeOK
<1>1. Since'
  BY LaterFact DEF CacheInv, Since
<1>2. ASSUME NEW key \in Count!Keys
      PROVE  /\ sinceSeen[key] \in 0..Count!Forgotten /\ sinceCounted[key] \in 0..Count!Forgotten
             /\ sinceSeen'[key]
                  = IF sinceSeen[key] < Count!Forgotten THEN sinceSeen[key] + 1 ELSE Count!Forgotten
             /\ sinceCounted'[key]
                  = IF sinceCounted[key] < Count!Forgotten THEN sinceCounted[key] + 1 ELSE Count!Forgotten
  BY LaterFact DEF CacheInv, Since
<1>3. SeenWhenCounted'
  BY <1>0, <1>2 DEF CacheInv, SeenWhenCounted
<1>4. CASE age + 1 >= Count!MaxTTL
  <2>1. age' = 0 /\ cacheOld' = cache /\ cache' = {} /\ age = Count!MaxTTL - 1
    BY <1>0, <1>4 DEF Count!IncAge
  <2>2. Kept'
    BY <1>0, <1>2, <2>1 DEF CacheInv, Kept
  <2> QED
    BY <1>0, <1>1, <1>3, <2>1, <2>2 DEF CacheInv, AgeOK
<1>5. CASE ~(age + 1 >= Count!MaxTTL)
  <2>1. age' = age + 1 /\ UNCHANGED <<cache, cacheOld>>
    BY <1>5 DEF Count!IncAge
  <2>2. Kept'
    BY <1>0, <1>2, <2>1 DEF CacheInv, Kept
  <2> QED
    BY <1>0, <1>1, <1>3, <1>5, <2>1, <2>2 DEF CacheInv, AgeOK
<1> QED
  BY <1>4, <1>5

(* A question is remembered, for the key that was asked for.               *)
LEMMA AskFact ==
  ASSUME TTLIsNumber, CacheInv, NEW asked, Count!Ask(asked), UNCHANGED <<age, cacheOld>>
  PROVE  /\ CacheInv'
         /\ \A key \in Count!Keys : key # asked => /\ sinceSeen'[key] = sinceSeen[key]
                                                  /\ sinceCounted'[key] = sinceCounted[key]
         /\ asked \in Count!Keys => /\ sinceSeen'[asked] = 0
                                    /\ sinceCounted'[asked] = IF Count!IsUsed(asked) THEN sinceCounted[asked] ELSE 0
<1>0. Count!MaxTTL \in Nat \ {0} /\ Count!Forgotten = 2 * Count!MaxTTL + 1 /\ age \in 0..Count!MaxTTL - 1
  BY TTLNat DEF Count!Forgotten, CacheInv, AgeOK
<1>1. /\ cache' = cache \cup {asked}
      /\ sinceSeen' = [sinceSeen EXCEPT ![asked] = 0]
      /\ sinceCounted' = IF Count!IsUsed(asked) THEN sinceCounted ELSE [sinceCounted EXCEPT ![asked] = 0]
  BY DEF Count!Ask
<1>2. /\ \A key \in Count!Keys : key # asked => /\ sinceSeen'[key] = sinceSeen[key]
                                               /\ sinceCounted'[key] = sinceCounted[key]
      /\ asked \in Count!Keys => /\ sinceSeen'[asked] = 0
                                 /\ sinceCounted'[asked] = IF Count!IsUsed(asked) THEN sinceCounted[asked] ELSE 0
  BY <1>1 DEF CacheInv, Since
<1>3. Since'
  <2>1. 0 \in 0..Count!Forgotten
    BY <1>0
  <2>2. sinceSeen' \in [Count!Keys -> 0..Count!Forgotten]
    BY <1>1, <2>1 DEF CacheInv, Since
  <2>3. sinceCounted' \in [Count!Keys -> 0..Count!Forgotten]
    BY <1>1, <2>1 DEF CacheInv, Since
  <2> QED
    BY <2>2, <2>3 DEF Since
<1>4. \A key \in Count!Keys : /\ sinceSeen[key] \in 0..Count!Forgotten
                              /\ sinceCounted[key] \in 0..Count!Forgotten
  BY DEF CacheInv, Since
<1>5. SeenWhenCounted'
  BY <1>2, <1>4 DEF CacheInv, SeenWhenCounted
<1>6. Kept'
  BY <1>0, <1>1, <1>2, <1>4 DEF CacheInv, Kept
<1> QED
  BY <1>2, <1>3, <1>5, <1>6 DEF CacheInv, AgeOK

(* The steps of the evaluation that matter here.                           *)
LEMMA Steps ==
  ASSUME [Count!Next]_Count!vars
  PROVE  \/ UNCHANGED <<age, cache, cacheOld, sinceSeen, sinceCounted>>
         \/ Count!IncAge /\ sinceSeen' = Count!Later(sinceSeen) /\ sinceCounted' = Count!Later(sinceCounted)
         \/ \E asked : Count!Ask(asked) /\ UNCHANGED <<age, cacheOld>>
<1>1. ASSUME NEW rows, Count!StartWorkers(rows)
      PROVE  \/ UNCHANGED <<age, cache, cacheOld, sinceSeen, sinceCounted>>
             \/ Count!IncAge /\ sinceSeen' = Count!Later(sinceSeen) /\ sinceCounted' = Count!Later(sinceCounted)
  BY <1>1 DEF Count!StartWorkers, Count!cacheVars
<1>2. ASSUME NEW w, Count!TakeRow(w)
      PROVE  \/ UNCHANGED <<age, cache, cacheOld, sinceSeen, sinceCounted>>
             \/ \E asked : Count!Ask(asked) /\ UNCHANGED <<age, cacheOld>>
  BY <1>2 DEF Count!TakeRow
<1>3. ASSUME NEW w, Count!CountOlv(w)
      PROVE  \/ UNCHANGED <<age, cache, cacheOld, sinceSeen, sinceCounted>>
             \/ \E asked : Count!Ask(asked) /\ UNCHANGED <<age, cacheOld>>
  BY <1>3 DEF Count!CountOlv
<1>4. ASSUME NEW w, \/ Count!SkipRow(w) \/ Count!Receive(w) \/ Count!EvaluateNothing
                    \/ Count!Merge \/ UNCHANGED Count!vars
      PROVE  UNCHANGED <<age, cache, cacheOld, sinceSeen, sinceCounted>>
  BY <1>4
     DEF Count!SkipRow, Count!Receive, Count!EvaluateNothing, Count!Merge, Count!vars,
         Count!cacheVars, Count!ghostVars
<1> QED
  BY <1>1, <1>2, <1>3, <1>4 DEF Count!Next

LEMMA CacheStep ==
  ASSUME TTLIsNumber, CacheInv, [Count!Next]_Count!vars
  PROVE  CacheInv'
<1>1. CASE UNCHANGED <<age, cache, cacheOld, sinceSeen, sinceCounted>>
  BY <1>1 DEF CacheInv, AgeOK, Since, Kept, SeenWhenCounted
<1> QED
  BY <1>1, Steps, CacheAnswer, AskFact

(* A key that is counted was not in the cache.                             *)
LEMMA Counting ==
  ASSUME TTLIsNumber, CacheInv, [Count!Next]_Count!vars, NEW key \in Count!Keys
  PROVE  /\ sinceCounted'[key] = 0 /\ sinceCounted[key] # 0 => sinceCounted[key] > Count!MaxTTL
         /\ sinceSeen'[key] = 0 /\ sinceSeen[key] >= 2 * Count!MaxTTL => sinceCounted'[key] = 0
<1>0. /\ Count!MaxTTL \in Nat \ {0} /\ Count!Forgotten = 2 * Count!MaxTTL + 1 /\ age \in 0..Count!MaxTTL - 1
      /\ sinceSeen[key] \in 0..Count!Forgotten /\ sinceCounted[key] \in 0..Count!Forgotten
      /\ sinceSeen[key] <= sinceCounted[key]
  BY TTLNat DEF Count!Forgotten, CacheInv, AgeOK, Since, SeenWhenCounted
<1>1. CASE UNCHANGED <<age, cache, cacheOld, sinceSeen, sinceCounted>>
  BY <1>0, <1>1
<1>2. CASE sinceSeen' = Count!Later(sinceSeen) /\ sinceCounted' = Count!Later(sinceCounted)
  BY <1>2, LaterFact DEF CacheInv, Since
<1>3. ASSUME NEW asked, Count!Ask(asked), UNCHANGED <<age, cacheOld>>
      PROVE  /\ sinceCounted'[key] = 0 /\ sinceCounted[key] # 0 => sinceCounted[key] > Count!MaxTTL
             /\ sinceSeen'[key] = 0 /\ sinceSeen[key] >= 2 * Count!MaxTTL => sinceCounted'[key] = 0
  <2>1. CASE key # asked
    BY <1>0, <1>3, <2>1, AskFact
  <2>2. CASE key = asked
    <3>1. sinceCounted'[key] = IF Count!IsUsed(key) THEN sinceCounted[key] ELSE 0
      BY <1>3, <2>2, AskFact
    <3>2. Count!IsUsed(key) => sinceSeen[key] <= age + Count!MaxTTL
      BY <1>0 DEF Count!IsUsed, CacheInv, Kept
    <3>3. ~Count!IsUsed(key) => sinceSeen[key] > age + Count!MaxTTL
      BY <1>0 DEF Count!IsUsed, CacheInv, Kept
    <3> QED
      BY <1>0, <3>1, <3>2, <3>3
  <2> QED
    BY <2>1, <2>2
<1> QED
  BY <1>1, <1>2, <1>3, Steps

LEMMA CacheHolds == TTLIsNumber => (Count!Spec => []CacheInv)
<1> SUFFICES ASSUME TTLIsNumber PROVE Count!Spec => []CacheInv
  OBVIOUS
<1>1. Count!Init => CacheInv
  BY CacheInit
<1>2. CacheInv /\ [Count!Next]_Count!vars => CacheInv'
  BY CacheStep
<1> QED
  BY <1>1, <1>2, PTL DEF Count!Spec

(* Whichever workers meet a key, and in whatever order they ask for it: it *)
(* counts again only when more than id-field-ttl answers were evaluated    *)
(* since it counted before (MetricIdFieldCache.IsUsed, IncAge).            *)
THEOREM CountsOnceWithinTTL == TTLIsNumber => (Count!Spec => OnceWithinTTL)
<1> SUFFICES ASSUME TTLIsNumber PROVE Count!Spec => OnceWithinTTL
  OBVIOUS
<1> DEFINE Apart == \A key \in Count!Keys :
             sinceCounted'[key] = 0 /\ sinceCounted[key] # 0 => sinceCounted[key] > Count!MaxTTL
<1>1. CacheInv /\ [Count!Next]_Count!vars => [Apart]_Count!vars
  BY Counting
<1>2. Count!Spec => []CacheInv
  BY CacheHolds
<1>3. Count!Spec => [][Apart]_Count!vars
  BY <1>1, <1>2, PTL DEF Count!Spec
<1> QED
  BY <1>3 DEF OnceWithinTTL, Count!OnceWithinTTL

(* A key that was not met for twice the TTL is counted when it is met: the *)
(* cache forgets it with its second shift at the latest.                   *)
THEOREM CountsWhenForgotten == TTLIsNumber => (Count!Spec => FreshIsCounted)
<1> SUFFICES ASSUME TTLIsNumber PROVE Count!Spec => FreshIsCounted
  OBVIOUS
<1> DEFINE Counted == \A key \in Count!Keys :
             sinceSeen'[key] = 0 /\ sinceSeen[key] >= 2 * Count!MaxTTL => sinceCounted'[key] = 0
<1>1. CacheInv /\ [Count!Next]_Count!vars => [Counted]_Count!vars
  BY Counting
<1>2. Count!Spec => []CacheInv
  BY CacheHolds
<1>3. Count!Spec => [][Counted]_Count!vars
  BY <1>1, <1>2, PTL DEF Count!Spec
<1> QED
  BY <1>3 DEF FreshIsCounted, Count!FreshIsCounted

-----------------------------------------------------------------------------
(* A set of numbers that is not empty has a least one.                     *)
LEMMA Least ==
  ASSUME NEW S, S \subseteq Nat, S # {}
  PROVE  \E m \in S : \A k \in S : m <= k
<1>1. PICK m \in S : \A k \in S : <<k, m>> \notin OpToRel(<, Nat)
  BY WFMin, NatLessThanWellFounded, Zenon
<1>2. \A k \in S : ~(k < m)
  BY <1>1, Zenon DEF OpToRel
<1> QED
  BY <1>2

(* Induction over the numbers, for a set.                                  *)
LEMMA SetInduction ==
  ASSUME NEW S, 0 \in S, \A n \in Nat : n \in S => n + 1 \in S
  PROVE  \A n \in Nat : n \in S
<1> DEFINE Out == {n \in Nat : n \notin S}
<1> SUFFICES ASSUME Out # {} PROVE FALSE
  OBVIOUS
<1>1. PICK m \in Out : \A k \in Out : m <= k
  BY Least
<1>2. m # 0 /\ m - 1 \in Nat
  OBVIOUS
<1>3. m - 1 \notin Out
  BY <1>1, <1>2
<1> QED
  BY <1>2, <1>3

(* The counts by olv of some places of an answer.                          *)
CountsOf(answer, places) ==
  [olv \in Olvs |-> Cardinality({c \in places : answer[c[1]].olvs[c[2]] = olv})]

(* The counts of disjoint places are added.                                *)
LEMMA CountsAdd ==
  ASSUME NEW answer, NEW A, NEW B, IsFiniteSet(A), IsFiniteSet(B), A \cap B = {}
  PROVE  /\ CountsOf(answer, A \cup B) = Count!AddCounts(CountsOf(answer, A), CountsOf(answer, B))
         /\ IsFiniteSet(A \cup B)
<1>1. ASSUME NEW olv \in Olvs
      PROVE  CountsOf(answer, A \cup B)[olv] = CountsOf(answer, A)[olv] + CountsOf(answer, B)[olv]
  <2> DEFINE At(S) == {c \in S : answer[c[1]].olvs[c[2]] = olv}
  <2>1. At(A \cup B) = At(A) \cup At(B) /\ At(A) \cap At(B) = {}
    OBVIOUS
  <2>2. IsFiniteSet(At(A)) /\ IsFiniteSet(At(B))
    BY FS_Subset
  <2>3. Cardinality(At(A \cup B)) = Cardinality(At(A)) + Cardinality(At(B))
    <3> HIDE DEF At
    <3>1. Cardinality(At(A) \cup At(B)) = Cardinality(At(A)) + Cardinality(At(B)) - Cardinality({})
      BY <2>1, <2>2, FS_Union
    <3>2. Cardinality(At(A)) \in Nat /\ Cardinality(At(B)) \in Nat
      BY <2>2, FS_CardinalityType
    <3>3. Cardinality({}) = 0
      BY FS_EmptySet
    <3>4. Cardinality(At(A \cup B)) = Cardinality(At(A) \cup At(B))
      BY <2>1
    <3> QED
      BY <3>1, <3>2, <3>3, <3>4
  <2> QED
    BY <2>3 DEF CountsOf
<1>2. IsFiniteSet(A \cup B)
  BY FS_Union
<1> QED
  BY <1>1, <1>2 DEF CountsOf, Count!AddCounts

(* The maps of goroutines that counted different places.                   *)
LEMMA MergedFact ==
  ASSUME NEW n \in Nat \ {0}, NEW maps, Len(maps) = n, NEW answer, NEW C,
         \A i \in 1..n : IsFiniteSet(C[i]) /\ maps[i] = CountsOf(answer, C[i]),
         \A i, j \in 1..n : i # j => C[i] \cap C[j] = {}
  PROVE  Count!Merged(maps) = CountsOf(answer, UNION {C[i] : i \in 1..n})
<1> DEFINE Upto(i) == UNION {C[j] : j \in 1..i}
           Loop(f) == f = [i \in 1..n |-> IF i = 1 THEN maps[1] ELSE Count!AddCounts(f[i - 1], maps[i])]
           S == {i \in Nat : i <= n => IsFiniteSet(Upto(i))}
<1>1. Upto(1) = C[1]
  OBVIOUS
<1>2. ASSUME NEW i \in Nat, i + 1 <= n
      PROVE  Upto(i + 1) = Upto(i) \cup C[i + 1] /\ Upto(i) \cap C[i + 1] = {}
  <2>1. 1..(i + 1) = (1..i) \cup {i + 1} /\ i + 1 \notin 1..i /\ i + 1 \in 1..n /\ 1..i \subseteq 1..n
    BY <1>2
  <2> QED
    BY <2>1
<1>3. \A i \in Nat : i \in S
  <2>1. 0 \in S
    <3>1. Upto(0) = {}
      OBVIOUS
    <3> QED
      BY <3>1, FS_EmptySet
  <2>2. ASSUME NEW i \in Nat, i \in S PROVE i + 1 \in S
    <3>1. CASE i + 1 <= n
      <4>1. IsFiniteSet(Upto(i)) /\ IsFiniteSet(C[i + 1])
        BY <2>2, <3>1
      <4>2. IsFiniteSet(Upto(i) \cup C[i + 1])
        <5> HIDE DEF Upto
        <5> QED
          BY <4>1, FS_Union
      <4>3. IsFiniteSet(Upto(i + 1))
        <5>1. Upto(i + 1) = Upto(i) \cup C[i + 1]
          BY <1>2, <3>1
        <5> HIDE DEF Upto
        <5> QED
          BY <4>2, <5>1
      <4> HIDE DEF Upto
      <4> QED
        BY <4>3
    <3> QED
      BY <3>1
  <2> HIDE DEF S
  <2> QED
    BY <2>1, <2>2, SetInduction
<1>4. ASSUME NEW i \in Nat, i + 1 <= n
      PROVE  CountsOf(answer, Upto(i + 1)) = Count!AddCounts(CountsOf(answer, Upto(i)), maps[i + 1])
  <2>1. IsFiniteSet(Upto(i)) /\ IsFiniteSet(C[i + 1]) /\ maps[i + 1] = CountsOf(answer, C[i + 1])
    <3>1. i + 1 \in 1..n /\ i <= n
      BY <1>4
    <3>2. IsFiniteSet(Upto(i))
      <4>1. i \in S
        BY <1>3
      <4> HIDE DEF Upto
      <4> QED
        BY <3>1, <4>1
    <3>3. IsFiniteSet(C[i + 1]) /\ maps[i + 1] = CountsOf(answer, C[i + 1])
      BY <3>1
    <3> QED
      BY <3>2, <3>3
  <2>2. Upto(i + 1) = Upto(i) \cup C[i + 1] /\ Upto(i) \cap C[i + 1] = {}
    BY <1>2, <1>4
  <2> HIDE DEF Upto
  <2>3. CountsOf(answer, Upto(i) \cup C[i + 1])
          = Count!AddCounts(CountsOf(answer, Upto(i)), CountsOf(answer, C[i + 1]))
    BY <2>1, <2>2, CountsAdd
  <2> QED
    BY <2>1, <2>2, <2>3
<1>5. Loop([i \in 1..n |-> CountsOf(answer, Upto(i))])
  <2> DEFINE f == [i \in 1..n |-> CountsOf(answer, Upto(i))]
  <2>1. ASSUME NEW i \in 1..n
        PROVE  f[i] = IF i = 1 THEN maps[1] ELSE Count!AddCounts(f[i - 1], maps[i])
    <3>1. CASE i = 1
      <4> HIDE DEF Upto
      <4> QED
        BY <1>1, <3>1
    <3>2. CASE i # 1
      <4>1. i - 1 \in Nat /\ i - 1 \in 1..n /\ (i - 1) + 1 = i
        BY <3>2
      <4> HIDE DEF Upto
      <4> QED
        BY <1>4, <3>2, <4>1
    <3> QED
      BY <3>1, <3>2
  <2> HIDE DEF Upto
  <2> QED
    BY <2>1
<1> DEFINE sum == CHOOSE f : Loop(f)
<1>6. Loop(sum)
  <2> HIDE DEF Loop
  <2> QED
    BY <1>5
<1>7. Count!Merged(maps) = sum[n]
  BY DEF Count!Merged
<1> DEFINE T == {i \in Nat : i + 1 <= n => sum[i + 1] = CountsOf(answer, Upto(i + 1))}
<1>8. \A i \in Nat : i \in T
  <2> HIDE DEF sum, Upto
  <2>1. 0 \in T
    BY <1>1, <1>6
  <2>2. ASSUME NEW i \in Nat, i \in T PROVE i + 1 \in T
    <3>1. CASE i + 2 <= n
      <4>1. sum[i + 2] = Count!AddCounts(sum[i + 1], maps[i + 2])
        BY <1>6, <3>1
      <4>2. sum[i + 1] = CountsOf(answer, Upto(i + 1))
        BY <2>2, <3>1
      <4>3. (i + 1) + 1 = i + 2 /\ i + 1 \in Nat
        OBVIOUS
      <4>4. CountsOf(answer, Upto(i + 2)) = Count!AddCounts(CountsOf(answer, Upto(i + 1)), maps[i + 2])
        BY <1>4, <3>1, <4>3
      <4> QED
        BY <4>1, <4>2, <4>3, <4>4
    <3> QED
      BY <3>1
  <2> HIDE DEF T
  <2> QED
    BY <2>1, <2>2, SetInduction
<1>9. sum[n] = CountsOf(answer, Upto(n))
  <2>1. n - 1 \in T /\ (n - 1) + 1 = n
    <3> HIDE DEF T
    <3> QED
      BY <1>8
  <2> HIDE DEF sum, Upto
  <2> QED
    BY <2>1
<1> QED
  BY <1>7, <1>9

-----------------------------------------------------------------------------
(* Integer division keeps the order.                                       *)
LEMMA DivMonotone ==
  ASSUME NEW x \in Nat, NEW y \in Nat, NEW t \in Nat \ {0}, x <= y
  PROVE  x \div t \in Nat /\ y \div t \in Nat /\ x \div t <= y \div t
<1> DEFINE d == x \div t
           e == y \div t
<1>1. d \in Nat /\ e \in Nat /\ d * t <= x /\ y < (e + 1) * t
  OBVIOUS
<1>2. SUFFICES ASSUME e + 1 <= d PROVE FALSE
  BY <1>1
<1>3. (e + 1) * t <= d * t
  BY <1>1, <1>2
<1>4. (e + 1) * t \in Nat /\ d * t \in Nat
  BY <1>1
<1> HIDE DEF d, e
<1> QED
  BY <1>1, <1>3, <1>4

(* Every row of an answer is in the part of exactly one goroutine.         *)
LEMMA PartitionFact ==
  ASSUME NEW n \in Nat \ {0}, NEW threads \in Int, NEW t, t = ThreadsNumber(threads, n)
  PROVE  /\ t \in 1..n
         /\ \A w \in 1..t : /\ Start(w - 1, n, t) \in 1..n + 1 /\ Stop(w - 1, n, t) \in 1..n + 1
                            /\ Start(w - 1, n, t) <= Stop(w - 1, n, t)
                            /\ ThreadRows(w - 1, n, t) \subseteq 1..n
         /\ \A i \in 1..n : \E w \in 1..t : i \in ThreadRows(w - 1, n, t)
         /\ \A i \in 1..n : \A v, w \in 1..t :
              i \in ThreadRows(v - 1, n, t) /\ i \in ThreadRows(w - 1, n, t) => v = w
<1>1. t \in 1..n
  BY DEF ThreadsNumber
<1> DEFINE End(w) == 1 + (w * n) \div t
<1>2. \A w \in 1..t : Start(w - 1, n, t) = End(w - 1) /\ Stop(w - 1, n, t) = End(w)
  BY DEF Start, Stop
<1>3. ASSUME NEW v \in 0..t, NEW w \in 0..t, v <= w
      PROVE  End(v) \in Nat /\ End(w) \in Nat /\ End(v) <= End(w)
  <2>1. v * n \in Nat /\ w * n \in Nat /\ v * n <= w * n
    BY <1>1, <1>3
  <2> DEFINE x == v * n
             y == w * n
  <2>2. x \div t \in Nat /\ y \div t \in Nat /\ x \div t <= y \div t
    <3> HIDE DEF x, y
    <3> QED
      BY <1>1, <2>1, DivMonotone DEF x, y
  <2> QED
    BY <2>2
<1>4. End(0) = 1 /\ End(t) = n + 1
  <2>1. (0 * n) \div t = 0
    BY <1>1
  <2>2. (t * n) \div t = n
    <3> DEFINE q == (t * n) \div t
    <3>1. q \in Nat /\ q * t <= t * n /\ t * n < (q + 1) * t /\ t * n = n * t
      BY <1>1
    <3>2. ~(q < n)
      <4>1. ASSUME q + 1 <= n PROVE FALSE
        <5>1. (q + 1) * t <= n * t
          BY <1>1, <3>1, <4>1
        <5>2. (q + 1) * t \in Nat /\ n * t \in Nat
          BY <1>1, <3>1
        <5> HIDE DEF q
        <5> QED
          BY <3>1, <5>1, <5>2
      <4> HIDE DEF q
      <4> QED
        BY <3>1, <4>1
    <3>3. ~(n < q)
      <4>1. ASSUME n + 1 <= q PROVE FALSE
        <5>1. (n + 1) * t <= q * t
          BY <1>1, <3>1, <4>1
        <5>2. (n + 1) * t = n * t + t /\ n * t \in Nat /\ q * t \in Nat
          BY <1>1, <3>1
        <5> HIDE DEF q
        <5> QED
          BY <1>1, <3>1, <5>1, <5>2
      <4> HIDE DEF q
      <4> QED
        BY <3>1, <4>1
    <3>4. q = n
      <4> HIDE DEF q
      <4> QED
        BY <3>1, <3>2, <3>3
    <3> QED
      BY <3>4
  <2> QED
    BY <2>1, <2>2
<1> HIDE DEF End
<1>5. \A w \in 0..t : End(w) \in 1..n + 1
  <2>1. ASSUME NEW w \in 0..t PROVE End(w) \in 1..n + 1
    <3>1. 0 \in 0..t /\ t \in 0..t /\ 0 <= w /\ w <= t
      BY <1>1
    <3>2. End(w) \in Nat /\ End(0) <= End(w) /\ End(w) <= End(t)
      BY <1>3, <3>1
    <3> QED
      BY <1>4, <3>2
  <2> QED
    BY <2>1
<1>6. ASSUME NEW w \in 1..t
      PROVE  /\ Start(w - 1, n, t) \in 1..n + 1 /\ Stop(w - 1, n, t) \in 1..n + 1
             /\ Start(w - 1, n, t) <= Stop(w - 1, n, t)
             /\ ThreadRows(w - 1, n, t) = End(w - 1)..(End(w) - 1)
             /\ ThreadRows(w - 1, n, t) \subseteq 1..n
  <2>1. w - 1 \in 0..t /\ w \in 0..t /\ w - 1 <= w
    BY <1>1
  <2>2. End(w - 1) \in 1..n + 1 /\ End(w) \in 1..n + 1 /\ End(w - 1) <= End(w)
    BY <1>3, <1>5, <2>1
  <2>3. Start(w - 1, n, t) = End(w - 1) /\ Stop(w - 1, n, t) = End(w)
    BY <1>2
  <2> QED
    BY <2>2, <2>3 DEF ThreadRows
<1>7. ASSUME NEW i \in 1..n
      PROVE  \E w \in 1..t : i \in ThreadRows(w - 1, n, t)
  <2> DEFINE Behind == {w \in 0..t : i < End(w)}
  <2>1. Behind \subseteq Nat /\ t \in Behind
    BY <1>1, <1>4
  <2>2. PICK w \in Behind : \A v \in Behind : w <= v
    <3> HIDE DEF Behind
    <3> QED
      BY <2>1, Least
  <2>3. w \in 1..t /\ w - 1 \in 0..t /\ w - 1 \notin Behind
    BY <1>1, <1>4, <2>2
  <2>4. End(w - 1) <= i /\ i < End(w) /\ End(w - 1) \in Int /\ End(w) \in Int
    BY <1>5, <2>2, <2>3
  <2> QED
    BY <1>6, <2>3, <2>4
<1>8. ASSUME NEW i \in 1..n, NEW v \in 1..t, NEW w \in 1..t,
             i \in ThreadRows(v - 1, n, t), i \in ThreadRows(w - 1, n, t)
      PROVE  ~(v < w)
  <2>1. /\ End(v) \in Int /\ End(w - 1) \in Int /\ End(v - 1) \in Int /\ End(w) \in Int
    BY <1>1, <1>5
  <2>2. i < End(v) /\ End(w - 1) <= i
    <3>1. i \in End(v - 1)..(End(v) - 1) /\ i \in End(w - 1)..(End(w) - 1)
      BY <1>6, <1>8
    <3> QED
      BY <2>1, <3>1
  <2>3. v < w => End(v) <= End(w - 1)
    <3>1. v \in 0..t /\ w - 1 \in 0..t /\ (v < w => v <= w - 1)
      BY <1>1
    <3> QED
      BY <1>3, <3>1
  <2> QED
    BY <2>1, <2>2, <2>3
<1>9. ASSUME NEW i \in 1..n, NEW v \in 1..t, NEW w \in 1..t,
             i \in ThreadRows(v - 1, n, t), i \in ThreadRows(w - 1, n, t)
      PROVE  v = w
  <2>1. ~(v < w) /\ ~(w < v)
    BY <1>8, <1>9
  <2> QED
    BY <1>1, <2>1
<1> QED
  BY <1>1, <1>6, <1>7, <1>9

-----------------------------------------------------------------------------
Part(w, answer, t) == ThreadRows(w - 1, Len(answer), t)

(* The places where an answer has an olv to count; those that goroutines   *)
(* ws have passed; and the rows they have entered.                         *)
AllPlaces(answer) ==
  {c \in (1..Len(answer)) \X Nat : answer[c[1]].ok /\ c[2] \in 1..Len(answer[c[1]].olvs)}

Behind(worker, i, k) == i < worker.pos \/ (i = worker.pos /\ k < worker.k)

Passed(answer, ws, t) ==
  {c \in AllPlaces(answer) : \E w \in 1..t : c[1] \in Part(w, answer, t) /\ Behind(ws[w], c[1], c[2])}

Entered(answer, ws, t) ==
  {i \in 1..Len(answer) :
     answer[i].ok /\ \E w \in 1..t : i \in Part(w, answer, t) /\ Behind(ws[w], i, 0)}

CountRow == [ok : BOOLEAN, id : Ids, olvs : Seq(Olvs) \ {<<>>}]

(* Goroutine w makes a step to pos and k, at a row of its own.             *)
StepOf(answer, ws, vs, w, t) ==
  /\ answer # <<>> /\ answer \in Seq(CountRow)
  /\ t \in 1..Len(answer)
  /\ \A i \in 1..Len(answer) : \A u, v \in 1..t : i \in Part(u, answer, t) /\ i \in Part(v, answer, t) => u = v
  /\ w \in 1..t
  /\ \A v \in 1..t : ws[v].pos \in Int /\ ws[v].k \in Nat
  /\ ws[w].pos \in Part(w, answer, t) /\ ws[w].pos \in 1..Len(answer)
  /\ \A v \in 1..t : v # w => vs[v].pos = ws[v].pos /\ vs[v].k = ws[v].k
  /\ vs[w].pos = ws[w].pos \/ (vs[w].pos = ws[w].pos + 1 /\ vs[w].k = 0)

(* A step of one goroutine changes nothing behind the others.              *)
LEMMA BehindOther ==
  ASSUME NEW answer, NEW ws, NEW vs, NEW w, NEW t, StepOf(answer, ws, vs, w, t)
  PROVE  /\ \A c \in AllPlaces(answer) : c[1] # ws[w].pos =>
              (c \in Passed(answer, ws, t) <=> c \in Passed(answer, vs, t))
         /\ \A i \in 1..Len(answer) : i # ws[w].pos =>
              (i \in Entered(answer, ws, t) <=> i \in Entered(answer, vs, t))
         /\ \A c \in AllPlaces(answer) : c[1] = ws[w].pos =>
              /\ c \in Passed(answer, ws, t) <=> c[2] < ws[w].k
              /\ vs[w].pos = ws[w].pos => (c \in Passed(answer, vs, t) <=> c[2] < vs[w].k)
              /\ vs[w].pos = ws[w].pos + 1 => c \in Passed(answer, vs, t)
         /\ ws[w].pos \in Entered(answer, ws, t) <=> answer[ws[w].pos].ok /\ 0 < ws[w].k
         /\ vs[w].pos = ws[w].pos =>
              (ws[w].pos \in Entered(answer, vs, t) <=> answer[ws[w].pos].ok /\ 0 < vs[w].k)
         /\ vs[w].pos = ws[w].pos + 1 => (ws[w].pos \in Entered(answer, vs, t) <=> answer[ws[w].pos].ok)
<1> DEFINE pos == ws[w].pos
<1>0. /\ w \in 1..t /\ pos \in Int /\ pos \in 1..Len(answer) /\ pos \in Part(w, answer, t)
      /\ \A v \in 1..t : ws[v].pos \in Int /\ ws[v].k \in Nat
      /\ \A v \in 1..t : v # w => vs[v].pos = ws[v].pos /\ vs[v].k = ws[v].k
      /\ \A i \in 1..Len(answer) : \A u, v \in 1..t : i \in Part(u, answer, t) /\ i \in Part(v, answer, t) => u = v
      /\ vs[w].pos = pos \/ (vs[w].pos = pos + 1 /\ vs[w].k = 0)
  BY DEF StepOf
<1>1. ASSUME NEW i \in 1..Len(answer), NEW k \in Nat, i # pos, NEW v \in 1..t
      PROVE  Behind(ws[v], i, k) <=> Behind(vs[v], i, k)
  <2>1. CASE v = w
    <3>1. Behind(ws[w], i, k) <=> i < pos
      BY <1>1 DEF Behind
    <3>2. Behind(vs[w], i, k) <=> i < pos
      <4>1. CASE vs[w].pos = pos
        BY <1>1, <4>1 DEF Behind
      <4>2. CASE vs[w].pos = pos + 1 /\ vs[w].k = 0
        <5> HIDE DEF pos
        <5> QED
          BY <1>0, <1>1, <4>2 DEF Behind
      <4> QED
        BY <1>0, <4>1, <4>2
    <3> QED
      BY <2>1, <3>1, <3>2
  <2>2. CASE v # w
    BY <1>0, <2>2 DEF Behind
  <2> QED
    BY <2>1, <2>2
<1>2. ASSUME NEW c \in AllPlaces(answer), c[1] # pos
      PROVE  c \in Passed(answer, ws, t) <=> c \in Passed(answer, vs, t)
  <2>1. c[1] \in 1..Len(answer) /\ c[2] \in Nat
    BY DEF AllPlaces
  <2> QED
    BY <1>1, <1>2, <2>1 DEF Passed
<1>3. ASSUME NEW i \in 1..Len(answer), i # pos
      PROVE  i \in Entered(answer, ws, t) <=> i \in Entered(answer, vs, t)
  BY <1>1, <1>3 DEF Entered
<1>4. ASSUME NEW us, NEW k
      PROVE  (\E v \in 1..t : pos \in Part(v, answer, t) /\ Behind(us[v], pos, k)) <=> Behind(us[w], pos, k)
  BY <1>0
<1>5. ASSUME NEW k
      PROVE  /\ Behind(ws[w], pos, k) <=> k < ws[w].k
             /\ vs[w].pos = pos => (Behind(vs[w], pos, k) <=> k < vs[w].k)
             /\ vs[w].pos = pos + 1 => Behind(vs[w], pos, k)
  BY <1>0 DEF Behind
<1>6. ASSUME NEW c \in AllPlaces(answer), c[1] = pos
      PROVE  /\ c \in Passed(answer, ws, t) <=> c[2] < ws[w].k
             /\ vs[w].pos = pos => (c \in Passed(answer, vs, t) <=> c[2] < vs[w].k)
             /\ vs[w].pos = pos + 1 => c \in Passed(answer, vs, t)
  <2>1. c \in Passed(answer, ws, t) <=> Behind(ws[w], pos, c[2])
    BY <1>4, <1>6 DEF Passed
  <2>2. c \in Passed(answer, vs, t) <=> Behind(vs[w], pos, c[2])
    BY <1>4, <1>6 DEF Passed
  <2> QED
    BY <1>5, <2>1, <2>2
<1>7. /\ pos \in Entered(answer, ws, t) <=> answer[pos].ok /\ Behind(ws[w], pos, 0)
      /\ pos \in Entered(answer, vs, t) <=> answer[pos].ok /\ Behind(vs[w], pos, 0)
  BY <1>0, <1>4 DEF Entered
<1> QED
  BY <1>2, <1>3, <1>5, <1>6, <1>7

(* A row that meets no condition.                                          *)
LEMMA SkipEffect ==
  ASSUME NEW answer, NEW ws, NEW vs, NEW w, NEW t, StepOf(answer, ws, vs, w, t),
         ~answer[ws[w].pos].ok, vs[w].pos = ws[w].pos + 1
  PROVE  /\ Passed(answer, vs, t) = Passed(answer, ws, t)
         /\ Entered(answer, vs, t) = Entered(answer, ws, t)
<1>1. \A c \in AllPlaces(answer) : c[1] # ws[w].pos
  BY DEF AllPlaces
<1>2. \A c \in AllPlaces(answer) : c \in Passed(answer, ws, t) <=> c \in Passed(answer, vs, t)
  BY <1>1, BehindOther
<1>3. \A i \in 1..Len(answer) : i \in Entered(answer, ws, t) <=> i \in Entered(answer, vs, t)
  BY BehindOther
<1>4. /\ Passed(answer, ws, t) \subseteq AllPlaces(answer) /\ Passed(answer, vs, t) \subseteq AllPlaces(answer)
      /\ Entered(answer, ws, t) \subseteq 1..Len(answer) /\ Entered(answer, vs, t) \subseteq 1..Len(answer)
  BY DEF Passed, Entered
<1> QED
  BY <1>2, <1>3, <1>4

(* A row is entered at its first olv, or passed at once.                   *)
LEMMA EnterEffect ==
  ASSUME NEW answer, NEW ws, NEW vs, NEW w, NEW t, StepOf(answer, ws, vs, w, t),
         answer[ws[w].pos].ok, ws[w].k = 0,
         \/ vs[w].pos = ws[w].pos /\ vs[w].k = 1
         \/ vs[w].pos = ws[w].pos + 1
  PROVE  /\ vs[w].pos = ws[w].pos => Passed(answer, vs, t) = Passed(answer, ws, t)
         /\ vs[w].pos # ws[w].pos =>
              Passed(answer, vs, t) = Passed(answer, ws, t) \cup {c \in AllPlaces(answer) : c[1] = ws[w].pos}
         /\ Entered(answer, vs, t) = Entered(answer, ws, t) \cup {ws[w].pos}
         /\ ws[w].pos \notin Entered(answer, ws, t)
         /\ \A c \in Passed(answer, ws, t) : c[1] # ws[w].pos
<1>1. ws[w].pos \in 1..Len(answer) /\ ws[w].pos \in Int
  BY DEF StepOf
<1>2. ws[w].pos \notin Entered(answer, ws, t) /\ ws[w].pos \in Entered(answer, vs, t)
  BY <1>1, BehindOther
<1>3. \A i \in 1..Len(answer) : i # ws[w].pos =>
        (i \in Entered(answer, ws, t) <=> i \in Entered(answer, vs, t))
  BY BehindOther
<1>4. ASSUME NEW c \in AllPlaces(answer)
      PROVE  c \in Passed(answer, vs, t)
               <=> c \in Passed(answer, ws, t) \/ (c[1] = ws[w].pos /\ vs[w].pos # ws[w].pos)
  <2>1. c[2] \in Int /\ c[2] >= 1
    BY DEF AllPlaces
  <2>2. CASE c[1] # ws[w].pos
    BY <2>2, BehindOther
  <2>3. CASE c[1] = ws[w].pos
    BY <1>1, <2>1, <2>3, BehindOther
  <2> QED
    BY <2>2, <2>3
<1>5. /\ Passed(answer, ws, t) \subseteq AllPlaces(answer) /\ Passed(answer, vs, t) \subseteq AllPlaces(answer)
      /\ Entered(answer, ws, t) \subseteq 1..Len(answer) /\ Entered(answer, vs, t) \subseteq 1..Len(answer)
  BY DEF Passed, Entered
<1>6. Entered(answer, vs, t) = Entered(answer, ws, t) \cup {ws[w].pos}
  BY <1>1, <1>2, <1>3, <1>5
<1>7. /\ vs[w].pos = ws[w].pos => Passed(answer, vs, t) = Passed(answer, ws, t)
      /\ vs[w].pos # ws[w].pos =>
           Passed(answer, vs, t) = Passed(answer, ws, t) \cup {c \in AllPlaces(answer) : c[1] = ws[w].pos}
  BY <1>4, <1>5
<1>8. ASSUME NEW c \in Passed(answer, ws, t), c[1] = ws[w].pos PROVE FALSE
  <2>1. c \in AllPlaces(answer) /\ c[2] >= 1 /\ c[2] \in Int
    BY DEF Passed, AllPlaces
  <2>2. c[2] < 0
    BY <1>8, <2>1, BehindOther
  <2> QED
    BY <2>1, <2>2
<1> QED
  BY <1>2, <1>6, <1>7, <1>8

(* An olv of a row is passed.                                              *)
LEMMA OlvEffect ==
  ASSUME NEW answer, NEW ws, NEW vs, NEW w, NEW t, StepOf(answer, ws, vs, w, t),
         answer[ws[w].pos].ok, ws[w].k \in 1..Len(answer[ws[w].pos].olvs),
         IF ws[w].k < Len(answer[ws[w].pos].olvs)
           THEN vs[w].pos = ws[w].pos /\ vs[w].k = ws[w].k + 1
           ELSE vs[w].pos = ws[w].pos + 1
  PROVE  /\ Passed(answer, vs, t) = Passed(answer, ws, t) \cup {<<ws[w].pos, ws[w].k>>}
         /\ Entered(answer, vs, t) = Entered(answer, ws, t)
         /\ <<ws[w].pos, ws[w].k>> \notin Passed(answer, ws, t)
         /\ <<ws[w].pos, ws[w].k>> \in AllPlaces(answer)
<1> DEFINE pos == ws[w].pos
           k == ws[w].k
<1>1. /\ pos \in 1..Len(answer) /\ pos \in Int /\ k \in Nat /\ k >= 1
      /\ vs[w].pos \in {pos, pos + 1}
  BY DEF StepOf
<1>0. Len(answer[pos].olvs) \in Nat
  <2>1. answer \in Seq(CountRow)
    BY DEF StepOf
  <2> HIDE DEF pos
  <2>2. answer[pos] \in CountRow
    BY <1>1, <2>1
  <2> QED
    BY <2>2 DEF CountRow
<1>2. <<pos, k>> \in AllPlaces(answer)
  BY <1>1 DEF AllPlaces
<1>3. <<pos, k>> \notin Passed(answer, ws, t)
  <2>1. <<pos, k>> \in Passed(answer, ws, t) <=> k < ws[w].k
    BY <1>2, BehindOther
  <2> QED
    BY <1>1, <2>1
<1>4. ASSUME NEW c \in AllPlaces(answer)
      PROVE  c \in Passed(answer, vs, t) <=> c \in Passed(answer, ws, t) \/ c = <<pos, k>>
  <2>1. c = <<c[1], c[2]>> /\ c[2] \in Nat
    BY DEF AllPlaces
  <2>2. CASE c[1] # pos
    BY <1>1, <2>1, <2>2, BehindOther
  <2>3. CASE c[1] = pos
    <3>1. c[2] \in 1..Len(answer[pos].olvs)
      BY <2>3 DEF AllPlaces
    <3>2. /\ c \in Passed(answer, ws, t) <=> c[2] < k
          /\ vs[w].pos = pos => (c \in Passed(answer, vs, t) <=> c[2] < vs[w].k)
          /\ vs[w].pos = pos + 1 => c \in Passed(answer, vs, t)
      BY <2>3, BehindOther
    <3>3. c = <<pos, k>> <=> c[2] = k
      BY <2>1, <2>3
    <3>4. CASE k < Len(answer[pos].olvs)
      <4>1. vs[w].pos = pos /\ vs[w].k = k + 1
        BY <3>4
      <4> HIDE DEF pos, k
      <4> QED
        BY <1>1, <2>1, <3>2, <3>3, <4>1
    <3>5. CASE ~(k < Len(answer[pos].olvs))
      <4>1. vs[w].pos = pos + 1
        BY <3>5
      <4> HIDE DEF pos, k
      <4> QED
        BY <1>0, <1>1, <2>1, <3>1, <3>2, <3>3, <3>5, <4>1
    <3> QED
      BY <3>4, <3>5
  <2> QED
    BY <2>2, <2>3
<1>5. ASSUME NEW i \in 1..Len(answer)
      PROVE  i \in Entered(answer, vs, t) <=> i \in Entered(answer, ws, t)
  <2>1. CASE i # pos
    BY <1>1, <2>1, BehindOther
  <2>2. CASE i = pos
    <3>1. pos \in Entered(answer, ws, t)
      BY <1>1, BehindOther
    <3>2. pos \in Entered(answer, vs, t)
      <4>1. CASE vs[w].pos = pos /\ vs[w].k = k + 1
        BY <1>1, <4>1, BehindOther
      <4>2. CASE vs[w].pos = pos + 1
        BY <4>2, BehindOther
      <4> QED
        BY <4>1, <4>2
    <3> QED
      BY <2>2, <3>1, <3>2
  <2> QED
    BY <2>1, <2>2
<1>6. /\ Passed(answer, ws, t) \subseteq AllPlaces(answer) /\ Passed(answer, vs, t) \subseteq AllPlaces(answer)
      /\ Entered(answer, ws, t) \subseteq 1..Len(answer) /\ Entered(answer, vs, t) \subseteq 1..Len(answer)
  BY DEF Passed, Entered
<1>7. Passed(answer, vs, t) = Passed(answer, ws, t) \cup {<<pos, k>>}
  <2> HIDE DEF pos, k
  <2> QED
    BY <1>2, <1>4, <1>6
<1>8. Entered(answer, vs, t) = Entered(answer, ws, t)
  BY <1>5, <1>6
<1> QED
  BY <1>2, <1>3, <1>7, <1>8

-----------------------------------------------------------------------------
CountGoroutine == [pos : Int, stop : Int, k : Nat, counts : [Olvs -> Nat]]

CountThreads == ThreadsNumber(metric.threads, Len(data))

CountGoroutines ==
  /\ data \in Seq(CountRow) /\ data # <<>>
  /\ workers \in [1..CountThreads -> CountGoroutine]
  /\ \A w \in 1..CountThreads :
       /\ workers[w].stop = Stop(w - 1, Len(data), CountThreads)
       /\ Start(w - 1, Len(data), CountThreads) <= workers[w].pos
       /\ workers[w].pos <= workers[w].stop
       /\ workers[w].k # 0 => /\ workers[w].pos < workers[w].stop
                              /\ data[workers[w].pos].ok
                              /\ workers[w].k \in 1..Len(data[workers[w].pos].olvs)
  /\ arrived \in Seq(1..CountThreads)
  /\ \A i, j \in 1..Len(arrived) : arrived[i] = arrived[j] => i = j
  /\ \A i \in 1..Len(arrived) : workers[arrived[i]].pos = workers[arrived[i]].stop

(* How the rows of an answer fall to the goroutines of a metric.           *)
Partitioned(answer, t) ==
  /\ t \in 1..Len(answer) /\ t \in Nat
  /\ \A w \in 1..t :
       /\ Start(w - 1, Len(answer), t) \in 1..Len(answer) + 1
       /\ Stop(w - 1, Len(answer), t) \in 1..Len(answer) + 1
       /\ Start(w - 1, Len(answer), t) <= Stop(w - 1, Len(answer), t)
       /\ Part(w, answer, t) = Start(w - 1, Len(answer), t)..(Stop(w - 1, Len(answer), t) - 1)
       /\ Part(w, answer, t) \subseteq 1..Len(answer)
  /\ \A i \in 1..Len(answer) : \E w \in 1..t : i \in Part(w, answer, t)
  /\ \A i \in 1..Len(answer) : \A v, w \in 1..t :
       i \in Part(v, answer, t) /\ i \in Part(w, answer, t) => v = w

(* Every row falls to exactly one goroutine.                               *)
LEMMA RowsPartition ==
  ASSUME NEW threads \in Int, NEW answer, Len(answer) \in Nat \ {0},
         NEW t, t = ThreadsNumber(threads, Len(answer))
  PROVE  Partitioned(answer, t)
<1> DEFINE n == Len(answer)
<1>1. n \in Nat \ {0} /\ threads \in Int /\ t = ThreadsNumber(threads, n)
  OBVIOUS
<1>2. \A w \in 1..t : /\ Part(w, answer, t) = ThreadRows(w - 1, n, t)
                      /\ Part(w, answer, t) = Start(w - 1, n, t)..(Stop(w - 1, n, t) - 1)
  BY DEF Part, ThreadRows
<1> HIDE DEF n
<1>3. /\ t \in 1..n
      /\ \A w \in 1..t : /\ Start(w - 1, n, t) \in 1..n + 1 /\ Stop(w - 1, n, t) \in 1..n + 1
                         /\ Start(w - 1, n, t) <= Stop(w - 1, n, t)
                         /\ ThreadRows(w - 1, n, t) \subseteq 1..n
      /\ \A i \in 1..n : \E w \in 1..t : i \in ThreadRows(w - 1, n, t)
      /\ \A i \in 1..n : \A v, w \in 1..t :
           i \in ThreadRows(v - 1, n, t) /\ i \in ThreadRows(w - 1, n, t) => v = w
  BY <1>1, PartitionFact
<1>4. t \in Nat
  BY <1>1, <1>3
<1>5. \A i \in 1..n : \E w \in 1..t : i \in Part(w, answer, t)
  BY <1>2, <1>3
<1>6. \A i \in 1..n : \A v, w \in 1..t : i \in Part(v, answer, t) /\ i \in Part(w, answer, t) => v = w
  BY <1>2, <1>3
<1>7. \A w \in 1..t : Part(w, answer, t) \subseteq 1..n
  <2> TAKE w \in 1..t
  <2>1. Part(w, answer, t) = ThreadRows(w - 1, n, t)
    BY <1>2
  <2>2. ThreadRows(w - 1, n, t) \subseteq 1..n
    BY <1>3
  <2> QED
    BY <2>1, <2>2
<1> QED
  BY <1>1, <1>2, <1>3, <1>4, <1>5, <1>6, <1>7 DEF n, Partitioned

(* The same of a count metric's answer.                                    *)
LEMMA CountPartition ==
  ASSUME metric \in CountMetrics, NEW answer, answer \in Seq(CountRow), answer # <<>>,
         NEW t, t = ThreadsNumber(metric.threads, Len(answer))
  PROVE  /\ Len(answer) \in Nat \ {0} /\ t \in 1..Len(answer) /\ t \in Nat
         /\ \A w \in 1..t :
              /\ Start(w - 1, Len(answer), t) \in 1..Len(answer) + 1
              /\ Stop(w - 1, Len(answer), t) \in 1..Len(answer) + 1
              /\ Start(w - 1, Len(answer), t) <= Stop(w - 1, Len(answer), t)
              /\ Part(w, answer, t) = Start(w - 1, Len(answer), t)..(Stop(w - 1, Len(answer), t) - 1)
              /\ Part(w, answer, t) \subseteq 1..Len(answer)
         /\ \A i \in 1..Len(answer) : \E w \in 1..t : i \in Part(w, answer, t)
         /\ \A i \in 1..Len(answer) : \A v, w \in 1..t :
              i \in Part(v, answer, t) /\ i \in Part(w, answer, t) => v = w
<1>1. Len(answer) \in Nat \ {0} /\ metric.threads \in Int
  BY CountMetricsAssumption
<1>2. Partitioned(answer, t)
  BY <1>1, RowsPartition
<1> QED
  BY <1>1, <1>2 DEF Partitioned

(* A goroutine that has rows left makes a step.                            *)
LEMMA CountMove ==
  ASSUME metric \in CountMetrics, CountGoroutines, UNCHANGED <<metric, data, arrived>>,
         NEW w \in 1..CountThreads, workers[w].pos < workers[w].stop,
         NEW g \in CountGoroutine, g.stop = workers[w].stop, workers' = [workers EXCEPT ![w] = g],
         \/ /\ g.pos = workers[w].pos
            /\ data[workers[w].pos].ok /\ g.k \in 1..Len(data[workers[w].pos].olvs)
         \/ g.pos = workers[w].pos + 1 /\ g.k = 0
  PROVE  /\ CountGoroutines'
         /\ StepOf(data, workers, workers', w, CountThreads)
         /\ workers'[w] = g
         /\ \A v \in 1..CountThreads : v # w => workers'[v] = workers[v]
<1> DEFINE t == CountThreads
           n == Len(data)
<1>1. /\ data \in Seq(CountRow) /\ data # <<>>
      /\ workers \in [1..t -> CountGoroutine]
      /\ n \in Nat \ {0} /\ t \in 1..n /\ t \in Nat
      /\ \A v \in 1..t : /\ Part(v, data, t) = Start(v - 1, n, t)..(Stop(v - 1, n, t) - 1)
                         /\ Part(v, data, t) \subseteq 1..n
                         /\ Start(v - 1, n, t) \in 1..n + 1 /\ Stop(v - 1, n, t) \in 1..n + 1
      /\ \A i \in 1..n : \A u, v \in 1..t : i \in Part(u, data, t) /\ i \in Part(v, data, t) => u = v
  <2>1. data \in Seq(CountRow) /\ data # <<>> /\ workers \in [1..t -> CountGoroutine]
    BY DEF CountGoroutines
  <2>2. t = ThreadsNumber(metric.threads, Len(data))
    BY DEF CountThreads
  <2> HIDE DEF t
  <2> QED
    BY <2>1, <2>2, CountPartition
<1>2. /\ \A v \in 1..t : /\ workers[v].pos \in Int /\ workers[v].stop \in Int /\ workers[v].k \in Nat
      /\ workers[w].stop = Stop(w - 1, n, t) /\ Start(w - 1, n, t) <= workers[w].pos
  BY <1>1 DEF CountGoroutine, CountGoroutines
<1>3. workers[w].pos \in Part(w, data, t) /\ workers[w].pos \in 1..n
  <2>1. workers[w].pos \in Start(w - 1, n, t)..(Stop(w - 1, n, t) - 1)
    BY <1>1, <1>2
  <2> QED
    BY <1>1, <2>1
<1>4. g.pos \in Int /\ g.k \in Nat /\ g.pos <= g.stop /\ Start(w - 1, n, t) <= g.pos
  <2>1. g.pos \in Int /\ g.k \in Nat
    BY DEF CountGoroutine
  <2>2. Start(w - 1, n, t) \in Int /\ workers[w].pos \in Int /\ workers[w].stop \in Int
    BY <1>1, <1>2
  <2> HIDE DEF t, n
  <2> QED
    BY <1>2, <2>1, <2>2
<1>5. /\ workers' \in [1..t -> CountGoroutine]
      /\ workers'[w] = g
      /\ \A v \in 1..t : v # w => workers'[v] = workers[v]
  BY <1>1
<1>7. StepOf(data, workers, workers', w, t)
  BY <1>1, <1>2, <1>3, <1>5 DEF StepOf
<1>8. CountThreads' = CountThreads
  BY DEF CountThreads
<1>9. CountGoroutines'
  <2>1. ASSUME NEW v \in 1..t
        PROVE  /\ workers'[v].stop = Stop(v - 1, n, t)
               /\ Start(v - 1, n, t) <= workers'[v].pos
               /\ workers'[v].pos <= workers'[v].stop
               /\ workers'[v].k # 0 => /\ workers'[v].pos < workers'[v].stop
                                       /\ data[workers'[v].pos].ok
                                       /\ workers'[v].k \in 1..Len(data[workers'[v].pos].olvs)
    <3>1. CASE v = w
      BY <1>2, <1>4, <1>5, <3>1
    <3>2. CASE v # w
      BY <1>5, <3>2 DEF CountGoroutines
    <3> QED
      BY <3>1, <3>2
  <2>2. ASSUME NEW i \in 1..Len(arrived)
        PROVE  arrived[i] # w /\ arrived[i] \in 1..t
    <3>1. arrived \in Seq(1..t) /\ workers[arrived[i]].pos = workers[arrived[i]].stop
      BY DEF CountGoroutines
    <3>2. arrived[i] \in 1..t
      BY <3>1, ElementOfSeq
    <3>3. workers[w].pos # workers[w].stop
      BY <1>2
    <3> QED
      BY <3>1, <3>2, <3>3
  <2>3. \A i \in 1..Len(arrived) : workers'[arrived[i]].pos = workers'[arrived[i]].stop
    BY <1>5, <2>2 DEF CountGoroutines
  <2> QED
    BY <1>1, <1>5, <1>8, <2>1, <2>3 DEF CountGoroutines
<1> QED
  BY <1>5, <1>7, <1>9

-----------------------------------------------------------------------------
KeyAt(answer, c) == <<answer[c[1]].id, answer[c[1]].olvs[c[2]]>>

(* Of the places C that were counted, among those that were passed, when   *)
(* the cache had the keys before and has now others too: no key is counted *)
(* twice, none that was known, and every other one that was met.           *)
KeysOnce(answer, C, passed, before, now) ==
  /\ \A c, d \in C : KeyAt(answer, c) = KeyAt(answer, d) => c = d
  /\ \A c \in C : KeyAt(answer, c) \notin before
  /\ \A c \in passed : KeyAt(answer, c) \in before \/ \E d \in C : KeyAt(answer, d) = KeyAt(answer, c)
  /\ now = before \cup {KeyAt(answer, c) : c \in passed}

(* The same of the rows P that were picked, and all their olvs.            *)
IdsOnce(answer, C, P, passed, entered, before, now) ==
  /\ C = {c \in passed : c[1] \in P}
  /\ P \subseteq entered
  /\ \A i, j \in P : answer[i].id = answer[j].id => i = j
  /\ \A i \in P : <<answer[i].id>> \notin before
  /\ \A i \in entered : <<answer[i].id>> \in before \/ \E j \in P : answer[j].id = answer[i].id
  /\ now = before \cup {<<answer[i].id>> : i \in entered}

CountedAs(C, P) ==
  LET t == CountThreads
      passed == Passed(data, workers, t)
      now == cache \cup cacheOld
  IN  /\ IsFiniteSet(C) /\ C \subseteq passed
      /\ \A w \in 1..t : workers[w].counts = CountsOf(data, {c \in C : c[1] \in Part(w, data, t)})
      /\ Count!Strategy = "none" => C = passed
      /\ Count!Strategy = "label" => KeysOnce(data, C, passed, known, now)
      /\ Count!Strategy = "metric" =>
           /\ IdsOnce(data, C, P, passed, Entered(data, workers, t), known, now)
           /\ \A w \in 1..t : workers[w].k # 0 => workers[w].pos \in P

CountInv ==
  /\ metric \in CountMetrics
  /\ pc = "idle" => Count!Reference(series)
  /\ pc = "work" => CountGoroutines /\ \E C, P : CountedAs(C, P)

(* What every step of a goroutine leaves as it is.                         *)
LEMMA CountSame ==
  ASSUME UNCHANGED <<metric, data>>
  PROVE  CountThreads' = CountThreads /\ Count!Strategy' = Count!Strategy
BY DEF CountThreads, Count!Strategy

(* A metric has one of three strategies.                                   *)
LEMMA StrategyFact == Count!Strategy \in {"none", "label", "metric"}
BY DEF Count!Strategy

(* What was passed or entered is in the answer.                            *)
LEMMA PassedFact ==
  ASSUME NEW answer, NEW ws, NEW t
  PROVE  /\ Passed(answer, ws, t) \subseteq AllPlaces(answer)
         /\ Entered(answer, ws, t) \subseteq 1..Len(answer)
         /\ \A c \in AllPlaces(answer) : c[1] \in 1..Len(answer) /\ c = <<c[1], c[2]>>
BY DEF Passed, Entered, AllPlaces

(* What a step has to show of the places counted after it.                 *)
LEMMA CountedNext ==
  ASSUME UNCHANGED <<metric, data, known>>, NEW C, NEW P,
         IsFiniteSet(C), C \subseteq Passed(data, workers', CountThreads),
         \A w \in 1..CountThreads :
           workers'[w].counts = CountsOf(data, {c \in C : c[1] \in Part(w, data, CountThreads)}),
         Count!Strategy = "none" => C = Passed(data, workers', CountThreads),
         Count!Strategy = "label" =>
           KeysOnce(data, C, Passed(data, workers', CountThreads), known, cache' \cup cacheOld'),
         Count!Strategy = "metric" =>
           /\ IdsOnce(data, C, P, Passed(data, workers', CountThreads), Entered(data, workers', CountThreads),
                      known, cache' \cup cacheOld')
           /\ \A w \in 1..CountThreads : workers'[w].k # 0 => workers'[w].pos \in P
  PROVE  CountedAs(C, P)'
<1>1. CountThreads' = CountThreads /\ Count!Strategy' = Count!Strategy
  BY CountSame
<1> QED
  BY <1>1 DEF CountedAs

(* A goroutine that moves on, enters a row, or counts.                     *)
MovedOn(g) == [g EXCEPT !.pos = g.pos + 1, !.k = 0]
AtFirst(g) == [g EXCEPT !.k = 1]
After(g, counts, k, p) == [g EXCEPT !.counts = counts, !.k = k, !.pos = p]

(* The three changes of a goroutine's record.                              *)
LEMMA GoroutineFact ==
  ASSUME NEW g \in CountGoroutine
  PROVE  /\ /\ MovedOn(g) \in CountGoroutine /\ MovedOn(g).pos = g.pos + 1 /\ MovedOn(g).stop = g.stop
            /\ MovedOn(g).k = 0 /\ MovedOn(g).counts = g.counts
         /\ /\ AtFirst(g) \in CountGoroutine /\ AtFirst(g).pos = g.pos /\ AtFirst(g).stop = g.stop
            /\ AtFirst(g).k = 1 /\ AtFirst(g).counts = g.counts
         /\ \A counts \in [Olvs -> Nat], k \in Nat, p \in Int :
              /\ After(g, counts, k, p) \in CountGoroutine /\ After(g, counts, k, p).pos = p
              /\ After(g, counts, k, p).stop = g.stop /\ After(g, counts, k, p).k = k
              /\ After(g, counts, k, p).counts = counts
<1>1. g.pos + 1 \in Int
  BY DEF CountGoroutine
<1>2. /\ MovedOn(g) \in CountGoroutine /\ MovedOn(g).pos = g.pos + 1 /\ MovedOn(g).stop = g.stop
      /\ MovedOn(g).k = 0 /\ MovedOn(g).counts = g.counts
  BY <1>1 DEF CountGoroutine, MovedOn
<1>3. /\ AtFirst(g) \in CountGoroutine /\ AtFirst(g).pos = g.pos /\ AtFirst(g).stop = g.stop
      /\ AtFirst(g).k = 1 /\ AtFirst(g).counts = g.counts
  BY DEF CountGoroutine, AtFirst
<1>4. ASSUME NEW counts \in [Olvs -> Nat], NEW k \in Nat, NEW p \in Int
      PROVE  /\ After(g, counts, k, p) \in CountGoroutine /\ After(g, counts, k, p).pos = p
             /\ After(g, counts, k, p).stop = g.stop /\ After(g, counts, k, p).k = k
             /\ After(g, counts, k, p).counts = counts
  BY DEF CountGoroutine, After
<1> QED
  BY <1>2, <1>3, <1>4

(* A row that meets no condition is passed.                                *)
LEMMA SkipStep ==
  ASSUME CountInv, NEW w \in DOMAIN workers, Count!SkipRow(w)
  PROVE  CountInv'
<1> DEFINE t == CountThreads
<1>1. /\ pc = "work" /\ CountGoroutines /\ metric \in CountMetrics
      /\ workers[w].pos < workers[w].stop /\ workers[w].k = 0 /\ ~data[workers[w].pos].ok
      /\ UNCHANGED <<metric, pc, data, cache, cacheOld, arrived, known>>
  BY DEF CountInv, Count!SkipRow, Count!Working, Count!cacheVars, Count!ghostVars
<1>2. PICK C, P : CountedAs(C, P)
  BY <1>1 DEF CountInv
<1>3. w \in 1..t /\ workers[w] \in CountGoroutine
  BY <1>1 DEF CountGoroutines
<1> DEFINE g == MovedOn(workers[w])
<1>4. /\ workers' = [workers EXCEPT ![w] = g] /\ g \in CountGoroutine
      /\ g.pos = workers[w].pos + 1 /\ g.stop = workers[w].stop /\ g.k = 0
      /\ g.counts = workers[w].counts
  BY <1>3, GoroutineFact DEF Count!SkipRow, Count!NextRow, MovedOn
<1>5. /\ CountGoroutines' /\ StepOf(data, workers, workers', w, t)
      /\ workers'[w] = g
      /\ \A v \in 1..t : v # w => workers'[v] = workers[v]
  BY <1>1, <1>3, <1>4, CountMove
<1>6. /\ Passed(data, workers', t) = Passed(data, workers, t)
      /\ Entered(data, workers', t) = Entered(data, workers, t)
  <2>1. workers'[w].pos = workers[w].pos + 1
    BY <1>4, <1>5
  <2> QED
    BY <1>1, <1>5, <2>1, SkipEffect
<1>7. CountThreads' = t /\ Count!Strategy' = Count!Strategy
  BY <1>1, CountSame
<1>8. \A v \in 1..t : /\ workers'[v].counts = workers[v].counts
                      /\ workers'[v].k # 0 => workers'[v].k = workers[v].k /\ workers'[v].pos = workers[v].pos
  BY <1>4, <1>5
<1>9. CountedAs(C, P)'
  BY <1>1, <1>2, <1>6, <1>7, <1>8 DEF CountedAs
<1> QED
  BY <1>1, <1>5, <1>9 DEF CountInv

-----------------------------------------------------------------------------
(* What is known of a goroutine that is at a row.                          *)
LEMMA CountWorking ==
  ASSUME CountInv, NEW w \in DOMAIN workers, Count!Working(w)
  PROVE  /\ pc = "work" /\ CountGoroutines /\ metric \in CountMetrics
         /\ w \in 1..CountThreads /\ workers[w] \in CountGoroutine
         /\ workers[w].pos < workers[w].stop /\ workers[w].pos \in Int /\ workers[w].pos \in 1..Len(data)
         /\ data[workers[w].pos] \in CountRow
         /\ \E C, P : CountedAs(C, P)
<1>1. /\ pc = "work" /\ CountGoroutines /\ metric \in CountMetrics /\ workers[w].pos < workers[w].stop
      /\ \E C, P : CountedAs(C, P)
  BY DEF CountInv, Count!Working
<1>2. /\ w \in 1..CountThreads /\ workers[w] \in CountGoroutine /\ data \in Seq(CountRow) /\ data # <<>>
      /\ workers[w].stop = Stop(w - 1, Len(data), CountThreads)
      /\ Start(w - 1, Len(data), CountThreads) <= workers[w].pos
  BY <1>1 DEF CountGoroutines
<1>3. workers[w].pos \in Int
  BY <1>2 DEF CountGoroutine
<1>4. /\ Start(w - 1, Len(data), CountThreads) \in 1..Len(data) + 1
      /\ Stop(w - 1, Len(data), CountThreads) \in 1..Len(data) + 1
      /\ Len(data) \in Nat
  <2>1. CountThreads = ThreadsNumber(metric.threads, Len(data))
    BY DEF CountThreads
  <2> QED
    BY <1>1, <1>2, <2>1, CountPartition
<1>5. workers[w].pos \in 1..Len(data)
  BY <1>1, <1>2, <1>3, <1>4
<1>6. data[workers[w].pos] \in CountRow
  BY <1>2, <1>5, ElementOfSeq
<1> QED
  BY <1>1, <1>2, <1>3, <1>5, <1>6

(* Places of rows that were not picked do not matter.                      *)
LEMMA PickedOnly ==
  ASSUME NEW A, NEW B, NEW P, A \subseteq B, \A c \in B : c \in A \/ c[1] \notin P
  PROVE  {c \in A : c[1] \in P} = {c \in B : c[1] \in P}
OBVIOUS

(* A row is entered; with the metric strategy its id is asked for.         *)
LEMMA TakeStep ==
  ASSUME CountInv, NEW w \in DOMAIN workers, Count!TakeRow(w)
  PROVE  CountInv'
<1> DEFINE t == CountThreads
           pos == workers[w].pos
           key == <<data[pos].id>>
           passed == Passed(data, workers, t)
           entered == Entered(data, workers, t)
           now == cache \cup cacheOld
<1>0. Count!Working(w)
  BY DEF Count!TakeRow
<1>1. /\ pc = "work" /\ CountGoroutines /\ metric \in CountMetrics
      /\ w \in 1..t /\ workers[w] \in CountGoroutine /\ pos < workers[w].stop /\ pos \in Int
      /\ pos \in 1..Len(data) /\ data[pos] \in CountRow
      /\ workers[w].k = 0 /\ data[pos].ok
      /\ UNCHANGED <<metric, pc, data, cacheOld, arrived, known>>
  BY <1>0, CountWorking DEF Count!TakeRow
<1>2. PICK C, P : CountedAs(C, P)
  BY <1>0, CountWorking
<1>3. CountThreads' = t /\ Count!Strategy' = Count!Strategy
  BY <1>1, CountSame
<1>4. /\ IsFiniteSet(C) /\ C \subseteq passed
      /\ \A v \in 1..t : workers[v].counts = CountsOf(data, {c \in C : c[1] \in Part(v, data, t)})
  BY <1>2 DEF CountedAs
<1>5. ASSUME NEW g, workers' = [workers EXCEPT ![w] = g], g = AtFirst(workers[w])
      PROVE  /\ CountGoroutines'
             /\ \A v \in 1..t : v # w => workers'[v] = workers[v]
             /\ \A v \in 1..t : workers'[v].pos = workers[v].pos /\ workers'[v].counts = workers[v].counts
             /\ Passed(data, workers', t) = passed
             /\ Entered(data, workers', t) = entered \cup {pos}
             /\ pos \notin entered
             /\ \A c \in passed : c[1] # pos
  <2>1. /\ g \in CountGoroutine /\ g.pos = pos /\ g.stop = workers[w].stop /\ g.k = 1
        /\ g.counts = workers[w].counts
    BY <1>1, <1>5, GoroutineFact
  <2>2. 1 \in 1..Len(data[pos].olvs)
    BY <1>1 DEF CountRow
  <2>3. /\ CountGoroutines' /\ StepOf(data, workers, workers', w, t)
        /\ workers'[w] = g
        /\ \A v \in 1..t : v # w => workers'[v] = workers[v]
    BY <1>1, <1>5, <2>1, <2>2, CountMove
  <2>4. workers'[w].pos = pos /\ workers'[w].k = 1
    BY <2>1, <2>3
  <2>5. \A v \in 1..t : workers'[v].pos = workers[v].pos /\ workers'[v].counts = workers[v].counts
    BY <2>1, <2>3
  <2>6. /\ Passed(data, workers', t) = passed
        /\ Entered(data, workers', t) = entered \cup {pos}
        /\ pos \notin entered
        /\ \A c \in passed : c[1] # pos
    BY <1>1, <2>3, <2>4, EnterEffect
  <2> QED
    BY <2>3, <2>5, <2>6
<1>6. CASE Count!Strategy # "metric"
  <2>1. /\ workers' = [workers EXCEPT ![w] = AtFirst(workers[w])] /\ cache' = cache
    BY <1>6 DEF Count!TakeRow, AtFirst
  <2>2. /\ CountGoroutines' /\ Passed(data, workers', t) = passed
        /\ \A v \in 1..t : workers'[v].counts = workers[v].counts
    BY <1>5, <2>1
  <2>3. CountedAs(C, P)'
    BY <1>1, <1>2, <1>3, <1>6, <2>1, <2>2 DEF CountedAs
  <2> QED
    BY <1>1, <2>2, <2>3 DEF CountInv
<1>7. CASE Count!Strategy = "metric"
  <2>1. /\ IdsOnce(data, C, P, passed, entered, known, now)
        /\ \A v \in 1..t : workers[v].k # 0 => workers[v].pos \in P
    BY <1>2, <1>7 DEF CountedAs
  <2>2. /\ cache' \cup cacheOld' = now \cup {key}
        /\ Count!IsUsed(key) <=> key \in now
        /\ workers' = IF Count!IsUsed(key) THEN Count!NextRow(w) ELSE [workers EXCEPT ![w].k = 1]
    BY <1>1, <1>7 DEF Count!TakeRow, Count!Ask, Count!IsUsed
  <2>3. CASE key \notin now
    <3>0. PICK Q : Q = P \cup {pos}
      OBVIOUS
    <3>1. workers' = [workers EXCEPT ![w] = AtFirst(workers[w])]
      BY <2>2, <2>3 DEF AtFirst
    <3>2. /\ CountGoroutines'
          /\ \A v \in 1..t : v # w => workers'[v] = workers[v]
          /\ \A v \in 1..t : workers'[v].pos = workers[v].pos /\ workers'[v].counts = workers[v].counts
          /\ Passed(data, workers', t) = passed
          /\ Entered(data, workers', t) = entered \cup {pos}
          /\ pos \notin entered
          /\ \A c \in passed : c[1] # pos
      BY <1>5, <3>1
    <3>3. IdsOnce(data, C, Q, passed, entered \cup {pos}, known, now \cup {key})
      <4>1. C = {c \in passed : c[1] \in Q}
        BY <2>1, <3>0, <3>2 DEF IdsOnce
      <4>2. Q \subseteq entered \cup {pos}
        BY <2>1, <3>0 DEF IdsOnce
      <4>3. \A i \in P : data[i].id # data[pos].id
        BY <2>1, <2>3, <3>0 DEF IdsOnce
      <4>4. \A i, j \in Q : data[i].id = data[j].id => i = j
        BY <2>1, <3>0, <4>3 DEF IdsOnce
      <4>5. \A i \in Q : <<data[i].id>> \notin known
        BY <2>1, <2>3, <3>0 DEF IdsOnce
      <4>6. \A i \in entered \cup {pos} : <<data[i].id>> \in known \/ \E j \in Q : data[j].id = data[i].id
        BY <2>1, <3>0 DEF IdsOnce
      <4>7. now \cup {key} = known \cup {<<data[i].id>> : i \in entered \cup {pos}}
        BY <2>1, <3>0 DEF IdsOnce
      <4> QED
        BY <4>1, <4>2, <4>4, <4>5, <4>6, <4>7 DEF IdsOnce
    <3>4. \A v \in 1..t : workers'[v].k # 0 => workers'[v].pos \in Q
      BY <2>1, <3>0, <3>2
    <3>5. CountedAs(C, Q)'
      <4>1. IdsOnce(data, C, Q, Passed(data, workers', t), Entered(data, workers', t), known,
                    cache' \cup cacheOld')
        <5> HIDE DEF key, passed, entered, now, pos
        <5> QED
          BY <2>2, <3>2, <3>3
      <4>2. C \subseteq Passed(data, workers', t)
        BY <1>4, <3>2
      <4>3. \A v \in 1..t : workers'[v].counts = CountsOf(data, {c \in C : c[1] \in Part(v, data, t)})
        BY <1>4, <3>2
      <4>4. UNCHANGED <<metric, data, known>> /\ IsFiniteSet(C)
        BY <1>1, <1>4
      <4>5. Count!Strategy = "metric" =>
              /\ IdsOnce(data, C, Q, Passed(data, workers', t), Entered(data, workers', t), known,
                         cache' \cup cacheOld')
              /\ \A v \in 1..t : workers'[v].k # 0 => workers'[v].pos \in Q
        BY <3>4, <4>1
      <4>6. Count!Strategy # "none" /\ Count!Strategy # "label"
        BY <1>7
      <4> HIDE DEF key, passed, entered, now, pos
      <4> QED
        BY <4>2, <4>3, <4>4, <4>5, <4>6, CountedNext
    <3> QED
      BY <1>1, <3>2, <3>5 DEF CountInv
  <2>4. CASE key \in now
    <3> DEFINE g == MovedOn(workers[w])
    <3>1. workers' = [workers EXCEPT ![w] = g]
      BY <2>2, <2>4 DEF MovedOn, Count!NextRow
    <3>2. /\ g \in CountGoroutine /\ g.pos = pos + 1 /\ g.stop = workers[w].stop /\ g.k = 0
          /\ g.counts = workers[w].counts
      BY <1>1, GoroutineFact
    <3>3. /\ CountGoroutines' /\ StepOf(data, workers, workers', w, t)
          /\ workers'[w] = g
          /\ \A v \in 1..t : v # w => workers'[v] = workers[v]
      <4> HIDE DEF g
      <4> QED
        BY <1>1, <3>1, <3>2, CountMove
    <3>4. workers'[w].pos = pos + 1 /\ workers'[w].pos # pos
      BY <1>1, <3>2, <3>3
    <3>5. /\ Passed(data, workers', t) = passed \cup {c \in AllPlaces(data) : c[1] = pos}
          /\ Entered(data, workers', t) = entered \cup {pos}
          /\ pos \notin entered
      BY <1>1, <3>3, <3>4, EnterEffect
    <3>6. IdsOnce(data, C, P, Passed(data, workers', t), entered \cup {pos}, known, now \cup {key})
      <4>1. C = {c \in Passed(data, workers', t) : c[1] \in P}
        <5>1. pos \notin P /\ C = {c \in passed : c[1] \in P}
          BY <2>1, <3>5 DEF IdsOnce
        <5>2. \A c \in Passed(data, workers', t) : c \in passed \/ c[1] = pos
          BY <3>5
        <5>3. passed \subseteq Passed(data, workers', t)
          BY <3>5
        <5>4. \A c \in Passed(data, workers', t) : c \in passed \/ c[1] \notin P
          BY <5>1, <5>2
        <5> HIDE DEF pos, passed
        <5>5. {c \in passed : c[1] \in P} = {c \in Passed(data, workers', t) : c[1] \in P}
          BY <5>3, <5>4, PickedOnly
        <5> QED
          BY <5>1, <5>5
      <4>2. <<data[pos].id>> \in known \/ \E j \in P : data[j].id = data[pos].id
        <5>1. CASE key \in known
          BY <5>1
        <5>2. CASE key \notin known
          <6>1. PICK i \in entered : key = <<data[i].id>>
            BY <2>1, <2>4, <5>2 DEF IdsOnce
          <6>2. data[i].id = data[pos].id
            BY <6>1
          <6>3. <<data[i].id>> \in known \/ \E j \in P : data[j].id = data[i].id
            BY <2>1 DEF IdsOnce
          <6> HIDE DEF pos
          <6> QED
            BY <6>2, <6>3
        <5> QED
          BY <5>1, <5>2
      <4>3. \A i \in entered \cup {pos} : <<data[i].id>> \in known \/ \E j \in P : data[j].id = data[i].id
        BY <2>1, <4>2 DEF IdsOnce
      <4>4. now \cup {key} = known \cup {<<data[i].id>> : i \in entered \cup {pos}}
        BY <2>1 DEF IdsOnce
      <4> QED
        BY <2>1, <4>1, <4>3, <4>4 DEF IdsOnce
    <3>7. /\ \A v \in 1..t : workers'[v].k # 0 => workers'[v].pos \in P
          /\ \A v \in 1..t : workers'[v].counts = workers[v].counts
      BY <2>1, <3>2, <3>3
    <3>8. CountedAs(C, P)'
      <4>1. C \subseteq Passed(data, workers', t)
        BY <1>4, <3>5
      <4>2. IdsOnce(data, C, P, Passed(data, workers', t), Entered(data, workers', t), known,
                    cache' \cup cacheOld')
        <5> HIDE DEF key, passed, entered, now, pos
        <5> QED
          BY <2>2, <3>5, <3>6
      <4>3. \A v \in 1..t : workers'[v].counts = CountsOf(data, {c \in C : c[1] \in Part(v, data, t)})
        BY <1>4, <3>7
      <4>4. UNCHANGED <<metric, data, known>> /\ IsFiniteSet(C)
        BY <1>1, <1>4
      <4>5. Count!Strategy = "metric" =>
              /\ IdsOnce(data, C, P, Passed(data, workers', t), Entered(data, workers', t), known,
                         cache' \cup cacheOld')
              /\ \A v \in 1..t : workers'[v].k # 0 => workers'[v].pos \in P
        BY <3>7, <4>2
      <4>6. Count!Strategy # "none" /\ Count!Strategy # "label"
        BY <1>7
      <4> HIDE DEF key, passed, entered, now, pos
      <4> QED
        BY <4>1, <4>3, <4>4, <4>5, <4>6, CountedNext
    <3> QED
      BY <1>1, <3>3, <3>8 DEF CountInv
  <2> QED
    BY <2>3, <2>4
<1> QED
  BY <1>6, <1>7

-----------------------------------------------------------------------------
(* One place more counts once more.                                        *)
LEMMA CountsPlusOne ==
  ASSUME NEW answer, NEW C, IsFiniteSet(C), NEW c0, c0 \notin C,
         NEW olv \in Olvs, olv = answer[c0[1]].olvs[c0[2]]
  PROVE  /\ CountsOf(answer, C \cup {c0}) = [CountsOf(answer, C) EXCEPT ![olv] = @ + 1]
         /\ CountsOf(answer, C) \in [Olvs -> Nat]
         /\ CountsOf(answer, C \cup {c0}) \in [Olvs -> Nat]
<1> DEFINE At(S, o) == {c \in S : answer[c[1]].olvs[c[2]] = o}
<1>1. ASSUME NEW o \in Olvs
      PROVE  /\ Cardinality(At(C, o)) \in Nat
             /\ Cardinality(At(C \cup {c0}, o)) = Cardinality(At(C, o)) + (IF o = olv THEN 1 ELSE 0)
  <2>1. IsFiniteSet(At(C, o)) /\ c0 \notin At(C, o)
    BY FS_Subset
  <2>2. Cardinality(At(C, o)) \in Nat
    BY <2>1, FS_CardinalityType
  <2>3. CASE o = olv
    <3>1. At(C \cup {c0}, o) = At(C, o) \cup {c0}
      BY <2>3
    <3> HIDE DEF At
    <3>2. Cardinality(At(C, o) \cup {c0}) = Cardinality(At(C, o)) + 1
      BY <2>1, FS_AddElement
    <3> QED
      BY <2>2, <2>3, <3>1, <3>2
  <2>4. CASE o # olv
    <3>1. At(C \cup {c0}, o) = At(C, o)
      BY <2>4
    <3> HIDE DEF At
    <3> QED
      BY <2>2, <2>4, <3>1
  <2> QED
    BY <2>3, <2>4
<1> DEFINE before == CountsOf(answer, C)
           after == CountsOf(answer, C \cup {c0})
<1>2. /\ before = [o \in Olvs |-> Cardinality(At(C, o))]
      /\ after = [o \in Olvs |-> Cardinality(At(C \cup {c0}, o))]
  BY DEF CountsOf
<1> HIDE DEF At, before, after
<1>3. ASSUME NEW o \in Olvs
      PROVE  before[o] \in Nat /\ after[o] = before[o] + (IF o = olv THEN 1 ELSE 0)
  BY <1>1, <1>2
<1>4. before \in [Olvs -> Nat]
  BY <1>2, <1>3
<1>5. after \in [Olvs -> Nat]
  <2>1. \A o \in Olvs : after[o] \in Nat
    BY <1>3
  <2> QED
    BY <1>2, <2>1
<1>6. after = [before EXCEPT ![olv] = @ + 1]
  <2>1. \A o \in Olvs : after[o] = [before EXCEPT ![olv] = @ + 1][o]
    BY <1>3, <1>4
  <2> QED
    BY <1>4, <1>5, <2>1
<1> QED
  BY <1>4, <1>5, <1>6 DEF before, after

(* The counting of an olv as a move of the goroutine.                      *)
LEMMA NextOlvFact ==
  ASSUME NEW w \in DOMAIN workers, NEW t, workers \in [1..t -> CountGoroutine], NEW counts,
         NEW k, NEW p,
         \/ workers[w].k < Len(data[workers[w].pos].olvs) /\ k = workers[w].k + 1 /\ p = workers[w].pos
         \/ ~(workers[w].k < Len(data[workers[w].pos].olvs)) /\ k = 0 /\ p = workers[w].pos + 1
  PROVE  Count!NextOlv(w, counts) = [workers EXCEPT ![w] = After(workers[w], counts, k, p)]
<1>1. w \in 1..t /\ workers[w] \in [pos : Int, stop : Int, k : Nat, counts : [Olvs -> Nat]]
  BY DEF CountGoroutine
<1>2. CASE workers[w].k < Len(data[workers[w].pos].olvs) /\ k = workers[w].k + 1 /\ p = workers[w].pos
  BY <1>1, <1>2 DEF Count!NextOlv, After
<1>3. CASE ~(workers[w].k < Len(data[workers[w].pos].olvs)) /\ k = 0 /\ p = workers[w].pos + 1
  BY <1>1, <1>3 DEF Count!NextOlv, After
<1> QED
  BY <1>2, <1>3

(* A place is passed: counted or, when its key was used, left out.         *)
LEMMA CountOlvStep ==
  ASSUME CountInv, NEW w \in DOMAIN workers, Count!CountOlv(w)
  PROVE  CountInv'
<1> DEFINE t == CountThreads
           pos == workers[w].pos
           c0 == <<pos, workers[w].k>>
           olv == data[pos].olvs[workers[w].k]
           key == <<data[pos].id, olv>>
           passed == Passed(data, workers, t)
           entered == Entered(data, workers, t)
           now == cache \cup cacheOld
           counts == workers[w].counts
           plusOne == [counts EXCEPT ![olv] = @ + 1]
           used == Count!Strategy = "label" /\ key \in now
<1>0. Count!Working(w)
  BY DEF Count!CountOlv
<1>1. /\ pc = "work" /\ CountGoroutines /\ metric \in CountMetrics
      /\ w \in 1..t /\ workers[w] \in CountGoroutine /\ pos < workers[w].stop /\ pos \in Int
      /\ pos \in 1..Len(data) /\ data[pos] \in CountRow
      /\ workers[w].k # 0
      /\ UNCHANGED <<metric, pc, data, cacheOld, arrived, known>>
  BY <1>0, CountWorking DEF Count!CountOlv
<1>2. PICK C, P : CountedAs(C, P)
  BY <1>0, CountWorking
<1>3. /\ IsFiniteSet(C) /\ C \subseteq passed
      /\ \A v \in 1..t : workers[v].counts = CountsOf(data, {c \in C : c[1] \in Part(v, data, t)})
  BY <1>2 DEF CountedAs
<1>4. /\ data[pos].ok /\ workers[w].k \in 1..Len(data[pos].olvs) /\ workers[w].k \in Nat
      /\ Len(data[pos].olvs) \in Nat /\ olv \in Olvs
  <2>1. data[pos].ok /\ workers[w].k \in 1..Len(data[pos].olvs)
    BY <1>1 DEF CountGoroutines
  <2>2. data[pos].olvs \in Seq(Olvs)
    BY <1>1 DEF CountRow
  <2> HIDE DEF pos
  <2>3. olv \in Olvs
    BY <2>1, <2>2, ElementOfSeq
  <2>4. Len(data[pos].olvs) \in Nat
    BY <2>2
  <2> QED
    BY <2>1, <2>3, <2>4
<1>5. /\ workers' = Count!NextOlv(w, IF used THEN counts ELSE plusOne)
      /\ Count!Strategy = "label" => cache' \cup cacheOld' = now \cup {key}
      /\ Count!Strategy # "label" => cache' \cup cacheOld' = now
  <2>1. CASE Count!Strategy = "label"
    BY <1>1, <2>1 DEF Count!CountOlv, Count!Ask, Count!IsUsed
  <2>2. CASE Count!Strategy # "label"
    BY <1>1, <2>2 DEF Count!CountOlv
  <2> QED
    BY <2>1, <2>2
<1>6. PICK D : /\ used => D = C
               /\ ~used => D = C \cup {c0}
  <2>1. CASE used
    BY <2>1
  <2>2. CASE ~used
    BY <2>2
  <2> QED
    BY <2>1, <2>2
<1>7. PICK m : /\ used => m = counts
               /\ ~used => m = plusOne
  <2>1. CASE used
    BY <2>1
  <2>2. CASE ~used
    BY <2>2
  <2> QED
    BY <2>1, <2>2
<1>8. PICK k \in Nat, p \in Int :
        \/ workers[w].k < Len(data[pos].olvs) /\ k = workers[w].k + 1 /\ p = pos
        \/ ~(workers[w].k < Len(data[pos].olvs)) /\ k = 0 /\ p = pos + 1
  <2> HIDE DEF pos
  <2>1. CASE workers[w].k < Len(data[pos].olvs)
    BY <1>1, <1>4, <2>1
  <2>2. CASE ~(workers[w].k < Len(data[pos].olvs))
    BY <1>1, <1>4, <2>2
  <2> QED
    BY <2>1, <2>2
<1>9. m \in [Olvs -> Nat]
  <2>1. counts \in [Olvs -> Nat]
    BY <1>1 DEF CountGoroutine
  <2>2. plusOne \in [Olvs -> Nat]
    <3> HIDE DEF counts, olv
    <3> QED
      BY <1>4, <2>1
  <2> HIDE DEF counts, plusOne, used
  <2> QED
    BY <1>7, <2>1, <2>2
<1> DEFINE g == After(workers[w], m, k, p)
<1>10. workers' = [workers EXCEPT ![w] = g]
  <2>1. workers \in [1..t -> CountGoroutine]
    BY <1>1 DEF CountGoroutines
  <2>2. Count!NextOlv(w, m) = [workers EXCEPT ![w] = g]
    <3> HIDE DEF t
    <3> QED
      BY <1>8, <2>1, NextOlvFact
  <2>3. workers' = Count!NextOlv(w, m)
    <3> HIDE DEF used, counts, plusOne
    <3> QED
      BY <1>5, <1>7
  <2> QED
    BY <2>2, <2>3
<1>11. g \in CountGoroutine /\ g.pos = p /\ g.stop = workers[w].stop /\ g.k = k /\ g.counts = m
  BY <1>1, <1>9, GoroutineFact
<1>12. /\ CountGoroutines' /\ StepOf(data, workers, workers', w, t)
       /\ workers'[w] = g
       /\ \A v \in 1..t : v # w => workers'[v] = workers[v]
  <2>1. \/ g.pos = pos /\ data[pos].ok /\ g.k \in 1..Len(data[pos].olvs)
        \/ g.pos = pos + 1 /\ g.k = 0
    <3> HIDE DEF g, pos
    <3> QED
      BY <1>4, <1>8, <1>11
  <2> HIDE DEF g
  <2> QED
    BY <1>1, <1>10, <1>11, <2>1, CountMove
<1>13. /\ workers'[w].pos = p /\ workers'[w].k = k /\ workers'[w].counts = m
  BY <1>11, <1>12
<1>14. /\ Passed(data, workers', t) = passed \cup {c0}
       /\ Entered(data, workers', t) = entered
       /\ c0 \notin passed
       /\ c0 \in AllPlaces(data)
  <2>1. IF workers[w].k < Len(data[workers[w].pos].olvs)
          THEN workers'[w].pos = workers[w].pos /\ workers'[w].k = workers[w].k + 1
          ELSE workers'[w].pos = workers[w].pos + 1
    BY <1>8, <1>13
  <2> QED
    BY <1>4, <1>12, <2>1, OlvEffect
<1>15. /\ pos \in Part(w, data, t)
       /\ \A v \in 1..t : v # w => pos \notin Part(v, data, t)
  BY <1>12 DEF StepOf
<1>16. IsFiniteSet(D) /\ D \subseteq Passed(data, workers', t)
  <2> HIDE DEF used, c0, passed, t
  <2>1. IsFiniteSet(C \cup {c0})
    BY <1>3, FS_AddElement
  <2> QED
    BY <1>3, <1>6, <1>14, <2>1
<1>17. ASSUME NEW v \in 1..t
       PROVE  workers'[v].counts = CountsOf(data, {c \in D : c[1] \in Part(v, data, t)})
  <2>1. CASE v = w
    <3> DEFINE A == {c \in C : c[1] \in Part(w, data, t)}
               B == {c \in D : c[1] \in Part(w, data, t)}
    <3>1. CASE used
      BY <1>3, <1>6, <1>7, <1>13, <2>1, <3>1
    <3>2. CASE ~used
      <4>1. B = A \cup {c0}
        BY <1>6, <1>15, <3>2
      <4>2. IsFiniteSet(A) /\ c0 \notin A
        BY <1>3, <1>14, FS_Subset
      <4>3. olv = data[c0[1]].olvs[c0[2]]
        OBVIOUS
      <4> HIDE DEF A, B, c0, olv
      <4>4. CountsOf(data, A \cup {c0}) = [CountsOf(data, A) EXCEPT ![olv] = @ + 1]
        BY <1>4, <4>2, <4>3, CountsPlusOne
      <4>5. counts = CountsOf(data, A)
        BY <1>1, <1>3 DEF A
      <4>6. workers'[w].counts = plusOne
        BY <1>7, <1>13, <3>2
      <4>7. workers'[w].counts = CountsOf(data, B)
        BY <4>1, <4>4, <4>5, <4>6
      <4> QED
        BY <2>1, <4>7 DEF B
    <3> QED
      BY <3>1, <3>2
  <2>2. CASE v # w
    <3>1. {c \in D : c[1] \in Part(v, data, t)} = {c \in C : c[1] \in Part(v, data, t)}
      BY <1>6, <1>15, <2>2
    <3> QED
      BY <1>3, <1>12, <2>2, <3>1
  <2> QED
    BY <2>1, <2>2
<1>18. Count!Strategy = "none" => D = Passed(data, workers', t)
  <2> SUFFICES ASSUME Count!Strategy = "none" PROVE D = Passed(data, workers', t)
    OBVIOUS
  <2>1. C = passed /\ ~used
    BY <1>2 DEF CountedAs
  <2> QED
    BY <1>6, <1>14, <2>1
<1>19. Count!Strategy = "label" =>
         KeysOnce(data, D, Passed(data, workers', t), known, cache' \cup cacheOld')
  <2> SUFFICES ASSUME Count!Strategy = "label"
               PROVE  KeysOnce(data, D, passed \cup {c0}, known, now \cup {key})
    <3> HIDE DEF passed, c0, now, key
    <3> QED
      BY <1>5, <1>14
  <2>1. KeysOnce(data, C, passed, known, now)
    BY <1>2 DEF CountedAs
  <2>2. KeyAt(data, c0) = key
    BY DEF KeyAt
  <2> HIDE DEF key, c0, passed, now
  <2>3. now \cup {key} = known \cup {KeyAt(data, c) : c \in passed \cup {c0}}
    BY <2>1, <2>2 DEF KeysOnce
  <2>4. CASE key \in now
    <3>1. D = C
      BY <1>6, <2>4
    <3>2. key \in known \/ \E d \in C : KeyAt(data, d) = key
      <4>1. CASE key \in known
        BY <4>1
      <4>2. CASE key \notin known
        <5>1. PICK c \in passed : key = KeyAt(data, c)
          BY <2>1, <2>4, <4>2 DEF KeysOnce
        <5> QED
          BY <2>1, <5>1 DEF KeysOnce
      <4> QED
        BY <4>1, <4>2
    <3> QED
      BY <2>1, <2>2, <2>3, <3>1, <3>2 DEF KeysOnce
  <2>5. CASE key \notin now
    <3>1. D = C \cup {c0}
      BY <1>6, <2>5
    <3>2. \A c \in C : KeyAt(data, c) # key
      BY <1>3, <2>1, <2>5 DEF KeysOnce
    <3>3. \A c, d \in D : KeyAt(data, c) = KeyAt(data, d) => c = d
      BY <2>1, <2>2, <3>1, <3>2 DEF KeysOnce
    <3>4. \A c \in D : KeyAt(data, c) \notin known
      BY <2>1, <2>2, <2>5, <3>1 DEF KeysOnce
    <3>5. \A c \in passed \cup {c0} : KeyAt(data, c) \in known \/ \E d \in D : KeyAt(data, d) = KeyAt(data, c)
      BY <2>1, <3>1 DEF KeysOnce
    <3> QED
      BY <2>3, <3>3, <3>4, <3>5 DEF KeysOnce
  <2> QED
    BY <2>4, <2>5
<1>20. Count!Strategy = "metric" =>
         /\ IdsOnce(data, D, P, Passed(data, workers', t), Entered(data, workers', t), known,
                    cache' \cup cacheOld')
         /\ \A v \in 1..t : workers'[v].k # 0 => workers'[v].pos \in P
  <2> SUFFICES ASSUME Count!Strategy = "metric"
               PROVE  /\ IdsOnce(data, D, P, passed \cup {c0}, entered, known, now)
                      /\ \A v \in 1..t : workers'[v].k # 0 => workers'[v].pos \in P
    <3> HIDE DEF passed, c0, now, key, entered
    <3> QED
      BY <1>5, <1>14
  <2>1. /\ IdsOnce(data, C, P, passed, entered, known, now)
        /\ \A v \in 1..t : workers[v].k # 0 => workers[v].pos \in P
    BY <1>2 DEF CountedAs
  <2>2. pos \in P
    BY <1>1, <2>1
  <2>3. D = C \cup {c0} /\ c0[1] = pos
    BY <1>6
  <2>4. \A v \in 1..t : workers'[v].k # 0 => workers'[v].pos \in P
    <3>1. k # 0 => p = pos
      BY <1>8
    <3> QED
      BY <1>12, <1>13, <2>1, <2>2, <3>1
  <2>5. D = {c \in passed \cup {c0} : c[1] \in P}
    <3> HIDE DEF c0, passed, pos
    <3> QED
      BY <2>1, <2>2, <2>3 DEF IdsOnce
  <2> HIDE DEF c0, passed, pos, entered, now
  <2> QED
    BY <2>1, <2>4, <2>5 DEF IdsOnce
<1>21. CountedAs(D, P)'
  <2>1. UNCHANGED <<metric, data, known>>
    BY <1>1
  <2> HIDE DEF key, passed, entered, now, pos, counts, plusOne, used, olv, c0, g
  <2> QED
    BY <1>16, <1>17, <1>18, <1>19, <1>20, <2>1, CountedNext
<1> QED
  BY <1>1, <1>12, <1>21 DEF CountInv

-----------------------------------------------------------------------------
(* The operators that CountEvaluation takes from other modules.            *)
LEMMA CountLibrary ==
  /\ \A S : Count!Cardinality(S) = Cardinality(S)
  /\ \A threads, n : Count!ThreadsNumber(threads, n) = ThreadsNumber(threads, n)
  /\ \A i, n, t : Count!Start(i, n, t) = Start(i, n, t) /\ Count!Stop(i, n, t) = Stop(i, n, t)
BY DEF Count!Cardinality, Cardinality, Count!ThreadsNumber, ThreadsNumber, Count!Start, Start,
       Count!Stop, Stop

(* A map arrives, of a goroutine that is through and has not sent.         *)
LEMMA ReceiveStep ==
  ASSUME CountInv, NEW w \in DOMAIN workers, Count!Receive(w)
  PROVE  CountInv'
<1> DEFINE t == CountThreads
<1>1. /\ pc = "work" /\ CountGoroutines /\ metric \in CountMetrics
      /\ workers[w].pos = workers[w].stop
      /\ \A i \in DOMAIN arrived : arrived[i] # w
      /\ arrived' = Append(arrived, w)
      /\ UNCHANGED <<metric, pc, data, cache, cacheOld, workers, series, known>>
  BY DEF CountInv, Count!Receive, Count!ToSet, Count!cacheVars, Count!ghostVars
<1>2. PICK C, P : CountedAs(C, P)
  BY <1>1 DEF CountInv
<1>3. CountThreads' = t /\ Count!Strategy' = Count!Strategy
  BY <1>1, CountSame
<1>4. CountedAs(C, P)'
  BY <1>1, <1>2, <1>3 DEF CountedAs
<1>5. /\ workers \in [1..t -> CountGoroutine] /\ w \in 1..t
      /\ arrived \in Seq(1..t)
      /\ \A i, j \in 1..Len(arrived) : arrived[i] = arrived[j] => i = j
      /\ \A i \in 1..Len(arrived) : workers[arrived[i]].pos = workers[arrived[i]].stop
  BY <1>1 DEF CountGoroutines
<1> HIDE DEF t
<1>6. /\ arrived' \in Seq(1..t) /\ Len(arrived') = Len(arrived) + 1 /\ Len(arrived) \in Nat
      /\ arrived'[Len(arrived) + 1] = w
      /\ \A i \in 1..Len(arrived) : arrived'[i] = arrived[i] /\ arrived[i] # w
  BY <1>1, <1>5
<1>7. \A i \in 1..Len(arrived') : i \in 1..Len(arrived) \/ i = Len(arrived) + 1
  BY <1>6
<1>8. \A i, j \in 1..Len(arrived') : arrived'[i] = arrived'[j] => i = j
  BY <1>5, <1>6, <1>7
<1>9. \A i \in 1..Len(arrived') : workers[arrived'[i]].pos = workers[arrived'[i]].stop
  BY <1>1, <1>5, <1>6, <1>7
<1>10. CountGoroutines'
  BY <1>1, <1>3, <1>6, <1>8, <1>9 DEF CountGoroutines, t
<1> QED
  BY <1>1, <1>4, <1>10 DEF CountInv

(* Goroutines that start are behind no place.                              *)
LEMMA NothingPassed ==
  ASSUME metric \in CountMetrics, NEW answer, answer \in Seq(CountRow), answer # <<>>,
         NEW t, t = ThreadsNumber(metric.threads, Len(answer)), NEW ws,
         \A w \in 1..t : ws[w].pos = Start(w - 1, Len(answer), t) /\ ws[w].k = 0
  PROVE  Passed(answer, ws, t) = {} /\ Entered(answer, ws, t) = {}
<1>1. \A w \in 1..t : /\ Start(w - 1, Len(answer), t) \in Int /\ Stop(w - 1, Len(answer), t) \in Int
                      /\ Part(w, answer, t) = Start(w - 1, Len(answer), t)..(Stop(w - 1, Len(answer), t) - 1)
  <2>1. /\ Len(answer) \in Nat
        /\ \A w \in 1..t :
             /\ Start(w - 1, Len(answer), t) \in 1..Len(answer) + 1
             /\ Stop(w - 1, Len(answer), t) \in 1..Len(answer) + 1
             /\ Part(w, answer, t) = Start(w - 1, Len(answer), t)..(Stop(w - 1, Len(answer), t) - 1)
    BY CountPartition
  <2> QED
    BY <2>1
<1>2. ASSUME NEW w \in 1..t, NEW i \in Part(w, answer, t), NEW k \in Nat
      PROVE  ~Behind(ws[w], i, k)
  <2>1. i \in Int /\ Start(w - 1, Len(answer), t) <= i
    BY <1>1, <1>2
  <2> QED
    BY <1>1, <1>2, <2>1 DEF Behind
<1>3. Passed(answer, ws, t) = {}
  <2>1. \A c \in AllPlaces(answer) : c[2] \in Nat
    BY DEF AllPlaces
  <2> QED
    BY <1>2, <2>1 DEF Passed
<1>4. Entered(answer, ws, t) = {}
  BY <1>2 DEF Entered
<1> QED
  BY <1>3, <1>4

(* An answer is split: nothing is passed, nothing counted.                 *)
LEMMA StartStep ==
  ASSUME CountInv, NEW rows \in Count!BoundedSeq(metric.rows, metric.maxRows), Count!StartWorkers(rows)
  PROVE  CountInv'
<1> DEFINE n == Len(rows)
           t == ThreadsNumber(metric.threads, n)
<1>1. /\ metric \in CountMetrics /\ rows # <<>> /\ data' = rows /\ metric' = metric
      /\ known' = cache' \cup cacheOld'
      /\ workers' = [w \in 1..t |-> Count!NewWorker(w - 1, n, t)]
      /\ arrived' = <<>> /\ pc' = "work"
  <2>1. metric \in CountMetrics
    BY DEF CountInv
  <2>2. workers' = [w \in 1..t |-> Count!NewWorker(w - 1, n, t)]
    BY CountLibrary DEF Count!StartWorkers
  <2>3. /\ rows # <<>> /\ data' = rows /\ metric' = metric /\ known' = cache' \cup cacheOld'
        /\ arrived' = <<>> /\ pc' = "work"
    BY DEF Count!StartWorkers
  <2> QED
    BY <2>1, <2>2, <2>3
<1>2. rows \in Seq(CountRow)
  <2>1. PICK m \in Nat : rows \in [1..m -> metric.rows]
    BY <1>1, CountMetricsAssumption DEF Count!BoundedSeq, Count!SeqOf
  <2>2. metric.rows \subseteq CountRow
    BY <1>1, CountMetricsAssumption DEF CountRow
  <2> QED
    BY <2>1, <2>2
<1>3. CountThreads' = t
  BY <1>1 DEF CountThreads
<1>4. /\ n \in Nat \ {0} /\ t \in 1..n /\ t \in Nat
      /\ \A w \in 1..t : /\ Start(w - 1, n, t) \in Int /\ Stop(w - 1, n, t) \in Int
                         /\ Start(w - 1, n, t) <= Stop(w - 1, n, t)
  BY <1>1, <1>2, CountPartition
<1>5. Count!NoSeries = CountsOf(rows, {}) /\ Count!NoSeries \in [Olvs -> Nat]
  <2>1. \A olv \in Olvs : Cardinality({c \in {} : rows[c[1]].olvs[c[2]] = olv}) = 0
    <3>1. \A olv \in Olvs : {c \in {} : rows[c[1]].olvs[c[2]] = olv} = {}
      OBVIOUS
    <3> QED
      BY <3>1, FS_EmptySet
  <2> QED
    BY <2>1 DEF CountsOf, Count!NoSeries
<1>6. \A w \in 1..t : /\ workers'[w] \in CountGoroutine
                      /\ workers'[w].pos = Start(w - 1, n, t) /\ workers'[w].stop = Stop(w - 1, n, t)
                      /\ workers'[w].k = 0 /\ workers'[w].counts = Count!NoSeries
  <2> SUFFICES ASSUME NEW w \in 1..t
               PROVE  /\ workers'[w] \in CountGoroutine
                      /\ workers'[w].pos = Start(w - 1, n, t) /\ workers'[w].stop = Stop(w - 1, n, t)
                      /\ workers'[w].k = 0 /\ workers'[w].counts = Count!NoSeries
    OBVIOUS
  <2>1. workers'[w] = Count!NewWorker(w - 1, n, t)
    BY <1>1
  <2>2. Start(w - 1, n, t) \in Int /\ Stop(w - 1, n, t) \in Int
    BY <1>4
  <2> HIDE DEF n, t
  <2> QED
    BY <1>5, <2>1, <2>2, CountLibrary DEF Count!NewWorker, CountGoroutine
<1>7. CountGoroutines'
  <2>1. workers' \in [1..t -> CountGoroutine]
    BY <1>1, <1>6
  <2> HIDE DEF t
  <2> QED
    BY <1>1, <1>2, <1>3, <1>4, <1>6, <2>1 DEF CountGoroutines
<1>8. Passed(rows, workers', t) = {} /\ Entered(rows, workers', t) = {}
  BY <1>1, <1>2, <1>6, NothingPassed
<1>9. CountedAs({}, {})'
  <2>1. \A w \in 1..t : workers'[w].counts = CountsOf(rows, {c \in {} : c[1] \in Part(w, rows, t)})
    <3>1. \A w \in 1..t : {c \in {} : c[1] \in Part(w, rows, t)} = {}
      OBVIOUS
    <3> QED
      BY <1>5, <1>6, <3>1
  <2>2. KeysOnce(rows, {}, {}, known', cache' \cup cacheOld')
    BY <1>1 DEF KeysOnce
  <2>3. IdsOnce(rows, {}, {}, {}, {}, known', cache' \cup cacheOld')
    BY <1>1 DEF IdsOnce
  <2>4. IsFiniteSet({})
    BY FS_EmptySet
  <2>5. \A w \in 1..t : workers'[w].k = 0
    BY <1>6
  <2> HIDE DEF t
  <2> QED
    BY <1>1, <1>3, <1>8, <2>1, <2>2, <2>3, <2>4, <2>5 DEF CountedAs
<1> QED
  BY <1>1, <1>7, <1>9 DEF CountInv

(* An answer without rows counts nothing.                                  *)
LEMMA NothingFound == data = <<>> /\ series = Count!NoSeries => Count!Reference(series)
<1> SUFFICES ASSUME data = <<>>, series = Count!NoSeries PROVE Count!Reference(series)
  OBVIOUS
<1>1. Count!Matching = {}
  BY DEF Count!Matching
<1>2. \A olv \in Olvs : series[olv] = 0
  BY DEF Count!NoSeries
<1>3. \A olv : Count!Occurrences({}, olv) = 0
  <2>1. Count!Places({}) = {}
    BY DEF Count!Places
  <2> TAKE olv
  <2>2. {place \in Count!Places({}) : Count!OlvAt(place) = olv} = {}
    BY <2>1
  <2>3. Cardinality({place \in Count!Places({}) : Count!OlvAt(place) = olv}) = 0
    BY <2>2, FS_EmptySet
  <2> QED
    BY <2>3, CountLibrary DEF Count!Occurrences
<1>4. CASE Count!Strategy = "none"
  BY <1>1, <1>2, <1>3, <1>4 DEF Count!Reference
<1>5. CASE Count!Strategy = "label"
  <2> DEFINE met(olv) == {id \in Ids : /\ <<id, olv>> \notin known
                                        /\ \E i \in Count!Matching :
                                             data[i].id = id /\ olv \in Count!ToSet(data[i].olvs)}
  <2>1. \A olv \in Olvs : met(olv) = {}
    BY <1>1
  <2>2. \A olv \in Olvs : Cardinality(met(olv)) = 0
    <3> HIDE DEF met
    <3> QED
      BY <2>1, FS_EmptySet
  <2>3. \A olv \in Olvs : series[olv] = Cardinality(met(olv))
    <3> HIDE DEF met
    <3> QED
      BY <1>2, <2>2
  <2> QED
    BY <1>5, <2>3, CountLibrary DEF Count!Reference
<1>6. CASE Count!Strategy = "metric"
  <2> DEFINE fresh == {id \in {data[i].id : i \in Count!Matching} : <<id>> \notin known}
             pick == [id \in fresh |-> 1]
  <2>1. fresh = {} /\ pick \in [fresh -> Count!Matching] /\ {pick[id] : id \in fresh} = {}
    BY <1>1
  <2>2. \E p \in [fresh -> Count!Matching] :
          /\ \A id \in fresh : data[p[id]].id = id
          /\ \A olv \in Olvs : series[olv] = Count!Occurrences({p[id] : id \in fresh}, olv)
    BY <1>2, <1>3, <2>1
  <2> QED
    BY <1>6, <2>2 DEF Count!Reference
<1> QED
  BY <1>4, <1>5, <1>6, StrategyFact

(* An answer without rows is the answer to nothing.                        *)
LEMMA EvaluateNothingStep ==
  ASSUME CountInv, Count!EvaluateNothing
  PROVE  CountInv'
<1>1. /\ metric' \in CountMetrics /\ pc' = "idle" /\ data' = <<>> /\ series' = Count!NoSeries'
  BY DEF CountInv, Count!EvaluateNothing, Count!NoSeries
<1>2. (data = <<>> /\ series = Count!NoSeries)'
  BY <1>1
<1>3. Count!Reference(series)'
  BY <1>2, NothingFound, PTL
<1> QED
  BY <1>1, <1>3 DEF CountInv

(* In the beginning there is no answer.                                    *)
LEMMA CountInit == Count!Init => CountInv
<1> SUFFICES ASSUME Count!Init PROVE CountInv
  OBVIOUS
<1>1. metric \in CountMetrics /\ pc = "idle" /\ data = <<>> /\ series = Count!NoSeries
  BY DEF Count!Init
<1> QED
  BY <1>1, NothingFound DEF CountInv

-----------------------------------------------------------------------------
(* A set and its image under a function that tells its elements apart.     *)
LEMMA SameSize ==
  ASSUME NEW S, IsFiniteSet(S), NEW T, NEW f \in [S -> T],
         \A x, y \in S : f[x] = f[y] => x = y, \A z \in T : \E x \in S : f[x] = z
  PROVE  Cardinality(T) = Cardinality(S)
<1>1. f \in Bijection(S, T)
  BY DEF Bijection, Injection, Surjection, IsInjective
<1> QED
  BY <1>1, FS_Bijection DEF ExistsBijection

(* As many arrivals as goroutines are all of them.                         *)
LEMMA AllArrived ==
  ASSUME NEW t \in Nat, NEW s \in [1..t -> 1..t], \A i, j \in 1..t : s[i] = s[j] => i = j
  PROVE  \A w \in 1..t : \E i \in 1..t : s[i] = w
<1>1. s \in Injection(1..t, 1..t)
  BY DEF Injection, IsInjective
<1>2. IsFiniteSet(1..t)
  BY FS_Interval
<1>3. s \in Surjection(1..t, 1..t)
  BY <1>1, <1>2, FS_Injection
<1> QED
  BY <1>3 DEF Surjection

(* Goroutines that are done are past all places.                           *)
LEMMA AllPassed ==
  ASSUME metric \in CountMetrics, CountGoroutines,
         \A w \in 1..CountThreads : workers[w].pos = workers[w].stop
  PROVE  /\ Passed(data, workers, CountThreads) = AllPlaces(data)
         /\ Entered(data, workers, CountThreads) = {i \in 1..Len(data) : data[i].ok}
<1> DEFINE t == CountThreads
           n == Len(data)
<1>1. /\ data \in Seq(CountRow) /\ data # <<>> /\ t = ThreadsNumber(metric.threads, n)
      /\ \A w \in 1..t : workers[w].pos = Stop(w - 1, n, t)
  BY DEF CountGoroutines, CountThreads
<1> HIDE DEF t
<1>2. /\ n \in Nat
      /\ \A w \in 1..t : /\ Start(w - 1, n, t) \in 1..n + 1 /\ Stop(w - 1, n, t) \in 1..n + 1
                         /\ Part(w, data, t) = Start(w - 1, n, t)..(Stop(w - 1, n, t) - 1)
      /\ \A i \in 1..n : \E w \in 1..t : i \in Part(w, data, t)
  BY <1>1, CountPartition
<1>3. \A i \in 1..n : \E w \in 1..t : i \in Part(w, data, t) /\ i < workers[w].pos
  <2> SUFFICES ASSUME NEW i \in 1..n
               PROVE  \E w \in 1..t : i \in Part(w, data, t) /\ i < workers[w].pos
    OBVIOUS
  <2>1. PICK w \in 1..t : i \in Part(w, data, t)
    BY <1>2
  <2>2. Start(w - 1, n, t) \in Int /\ Stop(w - 1, n, t) \in Int
    BY <1>2
  <2>3. i \in Start(w - 1, n, t)..(Stop(w - 1, n, t) - 1)
    BY <1>2, <2>1
  <2>4. i < Stop(w - 1, n, t)
    BY <2>2, <2>3
  <2> QED
    BY <1>1, <2>1, <2>4
<1>4. \A i \in 1..n : \A k : \E w \in 1..t : i \in Part(w, data, t) /\ Behind(workers[w], i, k)
  BY <1>3 DEF Behind
<1>5. Passed(data, workers, t) = AllPlaces(data)
  <2>1. \A c \in AllPlaces(data) : c[1] \in 1..n
    BY DEF AllPlaces
  <2> QED
    BY <1>4, <2>1 DEF Passed
<1>6. Entered(data, workers, t) = {i \in 1..n : data[i].ok}
  BY <1>4 DEF Entered
<1> QED
  BY <1>5, <1>6 DEF t

(* The places of some rows that meet a condition.                          *)
LEMMA PlacesFact ==
  ASSUME data \in Seq(CountRow), NEW rows, rows \subseteq Count!Matching
  PROVE  Count!Places(rows) = {c \in AllPlaces(data) : c[1] \in rows}
<1>1. \A i \in rows : i \in 1..Len(data) /\ data[i].ok /\ DOMAIN data[i].olvs = 1..Len(data[i].olvs)
  <2> SUFFICES ASSUME NEW i \in rows
               PROVE  i \in 1..Len(data) /\ data[i].ok /\ DOMAIN data[i].olvs = 1..Len(data[i].olvs)
    OBVIOUS
  <2>1. i \in 1..Len(data) /\ data[i].ok
    BY DEF Count!Matching
  <2>2. data[i] \in CountRow
    BY <2>1, ElementOfSeq
  <2>3. data[i].olvs \in Seq(Olvs)
    BY <2>2 DEF CountRow
  <2> QED
    BY <2>1, <2>3
<1>2. ASSUME NEW c \in Count!Places(rows)
      PROVE  c \in AllPlaces(data) /\ c[1] \in rows
  <2>1. PICK i \in rows : c \in {i} \X DOMAIN data[i].olvs
    BY DEF Count!Places
  <2>2. c = <<i, c[2]>> /\ c[2] \in 1..Len(data[i].olvs) /\ c[2] \in Nat
    BY <1>1, <2>1
  <2> QED
    BY <1>1, <2>2 DEF AllPlaces
<1>3. ASSUME NEW c \in AllPlaces(data), c[1] \in rows
      PROVE  c \in Count!Places(rows)
  <2>1. c = <<c[1], c[2]>> /\ c[2] \in 1..Len(data[c[1]].olvs)
    BY DEF AllPlaces
  <2>2. c \in {c[1]} \X DOMAIN data[c[1]].olvs
    BY <1>1, <1>3, <2>1
  <2> QED
    BY <1>3, <2>2 DEF Count!Places
<1> QED
  BY <1>2, <1>3

(* The counts of all places of some rows are their occurrences.            *)
LEMMA OccurrencesFact ==
  ASSUME data \in Seq(CountRow), NEW rows, rows \subseteq Count!Matching, NEW C,
         C = {c \in AllPlaces(data) : c[1] \in rows}, NEW olv \in Olvs
  PROVE  CountsOf(data, C)[olv] = Count!Occurrences(rows, olv)
<1>1. Count!Places(rows) = C
  BY PlacesFact
<1>2. {c \in C : data[c[1]].olvs[c[2]] = olv} = {place \in C : Count!OlvAt(place) = olv}
  BY DEF Count!OlvAt
<1>3. Count!Occurrences(rows, olv) = Cardinality({place \in C : Count!OlvAt(place) = olv})
  BY <1>1, CountLibrary DEF Count!Occurrences
<1>4. CountsOf(data, C)[olv] = Cardinality({c \in C : data[c[1]].olvs[c[2]] = olv})
  BY DEF CountsOf
<1> QED
  BY <1>2, <1>3, <1>4

(* The label strategy: one place for every fresh key, in a bijection.      *)
LEMMA FreshKeys ==
  ASSUME data \in Seq(CountRow), NEW C, IsFiniteSet(C), C \subseteq AllPlaces(data),
         KeysOnce(data, C, AllPlaces(data), known, cache \cup cacheOld), NEW olv \in Olvs
  PROVE  CountsOf(data, C)[olv] =
           Cardinality({id \in Ids : /\ <<id, olv>> \notin known
                                     /\ \E i \in Count!Matching :
                                          data[i].id = id /\ olv \in Count!ToSet(data[i].olvs)})
<1> DEFINE S == {c \in C : data[c[1]].olvs[c[2]] = olv}
           T == {id \in Ids : /\ <<id, olv>> \notin known
                              /\ \E i \in Count!Matching :
                                   data[i].id = id /\ olv \in Count!ToSet(data[i].olvs)}
           f == [c \in S |-> data[c[1]].id]
<1>1. ASSUME NEW c \in AllPlaces(data)
      PROVE  /\ c[1] \in Count!Matching /\ c[1] \in 1..Len(data) /\ data[c[1]].id \in Ids
             /\ c[2] \in DOMAIN data[c[1]].olvs
  <2>1. c[1] \in 1..Len(data) /\ data[c[1]].ok /\ c[2] \in 1..Len(data[c[1]].olvs)
    BY DEF AllPlaces
  <2>2. data[c[1]] \in CountRow
    BY <2>1, ElementOfSeq
  <2>3. data[c[1]].id \in Ids /\ data[c[1]].olvs \in Seq(Olvs)
    BY <2>2 DEF CountRow
  <2>4. c[1] \in Count!Matching
    BY <2>1 DEF Count!Matching
  <2> QED
    BY <2>1, <2>3, <2>4
<1>2. ASSUME NEW c \in S
      PROVE  c \in AllPlaces(data) /\ KeyAt(data, c) = <<data[c[1]].id, olv>> /\ data[c[1]].id \in T
  <2>1. c \in C /\ data[c[1]].olvs[c[2]] = olv /\ c \in AllPlaces(data)
    OBVIOUS
  <2>2. KeyAt(data, c) = <<data[c[1]].id, olv>>
    BY <2>1 DEF KeyAt
  <2>3. <<data[c[1]].id, olv>> \notin known
    BY <2>1, <2>2 DEF KeysOnce
  <2>4. olv \in Count!ToSet(data[c[1]].olvs)
    BY <1>1, <2>1 DEF Count!ToSet
  <2> QED
    BY <1>1, <2>1, <2>2, <2>3, <2>4
<1>3. f \in [S -> T]
  <2> HIDE DEF S, T
  <2> QED
    BY <1>2
<1>4. \A c, d \in S : f[c] = f[d] => c = d
  <2>1. \A c, d \in S : f[c] = f[d] => KeyAt(data, c) = KeyAt(data, d)
    <3> HIDE DEF S, T
    <3> QED
      BY <1>2
  <2>2. S \subseteq C
    OBVIOUS
  <2> HIDE DEF S, f
  <2> QED
    BY <2>1, <2>2 DEF KeysOnce
<1>5. \A id \in T : \E c \in S : f[c] = id
  <2> SUFFICES ASSUME NEW id \in T PROVE \E c \in S : f[c] = id
    OBVIOUS
  <2>1. PICK i \in Count!Matching : data[i].id = id /\ olv \in Count!ToSet(data[i].olvs)
    OBVIOUS
  <2>2. <<id, olv>> \notin known
    OBVIOUS
  <2>3. PICK k \in DOMAIN data[i].olvs : data[i].olvs[k] = olv
    BY <2>1 DEF Count!ToSet
  <2>4. <<i, k>> \in AllPlaces(data)
    <3>1. i \in 1..Len(data) /\ data[i].ok
      BY <2>1 DEF Count!Matching
    <3>2. data[i] \in CountRow
      BY <3>1, ElementOfSeq
    <3>3. data[i].olvs \in Seq(Olvs)
      BY <3>2 DEF CountRow
    <3>4. k \in 1..Len(data[i].olvs) /\ k \in Nat
      BY <3>3
    <3> QED
      BY <3>1, <3>4 DEF AllPlaces
  <2>5. KeyAt(data, <<i, k>>) = <<id, olv>>
    BY <2>1, <2>3 DEF KeyAt
  <2>6. PICK d \in C : KeyAt(data, d) = <<id, olv>>
    BY <2>2, <2>4, <2>5 DEF KeysOnce
  <2>7. data[d[1]].id = id /\ data[d[1]].olvs[d[2]] = olv
    BY <2>6 DEF KeyAt
  <2> QED
    BY <2>7
<1>6. IsFiniteSet(S)
  BY FS_Subset
<1>7. Cardinality(T) = Cardinality(S)
  <2> HIDE DEF S, T, f
  <2> QED
    BY <1>3, <1>4, <1>5, <1>6, SameSize
<1> QED
  BY <1>7 DEF CountsOf

(* The metric strategy: one row for every fresh id.                        *)
LEMMA FreshIds ==
  ASSUME data \in Seq(CountRow), NEW C, NEW P,
         IdsOnce(data, C, P, AllPlaces(data), {i \in 1..Len(data) : data[i].ok}, known, cache \cup cacheOld),
         NEW found, found = CountsOf(data, C), Count!Strategy = "metric"
  PROVE  Count!Reference(found)
<1> DEFINE fresh == {id \in {data[i].id : i \in Count!Matching} : <<id>> \notin known}
           pick == [id \in fresh |-> CHOOSE i \in P : data[i].id = id]
<1>1. Count!Matching = {i \in 1..Len(data) : data[i].ok}
  BY DEF Count!Matching
<1>2. \A id \in fresh : \E i \in P : data[i].id = id
  BY <1>1 DEF IdsOnce
<1>3. \A id \in fresh : pick[id] \in P /\ data[pick[id]].id = id
  BY <1>2
<1>4. P \subseteq Count!Matching /\ C = {c \in AllPlaces(data) : c[1] \in P}
  BY <1>1 DEF IdsOnce
<1>5. pick \in [fresh -> Count!Matching]
  <2> HIDE DEF fresh
  <2>1. \A id \in fresh : pick[id] \in Count!Matching
    BY <1>3, <1>4
  <2> QED
    BY <2>1
<1>6. {pick[id] : id \in fresh} = P
  <2>1. \A i \in P : data[i].id \in fresh
    BY <1>1, <1>4 DEF IdsOnce
  <2>2. \A i \in P : pick[data[i].id] = i
    <3> SUFFICES ASSUME NEW i \in P PROVE pick[data[i].id] = i
      OBVIOUS
    <3>1. pick[data[i].id] \in P /\ data[pick[data[i].id]].id = data[i].id
      BY <1>3, <2>1
    <3> HIDE DEF pick
    <3> QED
      BY <3>1 DEF IdsOnce
  <2> HIDE DEF fresh, pick
  <2> QED
    BY <1>3, <2>1, <2>2
<1>7. \A olv \in Olvs : found[olv] = Count!Occurrences(P, olv)
  BY <1>4, OccurrencesFact
<1> HIDE DEF pick
<1>8. \E p \in [fresh -> Count!Matching] :
        /\ \A id \in fresh : data[p[id]].id = id
        /\ \A olv \in Olvs : found[olv] = Count!Occurrences({p[id] : id \in fresh}, olv)
  BY <1>3, <1>5, <1>6, <1>7
<1> QED
  BY <1>8 DEF Count!Reference

-----------------------------------------------------------------------------
(* What the maps give when all have arrived.                               *)
LEMMA MergedCounts ==
  ASSUME CountInv, Count!Merge
  PROVE  \E C, P : /\ CountedAs(C, P)
                   /\ series' = CountsOf(data, C)
                   /\ Passed(data, workers, CountThreads) = AllPlaces(data)
                   /\ Entered(data, workers, CountThreads) = {i \in 1..Len(data) : data[i].ok}
<1> DEFINE t == CountThreads
           maps == [i \in 1..Len(arrived) |-> workers[arrived[i]].counts]
<1>1. /\ metric \in CountMetrics /\ CountGoroutines /\ Len(arrived) = Len(workers)
      /\ series' = Count!Merged(maps)
  BY DEF CountInv, Count!Merge
<1>2. PICK C, P : CountedAs(C, P)
  BY DEF CountInv, Count!Merge
<1>3. /\ data \in Seq(CountRow) /\ data # <<>> /\ t = ThreadsNumber(metric.threads, Len(data))
      /\ workers \in [1..t -> CountGoroutine] /\ arrived \in Seq(1..t)
      /\ \A i, j \in 1..Len(arrived) : arrived[i] = arrived[j] => i = j
      /\ \A i \in 1..Len(arrived) : workers[arrived[i]].pos = workers[arrived[i]].stop
  BY <1>1 DEF CountGoroutines, CountThreads
<1>4. /\ IsFiniteSet(C) /\ C \subseteq Passed(data, workers, t)
      /\ \A w \in 1..t : workers[w].counts = CountsOf(data, {c \in C : c[1] \in Part(w, data, t)})
  BY <1>2 DEF CountedAs
<1> HIDE DEF t
<1>5. /\ t \in Nat \ {0}
      /\ \A i \in 1..Len(data) : \E w \in 1..t : i \in Part(w, data, t)
      /\ \A i \in 1..Len(data) : \A v, w \in 1..t : i \in Part(v, data, t) /\ i \in Part(w, data, t) => v = w
  <2>1. /\ Len(data) \in Nat \ {0} /\ t \in 1..Len(data) /\ t \in Nat
        /\ \A i \in 1..Len(data) : \E w \in 1..t : i \in Part(w, data, t)
        /\ \A i \in 1..Len(data) : \A v, w \in 1..t : i \in Part(v, data, t) /\ i \in Part(w, data, t) => v = w
    BY <1>1, <1>3, CountPartition
  <2> QED
    BY <2>1
<1>6. Len(arrived) = t
  <2>1. Len(workers) = t
    BY <1>3, <1>5
  <2> QED
    BY <1>1, <2>1
<1>7. arrived \in [1..t -> 1..t] /\ \A i \in 1..t : arrived[i] \in 1..t
  BY <1>3, <1>6, ElementOfSeq
<1>17. \A i, j \in 1..t : arrived[i] = arrived[j] => i = j
  BY <1>3, <1>6
<1>8. \A w \in 1..t : \E i \in 1..t : arrived[i] = w
  BY <1>5, <1>7, <1>17, AllArrived
<1>9. \A w \in 1..t : workers[w].pos = workers[w].stop
  BY <1>3, <1>6, <1>8
<1>10. /\ Passed(data, workers, t) = AllPlaces(data)
       /\ Entered(data, workers, t) = {i \in 1..Len(data) : data[i].ok}
  BY <1>1, <1>9, AllPassed DEF t
<1> DEFINE D == [i \in 1..t |-> {c \in C : c[1] \in Part(arrived[i], data, t)}]
<1>11. \A i \in 1..t : IsFiniteSet(D[i]) /\ maps[i] = CountsOf(data, D[i])
  <2> SUFFICES ASSUME NEW i \in 1..t PROVE IsFiniteSet(D[i]) /\ maps[i] = CountsOf(data, D[i])
    OBVIOUS
  <2>1. IsFiniteSet({c \in C : c[1] \in Part(arrived[i], data, t)})
    BY <1>4, FS_Subset
  <2>2. maps[i] = workers[arrived[i]].counts
    BY <1>6
  <2>3. workers[arrived[i]].counts = CountsOf(data, {c \in C : c[1] \in Part(arrived[i], data, t)})
    BY <1>4, <1>7
  <2>4. D[i] = {c \in C : c[1] \in Part(arrived[i], data, t)}
    OBVIOUS
  <2> HIDE DEF D, maps
  <2> QED
    BY <2>1, <2>2, <2>3, <2>4
<1>12. \A c \in C : c[1] \in 1..Len(data)
  BY <1>4 DEF Passed, AllPlaces
<1>13. \A i, j \in 1..t : i # j => D[i] \cap D[j] = {}
  <2> SUFFICES ASSUME NEW i \in 1..t, NEW j \in 1..t, i # j, NEW c \in D[i], c \in D[j]
               PROVE  FALSE
    OBVIOUS
  <2>1. /\ c[1] \in 1..Len(data)
        /\ c[1] \in Part(arrived[i], data, t) /\ c[1] \in Part(arrived[j], data, t)
    BY <1>12
  <2>2. arrived[i] = arrived[j]
    BY <1>5, <1>7, <2>1
  <2> QED
    BY <1>3, <1>6, <2>2
<1>14. UNION {D[i] : i \in 1..t} = C
  <2>1. \A c \in C : \E i \in 1..t : c \in D[i]
    <3> SUFFICES ASSUME NEW c \in C PROVE \E i \in 1..t : c \in D[i]
      OBVIOUS
    <3>1. PICK w \in 1..t : c[1] \in Part(w, data, t)
      BY <1>5, <1>12
    <3>2. PICK i \in 1..t : arrived[i] = w
      BY <1>8
    <3> QED
      BY <3>1, <3>2
  <2>2. \A i \in 1..t : D[i] \subseteq C
    OBVIOUS
  <2> HIDE DEF D
  <2> QED
    BY <2>1, <2>2
<1>15. Len(maps) = t
  BY <1>5, <1>6
<1>16. Count!Merged(maps) = CountsOf(data, C)
  <2> HIDE DEF D, maps
  <2>1. Count!Merged(maps) = CountsOf(data, UNION {D[i] : i \in 1..t})
    BY <1>5, <1>11, <1>13, <1>15, MergedFact
  <2> QED
    BY <1>14, <2>1
<1> QED
  BY <1>1, <1>2, <1>10, <1>16 DEF t

(* What was found is as right as it was when the answer stays the same.    *)
LEMMA ReferenceSame ==
  ASSUME UNCHANGED <<metric, data, known>>
  PROVE  Count!Reference(series)' <=> Count!Reference(series')
<1>1. Count!Strategy' = Count!Strategy /\ Count!Matching' = Count!Matching
  BY DEF Count!Strategy, Count!Matching
<1>2. \A rows : Count!Places(rows)' = Count!Places(rows)
  BY DEF Count!Places
<1>3. \A rows, olv : Count!Occurrences(rows, olv)' = Count!Occurrences(rows, olv)
  BY <1>2 DEF Count!Occurrences, Count!OlvAt
<1> DEFINE met(olv) == {id \in Ids : /\ <<id, olv>> \notin known
                                     /\ \E i \in Count!Matching :
                                          data[i].id = id /\ olv \in Count!ToSet(data[i].olvs)}
           fresh == {id \in {data[i].id : i \in Count!Matching} : <<id>> \notin known}
<1>4. fresh' = fresh
  BY <1>1
<1>5. \A olv \in Olvs : met(olv)' = met(olv)
  BY <1>1
<1>6. CASE Count!Strategy = "none"
  BY <1>1, <1>3, <1>6 DEF Count!Reference
<1>7. CASE Count!Strategy = "label"
  <2>1. Count!Reference(series') <=> \A olv \in Olvs : series'[olv] = Cardinality(met(olv))
    BY <1>7, CountLibrary DEF Count!Reference
  <2>2. Count!Reference(series)' <=> \A olv \in Olvs : series'[olv] = Cardinality(met(olv)')
    BY <1>1, <1>7, CountLibrary DEF Count!Reference
  <2> HIDE DEF met
  <2> QED
    BY <1>5, <2>1, <2>2
<1>8. CASE Count!Strategy = "metric"
  <2> DEFINE occurrences(rows, olv, d) ==
               Count!Cardinality({place \in UNION {{i} \X DOMAIN d[i].olvs : i \in rows} :
                              d[place[1]].olvs[place[2]] = olv})
             picked(found, ids, rows, d) ==
               \E pick \in [ids -> rows] :
                 /\ \A id \in ids : d[pick[id]].id = id
                 /\ \A olv \in Olvs : found[olv] = occurrences({pick[id] : id \in ids}, olv, d)
  <2>1. Count!Reference(series') <=> picked(series', fresh, Count!Matching, data)
    BY <1>8 DEF Count!Reference, Count!Occurrences, Count!Places, Count!OlvAt
  <2>2. Count!Reference(series)' <=> picked(series', fresh', Count!Matching', data')
    <3>1. Count!Strategy' = "metric"
      BY <1>1, <1>8
    <3> QED
      BY <3>1 DEF Count!Reference, Count!Occurrences, Count!Places, Count!OlvAt
  <2> HIDE DEF fresh, picked
  <2> QED
    BY <1>1, <1>4, <2>1, <2>2
<1> QED
  BY <1>6, <1>7, <1>8, StrategyFact

(* When all maps have arrived their sum is what the reference says.        *)
LEMMA MergeStep ==
  ASSUME CountInv, Count!Merge
  PROVE  CountInv'
<1>1. PICK C, P : /\ CountedAs(C, P)
                  /\ series' = CountsOf(data, C)
                  /\ Passed(data, workers, CountThreads) = AllPlaces(data)
                  /\ Entered(data, workers, CountThreads) = {i \in 1..Len(data) : data[i].ok}
  BY MergedCounts
<1>2. /\ metric \in CountMetrics /\ pc' = "idle" /\ data \in Seq(CountRow)
      /\ UNCHANGED <<metric, data, known>>
  BY DEF CountInv, CountGoroutines, Count!Merge, Count!ghostVars
<1>3. Count!Matching = {i \in 1..Len(data) : data[i].ok}
  BY <1>2 DEF Count!Matching
<1>4. \A c \in AllPlaces(data) : c[1] \in Count!Matching
  BY <1>3 DEF AllPlaces
<1>5. Count!Reference(CountsOf(data, C))
  <2>1. CASE Count!Strategy = "none"
    <3>1. C = {c \in AllPlaces(data) : c[1] \in Count!Matching}
      BY <1>1, <1>4, <2>1 DEF CountedAs
    <3>2. \A olv \in Olvs : CountsOf(data, C)[olv] = Count!Occurrences(Count!Matching, olv)
      BY <1>2, <3>1, OccurrencesFact
    <3> QED
      BY <2>1, <3>2 DEF Count!Reference
  <2>2. CASE Count!Strategy = "label"
    <3>1. /\ KeysOnce(data, C, AllPlaces(data), known, cache \cup cacheOld)
          /\ IsFiniteSet(C) /\ C \subseteq AllPlaces(data)
      BY <1>1, <2>2 DEF CountedAs
    <3>2. \A olv \in Olvs : CountsOf(data, C)[olv] =
            Cardinality({id \in Ids : /\ <<id, olv>> \notin known
                                      /\ \E i \in Count!Matching :
                                           data[i].id = id /\ olv \in Count!ToSet(data[i].olvs)})
      BY <1>2, <3>1, FreshKeys
    <3> QED
      BY <2>2, <3>2, CountLibrary DEF Count!Reference
  <2>3. CASE Count!Strategy = "metric"
    <3>1. IdsOnce(data, C, P, AllPlaces(data), {i \in 1..Len(data) : data[i].ok}, known, cache \cup cacheOld)
      BY <1>1, <2>3 DEF CountedAs
    <3> QED
      BY <1>2, <2>3, <3>1, FreshIds
  <2> QED
    BY <2>1, <2>2, <2>3, StrategyFact
<1>6. Count!Reference(series)'
  BY <1>1, <1>2, <1>5, ReferenceSame
<1> QED
  BY <1>2, <1>6 DEF CountInv

(* A step that changes nothing of the evaluation.                          *)
LEMMA CountStutter ==
  ASSUME CountInv, UNCHANGED Count!vars
  PROVE  CountInv'
<1>1. UNCHANGED <<metric, pc, data, cache, cacheOld, workers, arrived, series, known>>
  BY DEF Count!vars, Count!cacheVars, Count!ghostVars
<1>2. CountThreads' = CountThreads /\ Count!Strategy' = Count!Strategy
  BY <1>1, CountSame
<1>3. ASSUME NEW C, NEW P, CountedAs(C, P) PROVE CountedAs(C, P)'
  BY <1>1, <1>2, <1>3 DEF CountedAs
<1>4. CountGoroutines => CountGoroutines'
  BY <1>1, <1>2 DEF CountGoroutines
<1>5. Count!Reference(series) => Count!Reference(series)'
  BY <1>1, ReferenceSame
<1> QED
  BY <1>1, <1>3, <1>4, <1>5 DEF CountInv

(* Whatever the interleaving and the order of the maps: every goroutine    *)
(* counts the places of its own rows, and the goroutines' questions to the *)
(* shared cache are one after the other, so that of each fresh key one     *)
(* place is counted, or of each fresh id one row (evaluatecount.go); for   *)
(* metrics without an id field in the first column of the answer.          *)
THEOREM CountsAsSequential == Count!Spec => []CountMerged
<1>1. CountInv /\ [Count!Next]_Count!vars => CountInv'
  <2> SUFFICES ASSUME CountInv, [Count!Next]_Count!vars PROVE CountInv'
    OBVIOUS
  <2>1. CASE Count!EvaluateNothing
    BY <2>1, EvaluateNothingStep
  <2>2. CASE \E rows \in Count!BoundedSeq(metric.rows, metric.maxRows) : Count!StartWorkers(rows)
    BY <2>2, StartStep
  <2>3. CASE \E w \in DOMAIN workers :
               Count!SkipRow(w) \/ Count!TakeRow(w) \/ Count!CountOlv(w) \/ Count!Receive(w)
    BY <2>3, SkipStep, TakeStep, CountOlvStep, ReceiveStep
  <2>4. CASE Count!Merge
    BY <2>4, MergeStep
  <2>5. CASE UNCHANGED Count!vars
    BY <2>5, CountStutter
  <2> QED
    BY <2>1, <2>2, <2>3, <2>4, <2>5 DEF Count!Next
<1>2. CountInv => CountMerged
  BY DEF CountInv, CountMerged, Count!MergedIsSequential
<1> QED
  BY <1>1, <1>2, CountInit, PTL DEF Count!Spec

-----------------------------------------------------------------------------
ValueRow == [ok : BOOLEAN, olv : Olvs, finite : BOOLEAN, value : Int]

(* The sum over some rows as its running totals.                           *)
Totals(answer, rows, f) ==
  /\ f[0] = 0
  /\ \A k \in 1..Len(answer) : f[k] = f[k - 1] + (IF k \in rows THEN answer[k].value ELSE 0)
  /\ \A k \in 0..Len(answer) : f[k] \in Int
  /\ Value!SumOf(answer, rows) = f[Len(answer)]

(* A sum over rows has running totals, all of them numbers.                *)
LEMMA RunningTotals ==
  ASSUME NEW answer \in Seq(ValueRow), NEW rows
  PROVE  \E f : Totals(answer, rows, f)
<1> DEFINE n == Len(answer)
           add(k) == IF k \in rows THEN answer[k].value ELSE 0
           Loop(f, m) == f = [k \in 0..m |-> IF k = 0 THEN 0 ELSE f[k - 1] + add(k)]
           S == {m \in Nat : m <= n => \E f : Loop(f, m)}
<1>1. \A k \in 1..n : add(k) \in Int
  <2> SUFFICES ASSUME NEW k \in 1..n PROVE add(k) \in Int
    OBVIOUS
  <2>1. answer[k] \in ValueRow
    BY ElementOfSeq
  <2> QED
    BY <2>1 DEF ValueRow
<1> HIDE DEF add
<1>2. \A m \in Nat : m \in S
  <2>1. 0 \in S
    <3>1. Loop([k \in 0..0 |-> 0], 0)
      OBVIOUS
    <3> QED
      BY <3>1
  <2>2. ASSUME NEW m \in Nat, m \in S PROVE m + 1 \in S
    <3> SUFFICES ASSUME m + 1 <= n PROVE \E f : Loop(f, m + 1)
      OBVIOUS
    <3>1. PICK f : Loop(f, m)
      BY <2>2
    <3> DEFINE g == [k \in 0..(m + 1) |-> IF k = 0 THEN 0 ELSE f[k - 1] + add(k)]
    <3>2. \A k \in 0..m : g[k] = f[k]
      BY <3>1
    <3>3. Loop(g, m + 1)
      <4>1. ASSUME NEW k \in 0..(m + 1), k # 0 PROVE f[k - 1] = g[k - 1]
        <5>1. k - 1 \in 0..m
          BY <4>1
        <5> HIDE DEF g
        <5> QED
          BY <3>2, <5>1
      <4> QED
        BY <4>1
    <3> QED
      BY <3>3
  <2> HIDE DEF S
  <2> QED
    BY <2>1, <2>2, SetInduction
<1> DEFINE sum == CHOOSE f : Loop(f, n)
<1>3. n \in Nat
  OBVIOUS
<1>4. Loop(sum, n)
  <2>1. n \in S
    BY <1>2, <1>3
  <2>2. \E f : Loop(f, n)
    BY <1>3, <2>1
  <2> HIDE DEF Loop
  <2> QED
    BY <2>2
<1>5. Value!SumOf(answer, rows) = sum[n]
  BY DEF Value!SumOf, add
<1> HIDE DEF sum
<1>6. sum[0] = 0 /\ \A k \in 1..n : sum[k] = sum[k - 1] + add(k)
  BY <1>3, <1>4
<1> DEFINE T == {k \in Nat : k <= n => sum[k] \in Int}
<1>7. \A k \in Nat : k \in T
  <2>1. 0 \in T
    BY <1>6
  <2>2. ASSUME NEW k \in Nat, k \in T PROVE k + 1 \in T
    <3> SUFFICES ASSUME k + 1 <= n PROVE sum[k + 1] \in Int
      OBVIOUS
    <3>1. sum[k + 1] = sum[k] + add(k + 1) /\ sum[k] \in Int /\ add(k + 1) \in Int
      BY <1>1, <1>3, <1>6, <2>2
    <3> QED
      BY <3>1
  <2> HIDE DEF T
  <2> QED
    BY <2>1, <2>2, SetInduction
<1>8. \A k \in 0..n : sum[k] \in Int
  BY <1>3, <1>7
<1> QED
  BY <1>5, <1>6, <1>8 DEF add, Totals

(* What the proofs need of sums over rows.                                 *)
LEMMA SumFact ==
  ASSUME NEW answer \in Seq(ValueRow)
  PROVE  /\ \A rows : Value!SumOf(answer, rows) \in Int
         /\ Value!SumOf(answer, {}) = 0
         /\ \A i \in 1..Len(answer) : Value!SumOf(answer, {i}) = answer[i].value
         /\ \A A, B : A \cap B = {} =>
              Value!SumOf(answer, A \cup B) = Value!SumOf(answer, A) + Value!SumOf(answer, B)
<1> DEFINE n == Len(answer)
<1>0. n \in Nat
  OBVIOUS
<1>1. ASSUME NEW rows PROVE Value!SumOf(answer, rows) \in Int
  BY <1>0, RunningTotals DEF Totals
<1>2. Value!SumOf(answer, {}) = 0
  <2>1. PICK f : Totals(answer, {}, f)
    BY RunningTotals
  <2>10. /\ f[0] = 0
         /\ \A k \in 1..n : f[k] = f[k - 1] + (IF k \in {} THEN answer[k].value ELSE 0)
         /\ \A k \in 0..n : f[k] \in Int
         /\ Value!SumOf(answer, {}) = f[n]
    BY <2>1 DEF Totals
  <2> DEFINE T == {k \in Nat : k <= n => f[k] = 0}
  <2>2. \A k \in Nat : k \in T
    <3>1. 0 \in T
      BY <2>10
    <3>2. ASSUME NEW k \in Nat, k \in T PROVE k + 1 \in T
      <4> SUFFICES ASSUME k + 1 <= n PROVE f[k + 1] = 0
        OBVIOUS
      <4>1. k + 1 \in 1..n /\ (k + 1) - 1 = k
        BY <1>0
      <4>2. f[k + 1] = f[k] + 0 /\ f[k] = 0
        BY <2>10, <3>2, <4>1
      <4> QED
        BY <4>2
    <3> HIDE DEF T
    <3> QED
      BY <3>1, <3>2, SetInduction
  <2> QED
    BY <1>0, <2>10, <2>2
<1>3. ASSUME NEW i \in 1..n PROVE Value!SumOf(answer, {i}) = answer[i].value
  <2>1. PICK f : Totals(answer, {i}, f)
    BY RunningTotals
  <2>10. /\ f[0] = 0
         /\ \A k \in 1..n : f[k] = f[k - 1] + (IF k \in {i} THEN answer[k].value ELSE 0)
         /\ \A k \in 0..n : f[k] \in Int
         /\ Value!SumOf(answer, {i}) = f[n]
    BY <2>1 DEF Totals
  <2>2. answer[i].value \in Int
    <3>1. answer[i] \in ValueRow
      BY ElementOfSeq
    <3> QED
      BY <3>1 DEF ValueRow
  <2> DEFINE v == answer[i].value
             T == {k \in Nat : k <= n => f[k] = IF k < i THEN 0 ELSE v}
  <2> HIDE DEF n
  <2>3. \A k \in Nat : k \in T
    <3>1. 0 \in T
      BY <1>0, <2>10
    <3>2. ASSUME NEW k \in Nat, k \in T PROVE k + 1 \in T
      <4> SUFFICES ASSUME k + 1 <= n PROVE f[k + 1] = IF k + 1 < i THEN 0 ELSE v
        OBVIOUS
      <4>1. k + 1 \in 1..n /\ (k + 1) - 1 = k
        BY <1>0
      <4>2. f[k] = IF k < i THEN 0 ELSE v
        BY <1>0, <3>2
      <4>3. CASE k + 1 = i
        <5>1. f[k + 1] = f[k] + v
          BY <2>10, <4>1, <4>3
        <5> QED
          BY <2>2, <4>2, <4>3, <5>1
      <4>4. CASE k + 1 # i
        <5>1. f[k + 1] = f[k] + 0
          BY <2>10, <4>1, <4>4
        <5> HIDE DEF v
        <5> QED
          BY <2>2, <4>2, <4>4, <5>1 DEF v
      <4> QED
        BY <4>3, <4>4
    <3> HIDE DEF T
    <3> QED
      BY <3>1, <3>2, SetInduction
  <2>4. f[n] = v
    BY <1>0, <2>3
  <2> QED
    BY <2>10, <2>4
<1>4. ASSUME NEW A, NEW B, A \cap B = {}
      PROVE  Value!SumOf(answer, A \cup B) = Value!SumOf(answer, A) + Value!SumOf(answer, B)
  <2>1. PICK f : Totals(answer, A, f)
    BY RunningTotals
  <2>10. /\ f[0] = 0
         /\ \A k \in 1..n : f[k] = f[k - 1] + (IF k \in A THEN answer[k].value ELSE 0)
         /\ \A k \in 0..n : f[k] \in Int
         /\ Value!SumOf(answer, A) = f[n]
    BY <2>1 DEF Totals
  <2>2. PICK g : Totals(answer, B, g)
    BY RunningTotals
  <2>20. /\ g[0] = 0
         /\ \A k \in 1..n : g[k] = g[k - 1] + (IF k \in B THEN answer[k].value ELSE 0)
         /\ \A k \in 0..n : g[k] \in Int
         /\ Value!SumOf(answer, B) = g[n]
    BY <2>2 DEF Totals
  <2>3. PICK h : Totals(answer, A \cup B, h)
    BY RunningTotals
  <2>30. /\ h[0] = 0
         /\ \A k \in 1..n : h[k] = h[k - 1] + (IF k \in A \cup B THEN answer[k].value ELSE 0)
         /\ \A k \in 0..n : h[k] \in Int
         /\ Value!SumOf(answer, A \cup B) = h[n]
    BY <2>3 DEF Totals
  <2> DEFINE T == {k \in Nat : k <= n => h[k] = f[k] + g[k]}
  <2>4. \A k \in Nat : k \in T
    <3>1. 0 \in T
      BY <2>10, <2>20, <2>30
    <3>2. ASSUME NEW k \in Nat, k \in T PROVE k + 1 \in T
      <4> SUFFICES ASSUME k + 1 <= n PROVE h[k + 1] = f[k + 1] + g[k + 1]
        OBVIOUS
      <4>1. k + 1 \in 1..n /\ (k + 1) - 1 = k /\ k \in 0..n
        BY <1>0
      <4>2. h[k] = f[k] + g[k]
        BY <1>0, <3>2
      <4>3. answer[k + 1].value \in Int
        <5>1. answer[k + 1] \in ValueRow
          BY <4>1, ElementOfSeq
        <5> QED
          BY <5>1 DEF ValueRow
      <4> DEFINE v == answer[k + 1].value
      <4>4. /\ f[k + 1] = f[k] + (IF k + 1 \in A THEN v ELSE 0) /\ f[k] \in Int
            /\ g[k + 1] = g[k] + (IF k + 1 \in B THEN v ELSE 0) /\ g[k] \in Int
            /\ h[k + 1] = h[k] + (IF k + 1 \in A \cup B THEN v ELSE 0)
        BY <2>10, <2>20, <2>30, <4>1
      <4> HIDE DEF v
      <4>5. CASE k + 1 \in A
        BY <1>4, <4>2, <4>3, <4>4, <4>5 DEF v
      <4>6. CASE k + 1 \in B
        BY <1>4, <4>2, <4>3, <4>4, <4>6 DEF v
      <4>7. CASE k + 1 \notin A /\ k + 1 \notin B
        BY <4>2, <4>4, <4>7
      <4> QED
        BY <4>5, <4>6, <4>7
    <3> HIDE DEF T
    <3> QED
      BY <3>1, <3>2, SetInduction
  <2>5. h[n] = f[n] + g[n]
    BY <1>0, <2>4
  <2> QED
    BY <2>10, <2>20, <2>30, <2>5
<1> QED
  BY <1>1, <1>2, <1>3, <1>4

-----------------------------------------------------------------------------
(* What the values of some rows of an answer give.                         *)
ValueBounds(m) == {m.buckets[k] : k \in DOMAIN m.buckets}

UpTo(answer, rows, b) == {i \in rows : answer[i].value <= b}

SeriesOf(m, answer, rows) ==
  [sum |-> Value!SumOf(answer, rows),
   cnt |-> Cardinality(rows),
   buckets |-> [b \in ValueBounds(m) |-> IF m.histogram THEN Cardinality(UpTo(answer, rows, b)) ELSE 0]]

ValuesIn(answer, rows, olv) == {i \in rows : answer[i].ok /\ answer[i].finite /\ answer[i].olv = olv}

MapOf(m, answer, rows) == [olv \in Olvs |-> SeriesOf(m, answer, ValuesIn(answer, rows, olv))]

ValueSeries(m) == [sum : Int, cnt : Nat, buckets : [ValueBounds(m) -> Nat]]

(* All bounds, in some order, no one twice.                                *)
Whole(m, list) ==
  /\ list \in [1..Len(m.buckets) -> ValueBounds(m)]
  /\ \A j, k \in 1..Len(m.buckets) : list[j] = list[k] => j = k
  /\ \A b \in ValueBounds(m) : \E k \in 1..Len(m.buckets) : list[k] = b

(* The operators that ValueEvaluation takes from other modules.            *)
LEMMA ValueLibrary ==
  /\ \A S : Value!Cardinality(S) = Cardinality(S)
  /\ \A threads, n : Value!ThreadsNumber(threads, n) = ThreadsNumber(threads, n)
  /\ \A i, n, t : Value!Start(i, n, t) = Start(i, n, t) /\ Value!Stop(i, n, t) = Stop(i, n, t)
  /\ Value!Bounds = ValueBounds(metric)
BY DEF Value!Cardinality, Cardinality, Value!ThreadsNumber, ThreadsNumber, Value!Start, Start,
       Value!Stop, Stop, Value!Bounds, Value!Range, ValueBounds

(* The size of a disjoint union.                                           *)
LEMMA DisjointUnion ==
  ASSUME NEW A, NEW B, IsFiniteSet(A), IsFiniteSet(B), A \cap B = {}
  PROVE  /\ IsFiniteSet(A \cup B)
         /\ Cardinality(A) \in Nat /\ Cardinality(B) \in Nat
         /\ Cardinality(A \cup B) = Cardinality(A) + Cardinality(B)
<1>1. Cardinality(A \cup B) = Cardinality(A) + Cardinality(B) - Cardinality(A \cap B) /\ IsFiniteSet(A \cup B)
  BY FS_Union
<1>2. Cardinality(A) \in Nat /\ Cardinality(B) \in Nat
  BY FS_CardinalityType
<1>3. Cardinality(A \cap B) = 0
  BY FS_EmptySet
<1> QED
  BY <1>1, <1>2, <1>3

(* What rows give is a series.                                             *)
LEMMA SeriesType ==
  ASSUME NEW m, NEW answer \in Seq(ValueRow), NEW rows, IsFiniteSet(rows)
  PROVE  SeriesOf(m, answer, rows) \in ValueSeries(m)
<1>1. Value!SumOf(answer, rows) \in Int
  BY SumFact
<1>2. Cardinality(rows) \in Nat
  BY FS_CardinalityType
<1>3. \A b : Cardinality(UpTo(answer, rows, b)) \in Nat
  <2> TAKE b
  <2>1. IsFiniteSet(UpTo(answer, rows, b))
    BY FS_Subset DEF UpTo
  <2> QED
    BY <2>1, FS_CardinalityType
<1>4. [b \in ValueBounds(m) |-> IF m.histogram THEN Cardinality(UpTo(answer, rows, b)) ELSE 0]
        \in [ValueBounds(m) -> Nat]
  BY <1>3
<1> QED
  BY <1>1, <1>2, <1>4 DEF SeriesOf, ValueSeries

(* The bucket counts of disjoint rows are added.                           *)
LEMMA UpToAdd ==
  ASSUME NEW answer, NEW A, NEW B, IsFiniteSet(A), IsFiniteSet(B), A \cap B = {}, NEW b
  PROVE  /\ Cardinality(UpTo(answer, A, b)) \in Nat /\ Cardinality(UpTo(answer, B, b)) \in Nat
         /\ Cardinality(UpTo(answer, A \cup B, b))
              = Cardinality(UpTo(answer, A, b)) + Cardinality(UpTo(answer, B, b))
<1>1. IsFiniteSet(UpTo(answer, A, b)) /\ IsFiniteSet(UpTo(answer, B, b))
  BY FS_Subset DEF UpTo
<1>2. UpTo(answer, A \cup B, b) = UpTo(answer, A, b) \cup UpTo(answer, B, b)
  BY DEF UpTo
<1>3. UpTo(answer, A, b) \cap UpTo(answer, B, b) = {}
  BY DEF UpTo
<1> QED
  BY <1>1, <1>2, <1>3, DisjointUnion

(* The series of disjoint rows are added.                                  *)
LEMMA SeriesAdd ==
  ASSUME NEW answer \in Seq(ValueRow), NEW A, NEW B, IsFiniteSet(A), IsFiniteSet(B), A \cap B = {}
  PROVE  SeriesOf(metric, answer, A \cup B)
           = Value!AddSeries(SeriesOf(metric, answer, A), SeriesOf(metric, answer, B))
<1> DEFINE x == SeriesOf(metric, answer, A)
           y == SeriesOf(metric, answer, B)
           z == SeriesOf(metric, answer, A \cup B)
<1>1. /\ x.sum = Value!SumOf(answer, A) /\ y.sum = Value!SumOf(answer, B)
      /\ x.cnt = Cardinality(A) /\ y.cnt = Cardinality(B)
      /\ x.buckets = [b \in ValueBounds(metric) |-> IF metric.histogram THEN Cardinality(UpTo(answer, A, b)) ELSE 0]
      /\ y.buckets = [b \in ValueBounds(metric) |-> IF metric.histogram THEN Cardinality(UpTo(answer, B, b)) ELSE 0]
  BY DEF SeriesOf
<1>2. z = [sum |-> Value!SumOf(answer, A \cup B), cnt |-> Cardinality(A \cup B),
           buckets |-> [b \in ValueBounds(metric) |->
                          IF metric.histogram THEN Cardinality(UpTo(answer, A \cup B, b)) ELSE 0]]
  BY DEF SeriesOf
<1> HIDE DEF x, y, z
<1>3. Value!SumOf(answer, A \cup B) = x.sum + y.sum
  BY <1>1, SumFact
<1>4. Cardinality(A \cup B) = x.cnt + y.cnt
  <2>1. Cardinality(A \cup B) = Cardinality(A) + Cardinality(B)
    BY DisjointUnion
  <2> QED
    BY <1>1, <2>1
<1>5. [b \in ValueBounds(metric) |-> IF metric.histogram THEN Cardinality(UpTo(answer, A \cup B, b)) ELSE 0]
        = [b \in ValueBounds(metric) |-> x.buckets[b] + y.buckets[b]]
  <2> SUFFICES ASSUME NEW b \in ValueBounds(metric)
               PROVE  (IF metric.histogram THEN Cardinality(UpTo(answer, A \cup B, b)) ELSE 0)
                        = x.buckets[b] + y.buckets[b]
    OBVIOUS
  <2>1. /\ x.buckets[b] = IF metric.histogram THEN Cardinality(UpTo(answer, A, b)) ELSE 0
        /\ y.buckets[b] = IF metric.histogram THEN Cardinality(UpTo(answer, B, b)) ELSE 0
    BY <1>1
  <2>2. CASE metric.histogram
    <3>1. x.buckets[b] = Cardinality(UpTo(answer, A, b)) /\ y.buckets[b] = Cardinality(UpTo(answer, B, b))
      BY <2>1, <2>2
    <3>2. Cardinality(UpTo(answer, A \cup B, b)) = x.buckets[b] + y.buckets[b]
      BY <3>1, UpToAdd
    <3> QED
      BY <2>2, <3>2
  <2>3. CASE ~metric.histogram
    <3>1. x.buckets[b] = 0 /\ y.buckets[b] = 0
      BY <2>1, <2>3
    <3> QED
      BY <2>3, <3>1
  <2> QED
    BY <2>2, <2>3
<1>6. Value!AddSeries(x, y) =
        [sum |-> x.sum + y.sum, cnt |-> x.cnt + y.cnt,
         buckets |-> [b \in ValueBounds(metric) |-> x.buckets[b] + y.buckets[b]]]
  BY ValueLibrary DEF Value!AddSeries
<1>7. z = Value!AddSeries(x, y)
  BY <1>2, <1>3, <1>4, <1>5, <1>6
<1> QED
  BY <1>7 DEF x, y, z

AddMaps(x, y) == [olv \in Olvs |-> Value!AddSeries(x[olv], y[olv])]

(* The maps of disjoint rows are added.                                    *)
LEMMA MapAdd ==
  ASSUME NEW answer \in Seq(ValueRow), NEW A, NEW B, IsFiniteSet(A), IsFiniteSet(B), A \cap B = {},
         NEW C, C = A \cup B
  PROVE  MapOf(metric, answer, C) = AddMaps(MapOf(metric, answer, A), MapOf(metric, answer, B))
<1>1. ASSUME NEW olv \in Olvs
      PROVE  SeriesOf(metric, answer, ValuesIn(answer, A \cup B, olv))
               = Value!AddSeries(MapOf(metric, answer, A)[olv], MapOf(metric, answer, B)[olv])
  <2>1. /\ ValuesIn(answer, A \cup B, olv) = ValuesIn(answer, A, olv) \cup ValuesIn(answer, B, olv)
        /\ ValuesIn(answer, A, olv) \cap ValuesIn(answer, B, olv) = {}
    BY DEF ValuesIn
  <2>2. IsFiniteSet(ValuesIn(answer, A, olv)) /\ IsFiniteSet(ValuesIn(answer, B, olv))
    BY FS_Subset DEF ValuesIn
  <2>3. /\ MapOf(metric, answer, A)[olv] = SeriesOf(metric, answer, ValuesIn(answer, A, olv))
        /\ MapOf(metric, answer, B)[olv] = SeriesOf(metric, answer, ValuesIn(answer, B, olv))
    BY DEF MapOf
  <2>4. SeriesOf(metric, answer, ValuesIn(answer, A, olv) \cup ValuesIn(answer, B, olv))
          = Value!AddSeries(SeriesOf(metric, answer, ValuesIn(answer, A, olv)),
                            SeriesOf(metric, answer, ValuesIn(answer, B, olv)))
    BY <2>1, <2>2, SeriesAdd
  <2> QED
    BY <2>1, <2>3, <2>4
<1>2. MapOf(metric, answer, C) =
        [olv \in Olvs |-> SeriesOf(metric, answer, ValuesIn(answer, A \cup B, olv))]
  BY DEF MapOf
<1> QED
  BY <1>1, <1>2 DEF AddMaps

(* Every bound occurs once in the list, so a value is counted once.        *)
LEMMA OneBucket ==
  ASSUME NEW m, NEW list, Whole(m, list), NEW b \in ValueBounds(m), NEW value
  PROVE  Cardinality({k \in DOMAIN list : list[k] = b /\ value <= b}) = IF value <= b THEN 1 ELSE 0
<1>1. DOMAIN list = 1..Len(m.buckets)
  BY DEF Whole
<1>2. CASE value <= b
  <2>1. PICK k \in 1..Len(m.buckets) : list[k] = b
    BY DEF Whole
  <2>2. {j \in DOMAIN list : list[j] = b /\ value <= b} = {k}
    BY <1>1, <1>2, <2>1 DEF Whole
  <2>3. Cardinality({k}) = 1
    BY FS_Singleton
  <2> QED
    BY <1>2, <2>2, <2>3
<1>3. CASE ~(value <= b)
  <2>1. {j \in DOMAIN list : list[j] = b /\ value <= b} = {}
    BY <1>3
  <2> QED
    BY <1>3, <2>1, FS_EmptySet
<1> QED
  BY <1>2, <1>3

(* To observe a value is to add its row.                                   *)
LEMMA ObserveFact ==
  ASSUME NEW answer \in Seq(ValueRow), NEW rows, IsFiniteSet(rows), NEW i \in 1..Len(answer), i \notin rows,
         NEW list, metric.histogram => Whole(metric, list)
  PROVE  Value!Observe(SeriesOf(metric, answer, rows), answer[i].value, list)
           = SeriesOf(metric, answer, rows \cup {i})
<1> DEFINE x == SeriesOf(metric, answer, rows)
           v == answer[i].value
<1>1. /\ x.sum = Value!SumOf(answer, rows) /\ x.cnt = Cardinality(rows)
      /\ x.buckets = [b \in ValueBounds(metric) |-> IF metric.histogram THEN Cardinality(UpTo(answer, rows, b)) ELSE 0]
  BY DEF SeriesOf
<1>2. SeriesOf(metric, answer, rows \cup {i}) =
          [sum |-> Value!SumOf(answer, rows \cup {i}), cnt |-> Cardinality(rows \cup {i}),
           buckets |-> [b \in ValueBounds(metric) |->
                          IF metric.histogram THEN Cardinality(UpTo(answer, rows \cup {i}, b)) ELSE 0]]
  BY DEF SeriesOf
<1> HIDE DEF x
<1>3. Value!SumOf(answer, rows \cup {i}) = x.sum + v
  <2>1. Value!SumOf(answer, rows \cup {i}) = Value!SumOf(answer, rows) + Value!SumOf(answer, {i})
    <3>1. rows \cap {i} = {}
      OBVIOUS
    <3> QED
      BY <3>1, SumFact
  <2>2. Value!SumOf(answer, {i}) = v
    BY SumFact
  <2> QED
    BY <1>1, <2>1, <2>2
<1>4. Cardinality(rows \cup {i}) = x.cnt + 1
  BY <1>1, FS_AddElement
<1>5. ASSUME NEW b \in ValueBounds(metric)
      PROVE  (IF metric.histogram THEN Cardinality(UpTo(answer, rows \cup {i}, b)) ELSE 0)
               = x.buckets[b] + (IF metric.histogram
                                   THEN Cardinality({k \in DOMAIN list : list[k] = b /\ v <= b})
                                   ELSE 0)
  <2> DEFINE one == Cardinality({k \in DOMAIN list : list[k] = b /\ v <= b})
  <2>1. CASE metric.histogram
    <3>1. one = IF v <= b THEN 1 ELSE 0
      <4> HIDE DEF v
      <4> QED
        BY <2>1, OneBucket
    <3>2. Cardinality(UpTo(answer, rows \cup {i}, b)) = Cardinality(UpTo(answer, rows, b)) + one
      <4>1. IsFiniteSet(UpTo(answer, rows, b)) /\ i \notin UpTo(answer, rows, b)
        BY FS_Subset DEF UpTo
      <4>2. Cardinality(UpTo(answer, rows, b)) \in Nat
        BY <4>1, FS_CardinalityType
      <4>3. CASE v <= b
        <5>1. UpTo(answer, rows \cup {i}, b) = UpTo(answer, rows, b) \cup {i}
          BY <4>3 DEF UpTo
        <5>2. Cardinality(UpTo(answer, rows, b) \cup {i}) = Cardinality(UpTo(answer, rows, b)) + 1
          BY <4>1, FS_AddElement
        <5>3. one = 1
          BY <3>1, <4>3
        <5> HIDE DEF one
        <5> QED
          BY <5>1, <5>2, <5>3
      <4>4. CASE ~(v <= b)
        <5>1. UpTo(answer, rows \cup {i}, b) = UpTo(answer, rows, b)
          BY <4>4 DEF UpTo
        <5>3. one = 0
          BY <3>1, <4>4
        <5> HIDE DEF one
        <5> QED
          BY <4>2, <5>1, <5>3
      <4> QED
        BY <4>3, <4>4
    <3> HIDE DEF one
    <3>3. x.buckets[b] = Cardinality(UpTo(answer, rows, b))
      BY <1>1, <2>1
    <3>4. Cardinality(UpTo(answer, rows \cup {i}, b)) = x.buckets[b] + one
      BY <3>2, <3>3
    <3> QED
      BY <2>1, <3>4 DEF one
  <2>2. CASE ~metric.histogram
    <3>1. x.buckets[b] = 0
      BY <1>1, <2>2
    <3> QED
      BY <2>2, <3>1
  <2> QED
    BY <2>1, <2>2
<1>6. Value!Observe(x, v, list) =
        [sum |-> x.sum + v, cnt |-> x.cnt + 1,
         buckets |-> [b \in ValueBounds(metric) |->
                        x.buckets[b] + (IF metric.histogram
                                          THEN Cardinality({k \in DOMAIN list : list[k] = b /\ v <= b})
                                          ELSE 0)]]
  BY ValueLibrary DEF Value!Observe
<1> HIDE DEF v
<1>7. [b \in ValueBounds(metric) |->
         IF metric.histogram THEN Cardinality(UpTo(answer, rows \cup {i}, b)) ELSE 0]
        = [b \in ValueBounds(metric) |->
             x.buckets[b] + (IF metric.histogram
                               THEN Cardinality({k \in DOMAIN list : list[k] = b /\ v <= b})
                               ELSE 0)]
  BY <1>5
<1>8. Value!Observe(x, v, list) = SeriesOf(metric, answer, rows \cup {i})
  BY <1>2, <1>3, <1>4, <1>6, <1>7
<1> QED
  BY <1>8 DEF x, v

-----------------------------------------------------------------------------
(* The n maps of goroutines that evaluated different rows, R[i] is in the  *)
(* i-th, are those of all the rows.                                        *)
MapsOf(maps, answer, n, R, all) ==
  /\ Len(maps) = n
  /\ \A i \in 1..n : IsFiniteSet(R[i]) /\ maps[i] = MapOf(metric, answer, R[i])
  /\ \A i, j \in 1..n : i # j => R[i] \cap R[j] = {}
  /\ \A row : row \in all <=> \E i \in 1..n : row \in R[i]

(* The maps are merged into that of all rows.                              *)
LEMMA MapsMerged ==
  ASSUME NEW n \in Nat \ {0}, NEW maps, NEW answer \in Seq(ValueRow), NEW R, NEW all,
         MapsOf(maps, answer, n, R, all)
  PROVE  Value!Merged(maps) = MapOf(metric, answer, all)
<1> DEFINE Upto(i) == UNION {R[j] : j \in 1..i}
           Loop(f) == f = [i \in 1..n |-> IF i = 1 THEN maps[1] ELSE AddMaps(f[i - 1], maps[i])]
           S == {i \in Nat : i <= n => IsFiniteSet(Upto(i))}
<1>0. /\ Len(maps) = n
      /\ \A i \in 1..n : IsFiniteSet(R[i]) /\ maps[i] = MapOf(metric, answer, R[i])
      /\ \A i, j \in 1..n : i # j => R[i] \cap R[j] = {}
      /\ \A row : row \in all <=> \E i \in 1..n : row \in R[i]
  BY DEF MapsOf
<1>1. Upto(1) = R[1]
  OBVIOUS
<1>2. ASSUME NEW i \in Nat, i + 1 <= n
      PROVE  Upto(i + 1) = Upto(i) \cup R[i + 1] /\ Upto(i) \cap R[i + 1] = {}
  <2>1. 1..(i + 1) = (1..i) \cup {i + 1} /\ i + 1 \notin 1..i /\ i + 1 \in 1..n /\ 1..i \subseteq 1..n
    BY <1>2
  <2> QED
    BY <1>0, <2>1
<1>3. \A i \in Nat : i \in S
  <2>1. 0 \in S
    <3>1. Upto(0) = {}
      OBVIOUS
    <3> QED
      BY <3>1, FS_EmptySet
  <2>2. ASSUME NEW i \in Nat, i \in S PROVE i + 1 \in S
    <3>1. CASE i + 1 <= n
      <4>1. IsFiniteSet(Upto(i)) /\ IsFiniteSet(R[i + 1])
        BY <1>0, <2>2, <3>1
      <4>2. IsFiniteSet(Upto(i) \cup R[i + 1])
        <5> HIDE DEF Upto
        <5> QED
          BY <4>1, FS_Union
      <4>3. IsFiniteSet(Upto(i + 1))
        <5>1. Upto(i + 1) = Upto(i) \cup R[i + 1]
          BY <1>2, <3>1
        <5> HIDE DEF Upto
        <5> QED
          BY <4>2, <5>1
      <4> HIDE DEF Upto
      <4> QED
        BY <4>3
    <3> QED
      BY <3>1
  <2> HIDE DEF S
  <2> QED
    BY <2>1, <2>2, SetInduction
<1>4. ASSUME NEW i \in Nat, i + 1 <= n
      PROVE  MapOf(metric, answer, Upto(i + 1)) = AddMaps(MapOf(metric, answer, Upto(i)), maps[i + 1])
  <2>1. IsFiniteSet(Upto(i)) /\ IsFiniteSet(R[i + 1]) /\ maps[i + 1] = MapOf(metric, answer, R[i + 1])
    <3>1. i + 1 \in 1..n /\ i <= n
      BY <1>4
    <3>2. IsFiniteSet(Upto(i))
      <4>1. i \in S
        BY <1>3
      <4> HIDE DEF Upto
      <4> QED
        BY <3>1, <4>1
    <3>3. IsFiniteSet(R[i + 1]) /\ maps[i + 1] = MapOf(metric, answer, R[i + 1])
      BY <1>0, <3>1
    <3> QED
      BY <3>2, <3>3
  <2>2. Upto(i + 1) = Upto(i) \cup R[i + 1] /\ Upto(i) \cap R[i + 1] = {}
    BY <1>2, <1>4
  <2> HIDE DEF Upto
  <2>3. MapOf(metric, answer, Upto(i) \cup R[i + 1])
          = AddMaps(MapOf(metric, answer, Upto(i)), MapOf(metric, answer, R[i + 1]))
    BY <2>1, <2>2, MapAdd
  <2> QED
    BY <2>1, <2>2, <2>3
<1>5. Loop([i \in 1..n |-> MapOf(metric, answer, Upto(i))])
  <2> DEFINE f == [i \in 1..n |-> MapOf(metric, answer, Upto(i))]
  <2>1. ASSUME NEW i \in 1..n
        PROVE  f[i] = IF i = 1 THEN maps[1] ELSE AddMaps(f[i - 1], maps[i])
    <3>1. CASE i = 1
      <4> HIDE DEF Upto
      <4> QED
        BY <1>0, <1>1, <3>1
    <3>2. CASE i # 1
      <4>1. i - 1 \in Nat /\ i - 1 \in 1..n /\ (i - 1) + 1 = i
        BY <3>2
      <4> HIDE DEF Upto
      <4> QED
        BY <1>4, <3>2, <4>1
    <3> QED
      BY <3>1, <3>2
  <2> HIDE DEF Upto
  <2> QED
    BY <2>1
<1> DEFINE sum == CHOOSE f : Loop(f)
<1>6. Loop(sum)
  <2> HIDE DEF Loop
  <2> QED
    BY <1>5
<1>7. Value!Merged(maps) = sum[n]
  BY <1>0 DEF Value!Merged, AddMaps
<1> DEFINE T == {i \in Nat : i + 1 <= n => sum[i + 1] = MapOf(metric, answer, Upto(i + 1))}
<1>8. \A i \in Nat : i \in T
  <2> HIDE DEF sum, Upto
  <2>1. 0 \in T
    BY <1>0, <1>1, <1>6
  <2>2. ASSUME NEW i \in Nat, i \in T PROVE i + 1 \in T
    <3>1. CASE i + 2 <= n
      <4>1. sum[i + 2] = AddMaps(sum[i + 1], maps[i + 2])
        BY <1>6, <3>1
      <4>2. sum[i + 1] = MapOf(metric, answer, Upto(i + 1))
        BY <2>2, <3>1
      <4>3. (i + 1) + 1 = i + 2 /\ i + 1 \in Nat
        OBVIOUS
      <4>4. MapOf(metric, answer, Upto(i + 2)) = AddMaps(MapOf(metric, answer, Upto(i + 1)), maps[i + 2])
        BY <1>4, <3>1, <4>3
      <4> QED
        BY <4>1, <4>2, <4>3, <4>4
    <3> QED
      BY <3>1
  <2> HIDE DEF T
  <2> QED
    BY <2>1, <2>2, SetInduction
<1>9. sum[n] = MapOf(metric, answer, Upto(n))
  <2>1. n - 1 \in T /\ (n - 1) + 1 = n
    <3> HIDE DEF T
    <3> QED
      BY <1>8
  <2> HIDE DEF sum, Upto
  <2> QED
    BY <2>1
<1>10. Upto(n) = all
  BY <1>0
<1> HIDE DEF sum, Upto
<1> QED
  BY <1>7, <1>9, <1>10

-----------------------------------------------------------------------------
(* The configured bounds of a histogram: none twice, and either one        *)
(* goroutine alone creates histogram values, or there is nothing to sort.  *)
Once(m) == \A i, j \in DOMAIN m.buckets : m.buckets[i] = m.buckets[j] => i = j
Ascending(m) == \A k \in DOMAIN m.buckets : k > 1 => ~(m.buckets[k] < m.buckets[k - 1])
BoundsInOrder == \A m \in ValueMetrics : m.histogram => Once(m) /\ (m.threads <= 1 \/ Ascending(m))

Sorting == [at : {"no", "load", "low", "high"}, i : Int, j : Int, tmp : Seq(Int)]
ValueGoroutine(m) == [pos : Int, stop : Int, map : [Olvs -> ValueSeries(m)], sort : Sorting]
ValueThreads == ThreadsNumber(metric.threads, Len(data))

(* Goroutine w of t has in its map the values of the rows before its       *)
(* position; it sorts bounds for a row that it will count.                 *)
ValueOf(m, answer, t, w, g) ==
  /\ g.stop = Stop(w - 1, Len(answer), t)
  /\ Start(w - 1, Len(answer), t) <= g.pos
  /\ g.pos <= g.stop
  /\ g.map = MapOf(m, answer, Start(w - 1, Len(answer), t)..(g.pos - 1))
  /\ g.sort.at # "no" => /\ g.pos < g.stop /\ m.histogram
                         /\ Value!Usable(answer[g.pos])
                         /\ 2 <= g.sort.i /\ 1 <= g.sort.j /\ g.sort.j <= g.sort.i
  /\ g.sort.at \in {"low", "high"} => 2 <= g.sort.j /\ g.sort.i <= Len(m.buckets)

ValueGoroutines ==
  /\ data \in Seq(ValueRow) /\ data # <<>>
  /\ workers \in [1..ValueThreads -> ValueGoroutine(metric)]
  /\ \A w \in 1..ValueThreads : ValueOf(metric, data, ValueThreads, w, workers[w])
  /\ arrived \in Seq(1..ValueThreads)
  /\ \A i, j \in 1..Len(arrived) : arrived[i] = arrived[j] => i = j
  /\ \A i \in 1..Len(arrived) : workers[arrived[i]].pos = workers[arrived[i]].stop

(* The list of bounds while its only goroutine sorts: between the two      *)
(* stores of a swap one bound is missing, the one that is stored next.     *)
SortedBy(m, list, s) ==
  /\ s.at \in {"no", "load"} => Whole(m, list)
  /\ s.at = "low" => Whole(m, list) /\ s.tmp = <<list[s.j], list[s.j - 1]>>
  /\ s.at = "high" => Whole(m, [list EXCEPT ![s.j - 1] = s.tmp[1]])

ListKept ==
  \/ /\ Once(metric) /\ Ascending(metric) /\ bucketList = metric.buckets
     /\ pc = "work" => \A w \in 1..ValueThreads : workers[w].sort.at \in {"no", "load"}
  \/ /\ metric.threads <= 1
     /\ pc = "idle" => Whole(metric, bucketList)
     /\ pc = "work" => SortedBy(metric, bucketList, workers[1].sort)

ValueInv ==
  /\ metric \in ValueMetrics
  /\ pc \in {"idle", "work"}
  /\ pc = "idle" => data \in Seq(ValueRow) /\ series = MapOf(metric, data, 1..Len(data))
  /\ pc = "work" => ValueGoroutines
  /\ metric.histogram => ListKept

(* The configured list has all bounds.                                     *)
LEMMA ConfiguredWhole ==
  ASSUME NEW m \in ValueMetrics, Once(m)
  PROVE  Whole(m, m.buckets)
<1>1. m.buckets \in Seq(Int)
  BY ValueMetricsAssumption
<1>2. DOMAIN m.buckets = 1..Len(m.buckets)
  BY <1>1
<1>3. m.buckets \in [1..Len(m.buckets) -> ValueBounds(m)]
  BY <1>1, <1>2 DEF ValueBounds
<1>4. \A b \in ValueBounds(m) : \E k \in 1..Len(m.buckets) : m.buckets[k] = b
  BY <1>2 DEF ValueBounds
<1> QED
  BY <1>2, <1>3, <1>4 DEF Once, Whole

(* A whole list has the length of the configured one.                      *)
LEMMA WholeFact ==
  ASSUME NEW m \in ValueMetrics, NEW list, Whole(m, list)
  PROVE  /\ Len(m.buckets) \in Nat
         /\ Len(list) = Len(m.buckets) /\ DOMAIN list = 1..Len(m.buckets)
         /\ \A k \in 1..Len(m.buckets) : list[k] \in Int
<1>1. m.buckets \in Seq(Int)
  BY ValueMetricsAssumption
<1>2. \A b \in ValueBounds(m) : b \in Int
  BY <1>1, ElementOfSeq DEF ValueBounds
<1>3. Len(m.buckets) \in Nat
  BY <1>1
<1>4. list \in [1..Len(m.buckets) -> ValueBounds(m)]
  BY DEF Whole
<1> QED
  BY <1>2, <1>3, <1>4

(* The second store of a swap puts the missing bound in its place.         *)
LEMMA SwapFact ==
  ASSUME NEW m \in ValueMetrics, NEW list, Whole(m, list), NEW j \in 2..Len(m.buckets)
  PROVE  LET half == [list EXCEPT ![j] = list[j - 1]]
         IN  /\ DOMAIN half = DOMAIN list
             /\ Whole(m, [half EXCEPT ![j - 1] = list[j]])
<1> DEFINE n == Len(m.buckets)
           half == [list EXCEPT ![j] = list[j - 1]]
           swapped == [half EXCEPT ![j - 1] = list[j]]
<1>1. n \in Nat /\ list \in [1..n -> ValueBounds(m)]
  BY WholeFact DEF Whole
<1>2. j \in 1..n /\ j - 1 \in 1..n /\ j - 1 # j
  BY <1>1
<1> HIDE DEF n
<1>3. /\ swapped \in [1..n -> ValueBounds(m)]
      /\ swapped[j] = list[j - 1] /\ swapped[j - 1] = list[j]
      /\ \A k \in 1..n : k # j /\ k # j - 1 => swapped[k] = list[k]
  BY <1>1, <1>2
<1> HIDE DEF swapped
<1>4. \A i, k \in 1..n : swapped[i] = swapped[k] => i = k
  BY <1>2, <1>3 DEF Whole, n
<1>5. \A b \in ValueBounds(m) : \E k \in 1..n : swapped[k] = b
  <2> TAKE b \in ValueBounds(m)
  <2>1. PICK k \in 1..n : list[k] = b
    BY DEF Whole, n
  <2> QED
    BY <1>2, <1>3, <2>1
<1>6. Whole(m, swapped)
  BY <1>3, <1>4, <1>5 DEF Whole, n
<1> QED
  BY <1>6 DEF swapped

-----------------------------------------------------------------------------
(* Every row of a value metric's answer falls to one goroutine.            *)
LEMMA ValuePartition ==
  ASSUME metric \in ValueMetrics, NEW answer, answer \in Seq(ValueRow), answer # <<>>,
         NEW t, t = ThreadsNumber(metric.threads, Len(answer))
  PROVE  /\ Len(answer) \in Nat \ {0} /\ Partitioned(answer, t)
         /\ \A w \in 1..t : /\ Start(w - 1, Len(answer), t) \in Int
                            /\ Stop(w - 1, Len(answer), t) \in Int
<1>1. Len(answer) \in Nat \ {0} /\ metric.threads \in Int
  BY ValueMetricsAssumption
<1>2. Partitioned(answer, t)
  BY <1>1, RowsPartition
<1> QED
  BY <1>1, <1>2 DEF Partitioned

(* What is known of a goroutine that is at a row.                          *)
LEMMA ValueWorking ==
  ASSUME ValueInv, NEW w \in DOMAIN workers, Value!AtRow(w)
  PROVE  /\ pc = "work" /\ ValueGoroutines /\ metric \in ValueMetrics
         /\ w \in 1..ValueThreads /\ workers[w] \in ValueGoroutine(metric)
         /\ ValueOf(metric, data, ValueThreads, w, workers[w])
         /\ workers[w].pos < workers[w].stop /\ workers[w].pos \in 1..Len(data)
         /\ workers[w].stop \in Int
         /\ Start(w - 1, Len(data), ValueThreads) \in 1..Len(data) + 1
         /\ data[workers[w].pos] \in ValueRow
<1>1. /\ pc = "work" /\ ValueGoroutines /\ metric \in ValueMetrics /\ workers[w].pos < workers[w].stop
  BY DEF ValueInv, Value!AtRow
<1>2. /\ w \in 1..ValueThreads /\ workers[w] \in ValueGoroutine(metric)
      /\ data \in Seq(ValueRow) /\ data # <<>>
      /\ ValueOf(metric, data, ValueThreads, w, workers[w])
  BY <1>1 DEF ValueGoroutines
<1>3. /\ workers[w].pos \in Int /\ workers[w].stop = Stop(w - 1, Len(data), ValueThreads)
      /\ Start(w - 1, Len(data), ValueThreads) <= workers[w].pos
  BY <1>2 DEF ValueGoroutine, ValueOf
<1>4. /\ Start(w - 1, Len(data), ValueThreads) \in 1..Len(data) + 1
      /\ Stop(w - 1, Len(data), ValueThreads) \in 1..Len(data) + 1
      /\ Len(data) \in Nat
  <2>1. Len(data) \in Nat /\ Partitioned(data, ValueThreads)
    BY <1>1, <1>2, ValuePartition DEF ValueThreads
  <2> QED
    BY <1>2, <2>1 DEF Partitioned
<1>5. workers[w].pos \in 1..Len(data)
  BY <1>1, <1>3, <1>4
<1>6. data[workers[w].pos] \in ValueRow
  BY <1>2, <1>5, ElementOfSeq
<1> QED
  BY <1>1, <1>2, <1>3, <1>4, <1>5, <1>6

(* A row that is passed leaves the map or is counted into it.              *)
LEMMA RowSkipped ==
  ASSUME NEW m, NEW answer, NEW lo \in Int, NEW pos \in Int, lo <= pos, ~Value!Usable(answer[pos])
  PROVE  MapOf(m, answer, lo..pos) = MapOf(m, answer, lo..(pos - 1))
<1>1. lo..pos = (lo..(pos - 1)) \cup {pos}
  OBVIOUS
<1>2. \A olv : ValuesIn(answer, lo..pos, olv) = ValuesIn(answer, lo..(pos - 1), olv)
  BY <1>1 DEF ValuesIn, Value!Usable
<1> QED
  BY <1>2 DEF MapOf

LEMMA RowCounted ==
  ASSUME NEW answer \in Seq(ValueRow), NEW lo \in Int, NEW pos \in 1..Len(answer), lo <= pos,
         Value!Usable(answer[pos]), NEW list, metric.histogram => Whole(metric, list),
         NEW map, map = MapOf(metric, answer, lo..(pos - 1))
  PROVE  [map EXCEPT ![answer[pos].olv] = Value!Observe(map[answer[pos].olv], answer[pos].value, list)]
           = MapOf(metric, answer, lo..pos)
<1> DEFINE here == answer[pos].olv
           before(olv) == ValuesIn(answer, lo..(pos - 1), olv)
           after(olv) == ValuesIn(answer, lo..pos, olv)
<1>1. lo..pos = (lo..(pos - 1)) \cup {pos}
  OBVIOUS
<1>2. \A olv : olv # here => after(olv) = before(olv)
  BY <1>1 DEF ValuesIn
<1>3. after(here) = before(here) \cup {pos} /\ pos \notin before(here)
  BY <1>1 DEF ValuesIn, Value!Usable
<1>4. IsFiniteSet(before(here))
  <2>1. IsFiniteSet(lo..(pos - 1))
    BY FS_Interval
  <2> QED
    BY <2>1, FS_Subset DEF ValuesIn
<1> HIDE DEF before, after
<1>5. Value!Observe(SeriesOf(metric, answer, before(here)), answer[pos].value, list)
        = SeriesOf(metric, answer, before(here) \cup {pos})
  BY <1>3, <1>4, ObserveFact
<1>6. \A olv \in Olvs : map[olv] = SeriesOf(metric, answer, before(olv))
  BY DEF MapOf, before
<1>7. here \in Olvs
  <2>1. answer[pos] \in ValueRow
    BY ElementOfSeq
  <2> QED
    BY <2>1 DEF ValueRow
<1>8. MapOf(metric, answer, lo..pos) = [olv \in Olvs |-> SeriesOf(metric, answer, after(olv))]
  BY DEF MapOf, after
<1>9. DOMAIN map = Olvs /\ map = [olv \in Olvs |-> map[olv]]
  BY DEF MapOf
<1> HIDE DEF here
<1>10. Value!Observe(map[here], answer[pos].value, list) = SeriesOf(metric, answer, after(here))
  BY <1>3, <1>5, <1>6, <1>7
<1>11. [map EXCEPT ![here] = Value!Observe(map[here], answer[pos].value, list)]
         = [olv \in Olvs |-> SeriesOf(metric, answer, after(olv))]
  BY <1>2, <1>6, <1>7, <1>9, <1>10
<1> QED
  BY <1>8, <1>11 DEF here

(* What rows give is a map.                                                *)
LEMMA MapType ==
  ASSUME NEW m, NEW answer \in Seq(ValueRow), NEW rows, IsFiniteSet(rows)
  PROVE  MapOf(m, answer, rows) \in [Olvs -> ValueSeries(m)]
<1>1. \A olv \in Olvs : SeriesOf(m, answer, ValuesIn(answer, rows, olv)) \in ValueSeries(m)
  <2> TAKE olv \in Olvs
  <2>1. IsFiniteSet(ValuesIn(answer, rows, olv))
    BY FS_Subset DEF ValuesIn
  <2> QED
    BY <2>1, SeriesType
<1> QED
  BY <1>1 DEF MapOf

(* A goroutine that passes a row, counts one, or goes on with its sort.    *)
PassedRow(g) == [g EXCEPT !.pos = g.pos + 1]
CountedInto(g, map) == [g EXCEPT !.pos = g.pos + 1, !.map = map, !.sort = Value!NotSorting]
SortedTo(g, s) == [g EXCEPT !.sort = s]

(* The goroutine after a row that is skipped.                              *)
LEMMA PassedRowFact ==
  ASSUME NEW m, NEW g \in ValueGoroutine(m)
  PROVE  /\ PassedRow(g) \in ValueGoroutine(m) /\ PassedRow(g).pos = g.pos + 1
         /\ PassedRow(g).stop = g.stop /\ PassedRow(g).map = g.map /\ PassedRow(g).sort = g.sort
<1>1. g.pos + 1 \in Int
  BY DEF ValueGoroutine
<1> QED
  BY <1>1 DEF ValueGoroutine, PassedRow

(* The goroutine after a row that is counted.                              *)
LEMMA CountedIntoFact ==
  ASSUME NEW m, NEW g \in ValueGoroutine(m), NEW map \in [Olvs -> ValueSeries(m)]
  PROVE  /\ CountedInto(g, map) \in ValueGoroutine(m) /\ CountedInto(g, map).pos = g.pos + 1
         /\ CountedInto(g, map).stop = g.stop /\ CountedInto(g, map).map = map
         /\ CountedInto(g, map).sort.at = "no"
<1>1. g.pos + 1 \in Int
  BY DEF ValueGoroutine
<1>2. Value!NotSorting \in Sorting /\ Value!NotSorting.at = "no"
  BY DEF Value!NotSorting, Sorting
<1> QED
  BY <1>1, <1>2 DEF ValueGoroutine, CountedInto

(* The goroutine after a step of its sort.                                 *)
LEMMA SortedToFact ==
  ASSUME NEW m, NEW g \in ValueGoroutine(m), NEW s \in Sorting
  PROVE  /\ SortedTo(g, s) \in ValueGoroutine(m) /\ SortedTo(g, s).pos = g.pos
         /\ SortedTo(g, s).stop = g.stop /\ SortedTo(g, s).map = g.map /\ SortedTo(g, s).sort = s
BY DEF ValueGoroutine, SortedTo

(* The steps of one goroutine leave the others as they are.                *)
LEMMA ValueMove ==
  ASSUME metric \in ValueMetrics, ValueGoroutines, UNCHANGED <<metric, data, arrived>>,
         NEW w \in 1..ValueThreads, workers[w].pos < workers[w].stop,
         NEW g \in ValueGoroutine(metric), workers' = [workers EXCEPT ![w] = g],
         ValueOf(metric, data, ValueThreads, w, g)
  PROVE  /\ ValueGoroutines' /\ ValueThreads' = ValueThreads
         /\ workers'[w] = g
         /\ \A v \in 1..ValueThreads : v # w => workers'[v] = workers[v]
<1> DEFINE t == ValueThreads
<1>1. ValueThreads' = t
  BY DEF ValueThreads
<1>2. /\ workers \in [1..t -> ValueGoroutine(metric)]
      /\ data \in Seq(ValueRow) /\ data # <<>>
      /\ \A v \in 1..t : ValueOf(metric, data, t, v, workers[v])
      /\ arrived \in Seq(1..t)
      /\ \A i, j \in 1..Len(arrived) : arrived[i] = arrived[j] => i = j
      /\ \A i \in 1..Len(arrived) : workers[arrived[i]].pos = workers[arrived[i]].stop
  BY DEF ValueGoroutines
<1> HIDE DEF t
<1>3. w \in 1..t
  BY DEF t
<1>4. /\ workers' \in [1..t -> ValueGoroutine(metric)]
      /\ workers'[w] = g
      /\ \A v \in 1..t : v # w => workers'[v] = workers[v]
  BY <1>2, <1>3
<1>5. \A v \in 1..t : ValueOf(metric, data, t, v, workers'[v])
  BY <1>2, <1>4 DEF t
<1>6. workers[w].pos # workers[w].stop
  BY <1>2, <1>3 DEF ValueGoroutine
<1>7. \A i \in 1..Len(arrived) : arrived[i] # w /\ arrived[i] \in 1..t
  BY <1>2, <1>6, ElementOfSeq
<1>8. \A i \in 1..Len(arrived) : workers'[arrived[i]].pos = workers'[arrived[i]].stop
  BY <1>2, <1>4, <1>7
<1>9. ValueGoroutines'
  BY <1>1, <1>2, <1>4, <1>5, <1>8 DEF ValueGoroutines
<1> QED
  BY <1>1, <1>4, <1>9 DEF t

-----------------------------------------------------------------------------
(* Without threads there is one goroutine.                                 *)
LEMMA OneThread ==
  ASSUME metric \in ValueMetrics, ValueGoroutines, metric.threads <= 1
  PROVE  ValueThreads = 1
<1>1. Len(data) \in Nat \ {0} /\ metric.threads \in Int
  BY ValueMetricsAssumption DEF ValueGoroutines
<1> QED
  BY <1>1 DEF ValueThreads, ThreadsNumber

(* A goroutine that counts a row of a histogram finds all bounds.          *)
LEMMA AllBounds ==
  ASSUME metric \in ValueMetrics, pc = "work", ValueGoroutines, ListKept,
         NEW w \in 1..ValueThreads, workers[w].sort.at \in {"no", "load"}
  PROVE  Whole(metric, bucketList)
<1>1. CASE Once(metric) /\ bucketList = metric.buckets
  BY <1>1, ConfiguredWhole
<1>2. CASE metric.threads <= 1 /\ SortedBy(metric, bucketList, workers[1].sort)
  <2>1. w = 1
    BY <1>2, OneThread
  <2> QED
    BY <1>2, <2>1 DEF SortedBy
<1> QED
  BY <1>1, <1>2 DEF ListKept

(* Steps that are no store to the list.                                    *)
LEMMA ListLeft ==
  ASSUME metric \in ValueMetrics, pc = "work", ValueGoroutines, ListKept,
         UNCHANGED <<metric, pc, bucketList>>, ValueThreads' = ValueThreads,
         NEW w \in 1..ValueThreads, NEW g, workers'[w] = g,
         \A v \in 1..ValueThreads : v # w => workers'[v] = workers[v],
         \/ g.sort = workers[w].sort
         \/ workers[w].sort.at \in {"no", "load"} /\ g.sort.at \in {"no", "load"}
  PROVE  ListKept'
<1>1. CASE /\ Once(metric) /\ Ascending(metric) /\ bucketList = metric.buckets
           /\ \A v \in 1..ValueThreads : workers[v].sort.at \in {"no", "load"}
  <2>1. \A v \in 1..ValueThreads : workers'[v].sort.at \in {"no", "load"}
    BY <1>1
  <2>2. Once(metric') /\ Ascending(metric') /\ bucketList' = metric'.buckets
    BY <1>1
  <2> QED
    BY <2>1, <2>2 DEF ListKept, Once, Ascending
<1>2. CASE metric.threads <= 1 /\ SortedBy(metric, bucketList, workers[1].sort)
  <2>1. w = 1
    BY <1>2, OneThread
  <2>2. SortedBy(metric, bucketList, workers'[1].sort)
    <3>1. CASE g.sort = workers[w].sort
      BY <1>2, <2>1, <3>1
    <3>2. CASE workers[w].sort.at \in {"no", "load"} /\ g.sort.at \in {"no", "load"}
      <4>1. Whole(metric, bucketList)
        BY <1>2, <2>1, <3>2 DEF SortedBy
      <4>2. workers'[1].sort.at # "low" /\ workers'[1].sort.at # "high"
        BY <2>1, <3>2
      <4> QED
        BY <4>1, <4>2 DEF SortedBy
    <3> QED
      BY <3>1, <3>2
  <2>3. SortedBy(metric', bucketList', workers'[1].sort)
    BY <2>2
  <2> QED
    BY <1>2, <2>3 DEF ListKept
<1> QED
  BY <1>1, <1>2 DEF ListKept

(* A row without a value that counts is passed.                            *)
LEMMA ValueSkipStep ==
  ASSUME ValueInv, NEW w \in DOMAIN workers, Value!SkipRow(w)
  PROVE  ValueInv'
<1> DEFINE t == ValueThreads
           g == PassedRow(workers[w])
           lo == Start(w - 1, Len(data), t)
           pos == workers[w].pos
<1>0. Value!AtRow(w)
  BY DEF Value!SkipRow
<1>1. /\ pc = "work" /\ ValueGoroutines /\ metric \in ValueMetrics
      /\ w \in 1..t /\ workers[w] \in ValueGoroutine(metric)
      /\ ValueOf(metric, data, t, w, workers[w])
      /\ pos < workers[w].stop /\ pos \in 1..Len(data) /\ workers[w].stop \in Int
      /\ lo \in 1..Len(data) + 1
  BY <1>0, ValueWorking
<1>2. /\ ~Value!Usable(data[pos])
      /\ workers' = [workers EXCEPT ![w].pos = @ + 1]
      /\ UNCHANGED <<metric, pc, data, bucketList, arrived, series>>
  BY DEF Value!SkipRow, Value!CurrentRow
<1>3. /\ g \in ValueGoroutine(metric) /\ g.pos = pos + 1
      /\ g.stop = workers[w].stop /\ g.map = workers[w].map /\ g.sort = workers[w].sort
  BY <1>1, PassedRowFact
<1>4. workers' = [workers EXCEPT ![w] = g]
  BY <1>2 DEF PassedRow
<1> HIDE DEF g
<1>5. g.sort.at = "no"
  <2>1. workers[w].sort.at = "no"
    BY <1>1, <1>2 DEF ValueOf
  <2> QED
    BY <1>3, <2>1
<1>6. ValueOf(metric, data, t, w, g)
  <2>1. /\ workers[w].stop = Stop(w - 1, Len(data), t) /\ lo <= pos
        /\ workers[w].map = MapOf(metric, data, lo..(pos - 1))
    BY <1>1 DEF ValueOf
  <2>2. MapOf(metric, data, lo..pos) = MapOf(metric, data, lo..(pos - 1))
    <3>1. lo \in Int /\ pos \in Int
      BY <1>1
    <3> HIDE DEF lo, pos
    <3> QED
      BY <1>2, <2>1, <3>1, RowSkipped
  <2>3. g.pos - 1 = pos /\ lo <= g.pos /\ g.pos <= g.stop
    BY <1>1, <1>3, <2>1
  <2>4. g.map = MapOf(metric, data, lo..(g.pos - 1)) /\ g.stop = Stop(w - 1, Len(data), t)
    BY <1>3, <2>1, <2>2, <2>3
  <2> QED
    BY <1>5, <2>3, <2>4 DEF ValueOf
<1>7. /\ ValueGoroutines' /\ ValueThreads' = ValueThreads /\ workers'[w] = g
      /\ \A v \in 1..ValueThreads : v # w => workers'[v] = workers[v]
  BY <1>1, <1>2, <1>3, <1>4, <1>6, ValueMove
<1>8. metric.histogram => ListKept'
  BY <1>1, <1>2, <1>3, <1>7, ListLeft DEF ValueInv
<1> QED
  BY <1>1, <1>2, <1>7, <1>8 DEF ValueInv

(* The row is counted into the map, by CountRow or after the sort.         *)
LEMMA CountedStep ==
  ASSUME ValueInv, NEW w \in DOMAIN workers, Value!AtRow(w), Value!Usable(Value!CurrentRow(w)),
         workers[w].sort.at \in {"no", "load"}, workers' = Value!Counted(w),
         UNCHANGED <<metric, pc, data, bucketList, arrived, series>>
  PROVE  ValueInv'
<1> DEFINE t == ValueThreads
           lo == Start(w - 1, Len(data), t)
           pos == workers[w].pos
           row == data[pos]
           map == workers[w].map
           next == [map EXCEPT ![row.olv] = Value!Observe(map[row.olv], row.value, bucketList)]
           g == CountedInto(workers[w], next)
<1>1. /\ pc = "work" /\ ValueGoroutines /\ metric \in ValueMetrics
      /\ w \in 1..t /\ workers[w] \in ValueGoroutine(metric)
      /\ ValueOf(metric, data, t, w, workers[w])
      /\ pos < workers[w].stop /\ pos \in 1..Len(data) /\ workers[w].stop \in Int
      /\ lo \in 1..Len(data) + 1
  BY ValueWorking
<1>2. /\ workers[w].stop = Stop(w - 1, Len(data), t) /\ lo <= pos
      /\ map = MapOf(metric, data, lo..(pos - 1))
      /\ data \in Seq(ValueRow)
  BY <1>1 DEF ValueOf, ValueGoroutines
<1>3. next = MapOf(metric, data, lo..pos)
  <2>1. metric.histogram => Whole(metric, bucketList)
    BY <1>1, AllBounds DEF ValueInv
  <2>2. Value!Usable(data[pos]) /\ lo \in Int /\ pos \in 1..Len(data)
    BY <1>1 DEF Value!CurrentRow
  <2> HIDE DEF lo, pos, map
  <2> QED
    BY <1>2, <2>1, <2>2, RowCounted
<1>4. next \in [Olvs -> ValueSeries(metric)]
  <2>1. IsFiniteSet(lo..pos)
    <3>1. lo \in Int /\ pos \in Int
      BY <1>1
    <3> QED
      BY <3>1, FS_Interval
  <2> HIDE DEF next, lo, pos
  <2> QED
    BY <1>2, <1>3, <2>1, MapType
<1>5. workers' = [workers EXCEPT ![w] = g]
  BY DEF Value!Counted, Value!CurrentRow, CountedInto
<1> HIDE DEF next
<1>6. /\ g \in ValueGoroutine(metric) /\ g.pos = pos + 1
      /\ g.stop = workers[w].stop /\ g.map = next /\ g.sort.at = "no"
  <2> HIDE DEF pos, map, row
  <2>1. workers[w] \in ValueGoroutine(metric)
    BY <1>1
  <2>2. /\ CountedInto(workers[w], next) \in ValueGoroutine(metric)
        /\ CountedInto(workers[w], next).pos = workers[w].pos + 1
        /\ CountedInto(workers[w], next).stop = workers[w].stop
        /\ CountedInto(workers[w], next).map = next
        /\ CountedInto(workers[w], next).sort.at = "no"
    BY <1>4, <2>1, CountedIntoFact
  <2> QED
    BY <2>2 DEF pos
<1> HIDE DEF g
<1>7. ValueOf(metric, data, t, w, g)
  <2>1. g.pos - 1 = pos /\ lo <= g.pos /\ g.pos <= g.stop
    BY <1>1, <1>2, <1>6
  <2>2. g.map = MapOf(metric, data, lo..(g.pos - 1)) /\ g.stop = Stop(w - 1, Len(data), t)
    BY <1>2, <1>3, <1>6, <2>1
  <2> QED
    BY <1>6, <2>1, <2>2 DEF ValueOf
<1>8. /\ ValueGoroutines' /\ ValueThreads' = ValueThreads /\ workers'[w] = g
      /\ \A v \in 1..ValueThreads : v # w => workers'[v] = workers[v]
  BY <1>1, <1>5, <1>6, <1>7, ValueMove
<1>9. metric.histogram => ListKept'
  <2>1. g.sort.at \in {"no", "load"}
    BY <1>6
  <2> QED
    BY <1>1, <1>8, <2>1, ListLeft DEF ValueInv
<1> QED
  BY <1>1, <1>8, <1>9 DEF ValueInv

-----------------------------------------------------------------------------
(* A value is counted without a sort.                                      *)
LEMMA CountRowStep ==
  ASSUME ValueInv, NEW w \in DOMAIN workers, Value!CountRow(w)
  PROVE  ValueInv'
<1>1. /\ Value!AtRow(w) /\ Value!Usable(Value!CurrentRow(w)) /\ workers' = Value!Counted(w)
      /\ workers[w].sort = Value!NotSorting
      /\ UNCHANGED <<metric, pc, data, bucketList, arrived, series>>
  BY DEF Value!CountRow
<1>2. workers[w].sort.at \in {"no", "load"}
  BY <1>1 DEF Value!NotSorting
<1> QED
  BY <1>1, <1>2, CountedStep

(* A goroutine begins its sort or goes on with it.                         *)
LEMMA SortStep ==
  ASSUME ValueInv, NEW w \in DOMAIN workers, Value!AtRow(w), NEW s \in Sorting,
         workers' = [workers EXCEPT ![w].sort = s], UNCHANGED <<metric, data, arrived>>,
         metric.histogram, Value!Usable(data[workers[w].pos]),
         2 <= s.i, 1 <= s.j, s.j <= s.i,
         s.at \in {"low", "high"} => 2 <= s.j /\ s.i <= Len(metric.buckets)
  PROVE  /\ ValueGoroutines' /\ ValueThreads' = ValueThreads /\ w \in 1..ValueThreads
         /\ workers'[w].sort = s
         /\ \A v \in 1..ValueThreads : v # w => workers'[v] = workers[v]
<1> DEFINE t == ValueThreads
           g == SortedTo(workers[w], s)
<1>1. /\ pc = "work" /\ ValueGoroutines /\ metric \in ValueMetrics
      /\ w \in 1..t /\ workers[w] \in ValueGoroutine(metric)
      /\ ValueOf(metric, data, t, w, workers[w])
      /\ workers[w].pos < workers[w].stop
  BY ValueWorking
<1>2. /\ g \in ValueGoroutine(metric) /\ g.pos = workers[w].pos
      /\ g.stop = workers[w].stop /\ g.map = workers[w].map /\ g.sort = s
  BY <1>1, SortedToFact
<1>3. workers' = [workers EXCEPT ![w] = g]
  BY DEF SortedTo
<1> HIDE DEF g
<1>4. ValueOf(metric, data, t, w, g)
  BY <1>1, <1>2 DEF ValueOf
<1>5. /\ ValueGoroutines' /\ ValueThreads' = ValueThreads /\ workers'[w] = g
      /\ \A v \in 1..ValueThreads : v # w => workers'[v] = workers[v]
  BY <1>1, <1>2, <1>3, <1>4, ValueMove
<1> QED
  BY <1>1, <1>2, <1>5

(* A sort begins; the list stays as it is.                                 *)
LEMMA CreateStep ==
  ASSUME ValueInv, NEW w \in DOMAIN workers, Value!CreateHistogramMetricValue(w)
  PROVE  ValueInv'
<1> DEFINE s == [at |-> "load", i |-> 2, j |-> 2, tmp |-> <<>>]
<1>1. /\ Value!AtRow(w) /\ Value!Usable(data[workers[w].pos]) /\ metric.histogram
      /\ workers[w].sort = Value!NotSorting
      /\ workers' = [workers EXCEPT ![w].sort = s]
      /\ UNCHANGED <<metric, pc, data, bucketList, arrived, series>>
  BY DEF Value!CreateHistogramMetricValue, Value!CurrentRow
<1>2. s \in Sorting /\ s.at = "load" /\ 2 <= s.i /\ 1 <= s.j /\ s.j <= s.i
  BY DEF Sorting
<1> HIDE DEF s
<1>3. /\ ValueGoroutines' /\ ValueThreads' = ValueThreads /\ w \in 1..ValueThreads
      /\ workers'[w].sort = s
      /\ \A v \in 1..ValueThreads : v # w => workers'[v] = workers[v]
  BY <1>1, <1>2, SortStep
<1>4. pc = "work" /\ ValueGoroutines /\ metric \in ValueMetrics /\ ListKept
  BY <1>1, ValueWorking DEF ValueInv
<1>5. workers[w].sort.at \in {"no", "load"} /\ workers'[w].sort.at \in {"no", "load"}
  BY <1>1, <1>2, <1>3 DEF Value!NotSorting
<1>6. ListKept'
  BY <1>1, <1>3, <1>4, <1>5, ListLeft
<1> QED
  BY <1>1, <1>3, <1>4, <1>6 DEF ValueInv

(* What is known of a sort.                                                *)
LEMMA SortingFact ==
  ASSUME ValueInv, NEW w \in DOMAIN workers, Value!AtRow(w), workers[w].sort.at # "no"
  PROVE  /\ pc = "work" /\ ValueGoroutines /\ metric \in ValueMetrics /\ w \in 1..ValueThreads
         /\ metric.histogram /\ ListKept /\ Value!Usable(data[workers[w].pos])
         /\ workers[w].sort \in Sorting
         /\ workers[w].sort.i \in Int /\ workers[w].sort.j \in Int
         /\ 2 <= workers[w].sort.i /\ 1 <= workers[w].sort.j /\ workers[w].sort.j <= workers[w].sort.i
         /\ workers[w].sort.at \in {"low", "high"} =>
              2 <= workers[w].sort.j /\ workers[w].sort.i <= Len(metric.buckets)
<1>1. /\ pc = "work" /\ ValueGoroutines /\ metric \in ValueMetrics
      /\ w \in 1..ValueThreads /\ workers[w] \in ValueGoroutine(metric)
      /\ ValueOf(metric, data, ValueThreads, w, workers[w])
  BY ValueWorking
<1>2. workers[w].sort \in Sorting
  BY <1>1 DEF ValueGoroutine
<1>3. workers[w].sort.i \in Int /\ workers[w].sort.j \in Int
  BY <1>2 DEF Sorting
<1> QED
  BY <1>1, <1>2, <1>3 DEF ValueOf, ValueInv

Swapping(s, tmp) == [s EXCEPT !.at = "low", !.tmp = tmp]
Upwards(s, k) == [s EXCEPT !.i = k, !.j = k]
Downwards(s, k) == [s EXCEPT !.at = "load", !.j = k]

(* The sort that found two neighbours out of order.                        *)
LEMMA SwappingFact ==
  ASSUME NEW s \in Sorting, NEW a \in Int, NEW b \in Int
  PROVE  /\ Swapping(s, <<a, b>>) \in Sorting /\ Swapping(s, <<a, b>>).at = "low"
         /\ Swapping(s, <<a, b>>).i = s.i /\ Swapping(s, <<a, b>>).j = s.j
         /\ Swapping(s, <<a, b>>).tmp = <<a, b>>
<1>1. <<a, b>> \in Seq(Int)
  OBVIOUS
<1> QED
  BY <1>1 DEF Swapping, Sorting

(* The sort that goes on with the next or the previous element.            *)
LEMMA MovedFact ==
  ASSUME NEW s \in Sorting, NEW k \in Int
  PROVE  /\ Upwards(s, k) \in Sorting /\ Upwards(s, k).at = s.at
         /\ Upwards(s, k).i = k /\ Upwards(s, k).j = k
         /\ Downwards(s, k) \in Sorting /\ Downwards(s, k).at = "load"
         /\ Downwards(s, k).i = s.i /\ Downwards(s, k).j = k
BY DEF Upwards, Downwards, Sorting

(* Two neighbours are compared, or the sort is through.                    *)
LEMMA CompareStep ==
  ASSUME ValueInv, NEW w \in DOMAIN workers, Value!Compare(w)
  PROVE  ValueInv'
<1> DEFINE s == workers[w].sort
           low == Swapping(s, <<bucketList[s.j], bucketList[s.j - 1]>>)
           up == Upwards(s, s.i + 1)
<1>1. /\ Value!AtRow(w) /\ s.at = "load"
      /\ UNCHANGED <<metric, pc, data, bucketList, arrived, series>>
  BY DEF Value!Compare
<1>2. /\ pc = "work" /\ ValueGoroutines /\ metric \in ValueMetrics /\ w \in 1..ValueThreads
      /\ metric.histogram /\ ListKept /\ Value!Usable(data[workers[w].pos])
      /\ s \in Sorting /\ s.i \in Int /\ s.j \in Int /\ 2 <= s.i /\ 1 <= s.j /\ s.j <= s.i
  BY <1>1, SortingFact
<1>3. Whole(metric, bucketList)
  BY <1>1, <1>2, AllBounds
<1>4. /\ Len(bucketList) = Len(metric.buckets) /\ Len(metric.buckets) \in Nat
      /\ \A k \in 1..Len(metric.buckets) : bucketList[k] \in Int
  BY <1>2, <1>3, WholeFact
<1>5. CASE s.i > Len(bucketList)
  <2>1. workers' = Value!Counted(w)
    BY <1>5 DEF Value!Compare
  <2>2. Value!Usable(Value!CurrentRow(w))
    BY <1>2 DEF Value!CurrentRow
  <2> QED
    BY <1>1, <2>1, <2>2, CountedStep
<1>6. CASE ~(s.i > Len(bucketList)) /\ s.j > 1 /\ bucketList[s.j] < bucketList[s.j - 1]
  <2>1. workers' = [workers EXCEPT ![w].sort = low]
    BY <1>6 DEF Value!Compare, Swapping
  <2>2. 2 <= s.j /\ s.j <= Len(metric.buckets) /\ s.i <= Len(metric.buckets)
    BY <1>2, <1>4, <1>6
  <2>3. bucketList[s.j] \in Int /\ bucketList[s.j - 1] \in Int
    BY <1>2, <1>4, <2>2
  <2>4. /\ low \in Sorting /\ low.at = "low" /\ low.i = s.i /\ low.j = s.j
        /\ low.tmp = <<bucketList[low.j], bucketList[low.j - 1]>>
    <3> HIDE DEF s
    <3> QED
      BY <1>2, <2>3, SwappingFact
  <2> HIDE DEF low
  <2>5. /\ ValueGoroutines' /\ ValueThreads' = ValueThreads /\ workers'[w].sort = low
    BY <1>1, <1>2, <2>1, <2>2, <2>4, SortStep
  <2>6. ListKept'
    <3>1. CASE Ascending(metric) /\ bucketList = metric.buckets
      <4>1. s.j \in DOMAIN metric.buckets
        <5>1. DOMAIN bucketList = 1..Len(metric.buckets)
          BY <1>2, <1>3, WholeFact
        <5> QED
          BY <1>2, <1>4, <2>2, <3>1, <5>1
      <4> QED
        BY <1>6, <3>1, <4>1 DEF Ascending
    <3>2. CASE metric.threads <= 1
      <4>1. w = 1
        BY <1>2, <3>2, OneThread
      <4>2. SortedBy(metric, bucketList, workers'[1].sort)
        BY <1>3, <2>4, <2>5, <4>1 DEF SortedBy
      <4>3. SortedBy(metric', bucketList', workers'[1].sort)
        BY <1>1, <4>2
      <4> QED
        BY <1>1, <1>2, <3>2, <4>3 DEF ListKept
    <3> QED
      BY <1>2, <3>1, <3>2 DEF ListKept
  <2> QED
    BY <1>1, <1>2, <2>5, <2>6 DEF ValueInv
<1>7. CASE ~(s.i > Len(bucketList)) /\ ~(s.j > 1 /\ bucketList[s.j] < bucketList[s.j - 1])
  <2>1. workers' = [workers EXCEPT ![w].sort = up]
    BY <1>7 DEF Value!Compare, Upwards
  <2>2. /\ up \in Sorting /\ up.at = "load" /\ up.i = s.i + 1 /\ up.j = s.i + 1
    <3>1. s.i + 1 \in Int
      BY <1>2
    <3> HIDE DEF s
    <3> QED
      BY <1>1, <1>2, <3>1, MovedFact
  <2>3. 2 <= up.i /\ 1 <= up.j /\ up.j <= up.i
    BY <1>2, <2>2
  <2> HIDE DEF up
  <2>4. /\ ValueGoroutines' /\ ValueThreads' = ValueThreads /\ workers'[w].sort = up
        /\ \A v \in 1..ValueThreads : v # w => workers'[v] = workers[v]
    BY <1>1, <1>2, <2>1, <2>2, <2>3, SortStep
  <2>5. workers'[w].sort.at \in {"no", "load"}
    BY <2>2, <2>4
  <2>6. ListKept'
    BY <1>1, <1>2, <2>4, <2>5, ListLeft
  <2> QED
    BY <1>1, <1>2, <2>4, <2>6 DEF ValueInv
<1> QED
  BY <1>5, <1>6, <1>7

(* A store of a swap, which only a goroutine that is alone makes.          *)
LEMMA SwapStep ==
  ASSUME ValueInv, NEW w \in DOMAIN workers, Value!Swap(w)
  PROVE  ValueInv'
<1> DEFINE s == workers[w].sort
           high == [s EXCEPT !.at = "high"]
           down == Downwards(s, s.j - 1)
<1>1. /\ Value!AtRow(w)
      /\ \/ /\ s.at = "low"
            /\ bucketList' = [bucketList EXCEPT ![s.j] = s.tmp[2]]
            /\ workers' = [workers EXCEPT ![w].sort.at = "high"]
         \/ /\ s.at = "high"
            /\ bucketList' = [bucketList EXCEPT ![s.j - 1] = s.tmp[1]]
            /\ workers' = [workers EXCEPT ![w].sort = down]
      /\ UNCHANGED <<metric, pc, data, arrived, series>>
  BY DEF Value!Swap, Downwards
<1>2. /\ pc = "work" /\ ValueGoroutines /\ metric \in ValueMetrics /\ w \in 1..ValueThreads
      /\ metric.histogram /\ ListKept /\ Value!Usable(data[workers[w].pos])
      /\ s \in Sorting /\ s.i \in Int /\ s.j \in Int
      /\ 2 <= s.i /\ 2 <= s.j /\ s.j <= s.i /\ s.i <= Len(metric.buckets)
  BY <1>1, SortingFact
<1>3. metric.threads <= 1 /\ SortedBy(metric, bucketList, workers[1].sort)
  BY <1>1, <1>2 DEF ListKept
<1>4. w = 1
  BY <1>2, <1>3, OneThread
<1>5. CASE s.at = "low"
  <2>1. /\ bucketList' = [bucketList EXCEPT ![s.j] = s.tmp[2]]
        /\ workers' = [workers EXCEPT ![w].sort = high]
    BY <1>1, <1>5
  <2>2. high \in Sorting /\ high.at = "high" /\ high.i = s.i /\ high.j = s.j /\ high.tmp = s.tmp
    BY <1>2 DEF Sorting
  <2> HIDE DEF high
  <2>10. 1 <= high.j
    BY <1>2, <2>2
  <2>3. /\ ValueGoroutines' /\ ValueThreads' = ValueThreads /\ workers'[w].sort = high
    BY <1>1, <1>2, <2>1, <2>2, <2>10, SortStep
  <2>4. Whole(metric, bucketList) /\ s.tmp = <<bucketList[s.j], bucketList[s.j - 1]>>
    BY <1>3, <1>4, <1>5 DEF SortedBy
  <2>5. bucketList' = [bucketList EXCEPT ![s.j] = bucketList[s.j - 1]]
    BY <2>1, <2>4
  <2>6. Whole(metric, [bucketList' EXCEPT ![s.j - 1] = bucketList[s.j]])
    <3>1. s.j \in 2..Len(metric.buckets)
      <4>1. Len(metric.buckets) \in Nat
        BY <1>2, <2>4, WholeFact
      <4> QED
        BY <1>2, <4>1
    <3> HIDE DEF s
    <3> QED
      BY <1>2, <2>4, <2>5, <3>1, SwapFact
  <2>7. Whole(metric, [bucketList' EXCEPT ![high.j - 1] = high.tmp[1]])
    BY <2>2, <2>4, <2>6
  <2>8. SortedBy(metric', bucketList', workers'[1].sort)
    BY <1>1, <1>4, <2>2, <2>3, <2>7 DEF SortedBy
  <2>9. ListKept'
    BY <1>1, <1>2, <1>3, <2>8 DEF ListKept
  <2> QED
    BY <1>1, <1>2, <2>3, <2>9 DEF ValueInv
<1>6. CASE s.at = "high"
  <2>1. /\ bucketList' = [bucketList EXCEPT ![s.j - 1] = s.tmp[1]]
        /\ workers' = [workers EXCEPT ![w].sort = down]
    BY <1>1, <1>6
  <2>2. down \in Sorting /\ down.at = "load" /\ down.i = s.i /\ down.j = s.j - 1
    <3>1. s.j - 1 \in Int
      BY <1>2
    <3> HIDE DEF s
    <3> QED
      BY <1>2, <3>1, MovedFact
  <2>3. 2 <= down.i /\ 1 <= down.j /\ down.j <= down.i
    BY <1>2, <2>2
  <2> HIDE DEF down
  <2>4. /\ ValueGoroutines' /\ ValueThreads' = ValueThreads /\ workers'[w].sort = down
    BY <1>1, <1>2, <2>1, <2>2, <2>3, SortStep
  <2>5. Whole(metric, bucketList')
    BY <1>3, <1>4, <1>6, <2>1 DEF SortedBy
  <2>6. SortedBy(metric', bucketList', workers'[1].sort)
    BY <1>1, <1>4, <2>2, <2>4, <2>5 DEF SortedBy
  <2>7. ListKept'
    BY <1>1, <1>2, <1>3, <2>6 DEF ListKept
  <2> QED
    BY <1>1, <1>2, <2>4, <2>7 DEF ValueInv
<1> QED
  BY <1>1, <1>5, <1>6

-----------------------------------------------------------------------------
(* Steps that leave list and sorts alone.                                  *)
LEMMA ListSame ==
  ASSUME ListKept, UNCHANGED <<metric, pc, data, bucketList, workers>>
  PROVE  ListKept'
<1>1. ValueThreads' = ValueThreads
  BY DEF ValueThreads
<1>2. CASE /\ Once(metric) /\ Ascending(metric) /\ bucketList = metric.buckets
           /\ pc = "work" => \A w \in 1..ValueThreads : workers[w].sort.at \in {"no", "load"}
  <2>1. Once(metric') /\ Ascending(metric') /\ bucketList' = metric'.buckets
    BY <1>2
  <2> QED
    BY <1>1, <1>2, <2>1 DEF ListKept, Once, Ascending
<1>3. CASE /\ metric.threads <= 1
           /\ pc = "idle" => Whole(metric, bucketList)
           /\ pc = "work" => SortedBy(metric, bucketList, workers[1].sort)
  <2>1. /\ pc' = "idle" => Whole(metric', bucketList')
        /\ pc' = "work" => SortedBy(metric', bucketList', workers'[1].sort)
    BY <1>3
  <2> QED
    BY <1>3, <2>1 DEF ListKept
<1> QED
  BY <1>2, <1>3 DEF ListKept

(* A map arrives.                                                          *)
LEMMA ValueReceiveStep ==
  ASSUME ValueInv, NEW w \in DOMAIN workers, Value!Receive(w)
  PROVE  ValueInv'
<1> DEFINE t == ValueThreads
<1>1. /\ pc = "work" /\ ValueGoroutines /\ metric \in ValueMetrics
      /\ workers[w].pos = workers[w].stop
      /\ \A i \in DOMAIN arrived : arrived[i] # w
      /\ arrived' = Append(arrived, w)
      /\ UNCHANGED <<metric, pc, data, bucketList, workers, series>>
  BY DEF ValueInv, Value!Receive, Value!ToSet
<1>2. ValueThreads' = t
  BY <1>1 DEF ValueThreads
<1>3. /\ workers \in [1..t -> ValueGoroutine(metric)] /\ w \in 1..t
      /\ arrived \in Seq(1..t)
      /\ \A i, j \in 1..Len(arrived) : arrived[i] = arrived[j] => i = j
      /\ \A i \in 1..Len(arrived) : workers[arrived[i]].pos = workers[arrived[i]].stop
  BY <1>1 DEF ValueGoroutines
<1> HIDE DEF t
<1>4. /\ arrived' \in Seq(1..t) /\ Len(arrived') = Len(arrived) + 1 /\ Len(arrived) \in Nat
      /\ arrived'[Len(arrived) + 1] = w
      /\ \A i \in 1..Len(arrived) : arrived'[i] = arrived[i] /\ arrived[i] # w
  BY <1>1, <1>3
<1>5. \A i \in 1..Len(arrived') : i \in 1..Len(arrived) \/ i = Len(arrived) + 1
  BY <1>4
<1>6. \A i, j \in 1..Len(arrived') : arrived'[i] = arrived'[j] => i = j
  BY <1>3, <1>4, <1>5
<1>7. \A i \in 1..Len(arrived') : workers[arrived'[i]].pos = workers[arrived'[i]].stop
  BY <1>1, <1>3, <1>4, <1>5
<1>8. ValueGoroutines'
  BY <1>1, <1>2, <1>4, <1>6, <1>7 DEF ValueGoroutines, t
<1>9. metric.histogram => ListKept'
  BY <1>1, ListSame DEF ValueInv
<1> QED
  BY <1>1, <1>8, <1>9 DEF ValueInv

(* No rows: no values.                                                     *)
LEMMA NoMapFact ==
  ASSUME NEW answer \in Seq(ValueRow), NEW rows, rows = {}
  PROVE  Value!NoMap = MapOf(metric, answer, rows)
<1>1. Value!SumOf(answer, {}) = 0
  BY SumFact
<1>2. Cardinality({}) = 0
  BY FS_EmptySet
<1>3. \A b : UpTo(answer, {}, b) = {}
  BY DEF UpTo
<1>4. [b \in ValueBounds(metric) |-> IF metric.histogram THEN Cardinality(UpTo(answer, {}, b)) ELSE 0]
        = [b \in ValueBounds(metric) |-> 0]
  BY <1>2, <1>3
<1>5. SeriesOf(metric, answer, {}) = Value!NewSeries
  BY <1>1, <1>2, <1>4, ValueLibrary DEF SeriesOf, Value!NewSeries, Value!NoBuckets
<1>6. \A olv : ValuesIn(answer, {}, olv) = {}
  BY DEF ValuesIn
<1> QED
  BY <1>5, <1>6 DEF MapOf, Value!NoMap

(* An answer is split: no map has a value, no goroutine sorts.             *)
LEMMA ValueStartStep ==
  ASSUME ValueInv, NEW rows \in metric.answers, Value!StartWorkers(rows)
  PROVE  ValueInv'
<1> DEFINE n == Len(rows)
           t == ThreadsNumber(metric.threads, n)
<1>1. /\ pc = "idle" /\ metric \in ValueMetrics /\ rows # <<>> /\ data' = rows
      /\ workers' = [w \in 1..t |-> Value!NewWorker(w - 1, n, t)]
      /\ arrived' = <<>> /\ pc' = "work" /\ UNCHANGED <<metric, bucketList>>
  <2>1. metric \in ValueMetrics
    BY DEF ValueInv
  <2>2. workers' = [w \in 1..t |-> Value!NewWorker(w - 1, n, t)]
    BY ValueLibrary DEF Value!StartWorkers
  <2>3. /\ pc = "idle" /\ rows # <<>> /\ data' = rows
        /\ arrived' = <<>> /\ pc' = "work" /\ UNCHANGED <<metric, bucketList>>
    BY DEF Value!StartWorkers
  <2> QED
    BY <2>1, <2>2, <2>3
<1>2. rows \in Seq(ValueRow)
  BY <1>1, ValueMetricsAssumption DEF ValueRow
<1>3. ValueThreads' = t
  BY <1>1 DEF ValueThreads
<1>4. /\ n \in Nat \ {0} /\ t \in 1..n /\ t \in Nat
      /\ \A w \in 1..t : /\ Start(w - 1, n, t) \in Int /\ Stop(w - 1, n, t) \in Int
                         /\ Start(w - 1, n, t) <= Stop(w - 1, n, t)
  <2>1. /\ n \in Nat \ {0} /\ Partitioned(rows, t)
        /\ \A w \in 1..t : Start(w - 1, n, t) \in Int /\ Stop(w - 1, n, t) \in Int
    BY <1>1, <1>2, ValuePartition
  <2> QED
    BY <2>1 DEF Partitioned
<1> DEFINE Begun(w) ==
  /\ workers'[w] \in ValueGoroutine(metric)
  /\ workers'[w].pos = Start(w - 1, n, t) /\ workers'[w].stop = Stop(w - 1, n, t)
  /\ workers'[w].map = Value!NoMap /\ workers'[w].sort.at = "no"
<1>5. Value!NoMap \in [Olvs -> ValueSeries(metric)]
  <2>1. Value!NoMap = MapOf(metric, rows, {})
    BY <1>2, NoMapFact
  <2>2. IsFiniteSet({})
    BY FS_EmptySet
  <2> QED
    BY <1>2, <2>1, <2>2, MapType
<1>6. \A w \in 1..t : Begun(w)
  <2> SUFFICES ASSUME NEW w \in 1..t PROVE Begun(w)
    OBVIOUS
  <2>1. workers'[w] = Value!NewWorker(w - 1, n, t)
    BY <1>1
  <2>2. Start(w - 1, n, t) \in Int /\ Stop(w - 1, n, t) \in Int
    BY <1>4
  <2>3. Value!NotSorting \in Sorting /\ Value!NotSorting.at = "no"
    BY DEF Value!NotSorting, Sorting
  <2> HIDE DEF n, t
  <2> QED
    BY <1>5, <2>1, <2>2, <2>3, ValueLibrary DEF Value!NewWorker, ValueGoroutine
<1>7. \A w \in 1..t : ValueOf(metric, rows, t, w, workers'[w])
  <2> SUFFICES ASSUME NEW w \in 1..t PROVE ValueOf(metric, rows, t, w, workers'[w])
    OBVIOUS
  <2>1. /\ workers'[w].pos = Start(w - 1, n, t) /\ workers'[w].stop = Stop(w - 1, n, t)
        /\ workers'[w].map = Value!NoMap /\ workers'[w].sort.at = "no"
    BY <1>6
  <2>2. Start(w - 1, n, t) \in Int /\ Start(w - 1, n, t) <= Stop(w - 1, n, t)
    BY <1>4
  <2> HIDE DEF t
  <2>3. Start(w - 1, n, t)..(workers'[w].pos - 1) = {}
    BY <2>1, <2>2
  <2>4. workers'[w].map = MapOf(metric, rows, Start(w - 1, n, t)..(workers'[w].pos - 1))
    BY <1>2, <2>1, <2>3, NoMapFact
  <2> QED
    BY <2>1, <2>2, <2>4 DEF ValueOf
<1>8. ValueGoroutines'
  <2>1. workers' \in [1..t -> ValueGoroutine(metric)]
    BY <1>1, <1>6
  <2> HIDE DEF t, Begun
  <2> QED
    BY <1>1, <1>2, <1>3, <1>7, <2>1 DEF ValueGoroutines
<1>9. metric.histogram => ListKept'
  <2> SUFFICES ASSUME ListKept PROVE ListKept'
    BY DEF ValueInv
  <2>1. \A w \in 1..t : workers'[w].sort.at = "no"
    BY <1>6
  <2>2. 1 \in 1..t
    BY <1>4
  <2> HIDE DEF t, Begun
  <2>3. CASE Once(metric) /\ Ascending(metric) /\ bucketList = metric.buckets
    <3>1. Once(metric') /\ Ascending(metric') /\ bucketList' = metric'.buckets
      BY <1>1, <2>3
    <3> QED
      BY <1>1, <1>3, <2>1, <3>1 DEF ListKept, Once, Ascending
  <2>4. CASE metric.threads <= 1 /\ Whole(metric, bucketList)
    <3>1. SortedBy(metric', bucketList', workers'[1].sort)
      BY <1>1, <2>1, <2>2, <2>4 DEF SortedBy
    <3> QED
      BY <1>1, <2>4, <3>1 DEF ListKept
  <2> QED
    BY <1>1, <2>3, <2>4 DEF ListKept
<1> QED
  BY <1>1, <1>8, <1>9 DEF ValueInv

(* An answer without rows has no values.                                   *)
LEMMA ValueNothingStep ==
  ASSUME ValueInv, Value!EvaluateNothing
  PROVE  ValueInv'
<1>1. /\ pc = "idle" /\ pc' = "idle" /\ data' = <<>> /\ series' = Value!NoMap
      /\ metric \in ValueMetrics /\ UNCHANGED <<metric, bucketList>>
  BY DEF ValueInv, Value!EvaluateNothing
<1>2. <<>> \in Seq(ValueRow) /\ 1..Len(<<>>) = {}
  OBVIOUS
<1>3. series' = MapOf(metric, <<>>, 1..Len(<<>>))
  BY <1>1, <1>2, NoMapFact
<1>4. series' = MapOf(metric', data', 1..Len(data'))
  BY <1>1, <1>3
<1>5. ListKept => ListKept'
  BY <1>1 DEF ListKept, Once, Ascending, Whole, ValueBounds
<1> QED
  BY <1>1, <1>2, <1>4, <1>5 DEF ValueInv

(* In the beginning the list is as configured.                             *)
LEMMA ValueInit ==
  ASSUME BoundsInOrder, Value!Init
  PROVE  ValueInv
<1>1. /\ metric \in ValueMetrics /\ pc = "idle" /\ data = <<>> /\ bucketList = metric.buckets
      /\ series = Value!NoMap
  BY DEF Value!Init
<1>2. <<>> \in Seq(ValueRow) /\ 1..Len(<<>>) = {}
  OBVIOUS
<1>3. series = MapOf(metric, <<>>, 1..Len(<<>>))
  BY <1>1, <1>2, NoMapFact
<1>4. metric.histogram => ListKept
  <2> SUFFICES ASSUME metric.histogram PROVE ListKept
    OBVIOUS
  <2>1. Once(metric) /\ (metric.threads <= 1 \/ Ascending(metric))
    BY <1>1 DEF BoundsInOrder
  <2>2. Whole(metric, bucketList)
    BY <1>1, <2>1, ConfiguredWhole
  <2> QED
    BY <1>1, <2>1, <2>2 DEF ListKept
<1> QED
  BY <1>1, <1>2, <1>3, <1>4 DEF ValueInv

(* A step that changes nothing of the evaluation.                          *)
LEMMA ValueStutter ==
  ASSUME ValueInv, UNCHANGED Value!vars
  PROVE  ValueInv'
<1>1. UNCHANGED <<metric, pc, data, bucketList, workers, arrived, series>>
  BY DEF Value!vars
<1>2. ValueThreads' = ValueThreads
  BY <1>1 DEF ValueThreads
<1>3. ValueGoroutines => ValueGoroutines'
  BY <1>1, <1>2 DEF ValueGoroutines
<1>4. ListKept => ListKept'
  BY <1>1, ListSame
<1>5. series = MapOf(metric, data, 1..Len(data)) => series' = MapOf(metric', data', 1..Len(data'))
  BY <1>1
<1> QED
  BY <1>1, <1>3, <1>4, <1>5 DEF ValueInv

-----------------------------------------------------------------------------
(* The maps have all arrived: together they hold the values of all rows.   *)
LEMMA AllValues ==
  ASSUME ValueInv, Value!Merge
  PROVE  /\ series' = MapOf(metric, data, 1..Len(data))
         /\ \A w \in 1..ValueThreads : workers[w].sort.at = "no"
<1> DEFINE t == ValueThreads
           n == Len(data)
           maps == [i \in 1..Len(arrived) |-> workers[arrived[i]].map]
           R == [i \in 1..t |-> Part(arrived[i], data, t)]
<1>1. /\ metric \in ValueMetrics /\ ValueGoroutines /\ Len(arrived) = Len(workers)
      /\ series' = Value!Merged(maps)
  BY DEF ValueInv, Value!Merge
<1>2. /\ data \in Seq(ValueRow) /\ data # <<>> /\ t = ThreadsNumber(metric.threads, n)
      /\ workers \in [1..t -> ValueGoroutine(metric)] /\ arrived \in Seq(1..t)
      /\ \A i, j \in 1..Len(arrived) : arrived[i] = arrived[j] => i = j
      /\ \A i \in 1..Len(arrived) : workers[arrived[i]].pos = workers[arrived[i]].stop
      /\ \A w \in 1..t : ValueOf(metric, data, t, w, workers[w])
  BY <1>1 DEF ValueGoroutines, ValueThreads
<1> HIDE DEF t, n
<1>3. /\ n \in Nat \ {0} /\ t \in Nat \ {0}
      /\ \A w \in 1..t : /\ Start(w - 1, n, t) \in Int /\ Stop(w - 1, n, t) \in Int
                         /\ Part(w, data, t) = Start(w - 1, n, t)..(Stop(w - 1, n, t) - 1)
                         /\ Part(w, data, t) \subseteq 1..n
      /\ \A i \in 1..n : \E w \in 1..t : i \in Part(w, data, t)
      /\ \A i \in 1..n : \A v, w \in 1..t : i \in Part(v, data, t) /\ i \in Part(w, data, t) => v = w
  <2>1. /\ n \in Nat \ {0} /\ Partitioned(data, t)
        /\ \A w \in 1..t : Start(w - 1, n, t) \in Int /\ Stop(w - 1, n, t) \in Int
    BY <1>1, <1>2, ValuePartition DEF n
  <2>2. /\ t \in 1..n /\ t \in Nat
        /\ \A w \in 1..t : /\ Part(w, data, t) = Start(w - 1, n, t)..(Stop(w - 1, n, t) - 1)
                           /\ Part(w, data, t) \subseteq 1..n
        /\ \A i \in 1..n : \E w \in 1..t : i \in Part(w, data, t)
        /\ \A i \in 1..n : \A v, w \in 1..t : i \in Part(v, data, t) /\ i \in Part(w, data, t) => v = w
    BY <2>1, Zenon DEF Partitioned, n
  <2>3. t \in Nat \ {0}
    BY <2>1, <2>2
  <2> QED
    BY <2>1, <2>2, <2>3, Zenon
<1>4. Len(arrived) = t
  <2>1. Len(workers) = t
    BY <1>2, <1>3
  <2> QED
    BY <1>1, <2>1
<1>5. arrived \in [1..t -> 1..t] /\ \A i \in 1..t : arrived[i] \in 1..t
  BY <1>2, <1>4, ElementOfSeq
<1>6. \A i, j \in 1..t : arrived[i] = arrived[j] => i = j
  BY <1>2, <1>4
<1>7. \A w \in 1..t : \E i \in 1..t : arrived[i] = w
  BY <1>3, <1>5, <1>6, AllArrived
<1>8. \A w \in 1..t : workers[w].pos = workers[w].stop
  BY <1>2, <1>4, <1>7
<1>9. ASSUME NEW w \in 1..t
      PROVE  workers[w].map = MapOf(metric, data, Part(w, data, t)) /\ workers[w].sort.at = "no"
  <2>1. ValueOf(metric, data, t, w, workers[w]) /\ workers[w].pos = workers[w].stop
    BY <1>2, <1>8
  <2>2. /\ workers[w].stop = Stop(w - 1, n, t)
        /\ workers[w].map = MapOf(metric, data, Start(w - 1, n, t)..(workers[w].pos - 1))
        /\ workers[w].sort.at # "no" => workers[w].pos < workers[w].stop
    BY <2>1 DEF ValueOf, n
  <2>3. Stop(w - 1, n, t) \in Int /\ Part(w, data, t) = Start(w - 1, n, t)..(Stop(w - 1, n, t) - 1)
    BY <1>3
  <2> QED
    BY <2>1, <2>2, <2>3
<1>10. \A i \in 1..t : IsFiniteSet(R[i]) /\ maps[i] = MapOf(metric, data, R[i])
  <2> SUFFICES ASSUME NEW i \in 1..t PROVE IsFiniteSet(R[i]) /\ maps[i] = MapOf(metric, data, R[i])
    OBVIOUS
  <2>1. R[i] = Part(arrived[i], data, t) /\ maps[i] = workers[arrived[i]].map /\ arrived[i] \in 1..t
    BY <1>4, <1>5
  <2>2. IsFiniteSet(1..n)
    BY <1>3, FS_Interval
  <2>3. IsFiniteSet(Part(arrived[i], data, t))
    BY <1>3, <2>1, <2>2, FS_Subset
  <2> HIDE DEF R, maps
  <2> QED
    BY <1>9, <2>1, <2>3
<1>11. \A i, j \in 1..t : i # j => R[i] \cap R[j] = {}
  <2> SUFFICES ASSUME NEW i \in 1..t, NEW j \in 1..t, i # j, NEW k \in R[i], k \in R[j]
               PROVE  FALSE
    OBVIOUS
  <2>1. /\ k \in 1..n /\ k \in Part(arrived[i], data, t) /\ k \in Part(arrived[j], data, t)
    BY <1>3, <1>5
  <2>2. arrived[i] = arrived[j]
    BY <1>3, <1>5, <2>1
  <2> QED
    BY <1>6, <2>2
<1>12. \A k : k \in 1..n <=> \E i \in 1..t : k \in R[i]
  <2>1. ASSUME NEW k \in 1..n PROVE \E i \in 1..t : k \in R[i]
    <3>1. PICK w \in 1..t : k \in Part(w, data, t)
      BY <1>3
    <3>2. PICK i \in 1..t : arrived[i] = w
      BY <1>7
    <3> QED
      BY <3>1, <3>2
  <2>2. \A i \in 1..t : R[i] \subseteq 1..n
    BY <1>3, <1>5
  <2> HIDE DEF R
  <2> QED
    BY <2>1, <2>2
<1>13. Len(maps) = t
  BY <1>3, <1>4
<1>14. Value!Merged(maps) = MapOf(metric, data, 1..n)
  <2> HIDE DEF R, maps
  <2>1. data \in Seq(ValueRow) /\ t \in Nat \ {0}
    BY <1>2, <1>3
  <2>2. MapsOf(maps, data, t, R, 1..n)
    BY <1>10, <1>11, <1>12, <1>13 DEF MapsOf
  <2> QED
    BY <2>1, <2>2, MapsMerged
<1> QED
  BY <1>1, <1>9, <1>14 DEF t, n

(* When all maps have arrived no goroutine sorts.                          *)
LEMMA ValueMergeStep ==
  ASSUME ValueInv, Value!Merge
  PROVE  ValueInv'
<1>1. /\ series' = MapOf(metric, data, 1..Len(data))
      /\ \A w \in 1..ValueThreads : workers[w].sort.at = "no"
  BY AllValues
<1>2. /\ pc = "work" /\ pc' = "idle" /\ metric \in ValueMetrics /\ ValueGoroutines
      /\ data \in Seq(ValueRow) /\ UNCHANGED <<metric, data, bucketList>>
  BY DEF ValueInv, ValueGoroutines, Value!Merge
<1>3. metric.histogram => ListKept'
  <2> SUFFICES ASSUME ListKept PROVE ListKept'
    BY DEF ValueInv
  <2>1. CASE Once(metric) /\ Ascending(metric) /\ bucketList = metric.buckets
    <3>1. Once(metric') /\ Ascending(metric') /\ bucketList' = metric'.buckets
      BY <1>2, <2>1
    <3> QED
      BY <1>2, <3>1 DEF ListKept, Once, Ascending
  <2>2. CASE metric.threads <= 1 /\ SortedBy(metric, bucketList, workers[1].sort)
    <3>1. ValueThreads = 1
      BY <1>2, <2>2, OneThread
    <3>2. Whole(metric, bucketList)
      BY <1>1, <2>2, <3>1 DEF SortedBy
    <3>3. Whole(metric', bucketList') /\ metric'.threads <= 1
      BY <1>2, <2>2, <3>2
    <3> QED
      BY <1>2, <3>3 DEF ListKept
  <2> QED
    BY <1>2, <2>1, <2>2 DEF ListKept
<1>4. series' = MapOf(metric', data', 1..Len(data'))
  BY <1>1, <1>2
<1> QED
  BY <1>2, <1>3, <1>4 DEF ValueInv

(* The values of all rows are what the documentation promises.             *)
LEMMA MapIsSequential ==
  ASSUME series = MapOf(metric, data, 1..Len(data)), data \in Seq(ValueRow)
  PROVE  Value!MergedIsSequential
<1> SUFFICES ASSUME NEW olv \in Olvs
             PROVE  /\ series[olv].cnt = Cardinality(Value!Values(olv))
                    /\ series[olv].sum = Value!SumOf(data, Value!Values(olv))
                    /\ metric.histogram => \A b \in ValueBounds(metric) :
                         series[olv].buckets[b] = Cardinality({i \in Value!Values(olv) : data[i].value <= b})
  BY ValueLibrary DEF Value!MergedIsSequential
<1>1. Value!Values(olv) = ValuesIn(data, 1..Len(data), olv)
  BY DEF Value!Values, Value!Usable, ValuesIn
<1>2. series[olv] = SeriesOf(metric, data, Value!Values(olv))
  BY <1>1 DEF MapOf
<1>3. \A b : UpTo(data, Value!Values(olv), b) = {i \in Value!Values(olv) : data[i].value <= b}
  BY DEF UpTo
<1>4. /\ series[olv].cnt = Cardinality(Value!Values(olv))
      /\ series[olv].sum = Value!SumOf(data, Value!Values(olv))
      /\ series[olv].buckets =
           [b \in ValueBounds(metric) |->
              IF metric.histogram THEN Cardinality(UpTo(data, Value!Values(olv), b)) ELSE 0]
  BY <1>2 DEF SeriesOf
<1>5. ASSUME metric.histogram, NEW b \in ValueBounds(metric)
      PROVE  series[olv].buckets[b] = Cardinality({i \in Value!Values(olv) : data[i].value <= b})
  <2>1. series[olv].buckets[b] = Cardinality(UpTo(data, Value!Values(olv), b))
    BY <1>4, <1>5
  <2> QED
    BY <1>3, <2>1
<1> QED
  BY <1>4, <1>5

(* The steps of a value metric's evaluation, one by one.                   *)
LEMMA ValueStep == ValueInv /\ [Value!Next]_Value!vars => ValueInv'
<1> SUFFICES ASSUME ValueInv, [Value!Next]_Value!vars PROVE ValueInv'
  OBVIOUS
<1>1. CASE Value!EvaluateNothing
  BY <1>1, ValueNothingStep
<1>2. CASE \E rows \in metric.answers : Value!StartWorkers(rows)
  BY <1>2, ValueStartStep
<1>3. CASE \E w \in DOMAIN workers : Value!SkipRow(w) \/ Value!CountRow(w) \/ Value!CreateHistogramMetricValue(w)
                                       \/ Value!Compare(w) \/ Value!Swap(w) \/ Value!Receive(w)
  BY <1>3, ValueSkipStep, CountRowStep, CreateStep, CompareStep, SwapStep, ValueReceiveStep
<1>4. CASE Value!Merge
  BY <1>4, ValueMergeStep
<1>5. CASE UNCHANGED Value!vars
  BY <1>5, ValueStutter
<1> QED
  BY <1>1, <1>2, <1>3, <1>4, <1>5 DEF Value!Next

(* The invariant holds in every evaluation.                                *)
LEMMA ValueHolds ==
  ASSUME BoundsInOrder
  PROVE  Value!Spec => []ValueInv
<1>1. Value!Init => ValueInv
  BY ValueInit
<1> QED
  BY <1>1, ValueStep, PTL DEF Value!Spec

(* Sum, count and buckets are those of all finite values of the answer, in *)
(* every interleaving and order of the maps (evaluatevalue.go), if no      *)
(* bound is configured twice, and if the bounds are configured in order or *)
(* one goroutine evaluates: goroutines that sort at the same time lose     *)
(* bounds.                                                                 *)
THEOREM ValuesAsSequential ==
  ASSUME BoundsInOrder
  PROVE  Value!Spec => []ValueMerged
<1>1. ValueInv => ValueMerged
  BY MapIsSequential DEF ValueInv, ValueMerged, Value!MergedIsSequential
<1> QED
  BY <1>1, ValueHolds, PTL

(* Under the same conditions the sorts leave a histogram's list of bounds  *)
(* complete: no bound is lost, and no bucket with it.                      *)
THEOREM HistogramKeepsBuckets ==
  ASSUME BoundsInOrder
  PROVE  Value!Spec => [](metric.histogram => Value!BucketsKept)
<1>1. ASSUME ValueInv, metric.histogram, pc = "idle"
      PROVE  {bucketList[k] : k \in DOMAIN bucketList} = ValueBounds(metric)
  <2>1. metric \in ValueMetrics /\ Whole(metric, bucketList)
    BY <1>1, ConfiguredWhole DEF ValueInv, ListKept
  <2>2. DOMAIN bucketList = 1..Len(metric.buckets)
    BY <2>1, WholeFact
  <2> QED
    BY <2>1, <2>2 DEF Whole
<1>2. ValueInv => (metric.histogram => Value!BucketsKept)
  BY <1>1, ValueLibrary DEF Value!BucketsKept, Value!Range
<1> QED
  BY <1>2, ValueHolds, PTL
=============================================================================

------------------------------- MODULE MCPush -------------------------------
(* What a push carries, for TLC: the metrics as the windows leave them in  *)
(* their collectors, or the conversion of a query's metrics beside the     *)
(* self metrics.                                                           *)
EXTENDS PushContents, TLC

CONSTANTS query, self

VARIABLE part     \* "series" or "samples"

-----------------------------------------------------------------------------
(* With times: only the series of the Go runtime have none.                *)
MCMetrics ==
  LET Metric(kind, inf, stamped) == [kind |-> kind, inf |-> inf, stamped |-> stamped]
  IN (query :> <<Metric("histogram", FALSE, TRUE), Metric("histogram", TRUE, TRUE)>>)
     @@ (self :> <<Metric("plain", FALSE, TRUE), Metric("summary", FALSE, FALSE)>>)

(* Counters and histograms have expected labels, and the histogram also a  *)
(* series that is refused; a gauge has neither.                            *)
MCDefinitions ==
  LET Number(n) == [nan |-> FALSE, n |-> n]
      Types == [type : {"counter", "histogram", "gauge"}, timestamps : BOOLEAN,
                labelled : BOOLEAN, refusing : BOOLEAN]
      Defined(t) ==
        [type |-> t.type, timestamps |-> t.timestamps, labelled |-> t.labelled,
         initValue |-> IF t.type = "counter" THEN Number(5) ELSE None,
         defaultValue |-> IF t.type = "gauge" THEN Number(-1) ELSE None,
         series |-> IF t.labelled THEN {"a", "b", "c"} ELSE {"a"},
         expected |-> IF t.labelled /\ t.type # "gauge" THEN {"a"} ELSE {},
         refused |-> IF t.refusing THEN {"c"} ELSE {}]
  IN {Defined(t) : t \in {u \in Types : u.refusing => u.labelled /\ u.type = "histogram"}}

samplesVars == <<now, timeMillis, push>>
seriesVars == <<metric, state, exported, answer, windows, upset, total>>
mcVars == <<part, samplesVars, seriesVars>>

(* No window is evaluated.                                                 *)
NoWindows ==
  /\ metric \in {d \in MCDefinitions : d.type = "gauge" /\ ~d.labelled /\ ~d.timestamps}
  /\ state = {} /\ exported = <<>> /\ answer = <<>>
  /\ windows = 0 /\ upset = FALSE /\ total = <<>>

MCInit ==
  \/ part = "samples" /\ Init /\ NoWindows
  \/ part = "series" /\ Init /\ C!Init

MCNext ==
  \/ part = "samples" /\ Next /\ UNCHANGED <<part, seriesVars>>
  \/ part = "series" /\ C!Next /\ UNCHANGED <<part, samplesVars>>

MCSpec == MCInit /\ [][MCNext]_mcVars
=============================================================================

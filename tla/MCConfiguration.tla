-------------------------- MODULE MCConfiguration --------------------------
(***************************************************************************)
(* The files of the configuration over several starts, or one start with   *)
(* the document that it reads, for TLC.                                    *)
(***************************************************************************)
EXTENDS Startup

CONSTANTS d1, d2, e1, e2     \* names of datasources and exports

(* Documents: each family varies one section over all its entries and the  *)
(* others over a few.                                                      *)

Entry(host, type, user) == [host |-> host, type |-> type, user |-> user]

GoodDatasource == Entry("good", "known", "absent")

DatasourceEntries ==
  {Empty} \cup {Entry(h, t, u) : h \in {"good", "bad"}, t \in {"known", "other"}, u \in {"absent", "config"}}

Export(strategy, consumer, host, port, timestamps) ==
  [strategy |-> strategy, consumer |-> consumer, host |-> host, port |-> port,
   timestamps |-> timestamps, user |-> "absent", timestampUser |-> "absent"]

GoodPush == Export("push", "known", "good", FALSE, "good")
GoodPull == Export("pull", "known", "bad", TRUE, "none")

ExportEntries ==
  {Empty}
  \cup {Export(s, c, h, FALSE, t) : s \in {"", "push"}, c \in {"known", "other"},
                                    h \in {"good", "bad"}, t \in {"none", "NONE", "good", "bad"}}
  \cup {Export("pull", "known", "bad", p, "none") : p \in BOOLEAN}
  \cup {Export("odd", "known", "good", TRUE, "none")}

(* Functions from some of the names to the entries.                        *)
Maps(names, entries) == UNION {[n -> entries] : n \in SUBSET names}

Document(datasources0, exports0, metrics, queries, api, files) ==
  [datasources |-> datasources0, exports |-> exports0, metrics |-> metrics,
   queries |-> queries, api |-> api, files |-> files]

OneDatasource == [d \in {d1} |-> GoodDatasource]

SomeExports == Maps({e1, e2}, {Empty, GoodPush, GoodPull})

MCDocuments ==
  {Document(d, x, "good", "good", "none", "readable") :
     d \in Maps({d1, d2}, DatasourceEntries), x \in SomeExports}
  \cup {Document(OneDatasource, x, "good", "good", "good", "readable") :
     x \in Maps({e1, e2}, ExportEntries)}
  \cup {Document(OneDatasource, x, m, q, a, f) :
     x \in SomeExports, m \in {"none", "good", "empty entry"}, q \in {"none", "good", "empty entry"},
     a \in {"none", "good", "old", "unreadable"}, f \in {"readable", "unreadable"}}

VARIABLE part     \* "files" or "document"

documentVars == <<doc, verdict, outcome, step, dsName, datasources, exports, left>>

(* An exporter that runs, and that nothing happens to.                     *)
NoStart ==
  /\ environment = (CHOOSE p \in Passwords : TRUE)
  /\ cfg = Bare /\ keyFile = NoKey /\ withKey = FALSE
  /\ pc = "running"
  /\ config = Bare /\ key = NoKey /\ isNew = FALSE
  /\ decrypted = NoPassword /\ taken = NoPassword /\ torn = FALSE
  /\ cuts = 0 /\ rotations = 0 /\ losses = 0

NoDocument ==
  /\ doc = Empty
  /\ verdict = "open" /\ outcome = "open" /\ step = "ended"
  /\ dsName = Empty /\ datasources = <<>> /\ exports = <<>> /\ left = {}

MCInit ==
  \/ part = "files" /\ Init /\ NoDocument
  \/ part = "document" /\ Read!Init /\ NoStart

MCNext ==
  \/ part = "files" /\ Next /\ UNCHANGED <<part, documentVars>>
  \/ part = "document" /\ Read!Next /\ UNCHANGED <<part, vars>>

MCSpec == MCInit /\ [][MCNext]_<<part, vars, documentVars>> /\ WF_vars(Start)
=============================================================================

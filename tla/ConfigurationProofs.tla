------------------------ MODULE ConfigurationProofs -------------------------
(***************************************************************************)
(* For any number of cuts, rotations and deployments: the key on disk fits *)
(* the configuration on disk, and an exporter that runs logs in with the   *)
(* password that a start last read as plain text, as long as nobody loses  *)
(* the key file.                                                           *)
(*                                                                         *)
(* None is inductive.  The files agree because of what the process holds   *)
(* in between: from the moment the key is made until the configuration is  *)
(* written, key and configuration in memory already agree (Memory), and a  *)
(* key is only made where no password is encrypted.                        *)
(*                                                                         *)
(* And what a start makes of the document (module Configuration) has what  *)
(* the environment adds, in whatever order it goes through its maps.       *)
(***************************************************************************)
EXTENDS Startup, FiniteSetTheorems, TLAPS

CryptSteps == {"key", "write key", "crypt", "truncate", "write config"}

Forms == [user : BOOLEAN, password : Passwords \cup {NoPassword},
          under : Keys \cup {NoKey}, text : {"whole", "part", "empty"}]

Types ==
  /\ cfg \in Forms
  /\ config \in Forms
  /\ key \in Keys \cup {NoKey}
  /\ losses \in Nat
  /\ withKey \in BOOLEAN
  /\ torn \in BOOLEAN
  /\ pc \in {"down", "plain", "running"} \cup CryptSteps
  /\ pc = "plain" => ~withKey
  /\ pc \in CryptSteps => withKey
  /\ ~withKey => cfg.under = NoKey

(* What the process holds before it writes.                                *)
Memory ==
  /\ pc \in {"crypt", "truncate", "write config"} => key \in Keys /\ (losses = 0 => keyFile = key)
  /\ pc = "write key" => key \in Keys /\ (losses = 0 => cfg.under = NoKey)
  /\ pc \in {"truncate", "write config"} => config.under = key
  /\ pc \in {"plain", "key", "write key", "crypt"} => config.under = NoKey \/ config = cfg

(* Every copy of the password is the one that was last read as plain text. *)
(* In a file without a user the next start does not look at it.            *)
Passed ==
  /\ cfg.under # NoKey /\ cfg.user => cfg.password = taken
  /\ pc # "down" => config.password = taken
  /\ pc \in {"truncate", "write config", "running"} /\ losses = 0 => decrypted = taken

(* The file is only lost between the two halves of its write, and what a   *)
(* start runs with is what the disk holds.                                 *)
Restartable ==
  /\ pc \in {"plain", "key", "write key", "crypt", "truncate", "running"} => cfg # Lost
  /\ ~torn /\ pc # "write config" => cfg.text = "whole"
  /\ ~torn /\ pc # "down" => config.text = "whole"
  /\ pc = "running" /\ withKey /\ losses = 0 => keyFile \in Keys

Inv == Types /\ Memory /\ Passed /\ Restartable /\ KeyFitsConfig

-----------------------------------------------------------------------------
(* The configurations with a name.                                         *)
LEMMA PartsFact ==
  /\ Lost \in Forms /\ Lost.under = NoKey /\ Lost.text = "empty"
  /\ Bare \in Forms /\ Bare.under = NoKey /\ Bare.text = "whole"
  /\ \A p \in Passwords : Plain(p) \in Forms /\ Plain(p).under = NoKey /\ Plain(p).text = "whole"
BY DEF Bare, Lost, Plain, Forms

(* What the operator deploys is whole and never encrypted.                 *)
LEMMA DeployedFact ==
  ASSUME NEW f \in Deployed
  PROVE  f \in Forms /\ f.under = NoKey /\ f.text = "whole"
BY PartsFact DEF Deployed

(* The copy that is encrypted, and the part of it that was written.        *)
LEMMA UnderFact ==
  ASSUME NEW f \in Forms, NEW k \in Keys
  PROVE  /\ [f EXCEPT !.under = k] \in Forms
         /\ [f EXCEPT !.under = k].under = k
         /\ [f EXCEPT !.under = k].password = f.password
         /\ [f EXCEPT !.under = k].text = f.text
BY DEF Forms

LEMMA PartFact ==
  ASSUME NEW f \in Forms
  PROVE  /\ [f EXCEPT !.text = "part"] \in Forms
         /\ [f EXCEPT !.text = "part"].under = f.under
         /\ [f EXCEPT !.text = "part"].password = f.password
BY DEF Forms

LEMMA InitInv == Init => Inv
<1> SUFFICES ASSUME Init PROVE Inv
  OBVIOUS
<1>1. cfg \in Forms /\ cfg.under = NoKey /\ cfg.text = "whole"
  BY DeployedFact DEF Init
<1> QED
  BY <1>1, PartsFact, NamesAssumption
     DEF Init, Inv, Types, Memory, Passed, Restartable, KeyFitsConfig, CryptSteps

(* The environment has a password or none: the only step that changes it   *)
(* takes another one.                                                      *)
EnvironmentType == environment \in Passwords \cup {NoPassword}

LEMMA EnrichedFact ==
  ASSUME cfg \in Forms, EnvironmentType
  PROVE  /\ Enriched \in Forms /\ Enriched.text = cfg.text
         /\ cfg.user => Enriched = cfg
         /\ ~cfg.user => Enriched.under = NoKey /\ Enriched.password = environment
BY DEF Enriched, Forms, EnvironmentType

LEMMA ReadConfigInv ==
  ASSUME Inv, EnvironmentType, ReadConfig
  PROVE  Inv'
<1>1. /\ cfg' = cfg /\ losses' = losses /\ keyFile' = keyFile /\ withKey' = withKey /\ torn' = torn
      /\ config' = Enriched
      /\ pc = "down"
      /\ pc' = IF withKey THEN "key" ELSE "plain"
      /\ key' = NoKey
      /\ cfg # Lost
  BY DEF ReadConfig, bounds
<1>2. cfg \in Forms
  BY DEF Inv, Types
<1>3. taken' = config'.password
  <2>1. taken' = CASE ~cfg.user -> environment
                   [] cfg.user /\ cfg.under = NoKey -> cfg.password
                   [] OTHER -> taken
    BY DEF ReadConfig
  <2>2. cfg.user \in BOOLEAN
    BY <1>2 DEF Forms
  <2>3. CASE ~cfg.user
    BY <1>1, <1>2, <2>1, <2>3, EnrichedFact
  <2>4. CASE cfg.user /\ cfg.under = NoKey
    BY <1>1, <1>2, <2>1, <2>4, EnrichedFact
  <2>5. CASE cfg.user /\ cfg.under # NoKey
    BY <1>1, <1>2, <2>1, <2>5, EnrichedFact DEF Inv, Passed
  <2> QED
    BY <2>2, <2>3, <2>4, <2>5
<1>4. cfg'.under # NoKey /\ cfg'.user => cfg'.password = taken'
  BY <1>1, <1>2, <1>3, EnrichedFact
<1>5. config' \in Forms /\ config'.text = cfg.text /\ (config'.under = NoKey \/ config' = cfg)
  BY <1>1, <1>2, EnrichedFact DEF Forms
<1>6. Types'
  BY <1>1, <1>5 DEF Inv, Types, CryptSteps
<1>7. Memory'
  BY <1>1, <1>5, <1>6 DEF Memory, Types
<1>8. Passed'
  BY <1>1, <1>3, <1>4, <1>6 DEF Passed, Types
<1>9. Restartable'
  BY <1>1, <1>5, <1>6 DEF Inv, Restartable, Types
<1> QED
  BY <1>1, <1>6, <1>7, <1>8, <1>9 DEF Inv, KeyFitsConfig

LEMMA SameFiles ==
  ASSUME Inv, UNCHANGED <<cfg, keyFile, withKey, pc, memory, observed, losses>>
  PROVE  Inv'
<1> USE DEF memory, observed
<1>1. Types'
  BY DEF Inv, Types
<1>2. Memory'
  BY DEF Inv, Memory
<1>3. Passed'
  BY DEF Inv, Passed
<1>4. Restartable'
  BY DEF Inv, Restartable
<1> QED
  BY <1>1, <1>2, <1>3, <1>4 DEF Inv, KeyFitsConfig

LEMMA StepInv ==
  ASSUME Inv, EnvironmentType, [Next]_vars
  PROVE  Inv' /\ EnvironmentType'
<1> USE DEF memory, observed, bounds
<1>0. EnvironmentType'
  BY DEF EnvironmentType, Next, Start, ReadConfig, TakePlain, ReadKey, ReadCutKey, CreateKey,
         WriteKey, Encrypt, RefuseFreshKey, Decrypt, TruncateConfig, WriteConfig, CutOff,
         CutConfigOff, CutKeyOff, Rotate, Deploy, LoseKey, vars
<1>1. CASE ReadConfig
  BY <1>0, <1>1, ReadConfigInv
<1>2. CASE TakePlain
  <2>1. config.under = NoKey
    BY <1>2 DEF TakePlain, Inv, Types, Memory
  <2> QED
    BY <1>0, <1>2, <2>1
       DEF TakePlain, Inv, Types, Memory, Passed, Restartable, KeyFitsConfig, CryptSteps
<1>3. CASE ReadKey
  <2>1. key' = keyFile /\ key' \in Keys
    BY <1>3 DEF ReadKey, KeyInFile
  <2> QED
    BY <1>0, <1>3, <2>1
       DEF ReadKey, Inv, Types, Memory, Passed, Restartable, KeyFitsConfig, CryptSteps
<1>4. CASE ReadCutKey
  BY <1>0, <1>4
     DEF ReadCutKey, Inv, Types, Memory, Passed, Restartable, KeyFitsConfig, CryptSteps
<1>5. CASE CreateKey
  <2>1. keyFile = NoKey /\ keyFile' = NoKey /\ key' \in Keys /\ NoKey \notin Keys
    BY <1>5, NamesAssumption DEF CreateKey, KeyInFile
  <2>2. losses = 0 => cfg.under = NoKey
    BY <2>1 DEF Inv, Types, Forms, KeyFitsConfig
  <2> QED
    BY <1>0, <1>5, <2>1, <2>2
       DEF CreateKey, Inv, Types, Memory, Passed, Restartable, KeyFitsConfig, CryptSteps
<1>6. CASE WriteKey
  <2>1. NoKey \notin Keys
    BY NamesAssumption
  <2> QED
    BY <1>0, <1>6, <2>1
       DEF WriteKey, Inv, Types, Memory, Passed, Restartable, KeyFitsConfig, CryptSteps
<1>7. CASE Encrypt
  <2>1. config \in Forms /\ key \in Keys
    BY <1>7 DEF Encrypt, Inv, Types, Memory
  <2>2. config' = [config EXCEPT !.under = key]
    BY <1>7 DEF Encrypt
  <2>3. config' \in Forms /\ config'.under = key /\ config'.password = config.password
        /\ config'.text = config.text
    BY <2>1, <2>2, UnderFact
  <2> QED
    BY <1>0, <1>7, <2>3
       DEF Encrypt, Inv, Types, Memory, Passed, Restartable, KeyFitsConfig, CryptSteps
<1>8. CASE RefuseFreshKey
  BY <1>0, <1>8
     DEF RefuseFreshKey, Inv, Types, Memory, Passed, Restartable, KeyFitsConfig, CryptSteps
<1>9. CASE Decrypt
  <2>1. losses = 0 => config.under = key
    BY <1>9 DEF Decrypt, Inv, Types, Forms, Memory, KeyFitsConfig
  <2>2. losses = 0 => decrypted' = taken
    BY <1>9, <2>1 DEF Decrypt, Decrypted, Inv, Passed
  <2> QED
    BY <1>0, <1>9, <2>2
       DEF Decrypt, Inv, Types, Memory, Passed, Restartable, KeyFitsConfig, CryptSteps
<1>10. CASE TruncateConfig
  BY <1>0, <1>10, PartsFact, NamesAssumption
     DEF TruncateConfig, Inv, Types, Memory, Passed, Restartable, KeyFitsConfig, CryptSteps
<1>11. CASE WriteConfig
  <2>1. config # Lost
    BY <1>11, PartsFact, NamesAssumption DEF WriteConfig, Inv, Memory
  <2> QED
    BY <1>0, <1>11, <2>1
       DEF WriteConfig, Inv, Types, Memory, Passed, Restartable, KeyFitsConfig, CryptSteps
<1>12. CASE CutOff
  BY <1>0, <1>12 DEF CutOff, Inv, Types, Memory, Passed, Restartable, KeyFitsConfig, CryptSteps
<1>13. CASE CutConfigOff
  <2>1. cfg' = [config EXCEPT !.text = "part"] /\ config \in Forms
    BY <1>13 DEF CutConfigOff, Inv, Types
  <2>2. cfg' \in Forms /\ cfg'.under = config.under /\ cfg'.password = config.password
    BY <2>1, PartFact
  <2> QED
    BY <1>0, <1>13, <2>2
       DEF CutConfigOff, Inv, Types, Memory, Passed, Restartable, KeyFitsConfig, CryptSteps
<1>14. CASE CutKeyOff
  BY <1>0, <1>14, NamesAssumption
     DEF CutKeyOff, Inv, Types, Memory, Passed, Restartable, KeyFitsConfig, CryptSteps
<1>15. CASE Rotate
  BY <1>0, <1>15, SameFiles DEF Rotate
<1>16. CASE Deploy
  <2>1. cfg' \in Forms /\ cfg'.under = NoKey /\ cfg'.text = "whole"
    BY <1>16, DeployedFact DEF Deploy
  <2> QED
    BY <1>0, <1>16, <2>1, NamesAssumption
       DEF Deploy, Inv, Types, Memory, Passed, Restartable, KeyFitsConfig, CryptSteps
<1>17. CASE LoseKey
  <2>1. losses' \in Nat /\ losses' # 0
    BY <1>17 DEF LoseKey, Inv, Types
  <2> QED
    BY <1>0, <1>17, <2>1
       DEF LoseKey, Inv, Types, Memory, Passed, Restartable, KeyFitsConfig, CryptSteps
<1>18. CASE UNCHANGED vars
  BY <1>0, <1>18, SameFiles DEF vars
<1> QED
  BY <1>1, <1>2, <1>3, <1>4, <1>5, <1>6, <1>7, <1>8, <1>9, <1>10, <1>11, <1>12, <1>13,
     <1>14, <1>15, <1>16, <1>17, <1>18 DEF Next, Start

LEMMA SpecInv == Spec => [](Inv /\ EnvironmentType)
<1>1. Init => Inv /\ EnvironmentType
  BY InitInv DEF Init, EnvironmentType
<1>2. (Inv /\ EnvironmentType) /\ [Next]_vars => (Inv /\ EnvironmentType)'
  BY StepInv
<1> QED
  BY <1>1, <1>2, PTL DEF Spec

(* At whatever step a start is cut off, an encrypted configuration on disk *)
(* goes with the key on disk (getOrCreateKey, writeConfigToFile).          *)
THEOREM KeyAlwaysFits == Spec => []KeyFitsConfig
<1>1. Inv /\ EnvironmentType => KeyFitsConfig
  BY DEF Inv
<1> QED
  BY <1>1, SpecInv, PTL

(* As long as the key file is not lost, a running exporter logs in with    *)
(* the password that a start last read as plain text (processCrypto).      *)
THEOREM AlwaysKeepsPassword == Spec => []KeepsPassword
<1>1. Inv /\ EnvironmentType => KeepsPassword
  BY DEF Inv, Passed, KeepsPassword
<1> QED
  BY <1>1, SpecInv, PTL

(* An exporter that runs left a configuration on disk that the next start  *)
(* can read, all of it unless an earlier write was cut off, and with it a  *)
(* whole key, as long as nobody loses the key file (writeConfigToFile is   *)
(* the last step before the exporter runs).                                *)
THEOREM AlwaysStartsAgain == Spec => []CanStartAgain
<1>1. Inv /\ EnvironmentType => CanStartAgain
  BY DEF Inv, Restartable, CanStartAgain
<1> QED
  BY <1>1, SpecInv, PTL

-----------------------------------------------------------------------------
(* One start, with the document it read.  The start goes through two Go    *)
(* maps in any order and gives their entries users, but changes nothing    *)
(* that the validation looks at (Kept), so that what -check-config said of *)
(* the document still holds at the end (Judged).                           *)

(* The operator on finite sets that the instance brings along.             *)
LEMMA ReadCardinality == \A S : Read!Cardinality(S) = Cardinality(S)
BY DEF Read!Cardinality, Cardinality

IsDatasource(x) == x = [host |-> x.host, type |-> x.type, user |-> x.user]

IsExport(x) ==
  x = [strategy |-> x.strategy, consumer |-> x.consumer, host |-> x.host, port |-> x.port,
       timestamps |-> x.timestamps, user |-> x.user, timestampUser |-> x.timestampUser]

IsMap(f) == f = [n \in DOMAIN f |-> f[n]]

(* What a document may be: finite maps of entries, some of them empty.     *)
Formed(d) ==
  /\ IsMap(d.datasources)
  /\ \A n \in DOMAIN d.datasources : d.datasources[n] = Empty \/ IsDatasource(d.datasources[n])
  /\ IsMap(d.exports) /\ \A n \in DOMAIN d.exports : d.exports[n] = Empty \/ IsExport(d.exports[n])
  /\ IsFiniteSet(DOMAIN d.datasources) /\ IsFiniteSet(DOMAIN d.exports)
  /\ d.metrics \in {"none", "good", "empty entry"} /\ d.queries \in {"none", "good", "empty entry"}

WellFormed ==
  /\ ~IsDatasource(Empty) /\ ~IsExport(Empty)
  /\ \A d \in Documents : Formed(d)

Steps == {"check", "check validate", "read", "datasource", "exports", "hidden", "tls", "ended"}

DocumentTypes ==
  /\ doc \in Documents /\ step \in Steps
  /\ IsMap(datasources) /\ DOMAIN datasources = DOMAIN doc.datasources
  /\ \A n \in DOMAIN datasources : datasources[n] = Empty \/ IsDatasource(datasources[n])
  /\ IsMap(exports) /\ DOMAIN exports = DOMAIN doc.exports
  /\ \A n \in DOMAIN exports : exports[n] = Empty \/ IsExport(exports[n])
  /\ outcome = "open" <=> step # "ended"

(* The environment changes users, and nothing the validation looks at.     *)
Kept ==
  /\ \A d \in DOMAIN doc.datasources :
       /\ datasources[d] = Empty <=> doc.datasources[d] = Empty
       /\ datasources[d].host = doc.datasources[d].host
       /\ datasources[d].type = doc.datasources[d].type
  /\ step \in {"check", "check validate", "read", "datasource", "exports"} =>
       \A e \in DOMAIN doc.exports :
         /\ exports[e] = Empty <=> doc.exports[e] = Empty
         /\ exports[e].strategy = doc.exports[e].strategy
         /\ exports[e].host = doc.exports[e].host
         /\ exports[e].port = doc.exports[e].port
         /\ exports[e].timestamps = doc.exports[e].timestamps

(* DsName names a datasource, if there is one.                             *)
Named ==
  step # "check" =>
    dsName \in DOMAIN doc.datasources \/ DOMAIN doc.datasources = {}

(* The check and the start look at the same things.                        *)
Judged ==
  /\ step \in {"read", "datasource", "exports"} => (verdict = "able" <=> ~Read!Blocked)
  /\ step \in {"hidden", "tls"} \/ outcome = "started" => verdict = "able"

(* The datasource that was looked at has its user.                         *)
FirstEnriched ==
  step \in {"exports", "hidden", "tls"} \/ outcome = "started" =>
    \/ DOMAIN doc.datasources = {}
    \/ \E d \in DOMAIN doc.datasources :
         datasources[d].type = "known" => datasources[d].user # "absent"

Reached(e) ==
  /\ exports[e].consumer = "known" => exports[e].user # "absent"
  /\ exports[e].timestamps # "none" => exports[e].timestampUser # "absent"

Pushes == {e \in DOMAIN doc.exports : doc.exports[e] # Empty /\ doc.exports[e].strategy = "push"}

(* All push exports are still to come, or one of them was the last one.    *)
PushEnriched ==
  /\ step = "datasource" => left = DOMAIN doc.exports
  /\ step = "exports" => left \subseteq DOMAIN doc.exports
  /\ step \in {"exports", "hidden", "tls"} \/ outcome = "started" =>
       \/ Pushes \subseteq left
       \/ left = {} /\ \E e \in Pushes : Reached(e)

DocumentPushes == {e \in DOMAIN doc.exports :
                     doc.exports[e] # Empty /\ doc.exports[e].strategy \in {"", "push"}}

(* What the validation found out.                                          *)
Shape ==
  /\ \E d \in DOMAIN doc.datasources :
       DOMAIN doc.datasources = {d} /\ dsName = d /\ doc.datasources[d] # Empty
  /\ Cardinality(DocumentPushes) <= 1
  /\ Cardinality(DOMAIN exports \ DocumentPushes) <= 1
  /\ Empty \notin {exports[e] : e \in DOMAIN exports}
  /\ \A e \in DOMAIN doc.exports : doc.exports[e] # Empty
  /\ doc.metrics # "none" /\ doc.queries # "none"
  /\ left = {}

Validly ==
  /\ step \in {"hidden", "tls"} \/ outcome = "started" => Shape
  /\ step = "tls" \/ outcome = "started" => {doc.metrics, doc.queries} = {"good"}

DocumentInv == DocumentTypes /\ Kept /\ Named /\ Judged /\ FirstEnriched /\ PushEnriched /\ Validly

LEMMA DocumentInitInv ==
  ASSUME WellFormed, Read!Init
  PROVE  DocumentInv
<1>1. /\ doc \in Documents /\ verdict = "open" /\ outcome = "open" /\ step = "check"
      /\ datasources = doc.datasources /\ exports = doc.exports
  BY DEF Read!Init
<1>2. Formed(doc)
  BY <1>1 DEF WellFormed
<1>3. DocumentTypes
  BY <1>1, <1>2 DEF DocumentTypes, Formed, Steps
<1>4. Kept /\ Named /\ Judged /\ FirstEnriched /\ PushEnriched /\ Validly
  BY <1>1 DEF Kept, Named, Judged, FirstEnriched, PushEnriched, Validly
<1> QED
  BY <1>3, <1>4 DEF DocumentInv

(* Errors depend on what the environment leaves alone.                     *)
LEMMA BlockedStays ==
  ASSUME doc' = doc, DOMAIN datasources' = DOMAIN datasources, DOMAIN exports' = DOMAIN exports,
         \A d \in DOMAIN datasources :
           /\ datasources'[d] = Empty <=> datasources[d] = Empty
           /\ datasources'[d].host = datasources[d].host,
         \A e \in DOMAIN exports :
           /\ exports'[e] = Empty <=> exports[e] = Empty
           /\ exports'[e].strategy = exports[e].strategy
           /\ exports'[e].host = exports[e].host
           /\ exports'[e].port = exports[e].port
           /\ exports'[e].timestamps = exports[e].timestamps
  PROVE  Read!Blocked' <=> Read!Blocked
<1>1. Read!Filled' = Read!Filled
  BY DEF Read!Filled
<1>2. \A e \in Read!Filled : Read!StrategyOf(e)' = Read!StrategyOf(e)
  BY DEF Read!StrategyOf, Read!Filled
<1>3. Read!Pushing' = Read!Pushing /\ Read!Pulling' = Read!Pulling
  BY <1>1, <1>2 DEF Read!Pushing, Read!Pulling
<1>4. Read!EntryErrors' <=> Read!EntryErrors
  <2>1. \A e \in Read!Filled : e \in DOMAIN exports
    BY DEF Read!Filled
  <2>2. Read!Pushing \subseteq Read!Filled /\ Read!Pulling \subseteq Read!Filled
    BY DEF Read!Pushing, Read!Pulling
  <2> QED
    BY <1>1, <1>2, <1>3, <2>1, <2>2 DEF Read!EntryErrors
<1>5. Read!ExportErrors' <=> Read!ExportErrors
  BY <1>3, <1>4, ReadCardinality DEF Read!ExportErrors
<1>6. Read!DatasourceErrors' <=> Read!DatasourceErrors
  BY ReadCardinality DEF Read!DatasourceErrors
<1>7. Read!SectionErrors' <=> Read!SectionErrors
  BY DEF Read!SectionErrors
<1> QED
  BY <1>5, <1>6, <1>7 DEF Read!Blocked

(* A document without errors has one datasource, and DsName names it.      *)
LEMMA OneDatasource ==
  ASSUME WellFormed, DocumentInv, step # "check", ~Read!Blocked
  PROVE  \E d \in DOMAIN doc.datasources :
           /\ DOMAIN doc.datasources = {d} /\ dsName = d
           /\ doc.datasources[d] # Empty /\ datasources[d] # Empty
<1>1. Formed(doc) /\ DOMAIN datasources = DOMAIN doc.datasources
  BY DEF DocumentInv, DocumentTypes, WellFormed
<1>2. ~Read!DatasourceErrors
  BY DEF Read!Blocked
<1>3. Cardinality(DOMAIN doc.datasources) = 1 /\ IsFiniteSet(DOMAIN doc.datasources)
  BY <1>1, <1>2, ReadCardinality DEF Read!DatasourceErrors, Formed
<1>4. PICK d : DOMAIN doc.datasources = {d}
  BY <1>3, FS_Singleton
<1>5. dsName = d
  BY <1>4 DEF DocumentInv, Named
<1>6. datasources[d] # Empty
  BY <1>1, <1>2, <1>4, ReadCardinality DEF Read!DatasourceErrors
<1>7. doc.datasources[d] # Empty
  BY <1>4, <1>6 DEF DocumentInv, Kept
<1> QED
  BY <1>4, <1>5, <1>6, <1>7

LEMMA AbleFact ==
  ASSUME WellFormed, DocumentInv, step # "check"
  PROVE  Read!Validated = "able" <=> ~Read!Blocked
<1>1. ~Read!Blocked => ~Read!ValidationPanics
  BY OneDatasource DEF Read!ValidationPanics, Read!Datasource, DocumentInv, DocumentTypes
<1> QED
  BY <1>1 DEF Read!Validated

-----------------------------------------------------------------------------
(* Reading a document.                                                     *)
LEMMA RereadFact ==
  ASSUME WellFormed, DocumentInv, Read!Reread, doc' = doc
  PROVE  /\ datasources' = doc.datasources /\ exports' = doc.exports
         /\ dsName' \in DOMAIN doc.datasources \/ DOMAIN doc.datasources = {}
         /\ Formed(doc)
BY DEF Read!Reread, Read!InitDSName, WellFormed, DocumentInv, DocumentTypes

LEMMA CheckStep ==
  ASSUME WellFormed, DocumentInv, Read!CheckRead \/ Read!CheckValidate \/ Read!ReadDocument
  PROVE  DocumentInv'
<1>1. CASE Read!CheckRead
  <2>1. /\ step = "check" /\ step' = "check validate" /\ Read!Reread
        /\ UNCHANGED <<doc, verdict, outcome, left>>
    BY <1>1 DEF Read!CheckRead
  <2>2. DocumentTypes' /\ Kept' /\ Named'
    BY <2>1, RereadFact DEF DocumentInv, DocumentTypes, Steps, Kept, Named, Formed
  <2>3. Judged' /\ FirstEnriched' /\ PushEnriched' /\ Validly'
    BY <2>1 DEF DocumentInv, DocumentTypes, Judged, FirstEnriched, PushEnriched, Validly
  <2> QED
    BY <2>2, <2>3 DEF DocumentInv
<1>2. CASE Read!CheckValidate
  <2>1. /\ step = "check validate" /\ step' = "read" /\ verdict' = Read!Validated
        /\ UNCHANGED <<doc, outcome, dsName, datasources, exports, left>>
    BY <1>2 DEF Read!CheckValidate, Read!read
  <2>2. DocumentTypes' /\ Kept' /\ Named'
    BY <2>1 DEF DocumentInv, DocumentTypes, Steps, Kept, Named
  <2>3. verdict' = "able" <=> ~Read!Blocked'
    BY <2>1, AbleFact, BlockedStays
  <2>4. Judged' /\ FirstEnriched' /\ PushEnriched' /\ Validly'
    BY <2>1, <2>3 DEF DocumentInv, DocumentTypes, Judged, FirstEnriched, PushEnriched, Validly
  <2> QED
    BY <2>2, <2>4 DEF DocumentInv
<1>3. CASE Read!ReadDocument
  <2>1. /\ step = "read" /\ Read!Reread /\ left' = DOMAIN doc.exports
        /\ step' \in {"datasource", "exports"}
        /\ step' = "exports" => DOMAIN doc.datasources = {}
        /\ UNCHANGED <<doc, verdict, outcome>>
    BY <1>3 DEF Read!ReadDocument
  <2>2. DocumentTypes' /\ Kept' /\ Named'
    BY <2>1, RereadFact DEF DocumentInv, DocumentTypes, Steps, Kept, Named, Formed
  <2>3. Read!Blocked' <=> Read!Blocked
    BY <2>1, RereadFact, BlockedStays DEF DocumentInv, DocumentTypes, Kept
  <2>4. Judged'
    BY <2>1, <2>3 DEF DocumentInv, DocumentTypes, Judged
  <2>5. FirstEnriched' /\ PushEnriched' /\ Validly'
    BY <2>1 DEF DocumentInv, DocumentTypes, FirstEnriched, PushEnriched, Validly, Pushes
  <2> QED
    BY <2>2, <2>4, <2>5 DEF DocumentInv
<1> QED
  BY <1>1, <1>2, <1>3

(* A start that ends without success has nothing to show.                  *)
LEMMA EndFact ==
  ASSUME DocumentInv, step \in {"datasource", "exports", "hidden", "tls"}, step' = "ended",
         outcome' \in {"panic", "refused"},
         UNCHANGED <<doc, verdict, dsName, datasources, exports>>
  PROVE  DocumentInv'
<1>1. DocumentTypes' /\ Kept' /\ Named'
  BY DEF DocumentInv, DocumentTypes, Steps, Kept, Named
<1>2. Judged' /\ FirstEnriched' /\ PushEnriched' /\ Validly'
  BY DEF Judged, FirstEnriched, PushEnriched, Validly
<1> QED
  BY <1>1, <1>2 DEF DocumentInv

LEMMA EnrichDatasourceStep ==
  ASSUME WellFormed, DocumentInv, Read!EnrichDatasource
  PROVE  DocumentInv'
<1>1. PICK d \in DOMAIN datasources :
        IF datasources[d] = Empty
        THEN Read!End("panic") /\ UNCHANGED datasources
        ELSE /\ datasources' = IF datasources[d].type = "known"
                               THEN [datasources EXCEPT ![d] = Read!WithUser(@)]
                               ELSE datasources
             /\ step' = "exports"
             /\ UNCHANGED outcome
  BY DEF Read!EnrichDatasource
<1>2. step = "datasource" /\ UNCHANGED <<doc, verdict, dsName, exports, left>>
  BY DEF Read!EnrichDatasource
<1>3. CASE datasources[d] = Empty
  BY <1>1, <1>2, <1>3, EndFact DEF Read!End
<1>4. CASE datasources[d] # Empty
  <2>1. /\ d \in DOMAIN doc.datasources /\ IsDatasource(datasources[d])
        /\ DOMAIN datasources = DOMAIN doc.datasources
    BY <1>4 DEF DocumentInv, DocumentTypes
  <2>2. /\ IsDatasource(Read!WithUser(datasources[d]))
        /\ Read!WithUser(datasources[d]).host = datasources[d].host
        /\ Read!WithUser(datasources[d]).type = datasources[d].type
        /\ Read!WithUser(datasources[d]).user # "absent"
    BY <2>1 DEF Read!WithUser, IsDatasource
  <2>3. /\ step' = "exports" /\ UNCHANGED outcome
        /\ DOMAIN datasources' = DOMAIN datasources
        /\ IsMap(datasources')
        /\ \A b \in DOMAIN datasources : b # d => datasources'[b] = datasources[b]
        /\ IsDatasource(datasources'[d])
        /\ datasources'[d].host = datasources[d].host
        /\ datasources'[d].type = datasources[d].type
        /\ datasources'[d].type = "known" => datasources'[d].user # "absent"
    <3>1. CASE datasources[d].type = "known"
      <4>1. datasources' = [datasources EXCEPT ![d] = Read!WithUser(datasources[d])]
        BY <1>1, <1>4, <3>1
      <4> QED
        BY <1>1, <1>4, <2>1, <2>2, <4>1 DEF DocumentInv, DocumentTypes, IsMap
    <3>2. CASE datasources[d].type # "known"
      BY <1>1, <1>4, <2>1, <3>2 DEF DocumentInv, DocumentTypes
    <3> QED
      BY <3>1, <3>2
  <2>4. \A b \in DOMAIN datasources :
          /\ datasources'[b] = Empty <=> datasources[b] = Empty
          /\ datasources'[b].host = datasources[b].host
          /\ datasources'[b].type = datasources[b].type
    BY <1>4, <2>3 DEF WellFormed
  <2>5. DocumentTypes' /\ Named'
    BY <1>2, <2>3 DEF DocumentInv, DocumentTypes, Steps, Named
  <2>6. Kept'
    BY <1>2, <2>1, <2>3, <2>4 DEF DocumentInv, Kept
  <2>7. Read!Blocked' <=> Read!Blocked
    BY <1>2, <2>3, <2>4, BlockedStays
  <2>8. Judged'
    BY <1>2, <2>3, <2>7 DEF DocumentInv, DocumentTypes, Judged
  <2>9. FirstEnriched'
    BY <1>2, <2>1, <2>3 DEF FirstEnriched
  <2>10. PushEnriched' /\ Validly'
    <3>1. Pushes' = Pushes /\ Pushes \subseteq left'
      BY <1>2 DEF DocumentInv, PushEnriched, Pushes
    <3> QED
      BY <1>2, <2>3, <3>1 DEF DocumentInv, DocumentTypes, PushEnriched, Validly
  <2> QED
    BY <2>5, <2>6, <2>8, <2>9, <2>10 DEF DocumentInv
<1> QED
  BY <1>3, <1>4

LEMMA EnrichExportStep ==
  ASSUME WellFormed, DocumentInv, Read!EnrichExport
  PROVE  DocumentInv'
<1>1. PICK e \in left :
        IF exports[e] = Empty
        THEN Read!End("panic") /\ UNCHANGED <<exports, left>>
        ELSE /\ exports' = IF exports[e].strategy = "push"
                           THEN [exports EXCEPT ![e] = Read!EnrichedExport(@)]
                           ELSE exports
             /\ left' = Read!LeftAfter(e)
             /\ UNCHANGED <<outcome, step>>
  BY DEF Read!EnrichExport
<1>2. step = "exports" /\ UNCHANGED <<doc, verdict, dsName, datasources>>
  BY DEF Read!EnrichExport
<1>3. CASE exports[e] = Empty
  BY <1>1, <1>2, <1>3, EndFact DEF Read!End
<1>4. CASE exports[e] # Empty /\ exports[e].strategy # "push"
  <2>1. /\ left' = left \ {e} /\ UNCHANGED <<exports, outcome, step>>
    BY <1>1, <1>4 DEF Read!LeftAfter
  <2>2. DocumentTypes' /\ Kept' /\ Named' /\ FirstEnriched'
    BY <1>2, <2>1 DEF DocumentInv, DocumentTypes, Kept, Named, FirstEnriched
  <2>3. Judged' /\ Validly'
    BY <1>2, <2>1, BlockedStays DEF DocumentInv, DocumentTypes, Judged, Validly
  <2>4. e \notin Pushes
    BY <1>2, <1>4 DEF DocumentInv, Kept, Pushes
  <2>5. PushEnriched'
    BY <1>2, <2>1, <2>4 DEF DocumentInv, PushEnriched, Pushes, Reached
  <2> QED
    BY <2>2, <2>3, <2>5 DEF DocumentInv
<1>5. CASE exports[e] # Empty /\ exports[e].strategy = "push"
  <2> DEFINE new == Read!EnrichedExport(exports[e])
  <2>1. e \in DOMAIN doc.exports
    BY <1>2 DEF DocumentInv, PushEnriched
  <2>2. IsExport(exports[e])
    BY <1>5, <2>1 DEF DocumentInv, DocumentTypes
  <2>3. /\ IsExport(new)
        /\ new.strategy = exports[e].strategy /\ new.host = exports[e].host
        /\ new.port = exports[e].port /\ new.timestamps = exports[e].timestamps
        /\ new.consumer = exports[e].consumer
        /\ new.consumer = "known" => new.user # "absent"
        /\ new.timestamps # "none" => new.timestampUser # "absent"
    BY <2>2 DEF Read!EnrichedExport, Read!WithUser, IsExport
  <2>4. /\ left' = {} /\ UNCHANGED <<outcome, step>> /\ exports' = [exports EXCEPT ![e] = new]
    BY <1>1, <1>5 DEF Read!LeftAfter
  <2> HIDE DEF new
  <2>5. /\ IsMap(exports')
        /\ DOMAIN exports' = DOMAIN exports /\ exports'[e] = new
        /\ \A b \in DOMAIN exports : b # e => exports'[b] = exports[b]
    BY <2>1, <2>3, <2>4 DEF DocumentInv, DocumentTypes, IsMap
  <2>6. \A b \in DOMAIN exports :
          /\ exports'[b] = Empty <=> exports[b] = Empty
          /\ exports'[b].strategy = exports[b].strategy
          /\ exports'[b].host = exports[b].host
          /\ exports'[b].port = exports[b].port
          /\ exports'[b].timestamps = exports[b].timestamps
    BY <1>5, <2>3, <2>5 DEF WellFormed
  <2>7. DocumentTypes' /\ Named' /\ FirstEnriched'
    <3>1. \A n \in DOMAIN exports' : exports'[n] = Empty \/ IsExport(exports'[n])
      BY <2>3, <2>5 DEF DocumentInv, DocumentTypes
    <3> QED
      BY <1>2, <2>4, <2>5, <3>1 DEF DocumentInv, DocumentTypes, Named, FirstEnriched
  <2>8. Kept'
    BY <1>2, <2>4, <2>5, <2>6 DEF DocumentInv, DocumentTypes, Kept
  <2>9. Read!Blocked' <=> Read!Blocked
    BY <1>2, <2>5, <2>6, BlockedStays
  <2>10. Judged' /\ Validly'
    BY <1>2, <2>4, <2>9 DEF DocumentInv, DocumentTypes, Judged, Validly
  <2>11. e \in Pushes
    BY <1>2, <1>5, <2>1 DEF DocumentInv, Kept, Pushes
  <2>12. PushEnriched'
    BY <1>2, <2>3, <2>4, <2>5, <2>11 DEF PushEnriched, Pushes, Reached
  <2> QED
    BY <2>7, <2>8, <2>10, <2>12 DEF DocumentInv
<1> QED
  BY <1>3, <1>4, <1>5

LEMMA AtMostOne ==
  ASSUME NEW S, IsFiniteSet(S), Cardinality(S) <= 1, NEW a \in S, NEW b \in S
  PROVE  a = b
<1>1. Cardinality(S) \in Nat /\ IsFiniteSet(S \ {a}) /\ Cardinality(S \ {a}) = Cardinality(S) - 1
  BY FS_CardinalityType, FS_RemoveElement
<1>2. Cardinality(S \ {a}) \in Nat
  BY <1>1, FS_CardinalityType
<1>3. Cardinality(S \ {a}) = 0
  BY <1>1, <1>2
<1>4. S \ {a} = {}
  BY <1>1, <1>3, FS_EmptySet
<1> QED
  BY <1>4

LEMMA ValidateStep ==
  ASSUME WellFormed, DocumentInv, Read!Validate
  PROVE  DocumentInv'
<1>1. step = "exports" /\ left = {} /\ UNCHANGED <<doc, verdict, dsName, datasources, left>>
  BY DEF Read!Validate
<1>2. CASE Read!Validated # "able"
  <2>1. Read!Validated \in {"panic", "refused"}
    BY <1>2 DEF Read!Validated
  <2> QED
    BY <1>1, <1>2, <2>1, EndFact DEF Read!Validate, Read!End
<1>3. CASE Read!Validated = "able"
  <2>1. /\ step' = "hidden" /\ UNCHANGED outcome
        /\ exports' = [e \in DOMAIN exports |-> [exports[e] EXCEPT !.strategy = Read!StrategyOf(e)]]
    BY <1>3 DEF Read!Validate
  <2>2. ~Read!Blocked
    BY <1>1, <1>3, AbleFact
  <2>3. /\ ~Read!EntryErrors /\ ~(Cardinality(Read!Pulling) > 1) /\ ~(Cardinality(Read!Pushing) > 1)
        /\ doc.metrics # "none" /\ doc.queries # "none"
    BY <2>2, ReadCardinality DEF Read!Blocked, Read!ExportErrors, Read!SectionErrors
  <2>4. /\ DOMAIN exports = DOMAIN doc.exports
        /\ \A e \in DOMAIN exports : IsExport(exports[e]) /\ exports[e] # Empty
        /\ \A e \in DOMAIN exports : Read!StrategyOf(e) \in {"push", "pull"}
    BY <2>3 DEF Read!EntryErrors, Read!Filled, DocumentInv, DocumentTypes
  <2>5. \A e \in DOMAIN exports :
          /\ IsExport(exports'[e])
          /\ exports'[e].consumer = exports[e].consumer /\ exports'[e].user = exports[e].user
          /\ exports'[e].timestamps = exports[e].timestamps
          /\ exports'[e].timestampUser = exports[e].timestampUser
    <3> SUFFICES ASSUME NEW e \in DOMAIN exports
                 PROVE  /\ IsExport(exports'[e])
                        /\ exports'[e].consumer = exports[e].consumer
                        /\ exports'[e].user = exports[e].user
                        /\ exports'[e].timestamps = exports[e].timestamps
                        /\ exports'[e].timestampUser = exports[e].timestampUser
      OBVIOUS
    <3>1. exports'[e] = [exports[e] EXCEPT !.strategy = Read!StrategyOf(e)]
      BY <2>1
    <3>2. IsExport(exports[e])
      BY <2>4
    <3> QED
      BY <3>1, <3>2 DEF IsExport
  <2>6. /\ DOMAIN exports' = DOMAIN exports
        /\ IsMap(exports')
    BY <2>1, <2>4, <2>5 DEF IsMap
  <2>7. DocumentTypes' /\ Named' /\ FirstEnriched'
    <3>1. \A n \in DOMAIN exports' : IsExport(exports'[n])
      BY <2>5, <2>6
    <3> QED
      BY <1>1, <2>1, <2>6, <3>1 DEF DocumentInv, DocumentTypes, Steps, Named, FirstEnriched
  <2>8. Kept'
    BY <1>1, <2>1 DEF DocumentInv, Kept
  <2>9. Judged'
    BY <1>1, <2>1, <2>2 DEF DocumentInv, DocumentTypes, Judged
  <2>10. PushEnriched'
    <3>1. Pushes' = Pushes /\ Pushes \subseteq DOMAIN exports
      BY <1>1, <2>4 DEF Pushes
    <3>2. \A e \in Pushes : Reached(e) => Reached(e)'
      BY <2>5, <3>1 DEF Reached
    <3> QED
      BY <1>1, <2>1, <3>1, <3>2 DEF DocumentInv, PushEnriched
  <2>11. \A e \in DOMAIN exports : doc.exports[e] # Empty /\ exports[e].strategy = doc.exports[e].strategy
    BY <1>1, <2>4 DEF DocumentInv, Kept
  <2>12. DocumentPushes = Read!Pushing
    BY <2>4, <2>11 DEF DocumentPushes, Read!Pushing, Read!Filled, Read!StrategyOf
  <2>13. DOMAIN exports \ DocumentPushes = Read!Pulling
    BY <2>4, <2>12 DEF Read!Pushing, Read!Pulling, Read!Filled
  <2>14. /\ IsFiniteSet(Read!Pushing) /\ IsFiniteSet(Read!Pulling)
    <3>1. IsFiniteSet(DOMAIN exports)
      BY <2>4 DEF DocumentInv, DocumentTypes, WellFormed, Formed
    <3>2. Read!Pushing \subseteq DOMAIN exports /\ Read!Pulling \subseteq DOMAIN exports
      BY DEF Read!Pushing, Read!Pulling, Read!Filled
    <3> QED
      BY <3>1, <3>2, FS_Subset
  <2>15. Cardinality(Read!Pushing) <= 1 /\ Cardinality(Read!Pulling) <= 1
    BY <2>3, <2>14, FS_CardinalityType
  <2>16. Empty \notin {exports'[e] : e \in DOMAIN exports'}
    BY <2>5, <2>6 DEF WellFormed
  <2>17. Shape'
    BY <1>1, <2>1, <2>2, <2>3, <2>4, <2>6, <2>11, <2>12, <2>13, <2>15, <2>16, OneDatasource
       DEF Shape, DocumentPushes
  <2>18. Validly'
    BY <1>1, <2>1, <2>17 DEF DocumentInv, DocumentTypes, Validly
  <2> QED
    BY <2>7, <2>8, <2>9, <2>10, <2>18 DEF DocumentInv
<1> QED
  BY <1>2, <1>3

LEMMA LastSteps ==
  ASSUME WellFormed, DocumentInv, Read!ProcessHiddenFields \/ Read!ProcessTls
  PROVE  DocumentInv'
<1>1. CASE Read!ProcessHiddenFields /\ "empty entry" \in {doc.metrics, doc.queries}
  BY <1>1, EndFact DEF Read!ProcessHiddenFields, Read!End, Read!read
<1>2. CASE Read!ProcessHiddenFields /\ "empty entry" \notin {doc.metrics, doc.queries}
  <2>1. /\ step = "hidden" /\ step' = "tls"
        /\ UNCHANGED <<doc, verdict, dsName, datasources, exports, left, outcome>>
    BY <1>2 DEF Read!ProcessHiddenFields, Read!read
  <2>2. DocumentTypes' /\ Kept' /\ Named' /\ Judged' /\ FirstEnriched'
    BY <2>1 DEF DocumentInv, DocumentTypes, Steps, Kept, Named, Judged, FirstEnriched
  <2>3. PushEnriched'
    BY <2>1 DEF DocumentInv, PushEnriched, Pushes, Reached
  <2>4. Shape /\ Formed(doc)
    BY <2>1 DEF DocumentInv, Validly, DocumentTypes, WellFormed
  <2>5. {doc.metrics, doc.queries} = {"good"}
    BY <1>2, <2>4 DEF Shape, Formed
  <2>6. Shape'
    BY <2>1, <2>4 DEF Shape, DocumentPushes
  <2>7. Validly'
    BY <2>1, <2>5, <2>6 DEF Validly
  <2> QED
    BY <2>2, <2>3, <2>7 DEF DocumentInv
<1>3. CASE Read!ProcessTls /\ doc.files = "unreadable"
  BY <1>3, EndFact DEF Read!ProcessTls, Read!End
<1>4. CASE Read!ProcessTls /\ doc.files # "unreadable"
  <2>1. /\ step = "tls" /\ step' = "ended" /\ outcome' = "started"
        /\ exports' = [e \in DOMAIN exports |->
             [exports[e] EXCEPT !.timestamps = IF @ = "NONE" THEN "none" ELSE @]]
        /\ UNCHANGED <<doc, verdict, dsName, datasources, left>>
    BY <1>4 DEF Read!ProcessTls, Read!End
  <2>2. Shape /\ {doc.metrics, doc.queries} = {"good"}
    BY <2>1 DEF DocumentInv, Validly
  <2>3. \A e \in DOMAIN exports : IsExport(exports[e])
    BY <2>2 DEF Shape, DocumentInv, DocumentTypes
  <2>4. \A e \in DOMAIN exports :
          /\ IsExport(exports'[e])
          /\ exports'[e].consumer = exports[e].consumer /\ exports'[e].user = exports[e].user
          /\ exports'[e].timestampUser = exports[e].timestampUser
          /\ exports'[e].timestamps # "none" => exports[e].timestamps # "none"
    <3> SUFFICES ASSUME NEW e \in DOMAIN exports
                 PROVE  /\ IsExport(exports'[e])
                        /\ exports'[e].consumer = exports[e].consumer
                        /\ exports'[e].user = exports[e].user
                        /\ exports'[e].timestampUser = exports[e].timestampUser
                        /\ exports'[e].timestamps # "none" => exports[e].timestamps # "none"
      OBVIOUS
    <3>1. exports'[e] = [exports[e] EXCEPT !.timestamps = IF @ = "NONE" THEN "none" ELSE @]
      BY <2>1
    <3>2. IsExport(exports[e])
      BY <2>3
    <3> QED
      BY <3>1, <3>2 DEF IsExport
  <2>5. DOMAIN exports' = DOMAIN exports /\ IsMap(exports')
    BY <2>1 DEF IsMap
  <2>6. DocumentTypes'
    BY <2>1, <2>4, <2>5 DEF DocumentInv, DocumentTypes, Steps
  <2>7. Kept' /\ Named' /\ Judged' /\ FirstEnriched'
    BY <2>1 DEF DocumentInv, Kept, Named, Judged, FirstEnriched
  <2>8. PushEnriched'
    <3>1. Pushes' = Pushes /\ Pushes \subseteq DOMAIN exports
      BY <2>1 DEF Pushes, DocumentInv, DocumentTypes
    <3>2. \A e \in Pushes : Reached(e) => Reached(e)'
      BY <2>4, <3>1 DEF Reached
    <3> QED
      BY <2>1, <3>1, <3>2 DEF DocumentInv, PushEnriched
  <2>9. Shape'
    <3>1. Empty \notin {exports'[e] : e \in DOMAIN exports'}
      BY <2>4, <2>5 DEF WellFormed
    <3> QED
      BY <2>1, <2>2, <2>5, <3>1 DEF Shape, DocumentPushes
  <2>10. Validly'
    BY <2>1, <2>2, <2>9 DEF Validly
  <2> QED
    BY <2>6, <2>7, <2>8, <2>10 DEF DocumentInv
<1> QED
  BY <1>1, <1>2, <1>3, <1>4

LEMMA DocumentStepInv == WellFormed /\ DocumentInv /\ [Read!Next]_Read!vars => DocumentInv'
<1> SUFFICES ASSUME WellFormed, DocumentInv, [Read!Next]_Read!vars PROVE DocumentInv'
  OBVIOUS
<1>1. CASE UNCHANGED Read!vars
  <2>1. UNCHANGED <<doc, verdict, outcome, step, dsName, datasources, exports, left>>
    BY <1>1 DEF Read!vars, Read!read
  <2>2. DocumentTypes' /\ Kept' /\ Named' /\ FirstEnriched'
    BY <2>1 DEF DocumentInv, DocumentTypes, Kept, Named, FirstEnriched
  <2>3. Judged'
    BY <2>1, BlockedStays DEF DocumentInv, Judged
  <2>4. PushEnriched' /\ Validly'
    BY <2>1 DEF DocumentInv, PushEnriched, Pushes, Reached, Validly, Shape, DocumentPushes
  <2> QED
    BY <2>2, <2>3, <2>4 DEF DocumentInv
<1> QED
  BY <1>1, CheckStep, EnrichDatasourceStep, EnrichExportStep, ValidateStep, LastSteps
     DEF Read!Next

(* There is one push export, so that the one that was looked at last is    *)
(* the one that has to be completed.                                       *)
LEMMA CompletedFact ==
  ASSUME WellFormed, DocumentInv
  PROVE  StartedIsCompleted
<1> SUFFICES ASSUME outcome = "started" PROVE StartedIsCompleted
  BY DEF StartedIsCompleted, Read!EnvironmentReaches, Read!StartedWasAble
<1>1. Shape
  BY DEF DocumentInv, Validly
<1>3. \A d \in DOMAIN datasources : datasources[d].type = "known" => datasources[d].user # "absent"
  BY <1>1 DEF Shape, DocumentInv, DocumentTypes, FirstEnriched
<1>4. ASSUME NEW e \in DOMAIN exports, doc.exports[e].strategy = "push"
      PROVE  Reached(e)
  <2>1. e \in Pushes /\ Pushes \subseteq DocumentPushes /\ DOMAIN exports = DOMAIN doc.exports
    BY <1>1, <1>4 DEF DocumentInv, DocumentTypes, Shape, Pushes, DocumentPushes
  <2>2. PICK b \in Pushes : Reached(b)
    BY <1>1, <2>1 DEF DocumentInv, PushEnriched, Shape
  <2>3. IsFiniteSet(DocumentPushes)
    <3>1. IsFiniteSet(DOMAIN doc.exports) /\ DocumentPushes \subseteq DOMAIN doc.exports
      BY DEF DocumentInv, DocumentTypes, WellFormed, Formed, DocumentPushes
    <3> QED
      BY <3>1, FS_Subset
  <2>4. e = b
    BY <1>1, <2>1, <2>3, AtMostOne DEF Shape
  <2> QED
    BY <2>2, <2>4
<1>5. Read!EnvironmentReaches
  BY <1>3, <1>4 DEF Read!EnvironmentReaches, Reached
<1>6. Read!StartedWasAble
  BY DEF DocumentInv, Judged, Read!StartedWasAble
<1> QED
  BY <1>5, <1>6 DEF StartedIsCompleted

(* Whatever the document and the order of its maps: in a start that        *)
(* succeeds neither the datasource nor the export that is written as push  *)
(* was passed over by the environment, and the check called the document   *)
(* able before (config.go, validator.go).                                  *)
THEOREM StartsAreCompleted == WellFormed => (Read!Spec => []StartedIsCompleted)
<1> SUFFICES ASSUME WellFormed PROVE Read!Spec => []StartedIsCompleted
  OBVIOUS
<1>1. Read!Init => DocumentInv
  BY DocumentInitInv
<1>2. DocumentInv /\ [Read!Next]_Read!vars => DocumentInv'
  BY DocumentStepInv
<1>3. DocumentInv => StartedIsCompleted
  BY CompletedFact
<1> QED
  BY <1>1, <1>2, <1>3, PTL DEF Read!Spec
=============================================================================

----------------------------- MODULE ConfigFile -----------------------------
(***************************************************************************)
(* The two files a start of the exporter writes: the key, and the          *)
(* configuration with the encrypted password of the datasource.  A start   *)
(* reads the configuration, completes it from the environment, reads or    *)
(* makes the key, and writes the configuration back if it encrypted the    *)
(* password.  It may be cut off between any two steps, every step that     *)
(* writes may fail, and the next start begins with the files as they are.  *)
(*                                                                         *)
(* The operator may rotate the password in the environment or take it      *)
(* away, deploy the configuration again, and the volume with the key may   *)
(* be lost.                                                                *)
(***************************************************************************)
EXTENDS Naturals, FiniteSets

CONSTANTS
  Passwords,       \* passwords of the datasource
  Keys,            \* keys that a start may make
  NoPassword,      \* the empty password, and an environment without a user
  NoKey,           \* no key file, or an empty one
  CutKey,          \* a key file that was cut off while it was written
  Deployments,     \* forms the operator deploys: "bare" (without a user) or "plain"
  MaxCuts,         \* bound: starts and runs that are cut off, or fail to write
  MaxRotations,    \* bound: rotations and deployments
  MaxKeyLosses     \* bound: times the key file is lost

ASSUME NamesAssumption ==
  /\ NoKey \notin Keys /\ CutKey \notin Keys
  /\ NoPassword \notin Passwords

ASSUME BoundsAssumption ==
  /\ Cardinality(Keys) >= 3     \* a key is never made twice
  /\ Deployments \subseteq {"bare", "plain"}

VARIABLES
  environment,  \* password in the environment
  cfg,          \* the configuration file
  keyFile,      \* the key file
  withKey,      \* the exporter is started with -key-path
  pc,           \* step of the start; "down" without a process, "running" after it
  config,       \* configuration in memory
  key,          \* key in memory
  isNew,        \* this start made the key
  decrypted,    \* password the exporter logs in with
  taken,        \* observed: the password that a start last read as plain text
  torn,         \* observed: the last write of the configuration was cut off
  cuts, rotations, losses

memory == <<config, key, isNew, decrypted>>
observed == <<taken, torn>>
bounds == <<cuts, rotations, losses>>
vars == <<environment, cfg, keyFile, withKey, pc, memory, observed, bounds>>

(* A configuration: the datasource has a user or not, its password is      *)
(* plain (under NoKey) or encrypted under a key, and of the file there is  *)
(* the whole text, a part that can still be parsed, or nothing of use.     *)
Bare == [user |-> FALSE, password |-> NoPassword, under |-> NoKey, text |-> "whole"]
Plain(p) == [user |-> TRUE, password |-> p, under |-> NoKey, text |-> "whole"]
Lost == [user |-> FALSE, password |-> NoPassword, under |-> NoKey, text |-> "empty"]

Deployed == (IF "bare" \in Deployments THEN {Bare} ELSE {})
            \cup (IF "plain" \in Deployments THEN {Plain(p) : p \in Passwords} ELSE {})

Init ==
  /\ environment \in Passwords \cup {NoPassword}
  /\ cfg \in Deployed
  /\ keyFile = NoKey
  /\ withKey \in BOOLEAN
  /\ pc = "down"
  /\ config = Lost
  /\ key = NoKey
  /\ isNew = FALSE
  /\ decrypted = NoPassword
  /\ taken = NoPassword
  /\ torn = FALSE
  /\ cuts = 0 /\ rotations = 0 /\ losses = 0

-----------------------------------------------------------------------------
(* Where the file has no user, user and password are those of the          *)
(* environment, whatever password the file has.                            *)
Enriched ==
  IF cfg.user THEN cfg
  ELSE [cfg EXCEPT !.user = environment # NoPassword, !.password = environment, !.under = NoKey]

(* Read.  An empty file has no datasource, which the validation of the     *)
(* queries does not survive, and a file that ends before its queries is    *)
(* refused by it: such a start ends at once.                               *)
ReadConfig ==
  /\ pc = "down"
  /\ cfg # Lost
  /\ config' = Enriched
  /\ taken' = CASE ~cfg.user -> environment
                [] cfg.user /\ cfg.under = NoKey -> cfg.password
                [] OTHER -> taken
  /\ pc' = IF withKey THEN "key" ELSE "plain"
  /\ key' = NoKey /\ isNew' = FALSE /\ decrypted' = NoPassword
  /\ UNCHANGED <<environment, cfg, keyFile, withKey, torn, bounds>>

(* Without a key path the password is taken as it stands.                  *)
TakePlain ==
  /\ pc = "plain"
  /\ decrypted' = IF config.under = NoKey THEN config.password ELSE NoPassword
  /\ pc' = "running"
  /\ UNCHANGED <<environment, cfg, keyFile, withKey, config, key, isNew, observed, bounds>>

(* Mutant: a key file that exists is not used.                             *)
NeverAKey == NoKey

KeyInFile == keyFile

(* getOrCreateKey: a key file that is not empty is the key.                *)
ReadKey ==
  /\ pc = "key"
  /\ KeyInFile \in Keys
  /\ key' = KeyInFile
  /\ pc' = "crypt"
  /\ UNCHANGED <<environment, cfg, keyFile, withKey, config, isNew, decrypted, observed, bounds>>

(* What was cut off is no base64 text, or no key of the right length.      *)
ReadCutKey ==
  /\ pc = "key"
  /\ KeyInFile = CutKey
  /\ pc' = "down"
  /\ UNCHANGED <<environment, cfg, keyFile, withKey, memory, observed, bounds>>

UsedKeys == {cfg.under, keyFile, key}

(* The file is created, which empties it, before the key is written.       *)
CreateKey ==
  /\ pc = "key"
  /\ KeyInFile = NoKey
  /\ \E k \in Keys \ UsedKeys : key' = k
  /\ isNew' = TRUE
  /\ keyFile' = NoKey
  /\ pc' = "write key"
  /\ UNCHANGED <<environment, cfg, withKey, config, decrypted, observed, bounds>>

WriteKey ==
  /\ pc = "write key"
  /\ keyFile' = key
  /\ pc' = "crypt"
  /\ UNCHANGED <<environment, cfg, withKey, memory, observed, bounds>>

(* Mutant: the password is encrypted before it is copied.                  *)
EncryptFirst ==
  /\ pc = "crypt"
  /\ config.under = NoKey
  /\ config' = [config EXCEPT !.under = key]
  /\ decrypted' = IF config'.under = NoKey THEN config'.password ELSE NoPassword
  /\ pc' = "truncate"
  /\ UNCHANGED <<environment, cfg, keyFile, withKey, key, isNew, observed, bounds>>

(* A password that is not encrypted, the empty one too, is encrypted, and  *)
(* the file is to be written.                                              *)
Encrypt ==
  /\ pc = "crypt"
  /\ config.under = NoKey
  /\ decrypted' = config.password
  /\ config' = [config EXCEPT !.under = key]
  /\ pc' = "truncate"
  /\ UNCHANGED <<environment, cfg, keyFile, withKey, key, isNew, observed, bounds>>

(* A fresh key cannot decrypt anything.                                    *)
RefuseFreshKey ==
  /\ pc = "crypt"
  /\ config.under # NoKey
  /\ isNew
  /\ pc' = "down"
  /\ UNCHANGED <<environment, cfg, keyFile, withKey, memory, observed, bounds>>

(* Another key gives an error, which is logged, and no password.           *)
Decrypted == IF config.under = key THEN config.password ELSE NoPassword

Decrypt ==
  /\ pc = "crypt"
  /\ config.under # NoKey
  /\ ~isNew
  /\ decrypted' = Decrypted
  /\ pc' = "running"
  /\ UNCHANGED <<environment, cfg, keyFile, withKey, config, key, isNew, observed, bounds>>

(* writeConfigToFile                                                       *)
TruncateConfig ==
  /\ pc = "truncate"
  /\ cfg' = Lost
  /\ pc' = "write config"
  /\ UNCHANGED <<environment, keyFile, withKey, memory, observed, bounds>>

(* Mutant: an error of the write is not looked at.                         *)
FailedWriteGoesOn ==
  /\ pc = "write config"
  /\ cfg' \in {config, cfg}
  /\ pc' = "running"
  /\ UNCHANGED <<environment, keyFile, withKey, memory, observed, bounds>>

WriteConfig ==
  /\ pc = "write config"
  /\ cfg' = config
  /\ pc' = "running"
  /\ UNCHANGED <<environment, keyFile, withKey, memory, observed, bounds>>

-----------------------------------------------------------------------------
(* The process is cut off, or an operation on a file fails, which ends the *)
(* start: both leave the files as they are.                                *)
CutOff ==
  /\ pc # "down"
  /\ cuts < MaxCuts
  /\ cuts' = cuts + 1
  /\ pc' = "down"
  /\ torn' = (torn \/ pc = "write config")
  /\ UNCHANGED <<environment, cfg, keyFile, withKey, memory, taken, rotations, losses>>

(* Cut off within the write of the configuration.  The queries are written *)
(* after the datasource and the metrics: what is there may end among the   *)
(* queries and is then a configuration with some of them.                  *)
CutConfigOff ==
  /\ pc = "write config"
  /\ cuts < MaxCuts
  /\ cuts' = cuts + 1
  /\ cfg' = [config EXCEPT !.text = "part"]
  /\ pc' = "down"
  /\ torn' = TRUE
  /\ UNCHANGED <<environment, keyFile, withKey, memory, taken, rotations, losses>>

(* Cut off within the write of the key.                                    *)
CutKeyOff ==
  /\ pc = "write key"
  /\ cuts < MaxCuts
  /\ cuts' = cuts + 1
  /\ keyFile' = CutKey
  /\ pc' = "down"
  /\ UNCHANGED <<environment, cfg, withKey, memory, observed, rotations, losses>>

Rotate ==
  /\ rotations < MaxRotations
  /\ rotations' = rotations + 1
  /\ environment' \in (Passwords \cup {NoPassword}) \ {environment}
  /\ UNCHANGED <<cfg, keyFile, withKey, pc, memory, observed, cuts, losses>>

(* The operator writes the configuration again and removes a broken key.   *)
Deploy ==
  /\ pc = "down"
  /\ rotations < MaxRotations
  /\ rotations' = rotations + 1
  /\ cfg' \in Deployed
  /\ keyFile' = IF keyFile = CutKey THEN NoKey ELSE keyFile
  /\ torn' = FALSE
  /\ UNCHANGED <<environment, withKey, pc, memory, taken, cuts, losses>>

LoseKey ==
  /\ pc = "down"
  /\ losses < MaxKeyLosses
  /\ losses' = losses + 1
  /\ keyFile' = NoKey
  /\ UNCHANGED <<environment, cfg, withKey, pc, memory, observed, cuts, rotations>>

Start ==
  \/ ReadConfig \/ TakePlain
  \/ ReadKey \/ ReadCutKey \/ CreateKey \/ WriteKey
  \/ Encrypt \/ RefuseFreshKey \/ Decrypt
  \/ TruncateConfig \/ WriteConfig

Next == Start \/ CutOff \/ CutConfigOff \/ CutKeyOff \/ Rotate \/ Deploy \/ LoseKey

(* The container is started again whenever it ended.                       *)
Spec == Init /\ [][Next]_vars /\ WF_vars(Start)

-----------------------------------------------------------------------------
(* An encrypted password on disk can be decrypted with the key on disk, at *)
(* whatever step the process is cut off, as long as nobody loses the key   *)
(* (getOrCreateKey before writeConfigToFile).                              *)
KeyFitsConfig ==
  losses = 0 /\ cfg.under \in Keys => keyFile = cfg.under

(* The exporter runs only with a configuration on disk that it can be      *)
(* started with again, and all of it unless an earlier start was cut off   *)
(* while it wrote the file: a restart needs no operator.                   *)
CanStartAgain ==
  pc = "running" =>
    /\ cfg # Lost
    /\ ~torn => cfg.text = "whole"
    /\ withKey /\ losses = 0 => keyFile \in Keys

(* An exporter that runs logs in with the password that a start last read  *)
(* as plain text, in the environment where the file had no user and in the *)
(* file otherwise: neither the encryption nor a write that is cut off nor  *)
(* any number of later starts changes it, as long as nobody loses the key  *)
(* (processCrypto).  This need not be the password that the environment    *)
(* has now: a file with a user keeps the environment from being read       *)
(* (enrichFromEnvironmentVariables), and the file has one as soon as an    *)
(* encrypted password was written with it.                                 *)
KeepsPassword == pc = "running" /\ losses = 0 => decrypted = taken

(* The exporter comes back, with all of its configuration, after every cut *)
(* at whatever step, a lost key included; only a cut within one of the two *)
(* writes keeps it down, or running with a part of the queries, until the  *)
(* operator repairs the file.                                              *)
RunsOrNeedsOperator ==
  []<>(torn \/ keyFile = CutKey \/ (pc = "running" /\ config.text = "whole"))
=============================================================================

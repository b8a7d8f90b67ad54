---- MODULE ControlDatabase ----
(***************************************************************************)
(* The control-plane database as a file: its projections, its backups and  *)
(* their restoration (src/src/control/store.ts, src/src/control/cli.ts).   *)
(*                                                                         *)
(* Every command opens the store, which first verifies it, and commits one *)
(* transaction with the next sequence number; the process may die before   *)
(* anybody hears of it.  Polls and audits change operational state and     *)
(* take no number.  A backup is copied while other processes commit, and   *)
(* compared with the live database afterwards.                             *)
(*                                                                         *)
(* Abstractions.  A transaction is its identity, and a check or not: what  *)
(* the pruning of check detail selects is CoreControl's matter, here it    *)
(* deletes all checks but the newest.  The two projections are one: of the *)
(* transactions a generation was built from, those of which it holds rows. *)
(***************************************************************************)
EXTENDS Naturals, Sequences, FiniteSets

CONSTANTS
  Paths,        \* file paths a backup may be written to
  NoFile,       \* what is at a path where there is no file
  MaxMinted,    \* bound of the model: transactions ever committed
  MaxOpState,   \* bound of the model: changes of operational state
  MaxAccidents  \* bound of the model: damage, and processes that die

(* What a file may hold.                                                   *)
Transactions == [id : Nat, check : BOOLEAN]
Projections == [built : BOOLEAN, source : Nat, rows : SUBSET Nat, damaged : BOOLEAN]
Databases ==
  [lineage : Nat, transactions : Seq(Transactions), kept : SUBSET Nat, operational : Nat,
   projection : Projections]

ASSUME DatabaseAssumption ==
  /\ MaxMinted \in Nat \ {0} /\ MaxOpState \in Nat /\ MaxAccidents \in Nat
  /\ NoFile \notin Databases

VARIABLES
  live,       \* the database SNOWCAT_CONTROL_DB names
  open,       \* whether processes use it (not while the operator restores)
  file,       \* file[p]: the backup at path p
  manifest,   \* manifest[p]: what createBackup returned for it
  copying,    \* the path of a backup that is copied but not yet compared
  staged,     \* the restored copy, not yet activated
  minted,     \* identities given to transactions so far
  told,       \* history: <<sequence, identity>> of the transactions reported outside
  opChanges,  \* how much of MaxOpState is used
  accidents   \* how much of MaxAccidents is used

databaseVars ==
  <<live, open, file, manifest, copying, staged, minted, told, opChanges, accidents>>

(* history: damaged, since the projection was built.                       *)
Missing == [built |-> FALSE, source |-> 0, rows |-> {}, damaged |-> TRUE]

-----------------------------------------------------------------------------
(* One database.                                                           *)

LastSequence(db) == Len(db.transactions)

(* eventProjectionSources, subjectProjectionSources                        *)
ProjectionSources(db, source) == {db.transactions[n].id : n \in {n \in db.kept : n <= source}}

(* buildProjectionShadow and publishProjectionGenerations                  *)
Rebuilt(db) ==
  [db EXCEPT !.projection = [built |-> TRUE, source |-> LastSequence(db), damaged |-> FALSE,
                             rows |-> ProjectionSources(db, LastSequence(db))]]

(* verifyProjectionCatalog, which every opening but a repair's runs        *)
HasProjections(db) == db.projection.built /\ db.projection.source <= LastSequence(db)

(* projectionHealth: the rows and the sources they were built from are     *)
(* worked out again.                                                       *)
Health(db) ==
  IF ~db.projection.built THEN "unavailable"
  ELSE IF db.projection.rows # ProjectionSources(db, db.projection.source) THEN "invalid"
  ELSE IF db.projection.source = LastSequence(db) THEN "current" ELSE "stale"

(* authoritativeDigest covers the whole state except the projections.      *)
AuthoritativeDigest(db) == <<db.transactions, db.kept, db.operational>>

ManifestOf(db) ==
  [lineage |-> db.lineage, last |-> LastSequence(db), digest |-> AuthoritativeDigest(db)]

(* inspectArtifact: opened like any store, and its projections usable.     *)
Inspectable(db) == HasProjections(db) /\ Health(db) \in {"current", "stale"}

(* One more transaction, and the watermark with it.                        *)
Committed(db, check) ==
  [db EXCEPT !.transactions = Append(@, [id |-> minted + 1, check |-> check]),
             !.kept = @ \cup {LastSequence(db) + 1}]

-----------------------------------------------------------------------------
DatabaseInit ==
  /\ live = Rebuilt([lineage |-> 1, transactions |-> <<[id |-> 1, check |-> FALSE]>>, kept |-> {1},
                     operational |-> 0, projection |-> Missing])
  /\ open = TRUE /\ file = [p \in Paths |-> NoFile] /\ manifest = file
  /\ copying = NoFile /\ staged = NoFile
  /\ minted = 1 /\ told = {<<1, 1>>} /\ opChanges = 0 /\ accidents = 0

Usable == open /\ HasProjections(live)

(* The result of a committed command is reported, or its process dies.     *)
Announce ==
  /\ minted' = minted + 1
  /\ \/ /\ told' = told \cup {<<LastSequence(live) + 1, minted + 1>>}
        /\ UNCHANGED accidents
     \/ /\ accidents < MaxAccidents /\ accidents' = accidents + 1
        /\ UNCHANGED told

(* Any command that commits a transaction; checkIntegrity is one.          *)
Command(check) ==
  /\ Usable /\ minted < MaxMinted
  /\ live' = Committed(live, check) /\ Announce
  /\ UNCHANGED <<open, file, manifest, copying, staged, opChanges>>

(* Claims and outcomes of polls and audits.                                *)
Operate ==
  /\ Usable /\ opChanges < MaxOpState /\ opChanges' = opChanges + 1
  /\ live' = [live EXCEPT !.operational = opChanges + 1]
  /\ UNCHANGED <<open, file, manifest, copying, staged, minted, told, accidents>>

OldChecks(db) ==
  {n \in db.kept : db.transactions[n].check /\ \E m \in db.kept : m > n /\ db.transactions[m].check}

(* Fault: the projections are left as they were.                           *)
PruneWithoutRebuild ==
  /\ Usable /\ minted < MaxMinted
  /\ live' = Committed([live EXCEPT !.kept = @ \ OldChecks(live)], FALSE) /\ Announce
  /\ UNCHANGED <<open, file, manifest, copying, staged, opChanges>>

(* pruneCoreCheckDetail: transactions are deleted, that of the pruning is  *)
(* appended and all projections are built anew, in one SQLite transaction. *)
PruneDetail ==
  /\ Usable /\ minted < MaxMinted
  /\ live' = Rebuilt(Committed([live EXCEPT !.kept = @ \ OldChecks(live)], FALSE)) /\ Announce
  /\ UNCHANGED <<open, file, manifest, copying, staged, opChanges>>

(* rebuildProjections opens like any command, repairProjections skips the  *)
(* projection catalog.  Neither writes anything else.                      *)
RebuildProjections ==
  /\ Usable /\ Health(live) # "current" /\ live' = Rebuilt(live)
  /\ UNCHANGED <<open, file, manifest, copying, staged, minted, told, opChanges, accidents>>
RepairProjections ==
  /\ open /\ Health(live) \in {"invalid", "unavailable"} /\ live' = Rebuilt(live)
  /\ UNCHANGED <<open, file, manifest, copying, staged, minted, told, opChanges, accidents>>

-----------------------------------------------------------------------------
(* Backup and restore.                                                     *)

(* createBackup up to the end of its await: the path must be new.          *)
CopyBackup(p) ==
  /\ Usable /\ copying = NoFile /\ file[p] = NoFile
  /\ file' = [file EXCEPT ![p] = live] /\ copying' = p
  /\ UNCHANGED <<live, open, manifest, staged, minted, told, opChanges, accidents>>

(* The rest of it.  The manifest reports the last transaction to the       *)
(* operator; a file that fails the comparison stays, without a manifest.   *)
CompareBackup ==
  /\ open /\ copying # NoFile /\ copying' = NoFile
  /\ IF Inspectable(file[copying]) /\ ManifestOf(file[copying]) = ManifestOf(live)
     THEN /\ manifest' = [manifest EXCEPT ![copying] = ManifestOf(live)]
          /\ told' = told \cup {<<LastSequence(live), live.transactions[LastSequence(live)].id>>}
     ELSE UNCHANGED <<manifest, told>>
  /\ UNCHANGED <<live, open, file, staged, minted, opChanges, accidents>>

(* The operator stops everything that uses the database, and later starts  *)
(* it again, on the database the environment then names.                   *)
CloseStore ==
  /\ open /\ copying = NoFile /\ \E p \in Paths : manifest[p] # NoFile
  /\ open' = FALSE
  /\ UNCHANGED <<live, file, manifest, copying, staged, minted, told, opChanges, accidents>>
OpenStore ==
  /\ ~open /\ open' = TRUE /\ staged' = NoFile
  /\ \/ staged = NoFile /\ UNCHANGED live
     \/ staged # NoFile /\ live' = staged
  /\ UNCHANGED <<file, manifest, copying, minted, told, opChanges, accidents>>

(* Fault: the sequence seen before is not asked for.                       *)
VerifyBackupUnfenced(p, lineage, minimum) ==
  /\ manifest[p] # NoFile /\ Inspectable(file[p]) /\ ManifestOf(file[p]) = manifest[p]
  /\ file[p].lineage = lineage

(* verifyBackup                                                            *)
VerifyBackup(p, lineage, minimum) ==
  /\ manifest[p] # NoFile /\ Inspectable(file[p]) /\ ManifestOf(file[p]) = manifest[p]
  /\ file[p].lineage = lineage /\ LastSequence(file[p]) >= minimum

(* stageRestore, with the highest sequence anybody outside has seen.       *)
StageRestore(p) ==
  LET seen == {t[1] : t \in told}
      minimum == CHOOSE n \in seen : \A m \in seen : m <= n
  IN /\ ~open /\ staged = NoFile /\ VerifyBackup(p, live.lineage, minimum)
     /\ staged' = file[p]
     /\ UNCHANGED <<live, open, file, manifest, copying, minted, told, opChanges, accidents>>

(* A disk or a person damages projection rows or heads, or a backup file.  *)
Damage ==
  /\ accidents < MaxAccidents /\ accidents' = accidents + 1
  /\ \/ /\ live' \in {[live EXCEPT !.projection = Missing],
                      [live EXCEPT !.projection.rows = {}, !.projection.damaged = TRUE]}
        /\ UNCHANGED file
     \/ /\ \E p \in Paths : /\ file[p] # NoFile /\ copying # p
                            /\ file' = [file EXCEPT ![p].operational = MaxOpState + 1]
        /\ UNCHANGED live
  /\ UNCHANGED <<open, manifest, copying, staged, minted, told, opChanges>>

DatabaseNext ==
  \/ Command(TRUE) \/ Command(FALSE) \/ Operate \/ PruneDetail
  \/ RebuildProjections \/ RepairProjections
  \/ \E p \in Paths : CopyBackup(p) \/ StageRestore(p)
  \/ CompareBackup \/ CloseStore \/ OpenStore \/ Damage

DatabaseSpec == DatabaseInit /\ [][DatabaseNext]_databaseVars

-----------------------------------------------------------------------------
(* Properties.                                                             *)

DatabaseTypeOK ==
  /\ open \in BOOLEAN /\ minted \in 1 .. MaxMinted /\ accidents \in 0 .. MaxAccidents
  /\ live.kept \subseteq 1 .. LastSequence(live) /\ LastSequence(live) \in live.kept
  /\ told \subseteq (1 .. minted) \X (1 .. minted)
  /\ \A p \in Paths : manifest[p] # NoFile => file[p] # NoFile
  /\ copying # NoFile => open /\ file[copying] # NoFile
  /\ staged # NoFile => ~open

(* Sequences name transactions for good (rules 35 and 36): whatever is     *)
(* backed up between commits, dies, is pruned or restored, the database in *)
(* use has every transaction somebody outside was told of, or its pruned   *)
(* place, under its number, and no number was told for two of them.        *)
NothingToldIsLost ==
  /\ \A s, t \in told : s[1] = t[1] => s = t
  /\ \A t \in told : t[1] <= LastSequence(live) /\ live.transactions[t[1]].id = t[2]

(* Projections never refuse to answer by themselves: one that nobody       *)
(* damaged since it was built verifies, up to date or stale, also across   *)
(* prunings and in backups and restored databases.                         *)
ProjectionsVerify ==
  \A db \in {live} \cup {file[p] : p \in {p \in Paths : manifest[p] # NoFile}} :
    ~db.projection.damaged => HasProjections(db) /\ Health(db) \in {"current", "stale"}
====

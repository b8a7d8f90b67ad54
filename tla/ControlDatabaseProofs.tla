---- MODULE ControlDatabaseProofs ----
(***************************************************************************)
(* Theorems about the control-plane database as a file, for any number of  *)
(* backups, commits, restorations, accidents and changes of operational    *)
(* state.                                                                  *)
(***************************************************************************)
EXTENDS ControlDatabase, SequenceTheorems, TLAPS

-----------------------------------------------------------------------------
(* A database that its own commands wrote, whoever copied it since.        *)
Shaped(db) == db \in Databases /\ db.kept \subseteq 1 .. LastSequence(db)
Written(db) == Shaped(db) /\ LastSequence(db) \in db.kept

(* Its projection verifies unless somebody damaged it.                     *)
Verifies(db) ==
  ~db.projection.damaged => HasProjections(db) /\ Health(db) \in {"current", "stale"}

Sound(db) == Written(db) /\ Verifies(db)

(* The history of one is the beginning of the other's.                     *)
Begins(a, b) ==
  /\ LastSequence(a) <= LastSequence(b)
  /\ \A n \in 1 .. LastSequence(a) : a.transactions[n] = b.transactions[n]

(* What was told is in the database in use.                                *)
ToldIsKept ==
  /\ told \subseteq Nat \X Nat
  /\ \A t \in told : t[1] \in 1 .. LastSequence(live) /\ live.transactions[t[1]].id = t[2]
  /\ \E t \in told : \A s \in told : s[1] <= t[1]

(* Every transaction has an identity that was given to one.                *)
IdentitiesMinted ==
  /\ minted \in 1 .. MaxMinted /\ LastSequence(live) <= minted
  /\ \A n \in 1 .. LastSequence(live) : live.transactions[n].id \in 1 .. minted

(* A backup with a manifest ends with a transaction that was told, and its *)
(* history is the beginning of that of the database in use.                *)
BackupsBegin ==
  /\ file = [p \in Paths |-> file[p]] /\ manifest = [p \in Paths |-> manifest[p]]
  /\ \A p \in Paths : manifest[p] # NoFile =>
       /\ Sound(file[p]) /\ Begins(file[p], live)
       /\ \E t \in told : t[1] = LastSequence(file[p])
  /\ copying \in Paths \cup {NoFile}
  /\ copying # NoFile => open /\ Sound(file[copying])

(* A copy that may be activated has all that was told.                     *)
StagedHasAll ==
  staged # NoFile =>
    /\ ~open /\ Sound(staged) /\ Begins(staged, live)
    /\ \A t \in told : t[1] <= LastSequence(staged)

DatabaseInv ==
  /\ open \in BOOLEAN /\ accidents \in 0 .. MaxAccidents /\ opChanges \in Nat
  /\ Sound(live)
  /\ ToldIsKept /\ IdentitiesMinted /\ BackupsBegin /\ StagedHasAll

-----------------------------------------------------------------------------
(* Databases.                                                              *)

(* The parts of a database.                                                *)
LEMMA Parts ==
  ASSUME NEW db, Shaped(db)
  PROVE  /\ db = [lineage |-> db.lineage, transactions |-> db.transactions, kept |-> db.kept,
                  operational |-> db.operational, projection |-> db.projection]
         /\ db.lineage \in Nat /\ db.transactions \in Seq(Transactions) /\ db.kept \in SUBSET Nat
         /\ db.operational \in Nat /\ db.projection \in Projections
         /\ LastSequence(db) \in Nat /\ db.kept \subseteq 1 .. LastSequence(db)
         /\ \A n \in 1 .. LastSequence(db) : db.transactions[n] \in Transactions
<1>1. /\ db = [lineage |-> db.lineage, transactions |-> db.transactions, kept |-> db.kept,
               operational |-> db.operational, projection |-> db.projection]
      /\ db.lineage \in Nat /\ db.transactions \in Seq(Transactions) /\ db.kept \in SUBSET Nat
      /\ db.operational \in Nat /\ db.projection \in Projections
  BY DEF Shaped, Databases
<1>2. LastSequence(db) \in Nat BY <1>1, LenProperties DEF LastSequence
<1>3. \A n \in 1 .. LastSequence(db) : db.transactions[n] \in Transactions
  BY <1>1, ElementOfSeq DEF LastSequence
<1> QED BY <1>1, <1>2, <1>3 DEF Shaped

(* A sound database is a file, and its last transaction is kept.           *)
LEMMA SoundIsFile ==
  ASSUME NEW db, Sound(db) PROVE db # NoFile /\ Shaped(db) /\ LastSequence(db) \in Nat \ {0}
<1>1. Shaped(db) /\ LastSequence(db) \in db.kept BY DEF Sound, Written
<1>2. LastSequence(db) \in 1 .. LastSequence(db) /\ LastSequence(db) \in Nat BY <1>1, Parts
<1> QED BY <1>1, <1>2, DatabaseAssumption DEF Shaped

(* What verifying depends on.                                              *)
LEMMA VerifyingIs ==
  ASSUME NEW db
  PROVE  Verifies(db) <=>
           (~db.projection.damaged =>
              /\ db.projection.built /\ db.projection.source <= LastSequence(db)
              /\ db.projection.rows = ProjectionSources(db, db.projection.source))
BY DEF Verifies, HasProjections, Health

(* A commit appends one transaction and keeps the projection.              *)
LEMMA CommitAppends ==
  ASSUME NEW db, Shaped(db), NEW check \in BOOLEAN, minted \in Nat
  PROVE  LET new == Committed(db, check) IN
         /\ Written(new) /\ LastSequence(new) = LastSequence(db) + 1
         /\ new.transactions[LastSequence(db) + 1].id = minted + 1
         /\ \A n \in 1 .. LastSequence(db) : new.transactions[n] = db.transactions[n]
         /\ new.projection = db.projection
         /\ new.kept = db.kept \cup {LastSequence(db) + 1}
<1> DEFINE t == [id |-> minted + 1, check |-> check]
           new == Committed(db, check)
           h == db.transactions
<1>1. new = [lineage |-> db.lineage, transactions |-> Append(h, t),
             kept |-> db.kept \cup {LastSequence(db) + 1},
             operational |-> db.operational, projection |-> db.projection]
  <2>1. PICK d : d = [lineage |-> db.lineage, transactions |-> h, kept |-> db.kept,
                      operational |-> db.operational, projection |-> db.projection]
    OBVIOUS
  <2>2. d = db BY <2>1, Parts
  <2>3. ASSUME NEW longer, NEW more
        PROVE  [d EXCEPT !.transactions = longer, !.kept = more] =
               [lineage |-> db.lineage, transactions |-> longer, kept |-> more,
                operational |-> db.operational, projection |-> db.projection]
    <3> DEFINE e == [d EXCEPT !.transactions = longer, !.kept = more]
    <3>1. /\ DOMAIN e = DOMAIN d
          /\ e = [f \in DOMAIN d |-> e[f]]
          /\ DOMAIN d = {"lineage", "transactions", "kept", "operational", "projection"}
      BY <2>1
    <3>2. /\ e["transactions"] = longer /\ e["kept"] = more /\ e["lineage"] = d["lineage"]
          /\ e["operational"] = d["operational"] /\ e["projection"] = d["projection"]
      BY <2>1
    <3>3. /\ d["lineage"] = db.lineage /\ d["operational"] = db.operational
          /\ d["projection"] = db.projection
      BY <2>1
    <3> HIDE DEF e
    <3> QED BY <3>1, <3>2, <3>3
  <2> QED BY <2>2, <2>3 DEF Committed
<1>2. t \in Transactions /\ t.id = minted + 1 BY DEF Transactions
<1>3. h \in Seq(Transactions) /\ Len(h) = LastSequence(db) /\ LastSequence(db) \in Nat
  BY Parts DEF LastSequence
<1> HIDE DEF t, new, h
<1>4. /\ Append(h, t) \in Seq(Transactions) /\ Len(Append(h, t)) = LastSequence(db) + 1
      /\ Append(h, t)[LastSequence(db) + 1] = t
      /\ \A n \in 1 .. LastSequence(db) : Append(h, t)[n] = h[n]
  BY <1>2, <1>3, AppendProperties
<1>5. new.transactions = Append(h, t) /\ new.projection = db.projection
      /\ new.kept = db.kept \cup {LastSequence(db) + 1}
  BY <1>1
<1>6. LastSequence(new) = LastSequence(db) + 1 BY <1>4, <1>5 DEF LastSequence
<1>7. new.kept \in SUBSET Nat /\ new.kept \subseteq 1 .. LastSequence(new)
      /\ LastSequence(new) \in new.kept
  BY <1>3, <1>5, <1>6, Parts
<1>8. new \in Databases BY <1>1, <1>4, <1>5, <1>7, Parts DEF Databases
<1>9. Written(new) BY <1>7, <1>8 DEF Written, Shaped
<1> QED BY <1>2, <1>4, <1>5, <1>6, <1>9 DEF new, h

(* The projection of a database that verified still does after a commit:   *)
(* what it was built from is below the new transaction.                    *)
LEMMA CommitVerifies ==
  ASSUME NEW db, Sound(db), NEW check \in BOOLEAN, minted \in Nat
  PROVE  Sound(Committed(db, check))
<1> DEFINE new == Committed(db, check)
<1>1. Shaped(db) /\ Verifies(db) /\ LastSequence(db) \in Nat BY SoundIsFile DEF Sound
<1>2. /\ Written(new) /\ LastSequence(new) = LastSequence(db) + 1
      /\ \A n \in 1 .. LastSequence(db) : new.transactions[n] = db.transactions[n]
      /\ new.projection = db.projection
      /\ new.kept = db.kept \cup {LastSequence(db) + 1}
  BY <1>1, CommitAppends
<1> HIDE DEF new
<1>3. ASSUME NEW source \in Nat, source <= LastSequence(db)
      PROVE  ProjectionSources(new, source) = ProjectionSources(db, source)
  <2>1. \A n : n \in {m \in new.kept : m <= source} <=> n \in {m \in db.kept : m <= source}
    BY <1>1, <1>2, <1>3
  <2>2. \A n \in {m \in db.kept : m <= source} : new.transactions[n].id = db.transactions[n].id
    BY <1>1, <1>2, <1>3, Parts
  <2> QED BY <2>1, <2>2 DEF ProjectionSources
<1>4. db.projection.source \in Nat BY <1>1, Parts DEF Projections
<1>5. Verifies(new) BY <1>1, <1>2, <1>3, <1>4, VerifyingIs
<1> QED BY <1>2, <1>5 DEF Sound, new

(* Projections built anew verify, whatever was pruned before.              *)
LEMMA RebuiltVerifies ==
  ASSUME NEW db, Written(db)
  PROVE  Sound(Rebuilt(db)) /\ Rebuilt(db).transactions = db.transactions
<1> DEFINE new == Rebuilt(db)
           rows == ProjectionSources(db, LastSequence(db))
           built == [built |-> TRUE, source |-> LastSequence(db), damaged |-> FALSE, rows |-> rows]
<1>1. Shaped(db) /\ LastSequence(db) \in Nat BY Parts DEF Written
<1>2. new = [lineage |-> db.lineage, transactions |-> db.transactions, kept |-> db.kept,
             operational |-> db.operational, projection |-> built]
  <2>1. PICK d : d = [lineage |-> db.lineage, transactions |-> db.transactions, kept |-> db.kept,
                      operational |-> db.operational, projection |-> db.projection]
    OBVIOUS
  <2>2. d = db BY <1>1, <2>1, Parts
  <2>3. ASSUME NEW other
        PROVE  [d EXCEPT !.projection = other] =
               [lineage |-> db.lineage, transactions |-> db.transactions, kept |-> db.kept,
                operational |-> db.operational, projection |-> other]
    BY <2>1
  <2> QED BY <2>2, <2>3 DEF Rebuilt
<1>3. rows \subseteq Nat
  BY <1>1, Parts DEF ProjectionSources, Transactions
<1>4. built \in Projections BY <1>1, <1>3 DEF Projections
<1>5. built.built = TRUE /\ built.source = LastSequence(db) /\ built.rows = rows OBVIOUS
<1>6. ProjectionSources(new, LastSequence(db)) = rows BY <1>2 DEF ProjectionSources
<1> HIDE DEF new, rows, built
<1>7. /\ new.transactions = db.transactions /\ new.kept = db.kept /\ new.projection = built
      /\ LastSequence(new) = LastSequence(db)
  BY <1>2 DEF LastSequence
<1>8. new \in Databases BY <1>1, <1>2, <1>4, Parts DEF Databases
<1>9. Written(new) BY <1>7, <1>8 DEF Written, Shaped
<1>10. Verifies(new) BY <1>1, <1>5, <1>6, <1>7, VerifyingIs
<1> QED BY <1>7, <1>9, <1>10 DEF Sound, new

(* So does a pruning's database.                                           *)
LEMMA PrunedVerifies ==
  ASSUME NEW db, Sound(db), minted \in Nat
  PROVE  LET new == Rebuilt(Committed([db EXCEPT !.kept = @ \ OldChecks(db)], FALSE)) IN
         /\ Sound(new) /\ LastSequence(new) = LastSequence(db) + 1
         /\ new.transactions[LastSequence(db) + 1].id = minted + 1
         /\ \A n \in 1 .. LastSequence(db) : new.transactions[n] = db.transactions[n]
<1> DEFINE pruned == [db EXCEPT !.kept = @ \ OldChecks(db)]
           committed == Committed(pruned, FALSE)
<1>1. Shaped(db) BY SoundIsFile
<1>2. pruned = [lineage |-> db.lineage, transactions |-> db.transactions,
                kept |-> db.kept \ OldChecks(db), operational |-> db.operational,
                projection |-> db.projection]
  <2>1. PICK d : d = [lineage |-> db.lineage, transactions |-> db.transactions, kept |-> db.kept,
                      operational |-> db.operational, projection |-> db.projection]
    OBVIOUS
  <2>2. d = db BY <1>1, <2>1, Parts
  <2>3. [d EXCEPT !.kept = d.kept \ OldChecks(db)] =
        [lineage |-> db.lineage, transactions |-> db.transactions,
         kept |-> db.kept \ OldChecks(db), operational |-> db.operational,
         projection |-> db.projection]
    BY <2>1
  <2> QED BY <2>2, <2>3
<1> HIDE DEF pruned
<1>3. pruned.transactions = db.transactions /\ LastSequence(pruned) = LastSequence(db)
      /\ pruned.kept = db.kept \ OldChecks(db)
  BY <1>2 DEF LastSequence
<1>4. pruned \in Databases BY <1>1, <1>2, Parts DEF Databases
<1>5. Shaped(pruned) BY <1>1, <1>3, <1>4 DEF Shaped
<1>6. /\ Written(committed) /\ LastSequence(committed) = LastSequence(db) + 1
      /\ committed.transactions[LastSequence(db) + 1].id = minted + 1
      /\ \A n \in 1 .. LastSequence(db) : committed.transactions[n] = db.transactions[n]
  <2>1. /\ Written(committed) /\ LastSequence(committed) = LastSequence(pruned) + 1
        /\ committed.transactions[LastSequence(pruned) + 1].id = minted + 1
        /\ \A n \in 1 .. LastSequence(pruned) : committed.transactions[n] = pruned.transactions[n]
    BY <1>5, CommitAppends
  <2> QED BY <1>3, <2>1
<1> HIDE DEF committed
<1>7. Sound(Rebuilt(committed)) /\ Rebuilt(committed).transactions = committed.transactions
  BY <1>6, RebuiltVerifies
<1> QED BY <1>6, <1>7 DEF LastSequence, committed, pruned

-----------------------------------------------------------------------------
(* Histories.                                                              *)

(* The beginning of what goes on is a beginning of it.                     *)
LEMMA BeginsOn ==
  ASSUME NEW a, NEW b, NEW c, Begins(a, b),
         LastSequence(a) \in Nat, LastSequence(b) \in Nat, LastSequence(c) \in Nat,
         LastSequence(b) <= LastSequence(c),
         \A n \in 1 .. LastSequence(b) : c.transactions[n] = b.transactions[n]
  PROVE  Begins(a, c)
BY DEF Begins

(* Of two beginnings of one history the shorter begins the longer.         *)
LEMMA BeginsShorter ==
  ASSUME NEW a, NEW b, NEW c, Begins(a, c), Begins(b, c),
         LastSequence(a) \in Nat, LastSequence(b) \in Nat, LastSequence(a) <= LastSequence(b)
  PROVE  Begins(a, b)
BY DEF Begins

-----------------------------------------------------------------------------
(* The invariant.                                                          *)

(* A command appends one transaction, and it is told or its process dies.  *)
LEMMA GrowthKeeps ==
  ASSUME DatabaseInv, open, minted < MaxMinted, Announce, Sound(live'),
         LastSequence(live') = LastSequence(live) + 1,
         live'.transactions[LastSequence(live) + 1].id = minted + 1,
         \A n \in 1 .. LastSequence(live) : live'.transactions[n] = live.transactions[n],
         UNCHANGED <<open, file, manifest, copying, staged, opChanges>>
  PROVE  DatabaseInv'
<1> DEFINE last == LastSequence(live)
           new == <<last + 1, minted + 1>>
<1>1. Sound(live) /\ last \in Nat /\ minted \in Nat /\ last <= minted
  BY SoundIsFile, DatabaseAssumption DEF DatabaseInv, IdentitiesMinted
<1>2. /\ minted' = minted + 1
      /\ \/ told' = told \cup {new} /\ accidents' = accidents
         \/ told' = told /\ accidents < MaxAccidents /\ accidents' = accidents + 1
  BY DEF Announce
<1>3. accidents' \in 0 .. MaxAccidents
  BY <1>2, DatabaseAssumption DEF DatabaseInv
<1> HIDE DEF last
<1>4. /\ LastSequence(live') = last + 1 /\ live'.transactions[last + 1].id = minted + 1
      /\ \A n \in 1 .. last : live'.transactions[n] = live.transactions[n]
  BY DEF last
<1>5. ToldIsKept'
  <2>1. /\ told \subseteq Nat \X Nat
        /\ \A t \in told : t[1] \in 1 .. last /\ live.transactions[t[1]].id = t[2]
        /\ \E t \in told : \A s \in told : s[1] <= t[1]
    BY DEF DatabaseInv, ToldIsKept, last
  <2>2. new \in Nat \X Nat /\ new[1] = last + 1 /\ new[2] = minted + 1 BY <1>1
  <2> HIDE DEF new
  <2>3. told' \subseteq Nat \X Nat BY <1>2, <2>1, <2>2
  <2>4. ASSUME NEW t \in told'
        PROVE  t[1] \in 1 .. last + 1 /\ live'.transactions[t[1]].id = t[2]
    <3>1. CASE t \in told BY <1>1, <1>4, <2>1, <3>1
    <3>2. CASE t = new BY <1>1, <1>4, <2>2, <3>2
    <3> QED BY <1>2, <3>1, <3>2
  <2>5. \E t \in told' : \A s \in told' : s[1] <= t[1]
    <3>1. CASE told' = told \cup {new}
      <4>1. \A s \in told' : s[1] <= new[1] BY <1>1, <2>1, <2>2, <3>1
      <4> QED BY <3>1, <4>1
    <3> QED BY <1>2, <2>1, <3>1
  <2> QED BY <1>4, <2>3, <2>4, <2>5 DEF ToldIsKept
<1>6. IdentitiesMinted'
  <2>1. minted' \in 1 .. MaxMinted BY <1>1, <1>2, DatabaseAssumption
  <2>2. ASSUME NEW n \in 1 .. last + 1 PROVE live'.transactions[n].id \in 1 .. minted'
    <3>1. CASE n = last + 1 BY <1>1, <1>2, <1>4, <3>1
    <3>2. CASE n # last + 1
      <4>1. n \in 1 .. last BY <1>1, <3>2
      <4>2. live.transactions[n].id \in 1 .. minted
        BY <4>1 DEF DatabaseInv, IdentitiesMinted, last
      <4> QED BY <1>1, <1>2, <1>4, <4>1, <4>2
    <3> QED BY <3>1, <3>2
  <2> QED BY <1>1, <1>2, <1>4, <2>1, <2>2 DEF IdentitiesMinted
<1>7. ASSUME NEW db, Sound(db), Begins(db, live) PROVE Begins(db, live')
  BY <1>1, <1>4, <1>7, SoundIsFile, BeginsOn DEF last
<1>8. told \subseteq told' BY <1>2
<1>9. BackupsBegin' BY <1>7, <1>8 DEF DatabaseInv, BackupsBegin
<1>10. StagedHasAll' BY DEF DatabaseInv, StagedHasAll
<1> QED BY <1>3, <1>5, <1>6, <1>9, <1>10 DEF DatabaseInv

(* The database in use may change in what is not history.                  *)
LEMMA RetouchKeeps ==
  ASSUME DatabaseInv, Sound(live'), live'.transactions = live.transactions,
         UNCHANGED <<open, file, manifest, copying, staged, minted, told>>,
         accidents' \in 0 .. MaxAccidents, opChanges' \in Nat
  PROVE  DatabaseInv'
<1>1. LastSequence(live') = LastSequence(live) BY DEF LastSequence
<1>2. ToldIsKept' BY <1>1 DEF DatabaseInv, ToldIsKept
<1>3. IdentitiesMinted' BY <1>1 DEF DatabaseInv, IdentitiesMinted
<1>4. ASSUME NEW db, Begins(db, live) PROVE Begins(db, live') BY <1>1, <1>4 DEF Begins
<1>5. BackupsBegin' BY <1>4 DEF DatabaseInv, BackupsBegin
<1>6. StagedHasAll' BY <1>4 DEF DatabaseInv, StagedHasAll
<1> QED BY <1>2, <1>3, <1>5, <1>6 DEF DatabaseInv

(* Operational state is not history and not a projection.                  *)
LEMMA OperationKeepsSound ==
  ASSUME NEW db, Sound(db), NEW value \in Nat
  PROVE  /\ Sound([db EXCEPT !.operational = value])
         /\ [db EXCEPT !.operational = value].transactions = db.transactions
<1>1. Shaped(db) BY SoundIsFile
<1>2. PICK new : new = [db EXCEPT !.operational = value] OBVIOUS
<1>3. /\ new = [lineage |-> db.lineage, transactions |-> db.transactions, kept |-> db.kept,
                operational |-> value, projection |-> db.projection]
  <2>1. PICK d : d = [lineage |-> db.lineage, transactions |-> db.transactions, kept |-> db.kept,
                      operational |-> db.operational, projection |-> db.projection]
    OBVIOUS
  <2>2. d = db BY <1>1, <2>1, Parts
  <2>3. [d EXCEPT !.operational = value] =
        [lineage |-> db.lineage, transactions |-> db.transactions, kept |-> db.kept,
         operational |-> value, projection |-> db.projection]
    BY <2>1
  <2> QED BY <1>2, <2>2, <2>3
<1>4. /\ new.transactions = db.transactions /\ new.kept = db.kept
      /\ new.projection = db.projection /\ LastSequence(new) = LastSequence(db)
  BY <1>3 DEF LastSequence
<1>5. new \in Databases BY <1>1, <1>3, Parts DEF Databases
<1>6. Written(new) BY <1>1, <1>4, <1>5 DEF Sound, Written, Shaped
<1>7. \A n : ProjectionSources(new, n) = ProjectionSources(db, n)
  BY <1>4 DEF ProjectionSources
<1>8. Verifies(new) BY <1>4, <1>7, VerifyingIs DEF Sound
<1> QED BY <1>2, <1>4, <1>6, <1>8 DEF Sound

(* A damaged projection is known to be damaged.                            *)
LEMMA DamageKeepsSound ==
  ASSUME NEW db, Sound(db),
         NEW new \in {[db EXCEPT !.projection = Missing],
                      [db EXCEPT !.projection.rows = {}, !.projection.damaged = TRUE]}
  PROVE  Sound(new) /\ new.transactions = db.transactions
<1>1. Shaped(db) BY SoundIsFile
<1>2. PICK projection \in Projections : /\ projection.damaged = TRUE
                                        /\ new = [db EXCEPT !.projection = projection]
  <2>1. CASE new = [db EXCEPT !.projection = Missing]
    <3>1. Missing \in Projections /\ Missing.damaged = TRUE BY DEF Missing, Projections
    <3> QED BY <2>1, <3>1
  <2>2. CASE new = [db EXCEPT !.projection.rows = {}, !.projection.damaged = TRUE]
    <3>1. PICK old : old = db.projection OBVIOUS
    <3>2. old \in Projections BY <1>1, <3>1, Parts
    <3>3. PICK bare : bare = [old EXCEPT !.rows = {}] OBVIOUS
    <3>4. bare \in Projections BY <3>2, <3>3 DEF Projections
    <3>5. PICK marked : marked = [bare EXCEPT !.damaged = TRUE] OBVIOUS
    <3>6. marked \in Projections /\ marked.damaged = TRUE BY <3>4, <3>5 DEF Projections
    <3>7. new = [db EXCEPT !.projection = marked]
      <4>1. "projection" \in DOMAIN db BY <1>1, Parts
      <4>2. PICK half : half = [db EXCEPT !.projection = bare] OBVIOUS
      <4>3. half.projection = bare BY <1>1, <4>1, <4>2
      <4>4. half = [db EXCEPT !.projection.rows = {}] BY <3>1, <3>3, <4>2
      <4>5. new = [half EXCEPT !.projection.damaged = TRUE] BY <2>2, <4>4
      <4>6. new = [half EXCEPT !.projection = marked] BY <3>5, <4>3, <4>5
      <4>7. [half EXCEPT !.projection = marked] = [db EXCEPT !.projection = marked]
        BY <4>2
      <4> QED BY <4>6, <4>7
    <3> QED BY <3>6, <3>7
  <2> QED BY <2>1, <2>2
<1>3. new = [lineage |-> db.lineage, transactions |-> db.transactions, kept |-> db.kept,
             operational |-> db.operational, projection |-> projection]
  <2>1. PICK d : d = [lineage |-> db.lineage, transactions |-> db.transactions, kept |-> db.kept,
                      operational |-> db.operational, projection |-> db.projection]
    OBVIOUS
  <2>2. d = db BY <1>1, <2>1, Parts
  <2>3. [d EXCEPT !.projection = projection] =
        [lineage |-> db.lineage, transactions |-> db.transactions, kept |-> db.kept,
         operational |-> db.operational, projection |-> projection]
    BY <2>1
  <2> QED BY <1>2, <2>2, <2>3
<1>4. /\ new.transactions = db.transactions /\ new.kept = db.kept
      /\ new.projection.damaged = TRUE /\ LastSequence(new) = LastSequence(db)
  BY <1>2, <1>3 DEF LastSequence
<1>5. new \in Databases BY <1>1, <1>2, <1>3, Parts DEF Databases
<1>6. Written(new) BY <1>1, <1>4, <1>5 DEF Sound, Written, Shaped
<1> QED BY <1>4, <1>6 DEF Sound, Verifies

(* A comparison that succeeds tells of the last transaction, and of a file *)
(* with the same history.                                                  *)
LEMMA CompareKeeps == ASSUME DatabaseInv, CompareBackup PROVE DatabaseInv'
<1> DEFINE last == LastSequence(live)
           new == <<last, live.transactions[last].id>>
           equal == Inspectable(file[copying]) /\ ManifestOf(file[copying]) = ManifestOf(live)
<1>1. /\ Sound(live) /\ last \in Nat \ {0} /\ open
      /\ copying \in Paths /\ Sound(file[copying]) /\ copying' = NoFile
      /\ UNCHANGED <<live, open, file, staged, minted, opChanges, accidents>>
  BY SoundIsFile DEF DatabaseInv, BackupsBegin, CompareBackup
<1>2. staged = NoFile BY <1>1 DEF DatabaseInv, StagedHasAll
<1>3. CASE ~equal
  <2>1. UNCHANGED <<manifest, told>> BY <1>3 DEF CompareBackup
  <2> HIDE DEF equal
  <2>2. ToldIsKept' BY <1>1, <2>1 DEF DatabaseInv, ToldIsKept
  <2>3. IdentitiesMinted' BY <1>1, <2>1 DEF DatabaseInv, IdentitiesMinted
  <2>4. BackupsBegin' BY <1>1, <2>1 DEF DatabaseInv, BackupsBegin
  <2>5. StagedHasAll' BY <1>1, <1>2 DEF StagedHasAll
  <2> QED BY <1>1, <2>2, <2>3, <2>4, <2>5 DEF DatabaseInv
<1>4. CASE equal
  <2>1. manifest' = [manifest EXCEPT ![copying] = ManifestOf(live)] /\ told' = told \cup {new}
    BY <1>4 DEF CompareBackup
  <2>2. file[copying].transactions = live.transactions
    BY <1>4 DEF ManifestOf, AuthoritativeDigest
  <2> HIDE DEF equal
  <2>3. LastSequence(file[copying]) = last /\ Begins(file[copying], live)
    BY <2>2 DEF LastSequence, Begins
  <2>4. live.transactions[last].id \in 1 .. minted /\ minted \in Nat
    BY <1>1, DatabaseAssumption DEF DatabaseInv, IdentitiesMinted
  <2>5. new \in Nat \X Nat /\ new[1] = last /\ new[2] = live.transactions[last].id
    BY <1>1, <2>4
  <2>6. ToldIsKept'
    <3>1. /\ told \subseteq Nat \X Nat
          /\ \A t \in told : t[1] \in 1 .. last /\ live.transactions[t[1]].id = t[2]
      BY DEF DatabaseInv, ToldIsKept
    <3>2. LastSequence(live') = last BY <1>1
    <3> HIDE DEF last, new
    <3>3. \A s \in told' : s[1] <= new[1] BY <1>1, <2>1, <2>5, <3>1
    <3>4. told' \subseteq Nat \X Nat BY <2>1, <2>5, <3>1
    <3>5. \A t \in told' : t[1] \in 1 .. last /\ live.transactions[t[1]].id = t[2]
      BY <1>1, <2>1, <2>5, <3>1
    <3>6. new \in told' BY <2>1
    <3> QED BY <1>1, <3>2, <3>3, <3>4, <3>5, <3>6 DEF ToldIsKept
  <2>7. IdentitiesMinted' BY <1>1 DEF DatabaseInv, IdentitiesMinted
  <2>8. BackupsBegin'
    <3>1. /\ file = [p \in Paths |-> file[p]] /\ manifest = [p \in Paths |-> manifest[p]]
          /\ \A p \in Paths : manifest[p] # NoFile =>
               /\ Sound(file[p]) /\ Begins(file[p], live)
               /\ \E t \in told : t[1] = LastSequence(file[p])
      BY DEF DatabaseInv, BackupsBegin
    <3> HIDE DEF last, new
    <3>2. ASSUME NEW p \in Paths, manifest'[p] # NoFile
          PROVE  /\ Sound(file[p]) /\ Begins(file[p], live)
                 /\ \E t \in told' : t[1] = LastSequence(file[p])
      <4>1. CASE p = copying BY <1>1, <2>1, <2>3, <2>5, <4>1
      <4>2. CASE p # copying
        <5>1. manifest[p] # NoFile BY <2>1, <3>1, <3>2, <4>2
        <5> QED BY <2>1, <3>1, <5>1
      <4> QED BY <4>1, <4>2
    <3>3. manifest' = [p \in Paths |-> manifest'[p]] BY <2>1, <3>1
    <3> QED BY <1>1, <3>1, <3>2, <3>3 DEF BackupsBegin
  <2>9. StagedHasAll' BY <1>1, <1>2 DEF StagedHasAll
  <2> QED BY <1>1, <2>6, <2>7, <2>8, <2>9 DEF DatabaseInv
<1> QED BY <1>3, <1>4

(* The highest sequence seen outside is one that was told, and none of the *)
(* told ones is higher.                                                    *)
LEMMA HighestTold ==
  ASSUME DatabaseInv
  PROVE  LET seen == {t[1] : t \in told}
             minimum == CHOOSE n \in seen : \A m \in seen : m <= n
         IN \A t \in told : t[1] <= minimum
<1> DEFINE seen == {t[1] : t \in told}
           minimum == CHOOSE n \in seen : \A m \in seen : m <= n
<1>1. PICK t \in told : \A s \in told : s[1] <= t[1] BY DEF DatabaseInv, ToldIsKept
<1>2. t[1] \in seen /\ \A m \in seen : m <= t[1] BY <1>1
<1>3. \A m \in seen : m <= minimum
  <2> HIDE DEF seen
  <2> QED BY <1>2
<1> QED BY <1>3

(* A copy that verifyBackup accepts begins the history of the database in  *)
(* use and has all that was told of it.                                    *)
LEMMA StageKeeps == ASSUME DatabaseInv, NEW p \in Paths, StageRestore(p) PROVE DatabaseInv'
<1> DEFINE seen == {t[1] : t \in told}
           minimum == CHOOSE n \in seen : \A m \in seen : m <= n
<1>1. /\ ~open /\ VerifyBackup(p, live.lineage, minimum) /\ staged' = file[p]
      /\ UNCHANGED <<live, open, file, manifest, copying, minted, told, opChanges, accidents>>
  BY DEF StageRestore
<1>2. manifest[p] # NoFile /\ LastSequence(file[p]) >= minimum BY <1>1 DEF VerifyBackup
<1>3. Sound(file[p]) /\ Begins(file[p], live) BY <1>2 DEF DatabaseInv, BackupsBegin
<1>4. \A t \in told : t[1] <= minimum BY HighestTold
<1>5. minimum \in seen
  <2>1. PICK t \in told : \A s \in told : s[1] <= t[1] BY DEF DatabaseInv, ToldIsKept
  <2>2. t[1] \in seen /\ \A m \in seen : m <= t[1] BY <2>1
  <2> HIDE DEF seen
  <2> QED BY <2>2
<1>6. minimum \in Nat /\ \A t \in told : t[1] \in Nat
  BY <1>5 DEF DatabaseInv, ToldIsKept
<1>7. LastSequence(file[p]) \in Nat BY <1>3, SoundIsFile
<1> HIDE DEF minimum
<1>8. \A t \in told : t[1] <= LastSequence(file[p]) BY <1>2, <1>4, <1>6, <1>7
<1>9. StagedHasAll' BY <1>1, <1>3, <1>8 DEF StagedHasAll
<1>10. ToldIsKept' BY <1>1 DEF DatabaseInv, ToldIsKept
<1>11. IdentitiesMinted' BY <1>1 DEF DatabaseInv, IdentitiesMinted
<1>12. BackupsBegin' BY <1>1 DEF DatabaseInv, BackupsBegin
<1> QED BY <1>1, <1>9, <1>10, <1>11, <1>12 DEF DatabaseInv

(* The activated copy has lost nothing that was told, and every backup     *)
(* with a manifest begins its history too.                                 *)
LEMMA OpenKeeps == ASSUME DatabaseInv, OpenStore PROVE DatabaseInv'
<1>1. /\ open' = TRUE /\ staged' = NoFile /\ ~open
      /\ UNCHANGED <<file, manifest, copying, minted, told, opChanges, accidents>>
      /\ live' = live \/ (staged # NoFile /\ live' = staged)
  BY DEF OpenStore
<1>2. StagedHasAll' BY <1>1 DEF StagedHasAll
<1>3. copying = NoFile BY <1>1 DEF DatabaseInv, BackupsBegin
<1>4. CASE live' = live
  <2>1. ToldIsKept' BY <1>1, <1>4 DEF DatabaseInv, ToldIsKept
  <2>2. IdentitiesMinted' BY <1>1, <1>4 DEF DatabaseInv, IdentitiesMinted
  <2>3. BackupsBegin' BY <1>1, <1>3, <1>4 DEF DatabaseInv, BackupsBegin
  <2> QED BY <1>1, <1>2, <1>4, <2>1, <2>2, <2>3 DEF DatabaseInv
<1>5. CASE staged # NoFile /\ live' = staged
  <2>1. /\ Sound(staged) /\ Begins(staged, live)
        /\ \A t \in told : t[1] <= LastSequence(staged)
    BY <1>5 DEF DatabaseInv, StagedHasAll
  <2>2. /\ LastSequence(staged) \in Nat /\ LastSequence(live) \in Nat
        /\ LastSequence(staged) <= LastSequence(live)
        /\ \A n \in 1 .. LastSequence(staged) : staged.transactions[n] = live.transactions[n]
    BY <2>1, SoundIsFile DEF DatabaseInv, Begins
  <2>3. /\ told \subseteq Nat \X Nat
        /\ \A t \in told : t[1] \in 1 .. LastSequence(live) /\ live.transactions[t[1]].id = t[2]
        /\ \E t \in told : \A s \in told : s[1] <= t[1]
    BY DEF DatabaseInv, ToldIsKept
  <2>4. \A t \in told : t[1] \in 1 .. LastSequence(staged) /\ staged.transactions[t[1]].id = t[2]
    BY <2>1, <2>2, <2>3
  <2>5. ToldIsKept' BY <1>1, <1>5, <2>3, <2>4 DEF ToldIsKept
  <2>6. IdentitiesMinted'
    <3>1. /\ minted \in 1 .. MaxMinted /\ LastSequence(live) <= minted
          /\ \A n \in 1 .. LastSequence(live) : live.transactions[n].id \in 1 .. minted
      BY DEF DatabaseInv, IdentitiesMinted
    <3>2. LastSequence(staged) <= minted BY <2>2, <3>1, DatabaseAssumption
    <3>3. \A n \in 1 .. LastSequence(staged) : staged.transactions[n].id \in 1 .. minted
      BY <2>2, <3>1
    <3> QED BY <1>1, <1>5, <3>1, <3>2, <3>3 DEF IdentitiesMinted
  <2>7. ASSUME NEW p \in Paths, manifest[p] # NoFile PROVE Begins(file[p], staged)
    <3>1. Sound(file[p]) /\ Begins(file[p], live) /\ \E t \in told : t[1] = LastSequence(file[p])
      BY <2>7 DEF DatabaseInv, BackupsBegin
    <3>2. LastSequence(file[p]) \in Nat /\ LastSequence(file[p]) <= LastSequence(staged)
      BY <2>1, <3>1, SoundIsFile
    <3> QED BY <2>1, <2>2, <3>1, <3>2, BeginsShorter
  <2>8. BackupsBegin' BY <1>1, <1>3, <1>5, <2>7 DEF DatabaseInv, BackupsBegin
  <2> QED BY <1>1, <1>2, <1>5, <2>1, <2>5, <2>6, <2>8 DEF DatabaseInv
<1> QED BY <1>1, <1>4, <1>5

(* A copy is as sound as the database it was made from.                    *)
LEMMA CopyKeeps == ASSUME DatabaseInv, NEW p \in Paths, CopyBackup(p) PROVE DatabaseInv'
<1>1. /\ open /\ copying = NoFile /\ file[p] = NoFile
      /\ file' = [file EXCEPT ![p] = live] /\ copying' = p
      /\ UNCHANGED <<live, open, manifest, staged, minted, told, opChanges, accidents>>
  BY DEF CopyBackup, Usable
<1>2. ToldIsKept' BY <1>1 DEF DatabaseInv, ToldIsKept
<1>3. IdentitiesMinted' BY <1>1 DEF DatabaseInv, IdentitiesMinted
<1>4. StagedHasAll' BY <1>1 DEF DatabaseInv, StagedHasAll
<1>5. BackupsBegin'
  <2>1. /\ file = [q \in Paths |-> file[q]] /\ manifest = [q \in Paths |-> manifest[q]]
        /\ \A q \in Paths : manifest[q] # NoFile =>
             /\ Sound(file[q]) /\ Begins(file[q], live)
             /\ \E t \in told : t[1] = LastSequence(file[q])
    BY DEF DatabaseInv, BackupsBegin
  <2>2. manifest[p] = NoFile BY <1>1, <2>1, SoundIsFile
  <2>3. \A q \in Paths : manifest[q] # NoFile => file'[q] = file[q] BY <1>1, <2>1, <2>2
  <2>4. file'[p] = live /\ Sound(live) BY <1>1, <2>1 DEF DatabaseInv
  <2>5. file' = [q \in Paths |-> file'[q]] BY <1>1, <2>1
  <2> QED BY <1>1, <2>1, <2>3, <2>4, <2>5 DEF BackupsBegin
<1> QED BY <1>1, <1>2, <1>3, <1>4, <1>5 DEF DatabaseInv

(* Damage to a backup file is not damage to its history.                   *)
LEMMA FileDamageKeeps ==
  ASSUME DatabaseInv, NEW p \in Paths, file[p] # NoFile, copying # p,
         file' = [file EXCEPT ![p].operational = MaxOpState + 1],
         UNCHANGED <<live, open, manifest, copying, staged, minted, told, opChanges>>,
         accidents' \in 0 .. MaxAccidents
  PROVE  DatabaseInv'
<1>1. ToldIsKept' BY DEF DatabaseInv, ToldIsKept
<1>2. IdentitiesMinted' BY DEF DatabaseInv, IdentitiesMinted
<1>3. StagedHasAll' BY DEF DatabaseInv, StagedHasAll
<1>4. BackupsBegin'
  <2>1. /\ file = [q \in Paths |-> file[q]] /\ manifest = [q \in Paths |-> manifest[q]]
        /\ \A q \in Paths : manifest[q] # NoFile =>
             /\ Sound(file[q]) /\ Begins(file[q], live)
             /\ \E t \in told : t[1] = LastSequence(file[q])
        /\ copying \in Paths \cup {NoFile}
        /\ copying # NoFile => open /\ Sound(file[copying])
    BY DEF DatabaseInv, BackupsBegin
  <2>2. PICK new : new = [file[p] EXCEPT !.operational = MaxOpState + 1] OBVIOUS
  <2>3. file' = [file EXCEPT ![p] = new] BY <2>2
  <2>4. file'[p] = new /\ \A q \in Paths : q # p => file'[q] = file[q] BY <2>1, <2>3
  <2>5. file' = [q \in Paths |-> file'[q]] BY <2>1, <2>3
  <2>6. ASSUME Sound(file[p]) PROVE Sound(new) /\ new.transactions = file[p].transactions
    BY <2>2, <2>6, OperationKeepsSound, DatabaseAssumption
  <2>7. ASSUME NEW q \in Paths, manifest[q] # NoFile
        PROVE  /\ Sound(file'[q]) /\ Begins(file'[q], live)
               /\ \E t \in told : t[1] = LastSequence(file'[q])
    <3>1. CASE q = p
      <4>1. Sound(new) /\ new.transactions = file[p].transactions BY <2>1, <2>6, <2>7, <3>1
      <4>2. LastSequence(new) = LastSequence(file[p]) /\ Begins(new, live)
        BY <2>1, <2>7, <3>1, <4>1 DEF LastSequence, Begins
      <4> QED BY <2>1, <2>4, <2>7, <3>1, <4>1, <4>2
    <3>2. CASE q # p BY <2>1, <2>4, <2>7, <3>2
    <3> QED BY <3>1, <3>2
  <2>8. copying # NoFile => open /\ Sound(file'[copying]) BY <2>1, <2>4
  <2> QED BY <2>1, <2>5, <2>7, <2>8 DEF BackupsBegin
<1> QED BY <1>1, <1>2, <1>3, <1>4 DEF DatabaseInv

(* Every step keeps the invariant.                                         *)
LEMMA DatabaseStep == DatabaseInv /\ [DatabaseNext]_databaseVars => DatabaseInv'
<1> SUFFICES ASSUME DatabaseInv, [DatabaseNext]_databaseVars PROVE DatabaseInv'
  OBVIOUS
<1>0. /\ Sound(live) /\ Written(live) /\ Shaped(live) /\ LastSequence(live) \in Nat
      /\ minted \in Nat /\ accidents \in 0 .. MaxAccidents /\ opChanges \in Nat
  BY SoundIsFile, DatabaseAssumption DEF DatabaseInv, IdentitiesMinted, Sound
<1>1. ASSUME NEW check \in BOOLEAN, Command(check) PROVE DatabaseInv'
  <2>1. /\ open /\ minted < MaxMinted /\ live' = Committed(live, check) /\ Announce
        /\ UNCHANGED <<open, file, manifest, copying, staged, opChanges>>
    BY <1>1 DEF Command, Usable
  <2>2. Sound(live') BY <1>0, <2>1, CommitVerifies
  <2>3. /\ LastSequence(live') = LastSequence(live) + 1
        /\ live'.transactions[LastSequence(live) + 1].id = minted + 1
        /\ \A n \in 1 .. LastSequence(live) : live'.transactions[n] = live.transactions[n]
    BY <1>0, <2>1, CommitAppends
  <2> QED BY <2>1, <2>2, <2>3, GrowthKeeps
<1>2. CASE PruneDetail
  <2>1. /\ open /\ minted < MaxMinted /\ Announce
        /\ live' = Rebuilt(Committed([live EXCEPT !.kept = @ \ OldChecks(live)], FALSE))
        /\ UNCHANGED <<open, file, manifest, copying, staged, opChanges>>
    BY <1>2 DEF PruneDetail, Usable
  <2>2. /\ Sound(live') /\ LastSequence(live') = LastSequence(live) + 1
        /\ live'.transactions[LastSequence(live) + 1].id = minted + 1
        /\ \A n \in 1 .. LastSequence(live) : live'.transactions[n] = live.transactions[n]
    BY <1>0, <2>1, PrunedVerifies
  <2> QED BY <2>1, <2>2, GrowthKeeps
<1>3. CASE Operate
  <2>1. /\ live' = [live EXCEPT !.operational = opChanges + 1] /\ opChanges' = opChanges + 1
        /\ UNCHANGED <<open, file, manifest, copying, staged, minted, told, accidents>>
    BY <1>3 DEF Operate
  <2>2. Sound(live') /\ live'.transactions = live.transactions
    BY <1>0, <2>1, OperationKeepsSound
  <2> QED BY <1>0, <2>1, <2>2, RetouchKeeps
<1>4. CASE RebuildProjections \/ RepairProjections
  <2>1. /\ live' = Rebuilt(live)
        /\ UNCHANGED <<open, file, manifest, copying, staged, minted, told, opChanges, accidents>>
    BY <1>4 DEF RebuildProjections, RepairProjections
  <2>2. Sound(live') /\ live'.transactions = live.transactions
    BY <1>0, <2>1, RebuiltVerifies
  <2> QED BY <1>0, <2>1, <2>2, RetouchKeeps
<1>5. CASE CloseStore
  <2>1. /\ open' = FALSE /\ copying = NoFile
        /\ UNCHANGED <<live, file, manifest, copying, staged, minted, told, opChanges, accidents>>
    BY <1>5 DEF CloseStore
  <2>2. ToldIsKept' BY <2>1 DEF DatabaseInv, ToldIsKept
  <2>3. IdentitiesMinted' BY <2>1 DEF DatabaseInv, IdentitiesMinted
  <2>4. BackupsBegin' BY <2>1 DEF DatabaseInv, BackupsBegin
  <2>5. StagedHasAll' BY <2>1 DEF DatabaseInv, StagedHasAll
  <2> QED BY <1>0, <2>1, <2>2, <2>3, <2>4, <2>5 DEF DatabaseInv
<1>6. CASE Damage
  <2>1. accidents' \in 0 .. MaxAccidents
    BY <1>0, <1>6, DatabaseAssumption DEF Damage
  <2>2. UNCHANGED <<open, manifest, copying, staged, minted, told, opChanges>>
    BY <1>6 DEF Damage
  <2>3. CASE /\ live' \in {[live EXCEPT !.projection = Missing],
                           [live EXCEPT !.projection.rows = {}, !.projection.damaged = TRUE]}
             /\ UNCHANGED file
    <3>1. Sound(live') /\ live'.transactions = live.transactions
      BY <1>0, <2>3, DamageKeepsSound
    <3> QED BY <1>0, <2>1, <2>2, <2>3, <3>1, RetouchKeeps
  <2>4. CASE /\ \E p \in Paths : /\ file[p] # NoFile /\ copying # p
                                 /\ file' = [file EXCEPT ![p].operational = MaxOpState + 1]
             /\ UNCHANGED live
    BY <2>1, <2>2, <2>4, FileDamageKeeps
  <2> QED BY <1>6, <2>3, <2>4 DEF Damage
<1>7. CASE UNCHANGED databaseVars
  <2>1. UNCHANGED <<live, open, file, manifest, copying, staged, minted, told, opChanges, accidents>>
    BY <1>7 DEF databaseVars
  <2> QED BY <1>0, <2>1, RetouchKeeps
<1> QED BY <1>1, <1>2, <1>3, <1>4, <1>5, <1>6, <1>7, CompareKeeps, StageKeeps, OpenKeeps, CopyKeeps
        DEF DatabaseNext

(* It holds from the beginning on.                                         *)
LEMMA DatabaseInvariant == DatabaseSpec => []DatabaseInv
<1>1. DatabaseInit => DatabaseInv
  <2> SUFFICES ASSUME DatabaseInit PROVE DatabaseInv OBVIOUS
  <2> DEFINE first == [id |-> 1, check |-> FALSE]
             bare == [lineage |-> 1, transactions |-> <<first>>, kept |-> {1}, operational |-> 0,
                      projection |-> Missing]
  <2>1. first \in Transactions /\ first.id = 1 /\ Missing \in Projections
    BY DEF Transactions, Missing, Projections
  <2>2. live = Rebuilt(bare) BY DEF DatabaseInit
  <2>3. /\ bare.transactions = <<first>> /\ bare.kept = {1} /\ bare.lineage = 1
        /\ bare.operational = 0 /\ bare.projection = Missing
    OBVIOUS
  <2>4. <<first>> \in Seq(Transactions) /\ Len(<<first>>) = 1 /\ <<first>>[1] = first
    <3> HIDE DEF first
    <3> QED BY <2>1
  <2>5. bare \in Databases
    <3> HIDE DEF first
    <3> QED BY <2>1, <2>4 DEF Databases
  <2> HIDE DEF first, bare
  <2>6. Written(bare) BY <2>3, <2>4, <2>5 DEF Written, Shaped, LastSequence
  <2>7. Sound(live) /\ live.transactions = <<first>> BY <2>2, <2>3, <2>6, RebuiltVerifies
  <2>8. LastSequence(live) = 1 /\ live.transactions[1].id = 1
    BY <2>1, <2>4, <2>7 DEF LastSequence
  <2>9. /\ open = TRUE /\ file = [p \in Paths |-> NoFile] /\ manifest = file
        /\ copying = NoFile /\ staged = NoFile
        /\ minted = 1 /\ told = {<<1, 1>>} /\ opChanges = 0 /\ accidents = 0
    BY DEF DatabaseInit
  <2>10. ToldIsKept BY <2>8, <2>9 DEF ToldIsKept
  <2>11. IdentitiesMinted BY <2>8, <2>9, DatabaseAssumption DEF IdentitiesMinted
  <2>12. BackupsBegin BY <2>9 DEF BackupsBegin
  <2>13. StagedHasAll BY <2>9 DEF StagedHasAll
  <2> HIDE DEF DatabaseInit
  <2> QED BY <2>7, <2>9, <2>10, <2>11, <2>12, <2>13, DatabaseAssumption DEF DatabaseInv
<1> QED BY <1>1, DatabaseStep, PTL DEF DatabaseSpec

-----------------------------------------------------------------------------
(* The results.                                                            *)

(* The database in use keeps its newest transaction, numbers and           *)
(* identities stay in step, and files, manifests and the staged copy go    *)
(* with the phase of the backup or restoration they belong to.             *)
THEOREM DatabaseTypeCorrect == DatabaseSpec => []DatabaseTypeOK
<1>1. ASSUME DatabaseInv PROVE DatabaseTypeOK
  <2>1. /\ LastSequence(live) \in Nat /\ live.kept \subseteq 1 .. LastSequence(live)
        /\ LastSequence(live) \in live.kept
    BY <1>1, SoundIsFile DEF DatabaseInv, Sound, Written, Shaped
  <2>2. minted \in Nat /\ minted \in 1 .. MaxMinted /\ LastSequence(live) <= minted
    BY <1>1, DatabaseAssumption DEF DatabaseInv, IdentitiesMinted
  <2>3. ASSUME NEW t \in told PROVE t \in (1 .. minted) \X (1 .. minted)
    <3>1. t \in Nat \X Nat /\ t[1] \in 1 .. LastSequence(live) /\ live.transactions[t[1]].id = t[2]
      BY <1>1 DEF DatabaseInv, ToldIsKept
    <3>2. t[2] \in 1 .. minted BY <1>1, <3>1 DEF DatabaseInv, IdentitiesMinted
    <3>3. t[1] \in 1 .. minted BY <2>1, <2>2, <3>1
    <3> QED BY <3>1, <3>2, <3>3
  <2>4. \A p \in Paths : manifest[p] # NoFile => file[p] # NoFile
    BY <1>1, SoundIsFile DEF DatabaseInv, BackupsBegin
  <2>5. copying # NoFile => open /\ file[copying] # NoFile
    BY <1>1, SoundIsFile DEF DatabaseInv, BackupsBegin
  <2> QED BY <1>1, <2>1, <2>2, <2>3, <2>4, <2>5 DEF DatabaseTypeOK, DatabaseInv, StagedHasAll
<1> QED BY <1>1, DatabaseInvariant, PTL

(* However commits, deaths, prunings, backups, damage and restorations     *)
(* interleave, the database in use has every transaction somebody outside  *)
(* was told of under its number.                                           *)
THEOREM ToldStaysTrue == DatabaseSpec => []NothingToldIsLost
<1>1. ASSUME DatabaseInv PROVE NothingToldIsLost
  <2>1. /\ told \subseteq Nat \X Nat /\ LastSequence(live) \in Nat
        /\ \A t \in told : t[1] \in 1 .. LastSequence(live) /\ live.transactions[t[1]].id = t[2]
    BY <1>1, SoundIsFile DEF DatabaseInv, ToldIsKept
  <2>2. ASSUME NEW s \in told, NEW t \in told, s[1] = t[1] PROVE s = t
    <3>1. s[2] = t[2] BY <2>1, <2>2
    <3>2. s \in Nat \X Nat /\ t \in Nat \X Nat BY <2>1
    <3> QED BY <2>2, <3>1, <3>2
  <2> QED BY <2>1, <2>2 DEF NothingToldIsLost
<1> QED BY <1>1, DatabaseInvariant, PTL

(* A projection that nobody damaged verifies, in the database in use, in   *)
(* every backup with a manifest and in what is restored from one.          *)
THEOREM ProjectionsStayVerified == DatabaseSpec => []ProjectionsVerify
<1>1. ASSUME DatabaseInv PROVE ProjectionsVerify
  BY <1>1 DEF DatabaseInv, BackupsBegin, Sound, Verifies, ProjectionsVerify
<1> QED BY <1>1, DatabaseInvariant, PTL

====

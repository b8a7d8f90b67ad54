---- MODULE CoreControlProofs ----
(***************************************************************************)
(* Theorems about how the control plane follows Core, for every set of     *)
(* processes and commits and every value of the limits.                    *)
(***************************************************************************)
EXTENDS CoreControl, TLAPS

-----------------------------------------------------------------------------
(* Sets of records that are numbered by their transaction.                 *)

(* Some member is the newest.                                              *)
Topped(S) == S # {} => \E x \in S : \A y \in S : y.seq <= x.seq

(* A number belongs to one member.                                         *)
Distinct(S) == \A x, y \in S : x.seq = y.seq => x = y

(* Newest finds a newest member where there is one.                        *)
LEMMA NewestOf ==
  ASSUME NEW S, Topped(S), S # {}
  PROVE  Newest(S) \in S /\ \A y \in S : y.seq <= Newest(S).seq
BY DEF Topped, Newest

(* It finds no other one.                                                  *)
LEMMA NewestIs ==
  ASSUME NEW S, Distinct(S), \A y \in S : y.seq \in Nat, NEW x \in S, \A y \in S : y.seq <= x.seq
  PROVE  Newest(S) = x
<1>1. Topped(S) BY DEF Topped
<1>2. Newest(S) \in S /\ x.seq <= Newest(S).seq /\ Newest(S).seq <= x.seq BY <1>1, NewestOf
<1> QED BY <1>2 DEF Distinct

(* A member with a number above all others becomes the newest.             *)
LEMMA NewestAdded ==
  ASSUME NEW S, NEW x, Distinct(S), \A y \in S \cup {x} : y.seq \in Nat, \A y \in S : y.seq < x.seq
  PROVE  Distinct(S \cup {x}) /\ Topped(S \cup {x}) /\ Newest(S \cup {x}) = x
<1>1. Distinct(S \cup {x}) BY DEF Distinct
<1>2. x \in S \cup {x} /\ \A y \in S \cup {x} : y.seq <= x.seq OBVIOUS
<1>3. Topped(S \cup {x}) BY <1>2 DEF Topped
<1>4. Newest(S \cup {x}) = x BY <1>1, <1>2, NewestIs
<1> QED BY <1>1, <1>3, <1>4

(* A part that keeps the newest member keeps it as its newest.             *)
LEMMA NewestKept ==
  ASSUME NEW S, NEW T \in SUBSET S, Topped(S), Distinct(S), \A y \in S : y.seq \in Nat,
         S # {} => Newest(S) \in T
  PROVE  (T = {} <=> S = {}) /\ Topped(T) /\ Newest(T) = Newest(S)
<1>1. CASE S = {}
  <2>1. T = S BY <1>1
  <2> QED BY <1>1, <2>1 DEF Topped
<1>2. CASE S # {}
  <2>1. Newest(S) \in T /\ \A y \in T : y.seq <= Newest(S).seq BY <1>2, NewestOf
  <2>2. Topped(T) BY <2>1 DEF Topped
  <2>3. Distinct(T) BY DEF Distinct
  <2>4. Newest(T) = Newest(S) BY <2>1, <2>3, NewestIs
  <2> QED BY <1>2, <2>1, <2>2, <2>4
<1> QED BY <1>1, <1>2

-----------------------------------------------------------------------------
(* Type correctness.                                                       *)

SnapshotRow == [seq : Seqs, commit : Commits, at : Times, expected : Seqs,
                by : {"activate", "rollback"}, previous : Seqs \cup {0}]
CheckRow == [seq : Seqs, at : Times, commit : MaybeCommit, active : MaybeCommit,
             operation : {"automatic-source-check", "operator-rollback"},
             outcome : Rejections \cup {"eligible"}]
OverrideRow == [seq : Seqs, at : Times, expiresAt : Nat, snapshot : Seqs, check : Seqs,
                validatedAt : Times]
PollRow == [nextPollAt : Nat, nextPruneAt : Nat, streak : 0 .. 2, lastCompletedAt : Times,
            lease : [run : 0 .. MaxRuns, startedAt : Times, expiresAt : Nat]]
ProcRow ==
  [pc : {"idle", "inspect", "verify", "sequence", "activate", "eligible", "reject",
         "maintain", "complete"},
   run : 0 .. MaxRuns, expected : Seqs \cup {0}, pruneDue : BOOLEAN,
   candidate : MaybeCommit, active : MaybeCommit, pruned : BOOLEAN,
   outcome : Rejections \cup {"none", "eligible"}]

(* TypeOK by the names of its rows.                                        *)
LEMMA TypeRows ==
  TypeOK <=>
    /\ clock \in Times /\ watermark \in Times /\ lastSeq \in Seqs
    /\ snapshots \subseteq SnapshotRow /\ checks \subseteq CheckRow
    /\ overrides \subseteq OverrideRow
    /\ poll \in PollRow /\ runs \in 0 .. MaxRuns /\ proc \in [Procs -> ProcRow]
BY DEF TypeOK, SnapshotRow, CheckRow, OverrideRow, PollRow, ProcRow

(* What is the newest of everything is of the store's kind.                *)
Ordered ==
  /\ Topped(snapshots) /\ Distinct(snapshots) /\ Distinct(checks)
  /\ Topped(Automatic(checks)) /\ Topped(Validated(checks)) /\ Topped(Substantive(checks))

(* The active snapshot's row, or none.                                     *)
LEMMA ActiveType ==
  ASSUME TypeOK, Topped(snapshots)
  PROVE  /\ snapshots = {} => Active = NoSnapshot /\ Active.commit = NoCommit /\ Active.seq = 0
         /\ snapshots # {} => /\ Active \in snapshots /\ Active \in SnapshotRow
                              /\ Active.commit \in Commits /\ Active.commit # NoCommit
                              /\ \A s \in snapshots : s.seq <= Active.seq
         /\ Active.commit \in MaybeCommit /\ Active.seq \in Seqs \cup {0}
<1>1. CASE snapshots = {} BY <1>1 DEF Active, ActiveIn, NoSnapshot, MaybeCommit
<1>2. CASE snapshots # {}
  <2>1. Active = Newest(snapshots) BY <1>2 DEF Active, ActiveIn
  <2>2. Active \in snapshots /\ \A s \in snapshots : s.seq <= Active.seq
    BY <1>2, <2>1, NewestOf
  <2>3. Active \in SnapshotRow BY <2>2, TypeRows
  <2> QED BY <1>2, <2>2, <2>3, CoreAssumption DEF SnapshotRow, MaybeCommit
<1> QED BY <1>1, <1>2

(* What a transaction does to the clocks.                                  *)
LEMMA TransactionType ==
  ASSUME TypeOK, Transaction
  PROVE  /\ lastSeq' \in Seqs /\ watermark' \in Times /\ lastSeq + 1 \in Seqs
         /\ lastSeq' = lastSeq + 1 /\ watermark' = clock /\ watermark <= clock
BY CoreAssumption DEF TypeOK, Transaction, Seqs, Times

(* The rows that the store's writes add.                                   *)
LEMMA NewSnapshotType ==
  ASSUME TypeOK, Topped(snapshots), Transaction, NEW c \in Commits,
         NEW by \in {"activate", "rollback"}, NEW e \in Seqs, NewSnapshot(c, by, e)
  PROVE  snapshots' \subseteq SnapshotRow
<1>1. Replaces(by) \in Seqs \cup {0} BY ActiveType DEF Replaces
<1>2. clock \in Times /\ lastSeq + 1 \in Seqs BY TransactionType, TypeRows
<1>3. [seq |-> lastSeq + 1, commit |-> c, at |-> clock, expected |-> e, by |-> by,
       previous |-> Replaces(by)] \in SnapshotRow
  BY <1>1, <1>2 DEF SnapshotRow
<1> QED BY <1>3, TypeRows DEF NewSnapshot

(* A new check is a row of its kind.                                       *)
LEMMA NewCheckType ==
  ASSUME TypeOK, Transaction, NEW c \in MaybeCommit, NEW a \in MaybeCommit,
         NEW operation \in {"automatic-source-check", "operator-rollback"},
         NEW outcome \in Rejections \cup {"eligible"}, NewCheck(operation, outcome, c, a)
  PROVE  checks' \subseteq CheckRow
<1>1. clock \in Times /\ lastSeq + 1 \in Seqs BY TransactionType, TypeRows
<1>2. [seq |-> lastSeq + 1, at |-> clock, operation |-> operation, outcome |-> outcome,
       commit |-> c, active |-> a] \in CheckRow
  BY <1>1 DEF CheckRow
<1> QED BY <1>2, TypeRows DEF NewCheck

(* A process moves to another place of its program.                        *)
LEMMA StepType ==
  ASSUME proc \in [Procs -> ProcRow], NEW p \in Procs, NEW row \in ProcRow, Step(p, row)
  PROVE  proc' \in [Procs -> ProcRow]
BY DEF Step

(* A process at rest is a process.                                         *)
LEMMA IdleType == Idle \in ProcRow
BY CoreAssumption DEF Idle, ProcRow, NoRun, MaybeCommit

(* A synchronization ends at rest or at the upkeep of its poll run.        *)
LEMMA EndsType ==
  ASSUME TypeOK, NEW p \in Procs, NEW outcome \in Rejections \cup {"none", "eligible"},
         NEW failed \in BOOLEAN, Ends(p, outcome, failed)
  PROVE  proc' \in [Procs -> ProcRow]
<1>1. proc[p] \in ProcRow /\ proc \in [Procs -> ProcRow] BY TypeRows
<1>2. [Idle EXCEPT !.pc = IF failed THEN "complete" ELSE "maintain", !.run = proc[p].run,
                   !.pruneDue = proc[p].pruneDue, !.outcome = outcome] \in ProcRow
  BY <1>1, IdleType DEF ProcRow
<1> QED BY <1>1, <1>2, IdleType, StepType DEF Ends

(* A rejection is carried to where it is recorded.                         *)
LEMMA ToRejectType ==
  ASSUME TypeOK, NEW p \in Procs, NEW outcome \in Rejections,
         NEW c \in MaybeCommit, NEW a \in MaybeCommit, ToReject(p, outcome, c, a)
  PROVE  proc' \in [Procs -> ProcRow]
<1>1. proc[p] \in ProcRow /\ proc \in [Procs -> ProcRow] BY TypeRows
<1>2. [proc[p] EXCEPT !.pc = "reject", !.outcome = outcome, !.candidate = c, !.active = a]
        \in ProcRow
  BY <1>1 DEF ProcRow
<1> QED BY <1>1, <1>2, StepType DEF ToReject

(* The first state is of the right kind.                                   *)
LEMMA TypeInit == Init => TypeOK
<1>1. NoLease \in [run : 0 .. MaxRuns, startedAt : Times, expiresAt : Nat]
  BY CoreAssumption DEF NoLease, NoRun, Times
<1> QED BY <1>1, IdleType, TypeRows, CoreAssumption DEF Init, PollRow, Times, Seqs

(* A commit that a synchronization handles is a commit, or none.           *)
LEMMA CandidateType ==
  ASSUME TypeOK, NEW p \in Procs
  PROVE  /\ proc[p] \in ProcRow /\ proc \in [Procs -> ProcRow]
         /\ proc[p].candidate \in MaybeCommit /\ proc[p].active \in MaybeCommit
         /\ proc[p].expected \in Seqs \cup {0}
         /\ proc[p].run \in 0 .. MaxRuns
         /\ proc[p].outcome \in Rejections \cup {"none", "eligible"}
BY TypeRows DEF ProcRow

(* The newest checks that an override cites are checks.                    *)
LEMMA NewestCheckType ==
  ASSUME TypeOK, NEW C \in SUBSET checks, Topped(C), C # {}
  PROVE  Newest(C) \in checks /\ Newest(C).seq \in Seqs /\ Newest(C).at \in Times
<1>1. Newest(C) \in checks BY NewestOf
<1> QED BY <1>1, TypeRows DEF CheckRow

(* What a synchronization knows of its candidate by where it is.           *)
ProcSound(r) ==
  /\ r.pc \in {"verify", "sequence", "activate"} => r.candidate \in Valid
  /\ r.pc = "sequence" =>
       r.active \in {NoCommit, r.candidate} \/ Descends(r.candidate, r.active)
  /\ r.pc = "activate" => r.active = NoCommit \/ Descends(r.candidate, r.active)

ProcsSound == \A p \in Procs : ProcSound(proc[p])

(* Every step keeps every table well formed.                               *)
LEMMA TypeStep ==
  ASSUME TypeOK, Ordered, ProcsSound, [Next]_vars
  PROVE  TypeOK'
<1>0. /\ clock \in Times /\ watermark \in Times /\ lastSeq \in Seqs
      /\ snapshots \subseteq SnapshotRow /\ checks \subseteq CheckRow
      /\ overrides \subseteq OverrideRow
      /\ poll \in PollRow /\ runs \in 0 .. MaxRuns /\ proc \in [Procs -> ProcRow]
      /\ Times \subseteq Nat /\ Seqs \subseteq Nat
  BY TypeRows DEF Times, Seqs
<1>a. ASSUME UNCHANGED <<clock, store, poll, runs>>, proc' \in [Procs -> ProcRow] PROVE TypeOK'
  BY <1>0, <1>a DEF TypeOK, store, SnapshotRow, CheckRow, OverrideRow, PollRow, ProcRow
<1>b. ASSUME Transaction, UNCHANGED <<clock, poll, runs>>, proc' \in [Procs -> ProcRow],
             snapshots' \subseteq SnapshotRow, checks' \subseteq CheckRow,
             overrides' \subseteq OverrideRow
      PROVE  TypeOK'
  <2>1. lastSeq' \in Seqs /\ watermark' \in Times BY <1>b, TransactionType
  <2> QED BY <1>0, <1>b, <2>1 DEF TypeOK, SnapshotRow, CheckRow, OverrideRow, PollRow, ProcRow
<1>1. ASSUME NEW p \in Procs, ClaimCorePoll(p) PROVE TypeOK'
  <2>1. runs' \in 0 .. MaxRuns /\ runs + 1 \in 0 .. MaxRuns
    BY <1>0, <1>1, CoreAssumption DEF ClaimCorePoll
  <2>2. [run |-> runs + 1, startedAt |-> clock, expiresAt |-> clock + Lease]
          \in [run : 0 .. MaxRuns, startedAt : Times, expiresAt : Nat]
    BY <1>0, <2>1, CoreAssumption
  <2>3. poll' \in PollRow BY <1>0, <1>1, <2>2 DEF ClaimCorePoll, PollRow
  <2>4. ASSUME NEW due \in BOOLEAN
        PROVE  [Idle EXCEPT !.pc = "inspect", !.run = runs + 1, !.expected = lastSeq,
                            !.pruneDue = due] \in ProcRow
    BY <1>0, <2>1, IdleType DEF ProcRow
  <2>5. [Idle EXCEPT !.pc = "inspect", !.run = runs + 1, !.expected = lastSeq,
                     !.pruneDue = clock >= poll.nextPruneAt] \in ProcRow
    <3>1. (clock >= poll.nextPruneAt) \in BOOLEAN OBVIOUS
    <3> QED BY <2>4, <3>1
  <2>6. proc' \in [Procs -> ProcRow] BY <1>0, <1>1, <2>5, StepType DEF ClaimCorePoll
  <2> QED
    BY <1>0, <1>1, <2>1, <2>3, <2>6
    DEF ClaimCorePoll, TypeOK, store, SnapshotRow, CheckRow, OverrideRow, PollRow, ProcRow
<1>2. ASSUME NEW p \in Procs, StartActivate(p) PROVE TypeOK'
  <2>1. [Idle EXCEPT !.pc = "inspect", !.expected = lastSeq] \in ProcRow
    BY <1>0, IdleType DEF ProcRow
  <2>2. proc' \in [Procs -> ProcRow] BY <1>0, <1>2, <2>1, StepType DEF StartActivate
  <2> QED BY <1>2, <1>a, <2>2 DEF StartActivate
<1>3. ASSUME NEW p \in Procs, Throws(p) PROVE TypeOK'
  <2>1. proc' \in [Procs -> ProcRow] BY <1>3, EndsType DEF Throws
  <2> QED BY <1>3, <1>a, <2>1 DEF Throws
<1>4. ASSUME NEW p \in Procs, Inspect(p) PROVE TypeOK'
  <2>1. Active.commit \in MaybeCommit /\ NoCommit \in MaybeCommit /\ Commits \subseteq MaybeCommit
        /\ Valid \subseteq MaybeCommit
    BY ActiveType, CoreAssumption DEF Ordered, MaybeCommit
  <2>2. {"source-unavailable", "candidate-invalid"} \subseteq Rejections BY DEF Rejections
  <2>3. ASSUME NEW c \in Valid,
               Step(p, [proc[p] EXCEPT !.candidate = c, !.active = Active.commit,
                          !.pc = IF Active.commit \in {NoCommit, c} THEN "sequence" ELSE "verify"])
        PROVE  proc' \in [Procs -> ProcRow]
    <3>1. [proc[p] EXCEPT !.candidate = c, !.active = Active.commit,
             !.pc = IF Active.commit \in {NoCommit, c} THEN "sequence" ELSE "verify"] \in ProcRow
      BY <1>0, <2>1 DEF ProcRow
    <3> QED BY <1>0, <2>3, <3>1, StepType
  <2>4. proc' \in [Procs -> ProcRow]
    <3>1. CASE ToReject(p, "source-unavailable", NoCommit, NoCommit)
      BY <2>1, <2>2, <3>1, ToRejectType
    <3>2. CASE \E c \in Commits : ToReject(p, "candidate-invalid", c, NoCommit)
      BY <2>1, <2>2, <3>2, ToRejectType
    <3> QED BY <1>4, <2>3, <3>1, <3>2 DEF Inspect
  <2> QED BY <1>4, <1>a, <2>4 DEF Inspect
<1>5. ASSUME NEW p \in Procs, Verify(p) PROVE TypeOK'
  <2>1. [proc[p] EXCEPT !.pc = "sequence"] \in ProcRow BY <1>0 DEF ProcRow
  <2>2. ASSUME Step(p, [proc[p] EXCEPT !.pc = "sequence"]) PROVE proc' \in [Procs -> ProcRow]
    BY <1>0, <2>1, <2>2, StepType
  <2>3. ASSUME NEW o \in Rejections, ToReject(p, o, proc[p].candidate, proc[p].active)
        PROVE  proc' \in [Procs -> ProcRow]
    BY <2>3, CandidateType, ToRejectType
  <2>4. proc' \in [Procs -> ProcRow] BY <1>5, <2>2, <2>3 DEF Verify, Rejections
  <2> QED BY <1>5, <1>a, <2>4 DEF Verify
<1>6. ASSUME NEW p \in Procs, CheckSequence(p) PROVE TypeOK'
  <2>1. [proc[p] EXCEPT !.pc = IF proc[p].active = proc[p].candidate THEN "eligible" ELSE "activate"]
          \in ProcRow
    BY <1>0 DEF ProcRow
  <2>2. proc' \in [Procs -> ProcRow] BY <1>0, <1>6, <2>1, StepType DEF CheckSequence
  <2> QED BY <1>6, <1>a, <2>2 DEF CheckSequence
<1>7. ASSUME NEW p \in Procs, ActivateCoreSnapshot(p) PROVE TypeOK'
  <2>1. [proc[p] EXCEPT !.pc = "eligible"] \in ProcRow BY <1>0 DEF ProcRow
  <2>2. ASSUME Step(p, [proc[p] EXCEPT !.pc = "eligible"]) PROVE proc' \in [Procs -> ProcRow]
    BY <1>0, <2>1, <2>2, StepType
  <2>3. CASE UNCHANGED store
    <3>1. proc' \in [Procs -> ProcRow]
      <4>1. ASSUME ToReject(p, "persistence-failed", proc[p].candidate, proc[p].active)
            PROVE  proc' \in [Procs -> ProcRow]
        BY <4>1, CandidateType, ToRejectType DEF Rejections
      <4> QED BY <1>7, <2>2, <4>1 DEF ActivateCoreSnapshot
    <3> QED BY <1>7, <1>a, <2>3, <3>1 DEF ActivateCoreSnapshot
  <2>4. CASE /\ ActivationFence(p) /\ Transaction
             /\ NewSnapshot(proc[p].candidate, "activate", proc[p].expected)
             /\ Step(p, [proc[p] EXCEPT !.pc = "eligible"])
             /\ UNCHANGED <<checks, overrides>>
    <3>1. proc[p].expected \in Seqs BY <1>0, <2>4 DEF ActivationFence
    <3>2. proc[p].candidate \in Commits
      BY <1>7, CoreAssumption DEF ActivateCoreSnapshot, ProcsSound, ProcSound
    <3>3. snapshots' \subseteq SnapshotRow
      BY <2>4, <3>1, <3>2, NewSnapshotType DEF Ordered
    <3> QED BY <1>0, <1>7, <1>b, <2>2, <2>4, <3>3 DEF ActivateCoreSnapshot
  <2> QED BY <1>7, <2>3, <2>4 DEF ActivateCoreSnapshot
<1>8. ASSUME NEW p \in Procs, RecordEligible(p) PROVE TypeOK'
  <2>1. proc[p].candidate \in MaybeCommit BY CandidateType
  <2>2. checks' \subseteq CheckRow BY <1>8, <2>1, NewCheckType DEF RecordEligible
  <2>3. proc' \in [Procs -> ProcRow] BY <1>8, EndsType DEF RecordEligible
  <2> QED BY <1>0, <1>8, <1>b, <2>2, <2>3 DEF RecordEligible
<1>9. ASSUME NEW p \in Procs, Reject(p) PROVE TypeOK'
  <2> DEFINE r == Rejection(p)
  <2>1. /\ r.commit \in MaybeCommit /\ r.active \in MaybeCommit
        /\ r.outcome \in Rejections \cup {"none", "eligible"}
    BY CandidateType DEF Rejection
  <2>2. CASE UNCHANGED store
    <3>1. proc' \in [Procs -> ProcRow] BY <1>9, <2>1, EndsType DEF Reject
    <3> QED BY <1>9, <1>a, <2>2, <3>1 DEF Reject
  <2>3. CASE /\ Transaction
             /\ NewCheck("automatic-source-check", r.outcome, r.commit, r.active)
             /\ Ends(p, r.outcome, FALSE)
             /\ UNCHANGED <<snapshots, overrides>>
    <3>1. r.outcome \in Rejections \cup {"eligible"}
      BY <2>1, <2>3 DEF NewCheck, RejectionAdmitted, ContinuityCodes, Rejections
    <3>2. checks' \subseteq CheckRow BY <2>1, <2>3, <3>1, NewCheckType
    <3>3. proc' \in [Procs -> ProcRow] BY <2>1, <2>3, EndsType
    <3> QED BY <1>0, <1>9, <1>b, <2>3, <3>2, <3>3 DEF Reject
  <2> QED BY <1>9, <2>2, <2>3 DEF Reject
<1>10. ASSUME NEW p \in Procs, Maintain(p) PROVE TypeOK'
  <2>1. [proc[p] EXCEPT !.pc = "complete", !.pruned = TRUE] \in ProcRow
        /\ [proc[p] EXCEPT !.pc = "complete"] \in ProcRow
    BY <1>0 DEF ProcRow
  <2>2. proc' \in [Procs -> ProcRow] BY <1>0, <1>10, <2>1, StepType DEF Maintain
  <2>3. CASE UNCHANGED store BY <1>10, <1>a, <2>2, <2>3 DEF Maintain
  <2>4. CASE PruneCoreCheckDetail
    BY <1>0, <1>10, <1>b, <2>2, <2>4 DEF Maintain, PruneCoreCheckDetail
  <2> QED BY <1>10, <2>3, <2>4 DEF Maintain
<1>11. ASSUME NEW p \in Procs, CompleteCorePoll(p) PROVE TypeOK'
  <2>1. Delay(proc[p].outcome) \in Nat
    BY CoreAssumption DEF Delay, Larger
  <2>2. Streak(proc[p].outcome) \in 0 .. 2 BY <1>0 DEF Streak, PollRow
  <2>3. NoLease \in [run : 0 .. MaxRuns, startedAt : Times, expiresAt : Nat]
    BY CoreAssumption DEF NoLease, NoRun, Times
  <2>4. (IF proc[p].pruned THEN clock + PruneEvery ELSE poll.nextPruneAt) \in Nat
    BY <1>0, CoreAssumption DEF PollRow
  <2>5. poll' \in PollRow
    BY <1>0, <1>11, <2>1, <2>2, <2>3, <2>4 DEF CompleteCorePoll, PollRow
  <2>6. proc' \in [Procs -> ProcRow] BY <1>0, <1>11, IdleType, StepType DEF CompleteCorePoll
  <2> QED
    BY <1>0, <1>11, <2>5, <2>6
    DEF CompleteCorePoll, TypeOK, store, SnapshotRow, CheckRow, OverrideRow, PollRow, ProcRow
<1>12. ASSUME NEW p \in Procs, Stops(p) PROVE TypeOK'
  <2>1. proc' \in [Procs -> ProcRow] BY <1>0, <1>12, IdleType, StepType DEF Stops
  <2> QED BY <1>12, <1>a, <2>1 DEF Stops
<1>13. ASSUME NEW c \in Commits, RollbackCoreSnapshot(c) PROVE TypeOK'
  <2>1. snapshots' \subseteq SnapshotRow
    BY <1>0, <1>13, NewSnapshotType DEF RollbackCoreSnapshot, Ordered
  <2> QED BY <1>0, <1>13, <1>b, <2>1 DEF RollbackCoreSnapshot
<1>14. ASSUME NEW c \in Commits, RollbackRejected(c) PROVE TypeOK'
  <2>1. Active.commit \in MaybeCommit /\ c \in MaybeCommit
    BY ActiveType DEF Ordered, MaybeCommit
  <2>2. PICK outcome \in RollbackDiagnosis(c) :
          NewCheck("operator-rollback", outcome, c, Active.commit)
    BY <1>14 DEF RollbackRejected
  <2>3. outcome \in Rejections BY DEF RollbackDiagnosis, Rejections
  <2>4. checks' \subseteq CheckRow
    BY <1>14, <2>1, <2>2, <2>3, NewCheckType DEF RollbackRejected
  <2> QED BY <1>0, <1>14, <1>b, <2>4 DEF RollbackRejected
<1>15. ASSUME NEW t \in 0 .. MaxTime + Day, IssueOverride(t) PROVE TypeOK'
  <2>1. /\ snapshots # {}
    BY <1>15 DEF IssueOverride, BaseReason, HardReason
  <2>2. Active.seq \in Seqs BY <2>1, ActiveType DEF Ordered, SnapshotRow
  <2>3. Newest(Automatic(checks)).seq \in Seqs
    BY <1>15, NewestCheckType DEF IssueOverride, Ordered, Automatic
  <2>4. Newest(Validated(checks)).at \in Times
    BY <1>15, NewestCheckType DEF IssueOverride, Ordered, Automatic, Validated
  <2>5. lastSeq + 1 \in Seqs BY <1>15, TransactionType DEF IssueOverride
  <2>6. [seq |-> lastSeq + 1, at |-> clock, expiresAt |-> t, snapshot |-> Active.seq,
         check |-> Newest(Automatic(checks)).seq, validatedAt |-> Newest(Validated(checks)).at]
           \in OverrideRow
    BY <1>0, <2>2, <2>3, <2>4, <2>5, CoreAssumption DEF OverrideRow
  <2>7. overrides' \subseteq OverrideRow BY <1>0, <1>15, <2>6 DEF IssueOverride
  <2> QED BY <1>0, <1>15, <1>b, <2>7 DEF IssueOverride
<1>16. CASE PruneCommand
  BY <1>0, <1>16, <1>b DEF PruneCommand, PruneCoreCheckDetail
<1>17. CASE OtherTransaction BY <1>0, <1>17, <1>b DEF OtherTransaction
<1>18. CASE ClockMoves
  BY <1>0, <1>18
  DEF ClockMoves, TypeOK, store, SnapshotRow, CheckRow, OverrideRow, PollRow, ProcRow
<1>19. CASE UNCHANGED vars BY <1>0, <1>19, <1>a DEF vars
<1> QED
  BY <1>1, <1>2, <1>3, <1>4, <1>5, <1>6, <1>7, <1>8, <1>9, <1>10, <1>11, <1>12, <1>13, <1>14,
     <1>15, <1>16, <1>17, <1>18, <1>19
  DEF Next, Synchronize

-----------------------------------------------------------------------------
(* What processes know.                                                    *)

(* A step of one process changes what that one knows.                      *)
LEMMA StepSound ==
  ASSUME proc \in [Procs -> ProcRow], ProcsSound, NEW p \in Procs, NEW row, ProcSound(row),
         Step(p, row)
  PROVE  ProcsSound'
<1>1. \A q \in Procs : proc'[q] = IF q = p THEN row ELSE proc[q] BY DEF Step
<1> SUFFICES ASSUME NEW q \in Procs PROVE ProcSound(proc'[q]) BY DEF ProcsSound, ProcSound, Descends
<1> QED BY <1>1 DEF ProcsSound

(* Elsewhere a process need know nothing of its candidate.                 *)
LEMMA QuietSound ==
  ASSUME NEW row, row.pc \notin {"verify", "sequence", "activate"} PROVE ProcSound(row)
BY DEF ProcSound

(* A synchronization that ends forgets its candidate.                      *)
LEMMA EndsSound ==
  ASSUME TypeOK, ProcsSound, NEW p \in Procs, NEW outcome, NEW failed \in BOOLEAN,
         Ends(p, outcome, failed)
  PROVE  ProcsSound'
<1>1. ProcSound(Idle) BY QuietSound DEF Idle
<1>2. ASSUME NEW pc \in {"complete", "maintain"}
      PROVE  ProcSound([Idle EXCEPT !.pc = pc, !.run = proc[p].run,
                                    !.pruneDue = proc[p].pruneDue, !.outcome = outcome])
  BY QuietSound DEF Idle
<1> QED BY <1>1, <1>2, CandidateType, StepSound DEF Ends

(* One that rejects its candidate relies on it no more.                    *)
LEMMA ToRejectSound ==
  ASSUME TypeOK, ProcsSound, NEW p \in Procs, NEW outcome, NEW c, NEW a, ToReject(p, outcome, c, a)
  PROVE  ProcsSound'
<1>1. ProcSound([proc[p] EXCEPT !.pc = "reject", !.outcome = outcome, !.candidate = c, !.active = a])
  BY CandidateType, QuietSound DEF ProcRow
<1> QED BY <1>1, CandidateType, StepSound DEF ToReject

(* No step makes a process know more than it does: a poll that goes on     *)
(* after its lease lapsed knows what it read and verified.                 *)
LEMMA ProcsStep ==
  ASSUME TypeOK, Ordered, ProcsSound, [Next]_vars
  PROVE  ProcsSound'
<1>0. proc \in [Procs -> ProcRow] BY TypeRows
<1>a. ASSUME UNCHANGED proc PROVE ProcsSound' BY <1>a DEF ProcsSound, ProcSound, Descends
<1>1. ASSUME NEW p \in Procs, ClaimCorePoll(p) PROVE ProcsSound'
  <2>1. ASSUME NEW due PROVE ProcSound([Idle EXCEPT !.pc = "inspect", !.run = runs + 1,
                                          !.expected = lastSeq, !.pruneDue = due])
    BY QuietSound DEF Idle
  <2> QED BY <1>0, <1>1, <2>1, StepSound DEF ClaimCorePoll
<1>2. ASSUME NEW p \in Procs, StartActivate(p) PROVE ProcsSound'
  <2>1. ProcSound([Idle EXCEPT !.pc = "inspect", !.expected = lastSeq])
    BY QuietSound DEF Idle
  <2> QED BY <1>0, <1>2, <2>1, StepSound DEF StartActivate
<1>3. ASSUME NEW p \in Procs, Throws(p) PROVE ProcsSound' BY <1>3, EndsSound DEF Throws
<1>4. ASSUME NEW p \in Procs, Inspect(p) PROVE ProcsSound'
  <2>1. ASSUME NEW o, NEW c, NEW a, ToReject(p, o, c, a) PROVE ProcsSound'
    BY <2>1, ToRejectSound
  <2>2. ASSUME NEW c \in Valid,
               Step(p, [proc[p] EXCEPT !.candidate = c, !.active = Active.commit,
                          !.pc = IF Active.commit \in {NoCommit, c} THEN "sequence" ELSE "verify"])
        PROVE  ProcsSound'
    <3>1. ProcSound([proc[p] EXCEPT !.candidate = c, !.active = Active.commit,
             !.pc = IF Active.commit \in {NoCommit, c} THEN "sequence" ELSE "verify"])
      BY <1>0 DEF ProcSound, ProcRow
    <3> QED BY <1>0, <2>2, <3>1, StepSound
  <2> QED BY <1>4, <2>1, <2>2 DEF Inspect
<1>5. ASSUME NEW p \in Procs, Verify(p) PROVE ProcsSound'
  <2>1. ASSUME NEW o, NEW c, NEW a, ToReject(p, o, c, a) PROVE ProcsSound'
    BY <2>1, ToRejectSound
  <2>2. ASSUME Descends(proc[p].candidate, proc[p].active),
               Step(p, [proc[p] EXCEPT !.pc = "sequence"])
        PROVE  ProcsSound'
    <3>1. ProcSound([proc[p] EXCEPT !.pc = "sequence"])
      BY <1>0, <1>5, <2>2 DEF Verify, ProcsSound, ProcSound, ProcRow
    <3> QED BY <1>0, <2>2, <3>1, StepSound
  <2> QED BY <1>5, <2>1, <2>2 DEF Verify
<1>6. ASSUME NEW p \in Procs, CheckSequence(p) PROVE ProcsSound'
  <2>1. ProcSound([proc[p] EXCEPT !.pc = IF proc[p].active = proc[p].candidate THEN "eligible"
                                         ELSE "activate"])
    BY <1>0, <1>6 DEF CheckSequence, ProcsSound, ProcSound, ProcRow
  <2> QED BY <1>0, <1>6, <2>1, StepSound DEF CheckSequence
<1>7. ASSUME NEW p \in Procs, ActivateCoreSnapshot(p) PROVE ProcsSound'
  <2>1. ProcSound([proc[p] EXCEPT !.pc = "eligible"]) BY <1>0, QuietSound DEF ProcRow
  <2>2. ASSUME Step(p, [proc[p] EXCEPT !.pc = "eligible"]) PROVE ProcsSound'
    BY <1>0, <2>1, <2>2, StepSound
  <2>3. ASSUME NEW o, NEW c, NEW a, ToReject(p, o, c, a) PROVE ProcsSound'
    BY <2>3, ToRejectSound
  <2> QED BY <1>7, <2>2, <2>3 DEF ActivateCoreSnapshot
<1>8. ASSUME NEW p \in Procs, RecordEligible(p) PROVE ProcsSound'
  BY <1>8, EndsSound DEF RecordEligible
<1>9. ASSUME NEW p \in Procs, Reject(p) PROVE ProcsSound' BY <1>9, EndsSound DEF Reject
<1>10. ASSUME NEW p \in Procs, Maintain(p) PROVE ProcsSound'
  <2>1. /\ ProcSound([proc[p] EXCEPT !.pc = "complete", !.pruned = TRUE])
        /\ ProcSound([proc[p] EXCEPT !.pc = "complete"])
    BY <1>0, QuietSound DEF ProcRow
  <2> QED BY <1>0, <1>10, <2>1, StepSound DEF Maintain
<1>11. ASSUME NEW p \in Procs, CompleteCorePoll(p) \/ Stops(p) PROVE ProcsSound'
  <2>1. ProcSound(Idle) BY QuietSound DEF Idle
  <2> QED BY <1>0, <1>11, <2>1, StepSound DEF CompleteCorePoll, Stops
<1>12. ASSUME NEW c \in Commits, RollbackCoreSnapshot(c) \/ RollbackRejected(c) PROVE ProcsSound'
  BY <1>12, <1>a DEF RollbackCoreSnapshot, RollbackRejected
<1>13. ASSUME NEW t, IssueOverride(t) PROVE ProcsSound' BY <1>13, <1>a DEF IssueOverride
<1>14. CASE PruneCommand BY <1>14, <1>a DEF PruneCommand
<1>15. CASE OtherTransaction BY <1>15, <1>a DEF OtherTransaction
<1>16. CASE ClockMoves \/ UNCHANGED vars BY <1>16, <1>a DEF ClockMoves, vars
<1> QED
  BY <1>1, <1>2, <1>3, <1>4, <1>5, <1>6, <1>7, <1>8, <1>9, <1>10, <1>11, <1>12, <1>13, <1>14,
     <1>15, <1>16
  DEF Next, Synchronize

-----------------------------------------------------------------------------
(* What the steps do to the store: one kind of write, or none.             *)

Snapshotted(c, by) ==
  /\ Transaction /\ NewSnapshot(c, by, lastSeq) /\ UNCHANGED <<checks, overrides>>
  /\ c \in Valid /\ KeepsDeclarations(Active.commit, c)
  /\ by = "rollback" => snapshots # {}
  /\ by = "activate" => /\ Acceptable(Active.commit, c)
                        /\ snapshots # {} => Descends(c, Active.commit)

Checked(operation, outcome, c, a) ==
  /\ Transaction /\ NewCheck(operation, outcome, c, a) /\ UNCHANGED <<snapshots, overrides>>
  /\ operation = "operator-rollback" => outcome # "eligible"

Other == Transaction /\ UNCHANGED <<snapshots, checks, overrides>>

StoreStep ==
  \/ UNCHANGED store
  \/ \E c \in Commits, by \in {"activate", "rollback"} : Snapshotted(c, by)
  \/ \E operation \in {"automatic-source-check", "operator-rollback"},
        outcome \in Rejections \cup {"eligible"}, c \in MaybeCommit, a \in MaybeCommit :
          Checked(operation, outcome, c, a)
  \/ \E t \in 0 .. MaxTime + Day : IssueOverride(t)
  \/ PruneCoreCheckDetail
  \/ Other

(* An activation carries what the lapsed reads established: the sequence   *)
(* and the active commit it is fenced by are those that were verified.     *)
LEMMA ActivationStep ==
  ASSUME TypeOK, Ordered, ProcsSound, NEW p \in Procs, ActivateCoreSnapshot(p)
  PROVE  UNCHANGED store \/ \E c \in Commits : Snapshotted(c, "activate")
<1> DEFINE c == proc[p].candidate
<1>1. SUFFICES ASSUME ActivationFence(p), Transaction, NewSnapshot(c, "activate", proc[p].expected),
                      UNCHANGED <<checks, overrides>>
               PROVE  \E d \in Commits : Snapshotted(d, "activate")
  BY DEF ActivateCoreSnapshot
<1>2. c \in Valid /\ c \in Commits
  BY CoreAssumption DEF ActivateCoreSnapshot, ProcsSound, ProcSound
<1>3. NewSnapshot(c, "activate", lastSeq) BY <1>1 DEF ActivationFence
<1>4. Acceptable(Active.commit, c) /\ KeepsDeclarations(Active.commit, c)
  BY <1>1 DEF ActivationFence, Acceptable
<1>5. snapshots # {} => Descends(c, Active.commit)
  BY <1>1, ActiveType DEF ActivateCoreSnapshot, ActivationFence, Ordered, ProcsSound, ProcSound
<1>6. Snapshotted(c, "activate") BY <1>1, <1>2, <1>3, <1>4, <1>5 DEF Snapshotted
<1> QED BY <1>2, <1>6

(* Every step is one of these writes, or changes no table.                 *)
LEMMA Effects ==
  ASSUME TypeOK, Ordered, ProcsSound, [Next]_vars
  PROVE  StoreStep
<1>1. ASSUME NEW p \in Procs,
             \/ ClaimCorePoll(p) \/ StartActivate(p) \/ Throws(p) \/ Inspect(p) \/ Verify(p)
             \/ CheckSequence(p) \/ CompleteCorePoll(p) \/ Stops(p)
      PROVE  UNCHANGED store
  BY <1>1
  DEF ClaimCorePoll, StartActivate, Throws, Inspect, Verify, CheckSequence, CompleteCorePoll, Stops
<1>2. ASSUME NEW p \in Procs, ActivateCoreSnapshot(p) PROVE StoreStep
  BY <1>2, ActivationStep DEF StoreStep
<1>3. ASSUME NEW p \in Procs, RecordEligible(p) PROVE StoreStep
  <2>1. Checked("automatic-source-check", "eligible", proc[p].candidate, proc[p].candidate)
    BY <1>3 DEF RecordEligible, Checked
  <2>2. proc[p].candidate \in MaybeCommit BY CandidateType
  <2> QED BY <2>1, <2>2 DEF StoreStep
<1>4. ASSUME NEW p \in Procs, Reject(p) PROVE StoreStep
  <2> DEFINE r == Rejection(p)
  <2>1. /\ r.commit \in MaybeCommit /\ r.active \in MaybeCommit
        /\ r.outcome \in Rejections \cup {"none", "eligible"}
    BY CandidateType DEF Rejection
  <2>2. ASSUME Transaction, NewCheck("automatic-source-check", r.outcome, r.commit, r.active),
               UNCHANGED <<snapshots, overrides>>
        PROVE  StoreStep
    <3>1. Checked("automatic-source-check", r.outcome, r.commit, r.active)
      BY <2>2 DEF Checked
    <3>2. r.outcome \in Rejections \cup {"eligible"}
      BY <2>1, <2>2 DEF NewCheck, RejectionAdmitted, ContinuityCodes, Rejections
    <3> QED BY <2>1, <3>1, <3>2 DEF StoreStep
  <2> QED BY <1>4, <2>2 DEF Reject, StoreStep
<1>5. ASSUME NEW p \in Procs, Maintain(p) PROVE StoreStep BY <1>5 DEF Maintain, StoreStep
<1>6. ASSUME NEW c \in Commits, RollbackCoreSnapshot(c) PROVE StoreStep
  <2>1. Snapshotted(c, "rollback")
    BY <1>6 DEF RollbackCoreSnapshot, RollbackAllowed, Snapshotted
  <2> QED BY <2>1 DEF StoreStep
<1>7. ASSUME NEW c \in Commits, RollbackRejected(c) PROVE StoreStep
  <2>1. PICK outcome \in RollbackDiagnosis(c) :
          NewCheck("operator-rollback", outcome, c, Active.commit)
    BY <1>7 DEF RollbackRejected
  <2>2. outcome \in Rejections /\ outcome # "eligible" BY DEF RollbackDiagnosis, Rejections
  <2>3. Checked("operator-rollback", outcome, c, Active.commit)
    BY <1>7, <2>1, <2>2 DEF RollbackRejected, Checked
  <2>4. Active.commit \in MaybeCommit /\ c \in MaybeCommit
    BY ActiveType DEF Ordered, MaybeCommit
  <2> QED BY <2>2, <2>3, <2>4 DEF StoreStep
<1>8. ASSUME NEW t \in 0 .. MaxTime + Day, IssueOverride(t) PROVE StoreStep
  BY <1>8 DEF StoreStep
<1>9. CASE PruneCommand BY <1>9 DEF PruneCommand, StoreStep
<1>10. CASE OtherTransaction BY <1>10 DEF OtherTransaction, Other, StoreStep
<1>11. CASE ClockMoves \/ UNCHANGED vars BY <1>11 DEF ClockMoves, vars, StoreStep
<1> QED
  BY <1>1, <1>2, <1>3, <1>4, <1>5, <1>6, <1>7, <1>8, <1>9, <1>10, <1>11
  DEF Next, Synchronize, StoreStep

-----------------------------------------------------------------------------
(* Records and their times.                                                *)

Records == snapshots \cup checks \cup overrides

(* Nothing is numbered or dated past the last transaction, and numbers     *)
(* order the dates.                                                        *)
RecordsSound ==
  /\ \A r \in Records : r.seq <= lastSeq /\ r.at <= watermark
  /\ \A r, s \in Records : r.seq <= s.seq => r.at <= s.at

(* Numbers and times of records are naturals.                              *)
LEMMA RecordTypes ==
  ASSUME TypeOK
  PROVE  \A r \in Records : r.seq \in Seqs /\ r.seq \in Nat /\ r.at \in Times /\ r.at \in Nat
BY TypeRows DEF Records, SnapshotRow, CheckRow, OverrideRow, Seqs, Times

(* A step adds at most one record, of the transaction's number and time.   *)
LEMMA RecordsAdded ==
  ASSUME TypeOK, Ordered, ProcsSound, StoreStep
  PROVE  \/ Records' \subseteq Records /\ lastSeq <= lastSeq' /\ watermark <= watermark'
         \/ /\ Transaction
            /\ \A r \in Records' : r \in Records \/ (r.seq = lastSeq + 1 /\ r.at = clock)
<1>1. CASE UNCHANGED store BY <1>1, TypeRows DEF store, Records, Times, Seqs
<1>2. ASSUME NEW c \in Commits, NEW by, Snapshotted(c, by)
      PROVE  /\ Transaction
             /\ \A r \in Records' : r \in Records \/ (r.seq = lastSeq + 1 /\ r.at = clock)
  BY <1>2 DEF Snapshotted, NewSnapshot, Records
<1>3. ASSUME NEW operation, NEW outcome, NEW c, NEW a, Checked(operation, outcome, c, a)
      PROVE  /\ Transaction
             /\ \A r \in Records' : r \in Records \/ (r.seq = lastSeq + 1 /\ r.at = clock)
  BY <1>3 DEF Checked, NewCheck, Records
<1>4. ASSUME NEW t, IssueOverride(t)
      PROVE  /\ Transaction
             /\ \A r \in Records' : r \in Records \/ (r.seq = lastSeq + 1 /\ r.at = clock)
  BY <1>4 DEF IssueOverride, Records
<1>5. CASE PruneCoreCheckDetail \/ Other
  <2>1. Transaction /\ Records' \subseteq Records
    BY <1>5 DEF PruneCoreCheckDetail, Other, Records
  <2> QED BY <2>1
<1> QED BY <1>1, <1>2, <1>3, <1>4, <1>5 DEF StoreStep

(* Every write keeps numbers and times in agreement.                       *)
LEMMA RecordsStep ==
  ASSUME TypeOK, Ordered, ProcsSound, RecordsSound, StoreStep
  PROVE  RecordsSound'
<1>1. CASE Records' \subseteq Records /\ lastSeq <= lastSeq' /\ watermark <= watermark'
  <2>1. lastSeq' \in Nat /\ watermark' \in Nat /\ lastSeq \in Nat /\ watermark \in Nat
    BY <1>1, TypeRows, TransactionType DEF Seqs, Times, StoreStep, store, Snapshotted, Checked,
       IssueOverride, PruneCoreCheckDetail, Other
  <2> QED BY <1>1, <2>1, RecordTypes DEF RecordsSound
<1>2. CASE /\ Transaction
           /\ \A r \in Records' : r \in Records \/ (r.seq = lastSeq + 1 /\ r.at = clock)
  <2>1. /\ lastSeq' = lastSeq + 1 /\ watermark' = clock /\ watermark <= clock
        /\ lastSeq \in Nat /\ watermark \in Nat /\ clock \in Nat
    BY <1>2, TransactionType, TypeRows DEF Seqs, Times
  <2>2. ASSUME NEW r \in Records' PROVE r.seq <= lastSeq' /\ r.at <= watermark'
    BY <1>2, <2>1, RecordTypes DEF RecordsSound
  <2>3. ASSUME NEW r \in Records', NEW s \in Records', r.seq <= s.seq PROVE r.at <= s.at
    BY <1>2, <2>1, <2>3, RecordTypes DEF RecordsSound
  <2> QED BY <2>2, <2>3 DEF RecordsSound
<1> QED BY <1>1, <1>2, RecordsAdded

-----------------------------------------------------------------------------
(* The newest rows, after each kind of write.                              *)

(* Numbers are naturals, and no row has the number of the next.            *)
LEMMA Numbers ==
  ASSUME TypeOK, RecordsSound
  PROVE  /\ lastSeq \in Nat
         /\ \A r \in Records : r.seq \in Nat /\ r.seq < lastSeq + 1
         /\ snapshots \subseteq Records /\ checks \subseteq Records /\ overrides \subseteq Records
<1>1. lastSeq \in Nat BY TypeRows DEF Seqs
<1> QED BY <1>1, RecordTypes DEF RecordsSound, Records

(* The new snapshot is the active one.                                     *)
LEMMA SnapshotAdded ==
  ASSUME TypeOK, Ordered, RecordsSound, NEW c \in Commits, NEW by, Snapshotted(c, by)
  PROVE  /\ snapshots' # {} /\ Distinct(snapshots') /\ Topped(snapshots')
         /\ ActiveIn(snapshots') \in snapshots'
         /\ ActiveIn(snapshots').commit = c /\ ActiveIn(snapshots').seq = lastSeq + 1
         /\ ActiveIn(snapshots').by = by
         /\ snapshots' = snapshots \cup {ActiveIn(snapshots')}
<1> DEFINE x == [seq |-> lastSeq + 1, commit |-> c, at |-> clock, expected |-> lastSeq, by |-> by,
                 previous |-> Replaces(by)]
<1>1. snapshots' = snapshots \cup {x} BY DEF Snapshotted, NewSnapshot
<1>2. \A y \in snapshots \cup {x} : y.seq \in Nat BY Numbers
<1>3. \A y \in snapshots : y.seq < x.seq BY Numbers
<1>4. Distinct(snapshots \cup {x}) /\ Topped(snapshots \cup {x}) /\ Newest(snapshots \cup {x}) = x
  <2> HIDE DEF x
  <2> QED BY <1>2, <1>3, NewestAdded DEF Ordered
<1>5. ActiveIn(snapshots') = x BY <1>1, <1>4 DEF ActiveIn
<1> QED BY <1>1, <1>4, <1>5


(* A new check is the newest of each kind that it is of.                   *)
LEMMA CheckAdded ==
  ASSUME TypeOK, Ordered, RecordsSound, NEW operation, NEW outcome, NEW c, NEW a,
         Checked(operation, outcome, c, a)
  PROVE  \E x :
           /\ x \notin checks /\ checks' = checks \cup {x} /\ Distinct(checks')
           /\ x.outcome = outcome /\ x.commit = c /\ x.seq = lastSeq + 1
           /\ x.operation = operation
           /\ \A S, T : S \subseteq checks /\ Topped(S) /\ T \in {S, S \cup {x}} => Topped(T)
           /\ \A S : S \subseteq checks => Newest(S \cup {x}) = x
<1> DEFINE x == [seq |-> lastSeq + 1, at |-> clock, operation |-> operation, outcome |-> outcome,
                 commit |-> c, active |-> a]
<1>1. checks' = checks \cup {x} BY DEF Checked, NewCheck
<1>2. \A y \in checks \cup {x} : y.seq \in Nat BY Numbers
<1>3. \A y \in checks : y.seq < x.seq BY Numbers
<1>4. /\ x.outcome = outcome /\ x.commit = c /\ x.seq = lastSeq + 1 /\ x.operation = operation
  OBVIOUS
<1> HIDE DEF x
<1>5. x \notin checks BY <1>2, <1>3
<1>6. Distinct(checks \cup {x}) BY <1>2, <1>3, NewestAdded DEF Ordered
<1>7. ASSUME NEW S \in SUBSET checks
      PROVE  Topped(S \cup {x}) /\ Newest(S \cup {x}) = x
  <2>1. Distinct(S) BY DEF Ordered, Distinct
  <2> QED BY <1>2, <1>3, <2>1, NewestAdded
<1> QED BY <1>1, <1>4, <1>5, <1>6, <1>7

(* Which kinds a new check is of.                                          *)
LEMMA KindsAdded ==
  ASSUME NEW C, NEW x
  PROVE  /\ Automatic(C \cup {x}) = IF x.operation = "automatic-source-check"
                                     THEN Automatic(C) \cup {x} ELSE Automatic(C)
         /\ Validated(C \cup {x}) = IF /\ x.operation = "automatic-source-check"
                                       /\ x.outcome \in ContinuityCodes \cup
                                                        {"eligible", "persistence-failed"}
                                     THEN Validated(C) \cup {x} ELSE Validated(C)
         /\ Substantive(C \cup {x}) = IF /\ x.operation = "automatic-source-check"
                                         /\ x.outcome # "source-unavailable"
                                       THEN Substantive(C) \cup {x} ELSE Substantive(C)
BY DEF Automatic, Validated, Substantive

(* Validating checks are substantive, and those automatic.                 *)
LEMMA KindsWithin ==
  ASSUME NEW C
  PROVE  /\ Automatic(C) \subseteq C /\ Substantive(C) \subseteq Automatic(C)
         /\ Validated(C) \subseteq Substantive(C)
BY DEF Automatic, Validated, Substantive, ContinuityCodes

(* Pruning keeps the newest check of each kind.                            *)
LEMMA PruneKeeps ==
  ASSUME TypeOK, Ordered, RecordsSound, PruneCoreCheckDetail
  PROVE  /\ checks' \subseteq checks /\ Distinct(checks')
         /\ (Automatic(checks') = {} <=> Automatic(checks) = {})
         /\ (Validated(checks') = {} <=> Validated(checks) = {})
         /\ (Substantive(checks') = {} <=> Substantive(checks) = {})
         /\ Topped(Automatic(checks')) /\ Topped(Validated(checks')) /\ Topped(Substantive(checks'))
         /\ Newest(Automatic(checks')) = Newest(Automatic(checks))
         /\ Newest(Validated(checks')) = Newest(Validated(checks))
         /\ Newest(Substantive(checks')) = Newest(Substantive(checks))
<1>1. checks' \subseteq checks /\ Protected(checks) \subseteq checks'
  BY DEF PruneCoreCheckDetail, ToDelete, Protected
<1>2. Distinct(checks') BY <1>1 DEF Ordered, Distinct
<1>3. \A y \in checks : y.seq \in Nat BY Numbers
<1>4. ASSUME NEW S \in SUBSET checks, NEW T \in SUBSET S, Topped(S),
             S # {} => Newest(S) \in T
      PROVE  (T = {} <=> S = {}) /\ Topped(T) /\ Newest(T) = Newest(S)
  <2>1. Distinct(S) BY DEF Ordered, Distinct
  <2>2. \A y \in S : y.seq \in Nat BY <1>3
  <2> QED BY <1>4, <2>1, <2>2, NewestKept
<1>5. /\ Automatic(checks') = Automatic(checks) \cap checks'
      /\ Validated(checks') = Validated(checks) \cap checks'
      /\ Substantive(checks') = Substantive(checks) \cap checks'
  BY <1>1 DEF Automatic, Validated, Substantive
<1>6. /\ Automatic(checks) # {} => Newest(Automatic(checks)) \in checks'
      /\ Validated(checks) # {} => Newest(Validated(checks)) \in checks'
      /\ Substantive(checks) # {} => Newest(Substantive(checks)) \in checks'
  <2>1. /\ Automatic(checks) # {} => Newest(Automatic(checks)) \in Automatic(checks)
        /\ Validated(checks) # {} => Newest(Validated(checks)) \in Validated(checks)
        /\ Substantive(checks) # {} => Newest(Substantive(checks)) \in Substantive(checks)
    BY NewestOf DEF Ordered
  <2> QED BY <1>1, <2>1, KindsWithin DEF Protected
<1>7. /\ Automatic(checks) \subseteq checks /\ Validated(checks) \subseteq checks
      /\ Substantive(checks) \subseteq checks
  BY KindsWithin
<1>8. /\ (Automatic(checks') = {} <=> Automatic(checks) = {}) /\ Topped(Automatic(checks'))
      /\ Newest(Automatic(checks')) = Newest(Automatic(checks))
  <2>1. Automatic(checks) # {} => Newest(Automatic(checks)) \in Automatic(checks')
    BY <1>5, <1>6, NewestOf DEF Ordered
  <2> QED BY <1>4, <1>5, <1>7, <2>1 DEF Ordered
<1>9. /\ (Validated(checks') = {} <=> Validated(checks) = {}) /\ Topped(Validated(checks'))
      /\ Newest(Validated(checks')) = Newest(Validated(checks))
  <2>1. Validated(checks) # {} => Newest(Validated(checks)) \in Validated(checks')
    BY <1>5, <1>6, NewestOf DEF Ordered
  <2> QED BY <1>4, <1>5, <1>7, <2>1 DEF Ordered
<1>10. /\ (Substantive(checks') = {} <=> Substantive(checks) = {}) /\ Topped(Substantive(checks'))
       /\ Newest(Substantive(checks')) = Newest(Substantive(checks))
  <2>1. Substantive(checks) # {} => Newest(Substantive(checks)) \in Substantive(checks')
    BY <1>5, <1>6, NewestOf DEF Ordered
  <2> QED BY <1>4, <1>5, <1>7, <2>1 DEF Ordered
<1> QED BY <1>1, <1>2, <1>8, <1>9, <1>10

(* Every write leaves a newest row of each kind.                           *)
LEMMA OrderedStep ==
  ASSUME TypeOK, Ordered, RecordsSound, StoreStep
  PROVE  Ordered'
<1>1. CASE UNCHANGED <<snapshots, checks>>
  BY <1>1 DEF Ordered, Topped, Distinct, Automatic, Validated, Substantive
<1>2. ASSUME NEW c \in Commits, NEW by, Snapshotted(c, by) PROVE Ordered'
  <2>1. Topped(snapshots') /\ Distinct(snapshots') BY <1>2, SnapshotAdded
  <2>2. checks' = checks BY <1>2 DEF Snapshotted
  <2> QED BY <2>1, <2>2 DEF Ordered
<1>3. ASSUME NEW operation, NEW outcome, NEW c, NEW a, Checked(operation, outcome, c, a)
      PROVE  Ordered'
  <2>1. PICK x :
           /\ x \notin checks /\ checks' = checks \cup {x} /\ Distinct(checks')
           /\ \A S, T : S \subseteq checks /\ Topped(S) /\ T \in {S, S \cup {x}} => Topped(T)
    BY <1>3, CheckAdded
  <2>2. /\ Automatic(checks') \in {Automatic(checks), Automatic(checks) \cup {x}}
        /\ Validated(checks') \in {Validated(checks), Validated(checks) \cup {x}}
        /\ Substantive(checks') \in {Substantive(checks), Substantive(checks) \cup {x}}
    BY <2>1, KindsAdded
  <2>3. /\ Automatic(checks) \subseteq checks /\ Validated(checks) \subseteq checks
        /\ Substantive(checks) \subseteq checks
    BY KindsWithin
  <2>4. Topped(Automatic(checks')) BY <2>1, <2>2, <2>3 DEF Ordered
  <2>5. Topped(Validated(checks')) BY <2>1, <2>2, <2>3 DEF Ordered
  <2>6. Topped(Substantive(checks')) BY <2>1, <2>2, <2>3 DEF Ordered
  <2>7. snapshots' = snapshots BY <1>3 DEF Checked
  <2> QED BY <2>1, <2>4, <2>5, <2>6, <2>7 DEF Ordered
<1>4. CASE PruneCoreCheckDetail
  <2>1. snapshots' = snapshots BY <1>4 DEF PruneCoreCheckDetail
  <2> QED BY <1>4, <2>1, PruneKeeps DEF Ordered
<1> QED BY <1>1, <1>2, <1>3, <1>4 DEF StoreStep, store, Other, IssueOverride

-----------------------------------------------------------------------------
(* What an override cites.                                                 *)

(* It was issued after the snapshot that it is for, and its check is kept. *)
OverridesSound ==
  \A o \in overrides : o.snapshot < o.seq /\ \E c \in checks : c.seq = o.check

(* Every write keeps what overrides cite.                                  *)
LEMMA OverridesStep ==
  ASSUME TypeOK, Ordered, RecordsSound, OverridesSound, StoreStep
  PROVE  OverridesSound'
<1>1. CASE overrides' = overrides /\ checks \subseteq checks'
  BY <1>1 DEF OverridesSound
<1>2. CASE PruneCoreCheckDetail
  <2>1. overrides' = overrides BY <1>2 DEF PruneCoreCheckDetail
  <2>2. ASSUME NEW o \in overrides, NEW c \in checks, c.seq = o.check PROVE c \in checks'
    <3>1. c \in Protected(checks) BY <2>2 DEF Protected
    <3> QED BY <1>2, <3>1 DEF PruneCoreCheckDetail, ToDelete
  <2> QED BY <2>1, <2>2 DEF OverridesSound
<1>3. ASSUME NEW t, IssueOverride(t) PROVE OverridesSound'
  <2> DEFINE o == [seq |-> lastSeq + 1, at |-> clock, expiresAt |-> t, snapshot |-> Active.seq,
                   check |-> Newest(Automatic(checks)).seq,
                   validatedAt |-> Newest(Validated(checks)).at]
  <2>1. overrides' = overrides \cup {o} /\ checks' = checks BY <1>3 DEF IssueOverride
  <2>2. Newest(Automatic(checks)) \in checks
    BY <1>3, NewestOf, KindsWithin DEF IssueOverride, Ordered
  <2>3. snapshots # {} BY <1>3 DEF IssueOverride, BaseReason, HardReason
  <2>4. Active \in snapshots BY <2>3, ActiveType DEF Ordered
  <2>5. Active.seq < lastSeq + 1 BY <2>4, Numbers
  <2> QED BY <2>1, <2>2, <2>5 DEF OverridesSound
<1> QED
  BY <1>1, <1>2, <1>3
  DEF StoreStep, store, Snapshotted, Checked, NewCheck, Other

-----------------------------------------------------------------------------
(* The inductive invariant.                                                *)

Invariant == TypeOK /\ Ordered /\ ProcsSound /\ RecordsSound /\ OverridesSound

(* It holds at first.                                                      *)
LEMMA InvariantInit == Init => Invariant
<1> SUFFICES ASSUME Init PROVE Invariant OBVIOUS
<1>1. TypeOK BY TypeInit
<1>2. Ordered BY DEF Init, Ordered, Topped, Distinct, Automatic, Validated, Substantive
<1>3. ProcsSound BY DEF Init, ProcsSound, ProcSound, Idle
<1>4. RecordsSound BY DEF Init, RecordsSound, Records
<1>5. OverridesSound BY DEF Init, OverridesSound
<1> QED BY <1>1, <1>2, <1>3, <1>4, <1>5 DEF Invariant

(* Every step keeps it, and is one of the writes above.                    *)
LEMMA InvariantStep == Invariant /\ [Next]_vars => Invariant' /\ StoreStep
<1> SUFFICES ASSUME Invariant, [Next]_vars PROVE Invariant' /\ StoreStep OBVIOUS
<1>1. StoreStep BY Effects DEF Invariant
<1> QED
  BY <1>1, TypeStep, OrderedStep, ProcsStep, RecordsStep, OverridesStep DEF Invariant

(* So it always holds.                                                     *)
LEMMA InvariantHolds == Spec => []Invariant
BY InvariantInit, InvariantStep, PTL DEF Spec

(* Every table stays well formed whatever polls, operators and clocks do:  *)
(* each step of claim, synchronization, rollback, override, prune and      *)
(* completion writes rows of its kind and numbers within the counters.     *)
THEOREM CoreTypeCorrect == Spec => []TypeOK
<1>1. Invariant => TypeOK BY DEF Invariant
<1> QED BY <1>1, InvariantHolds, PTL

(* Recorded times agree with sequence order however the host clock jumps:  *)
(* no transaction commits behind the watermark, and each moves it.         *)
THEOREM TimesAgree == Spec => []TimesFollowSequence
<1>1. Invariant => TimesFollowSequence
  <2> SUFFICES ASSUME Invariant PROVE TimesFollowSequence OBVIOUS
  <2>1. RecordsSound BY DEF Invariant
  <2> SUFFICES ASSUME NEW r \in Records, NEW s \in Records, r.seq <= s.seq
               PROVE  r.at <= s.at /\ s.at <= watermark /\ s.seq <= lastSeq
    BY DEF TimesFollowSequence, Records
  <2> QED BY <2>1 DEF RecordsSound
<1> QED BY <1>1, InvariantHolds, PTL

(* Readiness rests on a check that validated the active commit within the  *)
(* last Day, or on an unexpired override of the snapshot now active whose  *)
(* check was never pruned.                                                 *)
THEOREM ReadinessEvidenced == Spec => []ReadyIsEvidenced
<1>1. Invariant => ReadyIsEvidenced
  <2> SUFFICES ASSUME Invariant, NEW t \in watermark .. MaxTime,
                      Readiness(checks, snapshots, t) = "ready"
               PROVE  \/ \E c \in Validated(checks) : c.commit = Active.commit /\ t < c.at + Day
                      \/ \E o \in overrides : /\ o.seq > Active.seq /\ o.at <= t /\ t < o.expiresAt
                                              /\ \E c \in checks : c.seq = o.check
    BY DEF ReadyIsEvidenced
  <2>0. TypeOK /\ Ordered /\ OverridesSound BY DEF Invariant
  <2>1. CASE BaseReason(checks, snapshots, t) = "ready"
    <3>1. HardReason(checks, snapshots) = "ready" /\ ~Stale(checks, t)
      BY <2>1 DEF BaseReason
    <3>2. Validated(checks) # {} /\ ~(t >= Newest(Validated(checks)).at + Day)
      BY <3>1 DEF Stale
    <3>3. Substantive(checks) # {} BY <3>2, KindsWithin
    <3> DEFINE latest == Newest(Substantive(checks))
    <3>4. latest \in Substantive(checks) /\ \A y \in Substantive(checks) : y.seq <= latest.seq
      BY <2>0, <3>3, NewestOf DEF Ordered
    <3>5. /\ latest.outcome \in ContinuityCodes \cup {"eligible"} /\ latest.commit = Active.commit
      <4>1. latest.outcome = "eligible" \/ latest.outcome \in ContinuityCodes \/ latest.outcome = "ready"
        BY <3>1, <3>3 DEF HardReason
      <4>2. latest \in checks BY <3>4, KindsWithin
      <4>3. latest.outcome # "ready" BY <2>0, <4>2, TypeRows DEF CheckRow, Rejections
      <4> QED BY <3>1, <3>3, <4>1, <4>3 DEF HardReason, ResolvedBy, Active, ContinuityCodes
    <3>6. latest \in Validated(checks) BY <3>4, <3>5 DEF Validated, Substantive
    <3>7. Newest(Validated(checks)) = latest
      <4>1. Distinct(Validated(checks)) /\ \A y \in Validated(checks) : y.seq \in Nat
        BY <2>0, TypeRows, KindsWithin DEF Ordered, Distinct, CheckRow, Seqs
      <4>2. \A y \in Validated(checks) : y.seq <= latest.seq BY <3>4, KindsWithin
      <4> QED BY <3>6, <4>1, <4>2, NewestIs
    <3>8. latest.at \in Nat /\ t \in Int
      BY <2>0, <3>6, KindsWithin, TypeRows DEF CheckRow, Times
    <3>9. t < latest.at + Day BY <3>2, <3>7, <3>8, CoreAssumption
    <3> QED BY <3>5, <3>6, <3>9
  <2>2. CASE BaseReason(checks, snapshots, t) # "ready"
    <3>1. PICK o \in overrides : o.snapshot = Active.seq /\ o.at <= t /\ t < o.expiresAt
      BY <2>2 DEF Readiness, Applicable, Active
    <3>2. o.snapshot < o.seq /\ \E c \in checks : c.seq = o.check BY <2>0 DEF OverridesSound
    <3>3. o.seq > Active.seq
      BY <2>0, <3>1, <3>2, TypeRows DEF OverrideRow, Seqs
    <3> QED BY <3>1, <3>2, <3>3
  <2> QED BY <2>1, <2>2
<1> QED BY <1>1, InvariantHolds, PTL

(* A suppressed rejection repeats one that keeps the control plane from    *)
(* being ready, or one that activating its commit resolved.                *)
THEOREM SuppressionSafe == Spec => []SuppressionLosesNothing
<1>1. Invariant => SuppressionLosesNothing
  <2> SUFFICES ASSUME Invariant, NEW p \in Procs, Suppressed(Rejection(p)),
                      HardReason(checks, snapshots) = "ready"
               PROVE  Active.commit = proc[p].candidate
    BY DEF SuppressionLosesNothing
  <2> DEFINE latest == Newest(Automatic(checks))
  <2>0. TypeOK /\ Ordered BY DEF Invariant
  <2>1. /\ Automatic(checks) # {}
        /\ latest.outcome \in ContinuityCodes \cup {"candidate-invalid"}
        /\ latest.commit = proc[p].candidate
    BY DEF Suppressed, Rejection
  <2>2. latest \in Automatic(checks) /\ \A y \in Automatic(checks) : y.seq <= latest.seq
    BY <2>0, <2>1, NewestOf DEF Ordered
  <2>3. latest \in Substantive(checks) BY <2>1, <2>2 DEF Substantive, ContinuityCodes
  <2>4. Newest(Substantive(checks)) = latest
    <3>1. Distinct(Substantive(checks)) /\ \A y \in Substantive(checks) : y.seq \in Nat
      BY <2>0, TypeRows, KindsWithin DEF Ordered, Distinct, CheckRow, Seqs
    <3>2. \A y \in Substantive(checks) : y.seq <= latest.seq BY <2>2, KindsWithin
    <3> QED BY <2>3, <3>1, <3>2, NewestIs
  <2>5. latest.commit = Active.commit
    BY <2>1, <2>3, <2>4 DEF HardReason, ResolvedBy, Active, ContinuityCodes
  <2> QED BY <2>1, <2>5
<1> QED BY <1>1, InvariantHolds, PTL

-----------------------------------------------------------------------------
(* What steps may do to what was decided.                                  *)

(* An automatic activation only replaces a snapshot by a descendant of it: *)
(* the transaction's fence repeats the sequence and the active commit that *)
(* continuity was verified from, so a run that outlived its lease fails.   *)
THEOREM ActivationsAreContinuous == Spec => AuthorityIsContinuous
<1> DEFINE Continuous == \A s \in snapshots' \ snapshots :
             s.by = "activate" /\ snapshots # {} => Descends(s.commit, Active.commit)
<1>1. ASSUME Invariant, StoreStep PROVE Continuous
  <2>1. ASSUME NEW c \in Commits, NEW by, Snapshotted(c, by) PROVE Continuous
    BY <2>1 DEF Snapshotted, NewSnapshot
  <2>2. CASE snapshots' = snapshots BY <2>2
  <2> QED
    BY <1>1, <2>1, <2>2 DEF StoreStep, store, Checked, IssueOverride, PruneCoreCheckDetail, Other
<1>2. Invariant /\ [Next]_vars => [Continuous]_vars BY <1>1, InvariantStep
<1> QED BY <1>2, InvariantHolds, PTL DEF Spec, AuthorityIsContinuous

(* A hard failure ends by an eligible check, or by a snapshot of the very  *)
(* commit of that failure: every other write keeps the newest substantive  *)
(* check, or adds one that blocks.                                         *)
THEOREM HardFailuresStand == Spec => HardFailureStands
<1> DEFINE Cleared == HardReason(checks, snapshots) \notin {"ready", "no-active-snapshot"}
                        /\ HardReason(checks', snapshots') = "ready"
           Latest == Newest(Substantive(checks))
           Answered == \/ \E c \in checks' \ checks : c.outcome = "eligible"
                       \/ /\ snapshots' # snapshots
                          /\ ActiveIn(snapshots').commit = Latest.commit
                          /\ Latest.outcome \in ContinuityCodes \cup {"eligible"}
<1>1. ASSUME Invariant, StoreStep, Cleared PROVE Answered
  <2>0. TypeOK /\ Ordered /\ RecordsSound BY <1>1 DEF Invariant
  <2>1. snapshots # {} /\ Substantive(checks) # {} BY <1>1 DEF HardReason
  <2>2. ~(UNCHANGED <<snapshots, checks>>) BY <1>1
  <2>3. ASSUME NEW c \in Commits, NEW by, Snapshotted(c, by) PROVE Answered
    <3>1. snapshots' # snapshots /\ snapshots' # {} BY <2>0, <2>2, <2>3, SnapshotAdded DEF Snapshotted
    <3>2. checks' = checks BY <2>3 DEF Snapshotted
    <3>3. Latest.outcome # "ready"
      <4>1. Latest \in checks BY <2>0, <2>1, NewestOf, KindsWithin DEF Ordered
      <4> QED BY <2>0, <4>1, TypeRows DEF CheckRow, Rejections
    <3>4. /\ Latest.outcome \in ContinuityCodes \cup {"eligible"}
          /\ ActiveIn(snapshots').commit = Latest.commit
      BY <1>1, <2>1, <3>1, <3>2, <3>3 DEF HardReason, ResolvedBy, ContinuityCodes
    <3> QED BY <3>1, <3>4
  <2>4. ASSUME NEW operation, NEW outcome \in Rejections \cup {"eligible"}, NEW c, NEW a,
               Checked(operation, outcome, c, a)
        PROVE  Answered
    <3>1. PICK x :
             /\ x \notin checks /\ checks' = checks \cup {x}
             /\ x.outcome = outcome /\ x.commit = c /\ x.seq = lastSeq + 1
             /\ \A S : S \subseteq checks => Newest(S \cup {x}) = x
      BY <2>0, <2>4, CheckAdded
    <3>2. snapshots' = snapshots BY <2>4 DEF Checked
    <3>3. SUFFICES ASSUME outcome # "eligible" PROVE FALSE BY <3>1
    <3>4. CASE Substantive(checks') = Substantive(checks)
      BY <1>1, <3>2, <3>4 DEF HardReason
    <3>5. CASE Substantive(checks') = Substantive(checks) \cup {x}
      <4>1. Newest(Substantive(checks')) = x
        <5>1. Substantive(checks) \subseteq checks BY KindsWithin
        <5> QED BY <3>1, <3>5, <5>1
      <4>2. Active.seq < lastSeq + 1
        BY <2>0, <2>1, ActiveType, Numbers DEF Ordered
      <4>3. ~ResolvedBy(x, ActiveIn(snapshots'))
        <5>1. ActiveIn(snapshots') = Active BY <3>2 DEF Active
        <5>2. Active.seq \in Nat /\ lastSeq \in Nat
          BY <2>0, ActiveType, Numbers, TypeRows DEF Ordered, Seqs
        <5> QED BY <3>1, <4>2, <5>1, <5>2 DEF ResolvedBy
      <4>4. x.outcome # "ready" /\ x.outcome # "eligible" BY <3>1, <3>3 DEF Rejections
      <4> QED BY <1>1, <2>1, <3>2, <3>5, <4>1, <4>3, <4>4 DEF HardReason
    <3> QED BY <3>1, <3>4, <3>5, KindsAdded
  <2>5. CASE PruneCoreCheckDetail
    <3>1. snapshots' = snapshots BY <2>5 DEF PruneCoreCheckDetail
    <3>2. /\ (Substantive(checks') = {} <=> Substantive(checks) = {})
          /\ Newest(Substantive(checks')) = Newest(Substantive(checks))
      BY <2>0, <2>5, PruneKeeps
    <3> QED BY <1>1, <2>1, <3>1, <3>2 DEF HardReason
  <2> QED
    BY <1>1, <2>2, <2>3, <2>4, <2>5 DEF StoreStep, store, IssueOverride, Other
<1>2. Invariant /\ [Next]_vars => [Cleared => Answered]_vars BY <1>1, InvariantStep
<1> QED BY <1>2, InvariantHolds, PTL DEF Spec, HardFailureStands

(* Pruning keeps the newest check of each kind, which is all that          *)
(* readiness, now and later, and the suppression of a rejection read.      *)
THEOREM PruneIsInvisible == Spec => PruneChangesNoAnswer
<1> DEFINE Same == \A t \in watermark' .. MaxTime :
              checks' \subseteq checks /\ snapshots' = snapshots =>
                /\ Readiness(checks', snapshots', t) = Readiness(checks, snapshots, t)
                /\ Automatic(checks) # {} => Newest(Automatic(checks')) = Newest(Automatic(checks))
<1>1. ASSUME Invariant, StoreStep PROVE Same
  <2>0. TypeOK /\ Ordered /\ RecordsSound BY <1>1 DEF Invariant
  <2>1. CASE checks' = checks BY <2>1
  <2>2. ASSUME NEW operation, NEW outcome, NEW c, NEW a, Checked(operation, outcome, c, a)
        PROVE  Same
    BY <2>0, <2>2, CheckAdded
  <2>3. CASE PruneCoreCheckDetail
    <3>1. snapshots' = snapshots BY <2>3 DEF PruneCoreCheckDetail
    <3>2. HardReason(checks', snapshots) = HardReason(checks, snapshots)
      BY <2>0, <2>3, PruneKeeps DEF HardReason
    <3>3. \A t : Stale(checks', t) = Stale(checks, t)
      BY <2>0, <2>3, PruneKeeps DEF Stale
    <3>4. \A t : Readiness(checks', snapshots, t) = Readiness(checks, snapshots, t)
      BY <3>2, <3>3 DEF Readiness, BaseReason
    <3>5. Newest(Automatic(checks')) = Newest(Automatic(checks)) BY <2>0, <2>3, PruneKeeps
    <3> QED BY <3>1, <3>4, <3>5
  <2> QED
    BY <1>1, <2>1, <2>2, <2>3 DEF StoreStep, store, Snapshotted, IssueOverride, Other
<1>2. Invariant /\ [Next]_vars => [Same]_<<checks>> BY <1>1, InvariantStep
<1> QED BY <1>2, InvariantHolds, PTL DEF Spec, PruneChangesNoAnswer

-----------------------------------------------------------------------------
(* The history of snapshots.                                               *)

(* Every write keeps all declarations: what is newest carries them all.    *)
LEMMA DeclarationsStep ==
  ASSUME Invariant, StoreStep, DeclarationsRetained
  PROVE  DeclarationsRetained'
<1>0. TypeOK /\ Ordered /\ RecordsSound BY DEF Invariant
<1>1. ASSUME NEW c \in Commits, NEW by, Snapshotted(c, by) PROVE DeclarationsRetained'
  <2> DEFINE x == ActiveIn(snapshots')
  <2>1. snapshots' = snapshots \cup {x} /\ x.commit = c /\ x.seq = lastSeq + 1
    BY <1>0, <1>1, SnapshotAdded
  <2> HIDE DEF x
  <2>2. \A s \in snapshots : s.seq \in Nat /\ s.seq < x.seq BY <1>0, <2>1, Numbers
  <2>3. ASSUME NEW s \in snapshots PROVE Declares[s.commit] \subseteq Declares[c]
    <3>1. Active \in snapshots /\ Active.commit # NoCommit /\ s.seq <= Active.seq
      BY <1>0, ActiveType DEF Ordered
    <3>2. Declares[Active.commit] \subseteq Declares[c]
      BY <1>1, <3>1 DEF Snapshotted, KeepsDeclarations
    <3>3. s = Active \/ s.seq < Active.seq BY <1>0, <2>2, <3>1 DEF Ordered, Distinct
    <3>4. Declares[s.commit] \subseteq Declares[Active.commit]
      BY <3>1, <3>3 DEF DeclarationsRetained
    <3> QED BY <3>2, <3>4
  <2>4. ASSUME NEW s \in snapshots \cup {x}, NEW t \in snapshots \cup {x}, s.seq < t.seq
        PROVE  Declares[s.commit] \subseteq Declares[t.commit]
    <3>1. x.seq \in Nat BY <1>0, <2>1, Numbers
    <3>2. s \in snapshots BY <2>2, <2>4, <3>1
    <3> QED BY <2>1, <2>3, <2>4, <3>2 DEF DeclarationsRetained
  <2> QED BY <2>1, <2>4 DEF DeclarationsRetained
<1>2. CASE snapshots' = snapshots BY <1>2 DEF DeclarationsRetained
<1> QED
  BY <1>1, <1>2 DEF StoreStep, store, Checked, IssueOverride, PruneCoreCheckDetail, Other

(* Repository declarations are never lost along the history, although a    *)
(* rollback and an activation are each compared with the active snapshot   *)
(* only.                                                                   *)
THEOREM DeclarationsKept == Spec => []DeclarationsRetained
<1>1. Init => DeclarationsRetained BY DEF Init, DeclarationsRetained
<1>2. Invariant /\ DeclarationsRetained /\ [Next]_vars => DeclarationsRetained'
  BY InvariantStep, DeclarationsStep
<1> QED BY <1>1, <1>2, InvariantHolds, PTL DEF Spec

(* No two commits hold different profile versions under one path: what the *)
(* organization must keep to for a rollback never to end its commands.     *)
ContentsFixed ==
  \A c, d \in Commits : \A x \in Retains[c], y \in Retains[d] : x.path = y.path => x.content = y.content

(* Every write leaves a history that the verification accepts.             *)
LEMMA HistoryStep ==
  ASSUME Invariant, StoreStep, ContentsFixed, CoreHistoryVerified
  PROVE  CoreHistoryVerified'
<1>0. TypeOK /\ Ordered /\ RecordsSound BY DEF Invariant
<1>1. CASE snapshots' = snapshots
  BY <1>1
  DEF CoreHistoryVerified, CatalogVerified, CarriesHistory, ChangesNoProfile, RollbackLinked,
      Receipted, Before
<1>2. ASSUME NEW c \in Commits, NEW by \in {"activate", "rollback"}, Snapshotted(c, by)
      PROVE  CoreHistoryVerified'
  <2>1. PICK x : /\ snapshots' = snapshots \cup {x}
                 /\ x.seq = lastSeq + 1 /\ x.commit = c /\ x.expected = lastSeq /\ x.by = by
                 /\ x.previous = Replaces(by)
    <3> DEFINE new == [seq |-> lastSeq + 1, commit |-> c, at |-> clock, expected |-> lastSeq,
                       by |-> by, previous |-> Replaces(by)]
    <3>1. snapshots' = snapshots \cup {new} BY <1>2 DEF Snapshotted, NewSnapshot
    <3>2. /\ new.seq = lastSeq + 1 /\ new.commit = c /\ new.expected = lastSeq /\ new.by = by
          /\ new.previous = Replaces(by)
      OBVIOUS
    <3> HIDE DEF new
    <3> QED BY <3>1, <3>2
  <2>2. /\ lastSeq \in Nat /\ \A s \in snapshots : s.seq \in Nat /\ s.seq < x.seq
    BY <1>0, <2>1, Numbers
  <2>3. {q \in snapshots' : q.seq < x.seq} = snapshots BY <2>1, <2>2
  <2>4. ASSUME NEW s \in snapshots
        PROVE  {q \in snapshots' : q.seq < s.seq} = {q \in snapshots : q.seq < s.seq}
    BY <2>1, <2>2
  <2>5. snapshots # {} => Newest(snapshots) = Active BY DEF Active, ActiveIn
  <2>6. \A s \in snapshots' : s.commit \in Commits
    BY <1>0, <2>1, TypeRows DEF SnapshotRow
  <2>7. ASSUME NEW s \in snapshots'
        PROVE  \A q \in snapshots', y \in Retains[s.commit] :
                 \A z \in Retains[q.commit] : y.path = z.path => y.content = z.content
    BY <2>6 DEF ContentsFixed
  <2>8. ASSUME NEW s \in snapshots
        PROVE  (CatalogVerified(s) /\ CarriesHistory(s) /\ ChangesNoProfile(s)
                  /\ RollbackLinked(s) /\ Receipted(s))'
    <3>1. /\ CatalogVerified(s) /\ CarriesHistory(s) /\ ChangesNoProfile(s)
          /\ RollbackLinked(s) /\ Receipted(s)
      BY DEF CoreHistoryVerified
    <3> QED BY <2>4, <3>1
      DEF CatalogVerified, CarriesHistory, ChangesNoProfile, RollbackLinked, Receipted, Before
  <2>9. CatalogVerified(x)' /\ Receipted(x)'
    BY <1>2, <2>1, <2>2 DEF Snapshotted, CatalogVerified, Receipted
  <2>10. /\ x.by = "activate" =>
               /\ \A q \in snapshots : Retains[q.commit] \subseteq Retains[x.commit]
               /\ snapshots # {} => <<Newest(snapshots).commit, x.commit>> \in GoalMoves
    <3>1. snapshots # {} => Active.commit # NoCommit BY <1>0, ActiveType DEF Ordered
    <3> QED BY <1>2, <2>1, <2>5, <3>1 DEF Snapshotted, Acceptable
  <2>11. CarriesHistory(x)' BY <2>3, <2>10 DEF CarriesHistory, Before
  <2>12. ChangesNoProfile(x)' BY <2>1, <2>7 DEF ChangesNoProfile, Before
  <2>13. RollbackLinked(x)'
    BY <1>2, <2>1, <2>3, <2>5 DEF RollbackLinked, Before, Replaces, Snapshotted
  <2> QED BY <2>1, <2>8, <2>9, <2>11, <2>12, <2>13 DEF CoreHistoryVerified
<1> QED
  BY <1>1, <1>2 DEF StoreStep, store, Checked, IssueOverride, PruneCoreCheckDetail, Other

(* While no commit changes a published profile version, every command      *)
(* finds a history that it accepts, whatever activations, rollbacks and    *)
(* failures there were.  (A rollback that does change one is the finding   *)
(* of the run core_rollback: the premise cannot be dropped.)               *)
THEOREM HistoryAccepted == ContentsFixed => (Spec => []CoreHistoryVerified)
<1> SUFFICES ASSUME ContentsFixed PROVE Spec => []CoreHistoryVerified OBVIOUS
<1>1. Init => CoreHistoryVerified BY DEF Init, CoreHistoryVerified
<1>2. Invariant /\ CoreHistoryVerified /\ [Next]_vars => CoreHistoryVerified'
  BY InvariantStep, HistoryStep
<1> QED BY <1>1, <1>2, InvariantHolds, PTL DEF Spec
====

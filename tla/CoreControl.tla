---- MODULE CoreControl ----
(***************************************************************************)
(* The control plane's view of an organization's Core repository           *)
(* (src/src/control/store.ts, src/src/core/): the leased poll, the         *)
(* synchronization of the configured ref, snapshots and rollback, the      *)
(* source checks and overrides that admission readiness is read from, and  *)
(* the retention of check detail.                                          *)
(*                                                                         *)
(* Every store call is one BEGIN IMMEDIATE transaction and one step.  A    *)
(* synchronization awaits Git twice and calls the store several times; its *)
(* process keeps what it read in proc[p].  Pollers and operators run in    *)
(* different operating-system processes, whose host clock may be set back. *)
(*                                                                         *)
(* Abstractions.  A commit stands for its validated catalog.  A snapshot   *)
(* and a check are named by their transaction sequence.  A check's outcome *)
(* joins its stage and its code.  Of payloads and receipts only what other *)
(* code reads is kept.  Every command first verifies the whole history and *)
(* throws when it does not hold together: that is not a guard here but the *)
(* invariant CoreHistoryVerified.                                          *)
(***************************************************************************)
EXTENDS Integers, FiniteSets

CONSTANTS
  Procs,        \* processes that synchronize: pollers and activate commands
  Commits,      \* commits the configured ref, or a rollback, may name
  NoCommit,
  Valid,        \* the commits whose catalog the validator accepts
  Ancestry,     \* the pairs <<a, c>> with c a descendant of a
  Declares,     \* Declares[c]: repositories that commit c declares
  Retains,      \* Retains[c]: the profile versions, Goals and schemas that c carries,
                \* each a path and a content; Goals may be edited and have one content
  GoalMoves,    \* the pairs <<a, c>> whose Goal statuses are legal transitions
  Healthy,      \* healthyIntervalSeconds
  FirstBackoff, \* CORE_POLL_FIRST_SOURCE_BACKOFF_SECONDS
  MaxBackoff,   \* CORE_POLL_MAXIMUM_SOURCE_BACKOFF_SECONDS
  Lease,        \* CORE_POLL_LEASE_SECONDS
  PruneEvery,   \* CORE_POLL_PRUNE_INTERVAL_SECONDS
  Day,          \* maximum staleness, and the longest override
  Retention,    \* CORE_CHECK_DETAIL_RETENTION_DAYS
  MaxDetail,    \* CORE_CHECK_DETAIL_MAXIMUM_ELIGIBLE_CHECKS
  MaxTime,      \* bounds of the model only: the clock,
  MaxSeq,       \* control-plane transactions,
  MaxRuns,      \* claimed poll runs,
  Events        \* and the commands and failures that occur

ASSUME CoreAssumption ==
  /\ NoCommit \notin Commits
  /\ Valid \subseteq Commits
  /\ Ancestry \subseteq Commits \X Commits
  /\ \A c \in Commits : <<c, c>> \notin Ancestry
  /\ {Healthy, FirstBackoff, MaxBackoff, Lease, PruneEvery, Day} \subseteq Nat \ {0}
  /\ {Retention, MaxDetail, MaxTime, MaxRuns} \subseteq Nat /\ MaxSeq \in Nat \ {0}

VARIABLES
  clock,        \* what this.now() answers
  watermark,    \* control_time_watermark
  lastSeq,      \* last_transaction_sequence
  snapshots,    \* core_snapshots; the newest is the active one
  checks,       \* source checks and candidate rejections still retained
  overrides,    \* stale-source override decisions
  poll,         \* core_poll_state
  runs,         \* poll runs claimed so far (run ids are numbers)
  proc          \* the local state of each synchronization

store == <<watermark, lastSeq, snapshots, checks, overrides>>
vars == <<clock, store, poll, runs, proc>>

Times == 0 .. MaxTime
Seqs == 1 .. MaxSeq
MaybeCommit == Commits \cup {NoCommit}

Rejections == {"source-unavailable", "candidate-invalid", "candidate-not-descendant",
               "continuity-unverifiable", "persistence-failed"}
ContinuityCodes == {"candidate-not-descendant", "continuity-unverifiable"}

NoRun == 0
NoLease == [run |-> NoRun, startedAt |-> 0, expiresAt |-> 0]
NoSnapshot == [seq |-> 0, commit |-> NoCommit, at |-> 0, expected |-> 0, by |-> "none",
               previous |-> 0]
Idle == [pc |-> "idle", run |-> NoRun, expected |-> 0, pruneDue |-> FALSE,
         candidate |-> NoCommit, active |-> NoCommit, outcome |-> "none", pruned |-> FALSE]

-----------------------------------------------------------------------------
(* Reading the store.                                                      *)

Newest(S) == CHOOSE x \in S : \A y \in S : y.seq <= x.seq

(* activeCoreSnapshot: the singleton names the snapshot written last.      *)
ActiveIn(S) == IF S = {} THEN NoSnapshot ELSE Newest(S)
Active == ActiveIn(snapshots)

Automatic(C) == {c \in C : c.operation = "automatic-source-check"}
Validated(C) == {c \in Automatic(C) : c.outcome \in ContinuityCodes \cup {"eligible", "persistence-failed"}}
Substantive(C) == {c \in Automatic(C) : c.outcome # "source-unavailable"}

(* Fault: any later activation resolves a continuity rejection.            *)
ResolvedByAny(check, active) == active.seq > check.seq

(* The exact rollback that resolves a continuity rejection.                *)
ResolvedBy(check, active) ==
  check.commit = active.commit /\ active.seq > check.seq

(* Fault: an eligible check stands for whatever commit is active.          *)
HardReasonAnyCommit(C, S) ==
  LET latest == Newest(Substantive(C))
  IN IF S = {} THEN "no-active-snapshot"
     ELSE IF Substantive(C) = {} \/ latest.outcome = "eligible" THEN "ready"
     ELSE IF latest.outcome \in ContinuityCodes
       THEN IF ResolvedBy(latest, ActiveIn(S)) THEN "ready" ELSE "continuity-blocked"
     ELSE latest.outcome

(* The part of coreAdmissionReadinessWithoutOverride that no time heals.   *)
HardReason(C, S) ==
  LET active == ActiveIn(S)
      latest == Newest(Substantive(C))
  IN IF S = {} THEN "no-active-snapshot"
     ELSE IF Substantive(C) = {} THEN "ready"
     ELSE IF latest.outcome = "eligible"
       THEN IF latest.commit = active.commit THEN "ready" ELSE "continuity-blocked"
     ELSE IF latest.outcome \in ContinuityCodes
       THEN IF ResolvedBy(latest, active) THEN "ready" ELSE "continuity-blocked"
     ELSE latest.outcome

Stale(C, t) == Validated(C) = {} \/ t >= Newest(Validated(C)).at + Day

(* coreAdmissionReadinessWithoutOverride                                   *)
BaseReason(C, S, t) ==
  IF HardReason(C, S) = "ready" /\ Stale(C, t) THEN "source-stale" ELSE HardReason(C, S)

(* The decisions for the snapshot now active that have not expired.        *)
Applicable(S, t) ==
  {o \in overrides : o.snapshot = ActiveIn(S).seq /\ o.at <= t /\ t < o.expiresAt}

(* coreAdmissionReadiness                                                  *)
Readiness(C, S, t) ==
  IF BaseReason(C, S, t) = "source-stale" /\ Applicable(S, t) # {}
    THEN "ready" ELSE BaseReason(C, S, t)

(* Fault: compares with the newest rejection, as if no check had passed    *)
(* since.                                                                  *)
SuppressedSinceRejection(r) ==
  LET rejected == {c \in Automatic(checks) : c.outcome # "eligible"}
  IN /\ r.outcome \in ContinuityCodes \cup {"candidate-invalid"}
     /\ rejected # {}
     /\ LET latest == Newest(rejected)
        IN /\ latest.outcome = r.outcome
           /\ latest.commit = r.commit
           /\ r.outcome \in ContinuityCodes => latest.active = r.active

(* shouldSuppressCoreCandidateRejection: the newest automatic check is the *)
(* same invalid candidate, or the same broken continuity.                  *)
Suppressed(r) ==
  /\ r.outcome \in ContinuityCodes \cup {"candidate-invalid"}
  /\ Automatic(checks) # {}
  /\ LET latest == Newest(Automatic(checks))
     IN /\ latest.outcome = r.outcome
        /\ latest.commit = r.commit
        /\ r.outcome \in ContinuityCodes => latest.active = r.active

Descends(c, a) == <<a, c>> \in Ancestry

(* assertRepositoryDeclarationRetention                                    *)
KeepsDeclarations(a, c) == a # NoCommit => Declares[a] \subseteq Declares[c]

(* Fault: a candidate answers for the active snapshot only.                *)
AcceptableToActive(a, c) ==
  /\ KeepsDeclarations(a, c)
  /\ a # NoCommit => <<a, c>> \in GoalMoves /\ Retains[a] \subseteq Retains[c]

(* That, assertGoalRetention, and the retention of the whole history that  *)
(* automatic candidates owe.                                               *)
Acceptable(a, c) ==
  /\ KeepsDeclarations(a, c)
  /\ a # NoCommit => <<a, c>> \in GoalMoves
  /\ \A s \in snapshots : Retains[s.commit] \subseteq Retains[c]

-----------------------------------------------------------------------------
TypeOK ==
  /\ clock \in Times /\ watermark \in Times
  /\ lastSeq \in Seqs
  /\ snapshots \subseteq [seq : Seqs, commit : Commits, at : Times, expected : Seqs,
                          by : {"activate", "rollback"}, previous : Seqs \cup {0}]
  /\ checks \subseteq [seq : Seqs, at : Times, commit : MaybeCommit, active : MaybeCommit,
                       operation : {"automatic-source-check", "operator-rollback"},
                       outcome : Rejections \cup {"eligible"}]
  /\ overrides \subseteq [seq : Seqs, at : Times, expiresAt : Nat, snapshot : Seqs, check : Seqs,
                          validatedAt : Times]
  /\ poll \in [nextPollAt : Nat, nextPruneAt : Nat, streak : 0 .. 2, lastCompletedAt : Times,
               lease : [run : 0 .. MaxRuns, startedAt : Times, expiresAt : Nat]]
  /\ runs \in 0 .. MaxRuns
  /\ proc \in [Procs ->
       [pc : {"idle", "inspect", "verify", "sequence", "activate", "eligible", "reject",
              "maintain", "complete"},
        run : 0 .. MaxRuns, expected : Seqs \cup {0}, pruneDue : BOOLEAN,
        candidate : MaybeCommit, active : MaybeCommit, pruned : BOOLEAN,
        outcome : Rejections \cup {"none", "eligible"}]]

(* The database as initialize leaves it.                                   *)
Init ==
  /\ clock = 0 /\ watermark = 0 /\ lastSeq = 1
  /\ snapshots = {} /\ checks = {} /\ overrides = {}
  /\ poll = [nextPollAt |-> 0, nextPruneAt |-> PruneEvery, streak |-> 0,
             lastCompletedAt |-> 0, lease |-> NoLease]
  /\ runs = 0
  /\ proc = [p \in Procs |-> Idle]

(* Fault: the clock is not compared with the watermark.                    *)
TransactionAnyTime ==
  /\ lastSeq < MaxSeq
  /\ lastSeq' = lastSeq + 1
  /\ watermark' = IF clock >= watermark THEN clock ELSE watermark

(* What every control-plane transaction does: refuse a clock behind the    *)
(* watermark, take the next sequence, move the watermark.                  *)
Transaction ==
  /\ clock >= watermark
  /\ lastSeq < MaxSeq
  /\ lastSeq' = lastSeq + 1
  /\ watermark' = clock

Step(p, changes) == proc' = [proc EXCEPT ![p] = changes]

(* A synchronization ends: an activate command returns, a poll run goes on *)
(* to reconciliation and pruning, or, after an error, to its completion.   *)
Ends(p, outcome, failed) ==
  Step(p, IF proc[p].run = NoRun THEN Idle
          ELSE [Idle EXCEPT !.pc = IF failed THEN "complete" ELSE "maintain",
                            !.run = proc[p].run, !.pruneDue = proc[p].pruneDue,
                            !.outcome = outcome])

(* A store or Git call throws: lost race, clock behind, I/O, lock timeout. *)
Throws(p) ==
  /\ "throw" \in Events
  /\ proc[p].pc \in {"inspect", "verify", "sequence", "activate", "eligible", "reject"}
  /\ Ends(p, "none", TRUE)
  /\ UNCHANGED <<clock, store, poll, runs>>

-----------------------------------------------------------------------------
(* The poll lease.                                                         *)

(* claimCorePoll, when it answers "claimed".                               *)
ClaimCorePoll(p) ==
  /\ proc[p].pc = "idle" /\ runs < MaxRuns
  /\ clock >= watermark /\ clock >= poll.lastCompletedAt
  /\ poll.lease.run # NoRun => clock >= poll.lease.expiresAt
  /\ clock >= poll.nextPollAt
  /\ runs' = runs + 1
  /\ poll' = [poll EXCEPT !.lease = [run |-> runs + 1, startedAt |-> clock,
                                     expiresAt |-> clock + Lease]]
  /\ Step(p, [Idle EXCEPT !.pc = "inspect", !.run = runs + 1, !.expected = lastSeq,
                          !.pruneDue = clock >= poll.nextPruneAt])
  /\ UNCHANGED <<clock, store>>

Larger(a, b) == IF a >= b THEN a ELSE b

(* corePollDelaySeconds; a streak above two is as two.                     *)
Streak(outcome) ==
  CASE outcome = "source-unavailable" -> IF poll.streak = 0 THEN 1 ELSE 2
    [] outcome = "none" -> poll.streak
    [] OTHER -> 0
Delay(outcome) ==
  IF outcome # "source-unavailable" THEN Healthy
  ELSE Larger(Healthy, IF Streak(outcome) <= 1 THEN FirstBackoff ELSE MaxBackoff)

(* completeCorePoll by the run that holds the lease, lapsed or not.        *)
CompleteCorePoll(p) ==
  /\ proc[p].pc = "complete"
  /\ poll.lease.run = proc[p].run
  /\ clock >= watermark /\ clock >= poll.lease.startedAt
  /\ poll' = [nextPollAt |-> clock + Delay(proc[p].outcome),
              nextPruneAt |-> IF proc[p].pruned THEN clock + PruneEvery ELSE poll.nextPruneAt,
              streak |-> Streak(proc[p].outcome),
              lastCompletedAt |-> clock, lease |-> NoLease]
  /\ Step(p, Idle)
  /\ UNCHANGED <<clock, store, runs>>

(* completeCorePoll throws, or the process dies anywhere.                  *)
Stops(p) ==
  /\ "stop" \in Events
  /\ proc[p].pc # "idle"
  /\ Step(p, Idle)
  /\ UNCHANGED <<clock, store, poll, runs>>

-----------------------------------------------------------------------------
(* synchronizeCoreSource                                                   *)

(* The activate command: the operator read the sequence just before.       *)
StartActivate(p) ==
  /\ "activate" \in Events
  /\ proc[p].pc = "idle"
  /\ Step(p, [Idle EXCEPT !.pc = "inspect", !.expected = lastSeq])
  /\ UNCHANGED <<clock, store, poll, runs>>

ToReject(p, outcome, candidate, active) ==
  /\ outcome \in Events
  /\ Step(p, [proc[p] EXCEPT !.pc = "reject", !.outcome = outcome,
                             !.candidate = candidate, !.active = active])

(* The fetch answered: unavailable; or a commit whose catalog is invalid,  *)
(* drops what must be kept, or could not be read (any failure once the     *)
(* commit is known counts as invalid); or an acceptable candidate, whose   *)
(* continuity from the snapshot now active is to be verified.              *)
Inspect(p) ==
  /\ proc[p].pc = "inspect"
  /\ \/ ToReject(p, "source-unavailable", NoCommit, NoCommit)
     \/ \E c \in Commits : ToReject(p, "candidate-invalid", c, NoCommit)
     \/ \E c \in Valid :
          /\ Acceptable(Active.commit, c)
          /\ Step(p, [proc[p] EXCEPT !.candidate = c, !.active = Active.commit,
                        !.pc = IF Active.commit \in {NoCommit, c} THEN "sequence" ELSE "verify"])
  /\ UNCHANGED <<clock, store, poll, runs>>

(* verifyCoreSourceContinuity from the snapshot that was active before it. *)
Verify(p) ==
  /\ proc[p].pc = "verify"
  /\ \/ Descends(proc[p].candidate, proc[p].active) /\ Step(p, [proc[p] EXCEPT !.pc = "sequence"])
     \/ ~Descends(proc[p].candidate, proc[p].active)
        /\ ToReject(p, "candidate-not-descendant", proc[p].candidate, proc[p].active)
     \/ ToReject(p, "continuity-unverifiable", proc[p].candidate, proc[p].active)
  /\ UNCHANGED <<clock, store, poll, runs>>

(* The sequence is still the one the run began with.                       *)
CheckSequence(p) ==
  /\ proc[p].pc = "sequence"
  /\ lastSeq = proc[p].expected
  /\ Step(p, [proc[p] EXCEPT !.pc =
                IF proc[p].active = proc[p].candidate THEN "eligible" ELSE "activate"])
  /\ UNCHANGED <<clock, store, poll, runs>>

(* Fault: the transaction trusts what was checked before it began.         *)
ActivationUnfenced(p) == Acceptable(Active.commit, proc[p].candidate)

(* activateCoreSnapshot's fence: the sequence, and the continuity claimed. *)
ActivationFence(p) ==
  /\ lastSeq = proc[p].expected
  /\ proc[p].active = Active.commit
  /\ Acceptable(Active.commit, proc[p].candidate)

(* What a rollback's decision and event say it replaces.                   *)
Replaces(by) == IF by = "rollback" THEN Active.seq ELSE 0

(* Fault: the snapshot is recorded under the commit it replaces.           *)
SnapshotOfPrevious(commit, by, expected) ==
  snapshots' = snapshots \cup {[seq |-> lastSeq + 1, commit |-> Active.commit, at |-> clock,
                                expected |-> expected, by |-> by, previous |-> Replaces(by)]}

NewSnapshot(commit, by, expected) ==
  snapshots' = snapshots \cup {[seq |-> lastSeq + 1, commit |-> commit, at |-> clock,
                                expected |-> expected, by |-> by, previous |-> Replaces(by)]}

(* An equal command has been answered before: its receipt is returned.     *)
Receipt(p) ==
  \E s \in snapshots : /\ s.by = "activate"
                       /\ s.expected = proc[p].expected
                       /\ s.commit = proc[p].candidate

ActivateCoreSnapshot(p) ==
  /\ proc[p].pc = "activate"
  /\ \/ /\ Receipt(p)
        /\ Step(p, [proc[p] EXCEPT !.pc = "eligible"])
        /\ UNCHANGED store
     \/ /\ ~Receipt(p) /\ ActivationFence(p)
        /\ Transaction
        /\ NewSnapshot(proc[p].candidate, "activate", proc[p].expected)
        /\ Step(p, [proc[p] EXCEPT !.pc = "eligible"])
        /\ UNCHANGED <<checks, overrides>>
     \/ \* the authority write began and was rolled back
        /\ ~Receipt(p) /\ ActivationFence(p) /\ clock >= watermark
        /\ ToReject(p, "persistence-failed", proc[p].candidate, proc[p].active)
        /\ UNCHANGED store
  /\ UNCHANGED <<clock, poll, runs>>

(* The registered contracts of eligible checks and of rejections.          *)
EligibleAdmitted(commit, active) == commit # NoCommit /\ active = commit
RejectionAdmitted(outcome, commit, active) ==
  \/ outcome = "source-unavailable"
  \/ outcome \in {"candidate-invalid", "persistence-failed"} /\ commit # NoCommit
  \/ outcome \in ContinuityCodes /\ commit # NoCommit /\ active # NoCommit

NewCheck(operation, outcome, commit, active) ==
  /\ IF outcome = "eligible" THEN EligibleAdmitted(commit, active)
     ELSE RejectionAdmitted(outcome, commit, active)
  /\ checks' = checks \cup {[seq |-> lastSeq + 1, at |-> clock, operation |-> operation,
                             outcome |-> outcome, commit |-> commit, active |-> active]}

(* recordCoreSourceCheckEligible, for the sequence read just before.       *)
RecordEligible(p) ==
  /\ proc[p].pc = "eligible"
  /\ Active.commit = proc[p].candidate
  /\ Transaction
  /\ NewCheck("automatic-source-check", "eligible", proc[p].candidate, proc[p].candidate)
  /\ Ends(p, "eligible", FALSE)
  /\ UNCHANGED <<clock, snapshots, overrides, poll, runs>>

Rejection(p) ==
  [outcome |-> proc[p].outcome, commit |-> proc[p].candidate, active |-> proc[p].active]

(* rejectedResult: the rejection is suppressed, recorded, or fails to be.  *)
Reject(p) ==
  LET r == Rejection(p)
  IN /\ proc[p].pc = "reject"
     /\ \/ Suppressed(r) /\ Ends(p, r.outcome, FALSE) /\ UNCHANGED store
        \/ /\ ~Suppressed(r) /\ Transaction
           /\ NewCheck("automatic-source-check", r.outcome, r.commit, r.active)
           /\ Ends(p, r.outcome, FALSE)
           /\ UNCHANGED <<snapshots, overrides>>
        \/ ~Suppressed(r) /\ Ends(p, r.outcome, TRUE) /\ UNCHANGED store
     /\ UNCHANGED <<clock, poll, runs>>

-----------------------------------------------------------------------------
(* Retention of check detail.                                              *)

(* What readiness, suppression or a decision may still need.               *)
Protected(C) ==
  {c \in C : \/ c \in Automatic(C) /\ c = Newest(Automatic(C))
             \/ c \in Validated(C) /\ c = Newest(Validated(C))
             \/ c \in Substantive(C) /\ c = Newest(Substantive(C))
             \/ \E o \in overrides : o.check = c.seq}

(* Fault: by age everything goes that a later check follows.               *)
ToDeleteByAge(C, t) ==
  LET free == C \ Protected(C)
  IN {c \in C : c.at < t - Retention /\ \E d \in Automatic(C) : d.seq > c.seq}
     \cup {c \in free : Cardinality({d \in free : d.seq > c.seq}) >= MaxDetail}

(* selectCoreCheckDetailForPrune: too old, or beyond the newest MaxDetail  *)
(* of those that are not.                                                  *)
ToDelete(C, t) ==
  LET free == C \ Protected(C)
      recent == {c \in free : c.at >= t - Retention}
  IN {c \in free : \/ c \notin recent
                   \/ Cardinality({d \in recent : d.seq > c.seq}) >= MaxDetail}

(* pruneCoreCheckDetail                                                    *)
PruneCoreCheckDetail ==
  /\ Transaction
  /\ checks' = checks \ ToDelete(checks, clock)
  /\ UNCHANGED <<snapshots, overrides>>

(* What a poll run does between synchronization and completion: reconcile  *)
(* repositories (OtherTransaction), then prune if a prune is due; either   *)
(* may throw, which the run's completion survives.                         *)
Maintain(p) ==
  /\ proc[p].pc = "maintain"
  /\ \/ /\ proc[p].pruneDue
        /\ PruneCoreCheckDetail
        /\ Step(p, [proc[p] EXCEPT !.pc = "complete", !.pruned = TRUE])
     \/ /\ Step(p, [proc[p] EXCEPT !.pc = "complete"])
        /\ UNCHANGED store
  /\ UNCHANGED <<clock, poll, runs>>

-----------------------------------------------------------------------------
(* Operator commands, each with the sequence the operator just read.  A    *)
(* command with an older sequence throws; a repeated one returns its       *)
(* receipt.                                                                *)

(* Fault: a rollback may drop repository declarations.                     *)
RollbackUnchecked(target) ==
  target \in Valid /\ snapshots # {} /\ target # Active.commit

(* rollbackCoreSnapshot to a commit that is retained or inspected anew.    *)
RollbackAllowed(target) ==
  /\ target \in Valid
  /\ snapshots # {}
  /\ KeepsDeclarations(Active.commit, target)
  /\ target # Active.commit

RollbackCoreSnapshot(target) ==
  /\ "rollback" \in Events
  /\ RollbackAllowed(target)
  /\ Transaction
  /\ NewSnapshot(target, "rollback", lastSeq)
  /\ UNCHANGED <<clock, checks, overrides, poll, runs, proc>>

(* retainedCoreCandidate finds the target among the snapshots' bytes.      *)
Retained(target) == \E s \in snapshots : s.commit = target

(* The rollback command failed and recorded why: the target could not be   *)
(* inspected, drops a declaration, or its authority write was rolled back. *)
RollbackDiagnosis(target) ==
  {o \in {"source-unavailable", "candidate-invalid"} : ~Retained(target)}
     \cup {o \in {"candidate-invalid"} : ~KeepsDeclarations(Active.commit, target)}
     \cup {o \in {"persistence-failed"} : RollbackAllowed(target)}

RollbackRejected(target) ==
  /\ "failing rollback" \in Events
  /\ \E outcome \in RollbackDiagnosis(target) :
       NewCheck("operator-rollback", outcome, target, Active.commit)
  /\ Transaction
  /\ UNCHANGED <<clock, snapshots, overrides, poll, runs, proc>>

(* The registered contract of an override decision.                        *)
OverrideAdmitted(validatedAt, expiresAt) ==
  clock >= validatedAt + Day /\ clock < expiresAt /\ expiresAt <= clock + Day

(* issueCoreStaleSourceOverride                                            *)
IssueOverride(expiresAt) ==
  /\ "override" \in Events
  /\ BaseReason(checks, snapshots, clock) = "source-stale"
  /\ Automatic(checks) # {} /\ Validated(checks) # {}
  /\ OverrideAdmitted(Newest(Validated(checks)).at, expiresAt)
  /\ Transaction
  /\ overrides' = overrides \cup {[seq |-> lastSeq + 1, at |-> clock, expiresAt |-> expiresAt,
                                   snapshot |-> Active.seq, check |-> Newest(Automatic(checks)).seq,
                                   validatedAt |-> Newest(Validated(checks)).at]}
  /\ UNCHANGED <<clock, snapshots, checks, poll, runs, proc>>

(* The prune-check-history command.                                        *)
PruneCommand ==
  "prune" \in Events /\ PruneCoreCheckDetail /\ UNCHANGED <<clock, poll, runs, proc>>

(* Any other control-plane transaction: repositories, deliveries, holds.   *)
OtherTransaction ==
  "other" \in Events /\ Transaction /\ UNCHANGED <<clock, snapshots, checks, overrides, poll, runs, proc>>

(* Time passes, or the host clock is set back.                             *)
ClockMoves ==
  /\ clock' \in Times \ {clock}
  /\ UNCHANGED <<store, poll, runs, proc>>

Synchronize(p) ==
  \/ Inspect(p) \/ Verify(p) \/ CheckSequence(p) \/ ActivateCoreSnapshot(p)
  \/ RecordEligible(p) \/ Reject(p) \/ Throws(p)

Next ==
  \/ \E p \in Procs : ClaimCorePoll(p) \/ StartActivate(p) \/ Synchronize(p)
                      \/ Maintain(p) \/ CompleteCorePoll(p) \/ Stops(p)
  \/ \E c \in Commits : RollbackCoreSnapshot(c) \/ RollbackRejected(c)
  \/ \E t \in 0 .. MaxTime + Day : IssueOverride(t)
  \/ PruneCommand \/ OtherTransaction \/ ClockMoves

Spec == Init /\ [][Next]_vars

-----------------------------------------------------------------------------
(* What verifyExisting demands, at the start of every command, of what     *)
(* earlier commands wrote.                                                 *)

Before(s) == {q \in snapshots : q.seq < s.seq}

(* The retained bytes still validate.                                      *)
CatalogVerified(s) == s.commit \in Valid

(* An automatic snapshot carries all that any snapshot before it carried,  *)
(* and moves the Goals of the one it replaced legally.                     *)
CarriesHistory(s) ==
  s.by = "activate" =>
    /\ \A q \in Before(s) : Retains[q.commit] \subseteq Retains[s.commit]
    /\ Before(s) # {} => <<Newest(Before(s)).commit, s.commit>> \in GoalMoves

(* No snapshot, rolled back to or activated, changes a profile version.    *)
ChangesNoProfile(s) ==
  \A q \in Before(s), x \in Retains[s.commit] :
    \A y \in Retains[q.commit] : x.path = y.path => x.content = y.content

(* A rollback's decision names the snapshot it replaced.                   *)
RollbackLinked(s) ==
  s.by = "rollback" => Before(s) # {} /\ s.previous = Newest(Before(s)).seq

(* The receipt is keyed by the sequence before its transaction.            *)
Receipted(s) == s.expected = s.seq - 1

(* An override's sequence, snapshot, checks and readiness are worked out   *)
(* again from what is retained of its time.                                *)
OverrideVerified(o) ==
  LET then == {c \in checks : c.seq < o.seq}
      snapshotsThen == {s \in snapshots : s.seq < o.seq}
  IN /\ snapshotsThen # {} /\ Newest(snapshotsThen).seq = o.snapshot
     /\ Automatic(then) # {} /\ Newest(Automatic(then)).seq = o.check
     /\ Validated(then) # {} /\ Newest(Validated(then)).at = o.validatedAt
     /\ HardReason(then, snapshotsThen) = "ready"

-----------------------------------------------------------------------------
(* An automatic activation only ever replaces a snapshot by a commit that  *)
(* descends from it, although the continuity check, the activation and any *)
(* rollback are separate steps of separate processes, and a run whose poll *)
(* lease lapsed goes on.                                                   *)
AuthorityIsContinuous ==
  [][\A s \in snapshots' \ snapshots :
       s.by = "activate" /\ snapshots # {} => Descends(s.commit, Active.commit)]_vars

(* Repository declarations are never lost along the whole history of       *)
(* snapshots, rollbacks included.                                          *)
DeclarationsRetained ==
  \A s, t \in snapshots : s.seq < t.seq => Declares[s.commit] \subseteq Declares[t.commit]

(* However the host clock jumps, recorded times agree with sequence order; *)
(* staleness, override expiry and retention compare those times.           *)
TimesFollowSequence ==
  LET at == {[seq |-> r.seq, at |-> r.at] : r \in snapshots \cup checks \cup overrides}
  IN \A x, y \in at : x.seq <= y.seq => x.at <= y.at /\ y.at <= watermark /\ y.seq <= lastSeq

(* Pruning changes no answer: readiness now and at every later instant,    *)
(* the suppression of every rejection, and the evidence of every override. *)
PruneChangesNoAnswer ==
  [][\A t \in watermark' .. MaxTime :
       checks' \subseteq checks /\ snapshots' = snapshots =>
         /\ Readiness(checks', snapshots', t) = Readiness(checks, snapshots, t)
         /\ Automatic(checks) # {} => Newest(Automatic(checks')) = Newest(Automatic(checks))]_<<checks>>

(* What an override says can be worked out again from the checks retained  *)
(* at its sequence: verifyRegistryReferences does so at the start of every *)
(* command and refuses the database when the answer differs.               *)
OverridesReverify == \A o \in overrides : OverrideVerified(o)

(* What activations and rollbacks leave is what verifyCoreSnapshots and    *)
(* verifyIdempotencyReceipts accept: an operation they did not foresee     *)
(* would end every later command, and the operator's way back with them.   *)
CoreHistoryVerified ==
  \A s \in snapshots :
    CatalogVerified(s) /\ CarriesHistory(s) /\ ChangesNoProfile(s) /\ RollbackLinked(s) /\ Receipted(s)

(* A hard failure is cleared only by a later eligible check or by making   *)
(* the very commit of that check active; a failed rollback, an override, a *)
(* prune, an outage or a completed poll never clears it.                   *)
HardFailureStands ==
  [][(HardReason(checks, snapshots) \notin {"ready", "no-active-snapshot"}
        /\ HardReason(checks', snapshots') = "ready") =>
       \/ \E c \in checks' \ checks : c.outcome = "eligible"
       \/ /\ snapshots' # snapshots
          /\ ActiveIn(snapshots').commit = Newest(Substantive(checks)).commit
          /\ Newest(Substantive(checks)).outcome \in ContinuityCodes \cup {"eligible"}]_vars

(* Readiness rests on evidence: some automatic check validated the very    *)
(* commit that is active within the last Day, or an override that has not  *)
(* expired was issued for the snapshot now active - not for an earlier one *)
(* of the same commit - and the check that it cites is still there.        *)
ReadyIsEvidenced ==
  \A t \in watermark .. MaxTime : Readiness(checks, snapshots, t) = "ready" =>
    \/ \E c \in Validated(checks) : c.commit = Active.commit /\ t < c.at + Day
    \/ \E o \in overrides : /\ o.seq > Active.seq /\ o.at <= t /\ t < o.expiresAt
                            /\ \E c \in checks : c.seq = o.check

(* A rejection is suppressed only when what it says is already in force,   *)
(* or was resolved by activating the rejected commit.                      *)
SuppressionLosesNothing ==
  \A p \in Procs :
    proc[p].pc = "reject" /\ Suppressed(Rejection(p)) =>
      \/ HardReason(checks, snapshots) # "ready"
      \/ Active.commit = proc[p].candidate
====

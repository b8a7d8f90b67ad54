---- MODULE ReviewGate ----
(***************************************************************************)
(* The review gate for one draft pull request of a review-gated repository *)
(* (src/src/queue/pull-request-review.ts): the verify-artifacts passes     *)
(* that refresh the stored observation, retire dead review work, create    *)
(* review rounds and fixes and act on a verdict; the workers that complete *)
(* that work; and the GitHub pull request that people push to, close and   *)
(* merge meanwhile.                                                        *)
(*                                                                         *)
(* A pass runs as an asynchronous function: everything between two awaits  *)
(* of GitHub is one step, and what a step read before an await is kept in  *)
(* sweep[s] and may be stale after it.  The timer and the web surface each *)
(* run passes, so several may be in progress.                              *)
(*                                                                         *)
(* Abstractions.  Head SHAs are numbers in push order.  A verdict is one   *)
(* of six classes, by what the pass tells apart.  Leases, priorities and   *)
(* tokens of review work are in WorkQueue; here an item is queued, claimed,*)
(* checked (claimed, and its completion passed the GitHub check), or ended.*)
(***************************************************************************)
EXTENDS Naturals, FiniteSets

CONSTANTS
  Sweeps,      \* the passes that may be in progress at once
  MaxRounds,   \* MAX_REVIEW_ROUNDS
  MaxHeads,    \* bounds of the model only: pushes, and
  MaxFaults    \* crashes, lapsed leases and GitHub calls that fail

ASSUME GateAssumption ==
  MaxRounds \in Nat \ {0} /\ MaxHeads \in Nat \ {0} /\ MaxFaults \in Nat

VARIABLES
  pr,          \* the pull request on GitHub
  seen,        \* what the queue stored of it: the newest answer, and whether it is held
  work,        \* pr-review and pr-review-fix items, keyed by kind and head
  sweep,       \* the local state of each pass
  released,    \* the heads that artifact.ready events name
  attention,   \* the head last reported for a human, 0 if none
  faults

vars == <<pr, seen, work, sweep, released, attention, faults>>

Heads == 1 .. MaxHeads
WorkKinds == {"review", "fix"}
InFlight == {"queued", "claimed", "checked"}
Passing == {"pass", "description-outstanding"}
Describing == {"mixed", "description-new", "description-outstanding"}
Verdicts == {"pass", "unable", "tree"} \cup Describing

Observations == [state : {"open", "closed", "merged"}, draft : BOOLEAN]
OpenDraft == [state |-> "open", draft |-> TRUE]
Observed == [state |-> pr.state, draft |-> pr.draft]

(* held: a completed item reports the pull request and its artifact is     *)
(* unverified, or verified with a handoff that is unverified or rejected.  *)
Stored == [state : {"open", "closed", "merged"}, draft : BOOLEAN, held : BOOLEAN]
Storing(saw, held) == [state |-> saw.state, draft |-> saw.draft, held |-> held]

NoWork == [status |-> "absent", round |-> 0, prior |-> FALSE, verdict |-> "none", saw |-> OpenDraft]
Idle == [pc |-> "idle", saw |-> OpenDraft, bound |-> {}, head |-> 0, round |-> 0, prior |-> FALSE]

(* A worker has completed the origin item, reporting its draft; GitHub may *)
(* have failed to answer then, or to show the template of the handoff.     *)
Init ==
  /\ pr = [state |-> "open", draft |-> TRUE, head |-> 1, marked |-> 0]
  /\ \E held \in BOOLEAN : seen = Storing(OpenDraft, held)
  /\ work = [k \in WorkKinds |-> [h \in Heads |-> NoWork]]
  /\ sweep = [s \in Sweeps |-> Idle]
  /\ released = {}
  /\ attention = 0
  /\ faults = 0

----------------------------------------------------------------------------
(* GitHub, driven by people and by the fix workers' pushes.                *)
Push ==
  /\ pr.state = "open" /\ pr.head < MaxHeads
  /\ pr' = [pr EXCEPT !.head = @ + 1]
  /\ UNCHANGED <<seen, work, sweep, released, attention, faults>>

SetDraftByHand(draft) ==
  /\ pr.state = "open" /\ pr.draft # draft
  /\ pr' = [pr EXCEPT !.draft = draft, !.marked = 0]
  /\ UNCHANGED <<seen, work, sweep, released, attention, faults>>

SetStateByHand(state) ==
  /\ \/ pr.state = "open" /\ state = "closed"
     \/ pr.state = "open" /\ state = "merged" /\ ~pr.draft
     \/ pr.state = "closed" /\ state = "open"
  /\ pr' = [pr EXCEPT !.state = state, !.marked = 0]
  /\ UNCHANGED <<seen, work, sweep, released, attention, faults>>

----------------------------------------------------------------------------
(* A pass.  Goto ends the step of pass s at the await named by pc.         *)
At(s, pc) == sweep[s].pc = pc
Goto(s, local) == sweep' = [sweep EXCEPT ![s] = local]
Stop(s) == Goto(s, Idle)

(* refreshArtifactVerifications: only an open or held report is asked about*)
(* again, and an answer that shows anything new is stored after the await. *)
(* The stored head is left out: an equal answer may be new.                *)
StartPass(s) ==
  /\ At(s, "idle")
  /\ \/ /\ seen.state = "open" \/ seen.held
        /\ Goto(s, [Idle EXCEPT !.pc = "observed", !.saw = Observed])
     \/ /\ (seen.state # "open" /\ ~seen.held) \/ seen = Storing(Observed, FALSE)
        /\ Goto(s, [Idle EXCEPT !.pc = "refreshed"])
  /\ UNCHANGED <<pr, seen, work, released, attention, faults>>

(* The handoff of a held report is checked again while the pull request is *)
(* open: a body or template that satisfies it by now lifts the hold.       *)
RecordObservation(s) ==
  /\ At(s, "observed")
  /\ \E held \in {FALSE, seen.held /\ sweep[s].saw.state = "open"} :
       seen' = Storing(sweep[s].saw, held)
  /\ Goto(s, [Idle EXCEPT !.pc = "refreshed"])
  /\ UNCHANGED <<pr, work, released, attention, faults>>

Retirable(k, h) == work[k][h].status \in {"queued", "blocked"}

(* retireMergedOrClosedPullRequestBoundWork: the candidates are listed     *)
(* before the await that reads the pull request's state.                   *)
ListBoundWork(s) ==
  /\ At(s, "refreshed")
  /\ LET bound == {b \in WorkKinds \X Heads : Retirable(b[1], b[2])}
     IN IF bound = {} \/ pr.state = "open"
        THEN Goto(s, [Idle EXCEPT !.pc = "listed"])
        ELSE Goto(s, [Idle EXCEPT !.pc = "retiring", !.bound = bound])
  /\ UNCHANGED <<pr, seen, work, released, attention, faults>>

Retired(S) ==
  [k \in WorkKinds |-> [h \in Heads |->
     IF <<k, h>> \in S THEN [work[k][h] EXCEPT !.status = "cancelled"] ELSE work[k][h]]]

(* The store refuses to retire an item that was claimed or ended meanwhile:*)
(* the exception ends the whole pass, after some of the others.            *)
RetireBoundWork(s) ==
  /\ At(s, "retiring")
  /\ LET able == {b \in sweep[s].bound : Retirable(b[1], b[2])}
     IN \/ /\ able = sweep[s].bound
           /\ work' = Retired(able)
           /\ Goto(s, [Idle EXCEPT !.pc = "listed"])
        \/ /\ able # sweep[s].bound
           /\ \E some \in SUBSET able : work' = Retired(some)
           /\ Stop(s)
  /\ UNCHANGED <<pr, seen, released, attention, faults>>

(* curePullRequests (PullRequestCure) runs next in the same pass.  It      *)
(* throws, and ends the pass, if some pull request's cure cannot be stored.*)
CureThrows(s) ==
  /\ At(s, "listed") /\ Stop(s)
  /\ UNCHANGED <<pr, seen, work, released, attention, faults>>

(* reviewPullRequests: stored observations select the pull request, unless *)
(* some report of it is held (unresolvedSources, unresolvedHandoffs) ...   *)
SelectPullRequest(s) ==
  /\ At(s, "listed")
  /\ IF seen.state = "open" /\ seen.draft /\ ~seen.held
     THEN Goto(s, [Idle EXCEPT !.pc = "selected"]) ELSE Stop(s)
  /\ UNCHANGED <<pr, seen, work, released, attention, faults>>

(* ... and GitHub must confirm that it is an open draft.                   *)
ReadHead(s) ==
  /\ At(s, "selected")
  /\ IF pr.state = "open" /\ pr.draft
     THEN Goto(s, [Idle EXCEPT !.pc = "deciding", !.head = pr.head]) ELSE Stop(s)
  /\ UNCHANGED <<pr, seen, work, released, attention, faults>>

Review(h) == work["review"][h]
CompletedReviews == {h \in Heads : Review(h).status = "completed"}
WorkInFlight == {b \in WorkKinds \X Heads : work[b[1]][b[2]].status \in InFlight}

(* The completed review of the highest round; two passes may have created  *)
(* two of one round.  0 stands for none.                                   *)
LatestReviews ==
  IF CompletedReviews = {} THEN {0}
  ELSE {h \in CompletedReviews : \A g \in CompletedReviews : Review(g).round <= Review(h).round}

(* enqueueReviewRoot: a head has one review and one fix, ever.             *)
EnqueueReviewRoot(k, h, round, prior) ==
  IF work[k][h].status # "absent" THEN UNCHANGED work
  ELSE work' = [work EXCEPT ![k][h] = [NoWork EXCEPT !.status = "queued", !.round = round,
                                                      !.prior = prior]]

ReportForHuman(h) == attention' = h

(* Fault: a fix that moved nothing is not noticed.                         *)
ActOnVerdictSilently(s, h) ==
  LET verdict == Review(h).verdict IN
  \/ /\ verdict \in Passing /\ UNCHANGED <<work, attention>>
     /\ Goto(s, [sweep[s] EXCEPT !.pc = "passing"])
  \/ /\ verdict \in {"unable", "description-new"}
     /\ ReportForHuman(h) /\ Stop(s) /\ UNCHANGED work
  \/ /\ verdict \in {"tree", "mixed"} /\ Stop(s)
     /\ IF Review(h).round >= MaxRounds THEN ReportForHuman(h) /\ UNCHANGED work
        ELSE UNCHANGED attention /\ EnqueueReviewRoot("fix", h, Review(h).round, FALSE)

(* The verdict of the latest round is on the head just read.               *)
ActOnVerdict(s, h) ==
  LET verdict == Review(h).verdict IN
  \/ /\ verdict \in Passing
     /\ Goto(s, [sweep[s] EXCEPT !.pc = "passing"])
     /\ IF verdict = "pass" THEN UNCHANGED attention ELSE ReportForHuman(h)
     /\ UNCHANGED work
  \/ /\ verdict \in {"unable", "description-new"}
     /\ ReportForHuman(h) /\ Stop(s) /\ UNCHANGED work
  \/ /\ verdict \in {"tree", "mixed"}
     /\ IF work["fix"][h].status = "completed" \/ Review(h).round >= MaxRounds
        THEN ReportForHuman(h) /\ Stop(s) /\ UNCHANGED work
        ELSE IF verdict = "mixed"
        THEN ReportForHuman(h) /\ Goto(s, [sweep[s] EXCEPT !.pc = "fixing"]) /\ UNCHANGED work
        ELSE UNCHANGED attention /\ EnqueueReviewRoot("fix", h, Review(h).round, FALSE) /\ Stop(s)

(* A head no completed round has judged: the next round, while the budget  *)
(* lasts.  Round and prior blockers are fixed before the digest await.     *)
PlanRound(s, latest) ==
  LET round == Cardinality(CompletedReviews) + 1 IN
  /\ UNCHANGED work
  /\ IF round > MaxRounds
     THEN ReportForHuman(sweep[s].head) /\ Stop(s)
     ELSE /\ Goto(s, [sweep[s] EXCEPT !.pc = "digesting", !.round = round,
                        !.prior = latest # 0 /\ Review(latest).verdict \in Describing])
          /\ UNCHANGED attention

(* Fault: the latest verdict is applied to whatever the head is now.       *)
DecideNextAnyHead(s) ==
  /\ At(s, "deciding")
  /\ IF WorkInFlight # {} THEN Stop(s) /\ UNCHANGED <<work, attention>>
     ELSE \E latest \in LatestReviews :
            IF latest # 0 THEN ActOnVerdict(s, latest) ELSE PlanRound(s, latest)
  /\ UNCHANGED <<pr, seen, released, faults>>

DecideNext(s) ==
  /\ At(s, "deciding")
  /\ IF WorkInFlight # {} THEN Stop(s) /\ UNCHANGED <<work, attention>>
     ELSE \E latest \in LatestReviews :
            IF latest = sweep[s].head THEN ActOnVerdict(s, latest) ELSE PlanRound(s, latest)
  /\ UNCHANGED <<pr, seen, released, faults>>

EnqueueRound(s) ==
  /\ At(s, "digesting")
  /\ EnqueueReviewRoot("review", sweep[s].head, sweep[s].round, sweep[s].prior)
  /\ Stop(s)
  /\ UNCHANGED <<pr, seen, released, attention, faults>>

EnqueueFix(s) ==
  /\ At(s, "fixing")
  /\ EnqueueReviewRoot("fix", sweep[s].head, Review(sweep[s].head).round, FALSE)
  /\ Stop(s)
  /\ UNCHANGED <<pr, seen, released, attention, faults>>

(* applyPassConsequence.  Writes may be switched off, and a diff that      *)
(* touches a protected boundary is a human's to release.                   *)
LeaveToHuman(s) ==
  /\ At(s, "passing")
  /\ ReportForHuman(sweep[s].head) /\ Stop(s)
  /\ UNCHANGED <<pr, seen, work, released, faults>>

(* The mutation names the pull request, not the head; marked is history:   *)
(* the head that became ready by it, until a person or a pass changes that.*)
MarkReady(s) ==
  /\ At(s, "passing")
  /\ pr.state = "open"
  /\ pr' = IF pr.draft THEN [pr EXCEPT !.draft = FALSE, !.marked = pr.head] ELSE pr
  /\ Goto(s, [sweep[s] EXCEPT !.pc = "marked"])
  /\ UNCHANGED <<seen, work, released, attention, faults>>

MarkRefused(s) ==
  /\ At(s, "passing")
  /\ pr.state # "open"
  /\ Stop(s)
  /\ UNCHANGED <<pr, seen, work, released, attention, faults>>

(* Fault: the pull request is not read again after it was marked.          *)
ConfirmReadyBlindly(s) ==
  /\ At(s, "marked")
  /\ released' = released \cup {sweep[s].head}
  /\ seen' = [seen EXCEPT !.draft = FALSE]
  /\ Stop(s)
  /\ UNCHANGED <<pr, work, attention, faults>>

(* recordPullRequestReady.  The origin's observation loses its draft flag, *)
(* if it is verified; a completed fix may hold the newer observation, which*)
(* keeps it.                                                               *)
RecordReady(s) ==
  /\ released' = released \cup {sweep[s].head}
  /\ \/ seen' = [seen EXCEPT !.draft = FALSE]
     \/ (seen.held \/ \E h \in Heads : work["fix"][h].status = "completed") /\ UNCHANGED seen
  /\ Stop(s)

(* The re-read: ready is recorded when the head did not move.              *)
ConfirmReady(s) ==
  /\ At(s, "marked")
  /\ IF pr.state = "open" /\ pr.head # sweep[s].head
     THEN Goto(s, [sweep[s] EXCEPT !.pc = "reverting"]) /\ UNCHANGED <<seen, released>>
     ELSE RecordReady(s)
  /\ UNCHANGED <<pr, work, attention, faults>>

ConvertBack(s) ==
  /\ At(s, "reverting")
  /\ pr' = IF pr.state = "open" THEN [pr EXCEPT !.draft = TRUE, !.marked = 0] ELSE pr
  /\ IF pr.state = "open" THEN ReportForHuman(pr.head) ELSE UNCHANGED attention
  /\ Stop(s)
  /\ UNCHANGED <<seen, work, released, faults>>

(* A GitHub call of the pass is not answered: the refresh is skipped, a    *)
(* re-read that fails also converts back, anything else ends this pass.    *)
GitHubUnavailable(s) ==
  /\ faults < MaxFaults /\ faults' = faults + 1
  /\ \/ At(s, "idle") /\ Goto(s, [Idle EXCEPT !.pc = "refreshed"])
     \/ At(s, "refreshed") /\ Goto(s, [Idle EXCEPT !.pc = "listed"])
     \/ At(s, "marked") /\ Goto(s, [sweep[s] EXCEPT !.pc = "reverting"])
     \/ sweep[s].pc \in {"selected", "passing", "reverting"} /\ Stop(s)
  /\ UNCHANGED <<pr, seen, work, released, attention>>

(* GitHub answers that there is no such pull request: a refresh records it *)
(* as unverified, and a re-read takes nothing back.                        *)
GitHubRejects(s) ==
  /\ faults < MaxFaults /\ faults' = faults + 1
  /\ \/ /\ At(s, "idle") /\ (seen.state = "open" \/ seen.held)
        /\ seen' = [seen EXCEPT !.held = TRUE] /\ UNCHANGED released
        /\ Goto(s, [Idle EXCEPT !.pc = "refreshed"])
     \/ At(s, "marked") /\ RecordReady(s)
  /\ UNCHANGED <<pr, work, attention>>

(* The process that runs the pass dies; nothing of the pass is persisted.  *)
Crash(s) ==
  /\ faults < MaxFaults /\ faults' = faults + 1
  /\ ~At(s, "idle") /\ Stop(s)
  /\ UNCHANGED <<pr, seen, work, released, attention>>

----------------------------------------------------------------------------
(* Workers and operators, on the review work.                              *)
SetWork(k, h, row) ==
  /\ work' = [work EXCEPT ![k][h] = row]
  /\ UNCHANGED <<pr, sweep, released, attention>>

Claim(k, h) ==
  /\ work[k][h].status = "queued"
  /\ SetWork(k, h, [work[k][h] EXCEPT !.status = "claimed"])
  /\ UNCHANGED <<seen, faults>>

(* assertReviewCompletion: while the pull request is open its head must be *)
(* the one the round was bound to.  The verdict is stored a step later.    *)
CheckReview(h, verdict) ==
  /\ Review(h).status = "claimed"
  /\ pr.state = "open" => pr.head = h
  /\ verdict = "description-outstanding" => Review(h).prior
  /\ SetWork("review", h, [Review(h) EXCEPT !.status = "checked", !.verdict = verdict])
  /\ UNCHANGED <<seen, faults>>

(* verifyCompletionArtifacts and assertReviewGate: a fix that reports an   *)
(* open pull request that is not a draft is refused, unless a round passed.*)
CheckFix(h) ==
  /\ work["fix"][h].status = "claimed"
  /\ \/ pr.state # "open" \/ pr.draft
     \/ \E g \in CompletedReviews : Review(g).verdict = "pass"
  /\ SetWork("fix", h, [work["fix"][h] EXCEPT !.status = "checked", !.saw = Observed])
  /\ UNCHANGED <<seen, faults>>

(* complete: a fix brings its own observation, the newest one unless a     *)
(* refresh asked GitHub later; after that the row's copy is of no use.     *)
Finish(k, h) ==
  /\ work[k][h].status = "checked"
  /\ SetWork(k, h, [work[k][h] EXCEPT !.status = "completed", !.saw = OpenDraft])
  /\ \/ UNCHANGED seen
     \/ k = "fix" /\ seen' = Storing(work[k][h].saw, seen.held)
  /\ UNCHANGED faults

(* A fix whose pull request GitHub would not show is completed unverified, *)
(* and so is one whose handoff could not be checked.                       *)
FinishUnverified(h) ==
  /\ faults < MaxFaults /\ faults' = faults + 1
  /\ work["fix"][h].status \in {"claimed", "checked"}
  /\ SetWork("fix", h, [work["fix"][h] EXCEPT !.status = "completed", !.saw = OpenDraft])
  /\ seen' = [seen EXCEPT !.held = TRUE]

Block(k, h) ==
  /\ work[k][h].status = "claimed"
  /\ SetWork(k, h, [work[k][h] EXCEPT !.status = "blocked"])
  /\ UNCHANGED <<seen, faults>>

(* The lease lapses or is released before the completion is stored.        *)
Lapse(k, h) ==
  /\ faults < MaxFaults /\ faults' = faults + 1
  /\ work[k][h].status \in {"claimed", "checked"}
  /\ SetWork(k, h, [work[k][h] EXCEPT !.status = "queued", !.verdict = "none", !.saw = OpenDraft])
  /\ UNCHANGED seen

(* requeue and cancel of a blocked item.  assertPullRequestBoundRequeueable*)
(* asks GitHub first, but an unanswered question allows the requeue and an *)
(* answer may be outdated when it is used, so it guards nothing here.      *)
RequeueOrCancel(k, h, status) ==
  /\ work[k][h].status = "blocked"
  /\ SetWork(k, h, [work[k][h] EXCEPT !.status = status])
  /\ UNCHANGED <<seen, faults>>

----------------------------------------------------------------------------
GitHubStep ==
  \/ Push
  \/ \E draft \in BOOLEAN : SetDraftByHand(draft)
  \/ \E state \in {"open", "closed", "merged"} : SetStateByHand(state)

PassStep(s) ==
  \/ StartPass(s) \/ RecordObservation(s) \/ ListBoundWork(s) \/ RetireBoundWork(s)
  \/ CureThrows(s) \/ SelectPullRequest(s) \/ ReadHead(s)
  \/ DecideNext(s) \/ EnqueueRound(s) \/ EnqueueFix(s)
  \/ LeaveToHuman(s) \/ MarkReady(s) \/ MarkRefused(s) \/ ConfirmReady(s) \/ ConvertBack(s)

WorkerStep(k, h) ==
  \/ Claim(k, h) \/ Finish(k, h) \/ Block(k, h)
  \/ k = "review" /\ \E verdict \in Verdicts : CheckReview(h, verdict)
  \/ k = "fix" /\ CheckFix(h)

Next ==
  \/ GitHubStep
  \/ \E s \in Sweeps : PassStep(s) \/ GitHubUnavailable(s) \/ GitHubRejects(s) \/ Crash(s)
  \/ \E h \in Heads : FinishUnverified(h)
  \/ \E k \in WorkKinds, h \in Heads :
       \/ WorkerStep(k, h) \/ Lapse(k, h)
       \/ \E status \in {"queued", "cancelled"} : RequeueOrCancel(k, h, status)

Spec == Init /\ [][Next]_vars

(* The timer starts pass after pass and a pass awaits with time limits, so *)
(* every pass ends, be it in the cure sweep (CureThrows).  A claimed item  *)
(* is completed or blocked, or its lease lapses (Lapse).                   *)
FairSpec ==
  /\ Spec
  /\ \A s \in Sweeps : WF_vars(PassStep(s))
  /\ \A k \in WorkKinds, h \in Heads : WF_vars(WorkerStep(k, h))

----------------------------------------------------------------------------
WorkRow ==
  [status : InFlight \cup {"absent", "completed", "blocked", "cancelled"}, round : 0 .. MaxRounds,
   prior : BOOLEAN, verdict : Verdicts \cup {"none"}, saw : Observations]

(* Type invariant; a planned round never exceeds MAX_REVIEW_ROUNDS.        *)
TypeOK ==
  /\ pr \in [state : {"open", "closed", "merged"}, draft : BOOLEAN, head : Heads,
             marked : Heads \cup {0}]
  /\ seen \in Stored
  /\ work \in [WorkKinds -> [Heads -> WorkRow]]
  /\ sweep \in [Sweeps -> [pc : {"idle", "observed", "refreshed", "retiring", "listed", "selected",
                                 "deciding", "digesting", "fixing", "passing",
                                 "marked", "reverting"},
                           saw : Observations,
                           bound : SUBSET (WorkKinds \X Heads), head : Heads \cup {0},
                           round : 0 .. MaxRounds, prior : BOOLEAN]]
  /\ released \subseteq Heads
  /\ attention \in Heads \cup {0}
  /\ faults \in 0 .. MaxFaults

PassedReview(h) == Review(h).status = "completed" /\ Review(h).verdict \in Passing

(* ADR-0065 decision 5: however passes, pushes and reviews interleave, an  *)
(* artifact.ready event names a head whose own completed review passed it. *)
ReleasedHeadsPassed == \A h \in released : PassedReview(h)

(* applyPassConsequence, "so no ready pull request carries an unreviewed   *)
(* head": once the passes that marked it have come to rest, a pull request *)
(* that the gate itself made ready was ready at a head that passed review. *)
NoReadyUnreviewedHead ==
  pr.state = "open" /\ pr.marked # 0
    /\ (\A s \in Sweeps : sweep[s].pc \notin {"marked", "reverting"})
  => PassedReview(pr.marked)

(* Passes that come to the cure sweep again and again get through it again *)
(* and again: it does not throw every time.                                *)
CureLetsThrough == \A s \in Sweeps : SF_vars(SelectPullRequest(s))

(* As long as the cure sweep lets passes through to it, the gate never     *)
(* leaves a draft silently unattended: an open draft head changes, is      *)
(* released, is reported for a human, or is held up by something that      *)
(* operators are shown: a blocked or cancelled item, a recorded close, or a*)
(* report that is unverified or whose handoff is unresolved (the inbox).   *)
DraftsGetAttention ==
  CureLetsThrough =>
    \A h \in Heads :
      (pr.state = "open" /\ pr.draft /\ pr.head = h) ~>
        \/ ~(pr.state = "open" /\ pr.draft /\ pr.head = h)
        \/ attention = h
        \/ \E k \in WorkKinds, g \in Heads : work[k][g].status \in {"blocked", "cancelled"}
        \/ seen.state # "open" \/ seen.held

====

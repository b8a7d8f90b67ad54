---- MODULE SourceCoverage ----
(***************************************************************************)
(* What the control plane keeps of GitHub's pull-request deliveries: the   *)
(* webhook receipts, the deliveries an audit of GitHub's list repaired,    *)
(* and the chain of checkpoints, gaps and repairs that says for which      *)
(* stretch of time nothing is missing (src/src/control/store.ts,           *)
(* src/src/github/webhook.ts, src/src/github/ingress.ts).                  *)
(*                                                                         *)
(* As in Enrollment the store is its history, and a reading operator takes *)
(* the length n of the history it reads.  GitHub may deliver anything at   *)
(* any time and any number of times.  The commands for audits and coverage *)
(* come with whatever their caller believes: their expected sequence, run  *)
(* and record identities are any, old or repeated.  A refused command      *)
(* changes nothing.                                                        *)
(*                                                                         *)
(* Abstractions.  One GitHub App: its configuration is fixed.  Enrollment  *)
(* is what it is to these commands, a fact that a new snapshot or a new    *)
(* answer of GitHub leaves behind; Enrollment has the rest.  Times are     *)
(* whole, and now() may go back.  A branch name is "plain", "lock" (it     *)
(* ends in .lock) or "foreign" (a character outside the store's pattern).  *)
(* A command's expected sequence is the current one or the one before.     *)
(***************************************************************************)
EXTENDS ControlRegistry

CONSTANTS
  Repos,       \* repositories
  Fleets,      \* what an activated snapshot may say of a repository
  Requests,    \* webhook requests that arrive
  Audits,      \* deliveries found in GitHub's list, and what it tells of each
  Runs,        \* run identities of coverage commands
  Sources,     \* GitHub App installations
  Failures,    \* what may be reported missing: cause, kind, guids
  MaxTime,     \* bound of the model: last instant
  MaxLog       \* bound of the model: transactions

ASSUME CoverageAssumption ==
  /\ Fleets \subseteq Fleet /\ MaxTime \in Nat /\ MaxLog \in Nat
  /\ \A f \in Failures : f.cause \in GapCauses /\ f.kind \in GapKinds

(* What the parsers make sure of before anything here looks at it: a       *)
(* request that is not "empty" has a guid, a digest of its body and fields *)
(* of their kinds, and so has what the list of deliveries shows.           *)
Parsed(payload) == payload.merged \in BOOLEAN /\ payload.state \in {"open", "closed"}
ASSUME RequestAssumption ==
  /\ \A q \in Requests : Null \notin {q.guid, q.body} /\ Parsed(q.payload)
  /\ \A a \in Audits :
       /\ Null \notin {a.listed.guid, a.listed.delivery} /\ a.listed.deliveredAt \in Nat
       /\ a.detail.status = 200 => a.detail.body # Null /\ Parsed(a.detail.payload)

VARIABLES
  log,       \* control_transactions with their outputs and receipts
  accepted   \* the deliveries GitHub was told are accepted, by guid and bytes

coverageVars == <<log, accepted>>

Now == Len(log)
Watermark == log[Now].time

-----------------------------------------------------------------------------
(* Reading the first n transactions.                                       *)

(* The numbers of such transactions, and the newest of some.               *)
Of(n, command) == {k \in 1 .. n : log[k].command = command}
LastOf(numbers) == IF numbers = {} THEN 0 ELSE CHOOSE k \in numbers : \A m \in numbers : m <= k

Activation(n) == LastOf(Of(n, "activate"))

(* enrollmentRecordId of repositoryStatuses: bound to the active snapshot  *)
(* and to the newest answers of GitHub about the repository.               *)
Enrollment(n, r) ==
  LET e == LastOf({k \in Of(n, "enroll") : log[k].repo = r})
      answered == LastOf({k \in Of(n, "reconcile") : log[k].repo = r})
  IN IF e > Activation(n) /\ e > answered THEN e ELSE 0

(* What every verification asks for: any enrollment, ever.                 *)
EverEnrolled(n, r) == \E k \in Of(n, "enroll") : log[k].repo = r

(* findDirectGitHubDeliveryReceipt                                         *)
Receipt(n, guid) == LastOf({k \in Of(n, "delivery") : log[k].guid = guid})
AuditOf(n, delivery) == LastOf({k \in Of(n, "audit") : log[k].delivery = delivery})

(* latestGitHubSourceCheckpoint: a repair writes one too.                  *)
IsCheckpoint(e) == e.command \in {"checkpoint", "repair"}
Checkpoint(n, r) == LastOf({k \in 1 .. n : IsCheckpoint(log[k]) /\ log[k].repo = r})

(* findOpenGitHubSourceGap                                                 *)
Repaired(n, gap) == \E k \in 1 .. n : log[k].command = "repair" /\ log[k].gap = gap
OpenGap(n, r) ==
  LET open == {g \in 1 .. n : log[g].command = "gap" /\ log[g].repo = r /\ ~Repaired(n, g)}
  IN IF open = {} THEN 0 ELSE CHOOSE g \in open : \A h \in open : h <= g

(* commandReceipt, for the commands named by the run of their caller.      *)
RunOf(n, command, run) == LastOf({k \in Of(n, command) : log[k].run = run})

(* assertGitHubContentGapRepairEvidence                                    *)
Evidence(n, gap, audits) ==
  /\ Cardinality(audits) = Cardinality(log[gap].guids)
  /\ \A a \in audits :
       /\ a \in gap + 1 .. n /\ log[a].command = "audit"
       /\ log[a].repo = log[gap].repo /\ log[a].source = log[gap].source
  /\ {log[a].guid : a \in audits} = log[gap].guids

-----------------------------------------------------------------------------
(* The webhook's reading of a request.                                     *)

(* normalizeGitHubPullRequestPayload: which shapes it supports.            *)
ShapeSupported(p) ==
  /\ p.base = p.repo /\ p.head = p.repo
  /\ p.action = "closed" => p.state = "closed"
  /\ p.action \notin {"closed", "edited"} => p.state = "open"
  /\ p.state = "open" => ~p.merged /\ p.mergedAt = Null
  /\ p.state = "closed" => /\ p.merged => p.mergedAt # Null /\ p.mergeSha # Null
                           /\ ~p.merged => p.mergedAt = Null /\ p.mergeSha = Null

(* What it selects: merge_commit_sha means something else once merged.     *)
Selected(p) ==
  [action |-> p.action, repo |-> p.repo, base |-> p.base, head |-> p.head,
   state |-> p.state, merged |-> p.merged, mergedAt |-> p.mergedAt, refs |-> p.refs,
   testMerge |-> IF p.state = "open" THEN p.mergeSha ELSE Null,
   mergeCommit |-> IF p.state = "closed" /\ p.merged THEN p.mergeSha ELSE Null]

(* verifyAndNormalizeGitHubPullRequestWebhook: the first check that fails, *)
(* after readBoundedBody.                                                  *)
Refusal(q) ==
  IF q.size = "oversized" THEN "body-too-large"
  ELSE IF ~q.headers THEN "invalid-headers"
  ELSE IF q.size = "empty" THEN "malformed-payload"
  ELSE IF ~q.signed THEN "authentication-failed"
  ELSE IF q.event # "pull_request" THEN "unsupported-event"
  ELSE IF q.payload.action \notin Actions THEN "unsupported-action"
  ELSE IF ~ShapeSupported(q.payload) THEN "unsupported-pull-request-shape"
  ELSE "none"

(* normalizeGitHubPullRequestDeliveryInput, of what was selected.          *)
InputAccepted(pr) ==
  /\ pr.base = pr.repo /\ pr.head = pr.repo /\ pr.refs # "foreign"
  /\ pr.action = "closed" => pr.state = "closed"
  /\ pr.action \notin {"closed", "edited"} => pr.state = "open"
  /\ pr.state = "open" => ~pr.merged /\ pr.mergedAt = Null /\ pr.mergeCommit = Null
  /\ pr.state = "closed" =>
       /\ pr.testMerge = Null
       /\ IF pr.merged THEN pr.mergedAt # Null /\ pr.mergeCommit # Null
          ELSE pr.mergedAt = Null /\ pr.mergeCommit = Null

(* Fault: what GitHub tells of a delivery is taken for the one asked for.  *)
DetailUncompared(d, x) ==
  /\ d.action \in Actions /\ x.status = 200 /\ x.size # "oversized"
  /\ x.payload.action \in Actions /\ ShapeSupported(x.payload)

(* fetchGitHubPullRequestDeliveryDetail: the delivery d of the list, and   *)
(* GitHub's answer x when asked for the whole of it.                       *)
DetailComplete(d, x) ==
  /\ d.action \in Actions /\ x.status = 200 /\ x.size # "oversized"
  /\ x.summary = d
  /\ x.payload.action = d.action /\ ShapeSupported(x.payload)
  /\ x.payload.repo = d.repo /\ x.source = d.source

(* The repair that is made of it.                                          *)
RepairInput(d, x, expected) ==
  [command |-> "audit", delivery |-> d.delivery, guid |-> d.guid, deliveredAt |-> d.deliveredAt,
   body |-> x.body, repo |-> x.payload.repo, source |-> x.source, pr |-> Selected(x.payload),
   expected |-> expected]

(* createGitHubWebhookIngress and webhookFailureStatus                     *)
HttpStatus(outcome) ==
  CASE outcome \in {"recorded", "replayed"} -> 202
    [] outcome = "authentication-failed" -> 401
    [] outcome = "body-too-large" -> 413
    [] outcome \in {"unsupported-event", "unsupported-action",
                    "unsupported-pull-request-shape"} -> 422
    [] outcome \in {"invalid-headers", "malformed-payload"} -> 400
    [] outcome \in {"delivery-conflict", "repository-not-enrolled"} -> 409
    [] OTHER -> 503

-----------------------------------------------------------------------------
(* The idempotency key of a command.                                       *)
KeyOf(e) ==
  CASE e.command = "delivery" -> e.guid
    [] e.command = "audit" -> e.delivery
    [] e.command \in {"checkpoint", "gap", "repair"} -> e.run
    [] OTHER -> Now

(* A transaction at now(), its outputs and its receipt.                    *)
Stamped(e, now) ==
  [f \in DOMAIN e \cup {"key", "time"} |->
     CASE f = "key" -> KeyOf(e) [] f = "time" -> now [] OTHER -> e[f]]
Appends(e, now) == Now < MaxLog /\ log' = Append(log, Stamped(e, now))

CoverageInit ==
  /\ log = <<[command |-> "initialize", key |-> 0, time |-> 0]>>
  /\ accepted = {}

(* Fault: the same delivery with other content counts as a replay.         *)
OutcomeByGuid(q, now) ==
  LET refusal == Refusal(q)
  IN IF refusal # "none" THEN refusal
     ELSE IF ~InputAccepted(Selected(q.payload)) THEN "persistence-unavailable"
     ELSE IF Receipt(Now, q.guid) # 0 THEN "replayed"
     ELSE IF Enrollment(Now, q.payload.repo) = 0 THEN "repository-not-enrolled"
     ELSE IF now < Watermark THEN "clock-regression"
     ELSE IF ~ObservationAdmitted(Selected(q.payload)) THEN "persistence-unavailable"
     ELSE "recorded"

(* recordVerifiedGitHubPullRequestDelivery, behind the ingress: a replay   *)
(* is answered before the enrollment is looked at.                         *)
Outcome(q, now) ==
  LET refusal == Refusal(q)
      prior == Receipt(Now, q.guid)
  IN IF refusal # "none" THEN refusal
     ELSE IF ~InputAccepted(Selected(q.payload)) THEN "persistence-unavailable"
     ELSE IF prior # 0
       THEN IF log[prior].body = q.body THEN "replayed" ELSE "delivery-conflict"
     ELSE IF Enrollment(Now, q.payload.repo) = 0 THEN "repository-not-enrolled"
     ELSE IF now < Watermark THEN "clock-regression"
     ELSE IF ~ObservationAdmitted(Selected(q.payload)) THEN "persistence-unavailable"
     ELSE "recorded"

Deliver(q, now) ==
  LET outcome == Outcome(q, now)
  IN /\ IF outcome = "recorded"
          THEN Appends([command |-> "delivery", guid |-> q.guid, body |-> q.body,
                        repo |-> q.payload.repo, source |-> q.source,
                        pr |-> Selected(q.payload)], now)
          ELSE UNCHANGED log
     /\ accepted' = IF HttpStatus(outcome) = 202
                      THEN accepted \cup {<<q.guid, q.body>>} ELSE accepted

(* assertGitHubCoverageWrite                                               *)
CoverageWrite(expected, r) == expected = Now /\ Enrollment(Now, r) # 0

(* Fault: a clock that went back is not noticed.                           *)
CoverageTimeOfBoundary(now, boundary) == now >= boundary

(* checkedGitHubCoverageTime                                               *)
CoverageTime(now, boundary) == now >= Watermark /\ now >= boundary

(* Fault: a delivery received in the meantime is repaired all the same.    *)
RecordAuditAnyway(d, x, expected, now) ==
  /\ DetailComplete(d, x)
  /\ AuditOf(Now, d.delivery) = 0
  /\ InputAccepted(Selected(x.payload)) /\ ObservationAdmitted(Selected(x.payload))
  /\ CoverageWrite(expected, x.payload.repo)
  /\ CoverageTime(now, d.deliveredAt)
  /\ Appends(RepairInput(d, x, expected), now)
  /\ UNCHANGED accepted

(* recordAuditedGitHubPullRequestDelivery.  The same delivery again is     *)
(* answered or refused: nothing happens.                                   *)
RecordAudit(d, x, expected, now) ==
  /\ DetailComplete(d, x)
  /\ AuditOf(Now, d.delivery) = 0
  /\ InputAccepted(Selected(x.payload)) /\ ObservationAdmitted(Selected(x.payload))
  /\ CoverageWrite(expected, x.payload.repo)
  /\ Receipt(Now, d.guid) = 0
  /\ CoverageTime(now, d.deliveredAt)
  /\ Appends(RepairInput(d, x, expected), now)
  /\ UNCHANGED accepted

(* Fault: an open gap does not stop the next checkpoint.                   *)
RecordCheckpointOverGap(r, s, run, from, through, expected, now) ==
  LET previous == Checkpoint(Now, r)
  IN /\ RunOf(Now, "checkpoint", run) = 0
     /\ CoverageWrite(expected, r)
     /\ from <= through
     /\ IF previous = 0 THEN from = through
        ELSE from = log[previous].through /\ s = log[previous].source
     /\ CoverageTime(now, through)
     /\ Appends([command |-> "checkpoint", repo |-> r, source |-> s, run |-> run,
                 previous |-> previous, from |-> from, through |-> through,
                 expected |-> expected], now)
     /\ UNCHANGED accepted

(* recordGitHubSourceCheckpoint: the first is a point, the others go on    *)
(* where the latest ends, unless something is known to be missing.         *)
RecordCheckpoint(r, s, run, from, through, expected, now) ==
  LET previous == Checkpoint(Now, r)
  IN /\ RunOf(Now, "checkpoint", run) = 0
     /\ CoverageWrite(expected, r)
     /\ OpenGap(Now, r) = 0
     /\ from <= through
     /\ IF previous = 0 THEN from = through
        ELSE from = log[previous].through /\ s = log[previous].source
     /\ CoverageTime(now, through)
     /\ Appends([command |-> "checkpoint", repo |-> r, source |-> s, run |-> run,
                 previous |-> previous, from |-> from, through |-> through,
                 expected |-> expected], now)
     /\ UNCHANGED accepted

(* openGitHubSourceGap: what is missing begins where the latest checkpoint *)
(* ends.                                                                   *)
OpenSourceGap(r, s, run, checkpoint, f, expected, now) ==
  /\ RunOf(Now, "gap", run) = 0
  /\ GapShape(f.cause, f.kind, f.guids)
  /\ CoverageWrite(expected, r)
  /\ OpenGap(Now, r) = 0
  /\ checkpoint # 0 /\ checkpoint = Checkpoint(Now, r) /\ log[checkpoint].source = s
  /\ CoverageTime(now, log[checkpoint].through)
  /\ Appends([command |-> "gap", repo |-> r, source |-> s, run |-> run,
              checkpoint |-> checkpoint, lower |-> log[checkpoint].through,
              cause |-> f.cause, kind |-> f.kind, guids |-> f.guids,
              expected |-> expected], now)
  /\ UNCHANGED accepted

(* repairGitHubSourceGap: the checkpoint that bridges the gap and the      *)
(* repair are one transaction.                                             *)
RepairSourceGap(r, s, run, gap, through, audits, expected, now) ==
  /\ RunOf(Now, "repair", run) = 0
  /\ CoverageWrite(expected, r)
  /\ gap # 0 /\ gap = OpenGap(Now, r) /\ log[gap].source = s
  /\ IF log[gap].kind = "delivery-content" THEN Evidence(Now, gap, audits) ELSE audits = {}
  /\ through > log[gap].lower
  /\ CoverageTime(now, through)
  /\ Appends([command |-> "repair", repo |-> r, source |-> s, run |-> run, gap |-> gap,
              previous |-> log[gap].checkpoint, from |-> log[gap].lower, through |-> through,
              lower |-> log[gap].lower, end |-> through, audits |-> audits,
              method |-> IF log[gap].kind = "delivery-content"
                           THEN "delivery-observations-and-complete-audit"
                           ELSE "complete-delivery-audit",
              expected |-> expected], now)
  /\ UNCHANGED accepted

-----------------------------------------------------------------------------
(* The rest of the store and of the world.                                 *)

(* A new snapshot: what was enrolled has to be enrolled again.             *)
Activate(now) ==
  /\ now >= Watermark
  /\ \E fleet \in [Repos -> Fleets] : Appends([command |-> "activate", fleet |-> fleet], now)
  /\ UNCHANGED accepted

(* GitHub's answer about an enrolled repository, or its surfaces, changed: *)
(* the pass that finds out records it.                                     *)
Reconcile(r, now) ==
  /\ now >= Watermark /\ Enrollment(Now, r) # 0
  /\ Appends([command |-> "reconcile", repo |-> r], now)
  /\ UNCHANGED accepted

(* A pass enrolls a repository in operation, once.                         *)
Enroll(r, now) ==
  /\ now >= Watermark
  /\ Activation(Now) # 0 /\ log[Activation(Now)].fleet[r] = "enabled"
  /\ Enrollment(Now, r) = 0
  /\ Appends([command |-> "enroll", repo |-> r], now)
  /\ UNCHANGED accepted

Records(command) == {k \in 1 .. Now : log[k].command = command}

(* now() is whatever the system clock says, earlier than before included.  *)
CoverageNext ==
  \E now \in 0 .. MaxTime :
    \/ Activate(now)
    \/ \E r \in Repos : Enroll(r, now) \/ Reconcile(r, now)
    \/ \E q \in Requests : Deliver(q, now)
    \/ \E expected \in {Now - 1, Now} :
         \/ \E a \in Audits : RecordAudit(a.listed, a.detail, expected, now)
         \/ \E r \in Repos, s \in Sources, run \in Runs :
              \/ \E from, through \in 0 .. MaxTime :
                   RecordCheckpoint(r, s, run, from, through, expected, now)
              \/ \E checkpoint \in Records("checkpoint") \cup Records("repair"), f \in Failures :
                   OpenSourceGap(r, s, run, checkpoint, f, expected, now)
              \/ \E gap \in Records("gap"), through \in 0 .. MaxTime,
                   audits \in SUBSET Records("audit") :
                   RepairSourceGap(r, s, run, gap, through, audits, expected, now)

CoverageSpec == CoverageInit /\ [][CoverageNext]_coverageVars

-----------------------------------------------------------------------------
(* What verifyRegistryReferences, verifyGitHubCoverageLineage and          *)
(* verifyIdempotencyReceipts demand of one transaction, given those before *)
(* it.  The command each repeats from its record includes the sequence     *)
(* before its own.                                                         *)

Fact(i, command) == i \in DOMAIN log /\ log[i].command = command

DeliveryVerified(n, e) ==
  EverEnrolled(n - 1, e.repo) /\ e.key = e.guid /\ DeliveryAdmitted(e) /\ ObservationAdmitted(e.pr)

AuditVerified(n, e) ==
  /\ EverEnrolled(n - 1, e.repo) /\ e.expected = n - 1 /\ e.key = e.delivery
  /\ Receipt(n - 1, e.guid) = 0 /\ e.deliveredAt <= e.time
  /\ AuditAdmitted(e) /\ ObservationAdmitted(e.pr)

CheckpointVerified(n, e) ==
  /\ EverEnrolled(n - 1, e.repo) /\ e.expected = n - 1 /\ e.key = e.run
  /\ CheckpointAdmitted(e)
  /\ IF e.previous = 0 THEN e.from = e.through
     ELSE /\ e.previous < n /\ IsCheckpoint(log[e.previous])
          /\ log[e.previous].repo = e.repo /\ log[e.previous].source = e.source
          /\ log[e.previous].through = e.from

GapVerified(n, e) ==
  /\ EverEnrolled(n - 1, e.repo) /\ e.expected = n - 1 /\ e.key = e.run
  /\ GapAdmitted(e)
  /\ e.checkpoint < n /\ IsCheckpoint(log[e.checkpoint])
  /\ log[e.checkpoint].repo = e.repo /\ log[e.checkpoint].source = e.source
  /\ log[e.checkpoint].through = e.lower
  /\ OpenGap(n - 1, e.repo) = 0

RepairVerified(n, e) ==
  LET gap == log[e.gap]
      content == gap.kind = "delivery-content"
  IN /\ CheckpointVerified(n, e) /\ RepairAdmitted(e)
     /\ e.gap < n /\ Fact(e.gap, "gap") /\ ~Repaired(n - 1, e.gap)
     /\ gap.repo = e.repo /\ gap.source = e.source
     /\ e.method = IF content THEN "delivery-observations-and-complete-audit"
                   ELSE "complete-delivery-audit"
     /\ IF content THEN Evidence(n - 1, e.gap, e.audits) ELSE e.audits = {}
     /\ gap.checkpoint = e.previous /\ gap.lower = e.lower
     /\ e.from = e.lower /\ e.through = e.end

Verified(n) ==
  LET e == log[n]
  IN CASE e.command = "delivery" -> DeliveryVerified(n, e)
       [] e.command = "audit" -> AuditVerified(n, e)
       [] e.command = "checkpoint" -> CheckpointVerified(n, e)
       [] e.command = "gap" -> GapVerified(n, e)
       [] e.command = "repair" -> RepairVerified(n, e)
       [] OTHER -> TRUE

-----------------------------------------------------------------------------
(* Properties.                                                             *)

(* The log is of the kinds of transaction the code writes, and no          *)
(* transaction is earlier than the one before.                             *)
CoverageTypeOK ==
  /\ \A n \in 1 .. Now :
       /\ log[n].command \in {"initialize", "activate", "enroll", "reconcile", "delivery", "audit",
                              "checkpoint", "gap", "repair"}
       /\ n > 1 => log[n - 1].time <= log[n].time

(* Whatever order deliveries, audits, gaps and repairs come in, no handler *)
(* appends what the verification at the next command refuses, and          *)
(* insertReceipt never meets a key the same command has used.              *)
HistoryVerified ==
  /\ Verified(Now)
  /\ \A m \in 1 .. Now - 1 : log[m].command = log[Now].command => log[m].key # log[Now].key

(* What GitHub was told is accepted, and so never sends again, is on       *)
(* record with the bytes that were sent.                                   *)
AcceptedIsRecorded ==
  \A d \in accepted :
    \E n \in 1 .. Now : log[n].command = "delivery" /\ <<log[n].guid, log[n].body>> = d

(* The covered time of a repository is one stretch without a hole or an    *)
(* overlap, whichever of the two commands extended it.                     *)
CoverageUnbroken ==
  \A c \in 1 .. Now : IsCheckpoint(log[c]) =>
    LET before == Checkpoint(c - 1, log[c].repo)
    IN IF before = 0 THEN log[c].from = log[c].through
       ELSE log[c].from = log[before].through /\ log[c].source = log[before].source

(* While something is known to be missing nothing after it is claimed to   *)
(* be covered, and only a repair ever crosses the place.                   *)
NoCoverageOverGap ==
  \A g \in 1 .. Now : log[g].command = "gap" =>
    \A c \in g + 1 .. Now :
      IsCheckpoint(log[c]) /\ log[c].repo = log[g].repo /\ ~Repaired(c - 1, g)
        => log[c].command = "repair" /\ log[c].gap = g /\ log[c].from = log[g].lower

(* The time across a content gap counts as covered only once every         *)
(* delivery it named was observed, after the gap was found.                *)
ContentObserved ==
  \A k \in 1 .. Now : log[k].command = "repair" /\ log[log[k].gap].kind = "delivery-content" =>
    \A guid \in log[log[k].gap].guids :
      \E a \in log[k].gap + 1 .. k - 1 :
        /\ log[a].command = "audit" /\ log[a].guid = guid
        /\ log[a].repo = log[k].repo /\ log[a].source = log[k].source

(* What is called covered was covered: the checkpoints, gaps and repairs   *)
(* of a repository, whatever runs wrote them and in whatever order, leave  *)
(* no hole, skip no known gap and cross none unobserved.                   *)
CoverageSound == CoverageUnbroken /\ NoCoverageOverGap /\ ContentObserved

(* The readings of a delivery agree.  Branch names aside, what the webhook *)
(* lets through is never refused by the command's normalizer or by the     *)
(* contract of its record, which would ask GitHub to send it again for     *)
(* ever; and what an audit records is what GitHub's list says, whatever    *)
(* GitHub answers when asked for the content.                              *)
NormalizersAgree ==
  /\ \A q \in Requests :
       Refusal(q) = "none" /\ q.payload.refs = "plain"
         => Outcome(q, Watermark) # "persistence-unavailable"
  /\ \A n \in 1 .. Now : log[n].command = "audit" =>
       \E a \in Audits :
         /\ a.listed.delivery = log[n].delivery /\ a.listed.guid = log[n].guid
         /\ a.listed.repo = log[n].repo /\ a.listed.source = log[n].source
         /\ a.listed.action = log[n].pr.action

====

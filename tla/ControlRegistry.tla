---- MODULE ControlRegistry ----
(***************************************************************************)
(* The payload contracts of the control plane's record kinds for           *)
(* repositories and for GitHub's deliveries                                *)
(* (src/src/control/registry.ts).  A row whose payload its                 *)
(* contract does not admit makes verifyExisting refuse the database, in    *)
(* every later command.  The handlers that build the payloads are in       *)
(* Enrollment and SourceCoverage; what they compute, most of the contracts *)
(* compute again.                                                          *)
(*                                                                         *)
(* Abstractions.  The syntax of identifiers, digests and instants is left  *)
(* out, and the times of repository records are.  A digest is the thing    *)
(* it digests; Null stands for null.  A record identity is the sequence of *)
(* the transaction that wrote it, 0 when there is none.                    *)
(***************************************************************************)
EXTENDS Integers, Sequences, FiniteSets

CONSTANT Null   \* null in a payload

Fleet == {"enabled", "paused", "disabled"}

(* The order in which the surface contract lists them, and every payload   *)
(* must.                                                                   *)
SurfaceIds == <<"agent-instructions", "agent-governance", "agent-skills", "documentation-index">>
IdentityResults ==
  {"matched", "missing", "locator-mismatch", "identity-mismatch", "archived", "unavailable"}
SurfaceResults ==
  {"valid", "unavailable", "missing", "wrong-type", "invalid", "digest-incompatible"}
HoldGates == <<"discovery", "admission", "claim", "lease-renewal">>

(* isRepositoryCoreAuthorityPayload                                        *)
AuthorityAdmitted(e) ==
  /\ e.declaration.fleet \in Fleet
  /\ e.declaration.fleet = "enabled" =>
       e.declaration.programs # {} /\ e.declaration.ceiling # {}

(* What an identity observation amounts to: the contract works it out from *)
(* the observed fields, as the handler did from GitHub's answer.           *)
ObservedResult(declared, observed) ==
  IF observed.id # declared.id THEN "identity-mismatch"
  ELSE IF observed.locator # declared.locator THEN "locator-mismatch"
  ELSE IF observed.archived THEN "archived"
  ELSE "matched"

HeldBy(fleet, result) ==
  IF fleet # "enabled" THEN fleet
  ELSE IF result = "matched" THEN "awaiting-surfaces" ELSE "github-held"

(* isRepositoryGitHubReconciliationPayload                                 *)
IdentityAdmitted(e) ==
  /\ e.result \in IdentityResults
  /\ IF e.result \in {"missing", "unavailable"}
       THEN e.observed = Null
       ELSE e.observed # Null /\ e.result = ObservedResult(e.declared, e.observed)
  /\ e.state = HeldBy(e.declared.fleet, e.result)

Requirement(result, evidence) == [result |-> result, evidence |-> evidence]

(* isRepositorySurfaceReconciliationPayload, with the summary and          *)
(* requirement contracts it calls.  A surface's digest is its place in     *)
(* SurfaceIds, with the commit it was read at.                             *)
SurfacesAdmitted(e) ==
  LET failing == CHOOSE i \in 1 .. 4 : SurfaceIds[i] = e.failed
      Passed(i) == e.requirements[i] = Requirement("pass", e.surfaces[i])
      Unknown(i) == e.requirements[i] = Requirement("unknown", Null)
  IN /\ e.result \in SurfaceResults
     /\ Len(e.surfaces) <= 4 /\ Len(e.requirements) = 4
     /\ \A i \in 1 .. Len(e.surfaces) : e.surfaces[i] = <<SurfaceIds[i], e.commit>>
     /\ e.decision = IF e.result = "valid" THEN "permit" ELSE "deny"
     /\ CASE e.result \in {"unavailable", "digest-incompatible"} ->
               /\ <<e.branch, e.commit, e.policy, e.failed>> = <<Null, Null, Null, Null>>
               /\ e.surfaces = << >>
               /\ \A i \in 1 .. 4 : Unknown(i)
          [] e.result = "valid" ->
               /\ Null \notin {e.branch, e.commit, e.policy} /\ e.failed = Null
               /\ Len(e.surfaces) = 4
               /\ \A i \in 1 .. 4 : Passed(i)
          [] OTHER ->
               /\ Null \notin {e.branch, e.commit} /\ e.policy = Null
               /\ \E i \in 1 .. 4 : SurfaceIds[i] = e.failed
               /\ Len(e.surfaces) = failing - (IF e.result = "invalid" THEN 0 ELSE 1)
               /\ \A i \in 1 .. failing - 1 : Passed(i)
               /\ e.requirements[failing] =
                    Requirement("fail", IF e.result = "invalid" THEN e.surfaces[failing] ELSE Null)
               /\ \A i \in failing + 1 .. 4 : Unknown(i)

(* isRepositoryEnrollmentPayload                                           *)
EnrollmentAdmitted(e) ==
  e.commit # Null /\ e.programs # {} /\ e.ceiling # {}

(* isRepositoryOperatorHoldDecisionPayload; self is the record's identity. *)
HoldAdmitted(e, self) ==
  /\ e.gates = HoldGates
  /\ e.expected >= 1
  /\ IF e.choice = "impose"
       THEN e.hold = self /\ e.previous = 0
       ELSE e.hold # self /\ e.previous = e.hold

(* isGitHubInstallationReconciliationPayload: an absent App has no         *)
(* installation, an unanswered question no response either.                *)
InstallationAdmitted(e) ==
  /\ IF e.access \in {"unavailable", "not-installed"}
       THEN e.installation = Null
       ELSE e.access \in {"active", "suspended", "permission-mismatch"} /\ e.installation # Null
  /\ (e.response = Null) = (e.access = "unavailable")

-----------------------------------------------------------------------------
(* What comes from GitHub about pull requests, and how much of it is       *)
(* known to have come.                                                     *)

Actions == {"opened", "reopened", "synchronize", "edited", "ready_for_review",
            "converted_to_draft", "closed"}
GapCauses == {"delivery-audit-incomplete", "source-unavailable", "pagination-incomplete",
              "request-budget-exhausted", "unsupported-relevant-delivery",
              "normalization-failed", "recovery-horizon-expired"}
GapKinds == {"interval-coverage", "delivery-content"}

(* isGitHubPullRequestObservationPayload, of the observed fields pr.       *)
ObservationAdmitted(pr) ==
  /\ pr.action \in Actions /\ pr.state \in {"open", "closed"} /\ pr.merged \in BOOLEAN
  /\ pr.base = pr.repo /\ pr.head = pr.repo
  /\ pr.refs # "foreign" /\ pr.refs # "lock"
  /\ pr.action = "closed" => pr.state = "closed"
  /\ pr.action \notin {"closed", "edited"} => pr.state = "open"
  /\ pr.state = "open" => ~pr.merged /\ pr.mergedAt = Null /\ pr.mergeCommit = Null
  /\ pr.state = "closed" => /\ pr.testMerge = Null
                            /\ pr.merged = (pr.mergedAt # Null)
                            /\ pr.merged = (pr.mergeCommit # Null)

(* isGitHubSourceGapDeliverySet: which causes lose a stretch of time, and  *)
(* which the content of known deliveries.                                  *)
GapShape(cause, kind, guids) ==
  /\ cause = "unsupported-relevant-delivery" => kind = "delivery-content"
  /\ cause \in {"delivery-audit-incomplete", "pagination-incomplete",
                 "recovery-horizon-expired"} => kind = "interval-coverage"
  /\ (kind = "delivery-content") = (guids # {})

(* isGitHubDeliveryReceiptPayload and isGitHubDeliveryAuditPayload         *)
DeliveryAdmitted(e) == e.body # Null /\ e.guid # Null
AuditAdmitted(e) == e.body # Null /\ e.guid # Null /\ e.delivery # Null

(* isGitHubSourceCheckpointPayload                                         *)
CheckpointAdmitted(e) == e.from <= e.through

(* isGitHubSourceGapPayload                                                *)
GapAdmitted(e) ==
  /\ e.cause \in GapCauses /\ e.kind \in GapKinds
  /\ GapShape(e.cause, e.kind, e.guids)
  /\ e.time >= e.lower

(* isGitHubSourceGapRepairPayload                                          *)
RepairAdmitted(e) ==
  /\ (e.method = "delivery-observations-and-complete-audit") = (e.audits # {})
  /\ e.end > e.lower /\ e.time >= e.end
====

---- MODULE WorkContract ----
(***************************************************************************)
(* The delivery contract of a work item: which combinations of authority,  *)
(* required artifact and execution target the store accepts, and how a     *)
(* follow-up inherits its contract from its parent.  Only operators; the   *)
(* state machine that uses them is WorkQueue.                              *)
(*                                                                         *)
(* A definition d is a record with the immutable columns of a work item    *)
(* that these rules read: kind, allowed (allowedActions), delegable        *)
(* (delegableActions), required (requiredArtifact), target                 *)
(* (executionTarget), binding (its pull-request binding: a cure record, or *)
(* a review record or source reference that names a pull request's head).  *)
(***************************************************************************)
CONSTANT DiscoveryKinds   \* the kinds whose name ends in "-discovery"

Actions == {"read", "write", "run-tests", "open-issue", "open-pr", "create-followup"}
RequiredArtifacts == {"none", "pull-request"}
ExecutionTargets == {"read-only", "new-pull-request", "existing-pull-request"}
FollowUpIntents == {"read-only", "new-pr-change", "existing-pr-change"}
Bindings == {"none", "cure", "review"}
ArtifactKinds == {"issue", "pull-request", "commit", "release"}

Definitions(Kinds) ==
  [kind : Kinds, allowed : SUBSET Actions, delegable : SUBSET Actions,
   required : RequiredArtifacts, target : ExecutionTargets, binding : Bindings]

(* The rules of contractProblem that need no parent.  The code returns the *)
(* first broken rule's code; whether one is broken is what decides.        *)
DiscoveryIsReadOnly(d) ==
  d.kind \in DiscoveryKinds =>
    d.required # "pull-request" /\ {"write", "open-pr"} \cap d.allowed = {}

ChangeCanLand(d) ==
  /\ d.required = "pull-request" => "open-pr" \in d.allowed
  /\ "write" \in d.allowed => "open-pr" \in d.allowed

TargetAgrees(d) ==
  /\ d.target = "read-only" =>
       {"write", "open-pr"} \cap d.allowed = {} /\ d.required = "none"
  /\ d.target # "read-only" =>
       {"write", "open-pr"} \subseteq d.allowed /\ d.required = "pull-request"
  /\ d.kind = "pr-cure-change" => d.target = "existing-pull-request"
  /\ d.target = "existing-pull-request" => d.binding # "none"

RootContract(d) == DiscoveryIsReadOnly(d) /\ ChangeCanLand(d) /\ TargetAgrees(d)

(* The two rules that look at the parent's delegation ceiling.             *)
ChildContract(d, ceiling) ==
  /\ RootContract(d)
  /\ "write" \in d.allowed => d.required = "pull-request"
  /\ "write" \in d.allowed /\ "create-followup" \in ceiling =>
       "create-followup" \in d.allowed /\ d.delegable # {}

(* inheritedCureBinding: the only binding a child can have is its parent's *)
(* cure record, and only as a pr-cure-change on that pull request.         *)
InheritedCureBinding(d, parent) ==
  IF d.kind = "pr-cure-change" /\ d.target = "existing-pull-request" /\ parent.binding = "cure"
  THEN "cure" ELSE "none"

(* Fault: what the child may delegate on is not compared.                  *)
GrantedWithinCeiling(d, ceiling) == d.allowed \subseteq ceiling

(* assertSubset, twice: a child is granted and may delegate only what its  *)
(* parent may delegate.                                                    *)
WithinCeiling(d, ceiling) == d.allowed \subseteq ceiling /\ d.delegable \subseteq ceiling

(* derivedContract: what an intent stands for under a parent whose         *)
(* delegation ceiling is ceiling and that carries the given binding.       *)
IntentIsChange(intent) == intent # "read-only"
IntentNeeds(intent) == IF IntentIsChange(intent) THEN {"read", "write", "open-pr"} ELSE {"read"}

IntentAvailable(intent, ceiling, binding) ==
  IntentNeeds(intent) \subseteq ceiling /\ (intent = "existing-pr-change" => binding = "cure")

DerivedContract(intent, ceiling, binding, kind) ==
  LET optional == {"run-tests", "create-followup"} \cup
                  (IF IntentIsChange(intent) THEN {} ELSE {"open-issue"})
      direct   == IntentNeeds(intent) \cup (optional \cap ceiling)
  IN [kind      |-> IF intent = "existing-pr-change" THEN "pr-cure-change" ELSE kind,
      allowed   |-> direct,
      delegable |-> IF "create-followup" \in direct THEN ceiling \cap Actions ELSE {},
      required  |-> IF IntentIsChange(intent) THEN "pull-request" ELSE "none",
      target    |-> CASE intent = "read-only" -> "read-only"
                      [] intent = "new-pr-change" -> "new-pull-request"
                      [] OTHER -> "existing-pull-request",
      binding   |-> IF intent = "existing-pr-change" THEN binding ELSE "none"]

(* assertArtifactsAllowed and assertRequiredArtifactReported.              *)
ArtifactsAccepted(d, reported) ==
  /\ "issue" \in reported => "open-issue" \in d.allowed
  /\ "pull-request" \in reported => "open-pr" \in d.allowed
  /\ "commit" \in reported => "write" \in d.allowed
  /\ d.required = "pull-request" => "pull-request" \in reported

====

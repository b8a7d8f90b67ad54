---- MODULE WorkQueue ----
(***************************************************************************)
(* The durable work queue (src/src/queue/store.ts): work items, leases,    *)
(* claim selection with predecessor gates and release backoff, completion  *)
(* with follow-up proposals, operator decisions, and the lifecycle ledger. *)
(*                                                                         *)
(* Every public mutation of the store is one BEGIN IMMEDIATE transaction,  *)
(* so each is one action; workers, operators and timers interleave freely  *)
(* and may present anything they were ever given: a worker any lease token *)
(* a claim returned, an operator any form rendered earlier.                *)
(*                                                                         *)
(* Abstractions.  The immutable columns of an item are the constant        *)
(* Definition[i]; creating an item picks an unused id.  Lease tokens are   *)
(* random and never repeat: token t is the t-th claim, grants[t].  Text,   *)
(* evidence and notes are left out, but every write still stamps           *)
(* updatedAt.  The ledger keeps the five event types that the backoff and  *)
(* the attempt projection read; its grant field is a history variable (the *)
(* real ledger never holds a token).  The claimEligibility hook is the     *)
(* input repos of Claim.  A definition path that the policyAuthority hook  *)
(* refuses is a refused transaction, that is, a step not taken.            *)
(***************************************************************************)
EXTENDS WorkContract, Naturals, Sequences, FiniteSets

CONSTANTS
  Items,              \* item ids, positive numbers: claim ties compare ids
  Workers, Operators, \* worker principals; operator sessions that render forms
  Repositories, Kinds, SourceRefs,
  Definition,         \* item -> its contract record (WorkContract)
  RepositoryOf, SourceRefOf,
  Edges,              \* item -> the predecessor sets an import may declare for it
  Priorities, LeaseTerms,
  BackoffReleases, BackoffWindow, MaxLineageDepth, MaxFollowUps,
  NoOne, NoRef,
  MaxTime, MaxGrants, \* bounds of the model only: the clock, the claims,
  Reportable          \* and the artifact kinds that are ever reported

ASSUME ItemsAssumption == Items \subseteq Nat \ {0}
ASSUME PrincipalsAssumption ==
  /\ NoOne \notin Workers /\ {"operator", "member", "system"} \cap Workers = {}
  /\ 0 \notin Operators
ASSUME DefinitionAssumption ==
  /\ Definition \in [Items -> Definitions(Kinds)]
  /\ RepositoryOf \in [Items -> Repositories]
  /\ SourceRefOf \in [Items -> SourceRefs \cup {NoRef}]
  /\ Edges \in [Items -> SUBSET SUBSET SourceRefs]
ASSUME NumbersAssumption ==
  /\ Priorities \subseteq Nat /\ 0 \in Priorities /\ LeaseTerms \subseteq Nat \ {0}
  /\ BackoffReleases \in Nat \ {0} /\ BackoffWindow \in Nat \ {0}
  /\ MaxLineageDepth \in Nat /\ MaxFollowUps \in Nat
  /\ MaxTime \in Nat /\ MaxGrants \in Nat /\ Reportable \subseteq ArtifactKinds

VARIABLES
  now,       \* the clock every process on the host reads
  enabled,   \* repositories.enabled
  item,      \* work_items
  ledger,    \* work_events: per item, the lifecycle events in sequence order
  grants,    \* the claims that returned an item: grants[t] went out with token t
  forms      \* per operator session, the item page last rendered

vars == <<now, enabled, item, ledger, grants, forms>>

----------------------------------------------------------------------------
Statuses == {"absent", "queued", "claimed", "completed", "blocked", "cancelled"}
Results == {"none", "pending", "delivered", "blocked", "cancelled"}

Absent ==
  [status |-> "absent", admitted |-> FALSE, owner |-> NoOne, token |-> 0, expires |-> 0,
   createdAt |-> 0, updatedAt |-> 0, priority |-> 0, predecessors |-> {},
   result |-> "none", reported |-> {}, previousResults |-> 0,
   parent |-> 0, root |-> 0, depth |-> 0]

NoForm == [item |-> 0, status |-> "absent", updatedAt |-> 0, moved |-> "no", applied |-> FALSE]

Init ==
  /\ now = 0
  /\ enabled = [r \in Repositories |-> FALSE]
  /\ item = [i \in Items |-> Absent]
  /\ ledger = [i \in Items |-> <<>>]
  /\ grants = <<>>
  /\ forms = [o \in Operators |-> NoForm]

Exists(i) == item[i].status # "absent"

(* decodeWorkItem: a queued row that is not admitted reads as proposed.    *)
Status(i) ==
  IF item[i].status = "queued" /\ ~item[i].admitted THEN "proposed" ELSE item[i].status

(* The actors that validateOperatorActor lets release a lease: operator:    *)
(* and policy: principals ("operator"), and the member: principal that the *)
(* surface attributes an Access session's decisions to.                    *)
OperatorActors == {"operator", "member"}

(* addEvent.  ended is the instant the attempt's authority ended: the      *)
(* leaseExpiresAt payload of lease.expired, the event's own time otherwise. *)
Event(type, actor, grant) ==
  [type |-> type, actor |-> actor, at |-> now, ended |-> now, grant |-> grant]

(* Fault: the lease columns are only partly cleared.                       *)
UnleasedKeepsToken(row) == [row EXCEPT !.owner = NoOne, !.expires = 0]

Unleased(row) == [row EXCEPT !.owner = NoOne, !.token = 0, !.expires = 0]

Put(i, row) == item' = [item EXCEPT ![i] = [row EXCEPT !.updatedAt = now]]

AddEvent(i, e) == ledger' = [ledger EXCEPT ![i] = Append(@, e)]

----------------------------------------------------------------------------
(* Operator forms (MutationPrecondition).  moved is a history variable:    *)
(* "later" once the item was written at an instant after the updatedAt the *)
(* form shows, "same" once it was written only within that same instant.   *)
Render(o, i) ==
  /\ Exists(i)
  /\ forms' = [forms EXCEPT ![o] = [item |-> i, status |-> Status(i),
                                    updatedAt |-> item[i].updatedAt,
                                    moved |-> "no", applied |-> FALSE]]
  /\ UNCHANGED <<now, enabled, item, ledger, grants>>

MoveForms(i) ==
  [o \in Operators |->
     IF forms[o].item # i \/ forms[o].applied THEN forms[o]
     ELSE [forms[o] EXCEPT !.moved = IF now > forms[o].updatedAt \/ @ = "later"
                                     THEN "later" ELSE "same"]]

(* assertPrecondition.  p = 0 is a mutation that carries no precondition.  *)
PreconditionHolds(i, p) ==
  p # 0 => /\ forms[p].item = i /\ ~forms[p].applied
           /\ forms[p].status = Status(i)
           /\ forms[p].updatedAt = item[i].updatedAt

Applied(i, p) ==
  [o \in Operators |-> IF o = p THEN [forms[o] EXCEPT !.applied = TRUE] ELSE MoveForms(i)[o]]

(* The common shape of an operator mutation of item i from form p.         *)
Decide(i, p, row) ==
  /\ Exists(i)
  /\ PreconditionHolds(i, p)
  /\ Put(i, row)
  /\ forms' = Applied(i, p)
  /\ UNCHANGED <<now, enabled, grants>>

----------------------------------------------------------------------------
SetRepositoryEnabled(r, e) ==
  /\ enabled[r] # e
  /\ enabled' = [enabled EXCEPT ![r] = e]
  /\ UNCHANGED <<now, item, ledger, grants, forms>>

SourceRefExists(r, ref) ==
  \E j \in Items : Exists(j) /\ RepositoryOf[j] = r /\ SourceRefOf[j] = ref

NewItem(i, admitted, priority, predecessors, parent, root, depth) ==
  [Absent EXCEPT !.status = "queued", !.admitted = admitted, !.priority = priority,
                 !.predecessors = predecessors, !.createdAt = now, !.updatedAt = now,
                 !.parent = parent, !.root = root, !.depth = depth]

RootAccepted(i) ==
  /\ ~Exists(i) /\ enabled[RepositoryOf[i]]
  /\ RootContract(Definition[i])
  /\ SourceRefOf[i] # NoRef => ~SourceRefExists(RepositoryOf[i], SourceRefOf[i])

(* enqueueSeed, one accepted candidate of enqueueInactiveRootBatch,        *)
(* enqueueCureRoot and enqueueReviewRoot: an admitted root, ungated.       *)
EnqueueAdmittedRoot(i, priority) ==
  /\ RootAccepted(i)
  /\ item' = [item EXCEPT ![i] = NewItem(i, TRUE, priority, {}, 0, i, 0)]
  /\ UNCHANGED <<now, enabled, ledger, grants, forms>>

(* enqueueProposedRoots: the candidates S whose source references are new, *)
(* in one transaction; nothing is admitted.                                *)
EnqueueProposedRoots(S, priority, edges) ==
  /\ \A i \in S : RootAccepted(i) /\ SourceRefOf[i] # NoRef /\ edges[i] \in Edges[i]
  /\ \A i, j \in S : RepositoryOf[i] = RepositoryOf[j] /\ (SourceRefOf[i] = SourceRefOf[j] => i = j)
  /\ item' = [i \in Items |->
                IF i \in S THEN NewItem(i, FALSE, priority, edges[i], 0, i, 0)
                ELSE item[i]]
  /\ UNCHANGED <<now, enabled, ledger, grants, forms>>

ReplaceProposedPredecessors(i, refs) ==
  /\ Status(i) = "proposed"
  /\ Put(i, [item[i] EXCEPT !.predecessors = refs])
  /\ forms' = MoveForms(i)
  /\ UNCHANGED <<now, enabled, ledger, grants>>

----------------------------------------------------------------------------
(* BACKOFF_RELEASE_COUNT: the releases newer than the window's start whose *)
(* actor has neither an operator: nor a policy: name, so a member's too.   *)
CountedReleases(i) ==
  {k \in DOMAIN ledger[i] : /\ ledger[i][k].type = "released"
                            /\ ledger[i][k].actor # "operator"
                            /\ ledger[i][k].at + BackoffWindow > now}

(* evaluatePredecessor with undeliveredArtifact: some completed item that  *)
(* carries the reference has every pull request merged and every release   *)
(* published, as last recorded by the verification sweep.                  *)
PredecessorSatisfied(ref) ==
  \E j \in Items : /\ SourceRefOf[j] = ref
                   /\ item[j].status = "completed" /\ item[j].result = "delivered"

(* Fault: the backoff lets one release too many through.                   *)
ClaimableOneTooMany(i) ==
  /\ enabled[RepositoryOf[i]]
  /\ \/ item[i].status = "queued" /\ item[i].admitted
     \/ item[i].status = "claimed" /\ item[i].expires <= now
  /\ Cardinality(CountedReleases(i)) <= BackoffReleases

Claimable(i) ==
  /\ enabled[RepositoryOf[i]]
  /\ \/ item[i].status = "queued" /\ item[i].admitted
     \/ item[i].status = "claimed" /\ item[i].expires <= now
  /\ Cardinality(CountedReleases(i)) < BackoffReleases

(* The claim order of both SELECTs: priority DESC, created_at ASC.         *)
ClaimedBefore(i, j) ==
  \/ item[i].priority > item[j].priority
  \/ item[i].priority = item[j].priority /\ item[i].createdAt < item[j].createdAt

(* The rows the ordered SELECT over S may return first: the SQL names no   *)
(* third key, so any of the rows that tie.  0 stands for no row.           *)
FirstRow(S) ==
  IF S = {} THEN {0} ELSE {i \in S : \A j \in S : ~ClaimedBefore(j, i)}

(* Fault: the two queries are merged without comparing their rows.         *)
BetterClaimCandidateUngated(left, right) == IF left # 0 THEN left ELSE right

BetterClaimCandidate(left, right) ==
  IF left = 0 \/ right = 0 THEN left + right
  ELSE IF ClaimedBefore(right, left) THEN right
  ELSE IF ClaimedBefore(left, right) THEN left
  ELSE IF left <= right THEN left ELSE right

(* The items a claim limited to repos and kinds may return.                *)
ClaimChoices(repos, kinds) ==
  LET running == {i \in Items : /\ Claimable(i) /\ RepositoryOf[i] \in repos
                                /\ Definition[i].kind \in kinds}
      ungated == {i \in running : item[i].predecessors = {}}
      gated   == {i \in running \ ungated :
                    \A ref \in item[i].predecessors : PredecessorSatisfied(ref)}
  IN {i \in Items : \E u \in FirstRow(ungated), g \in FirstRow(gated) : i = BetterClaimCandidate(u, g)}

(* The writes of a claim; a lapsed lease is recorded before the new one.   *)
GrantLease(i, w, term) ==
  LET token   == Len(grants) + 1
      lapsed  == [Event("expired", "system", 0) EXCEPT !.ended = item[i].expires]
      claimed == Event("claimed", w, token)
  IN /\ Put(i, [item[i] EXCEPT !.status = "claimed", !.owner = w, !.token = token,
                               !.expires = now + term])
     /\ grants' = Append(grants, [item |-> i, worker |-> w])
     /\ ledger' = [ledger EXCEPT ![i] =
                     IF item[i].status = "claimed" THEN @ \o <<lapsed, claimed>>
                                                   ELSE Append(@, claimed)]
     /\ forms' = MoveForms(i)
     /\ UNCHANGED <<now, enabled>>

Claim(w, term, repos, kinds) ==
  /\ Len(grants) < MaxGrants
  /\ \E i \in ClaimChoices(repos, kinds) : GrantLease(i, w, term)

----------------------------------------------------------------------------
(* Fault: the owner's name is enough, any of its tokens will do.           *)
ActiveLeaseByOwner(i, t, w) ==
  item[i].status = "claimed" /\ item[i].owner = w /\ item[i].expires > now

(* assertActiveLease.                                                      *)
ActiveLease(i, t, w) ==
  /\ item[i].status = "claimed"
  /\ item[i].token = t /\ item[i].owner = w
  /\ item[i].expires > now

Heartbeat(i, t, w, term) ==
  /\ ActiveLease(i, t, w)
  /\ Put(i, [item[i] EXCEPT !.expires = now + term])
  /\ forms' = MoveForms(i)
  /\ UNCHANGED <<now, enabled, ledger, grants>>

(* The proposals complete accepts as the follow-ups of i.                  *)
FollowUpsAccepted(i, kids) ==
  /\ Cardinality(kids) <= MaxFollowUps
  /\ kids # {} => /\ "create-followup" \in Definition[i].allowed
                  /\ item[i].depth < MaxLineageDepth
  /\ \A k \in kids :
       /\ ~Exists(k) /\ SourceRefOf[k] = NoRef /\ RepositoryOf[k] = RepositoryOf[i]
       /\ Definition[k].binding = InheritedCureBinding(Definition[k], Definition[i])
       /\ ChildContract(Definition[k], Definition[i].delegable)
       /\ WithinCeiling(Definition[k], Definition[i].delegable)

(* The delivery observed for a report: without a pull request or release   *)
(* there is nothing to wait for.                                           *)
Deliveries(reported) ==
  IF {"pull-request", "release"} \cap reported = {} THEN {"delivered"} ELSE {"pending", "delivered"}

Complete(i, t, w, reported, kids) ==
  /\ ActiveLease(i, t, w)
  /\ FollowUpsAccepted(i, kids)
  /\ ArtifactsAccepted(Definition[i], reported)
  /\ \E delivery \in Deliveries(reported) :
       item' = [j \in Items |->
         IF j = i THEN [Unleased(item[i]) EXCEPT !.status = "completed", !.result = delivery,
                                                 !.reported = reported, !.updatedAt = now]
         ELSE IF j \in kids
         THEN NewItem(j, FALSE, item[i].priority, {}, i, item[i].root, item[i].depth + 1)
         ELSE item[j]]
  /\ AddEvent(i, Event("completed", w, t))
  /\ forms' = MoveForms(i)
  /\ UNCHANGED <<now, enabled, grants>>

Block(i, t, w) ==
  /\ ActiveLease(i, t, w)
  /\ Put(i, [Unleased(item[i]) EXCEPT !.status = "blocked", !.result = "blocked"])
  /\ AddEvent(i, Event("blocked", w, t))
  /\ forms' = MoveForms(i)
  /\ UNCHANGED <<now, enabled, grants>>

Release(i, t, w) ==
  /\ ActiveLease(i, t, w)
  /\ Put(i, [Unleased(item[i]) EXCEPT !.status = "queued"])
  /\ AddEvent(i, Event("released", w, t))
  /\ forms' = MoveForms(i)
  /\ UNCHANGED <<now, enabled, grants>>

----------------------------------------------------------------------------
AdmissionContract(i) ==
  IF item[i].parent = 0 THEN RootContract(Definition[i])
  ELSE ChildContract(Definition[i], Definition[item[i].parent].delegable)

Approve(i, p) ==
  /\ Status(i) = "proposed" /\ AdmissionContract(i)
  /\ Decide(i, p, [item[i] EXCEPT !.admitted = TRUE])
  /\ UNCHANGED ledger

(* Fault: the status that reads show is written to the row.                *)
DeferToProposed(i, p) ==
  /\ Status(i) = "queued"
  /\ Decide(i, p, [item[i] EXCEPT !.status = "proposed"])
  /\ UNCHANGED ledger

Defer(i, p) ==
  /\ Status(i) = "queued"
  /\ Decide(i, p, [item[i] EXCEPT !.admitted = FALSE])
  /\ UNCHANGED ledger

(* Fault: a note does not stamp updated_at.                                *)
NoteUnstamped(i, p) ==
  /\ Exists(i) /\ PreconditionHolds(i, p)
  /\ forms' = Applied(i, p)
  /\ UNCHANGED <<now, enabled, item, ledger, grants>>

Note(i, p) ==
  /\ Decide(i, p, item[i])
  /\ UNCHANGED ledger

Prioritize(i, p, priority) ==
  /\ Status(i) \in {"proposed", "queued", "blocked"}
  /\ Decide(i, p, [item[i] EXCEPT !.priority = priority])
  /\ UNCHANGED ledger

Reject(i, p) ==
  /\ Status(i) = "proposed"
  /\ Decide(i, p, [item[i] EXCEPT !.status = "cancelled", !.result = "cancelled"])
  /\ UNCHANGED ledger

Requeue(i, p) ==
  /\ Status(i) = "blocked"
  /\ Decide(i, p, [Unleased(item[i]) EXCEPT
                     !.status = "queued", !.result = "none",
                     !.previousResults = IF item[i].result # "none" THEN @ + 1 ELSE @])
  /\ UNCHANGED ledger

(* A member decides on the surface, whose every form carries its            *)
(* precondition.                                                           *)
ReleaseLease(i, p, actor) ==
  /\ actor = "member" => p # 0
  /\ Status(i) = "claimed"
  /\ Decide(i, p, [Unleased(item[i]) EXCEPT !.status = "queued"])
  /\ AddEvent(i, Event("released", actor, 0))

Cancel(i, p) ==
  /\ Status(i) = "blocked"
  /\ Decide(i, p, [Unleased(item[i]) EXCEPT !.status = "cancelled", !.result = "cancelled"])
  /\ UNCHANGED ledger

(* Fault: the sweep takes work away from the worker that holds it.         *)
RetireClaimedWork(i) ==
  /\ Definition[i].binding # "none"
  /\ Status(i) \in {"queued", "blocked", "claimed"}
  /\ Put(i, [Unleased(item[i]) EXCEPT !.status = "cancelled", !.result = "cancelled"])
  /\ forms' = MoveForms(i)
  /\ UNCHANGED <<now, enabled, ledger, grants>>

(* retirePullRequestBoundWork, called by the lifecycle sweep for items     *)
(* bound to a pull request it saw merged or closed; no precondition.       *)
RetirePullRequestBoundWork(i) ==
  /\ Definition[i].binding # "none"
  /\ Status(i) \in {"queued", "blocked"}
  /\ Put(i, [Unleased(item[i]) EXCEPT !.status = "cancelled", !.result = "cancelled"])
  /\ forms' = MoveForms(i)
  /\ UNCHANGED <<now, enabled, ledger, grants>>

(* recordArtifactVerification: the sweep writes what it observed, earlier, *)
(* about one artifact of a completed item.                                 *)
RecordArtifactVerification(i) ==
  /\ item[i].status = "completed"
  /\ item[i].reported \ {"commit"} # {}
  /\ \E delivery \in Deliveries(item[i].reported) : Put(i, [item[i] EXCEPT !.result = delivery])
  /\ forms' = MoveForms(i)
  /\ UNCHANGED <<now, enabled, ledger, grants>>

AttachArtifact(i, p, kind) ==
  /\ Status(i) = "completed"
  /\ \E delivery \in Deliveries({kind}) :
       Decide(i, p, [item[i] EXCEPT !.reported = @ \cup {kind},
                                    !.result = IF delivery = "pending" THEN "pending" ELSE @])
  /\ UNCHANGED ledger

Tick ==
  /\ now < MaxTime
  /\ now' = now + 1
  /\ UNCHANGED <<enabled, item, ledger, grants, forms>>

----------------------------------------------------------------------------
WorkerCall ==
  \/ \E w \in Workers, term \in LeaseTerms, repos \in SUBSET Repositories, kinds \in SUBSET Kinds :
       Claim(w, term, repos, kinds)
  \/ \E w \in Workers, t \in DOMAIN grants : \E i \in {j \in Items : ActiveLease(j, t, w)} :
       \/ \E term \in LeaseTerms : Heartbeat(i, t, w, term)
       \/ \E reported \in SUBSET Reportable, kids \in SUBSET {k \in Items : ~Exists(k)} :
            Complete(i, t, w, reported, kids)
       \/ Block(i, t, w)
       \/ Release(i, t, w)

OperatorCall ==
  \/ \E o \in Operators, i \in Items : Render(o, i)
  \/ \E i \in Items, p \in Operators \cup {0} :
       \/ Approve(i, p) \/ Defer(i, p) \/ Note(i, p) \/ Reject(i, p) \/ Requeue(i, p)
       \/ Cancel(i, p)
       \/ \E actor \in OperatorActors : ReleaseLease(i, p, actor)
       \/ \E priority \in Priorities : Prioritize(i, p, priority)
       \/ \E kind \in Reportable \ {"commit"} : AttachArtifact(i, p, kind)

Intake ==
  \/ \E r \in Repositories, e \in BOOLEAN : SetRepositoryEnabled(r, e)
  \/ \E i \in Items, priority \in Priorities : EnqueueAdmittedRoot(i, priority)
  \/ \E S \in SUBSET {i \in Items : SourceRefOf[i] # NoRef} \ {{}}, priority \in Priorities :
       \E edges \in [S -> UNION {Edges[i] : i \in S}] : EnqueueProposedRoots(S, priority, edges)
  \/ \E i \in Items : \E refs \in Edges[i] : ReplaceProposedPredecessors(i, refs)

Sweep ==
  \E i \in Items : RetirePullRequestBoundWork(i) \/ RecordArtifactVerification(i)

Next == WorkerCall \/ OperatorCall \/ Intake \/ Sweep \/ Tick

Spec == Init /\ [][Next]_vars

----------------------------------------------------------------------------
EventRow == [type : {"claimed", "completed", "blocked", "released", "expired"},
           actor : Workers \cup OperatorActors \cup {"system"}, at : Nat, ended : Nat, grant : Nat]

ItemRow ==
  [status : Statuses, admitted : BOOLEAN, owner : Workers \cup {NoOne}, token : Nat, expires : Nat,
   createdAt : Nat, updatedAt : Nat, priority : Priorities, predecessors : SUBSET SourceRefs,
   result : Results, reported : SUBSET ArtifactKinds, previousResults : Nat,
   parent : Items \cup {0}, root : Items \cup {0}, depth : Nat]

Form ==
  [item : Items \cup {0}, status : Statuses \cup {"proposed"}, updatedAt : Nat,
   moved : {"no", "same", "later"}, applied : BOOLEAN]

(* Type invariant: every row, event, grant and form is well formed.        *)
TypeOK ==
  /\ now \in Nat
  /\ enabled \in [Repositories -> BOOLEAN]
  /\ item \in [Items -> ItemRow]
  /\ ledger \in [Items -> Seq(EventRow)]
  /\ grants \in Seq([item : Items, worker : Workers])
  /\ forms \in [Operators -> Form]

(* A row carries a lease exactly while it is claimed, the lease is the     *)
(* grant that was handed out for this item to this owner, and only work an *)
(* operator or policy admitted was ever leased: claim, release, requeue,   *)
(* releaseLease and defer together never leave a half-cleared or           *)
(* unadmitted lease.                                                       *)
LeaseRowSound ==
  \A i \in Items :
    /\ item[i].status = "claimed" <=> item[i].token # 0
    /\ item[i].status = "claimed" => /\ item[i].token \in DOMAIN grants
                                     /\ grants[item[i].token] = [item |-> i, worker |-> item[i].owner]
    /\ item[i].status \in {"claimed", "blocked", "completed"} => item[i].admitted

(* Fencing, read off the ledger (work-queue spec rules 4, 5 and 67): an    *)
(* item's attempts never overlap, every claim opens one and exactly one    *)
(* event closes it, and a worker's completion, block or release closes the *)
(* very grant that was current, never a newer one with a superseded token. *)
AttemptsFenced ==
  \A i \in Items :
    /\ \A k \in DOMAIN ledger[i] :
         /\ ledger[i][k].type = "claimed" <=> k % 2 = 1
         /\ k % 2 = 0 /\ ledger[i][k].actor \in Workers =>
              /\ ledger[i][k].grant = ledger[i][k - 1].grant
              /\ ledger[i][k].actor = ledger[i][k - 1].actor
         /\ k > 1 => ledger[i][k - 1].ended <= ledger[i][k].at
    /\ item[i].status = "claimed" <=> Len(ledger[i]) % 2 = 1
    /\ item[i].status = "claimed" => ledger[i][Len(ledger[i])].grant = item[i].token

(* What the backoff is for: however releases by workers, members and       *)
(* operators, lapses and later claims interleave, no trailing window ever  *)
(* holds more than BackoffReleases of the releases that the code counts,   *)
(* and so no more releases by workers either.                              *)
ChurnBounded == \A i \in Items : Cardinality(CountedReleases(i)) <= BackoffReleases

(* Rule 69 and ADR-0072 decision 3, "Only worker releases count": an item  *)
(* that the backoff keeps out of claim selection was released              *)
(* BackoffReleases times by workers, whatever operators and members did.   *)
OnlyWorkersDecline ==
  \A i \in Items :
    Cardinality(CountedReleases(i)) >= BackoffReleases =>
      Cardinality({k \in CountedReleases(i) : ledger[i][k].actor \in Workers}) >= BackoffReleases

(* Rule 39 and ADR-0060: a decision applied from a rendered form never     *)
(* overlooks a write to the item at a later instant than the form shows,   *)
(* which needs every mutation of the store to stamp updatedAt.             *)
NoStaleIntent == \A o \in Operators : forms[o].applied => forms[o].moved # "later"

AuthorityAttenuates ==
  \A i \in Items : Exists(i) =>
    LET r == item[i].root IN
    /\ r \in Items /\ Exists(r) /\ item[r].parent = 0
    /\ RepositoryOf[i] = RepositoryOf[r]
    /\ item[i].depth <= MaxLineageDepth
    /\ item[i].parent # 0 => WithinCeiling(Definition[i], Definition[r].delegable)

ContractsDeliverable ==
  \A i \in Items :
    /\ Status(i) = "proposed" => AdmissionContract(i)
    /\ Status(i) = "claimed" => \E reported \in SUBSET ArtifactKinds :
                                  ArtifactsAccepted(Definition[i], reported)

(* Rules 7-9 over whole lineages: every descendant is bounded by what its  *)
(* root may delegate, stays in the root's repository, and is at most       *)
(* MaxLineageDepth edges below it.  And ADR-0069: no proposal is one       *)
(* approve must refuse for its contract, and a leased item always has a    *)
(* report its completion accepts.                                          *)
ContractsSound == AuthorityAttenuates /\ ContractsDeliverable

BlockResultsKept ==
  \A i \in Items : item[i].status # "cancelled" =>
    Cardinality({k \in DOMAIN ledger[i] : ledger[i][k].type = "blocked"}) =
      item[i].previousResults + (IF item[i].status = "blocked" THEN 1 ELSE 0)

(* The item that a step claimed, as a set.                                 *)
JustClaimed ==
  {i \in Items : Len(grants') = Len(grants) + 1 /\ grants'[Len(grants')].item = i}

MayBeClaimed(i) ==
  Claimable(i) /\ \A ref \in item[i].predecessors : PredecessorSatisfied(ref)

(* Every claim whose filters admit one of the two admits the other.        *)
SameFilters(i, j) == RepositoryOf[i] = RepositoryOf[j] /\ Definition[i].kind = Definition[j].kind

(* The two-query selection returns what one ordered walk over all claimable *)
(* items would: a claimable item that nothing claimable of the same        *)
(* repository and kind (so within the same filters) comes before.          *)
ClaimPicksBest ==
  [][\A i \in JustClaimed :
       /\ MayBeClaimed(i)
       /\ \A j \in Items : SameFilters(i, j) /\ MayBeClaimed(j) => ~ClaimedBefore(j, i)]_vars

(* The abstract specification that the queue implements.                   *)
Fenced == INSTANCE FencedWork WITH
  phase    <- [i \in Items |-> CASE item[i].status = "absent" -> "none"
                                 [] item[i].status \in {"completed", "cancelled"} -> "done"
                                 [] OTHER -> "open"],
  holder   <- [i \in Items |-> item[i].token],
  finisher <- [i \in Items |-> IF item[i].status = "completed"
                               THEN ledger[i][Len(ledger[i])].grant ELSE 0],
  issued   <- Len(grants)

(* The queue implements fenced work: see FencedWork.                       *)
FencedSpec == Fenced!Spec

====

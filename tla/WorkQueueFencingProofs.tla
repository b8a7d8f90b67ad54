---- MODULE WorkQueueFencingProofs ----
(***************************************************************************)
(* Fencing, churn, lineage and selection of the work queue, and that the   *)
(* queue implements FencedWork, for every value of the constants.  Every   *)
(* transaction of the store does one of five things to the leases and the  *)
(* ledger; the lemma Effects says which, and LineageEffects what each step *)
(* does to a row's lineage, which is written once, when it is created.     *)
(* The theorems follow from these classifications and the invariants of    *)
(* WorkQueueProofs; the last one, that no block result is erased, counts   *)
(* the blocks of a history (BlocksAppend).                                 *)
(***************************************************************************)
EXTENDS WorkQueueProofs, SequenceTheorems, FiniteSetTheorems

----------------------------------------------------------------------------
(* What a step can do to leases and ledger.                                *)

SameLease(j) ==
  /\ item'[j].status = item[j].status
  /\ item'[j].token = item[j].token
  /\ item'[j].owner = item[j].owner

KeptOutside(S) == \A j \in Items \ S : SameLease(j)

(* Rows of S come into being, queued and unleased.                         *)
Appear(S) ==
  \A j \in S : item[j].status = "absent" /\ item'[j].status = "queued" /\ item'[j].token = 0

(* Nothing happens to any lease; time may pass.                            *)
Idles ==
  /\ now' \in Nat /\ now <= now'
  /\ KeptOutside({})
  /\ ledger' = ledger /\ grants' = grants

Opens(S) ==
  /\ Appear(S) /\ KeptOutside(S)
  /\ now' = now /\ ledger' = ledger /\ grants' = grants

Lapsed(i) == [Event("expired", "system", 0) EXCEPT !.ended = item[i].expires]

Leases(i, w) ==
  LET claimed == Event("claimed", w, Len(grants) + 1) IN
  /\ \E repos \in SUBSET Repositories, kinds \in SUBSET Kinds : i \in ClaimChoices(repos, kinds)
  /\ item'[i].status = "claimed" /\ item'[i].token = Len(grants) + 1 /\ item'[i].owner = w
  /\ KeptOutside({i})
  /\ grants' = Append(grants, [item |-> i, worker |-> w])
  /\ ledger' = [ledger EXCEPT ![i] = IF item[i].status = "claimed"
                                     THEN @ \o <<Lapsed(i), claimed>> ELSE Append(@, claimed)]
  /\ now' = now

(* The attempt on i ends with event e; a completion leaves the rows of S.  *)
Ends(i, e, S) ==
  /\ item[i].status = "claimed" /\ item'[i].token = 0
  /\ \/ e = Event("completed", item[i].owner, item[i].token) /\ item'[i].status = "completed"
     \/ e = Event("blocked", item[i].owner, item[i].token) /\ item'[i].status = "blocked" /\ S = {}
     \/ /\ \/ e = Event("released", item[i].owner, item[i].token)
           \/ \E actor \in OperatorActors : e = Event("released", actor, 0)
        /\ item'[i].status = "queued" /\ S = {}
  /\ Appear(S) /\ KeptOutside({i} \cup S)
  /\ AddEvent(i, e)
  /\ now' = now /\ grants' = grants

(* Work that nobody holds is queued again or withdrawn.                    *)
Settles(i) ==
  /\ item[i].status \in {"queued", "blocked"}
  /\ item'[i].status \in {"queued", "cancelled"} /\ item'[i].token = 0
  /\ KeptOutside({i})
  /\ now' = now /\ ledger' = ledger /\ grants' = grants

Effect ==
  \/ Idles
  \/ \E S \in SUBSET Items : Opens(S)
  \/ \E i \in Items, w \in Workers : Leases(i, w)
  \/ \E i \in Items, e \in EventRow, S \in SUBSET Items : Ends(i, e, S)
  \/ \E i \in Items : Settles(i)

(* Put writes one row.                                                     *)
LEMMA PutFields ==
  ASSUME item \in [Items -> ItemRow], NEW i \in Items, NEW row \in ItemRow, Put(i, row)
  PROVE  /\ item'[i].status = row.status /\ item'[i].token = row.token /\ item'[i].owner = row.owner
         /\ KeptOutside({i})
BY DEF Put, ItemRow, KeptOutside, SameLease

(* A write that keeps status, token and owner disturbs no lease.           *)
LEMMA PutIdles ==
  ASSUME TypeOK, NEW i \in Items, NEW row \in ItemRow, Put(i, row),
         row.status = item[i].status, row.token = item[i].token, row.owner = item[i].owner,
         now' = now, ledger' = ledger, grants' = grants
  PROVE  Idles
<1>1. item \in [Items -> ItemRow] /\ now \in Nat BY DEF TypeOK
<1>2. /\ item'[i].status = row.status /\ item'[i].token = row.token /\ item'[i].owner = row.owner
      /\ KeptOutside({i})
  BY <1>1, PutFields
<1> QED BY <1>1, <1>2 DEF Idles, KeptOutside, SameLease

(* A write that queues or cancels an unleased row settles it.              *)
LEMMA PutSettles ==
  ASSUME TypeOK, NEW i \in Items, NEW row \in ItemRow, Put(i, row),
         item[i].status \in {"queued", "blocked"}, row.status \in {"queued", "cancelled"},
         row.token = 0, now' = now, ledger' = ledger, grants' = grants
  PROVE  Settles(i)
<1>1. item \in [Items -> ItemRow] BY DEF TypeOK
<1>2. item'[i].status = row.status /\ item'[i].token = row.token /\ KeptOutside({i})
  BY <1>1, PutFields
<1> QED BY <1>2 DEF Settles

(* The row of an item that is queued once more.                            *)
LEMMA QueuedAgain ==
  ASSUME NEW row \in ItemRow
  PROVE  /\ [Unleased(row) EXCEPT !.status = "queued"] \in ItemRow
         /\ [Unleased(row) EXCEPT !.status = "queued"].status = "queued"
         /\ [Unleased(row) EXCEPT !.status = "queued"].token = 0
<1>1. PICK clear \in ItemRow : clear = Unleased(row) /\ clear.token = 0
  BY UnleasedType, UnleasedFields
<1> QED BY <1>1 DEF ItemRow, Statuses

(* The row of an item that gets a result.                                  *)
LEMMA ClearedRow ==
  ASSUME NEW row \in ItemRow, NEW status \in Statuses, NEW result \in Results
  PROVE  /\ [Unleased(row) EXCEPT !.status = status, !.result = result] \in ItemRow
         /\ [Unleased(row) EXCEPT !.status = status, !.result = result].status = status
         /\ [Unleased(row) EXCEPT !.status = status, !.result = result].token = 0
<1>1. PICK clear \in ItemRow : clear = Unleased(row) /\ clear.token = 0
  BY UnleasedType, UnleasedFields
<1>2. /\ [clear EXCEPT !.status = status, !.result = result] \in ItemRow
      /\ [clear EXCEPT !.status = status, !.result = result].status = status
      /\ [clear EXCEPT !.status = status, !.result = result].token = 0
  BY <1>1 DEF ItemRow
<1> QED BY <1>1, <1>2

(* The event that ends an attempt is an event of the ledger.               *)
LEMMA EndEvents ==
  ASSUME TypeOK, NEW w \in Workers, NEW t \in Nat
  PROVE  /\ Event("completed", w, t) \in EventRow /\ Event("blocked", w, t) \in EventRow
         /\ Event("released", w, t) \in EventRow
         /\ \A actor \in OperatorActors : Event("released", actor, 0) \in EventRow
<1>1. now \in Nat BY DEF TypeOK
<1> QED BY <1>1, EventType

(* Every step has one of the five effects.                                 *)
LEMMA Effects == TypeOK /\ LeaseRowSound /\ [Next]_vars => Effect
<1> SUFFICES ASSUME TypeOK, LeaseRowSound, [Next]_vars PROVE Effect
  OBVIOUS
<1>0. item \in [Items -> ItemRow] /\ now \in Nat /\ grants \in Seq([item : Items, worker : Workers])
  BY DEF TypeOK
<1>row. ASSUME NEW i \in Items
        PROVE  /\ item[i] \in ItemRow /\ Unleased(item[i]) \in ItemRow
               /\ item[i].status # "claimed" => item[i].token = 0
  BY <1>0, UnleasedType DEF LeaseRowSound
<1>idle. ASSUME NEW i \in Items, NEW row \in ItemRow, Put(i, row), row.status = item[i].status,
                row.token = item[i].token, row.owner = item[i].owner,
                now' = now, ledger' = ledger, grants' = grants
         PROVE  Effect
  BY <1>idle, PutIdles DEF Effect
<1>settle. ASSUME NEW i \in Items, NEW row \in ItemRow, Put(i, row),
                  item[i].status \in {"queued", "blocked"}, row.status \in {"queued", "cancelled"},
                  row.token = 0, now' = now, ledger' = ledger, grants' = grants
           PROVE  Effect
  BY <1>settle, PutSettles DEF Effect
<1>same. ASSUME item' = item, ledger' = ledger, grants' = grants, now' \in Nat, now <= now'
         PROVE  Effect
  BY <1>same DEF Effect, Idles, KeptOutside, SameLease
<1>1. ASSUME NEW w \in Workers, NEW term \in LeaseTerms, NEW repos \in SUBSET Repositories,
             NEW kinds \in SUBSET Kinds, Claim(w, term, repos, kinds)
      PROVE  Effect
  <2>1. PICK i \in ClaimChoices(repos, kinds) : GrantLease(i, w, term)
    BY <1>1 DEF Claim
  <2>2. i \in Items /\ Claimable(i)
    BY ClaimChoicesClaimable
  <2>3. now + term \in Nat /\ Len(grants) + 1 \in Nat
    BY <1>0, NumbersAssumption
  <2>4. PICK row : row = [item[i] EXCEPT !.status = "claimed", !.owner = w, !.token = Len(grants) + 1,
                                         !.expires = now + term]
    OBVIOUS
  <2>5. /\ row \in ItemRow /\ row.status = "claimed" /\ row.token = Len(grants) + 1 /\ row.owner = w
    BY <1>row, <2>2, <2>3, <2>4 DEF ItemRow, Statuses
  <2>6. Put(i, row) BY <2>1, <2>4 DEF GrantLease
  <2>7. /\ item'[i].status = "claimed" /\ item'[i].token = Len(grants) + 1 /\ item'[i].owner = w
        /\ KeptOutside({i})
    BY <1>0, <2>2, <2>5, <2>6, PutFields
  <2>8. Leases(i, w)
    BY <2>1, <2>7 DEF Leases, GrantLease, Lapsed
  <2> QED BY <2>2, <2>8 DEF Effect
<1>2. ASSUME NEW i \in Items, NEW w \in Workers, NEW t, NEW term \in LeaseTerms,
             Heartbeat(i, t, w, term)
      PROVE  Effect
  <2>1. now + term \in Nat BY <1>0, NumbersAssumption
  <2>2. PICK row : row = [item[i] EXCEPT !.expires = now + term] OBVIOUS
  <2>3. /\ row \in ItemRow /\ row.status = item[i].status /\ row.token = item[i].token
        /\ row.owner = item[i].owner
    BY <1>row, <2>1, <2>2 DEF ItemRow
  <2> QED BY <1>2, <1>idle, <2>2, <2>3 DEF Heartbeat
<1>3. ASSUME NEW i \in Items, NEW w \in Workers, NEW t \in DOMAIN grants, NEW reported \in SUBSET Reportable,
             NEW kids \in SUBSET Items, Complete(i, t, w, reported, kids)
      PROVE  Effect
  <2>1. PICK delivery \in Deliveries(reported) :
          item' = [j \in Items |->
            IF j = i THEN [Unleased(item[i]) EXCEPT !.status = "completed", !.result = delivery,
                                                    !.reported = reported, !.updatedAt = now]
            ELSE IF j \in kids
            THEN NewItem(j, FALSE, item[i].priority, {}, i, item[i].root, item[i].depth + 1)
            ELSE item[j]]
    BY <1>3 DEF Complete
  <2>2. /\ item[i].status = "claimed" /\ item[i].token = t /\ item[i].owner = w
        /\ \A k \in kids : item[k].status = "absent"
    BY <1>3 DEF Complete, ActiveLease, FollowUpsAccepted, Exists
  <2>3. PICK row : row = [Unleased(item[i]) EXCEPT !.status = "completed", !.result = delivery,
                                                   !.reported = reported, !.updatedAt = now]
    OBVIOUS
  <2>4. item'[i] = row BY <2>1, <2>3
  <2>5. row.status = "completed" /\ row.token = 0
    <3>1. row.status = "completed" /\ row.token = Unleased(item[i]).token
      BY <1>row, <2>3 DEF ItemRow
    <3> QED BY <1>row, <3>1, UnleasedFields
  <2>6. Appear(kids)
    <3>1. ASSUME NEW j \in kids
          PROVE  item'[j].status = "queued" /\ item'[j].token = 0
      <4>1. item'[j] = NewItem(j, FALSE, item[i].priority, {}, i, item[i].root, item[i].depth + 1)
        BY <2>1, <2>2
      <4> QED BY <4>1 DEF NewItem, Absent
    <3> QED BY <2>2, <3>1 DEF Appear
  <2>7. KeptOutside({i} \cup kids)
    BY <2>1 DEF KeptOutside, SameLease
  <2>8. t \in Nat BY <1>0
  <2>9. PICK e \in EventRow : e = Event("completed", w, t)
    BY <2>8, EndEvents
  <2>10. AddEvent(i, e) /\ now' = now /\ grants' = grants
    BY <1>3, <2>9 DEF Complete
  <2>11. Ends(i, e, kids)
    BY <2>2, <2>4, <2>5, <2>6, <2>7, <2>9, <2>10 DEF Ends
  <2> QED BY <2>11 DEF Effect
<1>4. ASSUME NEW i \in Items, NEW w \in Workers, NEW t \in DOMAIN grants, Block(i, t, w)
      PROVE  Effect
  <2>1. PICK row : row = [Unleased(item[i]) EXCEPT !.status = "blocked", !.result = "blocked"] OBVIOUS
  <2>2. row \in ItemRow /\ row.status = "blocked" /\ row.token = 0
    BY <1>row, <2>1, ClearedRow DEF Statuses, Results
  <2>3. Put(i, row) BY <1>4, <2>1 DEF Block
  <2>4. item'[i].status = "blocked" /\ item'[i].token = 0 /\ KeptOutside({i})
    BY <1>0, <2>2, <2>3, PutFields
  <2>5. item[i].status = "claimed" /\ item[i].token = t /\ item[i].owner = w
    BY <1>4 DEF Block, ActiveLease
  <2>6. t \in Nat BY <1>0
  <2>7. PICK e \in EventRow : e = Event("blocked", w, t)
    BY <2>6, EndEvents
  <2>8. AddEvent(i, e) /\ now' = now /\ grants' = grants
    BY <1>4, <2>7 DEF Block
  <2>9. Ends(i, e, {})
    BY <2>4, <2>5, <2>7, <2>8 DEF Ends, Appear
  <2> QED BY <2>9 DEF Effect
<1>5. ASSUME NEW i \in Items, NEW w \in Workers, NEW t \in DOMAIN grants, Release(i, t, w)
      PROVE  Effect
  <2>1. PICK row : row = [Unleased(item[i]) EXCEPT !.status = "queued"] OBVIOUS
  <2>2. row \in ItemRow /\ row.status = "queued" /\ row.token = 0
    BY <1>row, <2>1, QueuedAgain
  <2>3. Put(i, row) BY <1>5, <2>1 DEF Release
  <2>4. item'[i].status = "queued" /\ item'[i].token = 0 /\ KeptOutside({i})
    BY <1>0, <2>2, <2>3, PutFields
  <2>5. item[i].status = "claimed" /\ item[i].token = t /\ item[i].owner = w
    BY <1>5 DEF Release, ActiveLease
  <2>6. t \in Nat BY <1>0
  <2>7. PICK e \in EventRow : e = Event("released", w, t)
    BY <2>6, EndEvents
  <2>8. AddEvent(i, e) /\ now' = now /\ grants' = grants
    BY <1>5, <2>7 DEF Release
  <2>9. Ends(i, e, {})
    BY <2>4, <2>5, <2>7, <2>8 DEF Ends, Appear
  <2> QED BY <2>9 DEF Effect
<1>6. ASSUME NEW o \in Operators, NEW i \in Items, Render(o, i) PROVE Effect
  BY <1>0, <1>6, <1>same DEF Render
<1>7. ASSUME NEW i \in Items, NEW p, Approve(i, p) \/ Defer(i, p) PROVE Effect
  <2>1. PICK b \in BOOLEAN : Put(i, [item[i] EXCEPT !.admitted = b])
    BY <1>7 DEF Approve, Defer, Decide
  <2>2. PICK row : row = [item[i] EXCEPT !.admitted = b] OBVIOUS
  <2>3. /\ row \in ItemRow /\ row.status = item[i].status /\ row.token = item[i].token
        /\ row.owner = item[i].owner
    BY <1>row, <2>2 DEF ItemRow
  <2>4. now' = now /\ ledger' = ledger /\ grants' = grants
    BY <1>7 DEF Approve, Defer, Decide
  <2> QED BY <1>idle, <2>1, <2>2, <2>3, <2>4
<1>8. ASSUME NEW i \in Items, NEW p, Note(i, p) PROVE Effect
  BY <1>8, <1>row, <1>idle DEF Note, Decide
<1>9. ASSUME NEW i \in Items, NEW p, NEW priority \in Priorities, Prioritize(i, p, priority)
      PROVE  Effect
  <2>1. PICK row : row = [item[i] EXCEPT !.priority = priority] OBVIOUS
  <2>2. /\ row \in ItemRow /\ row.status = item[i].status /\ row.token = item[i].token
        /\ row.owner = item[i].owner
    BY <1>row, <2>1 DEF ItemRow
  <2> QED BY <1>9, <1>idle, <2>1, <2>2 DEF Prioritize, Decide
<1>10. ASSUME NEW i \in Items, NEW p, Reject(i, p) PROVE Effect
  <2>1. item[i].status = "queued" BY <1>10, <1>row, QueuedStatus DEF Reject
  <2>2. PICK row : row = [item[i] EXCEPT !.status = "cancelled", !.result = "cancelled"] OBVIOUS
  <2>3. row \in ItemRow /\ row.status = "cancelled" /\ row.token = 0
    <3>1. row \in ItemRow /\ row.status = "cancelled" /\ row.token = item[i].token
      BY <1>row, <2>2 DEF ItemRow, Statuses, Results
    <3> QED BY <1>row, <2>1, <3>1
  <2> QED BY <1>10, <1>settle, <2>1, <2>2, <2>3 DEF Reject, Decide
<1>11. ASSUME NEW i \in Items, NEW p, Cancel(i, p) PROVE Effect
  <2>1. item[i].status = "blocked" BY <1>11, <1>row, QueuedStatus DEF Cancel
  <2>2. PICK row : row = [Unleased(item[i]) EXCEPT !.status = "cancelled", !.result = "cancelled"]
    OBVIOUS
  <2>3. row \in ItemRow /\ row.status = "cancelled" /\ row.token = 0
    BY <1>row, <2>2, ClearedRow DEF Statuses, Results
  <2> QED BY <1>11, <1>settle, <2>1, <2>2, <2>3 DEF Cancel, Decide
<1>12. ASSUME NEW i \in Items, NEW p, Requeue(i, p) PROVE Effect
  <2>1. item[i].status = "blocked" BY <1>12, <1>row, QueuedStatus DEF Requeue
  <2> DEFINE before == Unleased(item[i])
             kept == IF item[i].result # "none" THEN before.previousResults + 1
                                                ELSE before.previousResults
             row == [before EXCEPT !.status = "queued", !.result = "none", !.previousResults = kept]
  <2>2. before \in ItemRow /\ kept \in Nat BY <1>row DEF ItemRow
  <2>3. Put(i, row) /\ now' = now /\ ledger' = ledger /\ grants' = grants
    BY <1>12 DEF Requeue, Decide
  <2>4. row \in ItemRow
    <3> HIDE DEF before, kept
    <3> QED BY <2>2, RequeuedRowType
  <2>5. row.status = "queued" /\ row.token = 0
    BY <1>row, UnleasedFields DEF ItemRow
  <2> HIDE DEF row
  <2> QED BY <1>settle, <2>1, <2>3, <2>4, <2>5
<1>13. ASSUME NEW i \in Items, NEW p, NEW actor \in OperatorActors, ReleaseLease(i, p, actor)
       PROVE  Effect
  <2>1. PICK row : row = [Unleased(item[i]) EXCEPT !.status = "queued"] OBVIOUS
  <2>2. row \in ItemRow /\ row.status = "queued" /\ row.token = 0
    BY <1>row, <2>1, QueuedAgain
  <2>3. Put(i, row) BY <1>13, <2>1 DEF ReleaseLease, Decide
  <2>4. item'[i].status = "queued" /\ item'[i].token = 0 /\ KeptOutside({i})
    BY <1>0, <2>2, <2>3, PutFields
  <2>5. item[i].status = "claimed" BY <1>13, <1>row, QueuedStatus DEF ReleaseLease
  <2>6. PICK e \in EventRow : e = Event("released", actor, 0)
    BY <1>0, EventType
  <2>7. AddEvent(i, e) /\ now' = now /\ grants' = grants
    BY <1>13, <2>6 DEF ReleaseLease, Decide
  <2>8. Ends(i, e, {})
    BY <2>4, <2>5, <2>6, <2>7 DEF Ends, Appear
  <2> QED BY <2>8 DEF Effect
<1>14. ASSUME NEW i \in Items, NEW p, NEW kind \in Reportable, AttachArtifact(i, p, kind)
       PROVE  Effect
  <2>1. PICK delivery \in Deliveries({kind}) :
          Decide(i, p, [item[i] EXCEPT !.reported = @ \cup {kind},
                                       !.result = IF delivery = "pending" THEN "pending" ELSE @])
    BY <1>14 DEF AttachArtifact
  <2>2. kind \in ArtifactKinds BY NumbersAssumption
  <2>3. PICK row : row = [item[i] EXCEPT !.reported = @ \cup {kind},
                                         !.result = IF delivery = "pending" THEN "pending" ELSE @]
    OBVIOUS
  <2>4. /\ row \in ItemRow /\ row.status = item[i].status /\ row.token = item[i].token
        /\ row.owner = item[i].owner
    BY <1>row, <2>2, <2>3 DEF ItemRow, Results
  <2> QED BY <1>14, <1>idle, <2>1, <2>3, <2>4 DEF AttachArtifact, Decide
<1>15. ASSUME NEW r \in Repositories, NEW b \in BOOLEAN, SetRepositoryEnabled(r, b) PROVE Effect
  BY <1>0, <1>15, <1>same DEF SetRepositoryEnabled
<1>16. ASSUME NEW i \in Items, NEW priority \in Priorities, EnqueueAdmittedRoot(i, priority)
       PROVE  Effect
  <2>1. item[i].status = "absent" BY <1>16 DEF EnqueueAdmittedRoot, RootAccepted, Exists
  <2>2. /\ item'[i] = NewItem(i, TRUE, priority, {}, 0, i, 0)
        /\ \A j \in Items \ {i} : item'[j] = item[j]
    BY <1>0, <1>16 DEF EnqueueAdmittedRoot
  <2>3. Appear({i}) /\ KeptOutside({i})
    <3>1. item'[i].status = "queued" /\ item'[i].token = 0 BY <2>2 DEF NewItem, Absent
    <3> QED BY <2>1, <2>2, <3>1 DEF Appear, KeptOutside, SameLease
  <2>4. Opens({i}) BY <1>16, <2>3 DEF Opens, EnqueueAdmittedRoot
  <2> QED BY <2>4 DEF Effect
<1>17. ASSUME NEW S \in SUBSET Items, NEW priority \in Priorities, NEW edges,
              EnqueueProposedRoots(S, priority, edges)
       PROVE  Effect
  <2>1. \A i \in S : item[i].status = "absent"
    BY <1>17 DEF EnqueueProposedRoots, RootAccepted, Exists
  <2>2. item' = [i \in Items |-> IF i \in S THEN NewItem(i, FALSE, priority, edges[i], 0, i, 0)
                                            ELSE item[i]]
    BY <1>17 DEF EnqueueProposedRoots
  <2>3. Appear(S) /\ KeptOutside(S)
    <3>1. ASSUME NEW j \in S PROVE item'[j].status = "queued" /\ item'[j].token = 0
      <4>1. item'[j] = NewItem(j, FALSE, priority, edges[j], 0, j, 0) BY <2>2
      <4> QED BY <4>1 DEF NewItem, Absent
    <3> QED BY <2>1, <2>2, <3>1 DEF Appear, KeptOutside, SameLease
  <2>4. Opens(S) BY <1>17, <2>3 DEF Opens, EnqueueProposedRoots
  <2> QED BY <2>4 DEF Effect
<1>18. ASSUME NEW i \in Items, NEW refs \in Edges[i], ReplaceProposedPredecessors(i, refs)
       PROVE  Effect
  <2>1. refs \in SUBSET SourceRefs BY DefinitionAssumption
  <2>2. PICK row : row = [item[i] EXCEPT !.predecessors = refs] OBVIOUS
  <2>3. /\ row \in ItemRow /\ row.status = item[i].status /\ row.token = item[i].token
        /\ row.owner = item[i].owner
    BY <1>row, <2>1, <2>2 DEF ItemRow
  <2> QED BY <1>18, <1>idle, <2>2, <2>3 DEF ReplaceProposedPredecessors
<1>19. ASSUME NEW i \in Items, RetirePullRequestBoundWork(i) PROVE Effect
  <2>1. item[i].status \in {"queued", "blocked"}
    BY <1>19, <1>row, QueuedStatus DEF RetirePullRequestBoundWork
  <2>2. PICK row : row = [Unleased(item[i]) EXCEPT !.status = "cancelled", !.result = "cancelled"]
    OBVIOUS
  <2>3. row \in ItemRow /\ row.status = "cancelled" /\ row.token = 0
    BY <1>row, <2>2, ClearedRow DEF Statuses, Results
  <2> QED BY <1>19, <1>settle, <2>1, <2>2, <2>3 DEF RetirePullRequestBoundWork
<1>20. ASSUME NEW i \in Items, RecordArtifactVerification(i) PROVE Effect
  <2>1. PICK delivery \in Deliveries(item[i].reported) : Put(i, [item[i] EXCEPT !.result = delivery])
    BY <1>20 DEF RecordArtifactVerification
  <2>2. PICK row : row = [item[i] EXCEPT !.result = delivery] OBVIOUS
  <2>3. /\ row \in ItemRow /\ row.status = item[i].status /\ row.token = item[i].token
        /\ row.owner = item[i].owner
    BY <1>row, <2>2 DEF ItemRow, Results, Deliveries
  <2> QED BY <1>20, <1>idle, <2>1, <2>2, <2>3 DEF RecordArtifactVerification
<1>21. CASE Tick
  BY <1>0, <1>21, <1>same DEF Tick
<1>22. CASE UNCHANGED vars
  BY <1>0, <1>22, <1>same DEF vars
<1>23. CASE WorkerCall
  BY <1>23, <1>1, <1>2, <1>3, <1>4, <1>5 DEF WorkerCall
<1>24. CASE OperatorCall
  BY <1>24, <1>6, <1>7, <1>8, <1>9, <1>10, <1>11, <1>12, <1>13, <1>14 DEF OperatorCall
<1>25. CASE Intake
  BY <1>25, <1>15, <1>16, <1>17, <1>18 DEF Intake
<1>26. CASE Sweep
  BY <1>26, <1>19, <1>20 DEF Sweep
<1> QED BY <1>21, <1>22, <1>23, <1>24, <1>25, <1>26 DEF Next

----------------------------------------------------------------------------
(* Fencing.  HistoryFenced is the part of the invariant about one item:    *)
(* its row, its events and the clock.  It says more than AttemptsFenced:   *)
(* no event ends in the future, and an open attempt was opened by the      *)
(* worker that owns the row.                                               *)

PairsFenced(h) ==
  \A k \in 1 .. Len(h) :
    /\ h[k].type = "claimed" <=> k % 2 = 1
    /\ k % 2 = 0 /\ h[k].actor \in Workers => /\ h[k].grant = h[k - 1].grant
                                              /\ h[k].actor = h[k - 1].actor
    /\ k > 1 => h[k - 1].ended <= h[k].at

EndedBy(h, time) == \A k \in 1 .. Len(h) : h[k].ended <= time

LastMatches(row, h) ==
  /\ row.status = "claimed" <=> Len(h) % 2 = 1
  /\ row.status = "claimed" => /\ h[Len(h)].grant = row.token
                               /\ h[Len(h)].actor = row.owner

HistoryFenced(row, h, time) == PairsFenced(h) /\ EndedBy(h, time) /\ LastMatches(row, h)

Fencing == \A i \in Items : HistoryFenced(item[i], ledger[i], now)

(* The invariant contains the property.                                    *)
LEMMA FencingImplies ==
  ASSUME ledger \in [Items -> Seq(EventRow)], Fencing PROVE AttemptsFenced
<1> SUFFICES ASSUME NEW i \in Items
             PROVE  /\ \A k \in DOMAIN ledger[i] :
                         /\ ledger[i][k].type = "claimed" <=> k % 2 = 1
                         /\ k % 2 = 0 /\ ledger[i][k].actor \in Workers =>
                              /\ ledger[i][k].grant = ledger[i][k - 1].grant
                              /\ ledger[i][k].actor = ledger[i][k - 1].actor
                         /\ k > 1 => ledger[i][k - 1].ended <= ledger[i][k].at
                    /\ item[i].status = "claimed" <=> Len(ledger[i]) % 2 = 1
                    /\ item[i].status = "claimed" => ledger[i][Len(ledger[i])].grant = item[i].token
  BY Zenon DEF AttemptsFenced
<1>1. HistoryFenced(item[i], ledger[i], now) BY DEF Fencing
<1>2. DOMAIN ledger[i] = 1 .. Len(ledger[i]) BY LenProperties
<1> QED BY <1>1, <1>2 DEF HistoryFenced, PairsFenced, LastMatches

(* Two events written at once are two appended in turn.                    *)
LEMMA AppendTwo ==
  ASSUME NEW T, NEW h \in Seq(T), NEW a \in T, NEW b \in T
  PROVE  h \o <<a, b>> = Append(Append(h, a), b)
OBVIOUS

(* A claim opens an attempt.                                               *)
LEMMA AttemptOpens ==
  ASSUME NEW h \in Seq(EventRow), NEW e \in EventRow, NEW time \in Nat, NEW row, NEW row2,
         HistoryFenced(row, h, time), row.status # "claimed",
         e.type = "claimed", e.at = time, e.ended = time,
         row2.status = "claimed", row2.token = e.grant, row2.owner = e.actor
  PROVE  HistoryFenced(row2, Append(h, e), time)
<1>1. PICK n \in Nat : n = Len(h) BY LenProperties
<1>2. PICK g : g = Append(h, e) OBVIOUS
<1>3. /\ g \in Seq(EventRow) /\ Len(g) = n + 1 /\ g[n + 1] = e
      /\ \A k \in 1 .. n : g[k] = h[k]
  BY <1>1, <1>2, AppendProperties
<1>4. n % 2 = 0 /\ (n + 1) % 2 = 1 BY <1>1 DEF HistoryFenced, LastMatches
<1>5. EndedBy(g, time) BY <1>1, <1>3 DEF HistoryFenced, EndedBy
<1>6. \A k \in 1 .. n :
        /\ h[k].type = "claimed" <=> k % 2 = 1
        /\ k % 2 = 0 /\ h[k].actor \in Workers => /\ h[k].grant = h[k - 1].grant
                                                  /\ h[k].actor = h[k - 1].actor
        /\ k > 1 => h[k - 1].ended <= h[k].at
  BY <1>1 DEF HistoryFenced, PairsFenced
<1>7. ASSUME n > 0 PROVE h[n].ended <= time
  BY <1>1, <1>7 DEF HistoryFenced, EndedBy
<1>8. ASSUME NEW k \in 1 .. n + 1
      PROVE  /\ g[k].type = "claimed" <=> k % 2 = 1
             /\ k % 2 = 0 /\ g[k].actor \in Workers => /\ g[k].grant = g[k - 1].grant
                                                       /\ g[k].actor = g[k - 1].actor
             /\ k > 1 => g[k - 1].ended <= g[k].at
  <2>1. CASE k \in 1 .. n
    <3>1. k > 1 => k - 1 \in 1 .. n BY <2>1
    <3>2. k % 2 = 0 => k > 1 BY <2>1
    <3> QED BY <1>3, <1>6, <2>1, <3>1, <3>2
  <2>2. CASE k = n + 1
    <3>1. k > 1 => n > 0 /\ k - 1 \in 1 .. n /\ k - 1 = n BY <1>1, <2>2
    <3> QED BY <1>3, <1>4, <1>7, <2>2, <3>1
  <2> QED BY <1>1, <2>1, <2>2
<1>9. PairsFenced(g) BY <1>3, <1>8 DEF PairsFenced
<1>10. LastMatches(row2, g) BY <1>3, <1>4 DEF LastMatches
<1> QED BY <1>2, <1>5, <1>9, <1>10 DEF HistoryFenced

(* The owner's end, or anyone else's, closes the attempt that is open.     *)
LEMMA AttemptCloses ==
  ASSUME NEW h \in Seq(EventRow), NEW e \in EventRow, NEW time \in Nat, NEW row, NEW row2,
         HistoryFenced(row, h, time), row.status = "claimed",
         e.type # "claimed", e.at = time, e.ended <= time,
         e.actor \in Workers => e.grant = row.token /\ e.actor = row.owner,
         row2.status # "claimed"
  PROVE  HistoryFenced(row2, Append(h, e), time)
<1>1. PICK n \in Nat : n = Len(h) BY LenProperties
<1>2. PICK g : g = Append(h, e) OBVIOUS
<1>3. /\ g \in Seq(EventRow) /\ Len(g) = n + 1 /\ g[n + 1] = e
      /\ \A k \in 1 .. n : g[k] = h[k]
  BY <1>1, <1>2, AppendProperties
<1>4. n % 2 = 1 /\ (n + 1) % 2 = 0 /\ n > 0 BY <1>1 DEF HistoryFenced, LastMatches
<1>5. EndedBy(g, time) BY <1>1, <1>3 DEF HistoryFenced, EndedBy
<1>6. \A k \in 1 .. n :
        /\ h[k].type = "claimed" <=> k % 2 = 1
        /\ k % 2 = 0 /\ h[k].actor \in Workers => /\ h[k].grant = h[k - 1].grant
                                                  /\ h[k].actor = h[k - 1].actor
        /\ k > 1 => h[k - 1].ended <= h[k].at
  BY <1>1 DEF HistoryFenced, PairsFenced
<1>7. h[n].ended <= time /\ h[n].grant = row.token /\ h[n].actor = row.owner
  BY <1>1, <1>4 DEF HistoryFenced, EndedBy, LastMatches
<1>8. ASSUME NEW k \in 1 .. n + 1
      PROVE  /\ g[k].type = "claimed" <=> k % 2 = 1
             /\ k % 2 = 0 /\ g[k].actor \in Workers => /\ g[k].grant = g[k - 1].grant
                                                       /\ g[k].actor = g[k - 1].actor
             /\ k > 1 => g[k - 1].ended <= g[k].at
  <2>1. CASE k \in 1 .. n
    <3>1. k > 1 => k - 1 \in 1 .. n BY <2>1
    <3>2. k % 2 = 0 => k > 1 BY <2>1
    <3> QED BY <1>3, <1>6, <2>1, <3>1, <3>2
  <2>2. CASE k = n + 1
    <3>1. k - 1 \in 1 .. n /\ k - 1 = n BY <1>1, <1>4, <2>2
    <3>2. g[k - 1] = h[n] /\ g[k] = e BY <1>3, <2>2, <3>1
    <3> QED BY <1>4, <1>7, <2>2, <3>2
  <2> QED BY <1>1, <2>1, <2>2
<1>9. PairsFenced(g) BY <1>3, <1>8 DEF PairsFenced
<1>10. LastMatches(row2, g) BY <1>3, <1>4 DEF LastMatches
<1> QED BY <1>2, <1>5, <1>9, <1>10 DEF HistoryFenced

(* Time passing, and a row whose lease stays, keep a history fenced.       *)
LEMMA AttemptStays ==
  ASSUME NEW h \in Seq(EventRow), NEW time \in Nat, NEW later \in Nat, time <= later, NEW row, NEW row2,
         HistoryFenced(row, h, time),
         \/ row2.status = row.status /\ row2.token = row.token /\ row2.owner = row.owner
         \/ row.status # "claimed" /\ row2.status # "claimed"
  PROVE  HistoryFenced(row2, h, later)
<1>1. ASSUME NEW k \in 1 .. Len(h) PROVE h[k].ended \in Nat
  <2>1. h[k] \in EventRow BY ElementOfSeq
  <2> QED BY <2>1 DEF EventRow
<1>2. EndedBy(h, later) BY <1>1 DEF HistoryFenced, EndedBy
<1>3. LastMatches(row2, h) BY DEF HistoryFenced, LastMatches
<1> QED BY <1>2, <1>3 DEF HistoryFenced

(* The same while the clock rests.                                         *)
LEMMA AttemptRests ==
  ASSUME NEW h, NEW time, NEW row, NEW row2, HistoryFenced(row, h, time),
         \/ row2.status = row.status /\ row2.token = row.token /\ row2.owner = row.owner
         \/ row.status # "claimed" /\ row2.status # "claimed"
  PROVE  HistoryFenced(row2, h, time)
BY DEF HistoryFenced, LastMatches

(* Every step keeps every history fenced.                                  *)
LEMMA FencingStep == TypeOK /\ LeaseRowSound /\ Fencing /\ [Next]_vars => Fencing'
<1> SUFFICES ASSUME TypeOK, LeaseRowSound, Fencing, [Next]_vars PROVE Fencing'
  OBVIOUS
<1>0. /\ item \in [Items -> ItemRow] /\ now \in Nat /\ ledger \in [Items -> Seq(EventRow)]
      /\ grants \in Seq([item : Items, worker : Workers])
  BY DEF TypeOK
<1>f. \A j \in Items : HistoryFenced(item[j], ledger[j], now) /\ ledger[j] \in Seq(EventRow)
  BY <1>0 DEF Fencing
<1>1. Effect BY Effects
<1>goal. ASSUME \A j \in Items : HistoryFenced(item'[j], ledger'[j], now') PROVE Fencing'
  BY <1>goal DEF Fencing
<1>kept. ASSUME NEW j \in Items, SameLease(j), ledger'[j] = ledger[j], now' = now
         PROVE  HistoryFenced(item'[j], ledger'[j], now')
  <2>1. HistoryFenced(item'[j], ledger[j], now)
    BY <1>f, <1>kept, AttemptRests DEF SameLease
  <2> QED BY <1>kept, <2>1
<1>appear. ASSUME NEW S, NEW j \in S, j \in Items, Appear(S), ledger'[j] = ledger[j], now' = now
           PROVE  HistoryFenced(item'[j], ledger'[j], now')
  <2>1. item[j].status # "claimed" /\ item'[j].status # "claimed" BY <1>appear DEF Appear
  <2>2. HistoryFenced(item'[j], ledger[j], now) BY <1>f, <1>appear, <2>1, AttemptRests
  <2> QED BY <1>appear, <2>2
<1>2. CASE Idles
  <2>1. ASSUME NEW j \in Items PROVE HistoryFenced(item'[j], ledger'[j], now')
    <3>1. /\ item'[j].status = item[j].status /\ item'[j].token = item[j].token
          /\ item'[j].owner = item[j].owner /\ ledger'[j] = ledger[j]
          /\ now' \in Nat /\ now <= now'
      BY <1>2 DEF Idles, KeptOutside, SameLease
    <3> QED BY <1>0, <1>f, <3>1, AttemptStays
  <2> QED BY <2>1, <1>goal
<1>3. ASSUME NEW S \in SUBSET Items, Opens(S) PROVE Fencing'
  <2>1. ASSUME NEW j \in Items PROVE HistoryFenced(item'[j], ledger'[j], now')
    <3>1. CASE j \in S BY <1>3, <1>appear, <3>1 DEF Opens
    <3>2. CASE j \notin S BY <1>3, <1>kept, <3>2 DEF Opens, KeptOutside
    <3> QED BY <3>1, <3>2
  <2> QED BY <2>1, <1>goal
<1>4. ASSUME NEW i \in Items, NEW w \in Workers, Leases(i, w) PROVE Fencing'
  <2>1. PICK claimed \in EventRow :
          /\ claimed = Event("claimed", w, Len(grants) + 1)
          /\ claimed.type = "claimed" /\ claimed.at = now /\ claimed.ended = now
          /\ claimed.grant = Len(grants) + 1 /\ claimed.actor = w
    <3>1. Event("claimed", w, Len(grants) + 1) \in EventRow BY <1>0, EventType
    <3> QED BY <3>1 DEF Event
  <2>2. /\ item'[i].status = "claimed" /\ item'[i].token = claimed.grant /\ item'[i].owner = claimed.actor
        /\ now' = now /\ Claimable(i)
        /\ \A j \in Items : j # i => SameLease(j) /\ ledger'[j] = ledger[j]
    BY <1>0, <1>4, <2>1, ClaimChoicesClaimable DEF Leases, KeptOutside
  <2>3. HistoryFenced(item'[i], ledger'[i], now)
    <3>1. CASE item[i].status = "claimed"
      <4>1. PICK lapsed \in EventRow :
              /\ lapsed = Lapsed(i) /\ lapsed.type = "expired" /\ lapsed.at = now
              /\ lapsed.ended = item[i].expires /\ lapsed.actor = "system"
        <5>1. Event("expired", "system", 0) \in EventRow BY <1>0, EventType
        <5>2. item[i].expires \in Nat BY <1>0 DEF ItemRow
        <5>3. Lapsed(i) \in EventRow BY <5>1, <5>2 DEF Lapsed, EventRow
        <5> QED BY <5>3 DEF Lapsed, Event
      <4>2. item[i].expires <= now BY <2>2, <3>1 DEF Claimable
      <4>3. PICK h \in Seq(EventRow) : h = Append(ledger[i], lapsed)
        BY <1>f, <4>1, AppendProperties
      <4>4. PICK free : free = [status |-> "queued"] OBVIOUS
      <4>5. HistoryFenced(free, h, now)
        <5>1. "system" \notin Workers BY PrincipalsAssumption
        <5>2. free.status # "claimed" BY <4>4
        <5>3. HistoryFenced(item[i], ledger[i], now) /\ ledger[i] \in Seq(EventRow) BY <1>f
        <5>4. lapsed.type # "claimed" BY <4>1
        <5> QED BY <1>0, <3>1, <4>1, <4>2, <4>3, <5>1, <5>2, <5>3, <5>4, AttemptCloses
      <4>6. ledger'[i] = Append(h, claimed)
        <5>1. ledger'[i] = ledger[i] \o <<lapsed, claimed>>
          BY <1>0, <1>4, <2>1, <3>1, <4>1 DEF Leases
        <5>2. ledger[i] \in Seq(EventRow) BY <1>f
        <5> QED BY <2>1, <4>1, <4>3, <5>1, <5>2, AppendTwo
      <4>7. free.status # "claimed" BY <4>4
      <4> QED BY <1>0, <2>1, <2>2, <4>5, <4>6, <4>7, AttemptOpens
    <3>2. CASE item[i].status # "claimed"
      <4>1. ledger'[i] = Append(ledger[i], claimed)
        BY <1>0, <1>4, <2>1, <3>2 DEF Leases
      <4> QED BY <1>0, <1>f, <2>1, <2>2, <3>2, <4>1, AttemptOpens
    <3> QED BY <3>1, <3>2
  <2>4. ASSUME NEW j \in Items PROVE HistoryFenced(item'[j], ledger'[j], now')
    BY <1>kept, <2>2, <2>3
  <2> QED BY <2>4, <1>goal
<1>5. ASSUME NEW i \in Items, NEW e \in EventRow, NEW S \in SUBSET Items, Ends(i, e, S) PROVE Fencing'
  <2>1. /\ e.type # "claimed" /\ e.at = now /\ e.ended = now
        /\ e.actor \in Workers => e.grant = item[i].token /\ e.actor = item[i].owner
    BY <1>5, PrincipalsAssumption DEF Ends, Event, OperatorActors
  <2>2. /\ item[i].status = "claimed" /\ item'[i].status # "claimed" /\ now' = now
        /\ ledger'[i] = Append(ledger[i], e)
        /\ \A j \in Items : j # i => ledger'[j] = ledger[j]
        /\ \A j \in Items : j # i /\ j \notin S => SameLease(j)
        /\ Appear(S)
    BY <1>0, <1>5 DEF Ends, AddEvent, KeptOutside
  <2>3. HistoryFenced(item'[i], ledger'[i], now)
    BY <1>0, <1>f, <2>1, <2>2, AttemptCloses
  <2>4. ASSUME NEW j \in Items PROVE HistoryFenced(item'[j], ledger'[j], now')
    <3>1. CASE j = i BY <2>2, <2>3, <3>1
    <3>2. CASE j # i /\ j \in S BY <1>appear, <2>2, <3>2
    <3>3. CASE j # i /\ j \notin S BY <1>kept, <2>2, <3>3
    <3> QED BY <3>1, <3>2, <3>3
  <2> QED BY <2>4, <1>goal
<1>6. ASSUME NEW i \in Items, Settles(i) PROVE Fencing'
  <2>1. ASSUME NEW j \in Items PROVE HistoryFenced(item'[j], ledger'[j], now')
    <3>1. CASE j = i
      <4>1. item[i].status # "claimed" /\ item'[i].status # "claimed" /\ now' = now /\ ledger' = ledger
        BY <1>6 DEF Settles
      <4>2. HistoryFenced(item'[i], ledger[i], now) BY <1>f, <4>1, AttemptRests
      <4> QED BY <3>1, <4>1, <4>2
    <3>2. CASE j # i BY <1>6, <1>kept, <3>2 DEF Settles, KeptOutside
    <3> QED BY <3>1, <3>2
  <2> QED BY <2>1, <1>goal
<1> QED BY <1>1, <1>2, <1>3, <1>4, <1>5, <1>6 DEF Effect

(* Work-queue spec rules 4, 5 and 67: attempts on an item never overlap,   *)
(* every claim opens one, exactly one event closes it, and a worker closes *)
(* only the attempt its own grant opened.                                  *)
THEOREM AttemptsAreFenced == Spec => []AttemptsFenced
<1>1. Init => Fencing
  <2> SUFFICES ASSUME Init PROVE Fencing OBVIOUS
  <2>1. ASSUME NEW i \in Items PROVE HistoryFenced(item[i], ledger[i], now)
    <3>1. item[i].status = "absent" /\ ledger[i] = <<>> BY DEF Init, Absent
    <3>2. Len(ledger[i]) = 0 BY <3>1
    <3> QED BY <3>1, <3>2 DEF HistoryFenced, PairsFenced, EndedBy, LastMatches
  <2> QED BY <2>1 DEF Fencing
<1>2. TypeOK /\ Fencing => AttemptsFenced BY FencingImplies DEF TypeOK
<1> QED BY <1>1, <1>2, FencingStep, TypeCorrect, LeasesSound, PTL DEF Spec

----------------------------------------------------------------------------
(* The queue implements fenced work.                                       *)

PhaseAt(row) ==
  CASE row.status = "absent" -> "none"
    [] row.status \in {"completed", "cancelled"} -> "done"
    [] OTHER -> "open"

FinisherAt(row, h) == IF row.status = "completed" THEN h[Len(h)].grant ELSE 0

(* The abstract state, as the refinement mapping gives it.                 *)
PhaseMap == [i \in Items |-> PhaseAt(item[i])]
HolderMap == [i \in Items |-> item[i].token]
FinisherMap == [i \in Items |-> FinisherAt(item[i], ledger[i])]

(* A row whose lease and events stay maps to what it mapped to.            *)
LEMMA MapsKept ==
  ASSUME NEW j \in Items, SameLease(j), ledger'[j] = ledger[j]
  PROVE  /\ PhaseAt(item'[j]) = PhaseAt(item[j]) /\ item'[j].token = item[j].token
         /\ FinisherAt(item'[j], ledger'[j]) = FinisherAt(item[j], ledger[j])
BY DEF SameLease, PhaseAt, FinisherAt

(* Every step of the queue is a step of fenced work, or none.              *)
LEMMA FencedStep ==
  ASSUME TypeOK, LeaseRowSound, [Next]_vars PROVE [Fenced!Next]_(Fenced!vars)
<1>0. /\ item \in [Items -> ItemRow] /\ ledger \in [Items -> Seq(EventRow)]
      /\ grants \in Seq([item : Items, worker : Workers])
  BY DEF TypeOK
<1>1. Effect BY Effects
<1>unleased. ASSUME NEW i \in Items, item[i].status # "claimed" PROVE item[i].token = 0
  BY <1>unleased DEF LeaseRowSound
<1>leased. ASSUME NEW i \in Items, item[i].status = "claimed" PROVE item[i].token # 0
  BY <1>leased DEF LeaseRowSound
<1>2. CASE Idles
  <2>1. \A j \in Items : SameLease(j) /\ ledger'[j] = ledger[j] BY <1>2 DEF Idles, KeptOutside
  <2>2. PhaseMap' = PhaseMap /\ HolderMap' = HolderMap /\ FinisherMap' = FinisherMap
    BY <2>1, MapsKept DEF PhaseMap, HolderMap, FinisherMap
  <2>3. Len(grants)' = Len(grants) BY <1>2 DEF Idles
  <2>4. UNCHANGED Fenced!vars
    BY <2>2, <2>3 DEF Fenced!vars, PhaseMap, HolderMap, FinisherMap, PhaseAt, FinisherAt
  <2> QED BY <2>4
<1>3. ASSUME NEW S \in SUBSET Items, Opens(S) PROVE Fenced!Next
  <2>1. \A j \in Items \ S : SameLease(j) /\ ledger'[j] = ledger[j]
    BY <1>3 DEF Opens, KeptOutside
  <2>2. \A j \in S : /\ PhaseAt(item[j]) = "none" /\ PhaseAt(item'[j]) = "open"
                     /\ item'[j].token = item[j].token
                     /\ FinisherAt(item'[j], ledger'[j]) = FinisherAt(item[j], ledger[j])
    BY <1>3, <1>unleased DEF Opens, Appear, PhaseAt, FinisherAt
  <2>3. HolderMap' = HolderMap /\ FinisherMap' = FinisherMap
    BY <2>1, <2>2, MapsKept DEF HolderMap, FinisherMap
  <2>4. PhaseMap' = [j \in Items |-> IF j \in S THEN "open" ELSE PhaseMap[j]]
    BY <2>1, <2>2, MapsKept DEF PhaseMap
  <2>5. \A j \in S : PhaseMap[j] = "none" BY <2>2 DEF PhaseMap
  <2>6. Len(grants)' = Len(grants) BY <1>3 DEF Opens
  <2>7. Fenced!Open(S)
    BY <2>3, <2>4, <2>5, <2>6
       DEF Fenced!Open, Fenced!Opened, PhaseMap, HolderMap, FinisherMap, PhaseAt, FinisherAt
  <2> QED BY <2>7 DEF Fenced!Next
<1>4. ASSUME NEW i \in Items, NEW w \in Workers, Leases(i, w) PROVE Fenced!Next
  <2>1. \A j \in Items \ {i} : SameLease(j) /\ ledger'[j] = ledger[j]
    BY <1>0, <1>4 DEF Leases, KeptOutside
  <2>2. Claimable(i) BY <1>4, ClaimChoicesClaimable DEF Leases
  <2>3. /\ PhaseAt(item[i]) = "open" /\ PhaseAt(item'[i]) = "open"
        /\ item'[i].token = Len(grants) + 1
        /\ FinisherAt(item[i], ledger[i]) = 0 /\ FinisherAt(item'[i], ledger'[i]) = 0
    BY <1>4, <2>2 DEF Leases, Claimable, PhaseAt, FinisherAt
  <2>4. PhaseMap' = PhaseMap /\ FinisherMap' = FinisherMap
    BY <2>1, <2>3, MapsKept DEF PhaseMap, FinisherMap
  <2>5. HolderMap' = [HolderMap EXCEPT ![i] = Len(grants) + 1]
    BY <2>1, <2>3, MapsKept DEF HolderMap
  <2>6. Len(grants)' = Len(grants) + 1
    <3>1. [item |-> i, worker |-> w] \in [item : Items, worker : Workers] OBVIOUS
    <3> QED BY <1>0, <1>4, <3>1 DEF Leases
  <2>7. PhaseMap[i] = "open" BY <2>3 DEF PhaseMap
  <2>8. Fenced!Grant(i)
    BY <2>4, <2>5, <2>6, <2>7
       DEF Fenced!Grant, PhaseMap, HolderMap, FinisherMap, PhaseAt, FinisherAt
  <2> QED BY <2>8 DEF Fenced!Next
<1>5. ASSUME NEW i \in Items, NEW e \in EventRow, NEW S \in SUBSET Items, Ends(i, e, S)
      PROVE  Fenced!Next
  <2>1. \A j \in Items \ ({i} \cup S) : SameLease(j) /\ ledger'[j] = ledger[j]
    BY <1>0, <1>5 DEF Ends, KeptOutside, AddEvent
  <2>2. /\ item[i].status = "claimed" /\ item'[i].token = 0 /\ item[i].token # 0
        /\ PhaseAt(item[i]) = "open" /\ FinisherAt(item[i], ledger[i]) = 0
        /\ i \notin S
    BY <1>5, <1>leased DEF Ends, Appear, PhaseAt, FinisherAt
  <2>3. \A j \in S : /\ PhaseAt(item[j]) = "none" /\ PhaseAt(item'[j]) = "open"
                     /\ item'[j].token = item[j].token
                     /\ FinisherAt(item'[j], ledger'[j]) = FinisherAt(item[j], ledger[j])
    BY <1>5, <1>unleased DEF Ends, Appear, PhaseAt, FinisherAt
  <2>4. HolderMap' = [HolderMap EXCEPT ![i] = 0]
    BY <2>1, <2>2, <2>3, MapsKept DEF HolderMap
  <2>5. Len(grants)' = Len(grants) BY <1>5 DEF Ends
  <2>6. HolderMap[i] = item[i].token /\ PhaseMap[i] = "open" BY <2>2 DEF HolderMap, PhaseMap
  <2>7. CASE item'[i].status = "completed"
    <3>1. e.grant = item[i].token BY <1>5, <2>7 DEF Ends, Event
    <3>2. FinisherAt(item'[i], ledger'[i]) = item[i].token
      <4>1. ledger'[i] = Append(ledger[i], e) /\ ledger[i] \in Seq(EventRow)
        BY <1>0, <1>5 DEF Ends, AddEvent
      <4>2. ledger'[i][Len(ledger'[i])] = e BY <4>1, AppendProperties
      <4> QED BY <2>7, <3>1, <4>2 DEF FinisherAt
    <3>3. PhaseAt(item'[i]) = "done" BY <2>7 DEF PhaseAt
    <3>4. FinisherMap' = [FinisherMap EXCEPT ![i] = HolderMap[i]]
      BY <2>1, <2>3, <2>6, <3>2, MapsKept DEF FinisherMap
    <3>5. PhaseMap' = [[j \in Items |-> IF j \in S THEN "open" ELSE PhaseMap[j]] EXCEPT ![i] = "done"]
      BY <2>1, <2>3, <3>3, MapsKept DEF PhaseMap
    <3>6. \A j \in S : PhaseMap[j] = "none" BY <2>3 DEF PhaseMap
    <3>7. Fenced!Finish(i, S)
      BY <2>2, <2>4, <2>5, <2>6, <3>4, <3>5, <3>6
         DEF Fenced!Finish, Fenced!Opened, PhaseMap, HolderMap, FinisherMap, PhaseAt, FinisherAt
    <3> QED BY <3>7 DEF Fenced!Next
  <2>8. CASE item'[i].status # "completed"
    <3>1. S = {} /\ PhaseAt(item'[i]) = "open" /\ FinisherAt(item'[i], ledger'[i]) = 0
      BY <1>5, <2>8 DEF Ends, PhaseAt, FinisherAt
    <3>2. PhaseMap' = PhaseMap /\ FinisherMap' = FinisherMap
      BY <2>1, <2>2, <3>1, MapsKept DEF PhaseMap, FinisherMap
    <3>3. Fenced!Yield(i)
      BY <2>2, <2>4, <2>5, <2>6, <3>2
         DEF Fenced!Yield, PhaseMap, HolderMap, FinisherMap, PhaseAt, FinisherAt
    <3> QED BY <3>3 DEF Fenced!Next
  <2> QED BY <2>7, <2>8
<1>6. ASSUME NEW i \in Items, Settles(i) PROVE [Fenced!Next]_(Fenced!vars)
  <2>1. \A j \in Items \ {i} : SameLease(j) /\ ledger'[j] = ledger[j]
    BY <1>6 DEF Settles, KeptOutside
  <2>2. /\ item[i].status \in {"queued", "blocked"} /\ PhaseAt(item[i]) = "open"
        /\ item[i].token = 0 /\ item'[i].token = 0
        /\ FinisherAt(item[i], ledger[i]) = 0 /\ FinisherAt(item'[i], ledger'[i]) = 0
    BY <1>6, <1>unleased DEF Settles, PhaseAt, FinisherAt
  <2>3. HolderMap' = HolderMap /\ FinisherMap' = FinisherMap
    BY <2>1, <2>2, MapsKept DEF HolderMap, FinisherMap
  <2>4. Len(grants)' = Len(grants) BY <1>6 DEF Settles
  <2>5. CASE item'[i].status = "queued"
    <3>1. PhaseAt(item'[i]) = "open" BY <2>5 DEF PhaseAt
    <3>2. PhaseMap' = PhaseMap BY <2>1, <2>2, <3>1, MapsKept DEF PhaseMap
    <3>3. UNCHANGED Fenced!vars
      BY <2>3, <2>4, <3>2 DEF Fenced!vars, PhaseMap, HolderMap, FinisherMap, PhaseAt, FinisherAt
    <3> QED BY <3>3
  <2>6. CASE item'[i].status = "cancelled"
    <3>1. PhaseAt(item'[i]) = "done" BY <2>6 DEF PhaseAt
    <3>2. PhaseMap' = [PhaseMap EXCEPT ![i] = "done"] BY <2>1, <2>2, <3>1, MapsKept DEF PhaseMap
    <3>3. PhaseMap[i] = "open" /\ HolderMap[i] = 0 BY <2>2 DEF PhaseMap, HolderMap
    <3>4. Fenced!Withdraw(i)
      BY <2>3, <2>4, <3>2, <3>3
         DEF Fenced!Withdraw, PhaseMap, HolderMap, FinisherMap, PhaseAt, FinisherAt
    <3> QED BY <3>4 DEF Fenced!Next
  <2> QED BY <1>6, <2>5, <2>6 DEF Settles
<1> QED BY <1>1, <1>2, <1>3, <1>4, <1>5, <1>6 DEF Effect

(* An empty queue is fenced work that has not begun.                       *)
LEMMA FencedInit == Init => Fenced!Init
<1> SUFFICES ASSUME Init PROVE Fenced!Init OBVIOUS
<1>1. \A i \in Items : item[i].status = "absent" /\ item[i].token = 0 BY DEF Init, Absent
<1>2. Len(grants) = 0 BY DEF Init
<1> QED BY <1>1, <1>2 DEF Fenced!Init

(* The queue implements fenced work: an item has at most one current grant, *)
(* a newer grant supersedes the older, and what is finished was finished   *)
(* under the grant that was current then and is never worked on again.     *)
THEOREM ImplementsFencedWork == Spec => FencedSpec
<1>1. TypeOK /\ LeaseRowSound /\ [Next]_vars => [Fenced!Next]_(Fenced!vars) BY FencedStep
<1> QED BY <1>1, FencedInit, TypeCorrect, LeasesSound, PTL DEF Spec, FencedSpec, Fenced!Spec

----------------------------------------------------------------------------
(* The release backoff.  Counted is CountedReleases of a history at a      *)
(* time; the invariant says in addition that an item that is claimed still *)
(* has room for the release that may end its attempt.                      *)

Counted(h, time) ==
  {k \in DOMAIN h : /\ h[k].type = "released"
                    /\ h[k].actor # "operator"
                    /\ h[k].at + BackoffWindow > time}

ChurnSound(row, h, time) ==
  /\ Cardinality(Counted(h, time)) <= BackoffReleases
  /\ row.status = "claimed" => Cardinality(Counted(h, time)) < BackoffReleases

RoomToRelease == \A i \in Items : ChurnSound(item[i], ledger[i], now)

LEMMA CountedFinite ==
  ASSUME NEW h \in Seq(EventRow), NEW time
  PROVE  /\ IsFiniteSet(Counted(h, time)) /\ Cardinality(Counted(h, time)) \in Nat
         /\ Counted(h, time) \subseteq 1 .. Len(h) /\ Len(h) \in Nat
<1>1. Len(h) \in Nat /\ DOMAIN h = 1 .. Len(h) BY LenProperties
<1>2. Counted(h, time) \subseteq 1 .. Len(h) BY <1>1 DEF Counted
<1>3. IsFiniteSet(1 .. Len(h)) BY <1>1, FS_Interval
<1>4. IsFiniteSet(Counted(h, time)) BY <1>2, <1>3, FS_Subset
<1> QED BY <1>1, <1>2, <1>4, FS_CardinalityType

(* As time passes releases leave the window and none enters it.            *)
LEMMA CountedLater ==
  ASSUME NEW h \in Seq(EventRow), NEW time \in Nat, NEW later \in Nat, time <= later
  PROVE  Cardinality(Counted(h, later)) <= Cardinality(Counted(h, time))
<1>1. ASSUME NEW k \in Counted(h, later) PROVE k \in Counted(h, time)
  <2>1. k \in 1 .. Len(h) BY CountedFinite
  <2>2. h[k] \in EventRow BY <2>1, ElementOfSeq
  <2>3. h[k].at \in Nat /\ BackoffWindow \in Nat BY <2>2, NumbersAssumption DEF EventRow
  <2> QED BY <1>1, <2>3 DEF Counted
<1>2. Counted(h, later) \subseteq Counted(h, time) BY <1>1
<1> QED BY <1>2, CountedFinite, FS_Subset

(* An event that is no release leaves the count alone.                     *)
LEMMA CountedOther ==
  ASSUME NEW h \in Seq(EventRow), NEW e \in EventRow, NEW time,
         e.type # "released"
  PROVE  Counted(Append(h, e), time) = Counted(h, time)
<1>1. PICK g \in Seq(EventRow) : g = Append(h, e) BY AppendProperties
<1>2. /\ Len(h) \in Nat /\ DOMAIN h = 1 .. Len(h) /\ DOMAIN g = 1 .. Len(h) + 1
      /\ g[Len(h) + 1] = e /\ \A k \in 1 .. Len(h) : g[k] = h[k]
  BY <1>1, AppendProperties, LenProperties
<1>3. \A k : k \in Counted(g, time) <=> k \in Counted(h, time)
  BY <1>2 DEF Counted
<1> QED BY <1>1, <1>3

(* A release adds at most one.                                             *)
LEMMA CountedOneMore ==
  ASSUME NEW h \in Seq(EventRow), NEW e \in EventRow, NEW time
  PROVE  Cardinality(Counted(Append(h, e), time)) <= Cardinality(Counted(h, time)) + 1
<1>1. PICK g \in Seq(EventRow) : g = Append(h, e) BY AppendProperties
<1>2. /\ Len(h) \in Nat /\ DOMAIN h = 1 .. Len(h) /\ DOMAIN g = 1 .. Len(h) + 1
      /\ \A k \in 1 .. Len(h) : g[k] = h[k]
  BY <1>1, AppendProperties, LenProperties
<1> DEFINE more == Counted(h, time) \cup {Len(h) + 1}
<1>3. Counted(g, time) \subseteq more BY <1>2 DEF Counted
<1>4. Len(h) + 1 \notin Counted(h, time) BY <1>2 DEF Counted
<1>5. IsFiniteSet(more) /\ Cardinality(more) = Cardinality(Counted(h, time)) + 1
  BY <1>4, CountedFinite, FS_AddElement
<1>6. Cardinality(Counted(g, time)) <= Cardinality(more)
  <2> HIDE DEF more
  <2> QED BY <1>3, <1>5, FS_Subset
<1> QED BY <1>1, <1>5, <1>6

(* Every step keeps room for the releases that may come.                   *)
LEMMA ChurnStep == TypeOK /\ LeaseRowSound /\ RoomToRelease /\ [Next]_vars => RoomToRelease'
<1> SUFFICES ASSUME TypeOK, LeaseRowSound, RoomToRelease, [Next]_vars PROVE RoomToRelease'
  OBVIOUS
<1>0. /\ item \in [Items -> ItemRow] /\ now \in Nat /\ ledger \in [Items -> Seq(EventRow)]
      /\ BackoffReleases \in Nat
  BY NumbersAssumption DEF TypeOK
<1>c. ASSUME NEW j \in Items
      PROVE  /\ ChurnSound(item[j], ledger[j], now) /\ ledger[j] \in Seq(EventRow)
             /\ Cardinality(Counted(ledger[j], now)) \in Nat
  BY <1>0, CountedFinite DEF RoomToRelease
<1>1. Effect BY Effects
<1>goal. ASSUME \A j \in Items : ChurnSound(item'[j], ledger'[j], now') PROVE RoomToRelease'
  BY <1>goal DEF RoomToRelease
<1>kept. ASSUME NEW j \in Items, ledger'[j] = ledger[j], now' = now,
                item'[j].status = "claimed" => item[j].status = "claimed"
         PROVE  ChurnSound(item'[j], ledger'[j], now')
  BY <1>c, <1>kept DEF ChurnSound
<1>2. CASE Idles
  <2>1. ASSUME NEW j \in Items PROVE ChurnSound(item'[j], ledger'[j], now')
    <3>1. item'[j].status = item[j].status /\ ledger'[j] = ledger[j] /\ now' \in Nat /\ now <= now'
      BY <1>2 DEF Idles, KeptOutside, SameLease
    <3>2. Cardinality(Counted(ledger[j], now')) <= Cardinality(Counted(ledger[j], now))
      BY <1>0, <1>c, <3>1, CountedLater
    <3>3. Cardinality(Counted(ledger[j], now')) \in Nat BY <1>c, CountedFinite
    <3> QED BY <1>0, <1>c, <3>1, <3>2, <3>3 DEF ChurnSound
  <2> QED BY <2>1, <1>goal
<1>3. ASSUME NEW S \in SUBSET Items, Opens(S) PROVE RoomToRelease'
  <2>1. ASSUME NEW j \in Items PROVE ChurnSound(item'[j], ledger'[j], now')
    BY <1>3, <1>kept DEF Opens, Appear, KeptOutside, SameLease
  <2> QED BY <2>1, <1>goal
<1>4. ASSUME NEW i \in Items, NEW w \in Workers, Leases(i, w) PROVE RoomToRelease'
  <2>1. PICK claimed \in EventRow :
          claimed = Event("claimed", w, Len(grants) + 1) /\ claimed.type = "claimed"
    <3>1. Len(grants) + 1 \in Nat BY DEF TypeOK
    <3>2. Event("claimed", w, Len(grants) + 1) \in EventRow BY <1>0, <3>1, EventType
    <3> QED BY <3>2 DEF Event
  <2>2. PICK lapsed \in EventRow : lapsed = Lapsed(i) /\ lapsed.type = "expired"
    <3>1. Event("expired", "system", 0) \in EventRow BY <1>0, EventType
    <3>2. item[i].expires \in Nat BY <1>0 DEF ItemRow
    <3>3. Lapsed(i) \in EventRow BY <3>1, <3>2 DEF Lapsed, EventRow
    <3> QED BY <3>3 DEF Lapsed, Event
  <2>3. /\ now' = now /\ Claimable(i)
        /\ \A j \in Items : j # i => SameLease(j) /\ ledger'[j] = ledger[j]
        /\ ledger'[i] = IF item[i].status = "claimed" THEN ledger[i] \o <<lapsed, claimed>>
                                                      ELSE Append(ledger[i], claimed)
    BY <1>0, <1>4, <2>1, <2>2, ClaimChoicesClaimable DEF Leases, KeptOutside
  <2>4. Cardinality(Counted(ledger[i], now)) < BackoffReleases
    BY <2>3 DEF Claimable, CountedReleases, Counted
  <2>5. Counted(ledger'[i], now) = Counted(ledger[i], now)
    <3>1. CASE item[i].status = "claimed"
      <4>1. PICK h \in Seq(EventRow) : h = Append(ledger[i], lapsed)
        BY <1>c, AppendProperties
      <4>2. ledger'[i] = Append(h, claimed)
        <5>1. ledger'[i] = ledger[i] \o <<lapsed, claimed>> BY <2>3, <3>1
        <5>2. ledger[i] \in Seq(EventRow) BY <1>c
        <5> QED BY <2>1, <2>2, <4>1, <5>1, <5>2, AppendTwo
      <4>3. Counted(h, now) = Counted(ledger[i], now) BY <1>c, <2>2, <4>1, CountedOther
      <4>4. Counted(Append(h, claimed), now) = Counted(h, now) BY <2>1, CountedOther
      <4> QED BY <4>2, <4>3, <4>4
    <3>2. CASE item[i].status # "claimed"
      <4>1. Counted(Append(ledger[i], claimed), now) = Counted(ledger[i], now)
        BY <1>c, <2>1, CountedOther
      <4> QED BY <2>3, <3>2, <4>1
    <3> QED BY <3>1, <3>2
  <2>6. ASSUME NEW j \in Items PROVE ChurnSound(item'[j], ledger'[j], now')
    <3>1. CASE j = i BY <1>0, <1>c, <2>3, <2>4, <2>5, <3>1 DEF ChurnSound
    <3>2. CASE j # i BY <1>kept, <2>3, <3>2 DEF SameLease
    <3> QED BY <3>1, <3>2
  <2> QED BY <2>6, <1>goal
<1>5. ASSUME NEW i \in Items, NEW e \in EventRow, NEW S \in SUBSET Items, Ends(i, e, S)
      PROVE  RoomToRelease'
  <2>1. /\ item[i].status = "claimed" /\ item'[i].status # "claimed" /\ now' = now
        /\ ledger'[i] = Append(ledger[i], e)
        /\ \A j \in Items : j # i => ledger'[j] = ledger[j]
        /\ \A j \in Items : j # i => (item'[j].status = "claimed" => item[j].status = "claimed")
    BY <1>0, <1>5 DEF Ends, AddEvent, KeptOutside, Appear, SameLease
  <2>2. Cardinality(Counted(ledger[i], now)) < BackoffReleases
    BY <1>c, <2>1 DEF ChurnSound
  <2>3. /\ Cardinality(Counted(Append(ledger[i], e), now)) <= Cardinality(Counted(ledger[i], now)) + 1
        /\ Cardinality(Counted(Append(ledger[i], e), now)) \in Nat
    <3>1. Append(ledger[i], e) \in Seq(EventRow) BY <1>c, AppendProperties
    <3> QED BY <1>c, <3>1, CountedOneMore, CountedFinite
  <2>s. Cardinality(Counted(ledger'[i], now)) <= BackoffReleases
    <3>1. Cardinality(Counted(ledger[i], now)) \in Nat BY <1>c
    <3> QED BY <1>0, <2>1, <2>2, <2>3, <3>1
  <2>4. ASSUME NEW j \in Items PROVE ChurnSound(item'[j], ledger'[j], now')
    <3>1. CASE j = i BY <2>1, <2>s, <3>1 DEF ChurnSound
    <3>2. CASE j # i BY <1>kept, <2>1, <3>2
    <3> QED BY <3>1, <3>2
  <2> QED BY <2>4, <1>goal
<1>6. ASSUME NEW i \in Items, Settles(i) PROVE RoomToRelease'
  <2>1. ASSUME NEW j \in Items PROVE ChurnSound(item'[j], ledger'[j], now')
    BY <1>6, <1>kept DEF Settles, KeptOutside, SameLease
  <2> QED BY <2>1, <1>goal
<1> QED BY <1>1, <1>2, <1>3, <1>4, <1>5, <1>6 DEF Effect

(* What the backoff is for: no trailing window ever holds more than the    *)
(* allowed number of releases that the code counts, by workers or by       *)
(* members, because an item is only claimed with room for one more and its *)
(* attempt ends, by at most one release, before it is claimed again.       *)
THEOREM ChurnStaysBounded == Spec => []ChurnBounded
<1>1. Init => RoomToRelease
  <2> SUFFICES ASSUME Init PROVE RoomToRelease OBVIOUS
  <2>1. ASSUME NEW i \in Items PROVE ChurnSound(item[i], ledger[i], now)
    <3>1. item[i].status = "absent" /\ Counted(ledger[i], now) = {}
      BY DEF Init, Absent, Counted
    <3> QED BY <3>1, FS_EmptySet, NumbersAssumption DEF ChurnSound
  <2> QED BY <2>1 DEF RoomToRelease
<1>2. RoomToRelease => ChurnBounded
  BY DEF RoomToRelease, ChurnSound, ChurnBounded, CountedReleases, Counted
<1> QED BY <1>1, <1>2, ChurnStep, TypeCorrect, LeasesSound, PTL DEF Spec

----------------------------------------------------------------------------
(* Claim selection.                                                        *)

(* Coming before in the claim order is a strict weak order.                *)
LEMMA ClaimOrder ==
  ASSUME TypeOK, NEW i \in Items, NEW j \in Items, NEW k \in Items, ClaimedBefore(i, k)
  PROVE  ~ClaimedBefore(k, i) /\ (ClaimedBefore(i, j) \/ ClaimedBefore(j, k))
<1>1. \A x \in Items : item[x].priority \in Nat /\ item[x].createdAt \in Nat
  BY NumbersAssumption DEF TypeOK, ItemRow
<1> QED BY <1>1 DEF ClaimedBefore

(* The merge of the two queries returns the first of all they may return.  *)
LEMMA MergeIsFirst ==
  ASSUME TypeOK, NEW U \in SUBSET Items, NEW G \in SUBSET Items,
         NEW u \in FirstRow(U), NEW g \in FirstRow(G), NEW i \in Items,
         i = BetterClaimCandidate(u, g)
  PROVE  i \in U \cup G /\ \A j \in U \cup G : ~ClaimedBefore(j, i)
<1>1. i # 0 /\ i \in Nat BY ItemsAssumption
<1>2. /\ U = {} => u = 0
      /\ U # {} => u \in U /\ u \in Nat /\ u # 0 /\ u \in Items /\ \A j \in U : ~ClaimedBefore(j, u)
  BY ItemsAssumption DEF FirstRow
<1>3. /\ G = {} => g = 0
      /\ G # {} => g \in G /\ g \in Nat /\ g # 0 /\ g \in Items /\ \A j \in G : ~ClaimedBefore(j, g)
  BY ItemsAssumption DEF FirstRow
<1>4. CASE U = {} \/ G = {}
  <2>1. i = u + g BY <1>2, <1>3, <1>4 DEF BetterClaimCandidate
  <2>2. u \in Nat /\ g \in Nat BY <1>2, <1>3
  <2> QED BY <1>1, <1>2, <1>3, <1>4, <2>1, <2>2
<1>5. CASE U # {} /\ G # {}
  <2>1. \/ i = u /\ ~ClaimedBefore(g, u)
        \/ i = g /\ ~ClaimedBefore(u, g)
    <3>1. ClaimedBefore(u, g) => ~ClaimedBefore(g, u) BY <1>2, <1>3, <1>5, ClaimOrder
    <3>2. ClaimedBefore(g, u) => ~ClaimedBefore(u, g) BY <1>2, <1>3, <1>5, ClaimOrder
    <3> QED BY <1>2, <1>3, <1>5, <3>1, <3>2 DEF BetterClaimCandidate
  <2>2. \A j \in G : ~ClaimedBefore(g, u) => ~ClaimedBefore(j, u)
    BY <1>2, <1>3, <1>5, ClaimOrder
  <2>3. \A j \in U : ~ClaimedBefore(u, g) => ~ClaimedBefore(j, g)
    BY <1>2, <1>3, <1>5, ClaimOrder
  <2> QED BY <1>2, <1>3, <1>5, <2>1, <2>2, <2>3
<1> QED BY <1>4, <1>5

(* What a claim returns may be claimed, and nothing that the same claim    *)
(* could return comes before it.                                           *)
LEMMA ChoiceIsBest ==
  ASSUME TypeOK, NEW repos, NEW kinds, NEW i \in ClaimChoices(repos, kinds)
  PROVE  /\ i \in Items /\ MayBeClaimed(i)
         /\ \A j \in Items : SameFilters(i, j) /\ MayBeClaimed(j) => ~ClaimedBefore(j, i)
<1> DEFINE running == {j \in Items : /\ Claimable(j) /\ RepositoryOf[j] \in repos
                                     /\ Definition[j].kind \in kinds}
           ungated == {j \in running : item[j].predecessors = {}}
           gated   == {j \in running \ ungated :
                         \A ref \in item[j].predecessors : PredecessorSatisfied(ref)}
<1>1. PICK u \in FirstRow(ungated), g \in FirstRow(gated) : i = BetterClaimCandidate(u, g)
  BY Zenon DEF ClaimChoices
<1>2. i \in Items BY DEF ClaimChoices
<1>3. ungated \in SUBSET Items /\ gated \in SUBSET Items OBVIOUS
<1>4. i \in ungated \cup gated /\ \A j \in ungated \cup gated : ~ClaimedBefore(j, i)
  <2> HIDE DEF ungated, gated
  <2> QED BY <1>1, <1>2, <1>3, MergeIsFirst
<1>5. MayBeClaimed(i) /\ RepositoryOf[i] \in repos /\ Definition[i].kind \in kinds
  BY <1>4 DEF MayBeClaimed
<1>6. ASSUME NEW j \in Items, SameFilters(i, j), MayBeClaimed(j) PROVE j \in ungated \cup gated
  BY <1>5, <1>6 DEF SameFilters, MayBeClaimed
<1> QED BY <1>2, <1>4, <1>5, <1>6

(* Two queries merged return what one ordered walk over every claimable    *)
(* item would: no claim passes over an item of the same repository and     *)
(* kind that comes before the one it returned.                             *)
THEOREM ClaimsPickTheBest == Spec => ClaimPicksBest
<1>1. ASSUME TypeOK, LeaseRowSound, [Next]_vars
      PROVE  \A i \in JustClaimed :
               /\ MayBeClaimed(i)
               /\ \A j \in Items : SameFilters(i, j) /\ MayBeClaimed(j) => ~ClaimedBefore(j, i)
  <2> SUFFICES ASSUME NEW i \in JustClaimed
               PROVE  /\ MayBeClaimed(i)
                      /\ \A j \in Items : SameFilters(i, j) /\ MayBeClaimed(j) => ~ClaimedBefore(j, i)
    OBVIOUS
  <2>1. grants \in Seq([item : Items, worker : Workers]) BY <1>1 DEF TypeOK
  <2>2. i \in Items /\ Len(grants') = Len(grants) + 1 /\ grants'[Len(grants')].item = i
    BY DEF JustClaimed
  <2>3. Effect BY <1>1, Effects
  <2>4. grants' # grants BY <2>1, <2>2
  <2>5. PICK j \in Items, w \in Workers : Leases(j, w)
    BY <2>3, <2>4 DEF Effect, Idles, Opens, Ends, Settles
  <2>6. j = i
    <3>1. grants' = Append(grants, [item |-> j, worker |-> w]) BY <2>5 DEF Leases
    <3>2. [item |-> j, worker |-> w] \in [item : Items, worker : Workers] OBVIOUS
    <3>3. grants'[Len(grants')] = [item |-> j, worker |-> w] BY <2>1, <3>1, <3>2
    <3> QED BY <2>2, <3>3
  <2> QED BY <1>1, <2>5, <2>6, ChoiceIsBest DEF Leases
<1> QED BY <1>1, TypeCorrect, LeasesSound, PTL DEF Spec, ClaimPicksBest

-----------------------------------------------------------------------------
(***************************************************************************)
(* Lineage and contracts: authority only attenuates from a root to its     *)
(* descendants, and what is proposed or leased can be approved and         *)
(* delivered.                                                              *)
(***************************************************************************)

----------------------------------------------------------------------------
(* What a step can do to the lineage of a row.                             *)

LineageKept(j) ==
  /\ item'[j].status # "absent" <=> Exists(j)
  /\ item'[j].parent = item[j].parent
  /\ item'[j].root = item[j].root
  /\ item'[j].depth = item[j].depth

RootBorn(j) ==
  /\ ~Exists(j) /\ item'[j].status # "absent"
  /\ RootContract(Definition[j])
  /\ item'[j].parent = 0 /\ item'[j].root = j /\ item'[j].depth = 0

FollowUpBorn(j, i) ==
  /\ ~Exists(j) /\ item'[j].status # "absent" /\ Exists(i)
  /\ item[i].depth < MaxLineageDepth /\ RepositoryOf[j] = RepositoryOf[i]
  /\ ChildContract(Definition[j], Definition[i].delegable)
  /\ WithinCeiling(Definition[j], Definition[i].delegable)
  /\ item'[j].parent = i /\ item'[j].root = item[i].root /\ item'[j].depth = item[i].depth + 1

LineageEffect ==
  \A j \in Items : LineageKept(j) \/ RootBorn(j) \/ \E i \in Items : FollowUpBorn(j, i)

SameLineage(row, row2) ==
  /\ row.status # "absent" <=> row2.status # "absent"
  /\ row2.parent = row.parent /\ row2.root = row.root /\ row2.depth = row.depth

(* Writing a row of an existing item keeps every lineage.                  *)
LEMMA PutLineage ==
  ASSUME TypeOK, NEW i \in Items, NEW row \in ItemRow, Put(i, row), SameLineage(item[i], row)
  PROVE  LineageEffect
<1>1. item \in [Items -> ItemRow] BY DEF TypeOK
<1>2. item' = [item EXCEPT ![i] = [row EXCEPT !.updatedAt = now]] BY DEF Put
<1>3. /\ item'[i].status = row.status /\ item'[i].parent = row.parent
      /\ item'[i].root = row.root /\ item'[i].depth = row.depth
  BY <1>1, <1>2 DEF ItemRow
<1>4. \A j \in Items : j # i => item'[j] = item[j] BY <1>1, <1>2
<1> QED BY <1>3, <1>4 DEF LineageEffect, LineageKept, SameLineage, Exists

(* Clearing a lease keeps the lineage.                                     *)
LEMMA UnleasedLineage ==
  ASSUME NEW row \in ItemRow
  PROVE  SameLineage(row, Unleased(row)) /\ Unleased(row) \in ItemRow
BY UnleasedType DEF SameLineage, Unleased, ItemRow

(* The rows that end an attempt or settle an item keep it too.             *)
LEMMA ClearedLineage ==
  ASSUME NEW row \in ItemRow, row.status # "absent", NEW status \in Statuses \ {"absent"},
         NEW result \in Results
  PROVE  /\ [Unleased(row) EXCEPT !.status = status, !.result = result] \in ItemRow
         /\ SameLineage(row, [Unleased(row) EXCEPT !.status = status, !.result = result])
<1>1. PICK clear \in ItemRow : clear = Unleased(row) /\ SameLineage(row, clear)
  BY UnleasedLineage
<1>2. /\ [clear EXCEPT !.status = status, !.result = result] \in ItemRow
      /\ SameLineage(clear, [clear EXCEPT !.status = status, !.result = result])
  BY <1>1 DEF ItemRow, SameLineage
<1>3. SameLineage(row, [clear EXCEPT !.status = status, !.result = result])
  BY <1>1, <1>2 DEF SameLineage
<1> QED BY <1>1, <1>2, <1>3

LEMMA QueuedLineage ==
  ASSUME NEW row \in ItemRow, row.status # "absent"
  PROVE  /\ [Unleased(row) EXCEPT !.status = "queued"] \in ItemRow
         /\ SameLineage(row, [Unleased(row) EXCEPT !.status = "queued"])
<1>1. PICK clear \in ItemRow : clear = Unleased(row) /\ SameLineage(row, clear)
  BY UnleasedLineage
<1>2. /\ [clear EXCEPT !.status = "queued"] \in ItemRow
      /\ SameLineage(clear, [clear EXCEPT !.status = "queued"])
  BY <1>1 DEF ItemRow, SameLineage, Statuses
<1>3. SameLineage(row, [clear EXCEPT !.status = "queued"])
  BY <1>1, <1>2 DEF SameLineage
<1> QED BY <1>1, <1>2, <1>3

(* Every step writes lineage only into rows it creates.                    *)
LEMMA LineageEffects == TypeOK /\ [Next]_vars => LineageEffect
<1> SUFFICES ASSUME TypeOK, [Next]_vars PROVE LineageEffect
  OBVIOUS
<1>0. item \in [Items -> ItemRow] /\ now \in Nat /\ grants \in Seq([item : Items, worker : Workers])
  BY DEF TypeOK
<1>row. \A i \in Items : item[i] \in ItemRow
  BY <1>0
<1>put. ASSUME NEW i \in Items, NEW row \in ItemRow, Put(i, row), SameLineage(item[i], row)
        PROVE  LineageEffect
  BY <1>put, PutLineage
<1>same. ASSUME item' = item PROVE LineageEffect
  BY <1>same DEF LineageEffect, LineageKept, Exists
<1>1. ASSUME NEW w \in Workers, NEW term \in LeaseTerms, NEW repos, NEW kinds,
             Claim(w, term, repos, kinds)
      PROVE  LineageEffect
  <2>1. PICK i \in ClaimChoices(repos, kinds) : GrantLease(i, w, term)
    BY <1>1 DEF Claim
  <2>2. i \in Items /\ item[i].status \in {"queued", "claimed"}
    BY ClaimChoicesClaimable DEF Claimable
  <2>3. now + term \in Nat /\ Len(grants) + 1 \in Nat
    BY <1>0, NumbersAssumption
  <2>4. PICK row : row = [item[i] EXCEPT !.status = "claimed", !.owner = w, !.token = Len(grants) + 1,
                                         !.expires = now + term]
    OBVIOUS
  <2>5. row \in ItemRow /\ SameLineage(item[i], row)
    BY <1>row, <2>2, <2>3, <2>4 DEF ItemRow, Statuses, SameLineage
  <2> QED BY <1>put, <2>1, <2>2, <2>4, <2>5 DEF GrantLease
<1>2. ASSUME NEW i \in Items, NEW w \in Workers, NEW t, NEW term \in LeaseTerms,
             Heartbeat(i, t, w, term)
      PROVE  LineageEffect
  <2>1. now + term \in Nat BY <1>0, NumbersAssumption
  <2>2. PICK row : row = [item[i] EXCEPT !.expires = now + term] OBVIOUS
  <2>3. row \in ItemRow /\ SameLineage(item[i], row)
    BY <1>row, <2>1, <2>2 DEF ItemRow, SameLineage
  <2> QED BY <1>2, <1>put, <2>2, <2>3 DEF Heartbeat
<1>3. ASSUME NEW i \in Items, NEW w \in Workers, NEW t, NEW reported, NEW kids \in SUBSET Items,
             Complete(i, t, w, reported, kids)
      PROVE  LineageEffect
  <2>1. PICK delivery \in Deliveries(reported) :
          item' = [j \in Items |->
            IF j = i THEN [Unleased(item[i]) EXCEPT !.status = "completed", !.result = delivery,
                                                    !.reported = reported, !.updatedAt = now]
            ELSE IF j \in kids
            THEN NewItem(j, FALSE, item[i].priority, {}, i, item[i].root, item[i].depth + 1)
            ELSE item[j]]
    BY <1>3 DEF Complete
  <2>2. Exists(i) /\ FollowUpsAccepted(i, kids)
    BY <1>3 DEF Complete, ActiveLease, Exists
  <2>3. LineageKept(i)
    <3>1. PICK clear \in ItemRow : clear = Unleased(item[i]) /\ SameLineage(item[i], clear)
      BY <1>row, UnleasedLineage
    <3>2. item'[i] = [clear EXCEPT !.status = "completed", !.result = delivery,
                                   !.reported = reported, !.updatedAt = now]
      BY <2>1, <3>1
    <3>3. /\ item'[i].status = "completed" /\ item'[i].parent = clear.parent
          /\ item'[i].root = clear.root /\ item'[i].depth = clear.depth
      BY <3>1, <3>2 DEF ItemRow
    <3> QED BY <2>2, <3>1, <3>3 DEF LineageKept, SameLineage
  <2>4. ASSUME NEW j \in kids PROVE FollowUpBorn(j, i)
    <3>1. /\ ~Exists(j) /\ RepositoryOf[j] = RepositoryOf[i] /\ item[i].depth < MaxLineageDepth
          /\ ChildContract(Definition[j], Definition[i].delegable)
          /\ WithinCeiling(Definition[j], Definition[i].delegable)
      BY <2>2 DEF FollowUpsAccepted
    <3>2. j # i BY <2>2, <3>1
    <3>3. item'[j] = NewItem(j, FALSE, item[i].priority, {}, i, item[i].root, item[i].depth + 1)
      BY <2>1, <3>2
    <3>4. /\ item'[j].status = "queued" /\ item'[j].parent = i /\ item'[j].root = item[i].root
          /\ item'[j].depth = item[i].depth + 1
      BY <3>3 DEF NewItem, Absent
    <3> QED BY <2>2, <3>1, <3>4 DEF FollowUpBorn
  <2>5. ASSUME NEW j \in Items, j # i, j \notin kids PROVE LineageKept(j)
    BY <2>1, <2>5 DEF LineageKept, Exists
  <2> QED BY <2>3, <2>4, <2>5 DEF LineageEffect
<1>4. ASSUME NEW i \in Items, NEW w \in Workers, NEW t, Block(i, t, w) PROVE LineageEffect
  <2>1. PICK row : row = [Unleased(item[i]) EXCEPT !.status = "blocked", !.result = "blocked"] OBVIOUS
  <2>2. item[i].status = "claimed" BY <1>4 DEF Block, ActiveLease
  <2>3. row \in ItemRow /\ SameLineage(item[i], row)
    BY <1>row, <2>1, <2>2, ClearedLineage DEF Statuses, Results
  <2> QED BY <1>4, <1>put, <2>1, <2>3 DEF Block
<1>5. ASSUME NEW i \in Items, NEW w \in Workers, NEW t, Release(i, t, w) PROVE LineageEffect
  <2>1. PICK row : row = [Unleased(item[i]) EXCEPT !.status = "queued"] OBVIOUS
  <2>2. item[i].status = "claimed" BY <1>5 DEF Release, ActiveLease
  <2>3. row \in ItemRow /\ SameLineage(item[i], row)
    BY <1>row, <2>1, <2>2, QueuedLineage
  <2> QED BY <1>5, <1>put, <2>1, <2>3 DEF Release
<1>6. ASSUME NEW o \in Operators, NEW i \in Items, Render(o, i) PROVE LineageEffect
  BY <1>6, <1>same DEF Render
<1>7. ASSUME NEW i \in Items, NEW p, Approve(i, p) \/ Defer(i, p) PROVE LineageEffect
  <2>1. PICK b \in BOOLEAN : Put(i, [item[i] EXCEPT !.admitted = b])
    BY <1>7 DEF Approve, Defer, Decide
  <2>2. PICK row : row = [item[i] EXCEPT !.admitted = b] OBVIOUS
  <2>3. row \in ItemRow /\ SameLineage(item[i], row)
    BY <1>row, <2>2 DEF ItemRow, SameLineage
  <2> QED BY <1>put, <2>1, <2>2, <2>3
<1>8. ASSUME NEW i \in Items, NEW p, Note(i, p) PROVE LineageEffect
  <2>1. SameLineage(item[i], item[i]) BY DEF SameLineage
  <2> QED BY <1>8, <1>row, <1>put, <2>1 DEF Note, Decide
<1>9. ASSUME NEW i \in Items, NEW p, NEW priority \in Priorities, Prioritize(i, p, priority)
      PROVE  LineageEffect
  <2>1. PICK row : row = [item[i] EXCEPT !.priority = priority] OBVIOUS
  <2>2. row \in ItemRow /\ SameLineage(item[i], row)
    BY <1>row, <2>1 DEF ItemRow, SameLineage
  <2> QED BY <1>9, <1>put, <2>1, <2>2 DEF Prioritize, Decide
<1>10. ASSUME NEW i \in Items, NEW p, Reject(i, p) PROVE LineageEffect
  <2>1. item[i].status = "queued" BY <1>10, <1>row, QueuedStatus DEF Reject
  <2>2. PICK row : row = [item[i] EXCEPT !.status = "cancelled", !.result = "cancelled"] OBVIOUS
  <2>3. row \in ItemRow /\ SameLineage(item[i], row)
    BY <1>row, <2>1, <2>2 DEF ItemRow, Statuses, Results, SameLineage
  <2> QED BY <1>10, <1>put, <2>2, <2>3 DEF Reject, Decide
<1>11. ASSUME NEW i \in Items, NEW p, Cancel(i, p) \/ RetirePullRequestBoundWork(i)
       PROVE  LineageEffect
  <2>1. item[i].status \in {"queued", "blocked"}
    BY <1>11, <1>row, QueuedStatus DEF Cancel, RetirePullRequestBoundWork
  <2>2. PICK row : row = [Unleased(item[i]) EXCEPT !.status = "cancelled", !.result = "cancelled"]
    OBVIOUS
  <2>3. row \in ItemRow /\ SameLineage(item[i], row)
    BY <1>row, <2>1, <2>2, ClearedLineage DEF Statuses, Results
  <2> QED BY <1>11, <1>put, <2>2, <2>3 DEF Cancel, RetirePullRequestBoundWork, Decide
<1>12. ASSUME NEW i \in Items, NEW p, Requeue(i, p) PROVE LineageEffect
  <2>1. item[i].status = "blocked" BY <1>12, <1>row, QueuedStatus DEF Requeue
  <2>2. PICK clear \in ItemRow : clear = Unleased(item[i]) /\ SameLineage(item[i], clear)
    BY <1>row, UnleasedLineage
  <2> DEFINE kept == IF item[i].result # "none" THEN clear.previousResults + 1
                                                ELSE clear.previousResults
  <2>3. kept \in Nat BY <2>2 DEF ItemRow
  <2>4. Put(i, [clear EXCEPT !.status = "queued", !.result = "none", !.previousResults = kept])
    BY <1>12, <2>2 DEF Requeue, Decide
  <2> HIDE DEF kept
  <2>5. PICK row : row = [clear EXCEPT !.status = "queued", !.result = "none",
                                       !.previousResults = kept]
    OBVIOUS
  <2>6. row \in ItemRow BY <2>2, <2>3, <2>5, RequeuedRowType
  <2>7. SameLineage(item[i], row)
    BY <2>1, <2>2, <2>5 DEF SameLineage, ItemRow
  <2> QED BY <1>put, <2>4, <2>5, <2>6, <2>7
<1>13. ASSUME NEW i \in Items, NEW p, NEW actor \in OperatorActors, ReleaseLease(i, p, actor)
       PROVE  LineageEffect
  <2>1. PICK row : row = [Unleased(item[i]) EXCEPT !.status = "queued"] OBVIOUS
  <2>2. item[i].status = "claimed" BY <1>13, <1>row, QueuedStatus DEF ReleaseLease
  <2>3. row \in ItemRow /\ SameLineage(item[i], row)
    BY <1>row, <2>1, <2>2, QueuedLineage
  <2> QED BY <1>13, <1>put, <2>1, <2>3 DEF ReleaseLease, Decide
<1>14. ASSUME NEW i \in Items, NEW p, NEW kind \in Reportable, AttachArtifact(i, p, kind)
       PROVE  LineageEffect
  <2>1. PICK delivery \in Deliveries({kind}) :
          Decide(i, p, [item[i] EXCEPT !.reported = @ \cup {kind},
                                       !.result = IF delivery = "pending" THEN "pending" ELSE @])
    BY <1>14 DEF AttachArtifact
  <2>2. kind \in ArtifactKinds BY NumbersAssumption
  <2>3. PICK row : row = [item[i] EXCEPT !.reported = @ \cup {kind},
                                         !.result = IF delivery = "pending" THEN "pending" ELSE @]
    OBVIOUS
  <2>4. row \in ItemRow /\ SameLineage(item[i], row)
    BY <1>row, <2>2, <2>3 DEF ItemRow, Results, SameLineage
  <2> QED BY <1>put, <2>1, <2>3, <2>4 DEF Decide
<1>15. ASSUME NEW r \in Repositories, NEW b \in BOOLEAN, SetRepositoryEnabled(r, b)
       PROVE  LineageEffect
  BY <1>15, <1>same DEF SetRepositoryEnabled
<1>16. ASSUME NEW i \in Items, NEW priority \in Priorities, EnqueueAdmittedRoot(i, priority)
       PROVE  LineageEffect
  <2>1. ~Exists(i) /\ RootContract(Definition[i])
    BY <1>16 DEF EnqueueAdmittedRoot, RootAccepted
  <2>2. /\ item'[i] = NewItem(i, TRUE, priority, {}, 0, i, 0)
        /\ \A j \in Items \ {i} : item'[j] = item[j]
    BY <1>0, <1>16 DEF EnqueueAdmittedRoot
  <2>3. /\ item'[i].status = "queued" /\ item'[i].parent = 0 /\ item'[i].root = i
        /\ item'[i].depth = 0
    BY <2>2 DEF NewItem, Absent
  <2> QED BY <2>1, <2>2, <2>3 DEF LineageEffect, RootBorn, LineageKept, Exists
<1>17. ASSUME NEW S \in SUBSET Items, NEW priority \in Priorities, NEW edges,
              EnqueueProposedRoots(S, priority, edges)
       PROVE  LineageEffect
  <2>1. \A j \in S : ~Exists(j) /\ RootContract(Definition[j])
    BY <1>17 DEF EnqueueProposedRoots, RootAccepted
  <2>2. item' = [i \in Items |-> IF i \in S THEN NewItem(i, FALSE, priority, edges[i], 0, i, 0)
                                            ELSE item[i]]
    BY <1>17 DEF EnqueueProposedRoots
  <2>3. ASSUME NEW j \in S
        PROVE  /\ item'[j].status = "queued" /\ item'[j].parent = 0 /\ item'[j].root = j
               /\ item'[j].depth = 0
    <3>1. item'[j] = NewItem(j, FALSE, priority, edges[j], 0, j, 0) BY <2>2
    <3> QED BY <3>1 DEF NewItem, Absent
  <2>4. \A j \in Items \ S : item'[j] = item[j] BY <2>2
  <2> QED BY <2>1, <2>3, <2>4 DEF LineageEffect, RootBorn, LineageKept, Exists
<1>18. ASSUME NEW i \in Items, NEW refs \in Edges[i], ReplaceProposedPredecessors(i, refs)
       PROVE  LineageEffect
  <2>1. refs \in SUBSET SourceRefs BY DefinitionAssumption
  <2>2. PICK row : row = [item[i] EXCEPT !.predecessors = refs] OBVIOUS
  <2>3. row \in ItemRow /\ SameLineage(item[i], row)
    BY <1>row, <2>1, <2>2 DEF ItemRow, SameLineage
  <2> QED BY <1>18, <1>put, <2>2, <2>3 DEF ReplaceProposedPredecessors
<1>19. ASSUME NEW i \in Items, RecordArtifactVerification(i) PROVE LineageEffect
  <2>1. PICK delivery \in Deliveries(item[i].reported) : Put(i, [item[i] EXCEPT !.result = delivery])
    BY <1>19 DEF RecordArtifactVerification
  <2>2. PICK row : row = [item[i] EXCEPT !.result = delivery] OBVIOUS
  <2>3. row \in ItemRow /\ SameLineage(item[i], row)
    BY <1>row, <2>2 DEF ItemRow, Results, Deliveries, SameLineage
  <2> QED BY <1>put, <2>1, <2>2, <2>3
<1>20. CASE Tick
  BY <1>20, <1>same DEF Tick
<1>21. CASE UNCHANGED vars
  BY <1>21, <1>same DEF vars
<1>22. CASE WorkerCall
  BY <1>22, <1>1, <1>2, <1>3, <1>4, <1>5 DEF WorkerCall
<1>23. CASE OperatorCall
  BY <1>23, <1>6, <1>7, <1>8, <1>9, <1>10, <1>11, <1>12, <1>13, <1>14 DEF OperatorCall
<1>24. CASE Intake
  BY <1>24, <1>15, <1>16, <1>17, <1>18 DEF Intake
<1>25. CASE Sweep
  BY <1>25, <1>11, <1>19 DEF Sweep
<1> QED BY <1>20, <1>21, <1>22, <1>23, <1>24, <1>25 DEF Next

----------------------------------------------------------------------------
(* The invariant.  Bounded says more than AuthorityAttenuates: a row with  *)
(* no parent is its own root, which a follow-up of it needs, and every     *)
(* existing item, not only a proposed one, satisfies its contract.         *)

ContractAt(i, row) ==
  IF row.parent = 0 THEN RootContract(Definition[i])
  ELSE ChildContract(Definition[i], Definition[row.parent].delegable)

Bounded(i, rows) ==
  LET row == rows[i] IN
  /\ ContractAt(i, row)
  /\ row.root \in Items /\ rows[row.root].status # "absent" /\ rows[row.root].parent = 0
  /\ RepositoryOf[i] = RepositoryOf[row.root]
  /\ row.depth <= MaxLineageDepth
  /\ row.parent = 0 => row.root = i
  /\ row.parent # 0 => WithinCeiling(Definition[i], Definition[row.root].delegable)

LineageBounded == \A i \in Items : item[i].status # "absent" => Bounded(i, item)

(* A ceiling within a ceiling is within the outer one.                     *)
LEMMA CeilingsNest ==
  ASSUME NEW d, NEW parent, NEW ceiling,
         WithinCeiling(d, parent.delegable), WithinCeiling(parent, ceiling)
  PROVE  WithinCeiling(d, ceiling)
BY DEF WithinCeiling

(* A root's contract, or a follow-up's, has a report its completion takes. *)
LEMMA ContractDelivers ==
  ASSUME NEW d, RootContract(d)
  PROVE  \E reported \in SUBSET ArtifactKinds : ArtifactsAccepted(d, reported)
<1>1. CASE d.required = "pull-request"
  <2>1. ArtifactsAccepted(d, {"pull-request"})
    BY <1>1 DEF RootContract, ChangeCanLand, ArtifactsAccepted
  <2> QED BY <2>1 DEF ArtifactKinds
<1>2. CASE d.required # "pull-request"
  <2>1. ArtifactsAccepted(d, {}) BY <1>2 DEF ArtifactsAccepted
  <2> QED BY <2>1
<1> QED BY <1>1, <1>2

(* Every step keeps every lineage bounded.                                 *)
LEMMA LineageStep == TypeOK /\ LineageBounded /\ [Next]_vars => LineageBounded'
<1> SUFFICES ASSUME TypeOK, LineageBounded, [Next]_vars,
                    NEW i \in Items, item'[i].status # "absent"
             PROVE  Bounded(i, item')
  BY DEF LineageBounded
<1>0. item \in [Items -> ItemRow] /\ \A j \in Items : j # 0
  BY ItemsAssumption DEF TypeOK
<1>1. LineageEffect BY LineageEffects
(* A root stays a root.                                                    *)
<1>2. ASSUME NEW r \in Items, item[r].status # "absent"
      PROVE  item'[r].status # "absent" /\ item'[r].parent = item[r].parent
  BY <1>1, <1>2 DEF LineageEffect, LineageKept, RootBorn, FollowUpBorn, Exists
<1>3. CASE LineageKept(i)
  <2>1. item[i].status # "absent" BY <1>3 DEF LineageKept, Exists
  <2>2. Bounded(i, item) BY <2>1 DEF LineageBounded
  <2>3. item'[i].parent = item[i].parent /\ item'[i].root = item[i].root /\ item'[i].depth = item[i].depth
    BY <1>3 DEF LineageKept
  <2>4. item'[item[i].root].status # "absent" /\ item'[item[i].root].parent = 0
    BY <1>2, <2>2 DEF Bounded
  <2> QED BY <2>2, <2>3, <2>4 DEF Bounded, ContractAt
<1>4. CASE RootBorn(i)
  <2>1. /\ RootContract(Definition[i]) /\ item'[i].parent = 0 /\ item'[i].root = i /\ item'[i].depth = 0
    BY <1>4 DEF RootBorn
  <2>2. 0 <= MaxLineageDepth BY NumbersAssumption
  <2> QED BY <2>1, <2>2 DEF Bounded, ContractAt
<1>5. ASSUME NEW p \in Items, FollowUpBorn(i, p) PROVE Bounded(i, item')
  <2>1. /\ item[p].status # "absent" /\ item[p].depth < MaxLineageDepth
        /\ RepositoryOf[i] = RepositoryOf[p]
        /\ ChildContract(Definition[i], Definition[p].delegable)
        /\ WithinCeiling(Definition[i], Definition[p].delegable)
        /\ item'[i].parent = p /\ item'[i].root = item[p].root /\ item'[i].depth = item[p].depth + 1
    BY <1>5 DEF FollowUpBorn, Exists
  <2>2. Bounded(p, item) BY <2>1 DEF LineageBounded
  <2>3. item'[item[p].root].status # "absent" /\ item'[item[p].root].parent = 0
    BY <1>2, <2>2 DEF Bounded
  <2>4. item'[i].depth <= MaxLineageDepth
    <3>1. item[p].depth \in Nat /\ MaxLineageDepth \in Nat BY <1>0, NumbersAssumption DEF ItemRow
    <3> QED BY <2>1, <3>1
  <2>5. WithinCeiling(Definition[i], Definition[item[p].root].delegable)
    <3>1. CASE item[p].parent = 0 BY <2>1, <2>2, <3>1 DEF Bounded
    <3>2. CASE item[p].parent # 0 BY <2>1, <2>2, <3>2, CeilingsNest DEF Bounded
    <3> QED BY <3>1, <3>2
  <2>6. ContractAt(i, item'[i]) BY <1>0, <2>1 DEF ContractAt
  <2> QED BY <1>0, <2>1, <2>2, <2>3, <2>4, <2>5, <2>6 DEF Bounded
<1> QED BY <1>1, <1>3, <1>4, <1>5 DEF LineageEffect

(* Bounded lineages are what ContractsSound promises.                      *)
LEMMA BoundedSound == TypeOK /\ LineageBounded => ContractsSound
<1> SUFFICES ASSUME TypeOK, LineageBounded PROVE ContractsSound OBVIOUS
<1>row. \A i \in Items : item[i] \in ItemRow BY DEF TypeOK
<1>1. ASSUME NEW i \in Items, Exists(i) PROVE Bounded(i, item)
  BY <1>1 DEF LineageBounded, Exists
<1>2. AuthorityAttenuates
  BY <1>1 DEF AuthorityAttenuates, Bounded, Exists
<1>3. ASSUME NEW i \in Items, Exists(i) PROVE AdmissionContract(i) /\ RootContract(Definition[i])
  <2>1. ContractAt(i, item[i]) BY <1>1, <1>3 DEF Bounded
  <2> QED BY <2>1 DEF ContractAt, AdmissionContract, ChildContract
<1>4. ASSUME NEW i \in Items, Status(i) = "proposed" PROVE AdmissionContract(i)
  <2>1. Exists(i) BY <1>4, <1>row, QueuedStatus DEF Exists
  <2> QED BY <1>3, <2>1
<1>5. ASSUME NEW i \in Items, Status(i) = "claimed"
      PROVE  \E reported \in SUBSET ArtifactKinds : ArtifactsAccepted(Definition[i], reported)
  <2>1. Exists(i) BY <1>5, <1>row, QueuedStatus DEF Exists
  <2> QED BY <1>3, <2>1, ContractDelivers
<1> QED BY <1>2, <1>4, <1>5 DEF ContractsSound, ContractsDeliverable

(* Rules 7-9 over whole lineages and ADR-0069: however deep a chain of     *)
(* follow-ups, each item's authority is bounded by what its root may       *)
(* delegate, in the root's repository, at most MaxLineageDepth below it,   *)
(* a proposal can be approved, and leased work can be completed.           *)
THEOREM ContractsStaySound == Spec => []ContractsSound
<1>1. Init => LineageBounded
  BY DEF Init, Absent, LineageBounded
<1> QED BY <1>1, LineageStep, BoundedSound, TypeCorrect, PTL DEF Spec

----------------------------------------------------------------------------
(* Requeue erases no block result.  ResultsCounted says more than          *)
(* BlockResultsKept: a blocked row carries the result that requeue moves   *)
(* to previousResults, and an item that does not exist has none.           *)

Blocks(h) == {k \in DOMAIN h : h[k].type = "blocked"}

Counts(row, n) ==
  /\ row.status # "cancelled" => n = row.previousResults + (IF row.status = "blocked" THEN 1 ELSE 0)
  /\ row.status = "blocked" => row.result = "blocked"
  /\ row.status = "absent" => row.previousResults = 0

ResultsCounted == \A i \in Items : Counts(item[i], Cardinality(Blocks(ledger[i])))

(* A change of a row that moves no result.                                 *)
SameResults(row, row2) ==
  /\ row2.previousResults = row.previousResults
  /\ \/ row2.status = row.status /\ (row.status = "blocked" => row2.result = row.result)
     \/ row.status \in {"queued", "claimed"} /\ row2.status \in {"queued", "claimed", "completed"}
     \/ row2.status = "cancelled"

LEMMA SameCounts ==
  ASSUME NEW row, NEW row2, NEW n, Counts(row, n), SameResults(row, row2)
  PROVE  Counts(row2, n)
BY DEF Counts, SameResults

(* The block results of a history are counted by a natural number.         *)
LEMMA BlocksFinite ==
  ASSUME NEW h \in Seq(EventRow)
  PROVE  /\ IsFiniteSet(Blocks(h)) /\ Cardinality(Blocks(h)) \in Nat
         /\ Len(h) \in Nat /\ Blocks(h) \subseteq 1 .. Len(h)
<1>1. Len(h) \in Nat /\ DOMAIN h = 1 .. Len(h) BY LenProperties
<1>2. Blocks(h) \subseteq 1 .. Len(h) BY <1>1 DEF Blocks
<1>3. IsFiniteSet(1 .. Len(h)) BY <1>1, FS_Interval
<1>4. IsFiniteSet(Blocks(h)) BY <1>2, <1>3, FS_Subset
<1> QED BY <1>1, <1>2, <1>4, FS_CardinalityType

(* Only a block adds a block result, and it adds one.                      *)
LEMMA BlocksAppend ==
  ASSUME NEW h \in Seq(EventRow), NEW e \in EventRow
  PROVE  Cardinality(Blocks(Append(h, e))) =
           Cardinality(Blocks(h)) + (IF e.type = "blocked" THEN 1 ELSE 0)
<1>1. PICK g \in Seq(EventRow) : g = Append(h, e) BY AppendProperties
<1>2. /\ Len(h) \in Nat /\ DOMAIN h = 1 .. Len(h) /\ DOMAIN g = 1 .. Len(h) + 1
      /\ g[Len(h) + 1] = e /\ \A k \in 1 .. Len(h) : g[k] = h[k]
  BY <1>1, AppendProperties, LenProperties
<1>3. IsFiniteSet(Blocks(h)) /\ Cardinality(Blocks(h)) \in Nat /\ Len(h) + 1 \notin Blocks(h)
  BY <1>2, BlocksFinite
<1>4. CASE e.type = "blocked"
  <2>1. \A k : k \in Blocks(g) <=> k \in Blocks(h) \cup {Len(h) + 1} BY <1>2, <1>4 DEF Blocks
  <2>2. Blocks(g) = Blocks(h) \cup {Len(h) + 1} BY <2>1
  <2>3. Cardinality(Blocks(g)) = Cardinality(Blocks(h)) + 1 BY <1>3, <2>2, FS_AddElement
  <2> QED BY <1>1, <1>4, <2>3
<1>5. CASE e.type # "blocked"
  <2>1. \A k : k \in Blocks(g) <=> k \in Blocks(h) BY <1>2, <1>5 DEF Blocks
  <2>2. Blocks(g) = Blocks(h) BY <2>1
  <2> QED BY <1>1, <1>3, <1>5, <2>2
<1> QED BY <1>4, <1>5

(* Writing one row keeps every other row's count.                          *)
LEMMA PutCounts ==
  ASSUME TypeOK, ResultsCounted, NEW i \in Items, NEW row \in ItemRow, Put(i, row),
         \A j \in Items : j # i => ledger'[j] = ledger[j],
         Counts(row, Cardinality(Blocks(ledger'[i])))
  PROVE  ResultsCounted'
<1>1. item \in [Items -> ItemRow] BY DEF TypeOK
<1>2. item' = [item EXCEPT ![i] = [row EXCEPT !.updatedAt = now]] BY DEF Put
<1>3. /\ item'[i].status = row.status /\ item'[i].result = row.result
      /\ item'[i].previousResults = row.previousResults
  BY <1>1, <1>2 DEF ItemRow
<1>4. \A j \in Items : j # i => item'[j] = item[j] BY <1>1, <1>2
<1>5. ASSUME NEW j \in Items PROVE Counts(item'[j], Cardinality(Blocks(ledger'[j])))
  <2>1. CASE j = i BY <1>3, <2>1 DEF Counts
  <2>2. CASE j # i
    <3>1. item'[j] = item[j] /\ ledger'[j] = ledger[j] BY <1>4, <2>2
    <3>2. Counts(item[j], Cardinality(Blocks(ledger[j]))) BY DEF ResultsCounted
    <3> QED BY <3>1, <3>2
  <2> QED BY <2>1, <2>2
<1> QED BY <1>5 DEF ResultsCounted

(* Clearing the lease leaves the results alone.                            *)
LEMMA UnleasedResults ==
  ASSUME NEW row \in ItemRow
  PROVE  /\ Unleased(row) \in ItemRow /\ Unleased(row).status = row.status
         /\ Unleased(row).result = row.result
         /\ Unleased(row).previousResults = row.previousResults
BY UnleasedType DEF Unleased, ItemRow

(* A new item has no results.                                              *)
LEMMA NewItemCounts ==
  ASSUME NEW i, NEW admitted, NEW priority, NEW predecessors, NEW parent, NEW root, NEW depth,
         NEW row, row.status = "absent", NEW n, Counts(row, n)
  PROVE  Counts(NewItem(i, admitted, priority, predecessors, parent, root, depth), n)
<1>1. PICK new : new = NewItem(i, admitted, priority, predecessors, parent, root, depth) OBVIOUS
<1>2. new.status = "queued" /\ new.previousResults = 0 BY <1>1 DEF NewItem, Absent
<1>3. Counts(new, n) BY <1>2 DEF Counts
<1> QED BY <1>1, <1>3

(* Every step keeps the results counted.                                   *)
LEMMA ResultsStep == TypeOK /\ ResultsCounted /\ [Next]_vars => ResultsCounted'
<1> SUFFICES ASSUME TypeOK, ResultsCounted, [Next]_vars PROVE ResultsCounted'
  OBVIOUS
<1>0. /\ item \in [Items -> ItemRow] /\ now \in Nat /\ ledger \in [Items -> Seq(EventRow)]
      /\ grants \in Seq([item : Items, worker : Workers])
  BY DEF TypeOK
<1>row. \A i \in Items : item[i] \in ItemRow /\ ledger[i] \in Seq(EventRow)
  BY <1>0
<1>c. \A i \in Items : Counts(item[i], Cardinality(Blocks(ledger[i])))
  BY DEF ResultsCounted
<1>same. ASSUME item' = item, ledger' = ledger PROVE ResultsCounted'
  BY <1>c, <1>same DEF ResultsCounted
<1>put. ASSUME NEW i \in Items, NEW row \in ItemRow, Put(i, row), SameResults(item[i], row),
               ledger' = ledger
        PROVE  ResultsCounted'
  <2>1. Counts(row, Cardinality(Blocks(ledger[i]))) BY <1>c, <1>put, SameCounts
  <2> QED BY <1>put, <2>1, PutCounts
(* An event that is no block.                                              *)
<1>event. ASSUME NEW i \in Items, NEW row \in ItemRow, Put(i, row), SameResults(item[i], row),
                 NEW e \in EventRow, e.type # "blocked", AddEvent(i, e)
          PROVE  ResultsCounted'
  <2>1. /\ ledger'[i] = Append(ledger[i], e)
        /\ \A j \in Items : j # i => ledger'[j] = ledger[j]
    BY <1>0, <1>event DEF AddEvent
  <2>2. Cardinality(Blocks(ledger'[i])) = Cardinality(Blocks(ledger[i]))
    BY <1>row, <1>event, <2>1, BlocksAppend, BlocksFinite
  <2>3. Counts(row, Cardinality(Blocks(ledger'[i]))) BY <1>c, <1>event, <2>2, SameCounts
  <2> QED BY <1>event, <2>1, <2>3, PutCounts
<1>1. ASSUME NEW w \in Workers, NEW term \in LeaseTerms, NEW repos, NEW kinds,
             Claim(w, term, repos, kinds)
      PROVE  ResultsCounted'
  <2>1. PICK i \in ClaimChoices(repos, kinds) : GrantLease(i, w, term)
    BY <1>1 DEF Claim
  <2>2. i \in Items /\ item[i].status \in {"queued", "claimed"}
    BY ClaimChoicesClaimable DEF Claimable
  <2>3. now + term \in Nat /\ Len(grants) + 1 \in Nat
    BY <1>0, NumbersAssumption
  <2>4. PICK row : row = [item[i] EXCEPT !.status = "claimed", !.owner = w, !.token = Len(grants) + 1,
                                         !.expires = now + term]
    OBVIOUS
  <2>5. row \in ItemRow /\ row.status = "claimed" /\ row.previousResults = item[i].previousResults
    BY <1>row, <2>2, <2>3, <2>4 DEF ItemRow, Statuses
  <2>6. SameResults(item[i], row) BY <2>2, <2>5 DEF SameResults
  <2>7. PICK claimed \in EventRow :
          claimed = Event("claimed", w, Len(grants) + 1) /\ claimed.type = "claimed"
    <3>1. Event("claimed", w, Len(grants) + 1) \in EventRow BY <1>0, <2>3, EventType
    <3> QED BY <3>1 DEF Event
  <2>8. PICK lapsed \in EventRow :
          /\ lapsed = [Event("expired", "system", 0) EXCEPT !.ended = item[i].expires]
          /\ lapsed.type = "expired"
    <3>1. Event("expired", "system", 0) \in EventRow BY <1>0, EventType
    <3>2. item[i].expires \in Nat BY <1>row, <2>2 DEF ItemRow
    <3>3. [Event("expired", "system", 0) EXCEPT !.ended = item[i].expires] \in EventRow
      BY <3>1, <3>2 DEF EventRow
    <3> QED BY <3>3 DEF Event
  <2>9. /\ Put(i, row) /\ \A j \in Items : j # i => ledger'[j] = ledger[j]
        /\ ledger'[i] = IF item[i].status = "claimed" THEN ledger[i] \o <<lapsed, claimed>>
                                                      ELSE Append(ledger[i], claimed)
    BY <1>0, <2>1, <2>2, <2>4, <2>7, <2>8 DEF GrantLease
  <2>10. Cardinality(Blocks(ledger'[i])) = Cardinality(Blocks(ledger[i]))
    <3>0. PICK h \in Seq(EventRow) : h = ledger[i] BY <1>row, <2>2
    <3>1. Cardinality(Blocks(h)) \in Nat BY BlocksFinite
    <3>2. CASE item[i].status = "claimed"
      <4>1. PICK g \in Seq(EventRow) : g = Append(h, lapsed) BY AppendProperties
      <4>2. h \o <<lapsed, claimed>> = Append(g, claimed)
        BY <4>1, AppendTwo
      <4>3. Cardinality(Blocks(g)) = Cardinality(Blocks(h))
        <5>1. Cardinality(Blocks(Append(h, lapsed))) = Cardinality(Blocks(h))
          <6>1. lapsed.type # "blocked" BY <2>8
          <6> QED BY <3>1, <6>1, BlocksAppend
        <5> QED BY <4>1, <5>1
      <4>4. Cardinality(Blocks(Append(g, claimed))) = Cardinality(Blocks(g))
        <5>1. Cardinality(Blocks(g)) \in Nat BY BlocksFinite
        <5> QED BY <2>7, <5>1, BlocksAppend
      <4> QED BY <2>9, <3>0, <3>2, <4>2, <4>3, <4>4
    <3>3. CASE item[i].status # "claimed"
      <4>1. Cardinality(Blocks(Append(h, claimed))) = Cardinality(Blocks(h))
        BY <2>7, <3>1, BlocksAppend
      <4> QED BY <2>9, <3>0, <3>3, <4>1
    <3> QED BY <3>2, <3>3
  <2>11. Counts(row, Cardinality(Blocks(ledger'[i]))) BY <1>c, <2>2, <2>6, <2>10, SameCounts
  <2> QED BY <2>2, <2>5, <2>9, <2>11, PutCounts
<1>2. ASSUME NEW i \in Items, NEW w \in Workers, NEW t, NEW term \in LeaseTerms,
             Heartbeat(i, t, w, term)
      PROVE  ResultsCounted'
  <2>1. now + term \in Nat BY <1>0, NumbersAssumption
  <2>2. PICK row : row = [item[i] EXCEPT !.expires = now + term] OBVIOUS
  <2>3. row \in ItemRow /\ SameResults(item[i], row)
    BY <1>row, <2>1, <2>2 DEF ItemRow, SameResults
  <2> QED BY <1>2, <1>put, <2>2, <2>3 DEF Heartbeat
<1>3. ASSUME NEW i \in Items, NEW w \in Workers, NEW t \in DOMAIN grants, NEW reported,
             NEW kids \in SUBSET Items, Complete(i, t, w, reported, kids)
      PROVE  ResultsCounted'
  <2>1. PICK delivery \in Deliveries(reported) :
          item' = [j \in Items |->
            IF j = i THEN [Unleased(item[i]) EXCEPT !.status = "completed", !.result = delivery,
                                                    !.reported = reported, !.updatedAt = now]
            ELSE IF j \in kids
            THEN NewItem(j, FALSE, item[i].priority, {}, i, item[i].root, item[i].depth + 1)
            ELSE item[j]]
    BY <1>3 DEF Complete
  <2>2. item[i].status = "claimed" /\ FollowUpsAccepted(i, kids) /\ AddEvent(i, Event("completed", w, t))
    BY <1>3 DEF Complete, ActiveLease
  <2>3. PICK e \in EventRow : e = Event("completed", w, t) /\ e.type = "completed"
    <3>1. t \in Nat BY <1>0
    <3>2. Event("completed", w, t) \in EventRow BY <1>0, <3>1, EventType
    <3> QED BY <3>2 DEF Event
  <2>4. /\ ledger'[i] = Append(ledger[i], e) /\ \A j \in Items : j # i => ledger'[j] = ledger[j]
    BY <1>0, <2>2, <2>3 DEF AddEvent
  <2>5. Cardinality(Blocks(ledger'[i])) = Cardinality(Blocks(ledger[i]))
    BY <1>row, <2>3, <2>4, BlocksAppend, BlocksFinite
  <2>6. Counts(item'[i], Cardinality(Blocks(ledger'[i])))
    <3>1. PICK clear \in ItemRow : /\ clear = Unleased(item[i])
                                   /\ clear.previousResults = item[i].previousResults
      BY <1>row, UnleasedResults
    <3>2. item'[i] = [clear EXCEPT !.status = "completed", !.result = delivery,
                                   !.reported = reported, !.updatedAt = now]
      BY <2>1, <3>1
    <3>3. item'[i].status = "completed" /\ item'[i].previousResults = item[i].previousResults
      BY <3>1, <3>2 DEF ItemRow
    <3>4. SameResults(item[i], item'[i]) BY <2>2, <3>3 DEF SameResults
    <3> QED BY <1>c, <2>5, <3>4, SameCounts
  <2>7. ASSUME NEW j \in Items, j # i PROVE Counts(item'[j], Cardinality(Blocks(ledger'[j])))
    <3>1. Counts(item[j], Cardinality(Blocks(ledger'[j]))) BY <1>c, <2>4, <2>7
    <3>2. CASE j \in kids
      <4>1. item[j].status = "absent" BY <2>2, <3>2 DEF FollowUpsAccepted, Exists
      <4>2. item'[j] = NewItem(j, FALSE, item[i].priority, {}, i, item[i].root, item[i].depth + 1)
        BY <2>1, <2>7, <3>2
      <4> QED BY <3>1, <4>1, <4>2, NewItemCounts
    <3>3. CASE j \notin kids BY <2>1, <2>7, <3>1, <3>3
    <3> QED BY <3>2, <3>3
  <2> QED BY <2>6, <2>7 DEF ResultsCounted
<1>4. ASSUME NEW i \in Items, NEW w \in Workers, NEW t \in DOMAIN grants, Block(i, t, w)
      PROVE  ResultsCounted'
  <2>1. PICK clear \in ItemRow : /\ clear = Unleased(item[i])
                                 /\ clear.previousResults = item[i].previousResults
    BY <1>row, UnleasedResults
  <2>2. PICK row : row = [clear EXCEPT !.status = "blocked", !.result = "blocked"] OBVIOUS
  <2>3. row \in ItemRow BY <2>1, <2>2, MovedRowType
  <2>4. /\ row.status = "blocked" /\ row.result = "blocked"
        /\ row.previousResults = item[i].previousResults
    BY <2>1, <2>2 DEF ItemRow
  <2>5. PICK e \in EventRow : e = Event("blocked", w, t) /\ e.type = "blocked"
    <3>1. t \in Nat BY <1>0
    <3>2. Event("blocked", w, t) \in EventRow BY <1>0, <3>1, EventType
    <3> QED BY <3>2 DEF Event
  <2>6. /\ item[i].status = "claimed" /\ Put(i, row)
        /\ ledger'[i] = Append(ledger[i], e) /\ \A j \in Items : j # i => ledger'[j] = ledger[j]
    BY <1>0, <1>4, <2>1, <2>2, <2>5 DEF Block, ActiveLease, AddEvent
  <2>7. /\ Cardinality(Blocks(ledger'[i])) = Cardinality(Blocks(ledger[i])) + 1
        /\ Cardinality(Blocks(ledger[i])) \in Nat
    BY <1>row, <2>5, <2>6, BlocksAppend, BlocksFinite
  <2>8. Cardinality(Blocks(ledger[i])) = item[i].previousResults
    <3>1. item[i].previousResults \in Nat BY <1>row DEF ItemRow
    <3> QED BY <1>c, <2>6, <3>1 DEF Counts
  <2>9. Counts(row, Cardinality(Blocks(ledger'[i]))) BY <2>4, <2>7, <2>8 DEF Counts
  <2> QED BY <2>3, <2>6, <2>9, PutCounts
<1>5. ASSUME NEW i \in Items, NEW w \in Workers, NEW t \in DOMAIN grants, Release(i, t, w)
      PROVE  ResultsCounted'
  <2>1. PICK clear \in ItemRow : /\ clear = Unleased(item[i])
                                 /\ clear.previousResults = item[i].previousResults
    BY <1>row, UnleasedResults
  <2>2. PICK row : row = [clear EXCEPT !.status = "queued"] OBVIOUS
  <2>3. row \in ItemRow BY <2>1, <2>2, MovedRowType
  <2>4. item[i].status = "claimed" BY <1>5 DEF Release, ActiveLease
  <2>5. SameResults(item[i], row) BY <2>1, <2>2, <2>4 DEF ItemRow, SameResults
  <2>6. PICK e \in EventRow : e = Event("released", w, t) /\ e.type = "released"
    <3>1. t \in Nat BY <1>0
    <3>2. Event("released", w, t) \in EventRow BY <1>0, <3>1, EventType
    <3> QED BY <3>2 DEF Event
  <2> QED BY <1>5, <1>event, <2>1, <2>2, <2>3, <2>5, <2>6 DEF Release
<1>6. ASSUME NEW o \in Operators, NEW i \in Items, Render(o, i) PROVE ResultsCounted'
  BY <1>6, <1>same DEF Render
<1>7. ASSUME NEW i \in Items, NEW p, Approve(i, p) \/ Defer(i, p) PROVE ResultsCounted'
  <2>1. PICK b \in BOOLEAN : Put(i, [item[i] EXCEPT !.admitted = b]) /\ ledger' = ledger
    BY <1>7 DEF Approve, Defer, Decide
  <2>2. PICK row : row = [item[i] EXCEPT !.admitted = b] OBVIOUS
  <2>3. row \in ItemRow /\ SameResults(item[i], row)
    BY <1>row, <2>2 DEF ItemRow, SameResults
  <2> QED BY <1>put, <2>1, <2>2, <2>3
<1>8. ASSUME NEW i \in Items, NEW p, Note(i, p) PROVE ResultsCounted'
  <2>1. SameResults(item[i], item[i]) BY DEF SameResults
  <2> QED BY <1>8, <1>row, <1>put, <2>1 DEF Note, Decide
<1>9. ASSUME NEW i \in Items, NEW p, NEW priority \in Priorities, Prioritize(i, p, priority)
      PROVE  ResultsCounted'
  <2>1. PICK row : row = [item[i] EXCEPT !.priority = priority] OBVIOUS
  <2>2. row \in ItemRow /\ SameResults(item[i], row)
    BY <1>row, <2>1 DEF ItemRow, SameResults
  <2> QED BY <1>9, <1>put, <2>1, <2>2 DEF Prioritize, Decide
<1>10. ASSUME NEW i \in Items, NEW p, Reject(i, p) PROVE ResultsCounted'
  <2>1. PICK row : row = [item[i] EXCEPT !.status = "cancelled", !.result = "cancelled"] OBVIOUS
  <2>2. row \in ItemRow BY <1>row, <2>1, MovedRowType
  <2>3. SameResults(item[i], row) BY <1>row, <2>1 DEF ItemRow, SameResults
  <2> QED BY <1>10, <1>put, <2>1, <2>2, <2>3 DEF Reject, Decide
<1>11. ASSUME NEW i \in Items, NEW p, Cancel(i, p) \/ RetirePullRequestBoundWork(i)
       PROVE  ResultsCounted'
  <2>1. PICK clear \in ItemRow : /\ clear = Unleased(item[i])
                                 /\ clear.previousResults = item[i].previousResults
    BY <1>row, UnleasedResults
  <2>2. PICK row : row = [clear EXCEPT !.status = "cancelled", !.result = "cancelled"] OBVIOUS
  <2>3. row \in ItemRow BY <2>1, <2>2, MovedRowType
  <2>4. SameResults(item[i], row) BY <2>1, <2>2 DEF ItemRow, SameResults
  <2> QED BY <1>11, <1>put, <2>1, <2>2, <2>3, <2>4 DEF Cancel, RetirePullRequestBoundWork, Decide
<1>12. ASSUME NEW i \in Items, NEW p, Requeue(i, p) PROVE ResultsCounted'
  <2>1. item[i].status = "blocked" BY <1>12, <1>row, QueuedStatus DEF Requeue
  <2>2. PICK clear \in ItemRow : /\ clear = Unleased(item[i])
                                 /\ clear.previousResults = item[i].previousResults
    BY <1>row, UnleasedResults
  <2>3. item[i].result = "blocked" /\ item[i].previousResults \in Nat
        /\ Cardinality(Blocks(ledger[i])) = item[i].previousResults + 1
    BY <1>c, <1>row, <2>1 DEF Counts, ItemRow
  <2>4. PICK kept \in Nat : kept = clear.previousResults + 1 BY <2>2, <2>3
  <2>5. Put(i, [clear EXCEPT !.status = "queued", !.result = "none", !.previousResults = kept])
    BY <1>12, <2>2, <2>3, <2>4 DEF Requeue, Decide
  <2>6. PICK row : row = [clear EXCEPT !.status = "queued", !.result = "none",
                                       !.previousResults = kept]
    OBVIOUS
  <2>7. row \in ItemRow BY <2>2, <2>4, <2>6, RequeuedRowType
  <2>8. row.status = "queued" /\ row.previousResults = kept BY <2>2, <2>6 DEF ItemRow
  <2>9. ledger' = ledger BY <1>12 DEF Requeue
  <2>10. Counts(row, Cardinality(Blocks(ledger'[i]))) BY <2>2, <2>3, <2>4, <2>8, <2>9 DEF Counts
  <2> QED BY <2>5, <2>6, <2>7, <2>9, <2>10, PutCounts
<1>13. ASSUME NEW i \in Items, NEW p, NEW actor \in OperatorActors, ReleaseLease(i, p, actor)
       PROVE  ResultsCounted'
  <2>1. PICK clear \in ItemRow : /\ clear = Unleased(item[i])
                                 /\ clear.previousResults = item[i].previousResults
    BY <1>row, UnleasedResults
  <2>2. PICK row : row = [clear EXCEPT !.status = "queued"] OBVIOUS
  <2>3. row \in ItemRow BY <2>1, <2>2, MovedRowType
  <2>4. item[i].status = "claimed" BY <1>13, <1>row, QueuedStatus DEF ReleaseLease
  <2>5. SameResults(item[i], row) BY <2>1, <2>2, <2>4 DEF ItemRow, SameResults
  <2>6. PICK e \in EventRow : e = Event("released", actor, 0) /\ e.type = "released"
    <3>1. Event("released", actor, 0) \in EventRow BY <1>0, EventType
    <3> QED BY <3>1 DEF Event
  <2> QED BY <1>13, <1>event, <2>1, <2>2, <2>3, <2>5, <2>6 DEF ReleaseLease, Decide
<1>14. ASSUME NEW i \in Items, NEW p, NEW kind \in Reportable, AttachArtifact(i, p, kind)
       PROVE  ResultsCounted'
  <2>1. PICK delivery \in Deliveries({kind}) :
          Decide(i, p, [item[i] EXCEPT !.reported = @ \cup {kind},
                                       !.result = IF delivery = "pending" THEN "pending" ELSE @])
    BY <1>14 DEF AttachArtifact
  <2>2. kind \in ArtifactKinds BY NumbersAssumption
  <2>3. PICK row : row = [item[i] EXCEPT !.reported = @ \cup {kind},
                                         !.result = IF delivery = "pending" THEN "pending" ELSE @]
    OBVIOUS
  <2>4. item[i].status = "completed" /\ ledger' = ledger
    BY <1>14, <1>row, QueuedStatus DEF AttachArtifact
  <2>5. row \in ItemRow BY <1>row, <2>2, <2>3 DEF ItemRow, Results
  <2>6. SameResults(item[i], row) BY <1>row, <2>3, <2>4 DEF ItemRow, SameResults
  <2> QED BY <1>put, <2>1, <2>3, <2>4, <2>5, <2>6 DEF Decide
<1>15. ASSUME NEW r \in Repositories, NEW b \in BOOLEAN, SetRepositoryEnabled(r, b)
       PROVE  ResultsCounted'
  BY <1>15, <1>same DEF SetRepositoryEnabled
<1>16. ASSUME NEW i \in Items, NEW priority \in Priorities, EnqueueAdmittedRoot(i, priority)
       PROVE  ResultsCounted'
  <2>1. item[i].status = "absent" /\ ledger' = ledger
    BY <1>16 DEF EnqueueAdmittedRoot, RootAccepted, Exists
  <2>2. /\ item'[i] = NewItem(i, TRUE, priority, {}, 0, i, 0)
        /\ \A j \in Items \ {i} : item'[j] = item[j]
    BY <1>0, <1>16 DEF EnqueueAdmittedRoot
  <2>3. Counts(item'[i], Cardinality(Blocks(ledger[i]))) BY <1>c, <2>1, <2>2, NewItemCounts
  <2> QED BY <1>c, <2>1, <2>2, <2>3 DEF ResultsCounted
<1>17. ASSUME NEW S \in SUBSET Items, NEW priority \in Priorities, NEW edges,
              EnqueueProposedRoots(S, priority, edges)
       PROVE  ResultsCounted'
  <2>1. (\A j \in S : item[j].status = "absent") /\ ledger' = ledger
    BY <1>17 DEF EnqueueProposedRoots, RootAccepted, Exists
  <2>2. item' = [i \in Items |-> IF i \in S THEN NewItem(i, FALSE, priority, edges[i], 0, i, 0)
                                            ELSE item[i]]
    BY <1>17 DEF EnqueueProposedRoots
  <2>3. ASSUME NEW j \in S PROVE Counts(item'[j], Cardinality(Blocks(ledger[j])))
    <3>1. item'[j] = NewItem(j, FALSE, priority, edges[j], 0, j, 0) BY <2>2
    <3> QED BY <1>c, <2>1, <3>1, NewItemCounts
  <2>4. \A j \in Items \ S : item'[j] = item[j] BY <2>2
  <2> QED BY <1>c, <2>1, <2>3, <2>4 DEF ResultsCounted
<1>18. ASSUME NEW i \in Items, NEW refs \in Edges[i], ReplaceProposedPredecessors(i, refs)
       PROVE  ResultsCounted'
  <2>1. refs \in SUBSET SourceRefs BY DefinitionAssumption
  <2>2. PICK row : row = [item[i] EXCEPT !.predecessors = refs] OBVIOUS
  <2>3. row \in ItemRow /\ SameResults(item[i], row)
    BY <1>row, <2>1, <2>2 DEF ItemRow, SameResults
  <2> QED BY <1>18, <1>put, <2>2, <2>3 DEF ReplaceProposedPredecessors
<1>19. ASSUME NEW i \in Items, RecordArtifactVerification(i) PROVE ResultsCounted'
  <2>1. PICK delivery \in Deliveries(item[i].reported) : Put(i, [item[i] EXCEPT !.result = delivery])
    BY <1>19 DEF RecordArtifactVerification
  <2>2. PICK row : row = [item[i] EXCEPT !.result = delivery] OBVIOUS
  <2>3. item[i].status = "completed" /\ ledger' = ledger BY <1>19 DEF RecordArtifactVerification
  <2>4. row \in ItemRow BY <1>row, <2>2 DEF ItemRow, Results, Deliveries
  <2>5. SameResults(item[i], row) BY <1>row, <2>2, <2>3 DEF ItemRow, SameResults
  <2> QED BY <1>put, <2>1, <2>2, <2>3, <2>4, <2>5
<1>20. CASE Tick
  BY <1>20, <1>same DEF Tick
<1>21. CASE UNCHANGED vars
  BY <1>21, <1>same DEF vars
<1>22. CASE WorkerCall
  BY <1>22, <1>1, <1>2, <1>3, <1>4, <1>5 DEF WorkerCall
<1>23. CASE OperatorCall
  BY <1>23, <1>6, <1>7, <1>8, <1>9, <1>10, <1>11, <1>12, <1>13, <1>14 DEF OperatorCall
<1>24. CASE Intake
  BY <1>24, <1>15, <1>16, <1>17, <1>18 DEF Intake
<1>25. CASE Sweep
  BY <1>25, <1>11, <1>19 DEF Sweep
<1> QED BY <1>20, <1>21, <1>22, <1>23, <1>24, <1>25 DEF Next

(* Requeue erases no block result: however often an item is blocked and    *)
(* requeued, every work.blocked event of an item that is not cancelled is  *)
(* its current result or one of previousResults.                           *)
THEOREM BlockResultsStayKept == Spec => []BlockResultsKept
<1>1. Init => ResultsCounted
  <2> SUFFICES ASSUME Init PROVE ResultsCounted OBVIOUS
  <2>1. ASSUME NEW i \in Items PROVE Counts(item[i], Cardinality(Blocks(ledger[i])))
    <3>1. /\ item[i].status = "absent" /\ item[i].previousResults = 0
          /\ Blocks(ledger[i]) = {}
      BY <2>1 DEF Init, Absent, Blocks
    <3> QED BY <3>1, FS_EmptySet DEF Counts
  <2> QED BY <2>1 DEF ResultsCounted
<1>2. ResultsCounted => BlockResultsKept
  BY DEF ResultsCounted, Counts, Blocks, BlockResultsKept
<1> QED BY <1>1, <1>2, ResultsStep, TypeCorrect, PTL DEF Spec
====

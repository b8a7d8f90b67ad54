---- MODULE WorkQueueProofs ----
(***************************************************************************)
(* Theorems about the work queue, for every set of items, workers,         *)
(* operators and repositories and every value of the limits.               *)
(***************************************************************************)
EXTENDS WorkQueue, TLAPS

----------------------------------------------------------------------------
(* What the building blocks of the actions return.                         *)

(* Clearing a lease leaves a row.                                          *)
LEMMA UnleasedType ==
  ASSUME NEW row \in ItemRow PROVE Unleased(row) \in ItemRow
BY DEF Unleased, ItemRow

(* An item that was never created has a row.                               *)
LEMMA AbsentType == Absent \in ItemRow
BY NumbersAssumption DEF Absent, ItemRow, Statuses, Results

(* A new item's row, whoever creates it.                                   *)
LEMMA NewItemType ==
  ASSUME now \in Nat, NEW i, NEW admitted \in BOOLEAN, NEW priority \in Priorities,
         NEW predecessors \in SUBSET SourceRefs, NEW parent \in Items \cup {0},
         NEW root \in Items \cup {0}, NEW depth \in Nat
  PROVE  NewItem(i, admitted, priority, predecessors, parent, root, depth) \in ItemRow
BY AbsentType DEF NewItem, ItemRow, Statuses

(* The row of a completed item.                                            *)
LEMMA CompletedRowType ==
  ASSUME now \in Nat, NEW row \in ItemRow, NEW result \in Results,
         NEW reported \in SUBSET ArtifactKinds
  PROVE  [row EXCEPT !.status = "completed", !.result = result, !.reported = reported,
                     !.updatedAt = now] \in ItemRow
BY DEF ItemRow, Statuses

(* The row of a requeued item.                                             *)
LEMMA RequeuedRowType ==
  ASSUME NEW row \in ItemRow, NEW kept \in Nat
  PROVE  [row EXCEPT !.status = "queued", !.result = "none", !.previousResults = kept] \in ItemRow
BY DEF ItemRow, Statuses, Results

(* The row of an item that is queued again, blocked or cancelled.          *)
LEMMA MovedRowType ==
  ASSUME NEW row \in ItemRow
  PROVE  /\ [row EXCEPT !.status = "queued"] \in ItemRow
         /\ [row EXCEPT !.status = "blocked", !.result = "blocked"] \in ItemRow
         /\ [row EXCEPT !.status = "cancelled", !.result = "cancelled"] \in ItemRow
<1>1. {"queued", "blocked", "cancelled"} \subseteq Statuses BY DEF Statuses
<1>2. {"blocked", "cancelled"} \subseteq Results BY DEF Results
<1>3. \A status \in Statuses : [row EXCEPT !.status = status] \in ItemRow BY DEF ItemRow
<1>4. \A status \in Statuses, result \in Results :
        [row EXCEPT !.status = status, !.result = result] \in ItemRow
  BY DEF ItemRow
<1> QED BY <1>1, <1>2, <1>3, <1>4

(* Writing a row keeps the table of rows.                                  *)
LEMMA PutType ==
  ASSUME now \in Nat, item \in [Items -> ItemRow], NEW i \in Items, NEW row \in ItemRow, Put(i, row)
  PROVE  item' \in [Items -> ItemRow]
BY DEF Put, ItemRow

(* Moving or applying forms keeps them forms.                              *)
LEMMA MoveFormsType ==
  ASSUME forms \in [Operators -> Form], NEW i, NEW p
  PROVE  MoveForms(i) \in [Operators -> Form] /\ Applied(i, p) \in [Operators -> Form]
<1>1. MoveForms(i) \in [Operators -> Form]
  BY DEF MoveForms, Form
<1> QED BY <1>1 DEF Applied, Form

(* An event of the ledger.                                                 *)
LEMMA EventType ==
  ASSUME now \in Nat, NEW type \in {"claimed", "completed", "blocked", "released", "expired"},
         NEW actor \in Workers \cup OperatorActors \cup {"system"}, NEW grant \in Nat
  PROVE  Event(type, actor, grant) \in EventRow
BY DEF Event, EventRow

(* Appending an event keeps the ledger.                                    *)
LEMMA AddEventType ==
  ASSUME ledger \in [Items -> Seq(EventRow)], NEW i \in Items, NEW e \in EventRow, AddEvent(i, e)
  PROVE  ledger' \in [Items -> Seq(EventRow)]
BY DEF AddEvent

(* The common shape of an operator decision.                               *)
LEMMA DecideType ==
  ASSUME TypeOK, NEW i \in Items, NEW p, NEW row \in ItemRow, Decide(i, p, row)
  PROVE  /\ now' = now /\ enabled' = enabled /\ grants' = grants
         /\ item' \in [Items -> ItemRow] /\ forms' \in [Operators -> Form]
<1>1. now \in Nat /\ item \in [Items -> ItemRow] /\ forms \in [Operators -> Form] BY DEF TypeOK
<1>2. Put(i, row) /\ forms' = Applied(i, p) BY DEF Decide
<1>3. item' \in [Items -> ItemRow] BY <1>1, <1>2, PutType
<1>4. forms' \in [Operators -> Form] BY <1>1, <1>2, MoveFormsType
<1> QED BY <1>3, <1>4 DEF Decide

(* A claim returns an item that its filters and the gates let through.     *)
LEMMA ClaimChoicesClaimable ==
  ASSUME NEW repos, NEW kinds, NEW i \in ClaimChoices(repos, kinds)
  PROVE  i \in Items /\ Claimable(i)
<1> DEFINE running == {j \in Items : /\ Claimable(j) /\ RepositoryOf[j] \in repos
                                     /\ Definition[j].kind \in kinds}
           ungated == {j \in running : item[j].predecessors = {}}
           gated   == {j \in running \ ungated :
                         \A ref \in item[j].predecessors : PredecessorSatisfied(ref)}
<1>1. PICK u \in FirstRow(ungated), g \in FirstRow(gated) : i = BetterClaimCandidate(u, g)
  BY Zenon DEF ClaimChoices
<1>2. i \in Items /\ i # 0
  BY ItemsAssumption DEF ClaimChoices
<1>3. u \in running \cup {0} /\ g \in running \cup {0}
  BY DEF FirstRow
<1>4. running \subseteq Nat
  BY ItemsAssumption
<1> HIDE DEF running, ungated, gated
<1>5. i \in {u, g}
  BY <1>1, <1>3, <1>4 DEF BetterClaimCandidate
<1> QED BY <1>2, <1>3, <1>5 DEF running

----------------------------------------------------------------------------
(* Type correctness.                                                       *)

(* Every step keeps every table well formed.                               *)
LEMMA TypeStep == TypeOK /\ [Next]_vars => TypeOK'
<1> SUFFICES ASSUME TypeOK, [Next]_vars PROVE TypeOK'
  OBVIOUS
<1>0. /\ now \in Nat /\ item \in [Items -> ItemRow] /\ forms \in [Operators -> Form]
      /\ ledger \in [Items -> Seq(EventRow)] /\ enabled \in [Repositories -> BOOLEAN]
      /\ grants \in Seq([item : Items, worker : Workers])
  BY DEF TypeOK
<1>moved. \A i : MoveForms(i) \in [Operators -> Form]
  BY <1>0, MoveFormsType
<1>row. ASSUME NEW i \in Items PROVE item[i] \in ItemRow /\ Unleased(item[i]) \in ItemRow
  BY <1>0, UnleasedType
<1>decided. ASSUME NEW i \in Items, NEW p, NEW row \in ItemRow, Decide(i, p, row), UNCHANGED ledger
            PROVE  TypeOK'
  BY <1>0, <1>decided, DecideType DEF TypeOK
<1>1. ASSUME NEW w \in Workers, NEW term \in LeaseTerms, NEW repos, NEW kinds,
             Claim(w, term, repos, kinds)
      PROVE  TypeOK'
  <2>1. PICK i \in ClaimChoices(repos, kinds) : GrantLease(i, w, term)
    BY <1>1 DEF Claim
  <2>2. i \in Items
    BY ClaimChoicesClaimable
  <2> DEFINE token   == Len(grants) + 1
             lapsed  == [Event("expired", "system", 0) EXCEPT !.ended = item[i].expires]
             claimed == Event("claimed", w, token)
             row == [item[i] EXCEPT !.status = "claimed", !.owner = w, !.token = token,
                                    !.expires = now + term]
  <2>3. token \in Nat /\ now + term \in Nat
    BY <1>0, NumbersAssumption
  <2>4. row \in ItemRow
    <3>1. item[i] \in ItemRow BY <1>row, <2>2
    <3>2. "claimed" \in Statuses BY DEF Statuses
    <3>3. w \in Workers \cup {NoOne} BY <1>1
    <3> QED BY <2>3, <3>1, <3>2, <3>3 DEF ItemRow
  <2>5. Event("expired", "system", 0) \in EventRow /\ claimed \in EventRow
    BY <1>0, <2>3, EventType
  <2>6. lapsed \in EventRow
    BY <1>row, <2>2, <2>5 DEF EventRow, ItemRow
  <2>7. item' \in [Items -> ItemRow]
    <3>1. Put(i, row) BY <2>1 DEF GrantLease
    <3> HIDE DEF row
    <3> QED BY <1>0, <2>2, <2>4, <3>1, PutType
  <2>8. ledger' \in [Items -> Seq(EventRow)]
    <3>1. ledger' = [ledger EXCEPT ![i] =
                       IF item[i].status = "claimed" THEN @ \o <<lapsed, claimed>>
                                                     ELSE Append(@, claimed)]
      BY <2>1 DEF GrantLease
    <3> HIDE DEF lapsed, claimed
    <3>2. <<lapsed, claimed>> \in Seq(EventRow) BY <2>5, <2>6
    <3>3. ledger[i] \in Seq(EventRow) BY <1>0, <2>2
    <3>4. ledger[i] \o <<lapsed, claimed>> \in Seq(EventRow) BY <3>2, <3>3
    <3>5. Append(ledger[i], claimed) \in Seq(EventRow) BY <2>5, <3>3
    <3> QED BY <1>0, <2>2, <3>1, <3>4, <3>5
  <2>9. grants' \in Seq([item : Items, worker : Workers])
    BY <1>0, <2>1, <2>2 DEF GrantLease
  <2> QED BY <1>0, <1>moved, <2>1, <2>7, <2>8, <2>9 DEF TypeOK, GrantLease
<1>2. ASSUME NEW i \in Items, NEW w \in Workers, NEW t \in DOMAIN grants, NEW term \in LeaseTerms,
             Heartbeat(i, t, w, term)
      PROVE  TypeOK'
  <2>1. [item[i] EXCEPT !.expires = now + term] \in ItemRow
    <3>1. now + term \in Nat BY <1>0, NumbersAssumption
    <3> QED BY <1>row, <3>1 DEF ItemRow
  <2>2. item' \in [Items -> ItemRow]
    BY <1>0, <1>2, <2>1, PutType DEF Heartbeat
  <2> QED BY <1>0, <1>2, <1>moved, <2>2 DEF TypeOK, Heartbeat
<1>3. ASSUME NEW i \in Items, NEW w \in Workers, NEW t \in DOMAIN grants,
             NEW reported \in SUBSET Reportable, NEW kids \in SUBSET Items,
             Complete(i, t, w, reported, kids)
      PROVE  TypeOK'
  <2>1. PICK delivery \in Deliveries(reported) :
          item' = [j \in Items |->
            IF j = i THEN [Unleased(item[i]) EXCEPT !.status = "completed", !.result = delivery,
                                                    !.reported = reported, !.updatedAt = now]
            ELSE IF j \in kids
            THEN NewItem(j, FALSE, item[i].priority, {}, i, item[i].root, item[i].depth + 1)
            ELSE item[j]]
    BY <1>3 DEF Complete
  <2>2. delivery \in Results /\ reported \in SUBSET ArtifactKinds
    BY NumbersAssumption DEF Deliveries, Results
  <2>3. [Unleased(item[i]) EXCEPT !.status = "completed", !.result = delivery,
                                  !.reported = reported, !.updatedAt = now] \in ItemRow
    BY <1>0, <1>row, <2>2, CompletedRowType
  <2>4. ASSUME NEW j \in Items
        PROVE  NewItem(j, FALSE, item[i].priority, {}, i, item[i].root, item[i].depth + 1) \in ItemRow
    <3>1. item[i].priority \in Priorities /\ item[i].root \in Items \cup {0} /\ item[i].depth + 1 \in Nat
      BY <1>row DEF ItemRow
    <3> QED BY <1>0, <3>1, NewItemType
  <2>5. item' \in [Items -> ItemRow]
    BY <1>0, <2>1, <2>3, <2>4
  <2>6. ledger' \in [Items -> Seq(EventRow)]
    <3>1. t \in Nat BY <1>0
    <3>2. Event("completed", w, t) \in EventRow BY <1>0, <3>1, EventType
    <3> QED BY <1>0, <1>3, <3>2, AddEventType DEF Complete
  <2> QED BY <1>0, <1>3, <1>moved, <2>5, <2>6 DEF TypeOK, Complete
<1>4. ASSUME NEW i \in Items, NEW w \in Workers, NEW t \in DOMAIN grants, Block(i, t, w)
      PROVE  TypeOK'
  <2> DEFINE before == Unleased(item[i])
  <2>1. [before EXCEPT !.status = "blocked", !.result = "blocked"] \in ItemRow
    <3>1. before \in ItemRow BY <1>row
    <3> HIDE DEF before
    <3> QED BY <3>1, MovedRowType
  <2>2. item' \in [Items -> ItemRow]
    BY <1>0, <1>4, <2>1, PutType DEF Block
  <2>3. ledger' \in [Items -> Seq(EventRow)]
    <3>1. Event("blocked", w, t) \in EventRow BY <1>0, EventType
    <3> QED BY <1>0, <1>4, <3>1, AddEventType DEF Block
  <2> QED BY <1>0, <1>4, <1>moved, <2>2, <2>3 DEF TypeOK, Block
<1>5. ASSUME NEW i \in Items, NEW w \in Workers, NEW t \in DOMAIN grants, Release(i, t, w)
      PROVE  TypeOK'
  <2>1. [Unleased(item[i]) EXCEPT !.status = "queued"] \in ItemRow
    BY <1>row, MovedRowType
  <2>2. item' \in [Items -> ItemRow]
    BY <1>0, <1>5, <2>1, PutType DEF Release
  <2>3. ledger' \in [Items -> Seq(EventRow)]
    <3>1. Event("released", w, t) \in EventRow BY <1>0, EventType
    <3> QED BY <1>0, <1>5, <3>1, AddEventType DEF Release
  <2> QED BY <1>0, <1>5, <1>moved, <2>2, <2>3 DEF TypeOK, Release
<1>6. ASSUME NEW o \in Operators, NEW i \in Items, Render(o, i) PROVE TypeOK'
  <2>1. [item |-> i, status |-> Status(i), updatedAt |-> item[i].updatedAt,
         moved |-> "no", applied |-> FALSE] \in Form
    BY <1>row DEF Form, ItemRow, Status
  <2> QED BY <1>0, <1>6, <2>1 DEF TypeOK, Render
<1>7. ASSUME NEW i \in Items, NEW p, Approve(i, p) \/ Defer(i, p) PROVE TypeOK'
  <2>1. \A b \in BOOLEAN : [item[i] EXCEPT !.admitted = b] \in ItemRow BY <1>row DEF ItemRow
  <2> QED BY <1>7, <1>decided, <2>1 DEF Approve, Defer
<1>8. ASSUME NEW i \in Items, NEW p, Note(i, p) PROVE TypeOK'
  BY <1>8, <1>row, <1>decided DEF Note
<1>9. ASSUME NEW i \in Items, NEW p, NEW priority \in Priorities, Prioritize(i, p, priority)
      PROVE  TypeOK'
  <2>1. [item[i] EXCEPT !.priority = priority] \in ItemRow BY <1>row DEF ItemRow
  <2> QED BY <1>9, <1>decided, <2>1 DEF Prioritize
<1>10. ASSUME NEW i \in Items, NEW p, Reject(i, p) \/ Cancel(i, p) PROVE TypeOK'
  <2>1. [item[i] EXCEPT !.status = "cancelled", !.result = "cancelled"] \in ItemRow
    BY <1>row, MovedRowType
  <2>2. [Unleased(item[i]) EXCEPT !.status = "cancelled", !.result = "cancelled"] \in ItemRow
    BY <1>row, MovedRowType
  <2> QED BY <1>10, <1>decided, <2>1, <2>2 DEF Reject, Cancel
<1>11. ASSUME NEW i \in Items, NEW p, Requeue(i, p) PROVE TypeOK'
  <2> DEFINE before == Unleased(item[i])
             kept == IF item[i].result # "none" THEN before.previousResults + 1
                                                ELSE before.previousResults
             row == [before EXCEPT !.status = "queued", !.result = "none", !.previousResults = kept]
  <2>1. before \in ItemRow /\ kept \in Nat BY <1>row DEF ItemRow
  <2>2. Decide(i, p, row) /\ UNCHANGED ledger BY <1>11 DEF Requeue
  <2>3. row \in ItemRow
    <3> HIDE DEF before, kept
    <3> QED BY <2>1, RequeuedRowType
  <2> HIDE DEF row
  <2> QED BY <1>decided, <2>2, <2>3
<1>12. ASSUME NEW i \in Items, NEW p, NEW actor \in OperatorActors, ReleaseLease(i, p, actor)
       PROVE  TypeOK'
  <2>1. [Unleased(item[i]) EXCEPT !.status = "queued"] \in ItemRow
    BY <1>row, MovedRowType
  <2>2. Event("released", actor, 0) \in EventRow BY <1>0, EventType
  <2>3. ledger' \in [Items -> Seq(EventRow)]
    BY <1>0, <1>12, <2>2, AddEventType DEF ReleaseLease
  <2> QED BY <1>0, <1>12, <2>1, <2>3, DecideType DEF TypeOK, ReleaseLease
<1>13. ASSUME NEW i \in Items, NEW p, NEW kind \in Reportable, AttachArtifact(i, p, kind)
       PROVE  TypeOK'
  <2>1. PICK delivery \in Deliveries({kind}) :
          Decide(i, p, [item[i] EXCEPT !.reported = @ \cup {kind},
                                       !.result = IF delivery = "pending" THEN "pending" ELSE @])
    BY <1>13 DEF AttachArtifact
  <2>2. kind \in ArtifactKinds BY NumbersAssumption
  <2>3. [item[i] EXCEPT !.reported = @ \cup {kind},
                        !.result = IF delivery = "pending" THEN "pending" ELSE @] \in ItemRow
    BY <1>row, <2>2 DEF ItemRow, Results
  <2> QED BY <1>13, <1>decided, <2>1, <2>3 DEF AttachArtifact
<1>14. ASSUME NEW r \in Repositories, NEW e \in BOOLEAN, SetRepositoryEnabled(r, e) PROVE TypeOK'
  BY <1>0, <1>14 DEF TypeOK, SetRepositoryEnabled
<1>15. ASSUME NEW i \in Items, NEW priority \in Priorities, EnqueueAdmittedRoot(i, priority)
       PROVE  TypeOK'
  <2>1. NewItem(i, TRUE, priority, {}, 0, i, 0) \in ItemRow BY <1>0, NewItemType
  <2> QED BY <1>0, <1>15, <2>1 DEF TypeOK, EnqueueAdmittedRoot
<1>16. ASSUME NEW S \in SUBSET Items, NEW priority \in Priorities, NEW edges,
              EnqueueProposedRoots(S, priority, edges)
       PROVE  TypeOK'
  <2>1. ASSUME NEW i \in S PROVE NewItem(i, FALSE, priority, edges[i], 0, i, 0) \in ItemRow
    <3>1. edges[i] \in SUBSET SourceRefs
      BY <1>16, DefinitionAssumption DEF EnqueueProposedRoots
    <3> QED BY <1>0, <3>1, NewItemType
  <2>2. item' \in [Items -> ItemRow] BY <1>0, <1>16, <2>1 DEF EnqueueProposedRoots
  <2> QED BY <1>0, <1>16, <2>2 DEF TypeOK, EnqueueProposedRoots
<1>17. ASSUME NEW i \in Items, NEW refs \in Edges[i], ReplaceProposedPredecessors(i, refs)
       PROVE  TypeOK'
  <2>1. refs \in SUBSET SourceRefs BY DefinitionAssumption
  <2>2. [item[i] EXCEPT !.predecessors = refs] \in ItemRow BY <1>row, <2>1 DEF ItemRow
  <2>3. item' \in [Items -> ItemRow]
    BY <1>0, <1>17, <2>2, PutType DEF ReplaceProposedPredecessors
  <2> QED BY <1>0, <1>17, <1>moved, <2>3 DEF TypeOK, ReplaceProposedPredecessors
<1>18. ASSUME NEW i \in Items, RetirePullRequestBoundWork(i) PROVE TypeOK'
  <2>1. [Unleased(item[i]) EXCEPT !.status = "cancelled", !.result = "cancelled"] \in ItemRow
    BY <1>row, MovedRowType
  <2>2. item' \in [Items -> ItemRow]
    BY <1>0, <1>18, <2>1, PutType DEF RetirePullRequestBoundWork
  <2> QED BY <1>0, <1>18, <1>moved, <2>2 DEF TypeOK, RetirePullRequestBoundWork
<1>19. ASSUME NEW i \in Items, RecordArtifactVerification(i) PROVE TypeOK'
  <2>1. PICK delivery \in Deliveries(item[i].reported) : Put(i, [item[i] EXCEPT !.result = delivery])
    BY <1>19 DEF RecordArtifactVerification
  <2>2. [item[i] EXCEPT !.result = delivery] \in ItemRow
    BY <1>row DEF ItemRow, Results, Deliveries
  <2>3. item' \in [Items -> ItemRow] BY <1>0, <2>1, <2>2, PutType
  <2> QED BY <1>0, <1>19, <1>moved, <2>3 DEF TypeOK, RecordArtifactVerification
<1>20. CASE Tick
  BY <1>0, <1>20 DEF TypeOK, Tick
<1>21. CASE UNCHANGED vars
  BY <1>0, <1>21 DEF TypeOK, vars
<1>22. CASE WorkerCall
  BY <1>22, <1>1, <1>2, <1>3, <1>4, <1>5 DEF WorkerCall
<1>23. CASE OperatorCall
  BY <1>23, <1>6, <1>7, <1>8, <1>9, <1>10, <1>11, <1>12, <1>13 DEF OperatorCall
<1>24. CASE Intake
  BY <1>24, <1>14, <1>15, <1>16, <1>17 DEF Intake
<1>25. CASE Sweep
  BY <1>25, <1>18, <1>19 DEF Sweep
<1> QED BY <1>20, <1>21, <1>22, <1>23, <1>24, <1>25 DEF Next

(* Every row, event, grant and form of the store is well formed, always.   *)
THEOREM TypeCorrect == Spec => []TypeOK
<1>1. Init => TypeOK
  BY AbsentType DEF Init, TypeOK, NoForm, Form, Statuses
<1> QED BY <1>1, TypeStep, PTL DEF Spec

----------------------------------------------------------------------------
(* A row carries a lease exactly while it is claimed.  The invariant is    *)
(* inductive with TypeOK; RowSound is its part about one row.              *)

RowSound(i, row, given) ==
  /\ row.status = "claimed" <=> row.token # 0
  /\ row.status = "claimed" => /\ row.token \in DOMAIN given
                               /\ given[row.token] = [item |-> i, worker |-> row.owner]
  /\ row.status \in {"claimed", "blocked", "completed"} => row.admitted

(* The invariant, row by row.                                              *)
LEMMA LeaseRows == LeaseRowSound <=> \A i \in Items : RowSound(i, item[i], grants)
BY DEF LeaseRowSound, RowSound

(* The same in the next state.                                             *)
LEMMA LeaseRowsNext == LeaseRowSound' <=> \A i \in Items : RowSound(i, item'[i], grants')
BY DEF LeaseRowSound, RowSound

(* A later claim disturbs no other row.                                    *)
LEMMA SoundAfterGrant ==
  ASSUME NEW i, NEW row, NEW G, NEW given \in Seq(G), NEW g \in G, RowSound(i, row, given)
  PROVE  RowSound(i, row, Append(given, g))
BY DEF RowSound

(* Clearing the lease of a row that is not left claimed makes it sound.    *)
LEMMA UnleasedFields ==
  ASSUME NEW row \in ItemRow
  PROVE  /\ Unleased(row).token = 0 /\ Unleased(row).owner = NoOne
         /\ Unleased(row).status = row.status /\ Unleased(row).admitted = row.admitted
BY DEF Unleased, ItemRow

(* Writing a sound row keeps every row sound.                              *)
LEMMA PutSound ==
  ASSUME item \in [Items -> ItemRow], LeaseRowSound, NEW i \in Items, NEW row \in ItemRow,
         Put(i, row), grants' = grants, RowSound(i, row, grants)
  PROVE  LeaseRowSound'
<1>1. item' = [item EXCEPT ![i] = [row EXCEPT !.updatedAt = now]] BY DEF Put
<1>2. RowSound(i, [row EXCEPT !.updatedAt = now], grants) BY DEF RowSound, ItemRow
<1>3. \A j \in Items : RowSound(j, item'[j], grants') BY <1>1, <1>2, LeaseRows
<1> QED BY <1>3, LeaseRowsNext

(* A queued row reads as queued or proposed, and nothing else does.        *)
LEMMA QueuedStatus ==
  ASSUME NEW i, item[i] \in ItemRow
  PROVE  /\ Status(i) \in {"proposed", "queued"} <=> item[i].status = "queued"
         /\ Status(i) \notin {"proposed", "queued"} => Status(i) = item[i].status
BY DEF Status, ItemRow, Statuses

(* Every step keeps leases sound.                                          *)
LEMMA LeaseStep == TypeOK /\ LeaseRowSound /\ [Next]_vars => LeaseRowSound'
<1> SUFFICES ASSUME TypeOK, LeaseRowSound, [Next]_vars PROVE LeaseRowSound'
  OBVIOUS
<1>0. item \in [Items -> ItemRow] /\ now \in Nat /\ grants \in Seq([item : Items, worker : Workers])
  BY DEF TypeOK
<1>row. ASSUME NEW i \in Items
        PROVE  /\ item[i] \in ItemRow /\ Unleased(item[i]) \in ItemRow
               /\ RowSound(i, item[i], grants)
  BY <1>0, UnleasedType, LeaseRows
<1>new. ASSUME NEW i, NEW priority \in Priorities, NEW refs \in SUBSET SourceRefs, NEW b \in BOOLEAN,
               NEW parent, NEW root, NEW depth
        PROVE  RowSound(i, NewItem(i, b, priority, refs, parent, root, depth), grants)
  BY DEF RowSound, NewItem, Absent
<1>1. ASSUME NEW w \in Workers, NEW term \in LeaseTerms, NEW repos, NEW kinds,
             Claim(w, term, repos, kinds)
      PROVE  LeaseRowSound'
  <2>1. PICK i \in ClaimChoices(repos, kinds) : GrantLease(i, w, term)
    BY <1>1 DEF Claim
  <2>2. i \in Items /\ Claimable(i)
    BY ClaimChoicesClaimable
  <2> DEFINE g == [item |-> i, worker |-> w]
             row == [item[i] EXCEPT !.status = "claimed", !.owner = w, !.token = Len(grants) + 1,
                                    !.expires = now + term, !.updatedAt = now]
  <2>3. grants' = Append(grants, g) /\ item' = [item EXCEPT ![i] = row]
    BY <2>1 DEF GrantLease, Put
  <2>4. g \in [item : Items, worker : Workers] BY <2>2
  <2>5. item[i].admitted
    BY <1>row, <2>2 DEF Claimable, RowSound
  <2>6. RowSound(i, row, grants')
    <3>1. /\ row.status = "claimed" /\ row.token = Len(grants) + 1 /\ row.owner = w
          /\ row.admitted = item[i].admitted
      BY <1>row, <2>2 DEF ItemRow
    <3>2. /\ Len(grants) + 1 \in DOMAIN grants' /\ grants'[Len(grants) + 1] = g
          /\ Len(grants) + 1 # 0
      BY <1>0, <2>3, <2>4
    <3> HIDE DEF row
    <3> QED BY <2>5, <3>1, <3>2 DEF RowSound
  <2>7. \A j \in Items : RowSound(j, item[j], grants')
    <3> HIDE DEF g
    <3> QED BY <1>0, <1>row, <2>3, <2>4, SoundAfterGrant
  <2> HIDE DEF row
  <2> QED BY <1>0, <2>2, <2>3, <2>6, <2>7, LeaseRowsNext
<1>2. ASSUME NEW i \in Items, NEW w \in Workers, NEW t, NEW term \in LeaseTerms,
             Heartbeat(i, t, w, term)
      PROVE  LeaseRowSound'
  <2>1. now + term \in Nat BY <1>0, NumbersAssumption
  <2>2. [item[i] EXCEPT !.expires = now + term] \in ItemRow BY <1>row, <2>1 DEF ItemRow
  <2>3. RowSound(i, [item[i] EXCEPT !.expires = now + term], grants)
    BY <1>row DEF ItemRow, RowSound
  <2> QED BY <1>0, <1>2, <2>2, <2>3, PutSound DEF Heartbeat
<1>3. ASSUME NEW i \in Items, NEW w \in Workers, NEW t, NEW reported \in SUBSET Reportable,
             NEW kids \in SUBSET Items, Complete(i, t, w, reported, kids)
      PROVE  LeaseRowSound'
  <2>1. PICK delivery \in Deliveries(reported) :
          item' = [j \in Items |->
            IF j = i THEN [Unleased(item[i]) EXCEPT !.status = "completed", !.result = delivery,
                                                    !.reported = reported, !.updatedAt = now]
            ELSE IF j \in kids
            THEN NewItem(j, FALSE, item[i].priority, {}, i, item[i].root, item[i].depth + 1)
            ELSE item[j]]
    BY <1>3 DEF Complete
  <2>2. item[i].admitted
    BY <1>3, <1>row DEF Complete, ActiveLease, RowSound
  <2>3. RowSound(i, [Unleased(item[i]) EXCEPT !.status = "completed", !.result = delivery,
                                             !.reported = reported, !.updatedAt = now], grants)
    <3> DEFINE row == [Unleased(item[i]) EXCEPT !.status = "completed", !.result = delivery,
                                                !.reported = reported, !.updatedAt = now]
    <3>1. row.status = "completed" /\ row.token = Unleased(item[i]).token
          /\ row.admitted = Unleased(item[i]).admitted
      BY <1>row DEF ItemRow
    <3>2. row.token = 0 /\ row.admitted = item[i].admitted
      BY <1>row, <3>1, UnleasedFields
    <3> HIDE DEF row
    <3>3. RowSound(i, row, grants) BY <2>2, <3>1, <3>2 DEF RowSound
    <3> QED BY <3>3 DEF row
  <2>4. ASSUME NEW j
        PROVE  RowSound(j, NewItem(j, FALSE, item[i].priority, {}, i, item[i].root, item[i].depth + 1),
                        grants)
    <3>1. item[i].priority \in Priorities BY <1>row DEF ItemRow
    <3> QED BY <3>1, <1>new
  <2>5. \A j \in Items : RowSound(j, item'[j], grants) BY <1>row, <2>1, <2>3, <2>4
  <2> QED BY <1>3, <2>5, LeaseRowsNext DEF Complete
<1>4. ASSUME NEW i \in Items, NEW w \in Workers, NEW t, Block(i, t, w) PROVE LeaseRowSound'
  <2>1. [Unleased(item[i]) EXCEPT !.status = "blocked", !.result = "blocked"] \in ItemRow
    BY <1>row, MovedRowType
  <2>2. item[i].admitted BY <1>4, <1>row DEF Block, ActiveLease, RowSound
  <2>3. RowSound(i, [Unleased(item[i]) EXCEPT !.status = "blocked", !.result = "blocked"], grants)
    BY <1>row, <2>2, UnleasedFields DEF ItemRow, RowSound
  <2> QED BY <1>0, <1>4, <2>1, <2>3, PutSound DEF Block
<1>5. ASSUME NEW i \in Items, NEW w \in Workers, NEW t, Release(i, t, w) PROVE LeaseRowSound'
  <2>1. [Unleased(item[i]) EXCEPT !.status = "queued"] \in ItemRow
    BY <1>row, MovedRowType
  <2>2. RowSound(i, [Unleased(item[i]) EXCEPT !.status = "queued"], grants)
    BY <1>row, UnleasedFields DEF ItemRow, RowSound
  <2> QED BY <1>0, <1>5, <2>1, <2>2, PutSound DEF Release
<1>6. ASSUME NEW i \in Items, NEW p, Approve(i, p) \/ Defer(i, p) PROVE LeaseRowSound'
  <2>1. ASSUME NEW b \in BOOLEAN PROVE [item[i] EXCEPT !.admitted = b] \in ItemRow
    BY <1>row DEF ItemRow
  <2>2. item[i].status = "queued" BY <1>6, <1>row, QueuedStatus DEF Approve, Defer
  <2>3. ASSUME NEW b \in BOOLEAN PROVE RowSound(i, [item[i] EXCEPT !.admitted = b], grants)
    BY <1>row, <2>2 DEF ItemRow, RowSound
  <2>4. grants' = grants /\ \E b \in BOOLEAN : Put(i, [item[i] EXCEPT !.admitted = b])
    BY <1>6 DEF Approve, Defer, Decide
  <2> QED BY <1>0, <2>1, <2>3, <2>4, PutSound
<1>7. ASSUME NEW i \in Items, NEW p, Note(i, p) PROVE LeaseRowSound'
  BY <1>0, <1>7, <1>row, PutSound DEF Note, Decide
<1>8. ASSUME NEW i \in Items, NEW p, NEW priority \in Priorities, Prioritize(i, p, priority)
      PROVE  LeaseRowSound'
  <2>1. [item[i] EXCEPT !.priority = priority] \in ItemRow BY <1>row DEF ItemRow
  <2>2. RowSound(i, [item[i] EXCEPT !.priority = priority], grants)
    BY <1>row DEF ItemRow, RowSound
  <2> QED BY <1>0, <1>8, <2>1, <2>2, PutSound DEF Prioritize, Decide
<1>9. ASSUME NEW i \in Items, NEW p, Reject(i, p) PROVE LeaseRowSound'
  <2>1. [item[i] EXCEPT !.status = "cancelled", !.result = "cancelled"] \in ItemRow
    BY <1>row, MovedRowType
  <2>2. item[i].status = "queued" BY <1>9, <1>row, QueuedStatus DEF Reject
  <2>3. RowSound(i, [item[i] EXCEPT !.status = "cancelled", !.result = "cancelled"], grants)
    BY <1>row, <2>2 DEF ItemRow, RowSound
  <2> QED BY <1>0, <1>9, <2>1, <2>3, PutSound DEF Reject, Decide
<1>10. ASSUME NEW i \in Items, NEW p, Cancel(i, p) \/ RetirePullRequestBoundWork(i) PROVE LeaseRowSound'
  <2>1. [Unleased(item[i]) EXCEPT !.status = "cancelled", !.result = "cancelled"] \in ItemRow
    BY <1>row, MovedRowType
  <2>2. RowSound(i, [Unleased(item[i]) EXCEPT !.status = "cancelled", !.result = "cancelled"], grants)
    BY <1>row, UnleasedFields DEF ItemRow, RowSound
  <2> QED BY <1>0, <1>10, <2>1, <2>2, PutSound DEF Cancel, RetirePullRequestBoundWork, Decide
<1>11. ASSUME NEW i \in Items, NEW p, Requeue(i, p) PROVE LeaseRowSound'
  <2> DEFINE before == Unleased(item[i])
             kept == IF item[i].result # "none" THEN before.previousResults + 1
                                                ELSE before.previousResults
             row == [before EXCEPT !.status = "queued", !.result = "none", !.previousResults = kept]
  <2>1. before \in ItemRow /\ kept \in Nat BY <1>row DEF ItemRow
  <2>2. Put(i, row) /\ grants' = grants BY <1>11 DEF Requeue, Decide
  <2>3. row \in ItemRow
    <3> HIDE DEF before, kept
    <3> QED BY <2>1, RequeuedRowType
  <2>4. row.status = "queued" /\ row.token = 0
    BY <1>row, UnleasedFields DEF ItemRow
  <2> HIDE DEF row
  <2>5. RowSound(i, row, grants) BY <2>4 DEF RowSound
  <2> QED BY <1>0, <2>2, <2>3, <2>5, PutSound
<1>12. ASSUME NEW i \in Items, NEW p, NEW actor \in OperatorActors, ReleaseLease(i, p, actor)
       PROVE  LeaseRowSound'
  <2>1. [Unleased(item[i]) EXCEPT !.status = "queued"] \in ItemRow
    BY <1>row, MovedRowType
  <2>2. RowSound(i, [Unleased(item[i]) EXCEPT !.status = "queued"], grants)
    BY <1>row, UnleasedFields DEF ItemRow, RowSound
  <2> QED BY <1>0, <1>12, <2>1, <2>2, PutSound DEF ReleaseLease, Decide
<1>13. ASSUME NEW i \in Items, NEW p, NEW kind \in Reportable, AttachArtifact(i, p, kind)
       PROVE  LeaseRowSound'
  <2>1. PICK delivery \in Deliveries({kind}) :
          Decide(i, p, [item[i] EXCEPT !.reported = @ \cup {kind},
                                       !.result = IF delivery = "pending" THEN "pending" ELSE @])
    BY <1>13 DEF AttachArtifact
  <2>2. kind \in ArtifactKinds BY NumbersAssumption
  <2>3. [item[i] EXCEPT !.reported = @ \cup {kind},
                        !.result = IF delivery = "pending" THEN "pending" ELSE @] \in ItemRow
    BY <1>row, <2>2 DEF ItemRow, Results
  <2>4. RowSound(i, [item[i] EXCEPT !.reported = @ \cup {kind},
                       !.result = IF delivery = "pending" THEN "pending" ELSE @], grants)
    BY <1>row DEF ItemRow, RowSound
  <2> QED BY <1>0, <2>1, <2>3, <2>4, PutSound DEF Decide
<1>14. ASSUME NEW i \in Items, NEW priority \in Priorities, EnqueueAdmittedRoot(i, priority)
       PROVE  LeaseRowSound'
  <2>1. RowSound(i, NewItem(i, TRUE, priority, {}, 0, i, 0), grants) BY <1>new
  <2>2. \A j \in Items : RowSound(j, item'[j], grants)
    BY <1>0, <1>14, <1>row, <2>1 DEF EnqueueAdmittedRoot
  <2> QED BY <1>14, <2>2, LeaseRowsNext DEF EnqueueAdmittedRoot
<1>15. ASSUME NEW S \in SUBSET Items, NEW priority \in Priorities, NEW edges,
              EnqueueProposedRoots(S, priority, edges)
       PROVE  LeaseRowSound'
  <2>1. ASSUME NEW i \in S PROVE RowSound(i, NewItem(i, FALSE, priority, edges[i], 0, i, 0), grants)
    <3>1. edges[i] \in SUBSET SourceRefs
      BY <1>15, DefinitionAssumption DEF EnqueueProposedRoots
    <3> QED BY <3>1, <1>new
  <2>2. \A j \in Items : RowSound(j, item'[j], grants)
    BY <1>0, <1>15, <1>row, <2>1 DEF EnqueueProposedRoots
  <2> QED BY <1>15, <2>2, LeaseRowsNext DEF EnqueueProposedRoots
<1>16. ASSUME NEW i \in Items, NEW refs \in Edges[i], ReplaceProposedPredecessors(i, refs)
       PROVE  LeaseRowSound'
  <2>1. refs \in SUBSET SourceRefs BY DefinitionAssumption
  <2>2. [item[i] EXCEPT !.predecessors = refs] \in ItemRow BY <1>row, <2>1 DEF ItemRow
  <2>3. RowSound(i, [item[i] EXCEPT !.predecessors = refs], grants) BY <1>row DEF ItemRow, RowSound
  <2> QED BY <1>0, <1>16, <2>2, <2>3, PutSound DEF ReplaceProposedPredecessors
<1>17. ASSUME NEW i \in Items, RecordArtifactVerification(i) PROVE LeaseRowSound'
  <2>1. PICK delivery \in Deliveries(item[i].reported) : Put(i, [item[i] EXCEPT !.result = delivery])
    BY <1>17 DEF RecordArtifactVerification
  <2>2. [item[i] EXCEPT !.result = delivery] \in ItemRow
    BY <1>row DEF ItemRow, Results, Deliveries
  <2>3. RowSound(i, [item[i] EXCEPT !.result = delivery], grants) BY <1>row DEF ItemRow, RowSound
  <2> QED BY <1>0, <1>17, <2>1, <2>2, <2>3, PutSound DEF RecordArtifactVerification
<1>18. ASSUME item' = item, grants' = grants PROVE LeaseRowSound'
  BY <1>18, LeaseRows, LeaseRowsNext
<1>19. CASE WorkerCall
  BY <1>19, <1>1, <1>2, <1>3, <1>4, <1>5 DEF WorkerCall
<1>20. CASE OperatorCall
  <2>1. ASSUME NEW o \in Operators, NEW i \in Items, Render(o, i) PROVE LeaseRowSound'
    BY <1>18, <2>1 DEF Render
  <2> QED BY <1>20, <1>6, <1>7, <1>8, <1>9, <1>10, <1>11, <1>12, <1>13, <2>1 DEF OperatorCall
<1>21. CASE Intake
  <2>1. ASSUME NEW r \in Repositories, NEW e \in BOOLEAN, SetRepositoryEnabled(r, e)
        PROVE  LeaseRowSound'
    BY <1>18, <2>1 DEF SetRepositoryEnabled
  <2> QED BY <1>21, <1>14, <1>15, <1>16, <2>1 DEF Intake
<1>22. CASE Sweep
  BY <1>22, <1>10, <1>17 DEF Sweep
<1>23. CASE Tick \/ UNCHANGED vars
  BY <1>18, <1>23 DEF Tick, vars
<1> QED BY <1>19, <1>20, <1>21, <1>22, <1>23 DEF Next

(* Whatever workers, operators and sweeps do in whatever order, a row      *)
(* carries a lease exactly while it is claimed, the lease is a grant made  *)
(* for that item to that owner, and only admitted work was ever leased.    *)
THEOREM LeasesSound == Spec => []LeaseRowSound
<1>1. Init => LeaseRowSound
  BY DEF Init, LeaseRowSound, Absent
<1> QED BY <1>1, LeaseStep, TypeCorrect, PTL DEF Spec

----------------------------------------------------------------------------
(* No decision is applied from an outdated form.  NoStaleIntent is not     *)
(* inductive: it needs that the clock is never behind a row's updatedAt    *)
(* and that a form which a later write has overtaken shows a smaller       *)
(* updatedAt than the row, which in turn needs every mutation to stamp.    *)

FormsSound ==
  /\ \A i \in Items : item[i].updatedAt <= now
  /\ \A o \in Operators :
       /\ forms[o].applied => forms[o].moved # "later"
       /\ forms[o].item \in Items /\ ~forms[o].applied =>
            /\ forms[o].updatedAt <= item[forms[o].item].updatedAt
            /\ forms[o].moved = "later" => forms[o].updatedAt < item[forms[o].item].updatedAt

(* A step at which every row that changed was stamped with the clock.      *)
Stamped ==
  now' = now /\ \A j \in Items : item'[j].updatedAt \in {item[j].updatedAt, now}

(* A step that stamped row i and told the forms about it.                  *)
StampedAt(i, p) ==
  /\ Stamped /\ item'[i].updatedAt = now
  /\ \/ forms' = MoveForms(i)
     \/ PreconditionHolds(i, p) /\ forms' = Applied(i, p)

(* Put stamps the row it writes.                                           *)
LEMMA PutStamps ==
  ASSUME TypeOK, TypeOK', NEW i \in Items, NEW row, Put(i, row), now' = now
  PROVE  Stamped /\ item'[i].updatedAt = now
<1>1. item \in [Items -> ItemRow] /\ item' \in [Items -> ItemRow] BY DEF TypeOK
<1>2. item' = [item EXCEPT ![i] = [row EXCEPT !.updatedAt = now]] BY DEF Put
<1>3. item'[i] = [row EXCEPT !.updatedAt = now] BY <1>1, <1>2
<1>4. "updatedAt" \in DOMAIN [row EXCEPT !.updatedAt = now] BY <1>1, <1>3 DEF ItemRow
<1>5. item'[i].updatedAt = now BY <1>3, <1>4
<1> QED BY <1>1, <1>2, <1>5 DEF Stamped

(* An operator decision stamps the row it writes.                          *)
LEMMA DecideStamps ==
  ASSUME TypeOK, TypeOK', NEW i \in Items, NEW p, NEW row, Decide(i, p, row)
  PROVE  StampedAt(i, p)
BY PutStamps DEF Decide, StampedAt

(* A new item is stamped with the instant of its creation.                 *)
LEMMA NewItemStamped ==
  ASSUME NEW i, NEW admitted, NEW priority, NEW predecessors, NEW parent, NEW root, NEW depth
  PROVE  NewItem(i, admitted, priority, predecessors, parent, root, depth).updatedAt = now
BY DEF NewItem, Absent

(* Every mutation of the store stamps what it writes: a step renders a     *)
(* form, advances the clock, leaves the forms alone or stamps one row.     *)
LEMMA StampStep ==
  ASSUME TypeOK, TypeOK', [Next]_vars
  PROVE  \/ \E o \in Operators, i \in Items : Render(o, i)
         \/ Tick
         \/ Stamped /\ forms' = forms
         \/ \E i \in Items, p \in Operators \cup {0} : StampedAt(i, p)
<1> DEFINE Goal == \/ \E o \in Operators, i \in Items : Render(o, i)
                   \/ Tick
                   \/ Stamped /\ forms' = forms
                   \/ \E i \in Items, p \in Operators \cup {0} : StampedAt(i, p)
<1>put. ASSUME NEW i \in Items, NEW row, Put(i, row), now' = now, forms' = MoveForms(i) PROVE Goal
  BY <1>put, PutStamps DEF StampedAt
<1>decide. ASSUME NEW i \in Items, NEW p \in Operators \cup {0}, NEW row, Decide(i, p, row) PROVE Goal
  BY <1>decide, DecideStamps
<1>1. ASSUME NEW w \in Workers, NEW term \in LeaseTerms, NEW repos, NEW kinds,
             Claim(w, term, repos, kinds)
      PROVE  Goal
  <2>1. PICK i \in ClaimChoices(repos, kinds) : GrantLease(i, w, term) BY <1>1 DEF Claim
  <2>2. i \in Items BY ClaimChoicesClaimable
  <2> QED BY <1>put, <2>1, <2>2 DEF GrantLease
<1>2. ASSUME NEW i \in Items, NEW w \in Workers, NEW t \in DOMAIN grants,
             \/ \E term \in LeaseTerms : Heartbeat(i, t, w, term)
             \/ Block(i, t, w) \/ Release(i, t, w)
      PROVE  Goal
  BY <1>2, <1>put DEF Heartbeat, Block, Release
<1>3. ASSUME NEW i \in Items, NEW w \in Workers, NEW t \in DOMAIN grants,
             NEW reported \in SUBSET Reportable, NEW kids \in SUBSET Items,
             Complete(i, t, w, reported, kids)
      PROVE  Goal
  <2>1. PICK delivery \in Deliveries(reported) :
          item' = [j \in Items |->
            IF j = i THEN [Unleased(item[i]) EXCEPT !.status = "completed", !.result = delivery,
                                                    !.reported = reported, !.updatedAt = now]
            ELSE IF j \in kids
            THEN NewItem(j, FALSE, item[i].priority, {}, i, item[i].root, item[i].depth + 1)
            ELSE item[j]]
    BY <1>3 DEF Complete
  <2>2. item'[i].updatedAt = now
    <3>1. Unleased(item[i]) \in ItemRow BY UnleasedType DEF TypeOK
    <3> QED BY <2>1, <3>1 DEF ItemRow
  <2>3. ASSUME NEW j \in Items, j # i PROVE item'[j].updatedAt \in {item[j].updatedAt, now}
    <3> DEFINE child == NewItem(j, FALSE, item[i].priority, {}, i, item[i].root, item[i].depth + 1)
    <3>1. child.updatedAt = now BY NewItemStamped
    <3>2. item'[j] = IF j \in kids THEN child ELSE item[j] BY <2>1, <2>3
    <3> HIDE DEF child
    <3> QED BY <3>1, <3>2
  <2>4. Stamped BY <1>3, <2>2, <2>3 DEF Stamped, Complete
  <2> QED BY <1>3, <2>2, <2>4 DEF StampedAt, Complete
<1>4. ASSUME NEW i \in Items, NEW p \in Operators \cup {0},
             \/ Approve(i, p) \/ Defer(i, p) \/ Note(i, p) \/ Reject(i, p) \/ Requeue(i, p)
             \/ Cancel(i, p)
             \/ \E actor \in OperatorActors : ReleaseLease(i, p, actor)
             \/ \E priority \in Priorities : Prioritize(i, p, priority)
             \/ \E kind \in Reportable \ {"commit"} : AttachArtifact(i, p, kind)
      PROVE  Goal
  <2>1. ASSUME Approve(i, p) \/ Defer(i, p) \/ Note(i, p) PROVE Goal
    BY <2>1, <1>decide DEF Approve, Defer, Note
  <2>2. ASSUME Reject(i, p) \/ Cancel(i, p) PROVE Goal
    BY <2>2, <1>decide DEF Reject, Cancel
  <2>3. ASSUME Requeue(i, p) PROVE Goal
    <3>1. PICK row : Decide(i, p, row) BY <2>3 DEF Requeue
    <3> QED BY <1>decide, <3>1
  <2>4. ASSUME NEW actor \in OperatorActors, ReleaseLease(i, p, actor) PROVE Goal
    BY <2>4, <1>decide DEF ReleaseLease
  <2>5. ASSUME NEW priority \in Priorities, Prioritize(i, p, priority) PROVE Goal
    BY <2>5, <1>decide DEF Prioritize
  <2>6. ASSUME NEW kind \in Reportable \ {"commit"}, AttachArtifact(i, p, kind) PROVE Goal
    BY <2>6, <1>decide DEF AttachArtifact
  <2> HIDE DEF Goal
  <2> QED BY <1>4, <2>1, <2>2, <2>3, <2>4, <2>5, <2>6
<1>5. ASSUME NEW r \in Repositories, NEW e \in BOOLEAN, SetRepositoryEnabled(r, e) PROVE Goal
  BY <1>5 DEF SetRepositoryEnabled, Stamped
<1>6. ASSUME NEW i \in Items, NEW priority \in Priorities, EnqueueAdmittedRoot(i, priority) PROVE Goal
  <2> DEFINE row == NewItem(i, TRUE, priority, {}, 0, i, 0)
  <2>0. item' = [item EXCEPT ![i] = row] /\ row.updatedAt = now /\ item \in [Items -> ItemRow]
    BY <1>6, NewItemStamped DEF EnqueueAdmittedRoot, TypeOK
  <2>1. \A j \in Items : item'[j].updatedAt \in {item[j].updatedAt, now}
    <3> HIDE DEF row
    <3> QED BY <2>0
  <2> QED BY <1>6, <2>1 DEF EnqueueAdmittedRoot, Stamped
<1>7. ASSUME NEW S \in SUBSET Items, NEW priority \in Priorities, NEW edges,
             EnqueueProposedRoots(S, priority, edges)
      PROVE  Goal
  <2>1. \A j \in Items : item'[j].updatedAt \in {item[j].updatedAt, now}
    <3> SUFFICES ASSUME NEW j \in Items PROVE item'[j].updatedAt \in {item[j].updatedAt, now}
      OBVIOUS
    <3> DEFINE row == NewItem(j, FALSE, priority, edges[j], 0, j, 0)
    <3>1. item'[j] = IF j \in S THEN row ELSE item[j] BY <1>7 DEF EnqueueProposedRoots
    <3>2. row.updatedAt = now BY NewItemStamped
    <3> HIDE DEF row
    <3> QED BY <3>1, <3>2
  <2> QED BY <1>7, <2>1 DEF EnqueueProposedRoots, Stamped
<1>8. ASSUME NEW i \in Items, NEW refs, ReplaceProposedPredecessors(i, refs) PROVE Goal
  BY <1>8, <1>put DEF ReplaceProposedPredecessors
<1>9. ASSUME NEW i \in Items, RetirePullRequestBoundWork(i) \/ RecordArtifactVerification(i) PROVE Goal
  BY <1>9, <1>put DEF RetirePullRequestBoundWork, RecordArtifactVerification
<1>10. CASE WorkerCall
  BY <1>10, <1>1, <1>2, <1>3 DEF WorkerCall
<1>11. CASE OperatorCall
  BY <1>11, <1>4 DEF OperatorCall
<1>12. CASE Intake
  BY <1>12, <1>5, <1>6, <1>7, <1>8 DEF Intake
<1>13. CASE Sweep
  BY <1>13, <1>9 DEF Sweep
<1>14. CASE Tick
  BY <1>14
<1>15. CASE UNCHANGED vars
  BY <1>15 DEF vars, Stamped
<1> QED BY <1>10, <1>11, <1>12, <1>13, <1>14, <1>15 DEF Next

(* The strengthened invariant is inductive.                                *)
LEMMA FormsStep ==
  ASSUME TypeOK, TypeOK', FormsSound, [Next]_vars
  PROVE  FormsSound'
<1>0. /\ now \in Nat /\ item \in [Items -> ItemRow] /\ forms \in [Operators -> Form]
      /\ \A i \in Items : item[i].updatedAt \in Nat /\ item'[i].updatedAt \in Nat
      /\ \A o \in Operators : forms[o] \in Form /\ forms[o].updatedAt \in Nat
  BY DEF TypeOK, ItemRow, Form
<1>1. ASSUME NEW o \in Operators, NEW i \in Items, Render(o, i) PROVE FormsSound'
  <2>1. forms' = [forms EXCEPT ![o] = [item |-> i, status |-> Status(i),
                                       updatedAt |-> item[i].updatedAt,
                                       moved |-> "no", applied |-> FALSE]]
    BY <1>1 DEF Render
  <2>2. now' = now /\ item' = item BY <1>1 DEF Render
  <2> QED BY <1>0, <2>1, <2>2 DEF FormsSound
<1>2. CASE Tick
  <2>1. now' = now + 1 /\ item' = item /\ forms' = forms BY <1>2 DEF Tick
  <2> QED BY <1>0, <2>1 DEF FormsSound
<1>3. CASE Stamped /\ forms' = forms
  BY <1>0, <1>3 DEF FormsSound, Stamped
<1>4. ASSUME NEW i \in Items, NEW p \in Operators \cup {0}, StampedAt(i, p) PROVE FormsSound'
  <2>1. Stamped /\ item'[i].updatedAt = now BY <1>4 DEF StampedAt
  <2>2. \A j \in Items : item'[j].updatedAt <= now' /\ item[j].updatedAt <= item'[j].updatedAt
    BY <1>0, <2>1 DEF Stamped, FormsSound
  <2> DEFINE Kept(o) == /\ forms'[o].applied => forms'[o].moved # "later"
                        /\ forms'[o].item \in Items /\ ~forms'[o].applied =>
                             /\ forms'[o].updatedAt <= item'[forms'[o].item].updatedAt
                             /\ forms'[o].moved = "later" =>
                                  forms'[o].updatedAt < item'[forms'[o].item].updatedAt
  <2>3. ASSUME NEW o \in Operators, forms'[o] = MoveForms(i)[o] PROVE Kept(o)
    <3>1. CASE forms[o].item # i \/ forms[o].applied
      <4>1. forms'[o] = forms[o] BY <2>3, <3>1 DEF MoveForms
      <4> QED BY <1>0, <2>2, <4>1 DEF FormsSound
    <3>2. CASE ~(forms[o].item # i \/ forms[o].applied)
      <4>1. forms'[o] = [forms[o] EXCEPT !.moved = IF now > forms[o].updatedAt \/ @ = "later"
                                                   THEN "later" ELSE "same"]
        BY <2>3, <3>2 DEF MoveForms
      <4>2. /\ forms'[o].item = i /\ ~forms'[o].applied
            /\ forms'[o].updatedAt = forms[o].updatedAt
            /\ forms'[o].moved = "later" => now > forms[o].updatedAt \/ forms[o].moved = "later"
        BY <1>0, <3>2, <4>1 DEF Form
      <4> QED BY <1>0, <2>1, <2>2, <3>2, <4>2 DEF FormsSound
    <3> QED BY <3>1, <3>2
  <2>4. ASSUME NEW o \in Operators, PreconditionHolds(i, p), forms' = Applied(i, p) PROVE Kept(o)
    <3>1. CASE o = p
      <4>1. forms'[o] = [forms[o] EXCEPT !.applied = TRUE] BY <2>4, <3>1 DEF Applied
      <4>2. forms'[o].applied /\ forms'[o].moved = forms[o].moved BY <1>0, <4>1 DEF Form
      <4>3. /\ forms[o].item = i /\ ~forms[o].applied
            /\ forms[o].updatedAt = item[i].updatedAt
        BY <2>4, <3>1, PrincipalsAssumption DEF PreconditionHolds
      <4>4. forms[o].moved # "later" BY <1>0, <4>3 DEF FormsSound
      <4> QED BY <4>2, <4>4
    <3>2. CASE o # p
      BY <2>3, <2>4, <3>2 DEF Applied
    <3> QED BY <3>1, <3>2
  <2>5. \A o \in Operators : Kept(o)
    BY <1>4, <2>3, <2>4 DEF StampedAt
  <2> QED BY <2>2, <2>5 DEF FormsSound
<1> QED BY <1>1, <1>2, <1>3, <1>4, StampStep

(* Rule 39 for every number of sessions and items: a decision applied from *)
(* a form never overlooks a write made at a later instant than it shows.   *)
THEOREM IntentNeverStale == Spec => []NoStaleIntent
<1>1. Init => FormsSound
  BY DEF Init, FormsSound, Absent, NoForm
<1>2. FormsSound => NoStaleIntent
  BY DEF FormsSound, NoStaleIntent
<1>3. TypeOK /\ TypeOK' /\ FormsSound /\ [Next]_vars => FormsSound'
  BY FormsStep
<1> QED BY <1>1, <1>2, <1>3, TypeCorrect, PTL DEF Spec

----------------------------------------------------------------------------
(* Follow-up intents (ADR-0077): a worker names an intent and the store    *)
(* derives the contract.  Whatever the parent's delegation ceiling, the    *)
(* derived contract of an available intent is one that complete accepts,   *)
(* within the ceiling, carrying the binding the child inherits, and one a  *)
(* worker can complete; the two exceptions are the kinds a worker may not  *)
(* combine with the intent (a change named as a discovery, a cure change   *)
(* that is not on the existing pull request).                              *)
THEOREM IntentsAreAccepted ==
  ASSUME NEW ceiling \in SUBSET Actions, NEW parent, parent.binding \in Bindings,
         NEW intent \in FollowUpIntents, NEW kind,
         IntentAvailable(intent, ceiling, parent.binding),
         "pr-cure-change" \notin DiscoveryKinds,
         IntentIsChange(intent) => kind \notin DiscoveryKinds,
         intent # "existing-pr-change" => kind # "pr-cure-change"
  PROVE  LET d == DerivedContract(intent, ceiling, parent.binding, kind) IN
         /\ ChildContract(d, ceiling) /\ WithinCeiling(d, ceiling)
         /\ d.binding = InheritedCureBinding(d, parent)
         /\ \E reported \in SUBSET ArtifactKinds : ArtifactsAccepted(d, reported)
<1> DEFINE d == DerivedContract(intent, ceiling, parent.binding, kind)
<1>1. CASE intent = "read-only"
  <2>1. /\ d.kind = kind /\ d.required = "none" /\ d.target = "read-only" /\ d.binding = "none"
        /\ d.allowed = {"read"} \cup ({"run-tests", "create-followup", "open-issue"} \cap ceiling)
        /\ d.delegable = IF "create-followup" \in d.allowed THEN ceiling \cap Actions ELSE {}
    BY <1>1 DEF DerivedContract, IntentIsChange, IntentNeeds
  <2>2. "read" \in ceiling /\ kind # "pr-cure-change" BY <1>1 DEF IntentAvailable, IntentNeeds, IntentIsChange
  <2>3. ArtifactsAccepted(d, {}) BY <2>1 DEF ArtifactsAccepted
  <2> HIDE DEF d
  <2>4. ChildContract(d, ceiling)
    BY <2>1, <2>2 DEF ChildContract, RootContract, DiscoveryIsReadOnly, ChangeCanLand, TargetAgrees
  <2>5. WithinCeiling(d, ceiling) BY <2>1, <2>2 DEF WithinCeiling
  <2>6. d.binding = InheritedCureBinding(d, parent) BY <2>1 DEF InheritedCureBinding
  <2> QED BY <2>3, <2>4, <2>5, <2>6 DEF d
<1>2. CASE intent \in {"new-pr-change", "existing-pr-change"}
  <2>1. /\ d.required = "pull-request"
        /\ d.kind = IF intent = "existing-pr-change" THEN "pr-cure-change" ELSE kind
        /\ d.target = IF intent = "existing-pr-change" THEN "existing-pull-request" ELSE "new-pull-request"
        /\ d.binding = IF intent = "existing-pr-change" THEN parent.binding ELSE "none"
        /\ d.allowed = {"read", "write", "open-pr"} \cup ({"run-tests", "create-followup"} \cap ceiling)
        /\ d.delegable = IF "create-followup" \in d.allowed THEN ceiling \cap Actions ELSE {}
    BY <1>2 DEF DerivedContract, IntentIsChange, IntentNeeds
  <2>2. /\ {"read", "write", "open-pr"} \subseteq ceiling
        /\ intent = "existing-pr-change" => parent.binding = "cure"
        /\ d.kind \notin DiscoveryKinds
    BY <1>2, <2>1 DEF IntentAvailable, IntentNeeds, IntentIsChange
  <2> HIDE DEF d
  <2>3. ArtifactsAccepted(d, {"pull-request"}) BY <2>1 DEF ArtifactsAccepted
  <2>4. ChildContract(d, ceiling)
    BY <1>2, <2>1, <2>2
    DEF ChildContract, RootContract, DiscoveryIsReadOnly, ChangeCanLand, TargetAgrees, Actions
  <2>5. WithinCeiling(d, ceiling) BY <2>1, <2>2 DEF WithinCeiling
  <2>6. d.binding = InheritedCureBinding(d, parent) BY <1>2, <2>1, <2>2 DEF InheritedCureBinding
  <2> QED BY <2>3, <2>4, <2>5, <2>6 DEF d, ArtifactKinds
<1> QED BY <1>1, <1>2 DEF FollowUpIntents

====

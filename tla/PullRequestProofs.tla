---- MODULE PullRequestProofs ----
(***************************************************************************)
(* Theorems about the two components that read a pull request over calls to *)
(* GitHub and write what they made of it: the cure sweep, for every set of *)
(* pull requests, repositories and sweeps, and the review gate, for any    *)
(* number of passes and any budget of rounds; however many pushes and faults *)
(* happen.                                                                 *)
(***************************************************************************)
EXTENDS PullRequestCure, ReviewGate, SequenceTheorems, FiniteSetTheorems, TLAPS

-----------------------------------------------------------------------------
(***************************************************************************)
(* The pull-request cure.                                                  *)
(***************************************************************************)

-----------------------------------------------------------------------------
(* The patches of a pull request.                                          *)

PatchLists == UNION {[1 .. n -> 0 .. n] : n \in PushedHeads}

(* A list has an entry per head, none of a later head.                     *)
LEMMA PatchList ==
  ASSUME NEW l \in PatchLists
  PROVE  /\ l \in Seq(Nat) /\ Len(l) \in PushedHeads /\ l \in [1 .. Len(l) -> 0 .. Len(l)]
         /\ Len(l) \in Nat /\ Len(l) >= 1 /\ Len(l) <= MaxPushes
         /\ \A i \in 1 .. Len(l) : l[i] \in 0 .. Len(l)
<1>1. PICK n \in PushedHeads : l \in [1 .. n -> 0 .. n] BY DEF PatchLists
<1>2. n \in Nat /\ n >= 1 /\ n <= MaxPushes /\ MaxPushes \in Nat
  BY CureAssumption DEF PushedHeads
<1>3. l \in [1 .. n -> Nat] BY <1>1, <1>2
<1>4. l \in Seq(Nat) BY <1>2, <1>3, SeqDef
<1>5. DOMAIN l = 1 .. n /\ DOMAIN l = 1 .. Len(l) /\ Len(l) \in Nat
  BY <1>1, <1>4, LenProperties
<1>6. Len(l) = n BY <1>2, <1>5
<1> QED BY <1>1, <1>2, <1>4, <1>6

(* A push adds a head and changes no earlier one.                          *)
LEMMA PatchPushed ==
  ASSUME NEW l \in PatchLists, Len(l) < MaxPushes, NEW patch \in 0 .. Len(l) + 1
  PROVE  /\ Append(l, patch) \in PatchLists
         /\ Len(Append(l, patch)) = Len(l) + 1
         /\ \A i \in 1 .. Len(l) : Append(l, patch)[i] = l[i]
<1> DEFINE n == Len(l)
<1>1. /\ l \in Seq(Nat) /\ n \in Nat /\ n >= 1
      /\ \A i \in 1 .. n : l[i] \in 0 .. n
  BY PatchList
<1>2. patch \in Nat /\ MaxPushes \in Nat BY <1>1, CureAssumption
<1>3. /\ Append(l, patch) \in Seq(Nat) /\ Len(Append(l, patch)) = n + 1
      /\ \A i \in 1 .. n : Append(l, patch)[i] = l[i]
      /\ Append(l, patch)[n + 1] = patch
  BY <1>1, <1>2
<1>4. Append(l, patch) \in [1 .. n + 1 -> Nat] BY <1>3, LenProperties
<1>5. \A i \in 1 .. n + 1 : Append(l, patch)[i] \in 0 .. n + 1
  BY <1>1, <1>2, <1>3
<1>6. Append(l, patch) \in [1 .. n + 1 -> 0 .. n + 1] BY <1>4, <1>5
<1>7. n + 1 \in PushedHeads BY <1>1, <1>2 DEF PushedHeads
<1> QED BY <1>3, <1>6, <1>7 DEF PatchLists

-----------------------------------------------------------------------------
(* The rows.                                                               *)

PullRow == [state : PullStates, patches : PatchLists, decayed : BOOLEAN]
CureRow == [pull : Pulls, head : PushedHeads, digest : PushedHeads, since : PushedHeads \cup {0},
            status : {"queued", "claimed", "blocked", "completed", "cancelled"} \cup Calls]
CureSweepRow == [pc : {"idle", "choosing", "signals", "files"}, left : SUBSET Pulls, foreign : BOOLEAN,
             lists : SUBSET Repositories, known : SUBSET Pulls, pull : Pulls,
             head : PushedHeads \cup {0}, decayed : BOOLEAN]

(* CureTypeOK by the names of its rows, and the cures as a sequence.       *)
CureShaped ==
  /\ pull \in [Pulls -> PullRow] /\ reported \subseteq Pulls /\ optedIn \subseteq Repositories
  /\ cures \in Seq(CureRow) /\ cureSweep \in [CureSweeps -> CureSweepRow]
  /\ cureFaults \in 0 .. MaxCureFaults
  /\ \A s \in CureSweeps : cureSweep[s].pc \in {"signals", "files"} => cureSweep[s].head # 0

LEMMA ShapeTypes == CureShaped => CureTypeOK
<1> SUFFICES ASSUME CureShaped PROVE CureTypeOK OBVIOUS
<1>1. \A i \in DOMAIN cures : cures[i] \in CureRow BY LenProperties DEF CureShaped
<1> QED BY <1>1 DEF CureShaped, CureTypeOK, PullRow, CureRow, CureSweepRow, PatchLists

(* The head of a pull request and its patch.                               *)
LEMMA HeadIsPushed ==
  ASSUME CureShaped, NEW p \in Pulls
  PROVE  /\ pull[p] \in PullRow /\ pull[p].patches \in PatchLists
         /\ HeadOf(p) \in PushedHeads /\ HeadOf(p) \in Nat /\ HeadOf(p) >= 1
         /\ PatchOf(p) \in 0 .. HeadOf(p) /\ PatchOf(p) \in Nat
         /\ PatchOf(p) # 0 => PatchOf(p) \in PushedHeads
<1>1. pull[p] \in PullRow /\ pull[p].patches \in PatchLists BY DEF CureShaped, PullRow
<1>2. /\ HeadOf(p) \in PushedHeads /\ HeadOf(p) \in Nat /\ HeadOf(p) >= 1
      /\ HeadOf(p) <= MaxPushes /\ PatchOf(p) \in 0 .. HeadOf(p)
  BY <1>1, PatchList DEF HeadOf, PatchOf
<1>3. PatchOf(p) # 0 => PatchOf(p) \in PushedHeads
  BY <1>2, CureAssumption DEF PushedHeads
<1> QED BY <1>1, <1>2, <1>3

-----------------------------------------------------------------------------
(* What the steps do to the pull requests and to the cures.                *)

(* A pull request only gets heads, and an ended one stays ended.           *)
PullsGrow ==
  \A p \in Pulls :
    /\ HeadOf(p)' >= HeadOf(p) /\ HeadOf(p)' \in Nat
    /\ \A h \in 1 .. HeadOf(p) : pull'[p].patches[h] = pull[p].patches[h]
    /\ pull[p].state = "ended" => pull'[p].state = "ended"

(* A new cure is of a head that has none.                                  *)
Enqueued(row) ==
  /\ ~SourceRefKnown(row.pull, row.head) /\ row.status = "queued"
  /\ cures' = Append(cures, row)

(* An existing one moves; what a completion may rely on is what it read.   *)
Moved(i, row) ==
  /\ cures' = [cures EXCEPT ![i] = row]
  /\ row.pull = cures[i].pull /\ row.head = cures[i].head /\ row.digest = cures[i].digest
  /\ row.status = "calling" => row.since = HeadOf(row.pull)
  /\ row.status = "comparing" => cures[i].status = "calling" /\ row.since = cures[i].since
  /\ row.status = "passed" =>
       /\ row.since = cures[i].since
       /\ \/ cures[i].status = "calling" /\ pull[row.pull].state = "ended"
          \/ cures[i].status = "comparing" /\ PatchOf(row.pull) = row.digest
  /\ row.status = "completed" => cures[i].status = "passed" /\ row.since = cures[i].since

CureEffect ==
  \/ UNCHANGED cures /\ PullsGrow
  \/ UNCHANGED pull /\ \E row \in CureRow : Enqueued(row)
  \/ UNCHANGED pull /\ \E i \in DOMAIN cures, row \in CureRow : Moved(i, row)

(* One change on GitHub.                                                   *)
LEMMA ChangeEffect ==
  ASSUME CureShaped, NEW p \in Pulls, NEW row \in PullRow, PullChanges(p, row),
         row.patches = pull[p].patches \/ \E patch \in 0 .. HeadOf(p) + 1 :
                                            /\ HeadOf(p) < MaxPushes
                                            /\ row.patches = Append(pull[p].patches, patch),
         pull[p].state = "ended" => row.state = "ended"
  PROVE  CureShaped' /\ CureEffect
<1>1. pull' = [pull EXCEPT ![p] = row] /\ pull \in [Pulls -> PullRow]
  BY DEF PullChanges, CureShaped
<1>2. pull' \in [Pulls -> PullRow] BY <1>1
<1>3. CureShaped' BY <1>2 DEF PullChanges, CureShaped
<1>4. ASSUME NEW q \in Pulls
      PROVE  /\ HeadOf(q)' >= HeadOf(q) /\ HeadOf(q)' \in Nat
             /\ \A h \in 1 .. HeadOf(q) : pull'[q].patches[h] = pull[q].patches[h]
             /\ pull[q].state = "ended" => pull'[q].state = "ended"
  <2>0. HeadOf(q) \in Nat /\ HeadOf(p) \in Nat /\ pull[p].patches \in PatchLists BY HeadIsPushed
  <2>1. CASE q # p BY <1>1, <2>0, <2>1 DEF HeadOf
  <2>2. CASE q = p /\ row.patches = pull[p].patches BY <1>1, <2>0, <2>2 DEF HeadOf
  <2>3. CASE q = p /\ row.patches # pull[p].patches
    <3>1. PICK patch \in 0 .. HeadOf(p) + 1 :
            HeadOf(p) < MaxPushes /\ row.patches = Append(pull[p].patches, patch)
      BY <2>3
    <3>2. /\ Len(row.patches) = HeadOf(p) + 1
          /\ \A h \in 1 .. HeadOf(p) : row.patches[h] = pull[p].patches[h]
      BY <2>0, <3>1, PatchPushed DEF HeadOf
    <3>3. HeadOf(q)' = HeadOf(p) + 1 BY <1>1, <2>3, <3>2 DEF HeadOf
    <3> QED BY <1>1, <2>0, <2>3, <3>2, <3>3
  <2> QED BY <2>1, <2>2, <2>3
<1>5. PullsGrow BY <1>4 DEF PullsGrow
<1> QED BY <1>3, <1>5 DEF PullChanges, CureEffect

(* Nothing on GitHub changes.                                              *)
LEMMA PullsRest == ASSUME CureShaped, UNCHANGED pull PROVE PullsGrow
BY HeadIsPushed DEF PullsGrow, HeadOf

(* One step of a sweep that enqueues nothing.                              *)
LEMMA ProceedEffect ==
  ASSUME CureShaped, NEW s \in CureSweeps, NEW row \in CureSweepRow, Proceed(s, row),
         row.pc \in {"signals", "files"} => row.head # 0,
         UNCHANGED <<pull, reported, optedIn, cures>>, cureFaults' \in 0 .. MaxCureFaults
  PROVE  CureShaped' /\ CureEffect
<1>1. /\ cureSweep' \in [CureSweeps -> CureSweepRow]
      /\ \A t \in CureSweeps : cureSweep'[t].pc \in {"signals", "files"} => cureSweep'[t].head # 0
  BY DEF CureShaped, Proceed
<1> QED BY <1>1, PullsRest DEF CureShaped, CureEffect

(* One step of a cure.                                                     *)
LEMMA MovedEffect ==
  ASSUME CureShaped, NEW i \in DOMAIN cures, NEW row \in CureRow, Moved(i, row),
         UNCHANGED <<pull, reported, optedIn, cureSweep, cureFaults>>
  PROVE  CureShaped' /\ CureEffect
<1>1. i \in 1 .. Len(cures) /\ cures \in Seq(CureRow) BY LenProperties DEF CureShaped
<1>2. cures' \in Seq(CureRow) BY <1>1, ExceptSeq DEF Moved
<1>3. CureShaped' BY <1>2 DEF CureShaped
<1>4. CureEffect BY DEF CureEffect
<1> QED BY <1>3, <1>4

(* A row of a cure and what its calls keep.                                *)
LEMMA CureRows ==
  ASSUME CureShaped, NEW i \in DOMAIN cures
  PROVE  /\ cures[i] \in CureRow /\ cures[i].pull \in Pulls
         /\ HeadOf(cures[i].pull) \in PushedHeads /\ cures[i].since \in PushedHeads \cup {0}
<1>1. cures \in Seq(CureRow) /\ i \in 1 .. Len(cures) BY LenProperties DEF CureShaped
<1>2. cures[i] \in CureRow BY <1>1, ElementOfSeq
<1>3. cures[i].pull \in Pulls /\ cures[i].since \in PushedHeads \cup {0} BY <1>2 DEF CureRow
<1> QED BY <1>2, <1>3, HeadIsPushed

(* Every step keeps every row well formed and is one of these changes.     *)
LEMMA CureEffects ==
  ASSUME CureShaped, [CureNext]_cureVars
  PROVE  CureShaped' /\ CureEffect
<1>0. /\ pull \in [Pulls -> PullRow] /\ cureSweep \in [CureSweeps -> CureSweepRow]
      /\ reported \subseteq Pulls /\ optedIn \subseteq Repositories
      /\ cureFaults \in 0 .. MaxCureFaults /\ MaxCureFaults \in Nat
      /\ cures \in Seq(CureRow)
  BY CureAssumption DEF CureShaped
<1>r. Resting \in CureSweepRow /\ Resting.pc = "idle"
  BY CureAssumption DEF Resting, CureSweepRow
<1>n. ASSUME NEW s \in CureSweeps
      PROVE  NextCandidate(s) \in CureSweepRow /\ NextCandidate(s).pc = "choosing"
  BY <1>0 DEF NextCandidate, CureSweepRow
<1>1. ASSUME NEW p \in Pulls, NEW patch \in 0 .. MaxPushes, PushHead(p, patch)
      PROVE  CureShaped' /\ CureEffect
  <2> DEFINE row == [pull[p] EXCEPT !.patches = Append(@, patch)]
  <2>1. PullChanges(p, row) /\ HeadOf(p) < MaxPushes /\ pull[p].state # "ended"
    BY <1>1 DEF PushHead
  <2>2. patch \in 0 .. HeadOf(p) + 1 BY <1>1, HeadIsPushed DEF PushHead
  <2>3. Append(pull[p].patches, patch) \in PatchLists BY <2>1, <2>2, HeadIsPushed, PatchPushed DEF HeadOf
  <2>4. row \in PullRow /\ row.patches = Append(pull[p].patches, patch)
    BY <1>0, <2>3 DEF PullRow
  <2> HIDE DEF row
  <2> QED BY <2>1, <2>2, <2>4, ChangeEffect
<1>2. ASSUME NEW p \in Pulls, DecaysOrHeals(p) PROVE CureShaped' /\ CureEffect
  <2> DEFINE row == [pull[p] EXCEPT !.decayed = ~@]
  <2>1. PullChanges(p, row) /\ pull[p].state # "ended" BY <1>2 DEF DecaysOrHeals
  <2>2. row \in PullRow /\ row.patches = pull[p].patches BY <1>0 DEF PullRow
  <2> HIDE DEF row
  <2> QED BY <2>1, <2>2, ChangeEffect
<1>3. ASSUME NEW p \in Pulls, NEW state \in PullStates, Moves(p, state)
      PROVE  CureShaped' /\ CureEffect
  <2> DEFINE row == [pull[p] EXCEPT !.state = state]
  <2>1. PullChanges(p, row) /\ pull[p].state # "ended" BY <1>3 DEF Moves
  <2>2. row \in PullRow /\ row.patches = pull[p].patches BY <1>0 DEF PullRow
  <2> HIDE DEF row
  <2> QED BY <2>1, <2>2, ChangeEffect
<1>4. ASSUME NEW p \in Pulls, VerifyArtifact(p) PROVE CureShaped' /\ CureEffect
  BY <1>4, PullsRest DEF VerifyArtifact, CureShaped, CureEffect
<1>5. ASSUME NEW r \in Repositories, OptOutOrIn(r) PROVE CureShaped' /\ CureEffect
  BY <1>5, PullsRest DEF OptOutOrIn, CureShaped, CureEffect
<1>6. ASSUME NEW s \in CureSweeps, StartCureSweep(s) PROVE CureShaped' /\ CureEffect
  <2>1. [Resting EXCEPT !.pc = "choosing", !.left = reported, !.known = reported] \in CureSweepRow
    BY <1>0, <1>r DEF CureSweepRow
  <2> QED BY <1>0, <1>6, <2>1, ProceedEffect DEF StartCureSweep, Resting
<1>7. ASSUME NEW s \in CureSweeps, TurnToForeign(s) PROVE CureShaped' /\ CureEffect
  <2> DEFINE row == [cureSweep[s] EXCEPT !.foreign = TRUE, !.lists = optedIn \cap CureForeign]
  <2>1. row \in CureSweepRow /\ row.pc = "choosing"
    BY <1>0, <1>7 DEF CureSweepRow, TurnToForeign, Sweeping
  <2> QED BY <1>0, <1>7, <2>1, ProceedEffect DEF TurnToForeign
<1>8. ASSUME NEW s \in CureSweeps, NEW r \in Repositories, ListOpenPullRequests(s, r)
      PROVE  CureShaped' /\ CureEffect
  <2> DEFINE listed == {p \in Pulls : HomeOf[p] = r /\ pull[p].state # "ended"}
             left == {p \in listed \ cureSweep[s].known : pull[p].state = "open"}
             row == [cureSweep[s] EXCEPT !.lists = @ \ {r}, !.known = @ \cup listed, !.left = left]
  <2>1. row \in CureSweepRow /\ row.pc = "choosing"
    BY <1>0, <1>8 DEF CureSweepRow, ListOpenPullRequests, Sweeping
  <2>2. Proceed(s, row) /\ UNCHANGED <<pull, reported, optedIn, cures, cureFaults>>
    BY <1>8 DEF ListOpenPullRequests
  <2> HIDE DEF row
  <2> QED BY <1>0, <2>1, <2>2, ProceedEffect
<1>9. ASSUME NEW s \in CureSweeps, EndCureSweep(s) PROVE CureShaped' /\ CureEffect
  BY <1>0, <1>r, <1>9, ProceedEffect DEF EndCureSweep
<1>10. ASSUME NEW s \in CureSweeps, NEW p \in Pulls, ReadPull(s, p) PROVE CureShaped' /\ CureEffect
  <2>1. pull[p].decayed \in BOOLEAN /\ HeadOf(p) \in PushedHeads /\ HeadOf(p) # 0
    BY <1>0, HeadIsPushed DEF PullRow
  <2>2. ASSUME NEW row, row = [cureSweep[s] EXCEPT !.left = @ \ {p}], Proceed(s, row)
        PROVE  CureShaped' /\ CureEffect
    <3>1. row \in CureSweepRow /\ row.pc = "choosing"
      BY <1>0, <1>10, <2>2 DEF CureSweepRow, ReadPull, Sweeping
    <3> QED BY <1>0, <1>10, <2>2, <3>1, ProceedEffect DEF ReadPull
  <2>3. ASSUME NEW d \in BOOLEAN, NEW row,
               row = [cureSweep[s] EXCEPT !.pc = "signals", !.left = @ \ {p}, !.pull = p,
                        !.head = HeadOf(p), !.decayed = d], Proceed(s, row)
        PROVE  CureShaped' /\ CureEffect
    <3>1. row \in CureSweepRow /\ row.head = HeadOf(p)
      BY <1>0, <2>1, <2>3 DEF CureSweepRow
    <3> QED BY <1>0, <1>10, <2>1, <2>3, <3>1, ProceedEffect DEF ReadPull
  <2> QED BY <1>10, <2>1, <2>2, <2>3 DEF ReadPull
<1>11. ASSUME NEW s \in CureSweeps, ReadSignals(s) PROVE CureShaped' /\ CureEffect
  <2>1. PICK older \in BOOLEAN :
          Proceed(s, [cureSweep[s] EXCEPT !.pc = "files",
                        !.decayed = @ \/ older \/ pull[cureSweep[s].pull].decayed])
    BY <1>11 DEF ReadSignals
  <2>2. ASSUME NEW d \in BOOLEAN PROVE [cureSweep[s] EXCEPT !.pc = "files", !.decayed = d] \in CureSweepRow
    BY <1>0 DEF CureSweepRow
  <2>3. (cureSweep[s].decayed \/ older \/ pull[cureSweep[s].pull].decayed) \in BOOLEAN OBVIOUS
  <2>4. [cureSweep[s] EXCEPT !.pc = "files",
           !.decayed = @ \/ older \/ pull[cureSweep[s].pull].decayed] \in CureSweepRow
    BY <2>2, <2>3
  <2>5. cureSweep[s].head # 0 BY <1>11 DEF ReadSignals, Sweeping, CureShaped
  <2>6. [cureSweep[s] EXCEPT !.pc = "files",
           !.decayed = @ \/ older \/ pull[cureSweep[s].pull].decayed].head = cureSweep[s].head
    BY <1>0 DEF CureSweepRow
  <2> QED BY <1>0, <1>11, <2>1, <2>4, <2>5, <2>6, ProceedEffect DEF ReadSignals
<1>12. ASSUME NEW s \in CureSweeps, ReadFiles(s) PROVE CureShaped' /\ CureEffect
  <2> DEFINE p == cureSweep[s].pull
             digest == PatchOf(p)
             new == [pull |-> p, head |-> cureSweep[s].head, digest |-> digest,
                     status |-> "queued", since |-> 0]
  <2>1. CASE UNCHANGED cures
    BY <1>0, <1>r, <1>n, <1>12, <2>1, ProceedEffect DEF ReadFiles
  <2>2. CASE ~UNCHANGED cures
    <3>1. /\ digest # 0 /\ cures' = Append(cures, new) /\ ~SourceRefKnown(p, cureSweep[s].head)
          /\ Proceed(s, NextCandidate(s)) /\ UNCHANGED <<pull, reported, optedIn, cureFaults>>
      BY <1>12, <2>2 DEF ReadFiles, CureDue, EnqueueCureRoot
    <3>2. p \in Pulls /\ cureSweep[s].head \in PushedHeads
      BY <1>0, <1>12 DEF CureSweepRow, ReadFiles, Sweeping, CureShaped
    <3>3. digest \in PushedHeads BY <3>1, <3>2, HeadIsPushed
    <3>4. new \in CureRow /\ new.pull = p /\ new.head = cureSweep[s].head /\ new.status = "queued"
      BY <3>2, <3>3 DEF CureRow
    <3> HIDE DEF new
    <3>5. cures' \in Seq(CureRow) BY <1>0, <3>1, <3>4, AppendProperties
    <3>6. /\ cureSweep' \in [CureSweeps -> CureSweepRow]
          /\ \A t \in CureSweeps : cureSweep'[t].pc \in {"signals", "files"} => cureSweep'[t].head # 0
      BY <1>0, <1>n, <3>1 DEF CureShaped, Proceed
    <3> QED BY <1>0, <3>1, <3>4, <3>5, <3>6 DEF CureShaped, CureEffect, Enqueued
  <2> QED BY <2>1, <2>2
<1>13. ASSUME NEW s \in CureSweeps, CallFails(s) PROVE CureShaped' /\ CureEffect
  <2>1. cureFaults' \in 0 .. MaxCureFaults BY <1>0, <1>13 DEF CallFails
  <2>2. ASSUME NEW p, NEW row, row = [cureSweep[s] EXCEPT !.left = @ \ {p}], Proceed(s, row),
               Sweeping(s, "choosing")
        PROVE  CureShaped' /\ CureEffect
    <3>1. row \in CureSweepRow /\ row.pc = "choosing" BY <1>0, <2>2 DEF CureSweepRow, Sweeping
    <3> QED BY <1>13, <2>1, <2>2, <3>1, ProceedEffect DEF CallFails
  <2>3. ASSUME NEW r, NEW row, row = [cureSweep[s] EXCEPT !.lists = @ \ {r}], Proceed(s, row),
               Sweeping(s, "choosing")
        PROVE  CureShaped' /\ CureEffect
    <3>1. row \in CureSweepRow /\ row.pc = "choosing" BY <1>0, <2>3 DEF CureSweepRow, Sweeping
    <3> QED BY <1>13, <2>1, <2>3, <3>1, ProceedEffect DEF CallFails
  <2>4. CASE Proceed(s, NextCandidate(s))
    BY <1>n, <1>13, <2>1, <2>4, ProceedEffect DEF CallFails
  <2> QED BY <1>13, <2>2, <2>3, <2>4 DEF CallFails
<1>14. ASSUME NEW s \in CureSweeps, SweepDies(s) PROVE CureShaped' /\ CureEffect
  <2>1. cureFaults' \in 0 .. MaxCureFaults BY <1>0, <1>14 DEF SweepDies
  <2> QED BY <1>r, <1>14, <2>1, ProceedEffect DEF SweepDies
<1>b. ASSUME NEW i \in DOMAIN cures, NEW status \in {"queued", "claimed", "blocked", "completed",
               "cancelled"} \cup Calls,
             CureBecomes(i, status), status # "calling",
             status = "comparing" => cures[i].status = "calling",
             status = "passed" => \/ /\ cures[i].status = "calling"
                                     /\ pull[cures[i].pull].state = "ended"
                                  \/ /\ cures[i].status = "comparing"
                                     /\ PatchOf(cures[i].pull) = cures[i].digest,
             status = "completed" => cures[i].status = "passed"
      PROVE  CureShaped' /\ CureEffect
  <2> DEFINE row == [cures[i] EXCEPT !.status = status]
  <2>1. row \in CureRow /\ row.pull = cures[i].pull /\ row.head = cures[i].head
        /\ row.digest = cures[i].digest /\ row.status = status /\ row.since = cures[i].since
    BY CureRows DEF CureRow
  <2>2. cures' = [cures EXCEPT ![i] = row] BY <1>b DEF CureBecomes
  <2> HIDE DEF row
  <2>3. Moved(i, row) BY <1>b, <2>1, <2>2 DEF Moved
  <2> QED BY <1>b, <2>1, <2>3, MovedEffect DEF CureBecomes
<1>15. ASSUME NEW i \in DOMAIN cures,
              WorkOnCure(i) \/ RetireCure(i) \/ CompleteCure(i)
       PROVE  CureShaped' /\ CureEffect
  BY <1>b, <1>15 DEF WorkOnCure, RetireCure, CompleteCure, Calls
<1>16. ASSUME NEW i \in DOMAIN cures, ReadForCompletion(i) PROVE CureShaped' /\ CureEffect
  BY <1>b, <1>16 DEF ReadForCompletion, Exempt, Calls
<1>17. ASSUME NEW i \in DOMAIN cures, CompareDigest(i) PROVE CureShaped' /\ CureEffect
  BY <1>b, <1>17 DEF CompareDigest, Calls
<1>18. ASSUME NEW i \in DOMAIN cures, CallComplete(i) PROVE CureShaped' /\ CureEffect
  <2> DEFINE row == [cures[i] EXCEPT !.status = "calling", !.since = HeadOf(cures[i].pull)]
  <2>1. row \in CureRow /\ row.pull = cures[i].pull /\ row.head = cures[i].head
        /\ row.digest = cures[i].digest /\ row.status = "calling"
        /\ row.since = HeadOf(cures[i].pull)
    BY CureRows DEF CureRow, Calls
  <2>2. cures' = [cures EXCEPT ![i] = row] BY <1>18 DEF CallComplete
  <2> HIDE DEF row
  <2>3. Moved(i, row) BY <2>1, <2>2 DEF Moved
  <2> QED BY <1>18, <2>1, <2>3, MovedEffect DEF CallComplete
<1>19. CASE UNCHANGED cureVars
  BY <1>19, PullsRest DEF cureVars, CureShaped, CureEffect
<1> QED
  BY <1>1, <1>2, <1>3, <1>4, <1>5, <1>6, <1>7, <1>8, <1>9, <1>10, <1>11, <1>12, <1>13, <1>14,
     <1>15, <1>16, <1>17, <1>18, <1>19
  DEF CureNext, CureSweepStep

LEMMA CureShapedInit == CureInit => CureShaped
<1> SUFFICES ASSUME CureInit PROVE CureShaped OBVIOUS
<1>1. <<1>> \in [1 .. 1 -> 0 .. 1] /\ 1 \in PushedHeads
  BY CureAssumption DEF PushedHeads
<1>2. <<1>> \in PatchLists BY <1>1 DEF PatchLists
<1>3. pull \in [Pulls -> PullRow] BY <1>2 DEF CureInit, PullRow, PullStates
<1>4. Resting \in CureSweepRow /\ Resting.pc = "idle"
  BY CureAssumption DEF Resting, CureSweepRow
<1>5. cureSweep \in [CureSweeps -> CureSweepRow] /\ \A s \in CureSweeps : cureSweep[s].pc = "idle"
  BY <1>4 DEF CureInit
<1>6. cures \in Seq(CureRow) BY DEF CureInit
<1> QED BY <1>3, <1>5, <1>6, CureAssumption DEF CureInit, CureShaped

(* The tables of the cure stay well formed: in particular every cure has a *)
(* patch identity that was computed.                                       *)
THEOREM CureTypeCorrect == CureSpec => []CureTypeOK
<1>1. CureShaped /\ [CureNext]_cureVars => CureShaped' BY CureEffects
<1> QED BY <1>1, CureShapedInit, ShapeTypes, PTL DEF CureSpec

-----------------------------------------------------------------------------
(* Safety.                                                                 *)

(* What a step makes of the cures, one by one.                             *)
LEMMA CuresAfter ==
  ASSUME CureShaped, CureEffect, NEW i \in DOMAIN cures'
  PROVE  \/ i \in DOMAIN cures /\ cures'[i] = cures[i] /\ PullsGrow
         \/ UNCHANGED pull /\ i \in DOMAIN cures /\ cures'[i] = cures[i]
         \/ UNCHANGED pull /\ i \in DOMAIN cures /\ Moved(i, cures'[i])
         \/ i \notin DOMAIN cures /\ Enqueued(cures'[i])
<1>0. cures \in Seq(CureRow) BY DEF CureShaped
<1>1. CASE UNCHANGED cures /\ PullsGrow BY <1>1
<1>2. ASSUME UNCHANGED pull, NEW row \in CureRow, Enqueued(row)
      PROVE  \/ i \in DOMAIN cures /\ cures'[i] = cures[i]
             \/ i \notin DOMAIN cures /\ Enqueued(cures'[i])
  <2>1. /\ DOMAIN cures = 1 .. Len(cures) /\ Len(cures) \in Nat
        /\ DOMAIN cures' = 1 .. Len(cures) + 1
        /\ cures'[Len(cures) + 1] = row /\ \A j \in 1 .. Len(cures) : cures'[j] = cures[j]
    BY <1>0, <1>2, AppendProperties DEF Enqueued
  <2> QED BY <1>2, <2>1
<1>3. ASSUME UNCHANGED pull, NEW j \in DOMAIN cures, NEW row \in CureRow, Moved(j, row)
      PROVE  /\ i \in DOMAIN cures
             /\ cures'[i] = cures[i] \/ Moved(i, cures'[i])
  <2>1. cures' = [cures EXCEPT ![j] = row] BY <1>3 DEF Moved
  <2>2. i \in DOMAIN cures /\ IF i = j THEN cures'[i] = row ELSE cures'[i] = cures[i] BY <2>1
  <2> QED BY <1>3, <2>2
<1> QED BY <1>1, <1>2, <1>3 DEF CureEffect

(* A cure keeps its pull request and head once it exists, and a new one is *)
(* added only where its source is unknown at that very step.               *)
THEOREM OneCure == CureSpec => []OneCurePerHead
<1>1. CureInit => OneCurePerHead BY DEF CureInit, OneCurePerHead
<1>2. ASSUME CureShaped, OneCurePerHead, [CureNext]_cureVars
      PROVE  OneCurePerHead'
  <2>1. CureEffect BY <1>2, CureEffects
  <2>2. ASSUME NEW i \in DOMAIN cures', NEW j \in DOMAIN cures',
               cures'[i].pull = cures'[j].pull, cures'[i].head = cures'[j].head
        PROVE  i = j
    <3>1. ASSUME NEW k \in DOMAIN cures', k \in DOMAIN cures
          PROVE  cures'[k].pull = cures[k].pull /\ cures'[k].head = cures[k].head
      BY <1>2, <2>1, <3>1, CuresAfter DEF Moved
    <3>2. CASE i \in DOMAIN cures /\ j \in DOMAIN cures
      BY <1>2, <2>2, <3>1, <3>2 DEF OneCurePerHead
    <3>3. ASSUME NEW k \in DOMAIN cures', k \notin DOMAIN cures
          PROVE  Enqueued(cures'[k]) /\ DOMAIN cures' = DOMAIN cures \cup {k}
      <4>1. Enqueued(cures'[k]) BY <1>2, <2>1, <3>3, CuresAfter
      <4>2. DOMAIN cures' = (1 .. Len(cures) + 1) /\ DOMAIN cures = 1 .. Len(cures) /\ Len(cures) \in Nat
        <5>1. cures \in Seq(CureRow) BY <1>2 DEF CureShaped
        <5>2. CASE UNCHANGED cures BY <3>3, <5>2
        <5>3. CASE \E l \in DOMAIN cures, row \in CureRow : Moved(l, row) BY <3>3, <5>3 DEF Moved
        <5>4. ASSUME NEW row \in CureRow, Enqueued(row)
              PROVE  DOMAIN cures' = 1 .. Len(cures) + 1
          BY <5>1, <5>4, AppendProperties DEF Enqueued
        <5> QED BY <2>1, <5>1, <5>2, <5>3, <5>4, LenProperties DEF CureEffect
      <4>3. k = Len(cures) + 1 BY <3>3, <4>2
      <4> QED BY <4>1, <4>2, <4>3
    <3>4. ASSUME NEW k \in DOMAIN cures', NEW l \in DOMAIN cures,
                 k \notin DOMAIN cures, l \in DOMAIN cures',
                 cures'[k].pull = cures'[l].pull, cures'[k].head = cures'[l].head
          PROVE  FALSE
      <4>1. ~SourceRefKnown(cures'[k].pull, cures'[k].head) BY <3>3, <3>4 DEF Enqueued
      <4> QED BY <3>1, <3>4, <4>1 DEF SourceRefKnown
    <3>5. CASE i \notin DOMAIN cures /\ j \notin DOMAIN cures BY <3>3, <3>5
    <3> QED BY <2>2, <3>2, <3>4, <3>5
  <2> QED BY <2>2 DEF OneCurePerHead
<1> QED BY <1>1, <1>2, CureShapedInit, CureEffects, PTL DEF CureSpec

(* What a running completion remembers is a head that exists: with it      *)
(* CompletionsMechanical is inductive.                                     *)
SinceExists ==
  \A i \in DOMAIN cures :
    cures[i].status \in Calls \cup {"completed"} =>
      cures[i].since >= 1 /\ cures[i].since <= HeadOf(cures[i].pull)

(* Every completed cure left the recorded patch in its pull request at some *)
(* instant of the completion call, or the pull request had ended: pushes   *)
(* between the call's awaits cannot slip another change in unnoticed.      *)
THEOREM CompletionsStayMechanical == CureSpec => []CompletionsMechanical
<1> DEFINE Inv == SinceExists /\ CompletionsMechanical
           NewHead(p) == Len(pull'[p].patches)
<1>1. CureInit => Inv BY DEF CureInit, SinceExists, CompletionsMechanical
<1>2. ASSUME CureShaped, Inv, [CureNext]_cureVars
      PROVE  Inv'
  <2>1. CureEffect BY <1>2, CureEffects
  <2>2. ASSUME NEW i \in DOMAIN cures'
        PROVE  /\ cures'[i].status \in Calls \cup {"completed"} =>
                    cures'[i].since >= 1 /\ cures'[i].since <= NewHead(cures'[i].pull)
               /\ cures'[i].status \in {"passed", "completed"} =>
                    \/ pull'[cures'[i].pull].state = "ended"
                    \/ \E h \in cures'[i].since .. NewHead(cures'[i].pull) :
                         pull'[cures'[i].pull].patches[h] = cures'[i].digest
    <3> DEFINE row == cures'[i]
    <3>1. CASE i \in DOMAIN cures /\ cures'[i] = cures[i] /\ PullsGrow
      <4>1. /\ row.pull \in Pulls /\ HeadOf(row.pull) \in Nat /\ row.since \in Nat
            /\ NewHead(row.pull) >= HeadOf(row.pull) /\ NewHead(row.pull) \in Nat
            /\ \A h \in 1 .. HeadOf(row.pull) : pull'[row.pull].patches[h] = pull[row.pull].patches[h]
            /\ pull[row.pull].state = "ended" => pull'[row.pull].state = "ended"
        BY <1>2, <3>1, CureRows, CureAssumption DEF PullsGrow, PushedHeads, HeadOf
      <4>2. /\ row.status \in Calls \cup {"completed"} => row.since >= 1 /\ row.since <= HeadOf(row.pull)
            /\ row.status \in {"passed", "completed"} =>
                 \/ pull[row.pull].state = "ended"
                 \/ \E h \in row.since .. HeadOf(row.pull) : pull[row.pull].patches[h] = row.digest
        BY <1>2, <3>1 DEF SinceExists, CompletionsMechanical
      <4>3. row.status \in {"passed", "completed"} => row.status \in Calls \cup {"completed"}
        BY DEF Calls
      <4> HIDE DEF row
      <4>4. row.status \in Calls \cup {"completed"} => row.since >= 1 /\ row.since <= NewHead(row.pull)
        BY <4>1, <4>2
      <4>5. ASSUME row.status \in {"passed", "completed"},
                   NEW h \in row.since .. HeadOf(row.pull), pull[row.pull].patches[h] = row.digest
            PROVE  h \in row.since .. NewHead(row.pull) /\ pull'[row.pull].patches[h] = row.digest
        BY <4>1, <4>2, <4>3, <4>5
      <4>6. row.status \in {"passed", "completed"} =>
              \/ pull'[row.pull].state = "ended"
              \/ \E h \in row.since .. NewHead(row.pull) : pull'[row.pull].patches[h] = row.digest
        BY <4>1, <4>2, <4>5
      <4> QED BY <4>4, <4>6 DEF row
    <3>2. CASE UNCHANGED pull /\ i \in DOMAIN cures /\ cures'[i] = cures[i]
      BY <1>2, <3>2 DEF SinceExists, CompletionsMechanical, HeadOf
    <3>3. CASE UNCHANGED pull /\ i \in DOMAIN cures /\ Moved(i, cures'[i])
      <4>1. /\ row.pull = cures[i].pull /\ row.digest = cures[i].digest
            /\ NewHead(row.pull) = HeadOf(row.pull) /\ HeadOf(row.pull) \in Nat /\ HeadOf(row.pull) >= 1
            /\ pull' = pull /\ row.pull \in Pulls
        BY <1>2, <3>3, CureRows, HeadIsPushed DEF Moved, HeadOf
      <4>2. CASE row.status = "calling"
        BY <3>3, <4>1, <4>2 DEF Moved
      <4>3. CASE row.status = "comparing"
        BY <1>2, <3>3, <4>1, <4>3 DEF Moved, SinceExists, Calls
      <4>4. CASE row.status = "passed"
        <5>1. row.since = cures[i].since BY <3>3, <4>4 DEF Moved
        <5>2. \/ cures[i].status = "calling" /\ pull[row.pull].state = "ended"
              \/ cures[i].status = "comparing" /\ PatchOf(row.pull) = row.digest
          BY <3>3, <4>4 DEF Moved
        <5>3. row.since >= 1 /\ row.since <= HeadOf(row.pull)
          BY <1>2, <3>3, <4>1, <5>1, <5>2 DEF SinceExists, Calls
        <5>4. row.since \in Nat BY <1>2, <3>3, <5>1, CureRows, CureAssumption DEF PushedHeads
        <5>5. CASE pull[row.pull].state = "ended" BY <4>1, <4>4, <5>3, <5>5
        <5>6. CASE PatchOf(row.pull) = row.digest
          <6>1. HeadOf(row.pull) \in row.since .. NewHead(row.pull)
            BY <4>1, <5>3, <5>4
          <6>2. pull'[row.pull].patches[HeadOf(row.pull)] = row.digest
            BY <4>1, <5>6 DEF PatchOf
          <6>3. \E h \in row.since .. NewHead(row.pull) : pull'[row.pull].patches[h] = row.digest
            <7> HIDE DEF row, NewHead
            <7> QED BY <6>1, <6>2
          <6> QED BY <4>1, <4>4, <5>3, <6>3
        <5> QED BY <5>2, <5>5, <5>6
      <4>5. CASE row.status = "completed"
        BY <1>2, <3>3, <4>1, <4>5 DEF Moved, SinceExists, CompletionsMechanical, Calls
      <4> QED BY <4>2, <4>3, <4>4, <4>5 DEF Calls
    <3>4. CASE Enqueued(cures'[i]) BY <3>4 DEF Enqueued, Calls
    <3> QED BY <1>2, <2>1, <2>2, <3>1, <3>2, <3>3, <3>4, CuresAfter
  <2> QED BY <2>2 DEF SinceExists, CompletionsMechanical, HeadOf
<1>3. CureShaped /\ [CureNext]_cureVars => CureShaped' BY CureEffects
<1> QED BY <1>1, <1>2, <1>3, CureShapedInit, PTL DEF CureSpec

-----------------------------------------------------------------------------
(***************************************************************************)
(* The review gate.                                                        *)
(***************************************************************************)

-----------------------------------------------------------------------------
(* The kinds of rows.                                                      *)

PrRow == [state : {"open", "closed", "merged"}, draft : BOOLEAN, head : Heads,
          marked : Heads \cup {0}]
SweepRow == [pc : {"idle", "observed", "refreshed", "retiring", "listed", "selected",
                   "deciding", "digesting", "fixing", "passing", "marked", "reverting"},
             saw : Observations, bound : SUBSET (WorkKinds \X Heads), head : Heads \cup {0},
             round : 0 .. MaxRounds, prior : BOOLEAN]

(* TypeOK by the names of its rows.                                        *)
LEMMA TypeRows ==
  TypeOK <=>
    /\ pr \in PrRow /\ seen \in Stored
    /\ work \in [WorkKinds -> [Heads -> WorkRow]] /\ sweep \in [Sweeps -> SweepRow]
    /\ released \subseteq Heads /\ attention \in Heads \cup {0} /\ faults \in 0 .. MaxFaults
BY DEF TypeOK, PrRow, SweepRow

(* A pass that begins is in order, whatever it notes.                      *)
LEMMA IdleRow ==
  /\ Idle \in SweepRow /\ Idle.pc = "idle" /\ OpenDraft \in Observations
  /\ NoWork \in WorkRow /\ NoWork.status = "absent"
BY GateAssumption DEF Idle, SweepRow, OpenDraft, Observations, NoWork, WorkRow, InFlight

LEMMA ObservedType == ASSUME pr \in PrRow PROVE Observed \in Observations
BY DEF PrRow, Observed, Observations

(* What is stored, however it comes about.                                 *)
LEMMA StoredType ==
  /\ \A saw \in Observations, held \in BOOLEAN : Storing(saw, held) \in Stored
  /\ \A row \in Stored : /\ row.held \in BOOLEAN /\ [row EXCEPT !.draft = FALSE] \in Stored
                        /\ [row EXCEPT !.held = TRUE] \in Stored
BY DEF Observations, Storing, Stored

(* A pass where it has the head that it read, and where that head passed.  *)
AfterRead == {"deciding", "digesting", "fixing", "passing", "marked", "reverting"}
Releasing == {"passing", "marked", "reverting"}

(* The step of a pass ends here.                                           *)
LEMMA GotoType ==
  ASSUME sweep \in [Sweeps -> SweepRow], NEW s \in Sweeps, NEW local \in SweepRow, Goto(s, local)
  PROVE  /\ sweep' \in [Sweeps -> SweepRow] /\ sweep'[s] = local
         /\ \A t \in Sweeps : t # s => sweep'[t] = sweep[t]
BY DEF Goto

-----------------------------------------------------------------------------
(* Work that has ended.                                                    *)

(* No step touches a completed review.                                     *)
VerdictsKept ==
  \A h \in Heads : Review(h).status = "completed" => work'["review"][h] = work["review"][h]

LEMMA PassedStays ==
  ASSUME VerdictsKept, NEW h \in Heads, PassedReview(h) PROVE PassedReview(h)'
BY DEF VerdictsKept, PassedReview, Review

(* One item of work that is not completed changes.                         *)
LEMMA WorkChanges ==
  ASSUME work \in [WorkKinds -> [Heads -> WorkRow]], NEW k \in WorkKinds, NEW h \in Heads,
         NEW row \in WorkRow, work' = [work EXCEPT ![k][h] = row], work[k][h].status # "completed"
  PROVE  work' \in [WorkKinds -> [Heads -> WorkRow]] /\ VerdictsKept
<1>1. work' \in [WorkKinds -> [Heads -> WorkRow]] OBVIOUS
<1>2. ASSUME NEW g \in Heads, work["review"][g].status = "completed"
      PROVE  work'["review"][g] = work["review"][g]
  <2>1. "review" \in WorkKinds BY DEF WorkKinds
  <2>2. CASE k = "review" /\ g = h BY <1>2, <2>2
  <2>3. CASE k # "review" BY <2>1, <2>3
  <2>4. CASE k = "review" /\ g # h BY <2>1, <2>4
  <2> QED BY <2>2, <2>3, <2>4
<1> QED BY <1>1, <1>2 DEF VerdictsKept, Review

(* A root is added only where there was none.                              *)
LEMMA EnqueueKeeps ==
  ASSUME work \in [WorkKinds -> [Heads -> WorkRow]], NEW k \in WorkKinds, NEW h \in Heads,
         NEW round \in 0 .. MaxRounds, NEW prior \in BOOLEAN, EnqueueReviewRoot(k, h, round, prior)
  PROVE  work' \in [WorkKinds -> [Heads -> WorkRow]] /\ VerdictsKept
<1>1. CASE work[k][h].status # "absent"
  BY <1>1 DEF EnqueueReviewRoot, VerdictsKept, Review
<1>2. CASE work[k][h].status = "absent"
  <2>1. PICK row : row = [NoWork EXCEPT !.status = "queued", !.round = round, !.prior = prior]
    OBVIOUS
  <2>2. row \in WorkRow BY <2>1, IdleRow DEF WorkRow, InFlight
  <2>3. work' = [work EXCEPT ![k][h] = row] BY <1>2, <2>1 DEF EnqueueReviewRoot
  <2> QED BY <1>2, <2>2, <2>3, WorkChanges
<1> QED BY <1>1, <1>2

(* Retiring cancels what is queued or blocked.                             *)
LEMMA RetireKeeps ==
  ASSUME work \in [WorkKinds -> [Heads -> WorkRow]], NEW S,
         \A k \in WorkKinds, h \in Heads : <<k, h>> \in S => Retirable(k, h), work' = Retired(S)
  PROVE  work' \in [WorkKinds -> [Heads -> WorkRow]] /\ VerdictsKept
<1>1. ASSUME NEW k \in WorkKinds, NEW h \in Heads
      PROVE  /\ work'[k][h] \in WorkRow
             /\ work[k][h].status = "completed" => work'[k][h] = work[k][h]
  <2>1. work'[k][h] = IF <<k, h>> \in S THEN [work[k][h] EXCEPT !.status = "cancelled"]
                      ELSE work[k][h]
    BY DEF Retired
  <2>2. work[k][h] \in WorkRow OBVIOUS
  <2>3. [work[k][h] EXCEPT !.status = "cancelled"] \in WorkRow BY <2>2 DEF WorkRow
  <2>4. <<k, h>> \in S => work[k][h].status # "completed" BY DEF Retirable
  <2> QED BY <2>1, <2>2, <2>3, <2>4
<1>2. work' \in [WorkKinds -> [Heads -> WorkRow]] BY <1>1 DEF Retired
<1> QED BY <1>1, <1>2 DEF VerdictsKept, Review, WorkKinds

(* The rounds that are counted are as many as there are heads, at most.    *)
LEMMA RoundsCounted == Cardinality(CompletedReviews) \in Nat
<1>1. IsFiniteSet(Heads) BY GateAssumption, FS_Interval DEF Heads
<1>2. CompletedReviews \subseteq Heads BY DEF CompletedReviews
<1> QED BY <1>1, <1>2, FS_Subset, FS_CardinalityType

-----------------------------------------------------------------------------
(* What the steps of a pass do.                                            *)

(* A pass that has nothing on GitHub to take back goes on: it forgets the  *)
(* head it read, keeps it, or reads it now, and it begins to release only  *)
(* a head whose review passed.                                             *)
GoesOn(s, local) ==
  /\ Goto(s, local)
  /\ sweep[s].pc \notin {"marked", "reverting"} /\ local.pc \notin {"marked", "reverting"}
  /\ \/ local.pc \notin AfterRead
     \/ local.pc = "deciding" /\ local.head = pr.head
     \/ /\ sweep[s].pc \in AfterRead /\ local.head = sweep[s].head
        /\ local.pc = "passing" => PassedReview(local.head)

Rest(s) ==
  /\ UNCHANGED <<pr, released, faults>> /\ VerdictsKept
  /\ work' \in [WorkKinds -> [Heads -> WorkRow]] /\ seen' \in Stored
  /\ attention' \in Heads \cup {0}
  /\ \E local \in SweepRow : GoesOn(s, local)

(* Nothing that is stored changes.                                         *)
LEMMA StoredRests ==
  ASSUME TypeOK, UNCHANGED work PROVE VerdictsKept /\ work' \in [WorkKinds -> [Heads -> WorkRow]]
BY TypeRows DEF VerdictsKept, Review

(* What a pass knows of the head it read.                                  *)
LocalSound(r) ==
  /\ r.pc \in AfterRead => r.head \in Heads /\ r.head <= pr.head
  /\ r.pc \in Releasing => PassedReview(r.head)

(* A pass that ends forgets what it read.                                  *)
LEMMA StopGoes ==
  ASSUME NEW s \in Sweeps, Stop(s), sweep[s].pc \notin {"marked", "reverting"}
  PROVE  \E local \in SweepRow : GoesOn(s, local)
<1>1. Idle \in SweepRow /\ Idle.pc = "idle" BY IdleRow
<1> QED BY <1>1 DEF Stop, GoesOn, AfterRead

(* So does one that has not read the head yet.                             *)
LEMMA EarlyGoes ==
  ASSUME NEW s \in Sweeps, NEW local \in SweepRow, Goto(s, local), local.pc \notin AfterRead,
         sweep[s].pc \notin {"marked", "reverting"}
  PROVE  \E l \in SweepRow : GoesOn(s, l)
BY DEF GoesOn, AfterRead

(* Up to the reading of the head.                                          *)
LEMMA EarlySteps ==
  ASSUME TypeOK, NEW s \in Sweeps,
         \/ StartPass(s) \/ RecordObservation(s) \/ ListBoundWork(s) \/ RetireBoundWork(s)
         \/ CureThrows(s) \/ SelectPullRequest(s) \/ ReadHead(s)
  PROVE  Rest(s)
<1>0. /\ sweep[s] \in SweepRow /\ pr \in PrRow /\ pr.head \in Heads
      /\ seen \in Stored /\ attention \in Heads \cup {0}
      /\ work \in [WorkKinds -> [Heads -> WorkRow]]
  BY TypeRows DEF PrRow
<1>stage. ASSUME NEW pc \in {"refreshed", "listed", "selected"}
          PROVE  [Idle EXCEPT !.pc = pc] \in SweepRow /\ [Idle EXCEPT !.pc = pc].pc = pc
  BY <1>stage, IdleRow DEF SweepRow
<1>1. CASE StartPass(s)
  <2>1. PICK local : local = [Idle EXCEPT !.pc = "observed", !.saw = Observed] OBVIOUS
  <2>2. local \in SweepRow /\ local.pc = "observed" BY <1>0, <2>1, IdleRow, ObservedType DEF SweepRow
  <2>3. Goto(s, local) \/ Goto(s, [Idle EXCEPT !.pc = "refreshed"]) BY <1>1, <2>1 DEF StartPass
  <2>4. sweep[s].pc = "idle" BY <1>1 DEF StartPass, At
  <2>5. \E l \in SweepRow : GoesOn(s, l)
    BY <1>stage, <2>2, <2>3, <2>4, EarlyGoes DEF AfterRead
  <2>6. UNCHANGED <<pr, seen, work, released, attention, faults>> BY <1>1 DEF StartPass
  <2> QED BY <1>0, <2>5, <2>6, StoredRests DEF Rest
<1>2. CASE RecordObservation(s)
  <2>1. Goto(s, [Idle EXCEPT !.pc = "refreshed"]) /\ sweep[s].pc = "observed"
        /\ UNCHANGED <<pr, work, released, attention, faults>>
    BY <1>2 DEF RecordObservation, At
  <2>2. \E l \in SweepRow : GoesOn(s, l) BY <1>stage, <2>1, EarlyGoes DEF AfterRead
  <2>3. PICK held \in {FALSE, seen.held /\ sweep[s].saw.state = "open"} :
          seen' = Storing(sweep[s].saw, held)
    BY <1>2 DEF RecordObservation
  <2>4. sweep[s].saw \in Observations /\ held \in BOOLEAN BY <1>0, <2>3, StoredType DEF SweepRow
  <2>5. seen' \in Stored BY <2>3, <2>4, StoredType
  <2> QED BY <1>0, <2>1, <2>2, <2>5, StoredRests DEF Rest
<1>3. CASE ListBoundWork(s)
  <2>1. PICK bound : bound = {b \in WorkKinds \X Heads : Retirable(b[1], b[2])} OBVIOUS
  <2>2. PICK local : local = [Idle EXCEPT !.pc = "retiring", !.bound = bound] OBVIOUS
  <2>3. bound \in SUBSET (WorkKinds \X Heads) BY <2>1
  <2>4. local \in SweepRow /\ local.pc = "retiring" BY <2>2, <2>3, IdleRow DEF SweepRow
  <2>5. Goto(s, local) \/ Goto(s, [Idle EXCEPT !.pc = "listed"])
    BY <1>3, <2>1, <2>2 DEF ListBoundWork
  <2>6. sweep[s].pc = "refreshed" /\ UNCHANGED <<pr, seen, work, released, attention, faults>>
    BY <1>3 DEF ListBoundWork, At
  <2>7. \E l \in SweepRow : GoesOn(s, l) BY <1>stage, <2>4, <2>5, <2>6, EarlyGoes DEF AfterRead
  <2> QED BY <1>0, <2>6, <2>7, StoredRests DEF Rest
<1>4. CASE RetireBoundWork(s)
  <2>1. PICK able : able = {b \in sweep[s].bound : Retirable(b[1], b[2])} OBVIOUS
  <2>2. /\ sweep[s].pc = "retiring" /\ UNCHANGED <<pr, seen, released, attention, faults>>
        /\ \/ work' = Retired(able) /\ Goto(s, [Idle EXCEPT !.pc = "listed"])
           \/ (\E some \in SUBSET able : work' = Retired(some)) /\ Stop(s)
    BY <1>4, <2>1 DEF RetireBoundWork, At
  <2>3. \E some \in SUBSET able : work' = Retired(some) BY <2>2
  <2>4. PICK some \in SUBSET able : work' = Retired(some) BY <2>3
  <2>5. \A k \in WorkKinds, h \in Heads : <<k, h>> \in some => Retirable(k, h) BY <2>1
  <2>6. work' \in [WorkKinds -> [Heads -> WorkRow]] /\ VerdictsKept
    BY <1>0, <2>4, <2>5, RetireKeeps
  <2>7. \E l \in SweepRow : GoesOn(s, l) BY <1>stage, <2>2, StopGoes, EarlyGoes DEF AfterRead
  <2> QED BY <1>0, <2>2, <2>6, <2>7 DEF Rest
<1>5. CASE SelectPullRequest(s)
  <2>1. /\ sweep[s].pc = "listed" /\ UNCHANGED <<pr, seen, work, released, attention, faults>>
        /\ Goto(s, [Idle EXCEPT !.pc = "selected"]) \/ Stop(s)
    BY <1>5 DEF SelectPullRequest, At
  <2>2. \E l \in SweepRow : GoesOn(s, l) BY <1>stage, <2>1, StopGoes, EarlyGoes DEF AfterRead
  <2> QED BY <1>0, <2>1, <2>2, StoredRests DEF Rest
<1>6. CASE ReadHead(s)
  <2>1. PICK local : local = [Idle EXCEPT !.pc = "deciding", !.head = pr.head] OBVIOUS
  <2>2. local \in SweepRow /\ local.pc = "deciding" /\ local.head = pr.head
    BY <1>0, <2>1, IdleRow DEF SweepRow
  <2>3. /\ sweep[s].pc = "selected" /\ UNCHANGED <<pr, seen, work, released, attention, faults>>
        /\ Goto(s, local) \/ Stop(s)
    BY <1>6, <2>1 DEF ReadHead, At
  <2>4. \E l \in SweepRow : GoesOn(s, l) BY <2>2, <2>3, StopGoes DEF GoesOn
  <2> QED BY <1>0, <2>3, <2>4, StoredRests DEF Rest
<1>7. CASE CureThrows(s)
  <2>1. /\ sweep[s].pc = "listed" /\ UNCHANGED <<pr, seen, work, released, attention, faults>>
        /\ Stop(s)
    BY <1>7 DEF CureThrows, At
  <2>2. \E l \in SweepRow : GoesOn(s, l) BY <2>1, StopGoes
  <2> QED BY <1>0, <2>1, <2>2, StoredRests DEF Rest
<1> QED BY <1>1, <1>2, <1>3, <1>4, <1>5, <1>6, <1>7

(* The decision: only a verdict on the very head it read makes a pass      *)
(* begin to release it.                                                    *)
LEMMA DecideRests ==
  ASSUME TypeOK, NEW s \in Sweeps, LocalSound(sweep[s]), DecideNext(s) PROVE Rest(s)
<1> DEFINE head == sweep[s].head
<1>0. /\ sweep[s] \in SweepRow /\ seen \in Stored /\ attention \in Heads \cup {0}
      /\ work \in [WorkKinds -> [Heads -> WorkRow]]
  BY TypeRows
<1>1. sweep[s].pc = "deciding" /\ UNCHANGED <<pr, seen, released, faults>>
  BY DEF DecideNext, At
<1>2. head \in Heads /\ head # 0 BY <1>1, GateAssumption DEF LocalSound, AfterRead, Heads
<1>3. ASSUME NEW pc \in {"passing", "fixing"}, pc = "passing" => PassedReview(head),
             Goto(s, [sweep[s] EXCEPT !.pc = pc])
      PROVE  \E l \in SweepRow : GoesOn(s, l)
  <2>1. PICK local : local = [sweep[s] EXCEPT !.pc = pc] OBVIOUS
  <2>2. local \in SweepRow /\ local.pc = pc /\ local.head = head BY <1>0, <1>3, <2>1 DEF SweepRow
  <2> QED BY <1>1, <1>3, <2>1, <2>2 DEF GoesOn, AfterRead
<1>4. "review" \in WorkKinds /\ "fix" \in WorkKinds BY DEF WorkKinds
<1>5. CASE WorkInFlight # {}
  <2>1. Stop(s) /\ UNCHANGED <<work, attention>> BY <1>5 DEF DecideNext
  <2> QED BY <1>0, <1>1, <2>1, StopGoes, StoredRests DEF Rest
<1>6. ASSUME NEW latest \in LatestReviews, latest = head, ActOnVerdict(s, latest)
      PROVE  Rest(s)
  <2>1. Review(head).status = "completed" /\ work["review"][head] \in WorkRow
    BY <1>0, <1>2, <1>4, <1>6 DEF LatestReviews, CompletedReviews
  <2>2. CASE Review(head).verdict \in Passing /\ Goto(s, [sweep[s] EXCEPT !.pc = "passing"])
    <3>1. attention' \in Heads \cup {0} /\ UNCHANGED work
      BY <1>0, <1>2, <1>6, <2>2 DEF ActOnVerdict, ReportForHuman, Passing
    <3>2. PassedReview(head) BY <2>1, <2>2 DEF PassedReview
    <3> QED BY <1>0, <1>1, <1>3, <2>2, <3>1, <3>2, StoredRests DEF Rest
  <2>3. CASE ReportForHuman(head) /\ Stop(s) /\ UNCHANGED work
    BY <1>0, <1>1, <1>2, <2>3, StopGoes, StoredRests DEF Rest, ReportForHuman
  <2>4. CASE ReportForHuman(head) /\ Goto(s, [sweep[s] EXCEPT !.pc = "fixing"]) /\ UNCHANGED work
    BY <1>0, <1>1, <1>2, <1>3, <2>4, StoredRests DEF Rest, ReportForHuman
  <2>5. CASE UNCHANGED attention /\ EnqueueReviewRoot("fix", head, Review(head).round, FALSE) /\ Stop(s)
    <3>1. Review(head).round \in 0 .. MaxRounds BY <2>1 DEF Review, WorkRow
    <3>2. work' \in [WorkKinds -> [Heads -> WorkRow]] /\ VerdictsKept
      BY <1>0, <1>2, <1>4, <2>5, <3>1, EnqueueKeeps
    <3> QED BY <1>0, <1>1, <2>5, <3>2, StopGoes DEF Rest
  <2> QED BY <1>6, <2>2, <2>3, <2>4, <2>5 DEF ActOnVerdict
<1>7. ASSUME NEW latest \in LatestReviews, PlanRound(s, latest)
      PROVE  Rest(s)
  <2> DEFINE round == Cardinality(CompletedReviews) + 1
             prior == latest # 0 /\ Review(latest).verdict \in Describing
  <2>1. round \in Nat /\ MaxRounds \in Nat BY RoundsCounted, GateAssumption
  <2>2. CASE round > MaxRounds
    <3>1. ReportForHuman(head) /\ Stop(s) /\ UNCHANGED work BY <1>7, <2>2 DEF PlanRound
    <3> QED BY <1>0, <1>1, <1>2, <3>1, StopGoes, StoredRests DEF Rest, ReportForHuman
  <2>3. CASE ~(round > MaxRounds)
    <3>1. /\ Goto(s, [sweep[s] EXCEPT !.pc = "digesting", !.round = round, !.prior = prior])
          /\ UNCHANGED <<work, attention>>
      BY <1>7, <2>3 DEF PlanRound
    <3>2. prior \in BOOLEAN OBVIOUS
    <3>3. round \in 0 .. MaxRounds BY <2>1, <2>3
    <3> HIDE DEF prior, round
    <3>4. PICK local : local = [sweep[s] EXCEPT !.pc = "digesting", !.round = round, !.prior = prior]
      OBVIOUS
    <3>5. local \in SweepRow /\ local.pc = "digesting" /\ local.head = head
      BY <1>0, <3>2, <3>3, <3>4 DEF SweepRow
    <3>6. \E l \in SweepRow : GoesOn(s, l) BY <1>1, <3>1, <3>4, <3>5 DEF GoesOn, AfterRead
    <3> QED BY <1>0, <1>1, <3>1, <3>6, StoredRests DEF Rest
  <2> QED BY <2>2, <2>3
<1> QED BY <1>5, <1>6, <1>7 DEF DecideNext

(* What a decision enqueues, and what it leaves to a human.                *)
LEMMA LateSteps ==
  ASSUME TypeOK, NEW s \in Sweeps, LocalSound(sweep[s]),
         EnqueueRound(s) \/ EnqueueFix(s) \/ LeaveToHuman(s) \/ MarkRefused(s)
  PROVE  Rest(s)
<1>0. /\ sweep[s] \in SweepRow /\ seen \in Stored /\ attention \in Heads \cup {0}
      /\ work \in [WorkKinds -> [Heads -> WorkRow]]
  BY TypeRows
<1>1. /\ sweep[s].pc \in {"digesting", "fixing", "passing"} /\ Stop(s)
      /\ UNCHANGED <<pr, seen, released, faults>>
  BY DEF EnqueueRound, EnqueueFix, LeaveToHuman, MarkRefused, At
<1>2. sweep[s].head \in Heads BY <1>1 DEF LocalSound, AfterRead
<1>3. \E l \in SweepRow : GoesOn(s, l) BY <1>1, StopGoes
<1>4. "review" \in WorkKinds /\ "fix" \in WorkKinds BY DEF WorkKinds
<1>5. attention' \in Heads \cup {0}
  BY <1>0, <1>2 DEF EnqueueRound, EnqueueFix, LeaveToHuman, MarkRefused, ReportForHuman
<1>6. work' \in [WorkKinds -> [Heads -> WorkRow]] /\ VerdictsKept
  <2>1. CASE EnqueueRound(s)
    <3>1. sweep[s].round \in 0 .. MaxRounds /\ sweep[s].prior \in BOOLEAN BY <1>0 DEF SweepRow
    <3> QED BY <1>0, <1>2, <1>4, <2>1, <3>1, EnqueueKeeps DEF EnqueueRound
  <2>2. CASE EnqueueFix(s)
    <3>1. work["review"][sweep[s].head] \in WorkRow BY <1>0, <1>2, <1>4
    <3>2. Review(sweep[s].head).round \in 0 .. MaxRounds BY <3>1 DEF Review, WorkRow
    <3> QED BY <1>0, <1>2, <1>4, <2>2, <3>2, EnqueueKeeps DEF EnqueueFix
  <2>3. CASE LeaveToHuman(s) \/ MarkRefused(s)
    BY <2>3, StoredRests DEF LeaveToHuman, MarkRefused
  <2> QED BY <2>1, <2>2, <2>3
<1> QED BY <1>0, <1>1, <1>3, <1>5, <1>6 DEF Rest

(* The release of the head is recorded, and the pass ends.                 *)
LEMMA RecordDoes ==
  ASSUME TypeOK, NEW s \in Sweeps, RecordReady(s)
  PROVE  /\ seen' \in Stored /\ released' = released \cup {sweep[s].head} /\ Goto(s, Idle)
<1>1. seen \in Stored BY TypeRows
<1>2. [seen EXCEPT !.draft = FALSE] \in Stored BY <1>1, StoredType
<1> QED BY <1>1, <1>2 DEF RecordReady, Stop

(* The head is confirmed: released, or to be taken back.                   *)
LEMMA ConfirmDoes ==
  ASSUME TypeOK, NEW s \in Sweeps, LocalSound(sweep[s]), ConfirmReady(s)
  PROVE  /\ sweep[s].pc = "marked" /\ sweep[s].head \in Heads /\ PassedReview(sweep[s].head)
         /\ UNCHANGED <<pr, work, attention, faults>> /\ seen' \in Stored
         /\ \E local \in SweepRow :
              /\ Goto(s, local)
              /\ IF pr.state = "open" /\ pr.head # sweep[s].head
                   THEN local.pc = "reverting" /\ local.head = sweep[s].head /\ released' = released
                   ELSE local.pc = "idle" /\ released' = released \cup {sweep[s].head}
<1>0. sweep[s] \in SweepRow /\ seen \in Stored BY TypeRows
<1>1. sweep[s].pc = "marked" /\ UNCHANGED <<pr, work, attention, faults>>
  BY DEF ConfirmReady, At
<1>2. sweep[s].head \in Heads /\ PassedReview(sweep[s].head)
  BY <1>1 DEF LocalSound, AfterRead, Releasing
<1>3. seen' \in Stored
  <2>1. seen' = seen \/ RecordReady(s) BY DEF ConfirmReady
  <2> QED BY <1>0, <2>1, RecordDoes
<1>4. CASE pr.state = "open" /\ pr.head # sweep[s].head
  <2>1. PICK local : local = [sweep[s] EXCEPT !.pc = "reverting"] OBVIOUS
  <2>2. local \in SweepRow /\ local.pc = "reverting" /\ local.head = sweep[s].head
    BY <1>0, <2>1 DEF SweepRow
  <2>3. Goto(s, local) /\ released' = released BY <1>4, <2>1 DEF ConfirmReady
  <2> QED BY <1>1, <1>2, <1>3, <1>4, <2>2, <2>3
<1>5. CASE ~(pr.state = "open" /\ pr.head # sweep[s].head)
  <2>1. Goto(s, Idle) /\ released' = released \cup {sweep[s].head}
    <3>1. RecordReady(s) BY <1>5 DEF ConfirmReady
    <3> QED BY <3>1, RecordDoes
  <2> QED BY <1>1, <1>2, <1>3, <1>5, <2>1, IdleRow
<1> QED BY <1>4, <1>5

(* A call that is not answered or rejected, or a process that dies: the    *)
(* pass stops, or goes on without having read the head, or takes back; what*)
(* it releases is the head it marked.                                      *)
LEMMA FaultDoes ==
  ASSUME TypeOK, NEW s \in Sweeps, GitHubUnavailable(s) \/ GitHubRejects(s) \/ Crash(s)
  PROVE  /\ faults' = faults + 1 /\ faults' \in 0 .. MaxFaults
         /\ UNCHANGED <<pr, work, attention>> /\ seen' \in Stored
         /\ \/ released' = released
            \/ sweep[s].pc = "marked" /\ released' = released \cup {sweep[s].head}
         /\ \E local \in SweepRow :
              /\ Goto(s, local)
              /\ \/ local.pc \notin AfterRead
                 \/ /\ sweep[s].pc = "marked" /\ local.pc = "reverting"
                    /\ local.head = sweep[s].head
<1>0. /\ sweep[s] \in SweepRow /\ faults \in 0 .. MaxFaults /\ MaxFaults \in Nat
      /\ seen \in Stored
  BY TypeRows, GateAssumption
<1>1. /\ faults < MaxFaults /\ faults' = faults + 1 /\ UNCHANGED <<pr, work, attention>>
  BY DEF GitHubUnavailable, GitHubRejects, Crash
<1>2. faults' \in 0 .. MaxFaults BY <1>0, <1>1
<1>3. ASSUME NEW pc \in {"refreshed", "listed"}
      PROVE  [Idle EXCEPT !.pc = pc] \in SweepRow /\ [Idle EXCEPT !.pc = pc].pc \notin AfterRead
  BY <1>3, IdleRow DEF SweepRow, AfterRead
<1>4. [sweep[s] EXCEPT !.pc = "reverting"] \in SweepRow
      /\ [sweep[s] EXCEPT !.pc = "reverting"].pc = "reverting"
      /\ [sweep[s] EXCEPT !.pc = "reverting"].head = sweep[s].head
  BY <1>0 DEF SweepRow
<1>5. \/ Goto(s, Idle)
      \/ Goto(s, [Idle EXCEPT !.pc = "refreshed"])
      \/ Goto(s, [Idle EXCEPT !.pc = "listed"])
      \/ sweep[s].pc = "marked" /\ Goto(s, [sweep[s] EXCEPT !.pc = "reverting"])
  BY RecordDoes DEF GitHubUnavailable, GitHubRejects, Crash, At, Stop
<1>6. Idle \in SweepRow /\ Idle.pc \notin AfterRead BY IdleRow DEF AfterRead
<1>7. /\ seen' \in Stored
      /\ \/ released' = released
         \/ sweep[s].pc = "marked" /\ released' = released \cup {sweep[s].head}
  <2>1. CASE GitHubUnavailable(s) \/ Crash(s) BY <1>0, <2>1 DEF GitHubUnavailable, Crash
  <2>2. CASE GitHubRejects(s)
    <3>1. [seen EXCEPT !.held = TRUE] \in Stored BY <1>0, StoredType
    <3>2. \/ seen' = [seen EXCEPT !.held = TRUE] /\ released' = released
          \/ sweep[s].pc = "marked" /\ RecordReady(s)
      BY <2>2 DEF GitHubRejects, At
    <3> QED BY <3>1, <3>2, RecordDoes
  <2> QED BY <2>1, <2>2
<1> HIDE DEF Idle, SweepRow
<1> QED BY <1>1, <1>2, <1>3, <1>4, <1>5, <1>6, <1>7

-----------------------------------------------------------------------------
(* What workers and people do.                                             *)

(* One item of work moves on; a completed one never does.                  *)
LEMMA WorkerKeeps ==
  ASSUME TypeOK, NEW k \in WorkKinds, NEW h \in Heads,
         \/ WorkerStep(k, h) \/ Lapse(k, h) \/ (k = "fix" /\ FinishUnverified(h))
         \/ \E status \in {"queued", "cancelled"} : RequeueOrCancel(k, h, status)
  PROVE  /\ work' \in [WorkKinds -> [Heads -> WorkRow]] /\ VerdictsKept
         /\ seen' \in Stored /\ faults' \in 0 .. MaxFaults
         /\ faults' = faults \/ faults' = faults + 1
         /\ UNCHANGED <<pr, sweep, released, attention>>
<1>0. /\ work \in [WorkKinds -> [Heads -> WorkRow]] /\ work[k][h] \in WorkRow
      /\ seen \in Stored /\ pr \in PrRow
      /\ faults \in 0 .. MaxFaults /\ MaxFaults \in Nat
  BY TypeRows, GateAssumption
<1> DEFINE old == work[k][h]
<1>1. ASSUME NEW row \in WorkRow, SetWork(k, h, row), old.status # "completed"
      PROVE  /\ work' \in [WorkKinds -> [Heads -> WorkRow]] /\ VerdictsKept
             /\ UNCHANGED <<pr, sweep, released, attention>>
  BY <1>0, <1>1, WorkChanges DEF SetWork
<1>status. ASSUME NEW status \in {"queued", "claimed", "completed", "blocked", "cancelled"}
           PROVE  [old EXCEPT !.status = status] \in WorkRow
  BY <1>0, <1>status DEF WorkRow, InFlight
<1>done. [old EXCEPT !.status = "completed", !.saw = OpenDraft] \in WorkRow
  BY <1>0, IdleRow DEF WorkRow, InFlight
<1>2. CASE Claim(k, h)
  <2>1. /\ SetWork(k, h, [old EXCEPT !.status = "claimed"]) /\ old.status = "queued"
        /\ UNCHANGED <<seen, faults>>
    BY <1>2 DEF Claim
  <2> QED BY <1>0, <1>1, <1>status, <2>1
<1>3. CASE Finish(k, h)
  <2>1. /\ SetWork(k, h, [old EXCEPT !.status = "completed", !.saw = OpenDraft])
        /\ old.status = "checked" /\ faults' = faults
        /\ seen' = seen \/ seen' = Storing(old.saw, seen.held)
    BY <1>3 DEF Finish
  <2>2. old.saw \in Observations /\ seen.held \in BOOLEAN BY <1>0, StoredType DEF WorkRow
  <2>3. seen' \in Stored BY <1>0, <2>1, <2>2, StoredType
  <2> QED BY <1>0, <1>1, <1>done, <2>1, <2>3
<1>4. CASE Block(k, h)
  <2>1. /\ SetWork(k, h, [old EXCEPT !.status = "blocked"]) /\ old.status = "claimed"
        /\ UNCHANGED <<seen, faults>>
    BY <1>4 DEF Block
  <2> QED BY <1>0, <1>1, <1>status, <2>1
<1>5. ASSUME k = "review", NEW verdict \in Verdicts, CheckReview(h, verdict)
      PROVE  /\ work' \in [WorkKinds -> [Heads -> WorkRow]] /\ VerdictsKept
             /\ UNCHANGED <<pr, seen, sweep, released, attention, faults>>
  <2>1. PICK row : row = [old EXCEPT !.status = "checked", !.verdict = verdict] OBVIOUS
  <2>2. row \in WorkRow BY <1>0, <1>5, <2>1 DEF WorkRow, InFlight
  <2>3. SetWork(k, h, row) /\ old.status = "claimed" /\ UNCHANGED <<seen, faults>>
    BY <1>5, <2>1 DEF CheckReview, Review
  <2> QED BY <1>1, <2>2, <2>3
<1>6. ASSUME k = "fix", CheckFix(h)
      PROVE  /\ work' \in [WorkKinds -> [Heads -> WorkRow]] /\ VerdictsKept
             /\ UNCHANGED <<pr, seen, sweep, released, attention, faults>>
  <2>1. PICK row : row = [old EXCEPT !.status = "checked", !.saw = Observed] OBVIOUS
  <2>2. Observed \in Observations BY <1>0, ObservedType
  <2>3. row \in WorkRow BY <1>0, <2>1, <2>2 DEF WorkRow, InFlight
  <2>4. SetWork(k, h, row) /\ old.status = "claimed" /\ UNCHANGED <<seen, faults>>
    BY <1>6, <2>1 DEF CheckFix
  <2> QED BY <1>1, <2>3, <2>4
<1>7. CASE Lapse(k, h)
  <2>1. PICK row : row = [old EXCEPT !.status = "queued", !.verdict = "none", !.saw = OpenDraft]
    OBVIOUS
  <2>2. row \in WorkRow BY <1>0, <2>1, IdleRow DEF WorkRow, InFlight
  <2>3. /\ SetWork(k, h, row) /\ old.status \in {"claimed", "checked"} /\ seen' = seen
        /\ faults < MaxFaults /\ faults' = faults + 1
    BY <1>7, <2>1 DEF Lapse
  <2> QED BY <1>0, <1>1, <2>2, <2>3
<1>8. ASSUME NEW status \in {"queued", "cancelled"}, RequeueOrCancel(k, h, status)
      PROVE  /\ work' \in [WorkKinds -> [Heads -> WorkRow]] /\ VerdictsKept
             /\ UNCHANGED <<pr, seen, sweep, released, attention, faults>>
  <2>1. /\ SetWork(k, h, [old EXCEPT !.status = status]) /\ old.status = "blocked"
        /\ UNCHANGED <<seen, faults>>
    BY <1>8 DEF RequeueOrCancel
  <2> QED BY <1>1, <1>status, <2>1
<1>9. CASE k = "fix" /\ FinishUnverified(h)
  <2>1. /\ SetWork(k, h, [old EXCEPT !.status = "completed", !.saw = OpenDraft])
        /\ old.status \in {"claimed", "checked"} /\ seen' = [seen EXCEPT !.held = TRUE]
        /\ faults < MaxFaults /\ faults' = faults + 1
    BY <1>9 DEF FinishUnverified
  <2>2. seen' \in Stored BY <1>0, <2>1, StoredType
  <2> QED BY <1>0, <1>1, <1>done, <2>1, <2>2
<1> QED BY <1>0, <1>2, <1>3, <1>4, <1>5, <1>6, <1>7, <1>8, <1>9 DEF WorkerStep

(* What happens on GitHub: a push, or something done by hand.              *)
LEMMA GitHubDoes ==
  ASSUME TypeOK, GitHubStep
  PROVE  /\ pr' \in PrRow /\ UNCHANGED <<seen, work, sweep, released, attention, faults>>
         /\ \/ /\ pr'.head = pr.head + 1 /\ pr'.marked = pr.marked /\ pr'.state = pr.state
               /\ pr'.draft = pr.draft
            \/ pr'.head = pr.head /\ pr'.marked = 0
<1>0. pr \in PrRow /\ pr.head \in Heads /\ MaxHeads \in Nat
  BY TypeRows, GateAssumption DEF PrRow
<1>1. CASE Push
  <2>1. PICK head : head = pr.head + 1 OBVIOUS
  <2>2. pr' = [pr EXCEPT !.head = head] /\ UNCHANGED <<seen, work, sweep, released, attention, faults>>
    BY <1>1, <2>1 DEF Push
  <2>3. head \in Heads BY <1>0, <1>1, <2>1 DEF Push, Heads
  <2> QED BY <1>0, <2>1, <2>2, <2>3 DEF PrRow
<1>2. ASSUME NEW draft \in BOOLEAN, SetDraftByHand(draft)
      PROVE  /\ pr' \in PrRow /\ UNCHANGED <<seen, work, sweep, released, attention, faults>>
             /\ pr'.head = pr.head /\ pr'.marked = 0
  BY <1>0, <1>2 DEF SetDraftByHand, PrRow
<1>3. ASSUME NEW state \in {"open", "closed", "merged"}, SetStateByHand(state)
      PROVE  /\ pr' \in PrRow /\ UNCHANGED <<seen, work, sweep, released, attention, faults>>
             /\ pr'.head = pr.head /\ pr'.marked = 0
  BY <1>0, <1>3 DEF SetStateByHand, PrRow
<1> QED BY <1>1, <1>2, <1>3 DEF GitHubStep

-----------------------------------------------------------------------------
(* The invariant.                                                          *)

(* The gate made the pull request ready at a head that no review passed.   *)
MarkedUnreviewed ==
  pr.state = "open" /\ pr.marked # 0 /\ ~PassedReview(pr.marked)

(* A pass that is going to notice, or has noticed, that the head moved.    *)
TakesBack(r) == r.pc = "reverting" \/ (r.pc = "marked" /\ r.head < pr.head)

(* As long as nothing failed, some pass will take the mark back.           *)
Covered == faults = 0 /\ MarkedUnreviewed => \E s \in Sweeps : TakesBack(sweep[s])

GateInv ==
  /\ TypeOK
  /\ \A s \in Sweeps : LocalSound(sweep[s])
  /\ ReleasedHeadsPassed
  /\ Covered

(* What a pass knows stays true, as heads are added and reviews pass.      *)
LEMMA LocalStays ==
  ASSUME TypeOK, VerdictsKept, pr'.head \in Nat, pr.head <= pr'.head,
         NEW r \in SweepRow, LocalSound(r)
  PROVE  LocalSound(r)'
<1>1. r.pc \in AfterRead => r.head \in Heads /\ r.head <= pr'.head
  BY TypeRows, GateAssumption DEF LocalSound, Heads, PrRow
<1>2. r.pc \in Releasing => r.head \in Heads /\ PassedReview(r.head)
  BY DEF LocalSound, Releasing, AfterRead
<1>3. r.pc \in Releasing => PassedReview(r.head)' BY <1>2, PassedStays
<1> QED BY <1>1, <1>3 DEF LocalSound

(* A pass moves, and what it knows then is true.                           *)
LEMMA LocalMoves ==
  ASSUME GateInv, VerdictsKept, pr'.head = pr.head, NEW s \in Sweeps, NEW local \in SweepRow,
         Goto(s, local),
         \/ local.pc \notin AfterRead
         \/ local.pc = "deciding" /\ local.head = pr.head
         \/ /\ sweep[s].pc \in AfterRead /\ local.head = sweep[s].head
            /\ local.pc \in Releasing => PassedReview(local.head)
  PROVE  /\ sweep' \in [Sweeps -> SweepRow] /\ sweep'[s] = local
         /\ \A t \in Sweeps : t # s => sweep'[t] = sweep[t]
         /\ \A t \in Sweeps : LocalSound(sweep[t])'
<1>0. /\ TypeOK /\ sweep \in [Sweeps -> SweepRow] /\ pr.head \in Heads /\ pr.head \in Nat
  BY TypeRows, GateAssumption DEF GateInv, PrRow, Heads
<1>1. /\ sweep' \in [Sweeps -> SweepRow] /\ sweep'[s] = local
      /\ \A t \in Sweeps : t # s => sweep'[t] = sweep[t]
  BY <1>0, GotoType
<1>2. LocalSound(local)
  <2>1. LocalSound(sweep[s]) BY DEF GateInv
  <2> QED BY <1>0, <2>1 DEF LocalSound, AfterRead, Releasing
<1>3. LocalSound(local)' BY <1>0, <1>2, LocalStays
<1>4. ASSUME NEW t \in Sweeps, t # s PROVE LocalSound(sweep[t])'
  <2>1. LocalSound(sweep[t]) /\ sweep[t] \in SweepRow /\ sweep'[t] = sweep[t]
    BY <1>0, <1>1, <1>4 DEF GateInv
  <2>2. ASSUME NEW r \in SweepRow, LocalSound(r), sweep'[t] = r PROVE LocalSound(sweep[t])'
    <3>1. LocalSound(r)' BY <1>0, <2>2, LocalStays
    <3> QED BY <2>2, <3>1 DEF LocalSound
  <2> QED BY <2>1, <2>2
<1>5. LocalSound(sweep[s])' BY <1>1, <1>3 DEF LocalSound
<1> QED BY <1>1, <1>4, <1>5

(* The heads released so far stay passed.                                  *)
LEMMA ReleasedStays ==
  ASSUME GateInv, VerdictsKept, released' = released PROVE ReleasedHeadsPassed'
<1>1. \A h \in released : h \in Heads /\ PassedReview(h)
  BY DEF GateInv, TypeOK, ReleasedHeadsPassed
<1>2. \A h \in released : PassedReview(h)' BY <1>1, PassedStays
<1> QED BY <1>2 DEF ReleasedHeadsPassed

(* Who was to take the mark back still is, when only heads are added and   *)
(* the passes between the mark and the conversion stay where they are.     *)
LEMMA CoverStays ==
  ASSUME GateInv, VerdictsKept, faults' = faults \/ faults' = faults + 1,
         pr' \in PrRow, pr.head <= pr'.head, pr'.marked = pr.marked,
         pr'.state = pr.state,
         \A t \in Sweeps : sweep[t].pc \in {"marked", "reverting"} => sweep'[t] = sweep[t]
  PROVE  Covered'
<1>0. /\ pr \in PrRow /\ pr.head \in Nat /\ pr'.head \in Nat /\ faults \in Nat
      /\ sweep \in [Sweeps -> SweepRow]
  BY TypeRows, GateAssumption DEF GateInv, PrRow, Heads
<1> SUFFICES ASSUME faults' = 0, MarkedUnreviewed' PROVE \E s \in Sweeps : TakesBack(sweep[s])'
  BY DEF Covered
<1>1. faults = 0 BY <1>0
<1>2. pr.marked \in Heads BY <1>0 DEF PrRow, MarkedUnreviewed
<1>3. ~PassedReview(pr.marked)
  <2> SUFFICES ASSUME PassedReview(pr.marked) PROVE FALSE OBVIOUS
  <2>1. PICK h \in Heads : h = pr.marked BY <1>2
  <2>2. PassedReview(h)' BY <2>1, PassedStays
  <2>3. PassedReview(pr.marked)' BY <2>1, <2>2 DEF PassedReview, Review
  <2> QED BY <2>3 DEF MarkedUnreviewed
<1>4. MarkedUnreviewed BY <1>3 DEF MarkedUnreviewed
<1>5. PICK s \in Sweeps : TakesBack(sweep[s]) BY <1>1, <1>4 DEF GateInv, Covered
<1>6. sweep'[s] = sweep[s] BY <1>5 DEF TakesBack
<1>7. sweep[s].pc = "marked" => sweep[s].head \in Nat
  BY GateAssumption DEF GateInv, LocalSound, AfterRead, Heads
<1> QED BY <1>0, <1>5, <1>6, <1>7 DEF TakesBack

(* A step of a pass that has nothing to take back.                         *)
LEMMA RestKeeps == ASSUME GateInv, NEW s \in Sweeps, Rest(s) PROVE GateInv'
<1>0. TypeOK BY DEF GateInv
<1>1. /\ UNCHANGED <<pr, released, faults>> /\ VerdictsKept
      /\ work' \in [WorkKinds -> [Heads -> WorkRow]] /\ seen' \in Stored
      /\ attention' \in Heads \cup {0}
  BY DEF Rest
<1>2. PICK local \in SweepRow : GoesOn(s, local) BY DEF Rest
<1>3. local.pc \in Releasing => local.pc = "passing" BY <1>2 DEF GoesOn, Releasing
<1>4. /\ sweep' \in [Sweeps -> SweepRow] /\ sweep'[s] = local
      /\ \A t \in Sweeps : t # s => sweep'[t] = sweep[t]
      /\ \A t \in Sweeps : LocalSound(sweep[t])'
  BY <1>1, <1>2, <1>3, LocalMoves DEF GoesOn
<1>5. \A t \in Sweeps : sweep[t].pc \in {"marked", "reverting"} => sweep'[t] = sweep[t]
  BY <1>2, <1>4 DEF GoesOn
<1>6. pr \in PrRow /\ pr.head \in Nat BY <1>0, TypeRows, GateAssumption DEF PrRow, Heads
<1>7. Covered' BY <1>1, <1>5, <1>6, CoverStays
<1>8. ReleasedHeadsPassed' BY <1>1, ReleasedStays
<1>9. /\ pr' \in PrRow /\ released' \subseteq Heads /\ faults' \in 0 .. MaxFaults
  BY <1>0, <1>1, TypeRows
<1>10. TypeOK' BY <1>1, <1>4, <1>9 DEF TypeOK, PrRow, SweepRow
<1> QED BY <1>1, <1>4, <1>7, <1>8, <1>10 DEF GateInv

(* The mark: at another head than the pass read, it will be taken back.    *)
LEMMA MarkKeeps == ASSUME GateInv, NEW s \in Sweeps, MarkReady(s) PROVE GateInv'
<1>0. TypeOK /\ sweep \in [Sweeps -> SweepRow] /\ sweep[s] \in SweepRow
      /\ pr \in PrRow /\ pr.head \in Heads /\ pr.head \in Nat
  BY TypeRows, GateAssumption DEF GateInv, PrRow, Heads
<1>1. /\ sweep[s].pc = "passing" /\ pr.state = "open"
      /\ pr' = IF pr.draft THEN [pr EXCEPT !.draft = FALSE, !.marked = pr.head] ELSE pr
      /\ Goto(s, [sweep[s] EXCEPT !.pc = "marked"])
      /\ UNCHANGED <<seen, work, released, attention, faults>>
  BY DEF MarkReady, At
<1>2. PICK local : local = [sweep[s] EXCEPT !.pc = "marked"] OBVIOUS
<1>3. local \in SweepRow /\ local.pc = "marked" /\ local.head = sweep[s].head
  BY <1>0, <1>2 DEF SweepRow
<1>4. /\ sweep[s].head \in Heads /\ sweep[s].head <= pr.head /\ PassedReview(sweep[s].head)
  BY <1>1 DEF GateInv, LocalSound, AfterRead, Releasing
<1>5. VerdictsKept BY <1>1 DEF VerdictsKept, Review
<1>6. pr' \in PrRow /\ pr'.head = pr.head BY <1>0, <1>1 DEF PrRow
<1>7. /\ sweep' \in [Sweeps -> SweepRow] /\ sweep'[s] = local
      /\ \A t \in Sweeps : t # s => sweep'[t] = sweep[t]
      /\ \A t \in Sweeps : LocalSound(sweep[t])'
  BY <1>1, <1>2, <1>3, <1>4, <1>5, <1>6, LocalMoves DEF AfterRead
<1>9. Covered'
  <2>1. CASE ~pr.draft
    <3>1. pr' = pr BY <1>1, <2>1
    <3>2. \A t \in Sweeps : sweep[t].pc \in {"marked", "reverting"} => sweep'[t] = sweep[t]
      BY <1>1, <1>7
    <3>3. /\ pr' \in PrRow /\ pr.head <= pr'.head /\ pr'.marked = pr.marked
          /\ pr'.state = pr.state
      BY <1>0, <1>6, <3>1
    <3>4. faults' = faults BY <1>1
    <3> QED BY ONLY GateInv, <1>5, <3>2, <3>3, <3>4, CoverStays
  <2>2. CASE pr.draft
    <3>1. pr'.marked = pr.head BY <1>0, <1>1, <2>2 DEF PrRow
    <3> SUFFICES ASSUME MarkedUnreviewed' PROVE \E t \in Sweeps : TakesBack(sweep[t])'
      BY DEF Covered
    <3>2. ~PassedReview(pr.head) BY <1>1, <3>1 DEF MarkedUnreviewed, PassedReview, Review
    <3>3. sweep[s].head # pr.head BY <1>4, <3>2
    <3>4. local.head < pr'.head BY <1>0, <1>3, <1>4, <1>6, <3>3, GateAssumption DEF Heads
    <3> QED BY <1>3, <1>7, <3>4 DEF TakesBack
  <2> QED BY <2>1, <2>2
<1>10. ReleasedHeadsPassed' BY <1>1, <1>5, ReleasedStays
<1>11. TypeOK' BY <1>0, <1>1, <1>6, <1>7 DEF TypeOK, PrRow, SweepRow
<1> QED BY <1>7, <1>9, <1>10, <1>11 DEF GateInv

(* The re-read.                                                            *)
LEMMA ConfirmKeeps == ASSUME GateInv, NEW s \in Sweeps, ConfirmReady(s) PROVE GateInv'
<1>0. TypeOK /\ LocalSound(sweep[s]) /\ sweep \in [Sweeps -> SweepRow]
      /\ pr \in PrRow /\ pr.head \in Heads /\ pr.head \in Nat /\ faults \in Nat
  BY TypeRows, GateAssumption DEF GateInv, PrRow, Heads
<1>1. /\ sweep[s].pc = "marked" /\ sweep[s].head \in Heads /\ PassedReview(sweep[s].head)
      /\ UNCHANGED <<pr, work, attention, faults>> /\ seen' \in Stored
  BY <1>0, ConfirmDoes
<1>2. PICK local \in SweepRow :
        /\ Goto(s, local)
        /\ IF pr.state = "open" /\ pr.head # sweep[s].head
             THEN local.pc = "reverting" /\ local.head = sweep[s].head /\ released' = released
             ELSE local.pc = "idle" /\ released' = released \cup {sweep[s].head}
  BY <1>0, ConfirmDoes
<1>3. VerdictsKept BY <1>1 DEF VerdictsKept, Review
<1>4. /\ sweep' \in [Sweeps -> SweepRow] /\ sweep'[s] = local
      /\ \A t \in Sweeps : t # s => sweep'[t] = sweep[t]
      /\ \A t \in Sweeps : LocalSound(sweep[t])'
  BY <1>1, <1>2, <1>3, LocalMoves DEF AfterRead
<1>5. ReleasedHeadsPassed'
  <2>1. \A h \in released : PassedReview(h) BY DEF GateInv, ReleasedHeadsPassed
  <2>2. \A h \in released' : PassedReview(h) BY <1>1, <1>2, <2>1
  <2> QED BY <1>1, <2>2 DEF ReleasedHeadsPassed, PassedReview, Review
<1>6. released' \subseteq Heads BY <1>0, <1>1, <1>2 DEF TypeOK
<1>7. Covered'
  <2> SUFFICES ASSUME faults' = 0, MarkedUnreviewed' PROVE \E t \in Sweeps : TakesBack(sweep[t])'
    BY DEF Covered
  <2>1. faults = 0 /\ MarkedUnreviewed BY <1>1 DEF MarkedUnreviewed, PassedReview, Review
  <2>2. PICK t \in Sweeps : TakesBack(sweep[t]) BY <2>1 DEF GateInv, Covered
  <2>3. CASE t # s BY <1>1, <1>4, <2>2, <2>3 DEF TakesBack
  <2>4. CASE t = s
    <3>1. sweep[s].head < pr.head BY <1>1, <2>2, <2>4 DEF TakesBack
    <3>2. pr.head # sweep[s].head BY <1>0, <1>1, <3>1, GateAssumption DEF Heads
    <3>3. local.pc = "reverting" BY <1>2, <2>1, <3>2 DEF MarkedUnreviewed
    <3> QED BY <1>4, <3>3 DEF TakesBack
  <2> QED BY <2>3, <2>4
<1>8. TypeOK' BY <1>0, <1>1, <1>4, <1>6 DEF TypeOK, SweepRow
<1> QED BY <1>4, <1>5, <1>7, <1>8 DEF GateInv

(* The conversion back to a draft.                                         *)
LEMMA ConvertKeeps == ASSUME GateInv, NEW s \in Sweeps, ConvertBack(s) PROVE GateInv'
<1>0. TypeOK /\ pr \in PrRow /\ pr.head \in Heads /\ attention \in Heads \cup {0}
  BY TypeRows DEF GateInv, PrRow
<1>1. /\ sweep[s].pc = "reverting" /\ Goto(s, Idle)
      /\ pr' = IF pr.state = "open" THEN [pr EXCEPT !.draft = TRUE, !.marked = 0] ELSE pr
      /\ attention' = pr.head \/ attention' = attention
      /\ UNCHANGED <<seen, work, released, faults>>
  BY DEF ConvertBack, At, Stop, ReportForHuman
<1>2. VerdictsKept BY <1>1 DEF VerdictsKept, Review
<1>3. /\ pr' \in PrRow /\ pr'.head = pr.head
      /\ pr'.state = "open" => pr'.marked = 0
  BY <1>0, <1>1 DEF PrRow
<1>4. /\ sweep' \in [Sweeps -> SweepRow] /\ \A t \in Sweeps : LocalSound(sweep[t])'
  <2>1. Idle \in SweepRow /\ Idle.pc \notin AfterRead BY IdleRow DEF AfterRead
  <2> HIDE DEF Idle
  <2> QED BY <1>1, <1>2, <1>3, <2>1, LocalMoves
<1>5. ReleasedHeadsPassed' BY <1>1, <1>2, ReleasedStays
<1>6. Covered' BY <1>3 DEF Covered, MarkedUnreviewed
<1>7. TypeOK' BY <1>0, <1>1, <1>3, <1>4 DEF TypeOK, PrRow, SweepRow
<1> QED BY <1>4, <1>5, <1>6, <1>7 DEF GateInv

(* A call that fails and a process that dies.                              *)
LEMMA FaultKeeps ==
  ASSUME GateInv, NEW s \in Sweeps, GitHubUnavailable(s) \/ GitHubRejects(s) \/ Crash(s)
  PROVE  GateInv'
<1>0. TypeOK /\ LocalSound(sweep[s]) /\ faults \in Nat
  BY TypeRows, GateAssumption DEF GateInv
<1>1. /\ faults' = faults + 1 /\ faults' \in 0 .. MaxFaults
      /\ UNCHANGED <<pr, work, attention>> /\ seen' \in Stored
      /\ \/ released' = released
         \/ sweep[s].pc = "marked" /\ released' = released \cup {sweep[s].head}
  BY <1>0, FaultDoes
<1>2. PICK local \in SweepRow :
        /\ Goto(s, local)
        /\ \/ local.pc \notin AfterRead
           \/ sweep[s].pc = "marked" /\ local.pc = "reverting" /\ local.head = sweep[s].head
  BY <1>0, FaultDoes
<1>3. VerdictsKept BY <1>1 DEF VerdictsKept, Review
<1>4. sweep[s].pc = "marked" => sweep[s].head \in Heads /\ PassedReview(sweep[s].head)
  BY <1>0 DEF LocalSound, AfterRead, Releasing
<1>5. /\ sweep' \in [Sweeps -> SweepRow] /\ \A t \in Sweeps : LocalSound(sweep[t])'
  BY <1>1, <1>2, <1>3, <1>4, LocalMoves DEF AfterRead
<1>6. ReleasedHeadsPassed'
  <2>1. \A h \in released : PassedReview(h) BY DEF GateInv, ReleasedHeadsPassed
  <2>2. \A h \in released' : PassedReview(h) BY <1>1, <1>4, <2>1
  <2> QED BY <1>1, <2>2 DEF ReleasedHeadsPassed, PassedReview, Review
<1>7. Covered' BY <1>0, <1>1 DEF Covered
<1>8. released' \subseteq Heads BY <1>0, <1>1, <1>4, TypeRows
<1>9. TypeOK' BY <1>0, <1>1, <1>5, <1>8 DEF TypeOK, SweepRow
<1> QED BY <1>5, <1>6, <1>7, <1>9 DEF GateInv

(* Whatever workers, operators and people do.                              *)
LEMMA OthersKeep ==
  ASSUME GateInv, VerdictsKept, sweep' = sweep, released' = released, attention' = attention,
         work' \in [WorkKinds -> [Heads -> WorkRow]], seen' \in Stored,
         faults' \in 0 .. MaxFaults, faults' = faults \/ faults' = faults + 1, pr' \in PrRow,
         \/ pr' = pr
         \/ /\ pr'.head = pr.head + 1 /\ pr'.marked = pr.marked /\ pr'.state = pr.state
            /\ pr'.draft = pr.draft
         \/ pr'.head = pr.head /\ pr'.marked = 0
  PROVE  GateInv'
<1>0. TypeOK /\ sweep \in [Sweeps -> SweepRow] /\ pr.head \in Nat /\ pr'.head \in Nat
      /\ pr.head <= pr'.head
  BY TypeRows, GateAssumption DEF GateInv, PrRow, Heads
<1>1. ASSUME NEW t \in Sweeps PROVE LocalSound(sweep[t])'
  <2>1. LocalSound(sweep[t]) /\ sweep[t] \in SweepRow BY <1>0 DEF GateInv
  <2>2. ASSUME NEW r \in SweepRow, LocalSound(r), sweep[t] = r PROVE LocalSound(sweep[t])'
    <3>1. LocalSound(r)' BY <1>0, <2>2, LocalStays
    <3> QED BY <2>2, <3>1 DEF LocalSound
  <2> QED BY <2>1, <2>2
<1>2. ReleasedHeadsPassed' BY ReleasedStays
<1>3. Covered'
  <2>1. CASE pr'.marked = 0 BY <2>1 DEF Covered, MarkedUnreviewed
  <2>2. CASE pr'.marked # 0 BY <1>0, <2>2, CoverStays
  <2> QED BY <2>1, <2>2
<1>4. TypeOK' BY <1>0 DEF TypeOK, PrRow, SweepRow
<1> QED BY <1>1, <1>2, <1>3, <1>4 DEF GateInv

(* Every step keeps it.                                                    *)
LEMMA GateStep == GateInv /\ [Next]_vars => GateInv'
<1> SUFFICES ASSUME GateInv, [Next]_vars PROVE GateInv' OBVIOUS
<1>0. /\ TypeOK /\ pr \in PrRow /\ work \in [WorkKinds -> [Heads -> WorkRow]]
      /\ seen \in Stored /\ faults \in 0 .. MaxFaults
      /\ \A s \in Sweeps : LocalSound(sweep[s])
  BY TypeRows DEF GateInv
<1>1. ASSUME NEW s \in Sweeps, PassStep(s) PROVE GateInv'
  BY <1>0, <1>1, EarlySteps, DecideRests, LateSteps, RestKeeps, MarkKeeps, ConfirmKeeps, ConvertKeeps
  DEF PassStep
<1>2. ASSUME NEW s \in Sweeps, GitHubUnavailable(s) \/ GitHubRejects(s) \/ Crash(s) PROVE GateInv'
  BY <1>2, FaultKeeps
<1>3. ASSUME NEW k \in WorkKinds, NEW h \in Heads,
             \/ WorkerStep(k, h) \/ Lapse(k, h) \/ (k = "fix" /\ FinishUnverified(h))
             \/ \E status \in {"queued", "cancelled"} : RequeueOrCancel(k, h, status)
      PROVE  GateInv'
  BY <1>0, <1>3, WorkerKeeps, OthersKeep
<1>4. CASE GitHubStep
  <2>1. VerdictsKept BY <1>0, <1>4, GitHubDoes DEF VerdictsKept, Review
  <2> QED BY <1>0, <1>4, <2>1, GitHubDoes, OthersKeep
<1>5. CASE UNCHANGED vars
  <2>1. UNCHANGED <<pr, seen, work, sweep, released, attention, faults>> BY <1>5 DEF vars
  <2>2. VerdictsKept BY <2>1 DEF VerdictsKept, Review
  <2> QED BY <1>0, <2>1, <2>2, OthersKeep
<1>6. ASSUME NEW h \in Heads, FinishUnverified(h) PROVE GateInv'
  BY <1>3, <1>6 DEF WorkKinds
<1> QED BY <1>1, <1>2, <1>3, <1>4, <1>5, <1>6 DEF Next

(* It holds from the beginning on.                                         *)
LEMMA GateInvariant == Spec => []GateInv
<1>1. Init => GateInv
  <2> SUFFICES ASSUME Init PROVE GateInv OBVIOUS
  <2>1. 1 \in Heads /\ 0 \in 0 .. MaxFaults BY GateAssumption DEF Heads
  <2>2. pr \in PrRow /\ pr.marked = 0 BY <2>1 DEF Init, PrRow
  <2>3. sweep \in [Sweeps -> SweepRow] /\ \A s \in Sweeps : sweep[s].pc = "idle"
    <3>1. sweep = [s \in Sweeps |-> Idle] BY DEF Init
    <3> QED BY <3>1, IdleRow
  <2>4. work \in [WorkKinds -> [Heads -> WorkRow]]
    <3>1. work = [k \in WorkKinds |-> [h \in Heads |-> NoWork]] BY DEF Init
    <3> QED BY <3>1, IdleRow
  <2>5. seen \in Stored BY IdleRow, StoredType DEF Init
  <2>6. \A s \in Sweeps : LocalSound(sweep[s]) BY <2>3 DEF LocalSound, AfterRead, Releasing
  <2>7. ReleasedHeadsPassed BY DEF Init, ReleasedHeadsPassed
  <2>8. Covered BY <2>2 DEF Covered, MarkedUnreviewed
  <2>9. TypeOK BY <2>1, <2>2, <2>3, <2>4, <2>5, TypeRows DEF Init
  <2> QED BY <2>6, <2>7, <2>8, <2>9 DEF GateInv
<1> QED BY <1>1, GateStep, PTL DEF Spec

-----------------------------------------------------------------------------
(* The results.                                                            *)

(* Every row and every pass stays of the kind the code gives it; no round  *)
(* is planned beyond MAX_REVIEW_ROUNDS.                                    *)
THEOREM GateTypeCorrect == Spec => []TypeOK
<1>1. GateInv => TypeOK BY DEF GateInv
<1> QED BY <1>1, GateInvariant, PTL

(* However passes, pushes, workers, crashes and unanswered calls of GitHub *)
(* interleave, an artifact.ready event names a head whose own completed    *)
(* review passed it.                                                       *)
THEOREM ReleasesArePassed == Spec => []ReleasedHeadsPassed
<1>1. GateInv => ReleasedHeadsPassed BY DEF GateInv
<1> QED BY <1>1, GateInvariant, PTL

(* As long as no pass dies, no lease lapses and GitHub answers, a pull     *)
(* request that the gate made ready was ready at a head that passed, once  *)
(* the passes that marked it have come to rest.  A pass that dies between  *)
(* the mark and the conversion breaks it: the run review_crash.            *)
THEOREM ReadyHeadsAreReviewed == Spec => [](faults = 0 => NoReadyUnreviewedHead)
<1>1. GateInv => (faults = 0 => NoReadyUnreviewedHead)
  BY DEF GateInv, Covered, MarkedUnreviewed, TakesBack, NoReadyUnreviewedHead
<1> QED BY <1>1, GateInvariant, PTL
====

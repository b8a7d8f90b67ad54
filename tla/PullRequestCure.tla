---- MODULE PullRequestCure ----
(***************************************************************************)
(* The pull-request cure (src/src/queue/pull-request-cure.ts): the sweep   *)
(* that reads the health of open pull requests and enqueues one pr-cure    *)
(* root per decayed head, and the check that refuses the completion of a   *)
(* cure whose pull request has another patch than the recorded one.        *)
(*                                                                         *)
(* Everything between two awaits of GitHub is one step; what was read      *)
(* before an await may be stale after it.  The timer and the surface both  *)
(* run sweeps, so several may be in progress.                              *)
(*                                                                         *)
(* Abstractions.  Heads are numbered in push order and patches[h] is the   *)
(* patch identity of head h, 0 when it cannot be computed.  A pull request *)
(* is decayed or not; a sweep sees that with its record, with its checks,  *)
(* reviews and threads, or with both.  Merged and closed are one state, as *)
(* nothing here tells them apart; nothing is reopened.  A URL has one      *)
(* spelling, and a listing has room for every open pull request.  Leases   *)
(* are in WorkQueue.                                                       *)
(***************************************************************************)
EXTENDS Naturals, Sequences, FiniteSets

CONSTANTS
  Pulls, Repositories,
  HomeOf,         \* pull request -> its repository
  CureForeign,    \* the repositories whose cure_foreign setting is on
  OptOuts,        \* the repositories an operator may opt out
  CureSweeps,     \* the sweeps that may be in progress at once
  MaxPushes,      \* bounds of the model only: the heads of a pull request, and
  MaxCureFaults   \* sweeps that die and GitHub calls that fail

ASSUME CureAssumption ==
  /\ HomeOf \in [Pulls -> Repositories]
  /\ CureForeign \subseteq Repositories /\ OptOuts \subseteq Repositories
  /\ Pulls # {} /\ MaxPushes \in Nat \ {0} /\ MaxCureFaults \in Nat

VARIABLES
  pull,           \* the pull requests on GitHub
  reported,       \* those a completed item reported that were open when verified
  optedIn,        \* repositories.enabled
  cures,          \* the pr-cure items, in the order of their creation
  cureSweep,      \* the local state of each sweep
  cureFaults

cureVars == <<pull, reported, optedIn, cures, cureSweep, cureFaults>>

PullStates == {"open", "draft", "ended"}

HeadOf(p) == Len(pull[p].patches)
PatchOf(p) == pull[p].patches[HeadOf(p)]

Resting == [pc |-> "idle", left |-> {}, foreign |-> FALSE, lists |-> {}, known |-> {},
            pull |-> CHOOSE p \in Pulls : TRUE, head |-> 0, decayed |-> FALSE]

CureInit ==
  /\ pull = [p \in Pulls |-> [state |-> "open", patches |-> <<1>>, decayed |-> FALSE]]
  /\ reported = {}
  /\ optedIn = Repositories
  /\ cures = <<>>
  /\ cureSweep = [s \in CureSweeps |-> Resting]
  /\ cureFaults = 0

-----------------------------------------------------------------------------
(* GitHub, driven by people, by checks and by the workers' pushes.         *)
PullChanges(p, change) ==
  /\ pull' = [pull EXCEPT ![p] = change]
  /\ UNCHANGED <<reported, optedIn, cures, cureSweep, cureFaults>>

(* A push: a rebase keeps the patch, an edit makes another one.            *)
PushHead(p, patch) ==
  /\ pull[p].state # "ended" /\ HeadOf(p) < MaxPushes
  /\ patch \in {PatchOf(p), HeadOf(p) + 1, 0}
  /\ PullChanges(p, [pull[p] EXCEPT !.patches = Append(@, patch)])

DecaysOrHeals(p) == pull[p].state # "ended" /\ PullChanges(p, [pull[p] EXCEPT !.decayed = ~@])

Moves(p, state) ==
  pull[p].state \notin {state, "ended"} /\ PullChanges(p, [pull[p] EXCEPT !.state = state])

(* A completed item reports the pull request, or refreshArtifactVerifica-  *)
(* tions stores what GitHub says of it now.                                *)
VerifyArtifact(p) ==
  /\ reported' = IF pull[p].state = "open" THEN reported \cup {p} ELSE reported \ {p}
  /\ UNCHANGED <<pull, optedIn, cures, cureSweep, cureFaults>>

OptOutOrIn(r) ==
  /\ r \in OptOuts
  /\ optedIn' = IF r \in optedIn THEN optedIn \ {r} ELSE optedIn \cup {r}
  /\ UNCHANGED <<pull, reported, cures, cureSweep, cureFaults>>

-----------------------------------------------------------------------------
(* The sweep.  Proceed ends the step of s with its local state.            *)
Sweeping(s, pc) == cureSweep[s].pc = pc
Proceed(s, local) == cureSweep' = [cureSweep EXCEPT ![s] = local]
NextCandidate(s) == [cureSweep[s] EXCEPT !.pc = "choosing", !.head = 0, !.decayed = FALSE]

StartCureSweep(s) ==
  /\ Sweeping(s, "idle")
  /\ Proceed(s, [Resting EXCEPT !.pc = "choosing", !.left = reported, !.known = reported])
  /\ UNCHANGED <<pull, reported, optedIn, cures, cureFaults>>

(* The reported candidates are done: the settings say whose to list.       *)
TurnToForeign(s) ==
  /\ Sweeping(s, "choosing") /\ cureSweep[s].left = {} /\ ~cureSweep[s].foreign
  /\ Proceed(s, [cureSweep[s] EXCEPT !.foreign = TRUE, !.lists = optedIn \cap CureForeign])
  /\ UNCHANGED <<pull, reported, optedIn, cures, cureFaults>>

(* listOpenPullRequests: drafts and the pull requests already seen drop out. *)
ListOpenPullRequests(s, r) ==
  /\ Sweeping(s, "choosing") /\ cureSweep[s].left = {} /\ r \in cureSweep[s].lists
  /\ LET listed == {p \in Pulls : HomeOf[p] = r /\ pull[p].state # "ended"}
         new    == listed \ cureSweep[s].known
     IN Proceed(s, [cureSweep[s] EXCEPT !.lists = @ \ {r}, !.known = @ \cup listed,
                                        !.left = {p \in new : pull[p].state = "open"}])
  /\ UNCHANGED <<pull, reported, optedIn, cures, cureFaults>>

EndCureSweep(s) ==
  /\ Sweeping(s, "choosing") /\ cureSweep[s].foreign
  /\ cureSweep[s].left = {} /\ cureSweep[s].lists = {}
  /\ Proceed(s, Resting)
  /\ UNCHANGED <<pull, reported, optedIn, cures, cureFaults>>

(* inspectPullRequestHealth, up to its second await; what is read of a     *)
(* draft later on changes nothing.                                         *)
ReadPull(s, p) ==
  /\ Sweeping(s, "choosing") /\ p \in cureSweep[s].left
  /\ Proceed(s, IF pull[p].state # "open" THEN [cureSweep[s] EXCEPT !.left = @ \ {p}]
                ELSE [cureSweep[s] EXCEPT !.pc = "signals", !.left = @ \ {p}, !.pull = p,
                                          !.head = HeadOf(p), !.decayed = pull[p].decayed])
  /\ UNCHANGED <<pull, reported, optedIn, cures, cureFaults>>

(* Its checks, which are those of the head it read, reviews and threads.   *)
ReadSignals(s) ==
  /\ Sweeping(s, "signals")
  /\ LET p == cureSweep[s].pull IN
       \E older \in IF cureSweep[s].head = HeadOf(p) THEN {FALSE} ELSE BOOLEAN :
         Proceed(s, [cureSweep[s] EXCEPT !.pc = "files", !.decayed = @ \/ older \/ pull[p].decayed])
  /\ UNCHANGED <<pull, reported, optedIn, cures, cureFaults>>

(* Fault: only a cure that is not finished counts, or any cure of the pull *)
(* request does.                                                           *)
SourceRefUnfinished(p, h) ==
  \E i \in DOMAIN cures : cures[i].pull = p /\ cures[i].head = h
                            /\ cures[i].status \notin {"completed", "cancelled"}
SourceRefOfPull(p, h) == \E i \in DOMAIN cures : cures[i].pull = p

(* sourceRefExists for the source reference <pull request>@<head>.         *)
SourceRefKnown(p, h) == \E i \in DOMAIN cures : cures[i].pull = p /\ cures[i].head = h

(* Fault: a patch without identity is enqueued as well.                    *)
AnyDecay(s, digest) == cureSweep[s].decayed

(* inspectCandidate: only a decayed head with a patch identity.            *)
CureDue(s, digest) == cureSweep[s].decayed /\ digest # 0

(* enqueueCureRoot, once: a known head is skipped.                         *)
EnqueueCureRoot(s, digest) ==
  LET p == cureSweep[s].pull
      h == cureSweep[s].head
  IN cures' = IF SourceRefKnown(p, h) THEN cures
              ELSE Append(cures, [pull |-> p, head |-> h, digest |-> digest,
                                  status |-> "queued", since |-> 0])

(* readPatchDigest asks for the files of whatever is the head by then.  In *)
(* a repository that is opted out enqueueCureRoot throws, out of the sweep. *)
ReadFiles(s) ==
  LET digest == PatchOf(cureSweep[s].pull) IN
  /\ Sweeping(s, "files")
  /\ \/ ~CureDue(s, digest) /\ Proceed(s, NextCandidate(s)) /\ UNCHANGED cures
     \/ /\ CureDue(s, digest) /\ HomeOf[cureSweep[s].pull] \in optedIn
        /\ EnqueueCureRoot(s, digest) /\ Proceed(s, NextCandidate(s))
     \/ /\ CureDue(s, digest) /\ HomeOf[cureSweep[s].pull] \notin optedIn
        /\ Proceed(s, Resting) /\ UNCHANGED cures
  /\ UNCHANGED <<pull, reported, optedIn, cureFaults>>

(* A call GitHub does not answer drops its candidate or its repository.    *)
CallFails(s) ==
  /\ cureFaults < MaxCureFaults /\ cureFaults' = cureFaults + 1
  /\ \/ \E p \in cureSweep[s].left :
          Sweeping(s, "choosing") /\ Proceed(s, [cureSweep[s] EXCEPT !.left = @ \ {p}])
     \/ \E r \in cureSweep[s].lists :
          /\ Sweeping(s, "choosing") /\ cureSweep[s].left = {}
          /\ Proceed(s, [cureSweep[s] EXCEPT !.lists = @ \ {r}])
     \/ cureSweep[s].pc \in {"signals", "files"} /\ Proceed(s, NextCandidate(s))
  /\ UNCHANGED <<pull, reported, optedIn, cures>>

SweepDies(s) ==
  /\ ~Sweeping(s, "idle")
  /\ cureFaults < MaxCureFaults /\ cureFaults' = cureFaults + 1
  /\ Proceed(s, Resting)
  /\ UNCHANGED <<pull, reported, optedIn, cures>>

CureSweepStep(s) ==
  \/ StartCureSweep(s) \/ TurnToForeign(s) \/ EndCureSweep(s) \/ ReadSignals(s) \/ ReadFiles(s)
  \/ \E p \in Pulls : ReadPull(s, p)
  \/ \E r \in Repositories : ListOpenPullRequests(s, r)

-----------------------------------------------------------------------------
(* The items.  A completion call is "calling" until it has read the pull   *)
(* request, "comparing" until it has read the files and "passed" until it  *)
(* is stored; since is the head when it began.                             *)
CureBecomes(i, status) ==
  /\ cures' = [cures EXCEPT ![i].status = status]
  /\ UNCHANGED <<pull, reported, optedIn, cureSweep, cureFaults>>

Calls == {"calling", "comparing", "passed"}

WorkOnCure(i) ==
  \/ cures[i].status = "queued" /\ CureBecomes(i, "claimed")
  \/ cures[i].status \in {"claimed"} \cup Calls /\ \E to \in {"queued", "blocked"} : CureBecomes(i, to)
  \/ cures[i].status = "blocked" /\ \E to \in {"queued", "cancelled"} : CureBecomes(i, to)

(* retireMergedOrClosedPullRequestBoundWork.                               *)
RetireCure(i) ==
  /\ cures[i].status \in {"queued", "blocked"} /\ pull[cures[i].pull].state = "ended"
  /\ CureBecomes(i, "cancelled")

CallComplete(i) ==
  /\ cures[i].status = "claimed"
  /\ cures' = [cures EXCEPT ![i].status = "calling", ![i].since = HeadOf(cures[i].pull)]
  /\ UNCHANGED <<pull, reported, optedIn, cureSweep, cureFaults>>

(* Fault: a draft is not compared.                                         *)
ExemptOpen(i) == pull[cures[i].pull].state # "open"

(* assertCureCompletion compares the patch of a pull request that is open, *)
(* and GitHub calls a draft open.                                          *)
Exempt(i) == pull[cures[i].pull].state = "ended"

ReadForCompletion(i) ==
  /\ cures[i].status = "calling"
  /\ CureBecomes(i, IF Exempt(i) THEN "passed" ELSE "comparing")

CompareDigest(i) ==
  /\ cures[i].status = "comparing"
  /\ CureBecomes(i, IF PatchOf(cures[i].pull) = cures[i].digest THEN "passed" ELSE "claimed")

CompleteCure(i) == cures[i].status = "passed" /\ CureBecomes(i, "completed")

CureNext ==
  \/ \E p \in Pulls :
       \/ \E patch \in 0 .. MaxPushes : PushHead(p, patch)
       \/ DecaysOrHeals(p)
       \/ \E state \in PullStates : Moves(p, state)
       \/ VerifyArtifact(p)
  \/ \E r \in Repositories : OptOutOrIn(r)
  \/ \E s \in CureSweeps : CureSweepStep(s) \/ CallFails(s) \/ SweepDies(s)
  \/ \E i \in DOMAIN cures :
       \/ WorkOnCure(i) \/ RetireCure(i)
       \/ CallComplete(i) \/ ReadForCompletion(i) \/ CompareDigest(i) \/ CompleteCure(i)

CureSpec == CureInit /\ [][CureNext]_cureVars

(* The timer starts sweep after sweep, and a sweep awaits with time limits. *)
FairCureSpec == CureSpec /\ \A s \in CureSweeps : WF_cureVars(CureSweepStep(s))

-----------------------------------------------------------------------------
PushedHeads == 1 .. MaxPushes

(* Type invariant; every recorded patch identity was computed.             *)
CureTypeOK ==
  /\ pull \in [Pulls -> [state : PullStates, patches : UNION {[1 .. n -> 0 .. n] : n \in PushedHeads},
                         decayed : BOOLEAN]]
  /\ reported \subseteq Pulls
  /\ optedIn \subseteq Repositories
  /\ \A i \in DOMAIN cures :
       cures[i] \in [pull : Pulls, head : PushedHeads, digest : PushedHeads, since : PushedHeads \cup {0},
                     status : {"queued", "claimed", "blocked", "completed", "cancelled"} \cup Calls]
  /\ cureSweep \in [CureSweeps ->
       [pc : {"idle", "choosing", "signals", "files"}, left : SUBSET Pulls, foreign : BOOLEAN,
        lists : SUBSET Repositories, known : SUBSET Pulls, pull : Pulls, head : PushedHeads \cup {0},
        decayed : BOOLEAN]]
  /\ cureFaults \in 0 .. MaxCureFaults

(* Work-queue spec rule 42: the same head never has a second cure, whatever *)
(* became of the first and however sweeps overlap between their awaits.    *)
OneCurePerHead ==
  \A i, j \in DOMAIN cures :
    cures[i].pull = cures[j].pull /\ cures[i].head = cures[j].head => i = j

(* Rule 44, over the awaits of a completion: while its call was running    *)
(* the pull request had the recorded patch, or it had ended.               *)
CompletionsMechanical ==
  \A i \in DOMAIN cures : cures[i].status \in {"passed", "completed"} =>
    LET p == cures[i].pull IN
    \/ pull[p].state = "ended"
    \/ \E h \in cures[i].since .. HeadOf(p) : pull[p].patches[h] = cures[i].digest

(* A decayed open head of an opted-in repository that a sweep looks at.    *)
NeedsCure(p, h) ==
  /\ pull[p].state = "open" /\ HeadOf(p) = h /\ PatchOf(p) # 0 /\ pull[p].decayed
  /\ HomeOf[p] \in optedIn
  /\ p \in reported \/ HomeOf[p] \in CureForeign

(* Rule 42: every such head is cured or stops needing it, whatever becomes *)
(* of the sweep's other candidates.                                        *)
DecayIsCured ==
  \A p \in Pulls, h \in PushedHeads :
    NeedsCure(p, h) ~> (SourceRefKnown(p, h) \/ ~NeedsCure(p, h))

====

---- MODULE Enrollment ----
(***************************************************************************)
(* Repositories in the control plane: the authority a Core snapshot gives  *)
(* them, what GitHub says they are, whether they carry the canonical       *)
(* surfaces, their enrollment and the operator's holds                     *)
(* (src/src/control/store.ts, src/src/repository/).                        *)
(*                                                                         *)
(* The store is its history: every command appends one transaction, and    *)
(* every answer is read from the facts appended so far.  A reading         *)
(* operator takes the length n of the history it reads, so that what       *)
(* verifyExisting recomputes "as of" a transaction is the same operator at *)
(* an earlier length.  A reconciliation pass awaits GitHub between its     *)
(* commands, and passes of the poll and of the command line interleave.    *)
(*                                                                         *)
(* Abstractions.  One transaction's two to four outputs are one entry, and *)
(* its sequence is the identity of each.  Times are left out.  Admission   *)
(* readiness, which CoreControl models, is a switch.  A command whose      *)
(* expected sequence another process has overtaken throws: Abort.          *)
(***************************************************************************)
EXTENDS ControlRegistry

CONSTANTS
  Repos,        \* repository numbers, in the order of their declaration paths
  Catalogs,     \* Catalogs[c][r]: what catalog c declares of repository r
  Answers,      \* Answers[r]: what GitHub may answer for repository r's locator
  Contents,     \* Contents[r]: what may be found at its surfaces' paths
  FirstWorld,   \* the answer and the contents at first
  Inspections,  \* installation inspections that arrive
  Passes,       \* reconciliation passes that may run at once
  Scheduled,    \* the one that the Core poll starts
  MaxChanges    \* bound of the model: how often anything but a pass acts

ASSUME EnrollmentAssumption ==
  /\ Repos \subseteq Nat
  /\ \A c \in DOMAIN Catalogs : DOMAIN Catalogs[c] \subseteq Repos
  /\ \A r \in Repos : FirstWorld[r] \in [answer : Answers[r], content : Contents[r]]
  /\ Scheduled \in Passes /\ MaxChanges \in Nat

(* A catalog is of declarations that passed the repository schema: its     *)
(* allOf asks for programs and actions where the fleet state is enabled.   *)
ASSUME DeclarationAssumption ==
  \A c \in DOMAIN Catalogs : \A r \in DOMAIN Catalogs[c] :
    AuthorityAdmitted([declaration |-> Catalogs[c][r]])

VARIABLES
  log,      \* control_transactions with their outputs and receipts
  ready,    \* coreAdmissionReadiness(now).ready
  world,    \* what GitHub would answer and show of each repository now
  pass,     \* the local state of each reconcileRepositories
  changes   \* how much of MaxChanges is used

vars == <<log, ready, world, pass, changes>>

Now == Len(log)
Idle == [pc |-> "idle", snapshot |-> 0, rest |-> {}, authority |-> 0, seen |-> Null,
         identity |-> 0, probe |-> Null, surface |-> 0]

-----------------------------------------------------------------------------
(* Reading the first n transactions.                                       *)

(* The numbers of such transactions, and the newest of some.               *)
Of(n, command) == {k \in 1 .. n : log[k].command = command}
LastOf(numbers) == IF numbers = {} THEN 0 ELSE CHOOSE k \in numbers : \A m \in numbers : m <= k

(* activeCoreSnapshot: activations and rollbacks both append one.          *)
ActiveSnapshot(n) == LastOf(Of(n, "activate"))

(* activeCoreRepositoryCatalog                                             *)
CatalogOf(snapshot) == Catalogs[log[snapshot].catalog]
DeclaredIn(n) == IF ActiveSnapshot(n) = 0 THEN {} ELSE DOMAIN CatalogOf(ActiveSnapshot(n))

(* The facts repositoryStatuses chains: each the newest bound to the one   *)
(* before it.                                                              *)
AuthorityOf(n, r) ==
  LET active == ActiveSnapshot(n)
  IN LastOf({k \in Of(n, "materialize") : log[k].repo = r /\ log[k].snapshot = active})
IdentityOf(n, authority) ==
  LastOf({k \in Of(n, "identity") : log[k].authority = authority})
SurfaceOf(n, identity) ==
  LastOf({k \in Of(n, "surfaces") : log[k].identity = identity})
EnrollmentOf(n, surface) ==
  LastOf({k \in Of(n, "enroll") : log[k].surface = surface})

(* activeRepositoryOperatorHolds: the newest decision, if it imposes.      *)
DecisionOf(n, r) == LastOf({k \in Of(n, "hold") : log[k].repo = r})
HoldOf(n, r) ==
  LET d == DecisionOf(n, r) IN IF d # 0 /\ log[d].choice = "impose" THEN d ELSE 0

(* repositoryStatuses, for a repository the active snapshot declares.      *)
Status(n, r) ==
  LET authority == AuthorityOf(n, r)
      identity == IF authority = 0 THEN 0 ELSE IdentityOf(n, authority)
      surface == IF identity = 0 THEN 0 ELSE SurfaceOf(n, identity)
      enrollment == IF surface = 0 THEN 0 ELSE EnrollmentOf(n, surface)
      hold == HoldOf(n, r)
      fleet == IF authority = 0 THEN Null ELSE log[authority].declaration.fleet
  IN [authority |-> authority, identity |-> identity, surface |-> surface,
      enrollment |-> enrollment, hold |-> hold, fleet |-> fleet,
      state |-> IF authority = 0 THEN "awaiting-authority"
                ELSE IF fleet \in {"disabled", "paused"} THEN fleet
                ELSE IF hold # 0 THEN "operator-held"
                ELSE IF identity = 0 THEN "awaiting-github"
                ELSE IF log[identity].result # "matched" THEN "github-held"
                ELSE IF surface = 0 THEN "awaiting-surfaces"
                ELSE IF log[surface].result # "valid" THEN "surface-held"
                ELSE IF enrollment = 0 THEN "awaiting-enrollment"
                ELSE "enrolled"]

(* enrolledRepositories: what claim eligibility and policy authority read. *)
Enrolled(n) == {r \in DeclaredIn(n) : Status(n, r).state = "enrolled"}

(* Fault: the context names the records, not what they say.                *)
ContextByRecord(n, r) == Status(n, r)

(* repositoryAuthorityContextDigest of an enrolled repository: what was    *)
(* observed and decided, without record identities.                        *)
Context(n, r) ==
  LET s == Status(n, r)
  IN [snapshot |-> ActiveSnapshot(n), declaration |-> log[s.authority].declaration,
      observed |-> log[s.identity].observed, probe |-> log[s.surface].probe,
      requirements |-> log[s.surface].requirements, commit |-> log[s.enrollment].commit,
      ceiling |-> log[s.enrollment].ceiling]

(* evaluateRepositoryHeldWorkRecovery                                      *)
Recovery(cause, held, n, r) ==
  IF r \notin Enrolled(n) THEN "remain-held"
  ELSE IF Context(n, r) # held THEN "require-operator-disposition"
  ELSE IF cause \in {"github-unavailable", "surfaces-unavailable"} THEN "resume-automatically"
  ELSE "require-operator-disposition"

-----------------------------------------------------------------------------
(* The reconciliation of the same authority, or identity, that e follows.  *)
Follows(n, e) ==
  IF e.command = "identity" THEN IdentityOf(n, e.authority) ELSE SurfaceOf(n, e.identity)

(* The idempotency key of a command, from the transactions before it.      *)
KeyOf(n, e) ==
  CASE e.command = "materialize" -> <<e.snapshot, e.repo>>
    [] e.command = "identity" -> <<e.authority, Follows(n, e), e.seen>>
    [] e.command = "surfaces" -> <<e.identity, Follows(n, e), e.probe>>
    [] e.command = "enroll" -> <<e.surface>>
    [] e.command = "hold" -> IF e.choice = "impose" THEN <<"impose", e.expected, e.repo>>
                             ELSE <<"clear", e.expected, e.hold>>
    [] e.command = "installation" -> <<e.repo, e.inspection>>
    [] OTHER -> <<e.command, n>>

(* A transaction, its outputs and its receipt.                             *)
Stamped(e) == [f \in DOMAIN e \cup {"key"} |-> IF f = "key" THEN KeyOf(Now, e) ELSE e[f]]
Appends(e) == log' = Append(log, Stamped(e))

-----------------------------------------------------------------------------
(* What the handlers work out.                                             *)

(* isGitHubRefName and isRepositoryBranchName                              *)
IsBranchName(branch) == branch # "foreign"

(* inspectGitHubRepository: what cannot be represented is unavailable.     *)
Inspection(a) ==
  IF a.status = 404 THEN [kind |-> "missing"]
  ELSE IF a.status # 200 \/ ~IsBranchName(a.branch) THEN [kind |-> "unavailable"]
  ELSE [kind |-> "found", id |-> a.id, locator |-> a.locator, archived |-> a.archived,
        branch |-> a.branch]

(* normalizeRepositoryGitHubInspection throws at anything else.            *)
InspectionAccepted(seen) == seen.kind = "found" => IsBranchName(seen.branch)

(* resolveSurface: a path is followed through trees only; what stands in   *)
(* its way is what was found, and a file there is read as the surface.     *)
Resolve(i, at) ==
  CASE at = "absent" -> "missing"
    [] at = "file-above" -> IF SurfaceIds[i] = "agent-skills" THEN "wrong-type" ELSE "present"
    [] OTHER -> at

(* inspectRepositorySurfaces                                               *)
ProbeOf(content, branch) ==
  IF content.status # 200 THEN [kind |-> "unavailable"]
  ELSE [kind |-> "resolved", branch |-> branch, commit |-> content.commit,
        entries |-> [i \in 1 .. 4 |-> Resolve(i, content.at[i])]]

(* GitHub's answers have their fields, and Null is none of them; nothing   *)
(* else can stand at a path, and nothing else comes of an inspection.      *)
Answer == UNION {Answers[r] : r \in Repos}
Content == UNION {Contents[r] : r \in Repos}
ASSUME GitHubAssumption ==
  /\ \A a \in Answer : Inspection(a) # Null /\ (a.status = 200 => a.branch # Null)
  /\ \A x \in Content : x.status = 200 =>
       /\ x.commit # Null
       /\ \A i \in 1 .. 4 : x.at[i] \in {"absent", "file-above", "present", "wrong-type", "invalid"}
  /\ \A x \in Content, a \in Answer : a.status = 200 => ProbeOf(x, a.branch) # Null
  /\ Null \notin Inspections
  /\ \A i \in Inspections :
       \/ i.access \in {"unavailable", "not-installed"}
       \/ i.access \in {"active", "suspended", "permission-mismatch"} /\ i.installation # Null

(* normalizeRepositorySurfaceProbe, and what evaluateRepositorySurfaceProbe*)
(* throws at.                                                              *)
ProbeAccepted(probe, branch) == probe.kind = "resolved" => probe.branch = branch

(* classifyRepositoryGitHubInspection                                      *)
Classify(r, declaration, seen) ==
  IF seen.kind # "found" THEN seen.kind
  ELSE IF seen.id # r THEN "identity-mismatch"
  ELSE IF seen.locator # declaration.locator THEN "locator-mismatch"
  ELSE IF seen.archived THEN "archived"
  ELSE "matched"

(* repositoryIdentityState                                                 *)
IdentityState(fleet, result) ==
  IF fleet = "disabled" THEN "disabled"
  ELSE IF fleet = "paused" THEN "paused"
  ELSE IF result = "matched" THEN "awaiting-surfaces"
  ELSE "github-held"

(* evaluateRepositorySurfaceProbe: the surfaces in order, up to the first  *)
(* that fails; governance that does not validate is summarized first.      *)
Evaluate(probe) ==
  LET bad == {i \in 1 .. 4 : probe.entries[i] # "present"}
      f == CHOOSE i \in bad : \A j \in bad : i <= j
  IN IF probe.kind = "unavailable" THEN [result |-> "unavailable", failed |-> 0, summaries |-> 0]
     ELSE IF bad = {} THEN [result |-> "valid", failed |-> 0, summaries |-> 4]
     ELSE [result |-> probe.entries[f], failed |-> f,
           summaries |-> IF probe.entries[f] = "invalid" THEN f ELSE f - 1]

(* repositorySurfaceRequirementResults                                     *)
Requirements(evaluation, surfaces) ==
  [i \in 1 .. 4 |->
     LET result == IF evaluation.result = "valid" THEN "pass"
                   ELSE IF evaluation.failed = 0 THEN "unknown"
                   ELSE IF i < evaluation.failed THEN "pass"
                   ELSE IF i = evaluation.failed THEN "fail" ELSE "unknown"
     IN Requirement(result,
          IF result = "pass" \/ (result = "fail" /\ evaluation.result = "invalid")
            THEN (IF i <= Len(surfaces) THEN surfaces[i] ELSE Null) ELSE Null)]

-----------------------------------------------------------------------------
Init ==
  /\ log = <<[command |-> "initialize", key |-> <<"initialize", 0>>]>>
  /\ ready = FALSE
  /\ world = [r \in Repos |-> FirstWorld[r]]
  /\ pass = [p \in Passes |-> Idle]
  /\ changes = 0

Step(p, s) == pass' = [pass EXCEPT ![p] = s]
Changed == changes < MaxChanges /\ changes' = changes + 1
Current(p) == CHOOSE r \in pass[p].rest : \A q \in pass[p].rest : r <= q

(* Fault: returns where it should continue with the next repository.       *)
GivesUp(p) == Idle

(* continue: on to the next repository of the catalog.                     *)
Continue(p) == [Idle EXCEPT !.pc = "begin", !.snapshot = pass[p].snapshot,
                            !.rest = pass[p].rest \ {Current(p)}]

(* A command or an inspector throws, loses its race, or the process dies:  *)
(* the repositories left are not looked at.                                *)
Abort(p) ==
  /\ pass[p].pc # "idle" /\ Changed
  /\ Step(p, Idle) /\ UNCHANGED <<log, ready, world>>

(* The handler's own refusals abort the pass too, and are not a choice.    *)
Refused(p) == Step(p, Idle) /\ UNCHANGED log

(* reconcileRepositories starts: after an accepted poll, or by command.    *)
StartPass(p) ==
  /\ pass[p].pc = "idle" /\ ActiveSnapshot(Now) # 0
  /\ IF p = Scheduled THEN ready /\ UNCHANGED changes ELSE Changed
  /\ Step(p, [Idle EXCEPT !.pc = "begin", !.snapshot = ActiveSnapshot(Now), !.rest = DeclaredIn(Now)])
  /\ UNCHANGED <<log, ready, world>>

EndPass(p) ==
  /\ pass[p].pc = "begin" /\ pass[p].rest = {}
  /\ Step(p, Idle) /\ UNCHANGED <<log, ready, world, changes>>

(* Fault: goes by the GitHub answer of an earlier pass.                    *)
ConsiderWithoutAsking(p, status) ==
  Step(p, IF status.fleet # "enabled" \/ status.hold # 0 THEN Continue(p)
          ELSE [pass[p] EXCEPT !.pc = "record", !.authority = status.authority])

(* Goes on to GitHub only for a repository in operation.                   *)
Consider(p, status) ==
  Step(p, IF status.fleet # "enabled" \/ status.hold # 0 THEN Continue(p)
          ELSE [pass[p] EXCEPT !.pc = "inspect", !.authority = status.authority])

(* The next repository: its status under the snapshot of the pass, if it   *)
(* has one.                                                                *)
Begin(p) ==
  LET r == Current(p)
      known == ActiveSnapshot(Now) = pass[p].snapshot /\ AuthorityOf(Now, r) # 0
  IN /\ pass[p].pc = "begin" /\ pass[p].rest # {}
     /\ IF known THEN Consider(p, Status(Now, r))
        ELSE Step(p, [pass[p] EXCEPT !.pc = "materialize"])
     /\ UNCHANGED <<log, ready, world, changes>>

(* materializeRepositoryCoreAuthority.  An earlier receipt answers even    *)
(* when the snapshot has been superseded.                                  *)
Materialize(p) ==
  LET r == Current(p)
      snapshot == pass[p].snapshot
      prior == LastOf({k \in Of(Now, "materialize") : log[k].key = <<snapshot, r>>})
  IN /\ pass[p].pc = "materialize"
     /\ \/ prior # 0 /\ UNCHANGED log /\ Step(p, [pass[p] EXCEPT !.pc = "reread"])
        \/ /\ prior = 0 /\ ready /\ ActiveSnapshot(Now) = snapshot /\ r \in DeclaredIn(Now)
           /\ Appends([command |-> "materialize", repo |-> r, snapshot |-> snapshot,
                       declaration |-> CatalogOf(snapshot)[r]])
           /\ Step(p, [pass[p] EXCEPT !.pc = "reread"])
        \/ /\ prior = 0 /\ ~(ready /\ ActiveSnapshot(Now) = snapshot /\ r \in DeclaredIn(Now))
           /\ Refused(p)
     /\ UNCHANGED <<ready, world, changes>>

(* The status again, now of whatever snapshot is active.                   *)
Reread(p) ==
  LET r == Current(p)
      found == r \in DeclaredIn(Now) /\ AuthorityOf(Now, r) # 0
  IN /\ pass[p].pc = "reread"
     /\ IF found THEN Consider(p, Status(Now, r)) ELSE Step(p, Idle)
     /\ UNCHANGED <<log, ready, world, changes>>

(* GitHub answers.                                                         *)
Inspect(p) ==
  /\ pass[p].pc = "inspect"
  /\ Step(p, [pass[p] EXCEPT !.pc = "record", !.seen = Inspection(world[Current(p)].answer)])
  /\ UNCHANGED <<log, ready, world, changes>>

(* The reconciliation of an answer with the authority a.                   *)
IdentityFact(a, seen) ==
  LET fact == log[a]
      result == Classify(fact.repo, fact.declaration, seen)
  IN [command |-> "identity", repo |-> fact.repo, snapshot |-> fact.snapshot, authority |-> a,
      declared |-> [id |-> fact.repo, locator |-> fact.declaration.locator,
                    fleet |-> fact.declaration.fleet],
      seen |-> seen, observed |-> IF seen.kind = "found" THEN seen ELSE Null,
      result |-> result, state |-> IdentityState(fact.declaration.fleet, result)]

(* recordRepositoryGitHubIdentity, for the authority read before GitHub    *)
(* was asked; the same answer again is the fact already recorded.          *)
RecordIdentity(p) ==
  LET a == pass[p].authority
      seen == pass[p].seen
      newest == IdentityOf(Now, a)
      current == log[a].snapshot = ActiveSnapshot(Now) /\ InspectionAccepted(seen)
      same == newest # 0 /\ log[newest].seen = seen
      fact == IdentityFact(a, seen)
      After(identity) == IF fact.result = "matched"
                         THEN Step(p, [pass[p] EXCEPT !.pc = "probe", !.identity = identity])
                         ELSE Step(p, Continue(p))
  IN /\ pass[p].pc = "record"
     /\ \/ ~current /\ Refused(p)
        \/ current /\ same /\ UNCHANGED log /\ After(newest)
        \/ current /\ ~same /\ Appends(fact) /\ After(Now + 1)
     /\ UNCHANGED <<ready, world, changes>>

(* inspectRepositorySurfaces answers, for the branch just seen.            *)
Probe(p) ==
  /\ pass[p].pc = "probe"
  /\ Step(p, [pass[p] EXCEPT !.pc = "surfaces", 
    !.probe = ProbeOf(world[Current(p)].content, pass[p].seen.branch)])
  /\ UNCHANGED <<log, ready, world, changes>>

(* The reconciliation of a probe with the identity g.                      *)
SurfacesFact(g, probe) ==
  LET fact == log[g]
      evaluation == Evaluate(probe)
      valid == evaluation.result = "valid"
      commit == IF probe.kind = "resolved" THEN probe.commit ELSE Null
      surfaces == [i \in 1 .. evaluation.summaries |-> <<SurfaceIds[i], commit>>]
  IN [command |-> "surfaces", repo |-> fact.repo, snapshot |-> fact.snapshot,
      authority |-> fact.authority, identity |-> g, probe |-> probe,
      branch |-> IF commit = Null THEN Null ELSE probe.branch, commit |-> commit,
      surfaces |-> surfaces, policy |-> IF valid THEN commit ELSE Null,
      decision |-> IF valid THEN "permit" ELSE "deny",
      requirements |-> Requirements(evaluation, surfaces), result |-> evaluation.result,
      failed |-> IF evaluation.failed = 0 THEN Null ELSE SurfaceIds[evaluation.failed]]

(* recordRepositoryCanonicalSurfaces                                       *)
RecordSurfaces(p) ==
  LET g == pass[p].identity
      probe == pass[p].probe
      newest == SurfaceOf(Now, g)
      current == /\ IdentityOf(Now, log[g].authority) = g /\ log[g].snapshot = ActiveSnapshot(Now)
                 /\ ProbeAccepted(probe, log[g].observed.branch)
      same == newest # 0 /\ log[newest].probe = probe
      fact == SurfacesFact(g, probe)
      After(surface) == IF fact.result = "valid"
                        THEN Step(p, [pass[p] EXCEPT !.pc = "enroll", !.surface = surface])
                        ELSE Step(p, Continue(p))
  IN /\ pass[p].pc = "surfaces"
     /\ \/ ~current /\ Refused(p)
        \/ current /\ same /\ UNCHANGED log /\ After(newest)
        \/ current /\ ~same /\ Appends(fact) /\ After(Now + 1)
     /\ UNCHANGED <<ready, world, changes>>

(* The enrollment of a repository with valid surfaces s.                   *)
EnrollmentFact(s) ==
  LET fact == log[s]
      declaration == log[fact.authority].declaration
  IN [command |-> "enroll", repo |-> fact.repo, snapshot |-> fact.snapshot,
      authority |-> fact.authority, identity |-> fact.identity, surface |-> s,
      commit |-> fact.commit, programs |-> declaration.programs, ceiling |-> declaration.ceiling]

(* establishRepositoryEnrollment: the whole chain must still be current.   *)
Enroll(p) ==
  LET s == pass[p].surface
      fact == log[s]
      status == Status(Now, fact.repo)
      prior == EnrollmentOf(Now, s) # 0
      current == /\ fact.repo \in DeclaredIn(Now)
                 /\ fact.snapshot = ActiveSnapshot(Now)
                 /\ status.authority = fact.authority
                 /\ status.identity = fact.identity
                 /\ status.surface = s
                 /\ status.hold = 0 /\ status.fleet = "enabled"
  IN /\ pass[p].pc = "enroll"
     /\ \/ prior /\ UNCHANGED log /\ Step(p, Continue(p))
        \/ ~prior /\ ~(ready /\ current) /\ Refused(p)
        \/ ~prior /\ ready /\ current /\ Appends(EnrollmentFact(s)) /\ Step(p, Continue(p))
     /\ UNCHANGED <<ready, world, changes>>

-----------------------------------------------------------------------------
(* What other actors do.                                                   *)

(* An activation or a rollback: always a new snapshot.  Admission is then  *)
(* ready until the source goes stale or a check fails.                     *)
Activate(c) ==
  /\ Changed
  /\ Appends([command |-> "activate", catalog |-> c])
  /\ ready' = TRUE /\ UNCHANGED <<world, pass>>

ReadinessChanges ==
  /\ Changed /\ ActiveSnapshot(Now) # 0
  /\ ready' = ~ready /\ UNCHANGED <<log, world, pass>>

WorldChanges(r) ==
  /\ Changed
  /\ \/ \E a \in Answers[r] : world' = [world EXCEPT ![r] = [answer |-> a, content |-> @.content]]
     \/ \E c \in Contents[r] : world' = [world EXCEPT ![r] = [answer |-> @.answer, content |-> c]]
  /\ UNCHANGED <<log, ready, pass>>

(* The decision of an operator, hold being the one in force.               *)
HoldFact(r, choice, snapshot, authority, hold) ==
  [command |-> "hold", repo |-> r, snapshot |-> snapshot, authority |-> authority,
   choice |-> choice, declaration |-> log[authority].declaration,
   hold |-> IF choice = "impose" THEN Now + 1 ELSE hold,
   previous |-> IF choice = "impose" THEN 0 ELSE hold, gates |-> HoldGates, expected |-> Now]

(* Fault: any retained authority of the repository will do.                *)
HoldOnAnyAuthority(r, choice) ==
  LET authority == LastOf({k \in Of(Now, "materialize") : log[k].repo = r})
      hold == HoldOf(Now, r)
  IN /\ Changed /\ r \in DeclaredIn(Now) /\ authority # 0
     /\ (choice = "impose") = (hold = 0)
     /\ Appends(HoldFact(r, choice, log[authority].snapshot, authority, hold))
     /\ UNCHANGED <<ready, world, pass>>

(* recordRepositoryOperatorHoldDecision.  A hold outlives the snapshot it  *)
(* was imposed under; clearing names the decision in force.                *)
Hold(r, choice) ==
  LET status == Status(Now, r)
  IN /\ Changed /\ r \in DeclaredIn(Now) /\ status.authority # 0
     /\ (choice = "impose") = (status.hold = 0)
     /\ Appends(HoldFact(r, choice, ActiveSnapshot(Now), status.authority, status.hold))
     /\ UNCHANGED <<ready, world, pass>>

(* recordGitHubInstallationReconciliation: needs a current enrollment,     *)
(* which a held repository keeps, and cites the newest there ever was.  An *)
(* inspection already recorded is refused or answered.                     *)
Installation(r, i) ==
  /\ Changed /\ r \in DeclaredIn(Now) /\ Status(Now, r).enrollment # 0
  /\ LastOf({k \in Of(Now, "installation") : log[k].key = <<r, i>>}) = 0
  /\ Appends([command |-> "installation", repo |-> r, inspection |-> i, access |-> i.access,
              installation |-> IF i.access \in {"not-installed", "unavailable"} THEN Null ELSE i.installation,
              response |-> IF i.access = "unavailable" THEN Null ELSE i,
              cause |-> LastOf({k \in Of(Now, "enroll") : log[k].repo = r}),
              expected |-> Now])
  /\ UNCHANGED <<ready, world, pass>>

PassStep(p) ==
  \/ StartPass(p) \/ EndPass(p) \/ Begin(p) \/ Materialize(p) \/ Reread(p)
  \/ Inspect(p) \/ RecordIdentity(p) \/ Probe(p) \/ RecordSurfaces(p) \/ Enroll(p)

Environment ==
  \/ \E p \in Passes : Abort(p)
  \/ \E c \in DOMAIN Catalogs : Activate(c)
  \/ ReadinessChanges
  \/ \E r \in Repos : \/ WorldChanges(r)
                      \/ \E choice \in {"impose", "clear"} : Hold(r, choice)
                      \/ \E i \in Inspections : Installation(r, i)

Next == Environment \/ \E p \in Passes : PassStep(p)
Spec == Init /\ [][Next]_vars

(* The poll starts a pass after every accepted check, and GitHub calls     *)
(* have timeouts (30 seconds), so that its pass always goes on.  This is   *)
(* WF_vars(PassStep(Scheduled)) with the enabling condition written out,   *)
(* for TLC's sake.                                                         *)
CanGoOn(p) == pass[p].pc # "idle" \/ (ready /\ ActiveSnapshot(Now) # 0)
FairSpec == Spec /\ ([]<>~CanGoOn(Scheduled) \/ []<><<PassStep(Scheduled)>>_vars)

-----------------------------------------------------------------------------
(* What verifyRegistryReferences and verifyIdempotencyReceipts demand of   *)
(* one transaction, given those before it.                                 *)

Fact(i, command) == i \in DOMAIN log /\ log[i].command = command

AuthorityVerified(e) ==
  /\ Fact(e.snapshot, "activate") /\ e.repo \in DOMAIN CatalogOf(e.snapshot)
  /\ e.declaration = CatalogOf(e.snapshot)[e.repo]

IdentityVerified(e) ==
  LET authority == log[e.authority]
  IN /\ Fact(e.authority, "materialize")
     /\ <<e.repo, e.snapshot>> = <<authority.repo, authority.snapshot>>
     /\ e.declared.locator = authority.declaration.locator
     /\ e.declared.fleet = authority.declaration.fleet

SurfacesVerified(e) ==
  LET identity == log[e.identity]
  IN /\ Fact(e.identity, "identity") /\ identity.result = "matched"
     /\ <<e.repo, e.snapshot, e.authority>> = <<identity.repo, identity.snapshot, identity.authority>>
     /\ e.branch # Null => e.branch = identity.observed.branch

EnrollmentVerified(e) ==
  LET surface == log[e.surface]
  IN /\ Fact(e.surface, "surfaces") /\ surface.result = "valid"
     /\ <<e.repo, e.snapshot, e.authority, e.identity, e.commit>>
          = <<surface.repo, surface.snapshot, surface.authority, surface.identity, surface.commit>>

(* The snapshot and the previous decision are read as of the decision.     *)
HoldVerified(n, e) ==
  LET authority == log[e.authority]
      before == DecisionOf(n - 1, e.repo)
  IN /\ Fact(e.authority, "materialize") /\ e.authority <= e.expected
     /\ n = e.expected + 1
     /\ <<e.repo, e.snapshot, e.declaration>>
          = <<authority.repo, authority.snapshot, authority.declaration>>
     /\ ActiveSnapshot(e.expected) = e.snapshot
     /\ IF e.choice = "impose" THEN before # 0 => log[before].choice = "clear"
        ELSE before # 0 /\ before = e.hold /\ log[before].choice = "impose"

(* The enrollment an installation cites, worked out again.                 *)
InstallationVerified(n, e) ==
  /\ e.expected = n - 1
  /\ e.cause # 0 /\ e.cause = LastOf({k \in Of(n - 1, "enroll") : log[k].repo = e.repo})

(* The receipt's key is the one the facts of its transaction give.         *)
Verified(n) ==
  LET e == log[n]
  IN /\ e.key = KeyOf(n - 1, e)
     /\ CASE e.command = "materialize" -> AuthorityVerified(e)
          [] e.command = "identity" -> IdentityVerified(e)
          [] e.command = "surfaces" -> SurfacesVerified(e)
          [] e.command = "enroll" -> EnrollmentVerified(e)
          [] e.command = "hold" -> HoldVerified(n, e)
          [] e.command = "installation" -> InstallationVerified(n, e)
          [] OTHER -> TRUE

Admitted(n) ==
  LET e == log[n]
  IN CASE e.command = "materialize" -> AuthorityAdmitted(e)
       [] e.command = "identity" -> IdentityAdmitted(e)
       [] e.command = "surfaces" -> SurfacesAdmitted(e)
       [] e.command = "enroll" -> EnrollmentAdmitted(e)
       [] e.command = "hold" -> HoldAdmitted(e, n)
       [] e.command = "installation" -> InstallationAdmitted(e)
       [] OTHER -> TRUE

(* The conditions without which repositoryAuthorityContextDigest throws,   *)
(* and every reading of the repositories' statuses with it.                *)
Coherent(n, r) ==
  LET s == Status(n, r)
      authority == log[s.authority]
      github == log[s.identity]
      surfaces == log[s.surface]
      enrollment == log[s.enrollment]
  IN /\ {e.repo : e \in {authority, github, surfaces, enrollment}} = {r}
     /\ {e.snapshot : e \in {authority, github, surfaces, enrollment}} = {ActiveSnapshot(n)}
     /\ {e.authority : e \in {github, surfaces, enrollment}} = {s.authority}
     /\ {e.identity : e \in {surfaces, enrollment}} = {s.identity}
     /\ enrollment.surface = s.surface
     /\ github.observed.branch = surfaces.branch
     /\ authority.declaration.programs = enrollment.programs
     /\ authority.declaration.ceiling = enrollment.ceiling
     /\ authority.declaration.fleet = "enabled"
     /\ github.result = "matched" /\ surfaces.result = "valid" /\ surfaces.decision = "permit"
     /\ surfaces.commit # Null /\ surfaces.commit = enrollment.commit

-----------------------------------------------------------------------------
(* Properties.                                                             *)

(* The pass and the log hold values of the kinds the code gives them, and  *)
(* each stage of a pass what it needs.                                     *)
TypeOK ==
  /\ ready \in BOOLEAN /\ changes \in 0 .. MaxChanges
  /\ \A r \in Repos : world[r].answer \in Answers[r] /\ world[r].content \in Contents[r]
  /\ \A p \in Passes : /\ pass[p].pc \in {"idle", "begin", "materialize", "reread", "inspect",
                                        "record", "probe", "surfaces", "enroll"}
                       /\ pass[p].rest \subseteq Repos
                       /\ {pass[p].snapshot, pass[p].authority, pass[p].identity, pass[p].surface}
                            \subseteq 0 .. Now
                       /\ pass[p].pc = "record" => pass[p].seen # Null
                       /\ pass[p].pc = "surfaces" => pass[p].identity # 0 /\ pass[p].probe # Null
                       /\ pass[p].pc = "enroll" => pass[p].surface # 0
  /\ \A i \in DOMAIN log :
       log[i].command \in {"initialize", "activate", "materialize", "identity", "surfaces",
                           "enroll", "hold", "installation"}

(* Whatever passes, holds and activations interleave, no handler appends a *)
(* transaction that verifyRegistryReferences or the contract of its kind   *)
(* refuses, or whose receipt meets a key the same command used before,     *)
(* also when GitHub's answer returns to an earlier one: it would stop that *)
(* command or, once written, every later one.  (What is verified depends   *)
(* on the transactions before it only, and each was once the newest.)      *)
HistoryVerified ==
  /\ Verified(Now) /\ Admitted(Now)
  /\ \A m \in 1 .. Now - 1 : log[m].command = log[Now].command => log[m].key # log[Now].key

(* Work held by an outage resumes by itself exactly when what authorized   *)
(* it is as it was: the same snapshot, and the same answers from GitHub;   *)
(* and what is called enrolled hangs together, although its parts come     *)
(* from four separate commands.                                            *)
ResumesIffUnchanged ==
  \A r \in Enrolled(Now) :
    /\ Coherent(Now, r)
    /\ \A n \in DOMAIN log :
         log[n].command = "enroll" /\ log[n].repo = r /\ r \in Enrolled(n) =>
           LET then == Status(n, r)
               now == Status(Now, r)
           IN (Recovery("github-unavailable", Context(n, r), Now, r) = "resume-automatically") =
                /\ ActiveSnapshot(n) = ActiveSnapshot(Now)
                /\ log[then.identity].seen = log[now.identity].seen
                /\ log[then.surface].probe = log[now.surface].probe

(* A repository that is in operation, is what Core declares and carries    *)
(* its surfaces.                                                           *)
InOrder(r) ==
  /\ ready /\ r \in DeclaredIn(Now) /\ HoldOf(Now, r) = 0
  /\ LET declaration == CatalogOf(ActiveSnapshot(Now))[r]
         seen == Inspection(world[r].answer)
     IN declaration.fleet = "enabled" /\ Classify(r, declaration, seen) = "matched"
  /\ Evaluate(ProbeOf(world[r].content, world[r].answer.branch)).result = "valid"

(* Once nothing changes any more, the repositories in order are enrolled,  *)
(* whatever is wrong with the others and whatever happened before.         *)
GoodRepositoriesEnroll ==
  \A r \in Repos : <>[](InOrder(r) => r \in Enrolled(Now))
====

---- MODULE MaintenanceFeeder ----
(***************************************************************************)
(* The maintenance feeder of one repository (src/src/queue/seeds.ts,       *)
(* programs.ts and enqueueInactiveRootBatch in store.ts): it asks each     *)
(* program of the catalog again and again by seeding a discovery root, but *)
(* not while the last one's lineage is open, nor soon after answers that   *)
(* found nothing.                                                          *)
(*                                                                         *)
(* A feeder reads what the control plane declares and whether the          *)
(* repository is opted in, and seeds in a later transaction; the timer,    *)
(* the command line and the board run their own.                           *)
(*                                                                         *)
(* Abstractions.  Of a lineage only whether anything below the root is     *)
(* still open.  WorkQueue models claims and leases: here an open root is   *)
(* completed or cancelled in one step.  A second of the code is a tick.    *)
(***************************************************************************)
EXTENDS Naturals, Sequences, FiniteSets

CONSTANTS
  Programs,      \* maintenancePrograms, the catalog
  Base,          \* Base[p]: its cooldownSeconds
  Cap,           \* MAX_NO_FINDING_COOLDOWN_SECONDS
  MaxDoublings,  \* 60 in backedOffCooldownSeconds
  Overrides,     \* what --cooldown-hours is set to
  Feeders,       \* feeders that may run at once
  FeedTime,      \* bound of the model: the clock
  MaxRoots,      \* bound of the model: roots of a program, the last unanswered
  MaxEvents      \* bound of the model: notes, declarations and opt-ins

ASSUME FeederAssumption ==
  /\ Base \in [Programs -> Nat] /\ Overrides \subseteq Nat
  /\ Cap \in Nat /\ MaxDoublings \in Nat /\ FeedTime \in Nat /\ MaxRoots \in Nat
  /\ MaxEvents \in Nat

VARIABLES
  feedClock,  \* the host's clock
  roots,      \* roots[p]: the discovery roots of p's kind, in row order
  declared,   \* the programs Core declares of the enrolled repository, or NotEnrolled
  feedEnabled, \* repositories.enabled
  feeder,     \* the local state of each enqueueDogfoodBatch
  answers,    \* history: answers[p], how p's roots ended and when
  events      \* how much of MaxEvents is used

feedVars == <<feedClock, roots, declared, feedEnabled, feeder, answers, events>>

NotEnrolled == {"not enrolled"}
NoOverride == [given |-> FALSE, seconds |-> 0]
NoBatch == [pc |-> "idle", offered |-> {}, override |-> NoOverride]

-----------------------------------------------------------------------------
(* Reading the queue.                                                      *)

(* activeRootKinds: the lineage has an item that has not ended.            *)
Active(p) == \E i \in DOMAIN roots[p] : roots[p][i].status = "open" \/ roots[p][i].child = "open"

FoundNothing(root) == root.status = "completed" /\ root.child = "none"

(* Fault: the roots are walked by their last update.                       *)
NewerByUpdate(p, i, j) ==
  LET a == roots[p][i]
      b == roots[p][j]
  IN a.updatedAt > b.updatedAt \/ (a.updatedAt = b.updatedAt /\ i > j)

(* ORDER BY root.created_at DESC, root.rowid DESC                          *)
Newer(p, i, j) ==
  LET a == roots[p][i]
      b == roots[p][j]
  IN a.createdAt > b.createdAt \/ (a.createdAt = b.createdAt /\ i > j)

(* noFindingStreaks: the roots before which there is no other than ones    *)
(* that found nothing.                                                     *)
Streak(p) ==
  {i \in DOMAIN roots[p] :
     /\ FoundNothing(roots[p][i])
     /\ \A j \in DOMAIN roots[p] : Newer(p, j, i) => FoundNothing(roots[p][j])}
NewestRoot(p, S) == CHOOSE i \in S : \A j \in S \ {i} : Newer(p, i, j)

Larger(m, n) == IF m > n THEN m ELSE n
Smaller(m, n) == IF m < n THEN m ELSE n

(* backedOffCooldownSeconds                                                *)
BackedOff(base, streak) ==
  IF base <= 0 \/ streak <= 1 THEN base
  ELSE Larger(base, Smaller(base * 2 ^ Smaller(streak - 1, MaxDoublings), Cap))

Cooldown(p, override) == IF override.given THEN override.seconds ELSE Base[p]

(* The kinds enqueueInactiveRootBatch reports in cooledKinds.              *)
Cooled(p, override) ==
  LET streak == Streak(p)
      window == BackedOff(Cooldown(p, override), Cardinality(streak))
  IN /\ streak # {} /\ window > 0
     /\ roots[p][NewestRoot(p, streak)].completedAt + window >= feedClock

-----------------------------------------------------------------------------
FeedInit ==
  /\ feedClock = 0 /\ roots = [p \in Programs |-> <<>>]
  /\ declared \in {Programs, NotEnrolled} /\ feedEnabled = TRUE
  /\ feeder = [f \in Feeders |-> NoBatch] /\ answers = [p \in Programs |-> <<>>]
  /\ events = 0

(* enqueueDogfoodBatchForEnrolled's reading of both stores, or that of the *)
(* board (programs as declared) and of seed-dogfood (the whole catalog).   *)
Plan(f) ==
  /\ feeder[f].pc = "idle"
  /\ \E override \in {NoOverride} \cup {[given |-> TRUE, seconds |-> s] : s \in Overrides} :
     \E offered \in {Programs} \cup (IF declared = NotEnrolled THEN {} ELSE {declared}) :
       feeder' = [feeder EXCEPT ![f] = [pc |-> "seed", offered |-> offered, override |-> override]]
  /\ UNCHANGED <<feedClock, roots, declared, feedEnabled, answers, events>>

NewRoot == [status |-> "open", child |-> "none", createdAt |-> feedClock,
            completedAt |-> 0, updatedAt |-> feedClock]

(* enqueueInactiveRootBatch: one transaction, which throws if the          *)
(* repository has been opted out since.                                    *)
SeedBatch(f) ==
  LET due == {p \in feeder[f].offered : ~Active(p) /\ ~Cooled(p, feeder[f].override)}
  IN /\ feeder[f].pc = "seed"
     /\ feeder' = [feeder EXCEPT ![f] = NoBatch]
     /\ IF feedEnabled
        THEN /\ \A p \in due : Len(roots[p]) < MaxRoots
             /\ roots' = [p \in Programs |->
                            IF p \in due THEN Append(roots[p], NewRoot) ELSE roots[p]]
        ELSE UNCHANGED roots
     /\ UNCHANGED <<feedClock, declared, feedEnabled, answers, events>>

-----------------------------------------------------------------------------
(* What workers and operators do to the roots.                             *)

Answer(p, found) == answers' = [answers EXCEPT ![p] = Append(@, [found |-> found, at |-> feedClock])]

EndRoot(p, i, status, child, found) ==
  /\ roots[p][i].status = "open" /\ i < MaxRoots
  /\ roots' = [roots EXCEPT ![p][i].status = status, ![p][i].child = child,
                            ![p][i].completedAt = feedClock, ![p][i].updatedAt = feedClock]
  /\ Answer(p, found)
  /\ UNCHANGED <<feedClock, declared, feedEnabled, feeder, events>>

CompleteRoot(p, i) ==
  \/ EndRoot(p, i, "completed", "none", FALSE)
  \/ EndRoot(p, i, "completed", "open", TRUE)
CancelRoot(p, i) == EndRoot(p, i, "cancelled", "none", TRUE)

(* The last open item below the root is completed, rejected or cancelled.  *)
EndChildren(p, i) ==
  /\ roots[p][i].child = "open"
  /\ roots' = [roots EXCEPT ![p][i].child = "ended"]
  /\ UNCHANGED <<feedClock, declared, feedEnabled, feeder, answers, events>>

FeedEvent == events < MaxEvents /\ events' = events + 1

(* note, on a root of any status.                                          *)
NoteRoot(p, i) ==
  /\ FeedEvent /\ roots[p][i].updatedAt # feedClock
  /\ roots' = [roots EXCEPT ![p][i].updatedAt = feedClock]
  /\ UNCHANGED <<feedClock, declared, feedEnabled, feeder, answers>>

(* A new snapshot, a hold, or an enrollment; an opt-in or an opt-out.      *)
Redeclare ==
  /\ FeedEvent /\ declared' \in (SUBSET Programs \cup {NotEnrolled}) \ {declared}
  /\ UNCHANGED <<feedClock, roots, feedEnabled, feeder, answers>>
OptInOrOut ==
  /\ FeedEvent /\ feedEnabled' = ~feedEnabled
  /\ UNCHANGED <<feedClock, roots, declared, feeder, answers>>

TickFeed ==
  /\ feedClock < FeedTime /\ feedClock' = feedClock + 1
  /\ UNCHANGED <<roots, declared, feedEnabled, feeder, answers, events>>

FeedNext ==
  \/ \E f \in Feeders : Plan(f) \/ SeedBatch(f)
  \/ \E p \in Programs : \E i \in DOMAIN roots[p] :
       CompleteRoot(p, i) \/ CancelRoot(p, i) \/ EndChildren(p, i) \/ NoteRoot(p, i)
  \/ Redeclare \/ OptInOrOut \/ TickFeed

FeedSpec == FeedInit /\ [][FeedNext]_feedVars

-----------------------------------------------------------------------------
FeedTypeOK ==
  /\ feedClock \in 0 .. FeedTime /\ feedEnabled \in BOOLEAN
  /\ declared = NotEnrolled \/ declared \subseteq Programs
  /\ \A f \in Feeders : feeder[f].pc \in {"idle", "seed"} /\ feeder[f].offered \subseteq Programs
  /\ \A p \in Programs : \A i \in DOMAIN roots[p] :
       /\ roots[p][i].status \in {"open", "completed", "cancelled"}
       /\ roots[p][i].child \in {"none", "open", "ended"}
       /\ {roots[p][i].createdAt, roots[p][i].completedAt, roots[p][i].updatedAt} \subseteq 0 .. feedClock

(* The answers "nothing" since the last other one.                         *)
TrailingNothings(p) ==
  {k \in DOMAIN answers[p] : \A m \in k .. Len(answers[p]) : ~answers[p][m].found}

(* The documented window after n answers in a row that found nothing.      *)
Window(base, n) ==
  IF n = 0 \/ base = 0 THEN 0 ELSE Larger(base, Smaller(base * 2 ^ (n - 1), Cap))

(* A batch asks a program exactly when no question to it is open and the   *)
(* last answer, if it and the n - 1 before it found nothing, is older than *)
(* the base doubled n - 1 times: whatever notes, other feeders and changed *)
(* declarations came between, and in the order the answers were given.     *)
FeedsByCooldown ==
  [][\A f \in Feeders : feeder[f].pc = "seed" /\ feeder'[f].pc = "idle" /\ feedEnabled =>
       \A p \in feeder[f].offered :
         LET n == Cardinality(TrailingNothings(p))
             window == Window(Cooldown(p, feeder[f].override), n)
         IN (roots'[p] # roots[p]) =
              /\ ~Active(p)
              /\ window > 0 => feedClock > answers[p][Len(answers[p])].at + window]_feedVars
====

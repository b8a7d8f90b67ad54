---- MODULE MCSweeps ----
(***************************************************************************)
(* Instances for TLC of what the scheduled jobs run against the queue: the *)
(* review gate of a draft, the cure of open pull requests, the maintenance *)
(* feeder, or the import of issues.  They share no state, and a behaviour  *)
(* is of one part; the others stay where they began.                       *)
(***************************************************************************)
EXTENDS ReviewGate, MCPullRequestCure, MaintenanceFeeder, IssueImport

VARIABLE part

InReview(A) == part = "review" /\ A /\ UNCHANGED <<part, cureVars, feedVars, importVars>>
InCure(A) == part = "cure" /\ A /\ UNCHANGED <<part, vars, feedVars, importVars>>
InFeeder(A) == part = "feeder" /\ A /\ UNCHANGED <<part, vars, cureVars, importVars>>
InImport(A) == part = "import" /\ A /\ UNCHANGED <<part, vars, cureVars, feedVars>>

(* Each part begins in every way it can; the others in one.                *)
MCInit ==
  /\ part \in {"review", "cure", "feeder", "import"}
  /\ Init /\ CureInit /\ FeedInit /\ ImportInit
  /\ part # "review" => ~seen.held
  /\ part # "feeder" => declared = NotEnrolled
  /\ part # "import" => body = [i \in Issues |-> <<>>]
MCNext == InReview(Next) \/ InCure(CureNext) \/ InFeeder(FeedNext) \/ InImport(ImportNext)
mcVars == <<part, vars, cureVars, feedVars, importVars>>
MCSpec == MCInit /\ [][MCNext]_mcVars

MCBase == [p \in Programs |-> 1]

(* Issue 1 may name itself, something else, and others more than once.     *)
MCBodies == <<{<<>>, <<1, Malformed, 2, 2, 3>>}, {<<>>, <<3>>}, {<<>>}>>

(* The type invariant of the part that the behaviour is of.                *)
SweepsTypeOK ==
  CASE part = "review" -> TypeOK
    [] part = "cure" -> CureTypeOK
    [] part = "feeder" -> FeedTypeOK
    [] part = "import" -> ImportTypeOK

(* Passes of one kind overlap only while their pull request is not ended.  *)
Overlapping ==
  /\ Limited
  /\ (\A s \in Sweeps : sweep[s].pc # "idle") => pr.state = "open"
  /\ (\A s \in CureSweeps : ~Sweeping(s, "idle")) => \A p \in Pulls : pull[p].state # "ended"

Symmetry == Permutations(Sweeps) \cup Permutations(CureSweeps)
====

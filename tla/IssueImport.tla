---- MODULE IssueImport ----
(***************************************************************************)
(* The import of labelled GitHub issues as proposals of one repository     *)
(* (src/src/queue/github-issues.ts, and its transactions in store.ts).     *)
(*                                                                         *)
(* An import lists the open issues page by page over awaits, proposes the  *)
(* unknown ones in one transaction, brings the edges of those still        *)
(* proposed up to date one by one, and records what it saw.  Imports of    *)
(* the timer, the command line and the board overlap, and operators decide *)
(* about the items meanwhile.                                              *)
(*                                                                         *)
(* Abstractions.  An issue is its number, which orders the listing, its    *)
(* source reference and what a line of a body names.  Title, quoted body   *)
(* and work contract are left out.  WorkQueue models what becomes of an    *)
(* admitted item, and the gate its edges are.                              *)
(***************************************************************************)
EXTENDS Integers, Sequences, FiniteSets

CONSTANTS
  Issues,          \* numbers of the issues and pull requests of the listing
  PullRequests,    \* those that are pull requests
  Bodies,          \* Bodies[i]: the depends-on lines i's body may have
  Malformed,       \* a line that is no issue URL
  PageSize,        \* PAGE_SIZE
  MaxPages,        \* MAX_PAGES
  MaxDependsOn,    \* MAX_DEPENDS_ON
  MaxPredecessors, \* MAX_PREDECESSORS in the store
  Importers,       \* imports that may run at once
  MaxGitHub,       \* bound of the model: changes of issues
  MaxDecisions     \* bound of the model: decisions, opt-ins and opt-outs

ASSUME ImportAssumption ==
  /\ Issues \subseteq Nat /\ IsFiniteSet(Issues)
  /\ PullRequests \subseteq Issues /\ Malformed \notin Issues
  /\ \A i \in Issues : Bodies[i] \subseteq Seq(Issues \cup {Malformed})
  /\ PageSize \in Nat \ {0} /\ MaxPages \in Nat \ {0}
  /\ MaxDependsOn \in Nat /\ MaxPredecessors \in Nat
  /\ MaxGitHub \in Nat /\ MaxDecisions \in Nat

VARIABLES
  listed,     \* the issues that are open and carry the label
  body,       \* their bodies
  proposals,  \* the items with a source reference, in row order
  accepting,  \* repositories.enabled
  observed,   \* labeled_issue_observations_json
  importer,   \* the local state of each importLabeledIssues
  moves,      \* how much of MaxGitHub is used
  decisions   \* how much of MaxDecisions is used

importVars == <<listed, body, proposals, accepting, observed, importer, moves, decisions>>

\* quiet is a history: no issue has changed since the import began.
Still == [pc |-> "idle", page |-> 1, found |-> <<>>, complete |-> FALSE, todo |-> <<>>,
          created |-> {}, item |-> 0, quiet |-> TRUE]

-----------------------------------------------------------------------------
(* parseDependsOn: the first MaxDependsOn distinct lines that name another *)
(* issue.                                                                  *)
ParseDependsOn(i, lines) ==
  LET named == {k \in DOMAIN lines : lines[k] \notin {i, Malformed}}
      first == {k \in named : \A m \in named : lines[m] = lines[k] => k <= m}
  IN {lines[k] : k \in {k \in first : Cardinality({m \in first : m < k}) < MaxDependsOn}}

(* One entry of fetchLabeledOpenIssues' answer, and issueWorkCandidate.    *)
Candidate(i) == [issue |-> i, edges |-> ParseDependsOn(i, body[i])]

(* A set of numbers in order, and those entries of s whose places K holds. *)
Before(i, S) == Cardinality({j \in S : j < i})
Ordered(S) == [k \in 1 .. Cardinality(S) |-> CHOOSE i \in S : Before(i, S) = k - 1]
Entries(s, K) == [k \in 1 .. Cardinality(K) |-> s[Ordered(K)[k]]]

(* One page of the listing, which is by creation: the issues of its ranks. *)
Page(n) == {i \in listed : Before(i, listed) \in (n - 1) * PageSize .. n * PageSize - 1}

KnownRef(i) == \E k \in DOMAIN proposals : proposals[k].issue = i
IsProposed(k) == proposals[k].status = "proposed"

-----------------------------------------------------------------------------
ImportInit ==
  /\ listed = Issues /\ body \in [Issues -> UNION {Bodies[i] : i \in Issues}]
  /\ \A i \in Issues : body[i] \in Bodies[i]
  /\ proposals = <<>> /\ accepting = TRUE /\ observed = {}
  /\ importer = [m \in Importers |-> Still] /\ moves = 0 /\ decisions = 0

Go(m, state) == importer' = [importer EXCEPT ![m] = state]
Importing(m, pc) == importer[m].pc = pc

(* fetchLabeledOpenIssues: one page.  A failure of any kind imports        *)
(* nothing.  What an earlier page showed is not taken again.               *)
StartImport(m) ==
  /\ Importing(m, "idle") /\ Go(m, [Still EXCEPT !.pc = "page"])
  /\ UNCHANGED <<listed, body, proposals, accepting, observed, moves, decisions>>
FailImport(m) ==
  /\ Importing(m, "page") /\ Go(m, Still)
  /\ UNCHANGED <<listed, body, proposals, accepting, observed, moves, decisions>>
ReadPage(m) ==
  LET i == importer[m]
      page == Page(i.page)
      taken == {i.found[k].issue : k \in DOMAIN i.found} \cup PullRequests
      fresh == Ordered(page \ taken)
      found == i.found \o [k \in DOMAIN fresh |-> Candidate(fresh[k])]
      last == Cardinality(page) < PageSize
  IN /\ Importing(m, "page")
     /\ Go(m, IF last \/ i.page = MaxPages
              THEN [i EXCEPT !.found = found, !.complete = last, !.pc = "enqueue"]
              ELSE [i EXCEPT !.found = found, !.page = @ + 1])
     /\ UNCHANGED <<listed, body, proposals, accepting, observed, moves, decisions>>

(* normalizePredecessors throws at more edges than the store takes.        *)
StorableEdges(edges) == Cardinality(edges) <= MaxPredecessors

NewProposal(c) == [issue |-> c.issue, status |-> "proposed", edges |-> c.edges, approved |-> {}]

(* enqueueProposedRoots: one transaction, throwing unless opted in.        *)
EnqueueFound(m) ==
  LET i == importer[m]
      known == {k \in DOMAIN i.found : KnownRef(i.found[k].issue)}
      new == Entries(i.found, DOMAIN i.found \ known)
      old == Entries(i.found, known)
  IN /\ Importing(m, "enqueue")
     /\ IF accepting /\ \A k \in DOMAIN i.found : StorableEdges(i.found[k].edges)
        THEN /\ proposals' = proposals \o [k \in DOMAIN new |-> NewProposal(new[k])]
             /\ Go(m, [i EXCEPT !.pc = "refresh", !.todo = old,
                                !.created = {new[k].issue : k \in DOMAIN new}])
        ELSE UNCHANGED proposals /\ Go(m, Still)
     /\ UNCHANGED <<listed, body, accepting, observed, moves, decisions>>

(* refreshProposedPredecessors, one candidate: proposedItemBySourceRef ... *)
ReadProposal(m) ==
  LET i == importer[m]
      c == Head(i.todo)
      items == {k \in DOMAIN proposals : proposals[k].issue = c.issue /\ IsProposed(k)}
      existing == CHOOSE k \in items : TRUE
      differs == items # {} /\ proposals[existing].edges # c.edges
  IN /\ Importing(m, "refresh") /\ i.todo # <<>>
     /\ Go(m, IF differs THEN [i EXCEPT !.pc = "replace", !.item = existing]
              ELSE [i EXCEPT !.todo = Tail(@)])
     /\ UNCHANGED <<listed, body, proposals, accepting, observed, moves, decisions>>

(* Fault: it is not looked at again whether the item is still a proposal.  *)
ReplaceRegardless(m) ==
  LET i == importer[m]
  IN /\ Importing(m, "replace")
     /\ proposals' = [proposals EXCEPT ![i.item].edges = Head(i.todo).edges]
     /\ Go(m, [i EXCEPT !.pc = "refresh", !.todo = Tail(@), !.item = 0])
     /\ UNCHANGED <<listed, body, accepting, observed, moves, decisions>>

(* ... and replaceProposedPredecessors, a transaction of its own: it       *)
(* throws, and the import ends, if the item was decided about since.       *)
ReplaceEdges(m) ==
  LET i == importer[m]
  IN /\ Importing(m, "replace")
     /\ IF IsProposed(i.item)
        THEN /\ proposals' = [proposals EXCEPT ![i.item].edges = Head(i.todo).edges]
             /\ Go(m, [i EXCEPT !.pc = "refresh", !.todo = Tail(@), !.item = 0])
        ELSE UNCHANGED proposals /\ Go(m, Still)
     /\ UNCHANGED <<listed, body, accepting, observed, moves, decisions>>

(* recordLabeledIssueObservations                                          *)
RecordObserved(m) ==
  LET i == importer[m]
      Outcome(issue) == IF issue \in i.created THEN "created" ELSE "existing"
  IN /\ Importing(m, "refresh") /\ i.todo = <<>>
     /\ Go(m, Still)
     /\ observed' = IF accepting
                     THEN {<<i.found[k].issue, Outcome(i.found[k].issue)>> : k \in DOMAIN i.found}
                     ELSE observed
     /\ UNCHANGED <<listed, body, proposals, accepting, moves, decisions>>

-----------------------------------------------------------------------------
(* What happens on GitHub, and what operators and workers do.              *)

Disturb == importer' = [m \in Importers |-> [importer[m] EXCEPT !.quiet = importer[m].pc = "idle"]]

IssueMoves(i) ==
  /\ moves < MaxGitHub /\ moves' = moves + 1 /\ Disturb
  /\ \/ /\ listed' = IF i \in listed THEN listed \ {i} ELSE listed \cup {i}
        /\ UNCHANGED body
     \/ /\ body' \in {[body EXCEPT ![i] = lines] : lines \in Bodies[i] \ {body[i]}}
        /\ UNCHANGED listed
  /\ UNCHANGED <<proposals, accepting, observed, decisions>>

Decision == decisions < MaxDecisions /\ decisions' = decisions + 1

(* approve, defer, and reject or whatever ends an admitted item.           *)
DecideItem(k) ==
  /\ Decision
  /\ \/ /\ IsProposed(k)
        /\ proposals' = [proposals EXCEPT ![k].status = "admitted", ![k].approved = proposals[k].edges]
     \/ /\ proposals[k].status = "admitted"
        /\ proposals' = [proposals EXCEPT ![k].status = "proposed", ![k].approved = {}]
     \/ /\ proposals[k].status # "ended"
        /\ proposals' = [proposals EXCEPT ![k].status = "ended", ![k].approved = proposals[k].edges]
  /\ UNCHANGED <<listed, body, accepting, observed, importer, moves>>

AcceptOrNot ==
  /\ Decision /\ accepting' = ~accepting
  /\ UNCHANGED <<listed, body, proposals, observed, importer, moves>>

ImportStep(m) ==
  \/ StartImport(m) \/ FailImport(m) \/ ReadPage(m) \/ EnqueueFound(m)
  \/ ReadProposal(m) \/ ReplaceEdges(m) \/ RecordObserved(m)

ImportNext ==
  \/ \E m \in Importers : ImportStep(m)
  \/ \E i \in Issues : IssueMoves(i)
  \/ \E k \in DOMAIN proposals : DecideItem(k)
  \/ AcceptOrNot

ImportSpec == ImportInit /\ [][ImportNext]_importVars

-----------------------------------------------------------------------------
ImportTypeOK ==
  /\ listed \subseteq Issues /\ accepting \in BOOLEAN
  /\ \A i \in Issues : body[i] \in Bodies[i]
  /\ \A k \in DOMAIN proposals :
       /\ proposals[k].issue \in Issues \ PullRequests
       /\ proposals[k].status \in {"proposed", "admitted", "ended"}
       /\ proposals[k].edges \cup proposals[k].approved \subseteq Issues
  /\ \A m \in Importers :
       /\ importer[m].pc \in {"idle", "page", "enqueue", "refresh", "replace"}
       /\ importer[m].page \in 1 .. MaxPages /\ importer[m].item \in 0 .. Len(proposals)
       /\ Importing(m, "replace") => importer[m].todo # <<>> /\ importer[m].item # 0
  /\ \A o \in observed : o[1] \in Issues /\ o[2] \in {"created", "existing"}

(* However imports, decisions and changes on GitHub interleave: an issue   *)
(* has one item for good; what an item waits for is what its issue's body  *)
(* said, never itself, and stays as it was approved; what an import is     *)
(* about to report seen has an item; and an import during which no issue   *)
(* moved has missed none, unless it read as many pages as it may.          *)
ImportsSound ==
  /\ \A j, k \in DOMAIN proposals : proposals[j].issue = proposals[k].issue => j = k
  /\ \A k \in DOMAIN proposals :
       LET item == proposals[k]
       IN /\ \E lines \in Bodies[item.issue] : item.edges = ParseDependsOn(item.issue, lines)
          /\ item.issue \notin item.edges
          /\ item.status # "proposed" => item.edges = item.approved
  /\ \A m \in Importers : Importing(m, "refresh") =>
       /\ \A k \in DOMAIN importer[m].found : KnownRef(importer[m].found[k].issue)
       /\ importer[m].quiet /\ importer[m].complete =>
            \A i \in listed \ PullRequests : KnownRef(i)
====

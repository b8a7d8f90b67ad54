---- MODULE MCWorkQueue ----
(***************************************************************************)
(* Instances of WorkQueue for TLC: the contracts of small sets of items.   *)
(***************************************************************************)
EXTENDS LedgerViews

MCDiscoveryKinds == {"scan-discovery"}

ReadOnly(kind) ==
  [kind |-> kind, allowed |-> {"read"}, delegable |-> {}, required |-> "none",
   target |-> "read-only", binding |-> "none"]

Bound == [ReadOnly("fix") EXCEPT !.binding = "cure"]

Assessment ==
  [kind |-> "scan-discovery", allowed |-> {"read", "create-followup"},
   delegable |-> {"read", "write", "open-pr", "create-followup"},
   required |-> "none", target |-> "read-only", binding |-> "none"]

Change ==
  [kind |-> "fix", allowed |-> {"read", "write", "open-pr", "create-followup"},
   delegable |-> {"read", "create-followup"}, required |-> "pull-request",
   target |-> "new-pull-request", binding |-> "none"]

(* A change whose contract promises a pull request it may not open.        *)
Undeliverable == [ReadOnly("fix") EXCEPT !.required = "pull-request"]

(* Read-only work that may propose more of the same.                       *)
Relay ==
  [ReadOnly("fix") EXCEPT !.allowed = {"read", "create-followup"},
                          !.delegable = {"read", "create-followup"}]

(* Read-only work that would delegate what no parent here may delegate.    *)
Greedy == [ReadOnly("fix") EXCEPT !.delegable = {"open-issue"}]

OneItem == 1 .. 1
OneDefinition == <<Bound>>
OneRepository == [i \in OneItem |-> "r"]
OneNoRef == [i \in OneItem |-> NoRef]
OneNoEdges == [i \in OneItem |-> {{}}]

(* Two stories.  In the first, an assessment, a change it may propose, work *)
(* the change may propose, and two proposals that must be refused at every *)
(* level: too much authority, and work nobody could deliver.  In the       *)
(* second, a root, its gated successor and an ungated rival.               *)
Lineage == 1 .. 5
Gated == 6 .. 8
StoryItems == Lineage \cup Gated
StoryDefinition ==
  <<Assessment, Change, Relay, Greedy, Undeliverable>> \o
  [i \in 1 .. 3 |-> [Change EXCEPT !.allowed = @ \ {"create-followup"}, !.delegable = {}]]
StoryRepository == [i \in StoryItems |-> "r"]
StoryRef == [i \in Lineage |-> NoRef] \o <<"a", "b", NoRef>>
StoryEdges == [i \in StoryItems |-> IF i = 7 THEN {{}, {"a"}} ELSE {{}}]

(* A behaviour keeps to one story.  In the first the repository stays      *)
(* enabled and nothing is cancelled.  In the second no work is blocked or  *)
(* cancelled, and items differ by age or by priority, not by both: ties of *)
(* either order and the merge of the two queries stay reachable.           *)
OneStory ==
  \/ /\ \A i \in Gated : ~Exists(i)
     /\ \A i \in Lineage : item[i].priority = 0 /\ item[i].status # "cancelled"
     /\ (\E i \in Lineage : Exists(i)) => \A r \in Repositories : enabled[r]
     /\ now = 0
  \/ /\ \A i \in Lineage : ~Exists(i)
     /\ \A i \in Gated : item[i].status \notin {"blocked", "cancelled"}
     /\ now = 0 \/ \A i \in Gated : item[i].priority = 0

(* What happens to a finished item is followed while its history is short. *)
ShortTails ==
  \A i \in Items : item[i].status \in {"completed", "cancelled"} => Len(grants) < MaxGrants

WorkerSymmetry == Permutations(Workers)
====

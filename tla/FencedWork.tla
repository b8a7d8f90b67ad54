---- MODULE FencedWork ----
(***************************************************************************)
(* What the work queue promises about exclusive work, without time,        *)
(* priorities, operators or a ledger: every grant of an item carries a     *)
(* number larger than all earlier ones, an item has at most one current    *)
(* grant, a newer grant supersedes the older one, and a finished item was  *)
(* finished under the grant that was current at that moment and is never   *)
(* worked on again.                                                        *)
(***************************************************************************)
EXTENDS Naturals

CONSTANT Items

VARIABLES
  phase,      \* "none" before creation, "open" while there is work to do, "done" for ever after
  holder,     \* the number of the item's current grant, 0 when nobody holds it
  finisher,   \* the grant that finished the item, 0 when none did
  issued      \* how many grants were ever made

vars == <<phase, holder, finisher, issued>>

Init ==
  /\ phase = [i \in Items |-> "none"]
  /\ holder = [i \in Items |-> 0]
  /\ finisher = [i \in Items |-> 0]
  /\ issued = 0

Opened(S) == [i \in Items |-> IF i \in S THEN "open" ELSE phase[i]]

(* New work appears.                                                       *)
Open(S) ==
  /\ \A i \in S : phase[i] = "none"
  /\ phase' = Opened(S)
  /\ UNCHANGED <<holder, finisher, issued>>

(* A fresh grant; an earlier holder, if any, is superseded.                *)
Grant(i) ==
  /\ phase[i] = "open"
  /\ holder' = [holder EXCEPT ![i] = issued + 1]
  /\ issued' = issued + 1
  /\ UNCHANGED <<phase, finisher>>

(* The grant ends with the work unfinished.                                *)
Yield(i) ==
  /\ holder[i] # 0
  /\ holder' = [holder EXCEPT ![i] = 0]
  /\ UNCHANGED <<phase, finisher, issued>>

(* The current holder finishes the item and may leave new work behind.     *)
Finish(i, S) ==
  /\ phase[i] = "open" /\ holder[i] # 0
  /\ i \notin S /\ \A j \in S : phase[j] = "none"
  /\ phase' = [Opened(S) EXCEPT ![i] = "done"]
  /\ finisher' = [finisher EXCEPT ![i] = holder[i]]
  /\ holder' = [holder EXCEPT ![i] = 0]
  /\ UNCHANGED issued

(* Work nobody holds is withdrawn.                                         *)
Withdraw(i) ==
  /\ phase[i] = "open" /\ holder[i] = 0
  /\ phase' = [phase EXCEPT ![i] = "done"]
  /\ UNCHANGED <<holder, finisher, issued>>

Next ==
  \/ \E S \in SUBSET Items : Open(S)
  \/ \E i \in Items :
       \/ Grant(i) \/ Yield(i) \/ Withdraw(i)
       \/ \E S \in SUBSET Items : Finish(i, S)

Spec == Init /\ [][Next]_vars

====

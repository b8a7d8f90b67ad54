---- MODULE LedgerViews ----
(***************************************************************************)
(* The read-only views that the queue derives from its ledger: the attempt *)
(* projection (rule 66) and the list of backed-off items (rule 69).  They  *)
(* change nothing; what is checked is that the bounded, windowed reads say *)
(* what the full history says.                                             *)
(***************************************************************************)
EXTENDS WorkQueue, SequencesExt

CONSTANT AttemptLimits   \* the limits a caller may ask for (1 .. MAX_ITEM_ATTEMPTS)

Newest(s, n) == SubSeq(s, IF Len(s) > n THEN Len(s) - n + 1 ELSE 1, Len(s))

OpenAttempt(e) ==
  [claimedAt |-> e.at, worker |-> e.actor, outcome |-> "open", endedAt |-> 0, endedBy |-> NoOne]

(* One ledger event: a claim opens an attempt, any other event closes the  *)
(* newest one unless it is closed already or fell outside the window.      *)
ReadEvent(found, e) ==
  IF e.type = "claimed" THEN Append(found, OpenAttempt(e))
  ELSE IF found = <<>> \/ found[Len(found)].outcome # "open" THEN found
  ELSE [found EXCEPT ![Len(found)] =
          [@ EXCEPT !.outcome = e.type, !.endedAt = e.ended, !.endedBy = e.actor]]

(* Fault: a lease that ends this instant still reads as open.              *)
NoticeLapseLate(i, found) ==
  IF found # <<>> /\ found[Len(found)].outcome = "open"
     /\ (item[i].status # "claimed" \/ item[i].expires < now)
  THEN [found EXCEPT ![Len(found)] =
          [@ EXCEPT !.outcome = "expired", !.endedBy = "system",
                    !.endedAt = IF item[i].status = "claimed" THEN item[i].expires ELSE now]]
  ELSE found

(* A lapsed lease that nobody reclaimed has no event yet.                  *)
NoticeLapse(i, found) ==
  IF found # <<>> /\ found[Len(found)].outcome = "open"
     /\ (item[i].status # "claimed" \/ item[i].expires <= now)
  THEN [found EXCEPT ![Len(found)] =
          [@ EXCEPT !.outcome = "expired", !.endedBy = "system",
                    !.endedAt = IF item[i].status = "claimed" THEN item[i].expires ELSE now]]
  ELSE found

Attempts(i, limit) ==
  LET window == Newest(ledger[i], 2 * limit + 1)
  IN Newest(NoticeLapse(i, FoldLeft(ReadEvent, <<>>, window)), limit)

(* churningItems: the releases counted, newest first, and the instant the  *)
(* decisive one leaves the window.                                         *)
Churning(i) ==
  Status(i) = "queued" /\ Cardinality(CountedReleases(i)) >= BackoffReleases

BackoffUntil(i) ==
  LET newestFirst == SetToSortSeq(CountedReleases(i), LAMBDA k, l : k > l)
  IN ledger[i][newestFirst[BackoffReleases]].at + BackoffWindow

----------------------------------------------------------------------------
(* The grants of i, oldest first, and what became of each one, read from   *)
(* the grants themselves and the event after each claim.                   *)
GrantsOf(i) == SelectSeq([t \in DOMAIN grants |-> t], LAMBDA t : grants[t].item = i)

GrantOutcome(i, t) ==
  LET k == CHOOSE k \in DOMAIN ledger[i] : ledger[i][k].type = "claimed" /\ ledger[i][k].grant = t
      begun == [OpenAttempt(ledger[i][k]) EXCEPT !.worker = grants[t].worker]
  IN CASE k < Len(ledger[i]) ->
            [begun EXCEPT !.outcome = ledger[i][k + 1].type, !.endedAt = ledger[i][k + 1].ended,
                          !.endedBy = ledger[i][k + 1].actor]
       [] k = Len(ledger[i]) /\ item[i].expires <= now ->
            [begun EXCEPT !.outcome = "expired", !.endedAt = item[i].expires, !.endedBy = "system"]
       [] OTHER -> begun

AttemptsProjected ==
  \A i \in Items : \A limit \in AttemptLimits :
    LET newest == Newest(GrantsOf(i), limit)
    IN Attempts(i, limit) = [n \in DOMAIN newest |-> GrantOutcome(i, newest[n])]

BackoffForecastExact ==
  \A i \in Items : Churning(i) =>
    \A at \in now .. (now + BackoffWindow) :
      at >= BackoffUntil(i) <=>
        Cardinality({k \in CountedReleases(i) : ledger[i][k].at + BackoffWindow > at}) < BackoffReleases

(* What is derived from the ledger is what happened.  Rule 66: for every   *)
(* limit the windowed read returns exactly the newest grants of the item   *)
(* with their true outcomes, so that the window never cuts the newest      *)
(* attempt and only a live lease reads as open.  Rule 69: the instant that *)
(* churn names is the first one at which the claim backoff lets the item   *)
(* back in, if nobody touches it until then.  And requeue erases no block  *)
(* result: every work.blocked event of an item that is not cancelled is    *)
(* its current result or one of previousResults.                           *)
ViewsFaithful == AttemptsProjected /\ BackoffForecastExact /\ BlockResultsKept
====

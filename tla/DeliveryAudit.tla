---- MODULE DeliveryAudit ----
(***************************************************************************)
(* The audit of the list GitHub keeps of an App's deliveries: controllers  *)
(* that take turns by a lease in the database, the walk through the pages  *)
(* of a list that changes while it is read, and the schedule that answers  *)
(* to what the walk found (src/src/github/delivery-controller.ts,          *)
(* src/src/github/delivery-api.ts, src/src/github/audit-policy.ts,         *)
(* src/src/control/store.ts).                                              *)
(*                                                                         *)
(* Abstractions.  Deliveries are numbered as they come and an instant is   *)
(* the number of those that came before it.  in_flight_expires_at,         *)
(* next_audit_at and last_retry_at are the time left until then.  A run is *)
(* the controller that claimed it, as a controller has one at a time.  The *)
(* streak counts as far as the schedule tells it apart.                    *)
(* What can go wrong (a crash, a failing source, a clock set back, a run   *)
(* that outlasts its lease) happens MaxFaults times.  The loop's sleep is  *)
(* the time between two claims, which may be any.  The App is fixed.       *)
(***************************************************************************)
EXTENDS Integers, Sequences, FiniteSets

CONSTANTS
  Controllers,     \* processes running runGitHubDeliveryAuditLoop
  Lease,           \* GITHUB_DELIVERY_AUDIT_LEASE_SECONDS
  Interval,        \* the healthy interval
  Retry,           \* INCOMPLETE_RETRY_SECONDS
  Asks,            \* how much longer GitHub may ask to be left alone
  PageSize,        \* deliveries on a page
  MaxPages,        \* GITHUB_DELIVERY_AUDIT_MAXIMUM_PAGES
  MaxDeliveries,   \* bound of the model: deliveries that ever come
  MaxFaults,       \* bound of the model: things that go wrong
  Nobody, Gone     \* no run is in flight; its controller is gone

ASSUME AuditAssumption ==
  /\ {Lease, Interval, PageSize, MaxPages} \subseteq Nat \ {0}
  /\ Retry \in Seq(Nat \ {0}) /\ Retry # << >>
  /\ Asks \subseteq Nat /\ {MaxDeliveries, MaxFaults} \subseteq Nat
  /\ Nobody # Gone /\ {Nobody, Gone} \cap Controllers = {}

VARIABLES
  owner,      \* in_flight_run_id
  lease,      \* time until in_flight_expires_at
  wait,       \* time until next_audit_at
  streak,     \* incomplete_streak
  boundary,   \* last_complete_boundary_at
  asked,      \* time until the instant GitHub last named, as recorded
  walk,       \* what each controller is doing
  oldest,     \* the oldest delivery still listed
  newest,     \* the newest
  behind,     \* now() is earlier than what the database has recorded
  faults      \* what went wrong so far

schedule == <<owner, lease, wait, streak, boundary, asked>>
list == <<oldest, newest>>
auditVars == <<schedule, walk, list, behind, faults>>

Idle == [pc |-> "idle"]
Down == [pc |-> "down"]
(* How a walk ends; an incomplete one has nothing to show, and its causes, *)
(* an error of the controller's own among them, are one to the schedule.   *)
(* ask is the time until the instant that GitHub named (retryAt).          *)
Complete(attempted, seen) ==
  [pc |-> "ended", outcome |-> "complete", ask |-> 0, attempted |-> attempted, seen |-> seen]
Incomplete(ask) ==
  [pc |-> "ended", outcome |-> "incomplete", ask |-> ask, attempted |-> 0, seen |-> {}]

Larger(a, b) == IF a >= b THEN a ELSE b
Smaller(a, b) == IF a <= b THEN a ELSE b
Less(t) == IF t = 0 THEN 0 ELSE t - 1

-----------------------------------------------------------------------------
AuditInit ==
  /\ owner = Nobody /\ lease = 0 /\ wait = 0 /\ streak = 0 /\ boundary = 0 /\ asked = 0
  /\ walk = [c \in Controllers |-> Idle]
  /\ oldest = 1 /\ newest = 0
  /\ behind = FALSE /\ faults = 0

(* Something goes wrong.                                                   *)
Fault == faults < MaxFaults /\ faults' = faults + 1

(* Fault: a run that has been overtaken is taken for the one in flight.    *)
InFlightAnyRun(c) == owner # Nobody

(* state.inFlightRunId === input.runId                                     *)
InFlight(c) == owner = c

(* Fault: a run that is in flight is waited for, its expiry unread.        *)
FreeWhenCompleted == owner = Nobody

(* now >= state.inFlightExpiresAt, or nothing in flight                    *)
Free == owner = Nobody \/ lease = 0

(* claimGitHubDeliveryAudit, and attemptedAt before the first request.  A  *)
(* claim by a clock behind the database ends the loop.                     *)
Claim(c) ==
  /\ walk[c] = Idle
  /\ IF behind
       THEN walk' = [walk EXCEPT ![c] = Down] /\ UNCHANGED schedule
       ELSE /\ Free /\ wait = 0
            /\ owner' = c /\ lease' = Lease
            /\ UNCHANGED <<wait, streak, boundary, asked>>
            /\ walk' = [walk EXCEPT ![c] =
                 [pc |-> "walking", attempted |-> newest, next |-> newest, pages |-> 0,
                  seen |-> {}]]
  /\ UNCHANGED <<list, behind, faults>>

(* Fault: what the list had when the walk ended counts as covered.         *)
CoveredThroughLast(w) == newest

(* coveredThrough                                                          *)
CoveredThrough(w) == w.attempted

(* One page: the deliveries older than the cursor, newest first, the first *)
(* page beginning with whatever is newest by then.  A page that names the  *)
(* next is followed, within the budget.                                    *)
Fetch(c) ==
  LET w == walk[c]
      top == IF w.pages = 0 THEN newest ELSE w.next
      last == Larger(oldest, top - PageSize + 1)
      read == [w EXCEPT !.seen = @ \cup (last .. top), !.next = last - 1, !.pages = @ + 1]
  IN /\ w.pc = "walking"
     /\ walk' = [walk EXCEPT ![c] =
          IF last <= oldest THEN Complete(CoveredThrough(w), read.seen)
          ELSE IF read.pages >= MaxPages THEN Incomplete(0)
          ELSE read]
     /\ UNCHANGED <<schedule, list, behind, faults>>

(* A request that fails: unanswered, a status that is not 200 (naming a    *)
(* time or not), a link that cannot be followed, a page that cannot be     *)
(* read, or the auditor itself throws.  The time named is an instant, or   *)
(* counts from the attempt (safeRetryAt): part of it may be over by now.   *)
FetchFails(c) ==
  /\ walk[c].pc = "walking"
  /\ Fault
  /\ \E ask \in Asks \cup {0} : walk' = [walk EXCEPT ![c] = Incomplete(ask)]
  /\ UNCHANGED <<schedule, list, behind>>

(* nextAuditAt                                                             *)
NextAudit(ordinary, ask) == Larger(ordinary, ask)

(* githubDeliveryAuditRetrySeconds                                         *)
RetryAfter(n) == Retry[Smaller(n, Len(Retry))]

(* in_flight_run_id and in_flight_expires_at = NULL                        *)
Release == owner' = Nobody /\ lease' = 0

(* completeGitHubDeliveryAudit.  A run that is no longer the one in        *)
(* flight, and a clock that went back, end the loop.                       *)
Report(c) ==
  LET w == walk[c]
      failures == IF w.outcome = "complete" THEN 0 ELSE Smaller(streak + 1, Len(Retry))
  IN /\ w.pc = "ended"
     /\ IF ~InFlight(c) \/ behind \/ (w.outcome = "complete" /\ w.attempted < boundary)
          THEN walk' = [walk EXCEPT ![c] = Down] /\ UNCHANGED schedule
          ELSE /\ Release
               /\ streak' = failures
               /\ wait' = NextAudit(IF failures = 0 THEN Interval ELSE RetryAfter(failures), w.ask)
               /\ boundary' = IF w.outcome = "complete" THEN w.attempted ELSE boundary
               /\ asked' = w.ask
               /\ walk' = [walk EXCEPT ![c] = Idle]
     /\ UNCHANGED <<list, behind, faults>>

(* The process ends where it stands; its lease stays.                      *)
Crash(c) ==
  /\ walk[c].pc # "down" /\ Fault
  /\ walk' = [walk EXCEPT ![c] = Down]
  /\ owner' = IF owner = c THEN Gone ELSE owner
  /\ UNCHANGED <<lease, wait, streak, boundary, asked, list, behind>>

(* A loop that ended left its run, if it was still in flight, to nobody.   *)
Restart(c) ==
  /\ walk[c] = Down
  /\ walk' = [walk EXCEPT ![c] = Idle]
  /\ owner' = IF owner = c THEN Gone ELSE owner
  /\ UNCHANGED <<lease, wait, streak, boundary, asked, list, behind, faults>>

-----------------------------------------------------------------------------
(* GitHub and the clock.                                                   *)
Arrive ==
  /\ newest < MaxDeliveries /\ newest' = newest + 1
  /\ UNCHANGED <<schedule, walk, oldest, behind, faults>>

(* A delivery leaves the list when it is old enough.                       *)
Expire ==
  /\ oldest <= newest /\ oldest' = oldest + 1
  /\ UNCHANGED <<schedule, walk, newest, behind, faults>>

Aged(w) == IF w.pc = "ended" THEN [w EXCEPT !.ask = Less(@)] ELSE w

(* A lease that runs out under a run that is still at work is a fault.     *)
Tick ==
  /\ \/ lease > 0 \/ wait > 0 \/ asked > 0
     \/ \E c \in Controllers : walk[c] # Aged(walk[c])
  /\ lease' = Less(lease) /\ wait' = Less(wait) /\ asked' = Less(asked)
  /\ walk' = [c \in Controllers |-> Aged(walk[c])]
  /\ IF lease = 1 /\ owner \in Controllers /\ walk[owner].pc # "down"
       THEN Fault ELSE UNCHANGED faults
  /\ UNCHANGED <<owner, streak, boundary, list, behind>>

StepBack == ~behind /\ Fault /\ behind' = TRUE /\ UNCHANGED <<schedule, walk, list>>
CatchUp == behind /\ behind' = FALSE /\ UNCHANGED <<schedule, walk, list, faults>>

AuditNext ==
  \/ \E c \in Controllers :
       Claim(c) \/ Fetch(c) \/ FetchFails(c) \/ Report(c) \/ Crash(c) \/ Restart(c)
  \/ Arrive \/ Expire \/ Tick \/ StepBack \/ CatchUp

(* Controllers come back and go on, and so does time.                      *)
AuditFairness ==
  /\ \A c \in Controllers : /\ WF_auditVars(Claim(c)) /\ WF_auditVars(Fetch(c))
                            /\ WF_auditVars(Report(c)) /\ WF_auditVars(Restart(c))
  /\ WF_auditVars(Tick) /\ WF_auditVars(CatchUp)

AuditSpec == AuditInit /\ [][AuditNext]_auditVars /\ AuditFairness

-----------------------------------------------------------------------------
(* Properties.                                                             *)

(* The row is of the kinds the schema gives it, and a lease has an owner.  *)
AuditTypeOK ==
  /\ owner \in Controllers \cup {Nobody, Gone} /\ lease \in 0 .. Lease
  /\ owner = Nobody => lease = 0
  /\ streak \in 0 .. Len(Retry) /\ boundary \in 0 .. newest
  /\ \A c \in Controllers : walk[c].pc \in {"idle", "walking", "ended", "down"}
  /\ oldest \in 1 .. newest + 1 /\ faults \in 0 .. MaxFaults

(* Whatever comes and goes on the list while its pages are read, when the  *)
(* boundary moves it moves forward, and the walk that moved it has read    *)
(* every delivery up to it that is still listed.                           *)
BoundaryIsEvidenced ==
  [][boundary' # boundary =>
       /\ boundary' > boundary
       /\ \E c \in Controllers : walk[c].pc = "ended" /\ oldest .. boundary' \subseteq walk[c].seen]_auditVars

(* However many overtaken runs report in between: a run in flight is ended *)
(* before its lease runs out by its own controller only; once GitHub's     *)
(* wish to be left alone is on record, no controller begins a walk before  *)
(* it is over; and the longer the source has failed in a row the longer it *)
(* is left alone, until one complete audit brings the ordinary interval    *)
(* back.                                                                   *)
ScheduleRespected ==
  [][/\ \A c \in Controllers :
          /\ owner = c /\ lease > 0 /\ owner' # c => walk'[c] # walk[c] \/ walk[c] = Down
          /\ walk[c].pc = "idle" /\ walk'[c].pc = "walking" => asked = 0
     /\ owner # Nobody /\ owner' = Nobody =>
          /\ streak' = 0 => wait' = Interval
          /\ streak' > 0 => wait' >= Retry[streak'] /\ streak' >= streak]_auditVars

(* A list that the page budget does not reach the end of is never audited. *)
ListTooLong == newest - oldest + 1 > PageSize * MaxPages

(* Once nothing more goes wrong, audits complete again and again, as long  *)
(* as the list fits in the budget.                                         *)
AuditsRecur == []<>(ListTooLong \/ (owner = Nobody /\ streak = 0 /\ wait = Interval))
====

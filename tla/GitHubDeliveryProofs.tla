---- MODULE GitHubDeliveryProofs ----
(***************************************************************************)
(* Theorems about the two halves of the control plane's dealings with GitHub: *)
(* the delivery audit, for every set of controllers, every schedule of     *)
(* intervals and retries, every page size and page budget, and the coverage *)
(* of the watched repositories, for every set of repositories and every    *)
(* history of the control ledger.                                          *)
(***************************************************************************)
EXTENDS DeliveryAudit, SourceCoverage, WellFoundedInduction, NaturalsInduction,
        FiniteSetTheorems, SequenceTheorems, TLAPS

-----------------------------------------------------------------------------
(***************************************************************************)
(* The delivery audit.                                                     *)
(***************************************************************************)

-----------------------------------------------------------------------------
(* What a controller may be doing.  A walk that goes on has read all that  *)
(* is listed between its cursor and the instant it was attempted, and a    *)
(* complete one all that is listed up to that instant; a complete walk has *)
(* no wish of GitHub to pass on.                                           *)

Walking ==
  [pc : {"walking"}, attempted : Nat, next : Nat, pages : Nat, seen : SUBSET Int]
Ended ==
  [pc : {"ended"}, outcome : {"complete", "incomplete"}, ask : Nat, attempted : Nat,
   seen : SUBSET Int]

WalkSound(w, o, n) ==
  \/ w = Idle
  \/ w = Down
  \/ /\ w \in Walking /\ w.attempted <= n /\ w.next <= n
     /\ w.pages = 0 => w.next = w.attempted
     /\ \A d \in o .. w.attempted : d > w.next => d \in w.seen
  \/ /\ w \in Ended
     /\ w.outcome = "complete" => /\ w.ask = 0 /\ w.attempted <= n
                                  /\ \A d \in o .. w.attempted : d \in w.seen

AuditInv ==
  /\ owner \in Controllers \cup {Nobody, Gone} /\ lease \in 0 .. Lease
  /\ owner = Nobody => lease = 0
  /\ streak \in 0 .. Len(Retry) /\ boundary \in 0 .. newest
  /\ wait \in Nat /\ asked \in Nat /\ asked <= wait
  /\ oldest \in 1 .. newest + 1 /\ newest \in Nat /\ behind \in BOOLEAN
  /\ faults \in 0 .. MaxFaults
  /\ DOMAIN walk = Controllers /\ walk = [c \in Controllers |-> walk[c]]
  /\ \A c \in Controllers : WalkSound(walk[c], oldest, newest)

-----------------------------------------------------------------------------
(* The constants as numbers.                                               *)
LEMMA AuditNumbers ==
  /\ Lease \in Nat /\ Lease >= 1 /\ Interval \in Nat /\ Interval >= 1
  /\ PageSize \in Nat /\ PageSize >= 1 /\ MaxPages \in Nat /\ MaxPages >= 1
  /\ MaxFaults \in Nat /\ Asks \subseteq Nat
  /\ Len(Retry) \in Nat /\ Len(Retry) >= 1
  /\ \A n \in 1 .. Len(Retry) : Retry[n] \in Nat /\ Retry[n] >= 1
<1>1. Retry \in Seq(Nat \ {0}) /\ Retry # << >> BY AuditAssumption
<1>2. Len(Retry) \in Nat /\ Len(Retry) # 0 BY <1>1, EmptySeq, LenProperties
<1>3. ASSUME NEW n \in 1 .. Len(Retry) PROVE Retry[n] \in Nat /\ Retry[n] >= 1
  <2>1. Retry[n] \in Nat \ {0} BY <1>1, ElementOfSeq
  <2> QED BY <2>1
<1> QED BY <1>2, <1>3, AuditAssumption

(* What a controller is doing tells the kinds of walk apart.               *)
LEMMA WalkKinds ==
  ASSUME NEW w, NEW o, NEW n, WalkSound(w, o, n)
  PROVE  /\ w.pc \in {"idle", "walking", "ended", "down"}
         /\ w.pc = "idle" <=> w = Idle
         /\ w.pc = "down" <=> w = Down
         /\ w.pc = "walking" => w \in Walking /\ w # Idle /\ w # Down
         /\ w.pc = "ended" => w \in Ended /\ w # Idle /\ w # Down
BY DEF WalkSound, Idle, Down, Walking, Ended

(* A walk stays sound as deliveries come and go.                           *)
LEMMA WalkStays ==
  ASSUME NEW w, NEW o \in Nat, NEW n \in Nat, NEW o2 \in Nat, NEW n2 \in Nat, o <= o2, n <= n2,
         WalkSound(w, o, n)
  PROVE  WalkSound(w, o2, n2)
BY DEF WalkSound, Walking, Ended

(* An incomplete walk is sound whatever it saw.                            *)
LEMMA IncompleteSound ==
  ASSUME NEW ask \in Nat, NEW o, NEW n PROVE WalkSound(Incomplete(ask), o, n)
BY DEF WalkSound, Incomplete, Ended

(* So does one that has ended, as time passes.                             *)
LEMMA AgedSound ==
  ASSUME NEW w, NEW o, NEW n, WalkSound(w, o, n)
  PROVE  WalkSound(Aged(w), o, n) /\ Aged(w).pc = w.pc /\ (w = Down => Aged(w) = Down)
<1>1. CASE w.pc # "ended" BY <1>1, WalkKinds DEF Aged
<1>2. CASE w.pc = "ended"
  <2>1. w \in Ended /\ w # Idle /\ w # Down BY <1>2, WalkKinds
  <2>2. PICK ask : ask = Less(w.ask) OBVIOUS
  <2>3. ask \in Nat /\ (w.ask = 0 => ask = 0) BY <2>1, <2>2 DEF Ended, Less
  <2>4. Aged(w) = [w EXCEPT !.ask = ask] BY <1>2, <2>2 DEF Aged
  <2>5. /\ Aged(w) \in Ended /\ Aged(w).ask = ask /\ Aged(w).pc = "ended"
        /\ Aged(w).outcome = w.outcome /\ Aged(w).attempted = w.attempted /\ Aged(w).seen = w.seen
    BY <2>1, <2>3, <2>4 DEF Ended
  <2>6. w.outcome = "complete" => /\ w.ask = 0 /\ w.attempted <= n
                                  /\ \A d \in o .. w.attempted : d \in w.seen
    BY <1>2 DEF WalkSound, Idle, Down, Walking
  <2> HIDE DEF Aged
  <2> QED BY <1>2, <2>1, <2>3, <2>5, <2>6 DEF WalkSound
<1> QED BY <1>1, <1>2

(* A page read keeps the walk sound, and the last one completes it.        *)
LEMMA FetchSound ==
  ASSUME AuditInv, NEW c \in Controllers, Fetch(c)
  PROVE  WalkSound(walk'[c], oldest, newest)
<1> DEFINE w == walk[c]
           top == IF w.pages = 0 THEN newest ELSE w.next
           last == Larger(oldest, top - PageSize + 1)
           read == [w EXCEPT !.seen = @ \cup (last .. top), !.next = last - 1, !.pages = @ + 1]
<1>1. /\ w \in Walking /\ w.attempted <= newest /\ w.next <= newest
      /\ w.pages = 0 => w.next = w.attempted
      /\ \A d \in oldest .. w.attempted : d > w.next => d \in w.seen
  <2>1. WalkSound(w, oldest, newest) /\ w.pc = "walking" BY DEF AuditInv, Fetch
  <2>2. w # Idle /\ w # Down /\ w \notin Ended BY <2>1 DEF Idle, Down, Ended
  <2> HIDE DEF w
  <2> QED BY <2>1, <2>2 DEF WalkSound
<1>2. /\ w.attempted \in Nat /\ w.next \in Nat /\ w.pages \in Nat /\ w.seen \in SUBSET Int
      /\ oldest \in Nat /\ oldest >= 1 /\ oldest <= newest + 1 /\ newest \in Nat
  BY <1>1 DEF Walking, AuditInv
<1>3. /\ top \in Nat /\ top <= newest
      /\ w.pages = 0 => top = newest
      /\ w.pages # 0 => top = w.next
  BY <1>1, <1>2
<1>4. /\ last \in Nat /\ last >= oldest /\ last >= 1 /\ last - 1 \in Nat
      /\ last <= newest + 1
  <2>1. top - PageSize + 1 \in Int /\ top - PageSize + 1 <= newest
    BY <1>2, <1>3, AuditNumbers
  <2>2. last = oldest \/ (last = top - PageSize + 1 /\ last >= oldest)
    <3> HIDE DEF top
    <3> QED BY <1>2, <2>1 DEF Larger
  <2> HIDE DEF last, top
  <2> QED BY <1>2, <2>1, <2>2
<1>5. /\ read \in Walking /\ read.attempted = w.attempted /\ read.next = last - 1
      /\ read.pages = w.pages + 1 /\ read.seen = w.seen \cup (last .. top)
  <2> HIDE DEF last, top, w
  <2>1. w.seen \cup (last .. top) \in SUBSET Int BY <1>2, <1>3, <1>4
  <2>2. PICK pages, at : pages = w.pages + 1 /\ at = last - 1 OBVIOUS
  <2>3. read = [w EXCEPT !.seen = w.seen \cup (last .. top), !.next = at, !.pages = pages]
    BY <2>2
  <2>4. pages \in Nat /\ at \in Nat BY <1>2, <1>4, <2>2
  <2>5. PICK seen : seen = w.seen \cup (last .. top) OBVIOUS
  <2> HIDE DEF read
  <2>6. read \in Walking /\ read.attempted = w.attempted /\ read.next = at
        /\ read.pages = pages /\ read.seen = seen
    BY <1>1, <2>1, <2>3, <2>4, <2>5 DEF Walking
  <2> QED BY <2>2, <2>5, <2>6
<1>6. ASSUME NEW d \in oldest .. w.attempted, d > last - 1 PROVE d \in read.seen
  <2>1. d \in Int /\ d >= last BY <1>2, <1>4, <1>6
  <2>2. CASE d <= top BY <1>3, <1>4, <1>5, <2>1, <2>2
  <2>3. CASE d > top
    <3>1. w.pages # 0 BY <1>1, <1>2, <1>3, <1>6, <2>3
    <3>2. d > w.next BY <1>3, <2>3, <3>1
    <3> QED BY <1>1, <1>5, <3>2
  <2> QED BY <1>2, <1>3, <2>1, <2>2, <2>3
<1>7. walk'[c] = IF last <= oldest THEN Complete(CoveredThrough(w), read.seen)
                 ELSE IF read.pages >= MaxPages THEN Incomplete(0)
                 ELSE read
  BY DEF Fetch, AuditInv
<1> HIDE DEF w, top, last, read
<1>8. CASE last <= oldest
  <2>1. \A d \in oldest .. w.attempted : d \in read.seen
    BY <1>2, <1>4, <1>6, <1>8
  <2>2. walk'[c] = Complete(w.attempted, read.seen) BY <1>7, <1>8 DEF CoveredThrough
  <2>3. /\ walk'[c] \in Ended /\ walk'[c].ask = 0 /\ walk'[c].attempted = w.attempted
        /\ walk'[c].seen = read.seen
    BY <1>2, <1>5, <2>2 DEF Complete, Ended, Walking
  <2> QED BY <1>1, <2>1, <2>3 DEF WalkSound
<1>9. CASE ~(last <= oldest) /\ read.pages >= MaxPages
  BY <1>7, <1>9, IncompleteSound
<1>10. CASE ~(last <= oldest) /\ ~(read.pages >= MaxPages)
  <2>1. walk'[c] = read BY <1>7, <1>10
  <2>2. read.next <= newest /\ read.pages # 0 BY <1>2, <1>4, <1>5
  <2> QED BY <1>1, <1>2, <1>5, <1>6, <2>1, <2>2 DEF WalkSound
<1> QED BY <1>8, <1>9, <1>10

(* What a report writes when its run is the one in flight.                 *)
Accepts(c) ==
  /\ InFlight(c) /\ ~behind
  /\ ~(walk[c].outcome = "complete" /\ walk[c].attempted < boundary)

(* A run's report is of a walk that ended; accepted, it frees the lease    *)
(* and sets the schedule, refused it ends the loop.                        *)
LEMMA ReportWrites ==
  ASSUME AuditInv, NEW c \in Controllers, Report(c)
  PROVE  /\ walk[c] \in Ended /\ walk[c] # Idle /\ walk[c] # Down
         /\ walk[c].outcome = "complete" => /\ walk[c].ask = 0 /\ walk[c].attempted <= newest
                                            /\ \A d \in oldest .. walk[c].attempted : d \in walk[c].seen
         /\ UNCHANGED <<list, behind, faults>>
         /\ ~Accepts(c) => /\ walk' = [walk EXCEPT ![c] = Down]
                           /\ UNCHANGED schedule
         /\ Accepts(c) =>
              /\ owner' = Nobody /\ lease' = 0 /\ walk' = [walk EXCEPT ![c] = Idle]
              /\ asked' = walk[c].ask /\ asked' \in Nat /\ wait' \in Nat /\ asked' <= wait'
              /\ streak' \in 0 .. Len(Retry)
              /\ streak' = 0 => wait' = Interval
              /\ streak' > 0 => wait' >= Retry[streak'] /\ streak' >= streak
              /\ boundary' = IF walk[c].outcome = "complete" THEN walk[c].attempted ELSE boundary
<1>1. WalkSound(walk[c], oldest, newest) /\ walk[c].pc = "ended" BY DEF AuditInv, Report
<1>2. walk[c] # Idle /\ walk[c] # Down /\ walk[c] \in Ended BY <1>1, WalkKinds
<1>3. walk[c] \notin Walking BY <1>1 DEF Walking
<1>4. walk[c].outcome = "complete" => /\ walk[c].ask = 0 /\ walk[c].attempted <= newest
                                      /\ \A d \in oldest .. walk[c].attempted : d \in walk[c].seen
  BY <1>1, <1>2, <1>3 DEF WalkSound
<1>5. walk[c].ask \in Nat /\ walk[c].outcome \in {"complete", "incomplete"} BY <1>2 DEF Ended
<1>6. ASSUME Accepts(c)
      PROVE  /\ owner' = Nobody /\ lease' = 0 /\ walk' = [walk EXCEPT ![c] = Idle]
             /\ asked' = walk[c].ask /\ asked' \in Nat /\ wait' \in Nat /\ asked' <= wait'
             /\ streak' \in 0 .. Len(Retry)
             /\ streak' = 0 => wait' = Interval
             /\ streak' > 0 => wait' >= Retry[streak'] /\ streak' >= streak
             /\ boundary' = IF walk[c].outcome = "complete" THEN walk[c].attempted ELSE boundary
  <2>1. PICK failures : failures = IF walk[c].outcome = "complete" THEN 0
                                   ELSE Smaller(streak + 1, Len(Retry))
    OBVIOUS
  <2>2. /\ owner' = Nobody /\ lease' = 0 /\ walk' = [walk EXCEPT ![c] = Idle]
        /\ asked' = walk[c].ask /\ streak' = failures
        /\ wait' = NextAudit(IF failures = 0 THEN Interval ELSE RetryAfter(failures), walk[c].ask)
        /\ boundary' = IF walk[c].outcome = "complete" THEN walk[c].attempted ELSE boundary
    BY <1>6, <2>1 DEF Report, Accepts, Release
  <2>3. streak \in 0 .. Len(Retry) BY DEF AuditInv
  <2>4. CASE walk[c].outcome = "complete"
    <3>1. failures = 0 /\ walk[c].ask = 0 BY <1>4, <2>1, <2>4
    <3>2. wait' = Interval BY <2>2, <3>1, AuditNumbers DEF NextAudit, Larger
    <3> QED BY <2>2, <3>1, <3>2, AuditNumbers
  <2>5. CASE walk[c].outcome # "complete"
    <3>1. failures \in 1 .. Len(Retry) /\ failures >= streak
      BY <2>1, <2>3, <2>5, AuditNumbers DEF Smaller
    <3>2. RetryAfter(failures) = Retry[failures] /\ Retry[failures] \in Nat
      BY <3>1, AuditNumbers DEF RetryAfter, Smaller
    <3>3. wait' = Larger(Retry[failures], walk[c].ask)
      BY <2>2, <3>1, <3>2 DEF NextAudit
    <3>4. wait' \in Nat /\ wait' >= Retry[failures] /\ wait' >= walk[c].ask
      BY <1>5, <3>2, <3>3 DEF Larger
    <3> QED BY <1>5, <2>2, <3>1, <3>4, AuditNumbers
  <2> QED BY <2>4, <2>5
<1>7. ASSUME ~Accepts(c)
      PROVE  walk' = [walk EXCEPT ![c] = Down] /\ UNCHANGED schedule
  BY <1>7 DEF Report, Accepts
<1>8. UNCHANGED <<list, behind, faults>> BY DEF Report
<1> QED BY <1>2, <1>4, <1>6, <1>7, <1>8

-----------------------------------------------------------------------------
(* The invariant.                                                          *)

(* Every step keeps it.                                                    *)
LEMMA AuditStep == AuditInv /\ [AuditNext]_auditVars => AuditInv'
<1> SUFFICES ASSUME AuditInv, [AuditNext]_auditVars PROVE AuditInv'
  OBVIOUS
<1>0. /\ owner \in Controllers \cup {Nobody, Gone} /\ lease \in 0 .. Lease
      /\ owner = Nobody => lease = 0
      /\ streak \in 0 .. Len(Retry) /\ boundary \in 0 .. newest
      /\ wait \in Nat /\ asked \in Nat /\ asked <= wait
      /\ oldest \in 1 .. newest + 1 /\ newest \in Nat /\ behind \in BOOLEAN
      /\ faults \in 0 .. MaxFaults
      /\ DOMAIN walk = Controllers /\ walk = [c \in Controllers |-> walk[c]]
      /\ Nobody \notin Controllers /\ Gone \notin Controllers /\ Nobody # Gone
  BY AuditAssumption DEF AuditInv
<1>w. \A c \in Controllers : WalkSound(walk[c], oldest, newest) BY DEF AuditInv
(* One controller's walk changes and the list does not.                    *)
<1>one. ASSUME NEW c \in Controllers, NEW w, WalkSound(w, oldest, newest),
               walk' = [walk EXCEPT ![c] = w], UNCHANGED list
        PROVE  /\ DOMAIN walk' = Controllers /\ walk' = [d \in Controllers |-> walk'[d]]
               /\ \A d \in Controllers : WalkSound(walk'[d], oldest', newest')
               /\ oldest' = oldest /\ newest' = newest
  BY <1>0, <1>w, <1>one DEF list
<1>rest. WalkSound(Idle, oldest, newest) /\ WalkSound(Down, oldest, newest) BY DEF WalkSound
<1>1. ASSUME NEW c \in Controllers, Claim(c) PROVE AuditInv'
  <2>1. CASE behind
    BY <1>0, <1>1, <1>one, <1>rest, <2>1 DEF Claim, schedule, AuditInv
  <2>2. CASE ~behind
    <3>1. PICK w : w = [pc |-> "walking", attempted |-> newest, next |-> newest, pages |-> 0,
                        seen |-> {}]
      OBVIOUS
    <3>2. w \in Walking /\ w.attempted = newest /\ w.next = newest
      BY <1>0, <3>1 DEF Walking
    <3>3. WalkSound(w, oldest, newest) BY <1>0, <3>2 DEF WalkSound
    <3>4. /\ walk' = [walk EXCEPT ![c] = w] /\ owner' = c /\ lease' = Lease
          /\ UNCHANGED <<wait, streak, boundary, asked>> /\ UNCHANGED list
          /\ behind' = behind /\ faults' = faults
      BY <1>1, <2>2, <3>1 DEF Claim
    <3>5. owner' \in Controllers \cup {Nobody, Gone} /\ owner' # Nobody /\ lease' \in 0 .. Lease
      BY <1>0, <3>4, AuditNumbers
    <3>6. /\ DOMAIN walk' = Controllers /\ walk' = [d \in Controllers |-> walk'[d]]
          /\ \A d \in Controllers : WalkSound(walk'[d], oldest', newest')
          /\ oldest' = oldest /\ newest' = newest
      BY <1>one, <3>3, <3>4
    <3> QED BY <1>0, <3>4, <3>5, <3>6 DEF AuditInv
  <2> QED BY <1>0, <2>1, <2>2
<1>2. ASSUME NEW c \in Controllers, Fetch(c) PROVE AuditInv'
  <2>1. PICK w : walk' = [walk EXCEPT ![c] = w] BY <1>2 DEF Fetch
  <2>2. WalkSound(w, oldest, newest) BY <1>0, <1>2, <2>1, FetchSound
  <2> QED BY <1>0, <1>2, <1>one, <2>1, <2>2 DEF Fetch, schedule, AuditInv
<1>3. ASSUME NEW c \in Controllers, FetchFails(c) PROVE AuditInv'
  <2>1. PICK ask \in Asks \cup {0} : walk' = [walk EXCEPT ![c] = Incomplete(ask)]
    BY <1>3 DEF FetchFails
  <2>2. WalkSound(Incomplete(ask), oldest, newest)
    BY AuditNumbers, IncompleteSound
  <2>3. faults' \in 0 .. MaxFaults
    <3>1. faults < MaxFaults /\ faults' = faults + 1 BY <1>3 DEF FetchFails, Fault
    <3>2. faults \in 0 .. MaxFaults BY <1>0
    <3>3. MaxFaults \in Nat BY AuditNumbers
    <3> QED BY <3>1, <3>2, <3>3
  <2> QED BY <1>0, <1>3, <1>one, <2>1, <2>2, <2>3 DEF FetchFails, schedule, AuditInv
<1>4. ASSUME NEW c \in Controllers, Report(c) PROVE AuditInv'
  <2>1. CASE ~Accepts(c)
    BY <1>0, <1>4, <1>one, <1>rest, <2>1, ReportWrites DEF schedule, AuditInv
  <2>2. CASE Accepts(c)
    <3>1. boundary' \in 0 .. newest
      BY <1>0, <1>4, <2>2, ReportWrites DEF Ended
    <3>2. /\ walk' = [walk EXCEPT ![c] = Idle] /\ UNCHANGED list /\ behind' = behind
          /\ faults' = faults /\ owner' = Nobody /\ lease' = 0 /\ streak' \in 0 .. Len(Retry)
          /\ wait' \in Nat /\ asked' \in Nat /\ asked' <= wait'
      BY <1>4, <2>2, ReportWrites
    <3>3. /\ DOMAIN walk' = Controllers /\ walk' = [d \in Controllers |-> walk'[d]]
          /\ \A d \in Controllers : WalkSound(walk'[d], oldest', newest')
          /\ oldest' = oldest /\ newest' = newest
      BY <1>one, <1>rest, <3>2
    <3>4. 0 \in 0 .. Lease BY AuditNumbers
    <3> QED BY <1>0, <3>1, <3>2, <3>3, <3>4 DEF AuditInv
  <2> QED BY <2>1, <2>2
<1>5. ASSUME NEW c \in Controllers, Crash(c) \/ Restart(c) PROVE AuditInv'
  <2>1. \E w \in {Idle, Down} : walk' = [walk EXCEPT ![c] = w]
    BY <1>5 DEF Crash, Restart
  <2>2. /\ owner' \in Controllers \cup {Nobody, Gone}
        /\ owner' = Nobody => owner = Nobody
    BY <1>0, <1>5 DEF Crash, Restart
  <2>3. faults' \in 0 .. MaxFaults
    BY <1>0, <1>5, AuditNumbers DEF Crash, Restart, Fault
  <2>4. UNCHANGED <<lease, wait, streak, boundary, asked, list, behind>>
    BY <1>5 DEF Crash, Restart
  <2> QED BY <1>0, <1>one, <1>rest, <2>1, <2>2, <2>3, <2>4 DEF AuditInv
<1>list. ASSUME oldest' \in 1 .. newest' + 1, newest' \in Nat, oldest <= oldest', newest <= newest',
                walk' = walk, UNCHANGED schedule, behind' = behind, faults' = faults
         PROVE  AuditInv'
  <2>1. \A c \in Controllers : WalkSound(walk'[c], oldest', newest')
    BY <1>0, <1>w, <1>list, WalkStays
  <2> QED BY <1>0, <1>list, <2>1 DEF schedule, AuditInv
<1>6. CASE Arrive \/ Expire
  BY <1>0, <1>6, <1>list DEF Arrive, Expire
<1>7. CASE Tick
  <2>1. lease' \in 0 .. Lease /\ wait' \in Nat /\ asked' \in Nat /\ asked' <= wait'
        /\ (lease = 0 => lease' = 0)
    <3>1. lease \in Nat /\ wait \in Nat /\ asked \in Nat /\ asked <= wait /\ lease <= Lease
      BY <1>0, AuditNumbers
    <3>2. lease' = Less(lease) /\ wait' = Less(wait) /\ asked' = Less(asked) BY <1>7 DEF Tick
    <3>3. Less(lease) \in Nat /\ Less(lease) <= lease BY <3>1 DEF Less
    <3>4. Less(wait) \in Nat /\ Less(asked) \in Nat /\ Less(asked) <= Less(wait)
      BY <3>1 DEF Less
    <3>5. lease = 0 => Less(lease) = 0 BY DEF Less
    <3> QED BY <3>1, <3>2, <3>3, <3>4, <3>5, AuditNumbers
  <2>2. faults' \in 0 .. MaxFaults BY <1>0, <1>7, AuditNumbers DEF Tick, Fault
  <2>3. walk' = [c \in Controllers |-> Aged(walk[c])] BY <1>7 DEF Tick
  <2>4. DOMAIN walk' = Controllers /\ walk' = [c \in Controllers |-> walk'[c]] BY <2>3
  <2>5. /\ oldest' = oldest /\ newest' = newest /\ behind' = behind /\ owner' = owner
        /\ streak' = streak /\ boundary' = boundary
    BY <1>7 DEF Tick, list
  <2>6. \A c \in Controllers : WalkSound(walk'[c], oldest', newest')
    BY <1>0, <1>w, <2>3, <2>5, AgedSound
  <2> QED BY <1>0, <2>1, <2>2, <2>4, <2>5, <2>6 DEF AuditInv
<1>8. CASE StepBack \/ CatchUp
  <2>1. faults' = faults \/ (faults < MaxFaults /\ faults' = faults + 1)
    BY <1>8 DEF StepBack, CatchUp, Fault
  <2>2. faults' \in 0 .. MaxFaults BY <1>0, <2>1, AuditNumbers
  <2>3. behind' = TRUE \/ behind' = FALSE BY <1>8 DEF StepBack, CatchUp
  <2> QED BY <1>0, <1>w, <1>8, <2>2, <2>3 DEF StepBack, CatchUp, schedule, list, AuditInv
<1>9. CASE UNCHANGED auditVars
  BY <1>0, <1>w, <1>9 DEF auditVars, schedule, list, AuditInv
<1> QED BY <1>1, <1>2, <1>3, <1>4, <1>5, <1>6, <1>7, <1>8, <1>9 DEF AuditNext

(* It holds from the beginning on.                                         *)
LEMMA AuditInvariant == AuditSpec => []AuditInv
<1>1. AuditInit => AuditInv
  <2> SUFFICES ASSUME AuditInit PROVE AuditInv OBVIOUS
  <2>1. /\ owner = Nobody /\ lease = 0 /\ wait = 0 /\ streak = 0 /\ boundary = 0 /\ asked = 0
        /\ walk = [c \in Controllers |-> Idle] /\ oldest = 1 /\ newest = 0
        /\ behind = FALSE /\ faults = 0
    BY DEF AuditInit
  <2>2. /\ 0 \in 0 .. Lease /\ 0 \in 0 .. Len(Retry) /\ 0 \in 0 .. MaxFaults
        /\ 0 \in 0 .. 0 /\ 1 \in 1 .. 0 + 1 /\ 0 \in Nat /\ 0 <= 0
    BY AuditNumbers
  <2>3. \A c \in Controllers : WalkSound(walk[c], oldest, newest)
    BY <2>1 DEF WalkSound
  <2>4. DOMAIN walk = Controllers /\ walk = [c \in Controllers |-> walk[c]] BY <2>1
  <2> HIDE DEF AuditInit
  <2> QED BY <2>1, <2>2, <2>3, <2>4 DEF AuditInv
<1> QED BY <1>1, AuditStep, PTL DEF AuditSpec

(* The audit row is of the kinds the schema gives it, always.              *)
THEOREM AuditTypeCorrect == AuditSpec => []AuditTypeOK
<1>1. AuditInv => AuditTypeOK
  BY WalkKinds DEF AuditInv, AuditTypeOK
<1> QED BY <1>1, AuditInvariant, PTL

(* Whatever comes and goes on the list while its pages are read, the       *)
(* boundary only moves forward, and the walk that moved it has read every  *)
(* delivery up to it that is still listed.                                 *)
THEOREM BoundaryStaysEvidenced == AuditSpec => BoundaryIsEvidenced
<1>1. ASSUME AuditInv, [AuditNext]_auditVars, boundary' # boundary
      PROVE  /\ boundary' > boundary
             /\ \E c \in Controllers : walk[c].pc = "ended" /\ oldest .. boundary' \subseteq walk[c].seen
  <2>1. PICK c \in Controllers : Report(c)
    BY <1>1 DEF AuditNext, auditVars, schedule, Claim, Fetch, FetchFails, Crash, Restart,
                Arrive, Expire, Tick, StepBack, CatchUp
  <2>2. Accepts(c) BY <1>1, <2>1, ReportWrites DEF schedule
  <2>3. walk[c].outcome = "complete" /\ boundary' = walk[c].attempted
    BY <1>1, <2>1, <2>2, ReportWrites
  <2>4. boundary \in Int /\ boundary' \in Int /\ ~(boundary' < boundary)
    BY <1>1, <2>1, <2>2, <2>3, ReportWrites DEF Accepts, Ended, AuditInv
  <2>5. \A d \in oldest .. boundary' : d \in walk[c].seen
    BY <1>1, <2>1, <2>3, ReportWrites
  <2>6. walk[c].pc = "ended" BY <2>1 DEF Report
  <2> QED BY <1>1, <2>4, <2>5, <2>6
<1> QED BY <1>1, AuditInvariant, PTL DEF AuditSpec, BoundaryIsEvidenced

(* However many overtaken runs report in between, only its own controller  *)
(* ends a run before its lease runs out, GitHub's wish to be left alone is *)
(* respected, and the retries get longer until a complete audit.           *)
THEOREM ScheduleStaysRespected == AuditSpec => ScheduleRespected
<1>1. ASSUME AuditInv, [AuditNext]_auditVars
      PROVE  /\ \A c \in Controllers :
                  /\ owner = c /\ lease > 0 /\ owner' # c => walk'[c] # walk[c] \/ walk[c] = Down
                  /\ walk[c].pc = "idle" /\ walk'[c].pc = "walking" => asked = 0
             /\ owner # Nobody /\ owner' = Nobody =>
                  /\ streak' = 0 => wait' = Interval
                  /\ streak' > 0 => wait' >= Retry[streak'] /\ streak' >= streak
  <2>0. /\ Nobody \notin Controllers /\ Gone \notin Controllers /\ Nobody # Gone
        /\ DOMAIN walk = Controllers /\ walk = [c \in Controllers |-> walk[c]]
        /\ wait \in Nat /\ asked \in Nat /\ asked <= wait /\ lease \in Nat
        /\ \A c \in Controllers : WalkSound(walk[c], oldest, newest)
    <3>1. Nobody \notin Controllers /\ Gone \notin Controllers /\ Nobody # Gone
      BY AuditAssumption
    <3>2. /\ DOMAIN walk = Controllers /\ walk = [c \in Controllers |-> walk[c]]
          /\ wait \in Nat /\ asked \in Nat /\ asked <= wait
          /\ \A c \in Controllers : WalkSound(walk[c], oldest, newest)
      BY <1>1 DEF AuditInv
    <3>3. lease \in Nat
      <4>1. lease \in 0 .. Lease BY <1>1 DEF AuditInv
      <4> QED BY <4>1, AuditNumbers
    <3> QED BY <3>1, <3>2, <3>3
  <2>d. Idle.pc = "idle" /\ Down.pc = "down" BY DEF Idle, Down
  <2>1. ASSUME NEW c \in Controllers, owner = c, lease > 0, owner' # c
        PROVE  walk'[c] # walk[c] \/ walk[c] = Down
    <3>1. ASSUME NEW d \in Controllers, Claim(d) PROVE FALSE
      BY <2>0, <2>1, <3>1 DEF Claim, Free, schedule
    <3>2. ASSUME NEW d \in Controllers, Report(d) PROVE walk'[c] # walk[c]
      <4>1. Accepts(d) BY <1>1, <2>1, <3>2, ReportWrites DEF schedule
      <4>2. d = c BY <2>1, <4>1 DEF Accepts, InFlight
      <4>3. walk'[c] = Idle BY <1>1, <2>0, <3>2, <4>1, <4>2, ReportWrites
      <4> QED BY <1>1, <3>2, <4>2, <4>3, ReportWrites
    <3>3. ASSUME NEW d \in Controllers, Crash(d) PROVE walk'[c] # walk[c]
      <4>1. d = c BY <2>1, <3>3 DEF Crash
      <4>2. walk'[c] = Down /\ walk[c].pc # "down" BY <2>0, <3>3, <4>1 DEF Crash
      <4> QED BY <2>d, <4>2
    <3>4. ASSUME NEW d \in Controllers, Restart(d) PROVE walk[c] = Down
      BY <2>1, <3>4 DEF Restart
    <3> QED BY <1>1, <2>1, <3>1, <3>2, <3>3, <3>4
            DEF AuditNext, auditVars, schedule, Fetch, FetchFails, Arrive, Expire, Tick, StepBack, CatchUp
  <2>2. ASSUME NEW c \in Controllers, walk[c].pc = "idle", walk'[c].pc = "walking" PROVE asked = 0
    <3>1. walk'[c] # walk[c] BY <2>2
    <3>2. ASSUME NEW d \in Controllers, Claim(d) PROVE asked = 0
      <4>1. CASE behind
        <5>1. walk' = [walk EXCEPT ![d] = Down] BY <3>2, <4>1 DEF Claim
        <5> QED BY <2>0, <2>2, <2>d, <3>1, <5>1
      <4>2. CASE ~behind BY <2>0, <3>2, <4>2 DEF Claim
      <4> QED BY <4>1, <4>2
    <3>3. ASSUME NEW d \in Controllers, Fetch(d) \/ FetchFails(d) PROVE FALSE
      <4>1. walk[d].pc = "walking" /\ \A b \in Controllers : b # d => walk'[b] = walk[b]
        BY <2>0, <3>3 DEF Fetch, FetchFails
      <4> QED BY <2>2, <3>1, <4>1
    <3>4. ASSUME NEW d \in Controllers, Report(d) \/ Crash(d) \/ Restart(d) PROVE FALSE
      <4>1. \E w \in {Idle, Down} : walk' = [walk EXCEPT ![d] = w]
        BY <1>1, <3>4, ReportWrites DEF Crash, Restart
      <4> QED BY <2>0, <2>2, <2>d, <3>1, <4>1
    <3>5. ~Tick
      <4>1. Aged(walk[c]).pc = "idle" BY <2>0, <2>2, AgedSound
      <4> QED BY <2>2, <4>1 DEF Tick
    <3> QED BY <1>1, <3>1, <3>2, <3>3, <3>4, <3>5
            DEF AuditNext, auditVars, Arrive, Expire, StepBack, CatchUp
  <2>3. ASSUME owner # Nobody, owner' = Nobody
        PROVE  /\ streak' = 0 => wait' = Interval
               /\ streak' > 0 => wait' >= Retry[streak'] /\ streak' >= streak
    <3>1. PICK c \in Controllers : Report(c)
      BY <1>1, <2>0, <2>3 DEF AuditNext, auditVars, schedule, Claim, Fetch, FetchFails, Crash, Restart,
                              Arrive, Expire, Tick, StepBack, CatchUp
    <3>2. Accepts(c) BY <1>1, <2>3, <3>1, ReportWrites DEF schedule
    <3> QED BY <1>1, <3>1, <3>2, ReportWrites
  <2> QED BY <2>1, <2>2, <2>3
<1> QED BY <1>1, AuditInvariant, PTL DEF AuditSpec, ScheduleRespected

-----------------------------------------------------------------------------
(***************************************************************************)
(* The coverage of the watched repositories.                               *)
(***************************************************************************)

-----------------------------------------------------------------------------
(* Reading a history.                                                      *)

(* A set of numbers up to some bound has a largest one.                    *)
LEMMA Newest ==
  ASSUME NEW n \in Nat, NEW S \in SUBSET (1 .. n), S # {}
  PROVE  \E k \in S : \A m \in S : m <= k
<1> DEFINE T == {n - k : k \in S}
<1>1. T \subseteq Nat /\ T # {}
  <2>1. \A k \in S : n - k \in Nat OBVIOUS
  <2> QED BY <2>1
<1> HIDE DEF T
<1>2. \E x \in T : \A y \in T : ~ (<<y, x>> \in OpToRel(<, Nat))
  BY <1>1, NatLessThanWellFounded, WFMin
<1>3. PICK x \in T : \A y \in T : ~ (y < x) BY <1>1, <1>2 DEF OpToRel
<1>4. PICK k \in S : x = n - k BY DEF T
<1>5. ASSUME NEW m \in S PROVE m <= k
  <2>1. n - m \in T BY DEF T
  <2> QED BY <1>3, <1>4, <2>1
<1> QED BY <1>5

LEMMA LastOfIs ==
  ASSUME NEW n \in Nat, NEW S \in SUBSET (1 .. n)
  PROVE  /\ LastOf(S) \in 0 .. n
         /\ S = {} <=> LastOf(S) = 0
         /\ S # {} => LastOf(S) \in S
         /\ \A m \in S : m <= LastOf(S)
<1>1. CASE S = {} BY <1>1 DEF LastOf
<1>2. CASE S # {}
  <2>1. \E k \in S : \A m \in S : m <= k BY <1>2, Newest
  <2>2. LastOf(S) \in S /\ \A m \in S : m <= LastOf(S) BY <1>2, <2>1 DEF LastOf
  <2>3. LastOf(S) \in 1 .. n BY <2>2
  <2> QED BY <1>2, <2>2, <2>3
<1> QED BY <1>1, <1>2

(* The largest number that there is.                                       *)
LEMMA LastOfLargest ==
  ASSUME NEW n \in Nat, NEW S \in SUBSET (1 .. n), NEW k \in S, \A m \in S : m <= k
  PROVE  LastOf(S) = k
<1>1. LastOf(S) \in S /\ LastOf(S) <= k /\ k <= LastOf(S) BY LastOfIs
<1>2. LastOf(S) \in Nat /\ k \in Nat BY <1>1, LastOfIs
<1> QED BY <1>1, <1>2

(* The history is a sequence that begins with the transaction of           *)
(* initialize; what its entries are made of, the invariant says.           *)
IsHistory == (\E S : log \in Seq(S)) /\ Now \in Nat /\ Now >= 1

(* A step that appends the transaction of e at now.                        *)
Extends(e, now) ==
  /\ Now' = Now + 1 /\ IsHistory'
  /\ \A k \in 1 .. Now : log'[k] = log[k]
  /\ \A f \in DOMAIN e \ {"key", "time"} : log'[Now + 1][f] = e[f]
  /\ log'[Now + 1].key = KeyOf(e) /\ log'[Now + 1].time = now

LEMMA AppendsExtends ==
  ASSUME IsHistory, NEW e, NEW now, Appends(e, now) PROVE Extends(e, now)
<1>1. PICK S : log \in Seq(S) BY DEF IsHistory
<1> DEFINE s == Stamped(e, now)
<1>2. /\ \A f \in DOMAIN e \ {"key", "time"} : s[f] = e[f]
      /\ s.key = KeyOf(e) /\ s.time = now
  BY DEF Stamped
<1> HIDE DEF s
<1>3. log \in Seq(S \cup {s}) BY <1>1, SeqMonotonic
<1>4. log' = Append(log, s) BY DEF Appends, s
<1>5. /\ log' \in Seq(S \cup {s}) /\ Len(log') = Len(log) + 1
      /\ \A k \in 1 .. Len(log) : log'[k] = log[k]
      /\ log'[Len(log) + 1] = s
  BY <1>3, <1>4, AppendProperties
<1>6. Len(log) \in Nat BY <1>1
<1>7. Now' = Now + 1 /\ IsHistory' BY <1>5, <1>6 DEF IsHistory, Now
<1> QED BY <1>2, <1>5, <1>7 DEF Extends, Now

-----------------------------------------------------------------------------
(* What is read of a history does not depend on what comes after it.       *)

OpenGaps(n, r) == {g \in 1 .. n : log[g].command = "gap" /\ log[g].repo = r /\ ~Repaired(n, g)}

LEMMA OpenGapIs == \A n, r : OpenGap(n, r) = LastOf(OpenGaps(n, r))
BY DEF OpenGap, OpenGaps, LastOf

Keeps == Now <= Now' /\ \A k \in 1 .. Now : log'[k] = log[k]

LEMMA SameReading ==
  ASSUME IsHistory, IsHistory', Keeps, NEW n \in 0 .. Now
  PROVE  /\ \A c : Of(n, c)' = Of(n, c)
         /\ \A r : Enrollment(n, r)' = Enrollment(n, r)
         /\ \A r : EverEnrolled(n, r)' = EverEnrolled(n, r)
         /\ \A g : Receipt(n, g)' = Receipt(n, g)
         /\ \A d : AuditOf(n, d)' = AuditOf(n, d)
         /\ \A r : Checkpoint(n, r)' = Checkpoint(n, r)
         /\ \A g : Repaired(n, g)' = Repaired(n, g)
         /\ \A r : OpenGap(n, r)' = OpenGap(n, r)
         /\ \A c, u : RunOf(n, c, u)' = RunOf(n, c, u)
         /\ \A g \in 1 .. Now : \A audits : Evidence(n, g, audits)' = Evidence(n, g, audits)
<1>1. \A k \in 1 .. n : log'[k] = log[k] BY DEF Keeps, IsHistory
<1>2. ASSUME NEW c PROVE Of(n, c)' = Of(n, c) BY <1>1 DEF Of
<1>4. ASSUME NEW r PROVE Enrollment(n, r)' = Enrollment(n, r)
  <2>1. Activation(n)' = Activation(n) BY <1>2 DEF Activation
  <2>2. /\ {k \in Of(n, "enroll") : log[k].repo = r}' = {k \in Of(n, "enroll") : log[k].repo = r}
        /\ {k \in Of(n, "reconcile") : log[k].repo = r}'
             = {k \in Of(n, "reconcile") : log[k].repo = r}
    BY <1>1, <1>2 DEF Of
  <2> DEFINE E == {k \in Of(n, "enroll") : log[k].repo = r}
             A == {k \in Of(n, "reconcile") : log[k].repo = r}
  <2>4. E' = E /\ A' = A BY <2>2
  <2>5. Enrollment(n, r) = IF LastOf(E) > Activation(n) /\ LastOf(E) > LastOf(A)
                             THEN LastOf(E) ELSE 0
    BY DEF Enrollment
  <2>6. Enrollment(n, r)' = IF LastOf(E') > Activation(n)' /\ LastOf(E') > LastOf(A')
                              THEN LastOf(E') ELSE 0
    BY DEF Enrollment
  <2> QED BY <2>1, <2>4, <2>5, <2>6
<1>5. ASSUME NEW r PROVE EverEnrolled(n, r)' = EverEnrolled(n, r)
  BY <1>1, <1>2 DEF EverEnrolled, Of
<1>6. ASSUME NEW g PROVE Receipt(n, g)' = Receipt(n, g)
  <2>1. {k \in Of(n, "delivery") : log[k].guid = g}' = {k \in Of(n, "delivery") : log[k].guid = g}
    BY <1>1, <1>2 DEF Of
  <2> QED BY <2>1 DEF Receipt
<1>7. ASSUME NEW d PROVE AuditOf(n, d)' = AuditOf(n, d)
  <2>1. {k \in Of(n, "audit") : log[k].delivery = d}' = {k \in Of(n, "audit") : log[k].delivery = d}
    BY <1>1, <1>2 DEF Of
  <2> QED BY <2>1 DEF AuditOf
<1>8. ASSUME NEW r PROVE Checkpoint(n, r)' = Checkpoint(n, r)
  <2>1. {k \in 1 .. n : IsCheckpoint(log[k]) /\ log[k].repo = r}'
          = {k \in 1 .. n : IsCheckpoint(log[k]) /\ log[k].repo = r}
    BY <1>1 DEF IsCheckpoint
  <2> QED BY <2>1 DEF Checkpoint
<1>9. ASSUME NEW g PROVE Repaired(n, g)' = Repaired(n, g) BY <1>1 DEF Repaired
<1>10. ASSUME NEW r PROVE OpenGap(n, r)' = OpenGap(n, r)
  <2>1. {g \in 1 .. n : log[g].command = "gap" /\ log[g].repo = r /\ ~Repaired(n, g)}'
          = {g \in 1 .. n : log[g].command = "gap" /\ log[g].repo = r /\ ~Repaired(n, g)}
    BY <1>1, <1>9
  <2> DEFINE G == {g \in 1 .. n : log[g].command = "gap" /\ log[g].repo = r /\ ~Repaired(n, g)}
  <2>2. G' = G BY <2>1
  <2>3. OpenGap(n, r) = LastOf(G) BY DEF OpenGap, LastOf
  <2>4. OpenGap(n, r)' = LastOf(G') BY DEF OpenGap, LastOf
  <2> QED BY <2>2, <2>3, <2>4
<1>11. ASSUME NEW c, NEW u PROVE RunOf(n, c, u)' = RunOf(n, c, u)
  <2>1. {k \in Of(n, c) : log[k].run = u}' = {k \in Of(n, c) : log[k].run = u}
    BY <1>1, <1>2 DEF Of
  <2> QED BY <2>1 DEF RunOf
<1>12. ASSUME NEW g \in 1 .. Now, NEW audits
       PROVE  Evidence(n, g, audits)' = Evidence(n, g, audits)
  <2>1. log'[g] = log[g] BY DEF Keeps
  <2>2. \A a \in g + 1 .. n : log'[a] = log[a] BY <1>1 DEF IsHistory
  <2>3. CASE \A a \in audits : a \in g + 1 .. n
    <3>1. {log'[a].guid : a \in audits} = {log[a].guid : a \in audits} BY <2>2, <2>3
    <3> QED BY <2>1, <2>2, <2>3, <3>1 DEF Evidence
  <2>4. CASE ~\A a \in audits : a \in g + 1 .. n BY <2>4 DEF Evidence
  <2> QED BY <2>3, <2>4
<1> QED BY <1>2, <1>4, <1>5, <1>6, <1>7, <1>8, <1>9, <1>10, <1>11, <1>12

-----------------------------------------------------------------------------
(* The invariant.                                                          *)

Kinds == {"initialize", "activate", "enroll", "reconcile", "delivery", "audit",
          "checkpoint", "gap", "repair"}
OwnKey == {"delivery", "audit", "checkpoint", "gap", "repair"}

AsListed(e) ==
  \E a \in Audits :
    /\ a.listed.delivery = e.delivery /\ a.listed.guid = e.guid
    /\ a.listed.repo = e.repo /\ a.listed.source = e.source
    /\ a.listed.action = e.pr.action

(* Every transaction verifies, and refers to earlier ones.                 *)
EntrySound(n) ==
  LET e == log[n]
  IN /\ e.command \in Kinds /\ e.time \in Nat /\ Verified(n)
     /\ IsCheckpoint(e) => e.previous \in 0 .. n - 1 /\ e.from \in Nat /\ e.through \in Nat
     /\ e.command = "gap" => e.checkpoint \in 1 .. n - 1 /\ e.lower \in Nat
     /\ e.command = "repair" => e.gap \in 1 .. n - 1
     /\ e.command \notin OwnKey => e.key = n - 1
     /\ e.command = "audit" => AsListed(e)

InTime == \A n \in 1 .. Now : n > 1 => log[n - 1].time <= log[n].time
KeysDiffer ==
  \A k \in 1 .. Now : \A m \in 1 .. k - 1 :
    log[m].command = log[k].command => log[m].key # log[k].key

IsOpen(n, g) == log[g].command = "gap" /\ ~Repaired(n, g)

(* A gap that is not repaired yet is its repository's only one, and begins *)
(* where the coverage of the repository ends.                              *)
GapsEndCoverage ==
  \A g \in 1 .. Now : IsOpen(Now, g) =>
    /\ log[g].checkpoint = Checkpoint(Now, log[g].repo)
    /\ \A h \in 1 .. Now : IsOpen(Now, h) /\ log[h].repo = log[g].repo => h = g

HistoryInv ==
  /\ IsHistory /\ (\A n \in 1 .. Now : EntrySound(n)) /\ InTime /\ KeysDiffer
  /\ GapsEndCoverage /\ CoverageUnbroken /\ NoCoverageOverGap

CoverageInv == HistoryInv /\ AcceptedIsRecorded

(* Nothing that comes after it makes a transaction unsound.                *)
LEMMA EntryStays ==
  ASSUME IsHistory, IsHistory', Keeps, NEW n \in 1 .. Now, EntrySound(n)
  PROVE  EntrySound(n)'
<1> DEFINE e == log[n]
<1>0. n \in Nat /\ n - 1 \in 0 .. Now /\ n - 1 < n BY DEF IsHistory
<1>1. log'[n] = e /\ \A k \in 1 .. n : log'[k] = log[k] BY DEF Keeps, IsHistory
<1>2. /\ \A r : EverEnrolled(n - 1, r)' = EverEnrolled(n - 1, r)
      /\ \A g : Receipt(n - 1, g)' = Receipt(n - 1, g)
      /\ \A g : Repaired(n - 1, g)' = Repaired(n - 1, g)
      /\ \A r : OpenGap(n - 1, r)' = OpenGap(n - 1, r)
      /\ \A g \in 1 .. Now : \A audits : Evidence(n - 1, g, audits)' = Evidence(n - 1, g, audits)
  BY <1>0, SameReading
<1>3. /\ e.command \in Kinds /\ e.time \in Nat /\ Verified(n)
      /\ IsCheckpoint(e) => e.previous \in 0 .. n - 1 /\ e.from \in Nat /\ e.through \in Nat
      /\ e.command = "gap" => e.checkpoint \in 1 .. n - 1 /\ e.lower \in Nat
      /\ e.command = "repair" => e.gap \in 1 .. n - 1
      /\ e.command \notin OwnKey => e.key = n - 1
      /\ e.command = "audit" => AsListed(e)
  BY DEF EntrySound
<1> HIDE DEF e
<1>4. Verified(n)'
  <2>1. CASE e.command = "delivery"
    <3>1. DeliveryVerified(n, e) BY <1>3, <2>1 DEF Verified, e
    <3>2. DeliveryVerified(n, e)' BY <1>2, <3>1, <1>1 DEF DeliveryVerified, e
    <3> QED BY <1>1, <2>1, <3>2 DEF Verified, e
  <2>2. CASE e.command = "audit"
    <3>1. AuditVerified(n, e) BY <1>3, <2>2 DEF Verified, e
    <3>2. AuditVerified(n, e)' BY <1>2, <3>1, <1>1 DEF AuditVerified, e
    <3> QED BY <1>1, <2>2, <3>2 DEF Verified, e
  <2>3. ASSUME CheckpointVerified(n, e), IsCheckpoint(e) PROVE CheckpointVerified(n, e)'
    <3>1. CASE e.previous = 0 BY <1>1, <1>2, <2>3, <3>1 DEF CheckpointVerified, e
    <3>2. CASE e.previous # 0
      <4>1. log'[e.previous] = log[e.previous] BY <1>0, <1>1, <1>3, <2>3, <3>2
      <4> QED BY <1>1, <1>2, <2>3, <3>2, <4>1 DEF CheckpointVerified, e, IsCheckpoint
    <3> QED BY <3>1, <3>2
  <2>4. CASE e.command = "checkpoint"
    <3>1. CheckpointVerified(n, e) BY <1>3, <2>4 DEF Verified, e
    <3>2. CheckpointVerified(n, e)' BY <2>3, <2>4, <3>1 DEF IsCheckpoint
    <3> QED BY <1>1, <2>4, <3>2 DEF Verified, e
  <2>5. CASE e.command = "gap"
    <3>1. GapVerified(n, e) BY <1>3, <2>5 DEF Verified, e
    <3>2. log'[e.checkpoint] = log[e.checkpoint] BY <1>0, <1>1, <1>3, <2>5
    <3>3. GapVerified(n, e)' BY <1>1, <1>2, <3>1, <3>2 DEF GapVerified, IsCheckpoint, e
    <3> QED BY <1>1, <2>5, <3>3 DEF Verified, e
  <2>6. CASE e.command = "repair"
    <3>1. RepairVerified(n, e) BY <1>3, <2>6 DEF Verified, e
    <3>2. CheckpointVerified(n, e)' BY <2>3, <2>6, <3>1 DEF RepairVerified, IsCheckpoint
    <3>3. e.gap \in 1 .. Now /\ log'[e.gap] = log[e.gap]
      BY <1>0, <1>1, <1>3, <2>6 DEF IsHistory
    <3>4. Fact(e.gap, "gap")'
      <4>1. log[e.gap].command = "gap" BY <3>1 DEF RepairVerified, Fact
      <4>2. e.gap \in DOMAIN log' BY <3>3 DEF Keeps, IsHistory, Now
      <4> QED BY <3>3, <4>1, <4>2, <1>1 DEF Fact, e
    <3>5. Evidence(n - 1, e.gap, e.audits)' = Evidence(n - 1, e.gap, e.audits)
      BY <1>1, <1>2, <3>3 DEF e
    <3>6. RepairVerified(n, e)'
      BY <1>1, <1>2, <3>1, <3>2, <3>3, <3>4, <3>5 DEF RepairVerified, e
    <3> QED BY <1>1, <2>6, <3>6 DEF Verified, e
  <2>7. CASE e.command \notin OwnKey BY <1>1, <2>7 DEF Verified, OwnKey, e
  <2> QED BY <2>1, <2>2, <2>4, <2>5, <2>6, <2>7 DEF OwnKey
<1> QED BY <1>1, <1>3, <1>4 DEF EntrySound, IsCheckpoint, AsListed, e

-----------------------------------------------------------------------------
(* Appending one transaction.                                              *)

(* What a handler has made sure of when its transaction is appended.       *)
Joins(now) ==
  LET f == log'[Now + 1]
  IN /\ EntrySound(Now)' /\ f.time = now /\ now >= Watermark
     /\ \A m \in 1 .. Now : log[m].command = f.command => log[m].key # f.key
     /\ IsCheckpoint(f) =>
          LET before == Checkpoint(Now, f.repo)
          IN /\ IF before = 0 THEN f.from = f.through
                ELSE f.from = log[before].through /\ f.source = log[before].source
             /\ \A g \in 1 .. Now : IsOpen(Now, g) /\ log[g].repo = f.repo =>
                  f.command = "repair" /\ f.gap = g /\ f.from = log[g].lower
     /\ f.command = "gap" =>
          /\ f.checkpoint = Checkpoint(Now, f.repo)
          /\ \A g \in 1 .. Now : IsOpen(Now, g) => log[g].repo # f.repo

(* The newest checkpoint and the repaired gaps after it.                   *)
LEMMA ReadingNew ==
  ASSUME IsHistory, IsHistory', Keeps, Now' = Now + 1
  PROVE  /\ \A r : Checkpoint(Now, r)' = 
                     IF IsCheckpoint(log'[Now + 1]) /\ log'[Now + 1].repo = r
                       THEN Now + 1 ELSE Checkpoint(Now, r)
         /\ \A g : Repaired(Now, g)' <=> \/ Repaired(Now, g)
                                         \/ log'[Now + 1].command = "repair" /\ log'[Now + 1].gap = g
<1>0. Now \in Nat /\ Now + 1 \in Nat /\ (1 .. Now + 1) = (1 .. Now) \cup {Now + 1} BY DEF IsHistory
<1>1. \A k \in 1 .. Now : log'[k] = log[k] BY DEF Keeps
<1>2. ASSUME NEW r
      PROVE  Checkpoint(Now, r)' = IF IsCheckpoint(log'[Now + 1]) /\ log'[Now + 1].repo = r
                                     THEN Now + 1 ELSE Checkpoint(Now, r)
  <2> DEFINE S == {k \in 1 .. Now : IsCheckpoint(log[k]) /\ log[k].repo = r}
             T == {k \in 1 .. Now' : IsCheckpoint(log'[k]) /\ log'[k].repo = r}
  <2>1. Checkpoint(Now, r) = LastOf(S) /\ Checkpoint(Now, r)' = LastOf(T)
    BY DEF Checkpoint, LastOf, IsCheckpoint
  <2>2. CASE IsCheckpoint(log'[Now + 1]) /\ log'[Now + 1].repo = r
    <3>1. T \in SUBSET (1 .. Now + 1) /\ Now + 1 \in T BY <1>0, <2>2
    <3>2. \A m \in T : m <= Now + 1 BY <1>0
    <3> HIDE DEF T
    <3>3. LastOf(T) = Now + 1 BY <1>0, <3>1, <3>2, LastOfLargest
    <3> QED BY <2>1, <2>2, <3>3
  <2>3. CASE ~(IsCheckpoint(log'[Now + 1]) /\ log'[Now + 1].repo = r)
    <3>1. T = S BY <1>0, <1>1, <2>3
    <3> QED BY <2>1, <2>3, <3>1
  <2> QED BY <2>2, <2>3
<1>3. ASSUME NEW g
      PROVE  Repaired(Now, g)' <=> \/ Repaired(Now, g)
                                   \/ log'[Now + 1].command = "repair" /\ log'[Now + 1].gap = g
  BY <1>0, <1>1 DEF Repaired
<1> QED BY <1>2, <1>3

LEMMA JoinsKeeps ==
  ASSUME HistoryInv, NEW e, NEW now, Extends(e, now), Joins(now)
  PROVE  HistoryInv'
<1>N. PICK N : N = Now + 1 OBVIOUS
<1>f. PICK f : f = log'[N] OBVIOUS
<1>0. /\ Now \in Nat /\ N \in Nat /\ Now' = N /\ (1 .. N) = (1 .. Now) \cup {N}
      /\ IsHistory /\ IsHistory' /\ Keeps /\ \A k \in 1 .. Now : log'[k] = log[k]
  BY <1>N DEF HistoryInv, IsHistory, Extends, Keeps
<1>1. /\ EntrySound(Now)' /\ f.time = now /\ now >= Watermark
      /\ \A m \in 1 .. Now : log[m].command = f.command => log[m].key # f.key
      /\ IsCheckpoint(f) =>
           /\ IF Checkpoint(Now, f.repo) = 0 THEN f.from = f.through
              ELSE /\ f.from = log[Checkpoint(Now, f.repo)].through
                   /\ f.source = log[Checkpoint(Now, f.repo)].source
           /\ \A g \in 1 .. Now : IsOpen(Now, g) /\ log[g].repo = f.repo =>
                f.command = "repair" /\ f.gap = g /\ f.from = log[g].lower
      /\ f.command = "gap" =>
           /\ f.checkpoint = Checkpoint(Now, f.repo)
           /\ \A g \in 1 .. Now : IsOpen(Now, g) => log[g].repo # f.repo
  BY <1>N, <1>f DEF Joins
<1>2. /\ \A r : Checkpoint(Now, r)' = IF IsCheckpoint(f) /\ f.repo = r THEN N ELSE Checkpoint(Now, r)
      /\ \A g : Repaired(Now, g)' <=> Repaired(Now, g) \/ (f.command = "repair" /\ f.gap = g)
  BY <1>0, <1>N, <1>f, ReadingNew
<1>3. /\ \A n \in 0 .. Now : \A r : Checkpoint(n, r)' = Checkpoint(n, r)
      /\ \A n \in 0 .. Now : \A g : Repaired(n, g)' = Repaired(n, g)
  BY <1>0, SameReading
<1>4. N - 1 = Now /\ N # 1 BY <1>N, <1>0 DEF IsHistory
<1>5. \A n \in 1 .. Now' : EntrySound(n)'
  <2>1. \A n \in 1 .. Now : EntrySound(n)' BY <1>0, EntryStays DEF HistoryInv
  <2>2. EntrySound(N)' BY <1>0, <1>1
  <2> QED BY <1>0, <2>1, <2>2
<1>6. InTime'
  <2>1. \A n \in 1 .. Now : n > 1 => log'[n - 1].time <= log'[n].time
    BY <1>0 DEF HistoryInv, InTime
  <2>2. log'[N - 1].time <= log'[N].time BY <1>0, <1>1, <1>4, <1>f DEF Watermark, IsHistory
  <2> QED BY <1>0, <2>1, <2>2 DEF InTime
<1>7. KeysDiffer'
  <2>1. ASSUME NEW k \in 1 .. Now, NEW m \in 1 .. k - 1, log'[m].command = log'[k].command
        PROVE  log'[m].key # log'[k].key
    <3>1. m \in 1 .. Now BY <1>0
    <3> QED BY <1>0, <2>1, <3>1 DEF HistoryInv, KeysDiffer
  <2>2. ASSUME NEW m \in 1 .. N - 1, log'[m].command = log'[N].command
        PROVE  log'[m].key # log'[N].key
    BY <1>0, <1>1, <1>4, <1>f, <2>2
  <2> QED BY <1>0, <2>1, <2>2 DEF KeysDiffer
<1>8. \A g \in 1 .. Now : IsOpen(Now, g)' <=> IsOpen(Now, g) /\ ~(f.command = "repair" /\ f.gap = g)
  BY <1>0, <1>2 DEF IsOpen
<1>9. GapsEndCoverage'
  <2>1. ASSUME NEW g \in 1 .. Now, IsOpen(Now, g)'
        PROVE  (/\ log[g].checkpoint = Checkpoint(Now, log[g].repo)
                /\ \A h \in 1 .. N : IsOpen(Now, h) /\ log[h].repo = log[g].repo => h = g)'
    <3>r. PICK r : r = log[g].repo OBVIOUS
    <3>1. IsOpen(Now, g) /\ ~(f.command = "repair" /\ f.gap = g) BY <1>8, <2>1
    <3>2. ~(IsCheckpoint(f) /\ log[g].repo = f.repo) BY <1>1, <3>1
    <3>3. log'[g] = log[g] /\ Checkpoint(Now, r)' = Checkpoint(Now, r)
      BY <1>0, <1>2, <3>r, <3>2
    <3>4. log[g].checkpoint = Checkpoint(Now, log[g].repo)
      BY <3>1 DEF HistoryInv, GapsEndCoverage
    <3>5. \A h \in 1 .. Now : IsOpen(Now, h)' /\ log'[h].repo = log'[g].repo => h = g
      BY <1>0, <1>8, <3>1 DEF HistoryInv, GapsEndCoverage
    <3>6. IsOpen(Now, N)' => log'[N].repo # log'[g].repo
      BY <1>0, <1>1, <1>f, <3>1, <3>3 DEF IsOpen
    <3> QED BY <1>0, <3>r, <3>3, <3>4, <3>5, <3>6
  <2>2. ASSUME IsOpen(Now, N)'
        PROVE  (/\ log[N].checkpoint = Checkpoint(Now, log[N].repo)
                /\ \A h \in 1 .. N : IsOpen(Now, h) /\ log[h].repo = log[N].repo => h = N)'
    <3>1. f.command = "gap" BY <1>f, <2>2 DEF IsOpen
    <3>2. f.checkpoint = Checkpoint(Now, f.repo)' BY <1>1, <1>2, <3>1 DEF IsCheckpoint
    <3>3. \A h \in 1 .. Now : IsOpen(Now, h)' => log'[h].repo # f.repo BY <1>0, <1>1, <1>8, <3>1
    <3> QED BY <1>0, <1>f, <3>2, <3>3
  <2>3. \A g \in 1 .. N : IsOpen(Now, g)' =>
          (/\ log[g].checkpoint = Checkpoint(Now, log[g].repo)
           /\ \A h \in 1 .. N : IsOpen(Now, h) /\ log[h].repo = log[g].repo => h = g)'
    BY <1>0, <2>1, <2>2
  <2> QED BY <1>0, <2>3 DEF GapsEndCoverage
<1>10. CoverageUnbroken'
  <2> DEFINE Before(c) == Checkpoint(c - 1, log[c].repo)
             Chained(c) == IF Before(c) = 0 THEN log[c].from = log[c].through
                           ELSE /\ log[c].from = log[Before(c)].through
                                /\ log[c].source = log[Before(c)].source
  <2>1. ASSUME NEW c \in 1 .. Now, IsCheckpoint(log'[c]) PROVE Chained(c)'
    <3>r. PICK r : r = log[c].repo OBVIOUS
    <3>1. c - 1 \in 0 .. Now /\ log'[c] = log[c] BY <1>0
    <3>2. Checkpoint(c - 1, r)' = Checkpoint(c - 1, r) BY <1>3, <3>1
    <3>3. Checkpoint(c - 1, log[c].repo) \in 0 .. c - 1
      BY <1>0, LastOfIs DEF Checkpoint
    <3>4. Checkpoint(c - 1, log[c].repo) # 0 =>
            log'[Checkpoint(c - 1, log[c].repo)] = log[Checkpoint(c - 1, log[c].repo)]
      BY <1>0, <3>3
    <3>5. Chained(c) BY <2>1, <3>1 DEF HistoryInv, CoverageUnbroken
    <3> QED BY <3>r, <3>1, <3>2, <3>4, <3>5
  <2>2. ASSUME IsCheckpoint(log'[N]) PROVE Chained(N)'
    <3>1. Checkpoint(N - 1, f.repo)' = Checkpoint(Now, f.repo) BY <1>0, <1>3, <1>4
    <3>2. Checkpoint(Now, f.repo) \in 0 .. Now BY <1>0, LastOfIs DEF Checkpoint
    <3>3. Checkpoint(Now, f.repo) # 0 =>
            log'[Checkpoint(Now, f.repo)] = log[Checkpoint(Now, f.repo)]
      BY <1>0, <3>2
    <3>4. IsCheckpoint(f) BY <1>f, <2>2
    <3> QED BY <1>1, <1>f, <3>1, <3>3, <3>4
  <2> QED BY <1>0, <2>1, <2>2 DEF CoverageUnbroken
<1>11. NoCoverageOverGap'
  <2> DEFINE Over(g, c) == IsCheckpoint(log[c]) /\ log[c].repo = log[g].repo /\ ~Repaired(c - 1, g)
                             => log[c].command = "repair" /\ log[c].gap = g /\ log[c].from = log[g].lower
  <2>1. ASSUME NEW g \in 1 .. Now, log'[g].command = "gap", NEW c \in g + 1 .. Now PROVE Over(g, c)'
    <3>1. c \in 1 .. Now /\ c - 1 \in 0 .. Now /\ log'[c] = log[c] /\ log'[g] = log[g] BY <1>0
    <3>2. Repaired(c - 1, g)' = Repaired(c - 1, g) BY <1>3, <3>1
    <3>3. Over(g, c) BY <2>1, <3>1 DEF HistoryInv, NoCoverageOverGap
    <3> QED BY <3>1, <3>2, <3>3 DEF IsCheckpoint
  <2>2. ASSUME NEW g \in 1 .. Now, log'[g].command = "gap" PROVE Over(g, N)'
    <3>1. Repaired(N - 1, g)' = Repaired(Now, g) /\ log'[g] = log[g] BY <1>0, <1>3, <1>4
    <3>2. ~Repaired(Now, g) => IsOpen(Now, g) BY <2>2, <3>1 DEF IsOpen
    <3> QED BY <1>1, <1>f, <3>1, <3>2 DEF IsCheckpoint
  <2> HIDE DEF Over
  <2>3. ASSUME NEW g \in 1 .. N, log'[g].command = "gap", NEW c \in g + 1 .. N PROVE Over(g, c)'
    <3>1. g \in 1 .. Now /\ (c \in g + 1 .. Now \/ c = N) BY <1>0, <1>N
    <3> QED BY <2>1, <2>2, <2>3, <3>1
  <2>4. \A g \in 1 .. Now' : log'[g].command = "gap" => \A c \in g + 1 .. Now' : Over(g, c)'
    BY <1>0, <2>3
  <2> USE DEF Over
  <2> QED BY <2>4 DEF NoCoverageOverGap
<1> QED BY <1>0, <1>5, <1>6, <1>7, <1>9, <1>10, <1>11 DEF HistoryInv

-----------------------------------------------------------------------------
(* The handlers.                                                           *)

LEMMA EnrolledOnce ==
  ASSUME IsHistory, NEW r, Enrollment(Now, r) # 0 PROVE EverEnrolled(Now, r)
<1> DEFINE E == {k \in Of(Now, "enroll") : log[k].repo = r}
<1>1. Now \in Nat /\ E \in SUBSET (1 .. Now) BY DEF IsHistory, Of
<1>2. LastOf(E) # 0 BY DEF Enrollment
<1>3. E # {} BY <1>1, <1>2, LastOfIs
<1> QED BY <1>3 DEF EverEnrolled

(* A command that is named by its caller has that name for its key.        *)
LEMMA OwnKeys ==
  ASSUME HistoryInv, NEW k \in 1 .. Now
  PROVE  /\ log[k].command = "delivery" => log[k].key = log[k].guid
         /\ log[k].command = "audit" => log[k].key = log[k].delivery
         /\ log[k].command \in {"checkpoint", "gap", "repair"} => log[k].key = log[k].run
<1>1. Verified(k) BY DEF HistoryInv, EntrySound
<1> QED BY <1>1 DEF Verified, DeliveryVerified, AuditVerified, CheckpointVerified, GapVerified,
                    RepairVerified

LEMMA Unused ==
  ASSUME HistoryInv
  PROVE  /\ \A g : Receipt(Now, g) = 0 =>
              \A m \in 1 .. Now : log[m].command = "delivery" => log[m].guid # g
         /\ \A d : AuditOf(Now, d) = 0 =>
              \A m \in 1 .. Now : log[m].command = "audit" => log[m].delivery # d
         /\ \A c, u : RunOf(Now, c, u) = 0 =>
              \A m \in 1 .. Now : log[m].command = c => log[m].run # u
<1>0. Now \in Nat BY DEF HistoryInv, IsHistory
<1>1. ASSUME NEW g, Receipt(Now, g) = 0, NEW m \in 1 .. Now, log[m].command = "delivery", log[m].guid = g
      PROVE  FALSE
  <2> DEFINE S == {k \in Of(Now, "delivery") : log[k].guid = g}
  <2>1. S \in SUBSET (1 .. Now) /\ m \in S BY <1>1 DEF Of
  <2>2. LastOf(S) # 0 BY <1>0, <2>1, LastOfIs
  <2> QED BY <1>1, <2>2 DEF Receipt
<1>2. ASSUME NEW d, AuditOf(Now, d) = 0, NEW m \in 1 .. Now, log[m].command = "audit", log[m].delivery = d
      PROVE  FALSE
  <2> DEFINE S == {k \in Of(Now, "audit") : log[k].delivery = d}
  <2>1. S \in SUBSET (1 .. Now) /\ m \in S BY <1>2 DEF Of
  <2>2. LastOf(S) # 0 BY <1>0, <2>1, LastOfIs
  <2> QED BY <1>2, <2>2 DEF AuditOf
<1>3. ASSUME NEW c, NEW u, RunOf(Now, c, u) = 0, NEW m \in 1 .. Now, log[m].command = c, log[m].run = u
      PROVE  FALSE
  <2> DEFINE S == {k \in Of(Now, c) : log[k].run = u}
  <2>1. S \in SUBSET (1 .. Now) /\ m \in S BY <1>3 DEF Of
  <2>2. LastOf(S) # 0 BY <1>0, <2>1, LastOfIs
  <2> QED BY <1>3, <2>2 DEF RunOf
<1> QED BY <1>1, <1>2, <1>3

(* What a command reads of the history before its own transaction, is what *)
(* the verification reads of it afterwards.                                *)
LEMMA ReadAfter ==
  ASSUME HistoryInv, NEW e, NEW now, Extends(e, now), NEW M, M = Now
  PROVE  /\ Now' = M + 1 /\ M \in Nat /\ M >= 1
         /\ \A k \in 1 .. M : log'[k] = log[k]
         /\ \A r : EverEnrolled(M, r)' = EverEnrolled(M, r)
         /\ \A g : Receipt(M, g)' = Receipt(M, g)
         /\ \A g : Repaired(M, g)' = Repaired(M, g)
         /\ \A r : OpenGap(M, r)' = OpenGap(M, r)
         /\ \A g \in 1 .. M : \A audits : Evidence(M, g, audits)' = Evidence(M, g, audits)
<1>1. IsHistory /\ IsHistory' /\ Keeps /\ M \in 0 .. Now
  BY DEF HistoryInv, Extends, Keeps, IsHistory
<1> QED BY <1>1, SameReading DEF Extends, IsHistory

(* A snapshot, an enrollment, or GitHub's new answer.                      *)
LEMMA PlainKeeps ==
  ASSUME HistoryInv, NEW e, NEW now \in Nat, now >= Watermark, Extends(e, now),
         "command" \in DOMAIN e, e.command \in {"activate", "enroll", "reconcile"}
  PROVE  HistoryInv'
<1>M. PICK M : M = Now OBVIOUS
<1>f. PICK f : f = log'[M + 1] OBVIOUS
<1>1. Now' = M + 1 /\ M \in Nat /\ M >= 1 BY <1>M, ReadAfter
<1>2. f.command = e.command /\ f.key = M /\ f.time = now BY <1>M, <1>f DEF Extends, KeyOf
<1>3. EntrySound(M + 1)'
  BY <1>1, <1>2, <1>f DEF EntrySound, Verified, Kinds, OwnKey, IsCheckpoint
<1>4. \A m \in 1 .. Now : log[m].command = f.command => log[m].key # f.key
  BY <1>1, <1>2, <1>M DEF HistoryInv, EntrySound, OwnKey
<1>5. Joins(now) BY <1>1, <1>2, <1>3, <1>4, <1>M, <1>f DEF Joins, IsCheckpoint
<1> QED BY <1>5, JoinsKeeps

(* The recording of a delivery.                                            *)
LEMMA OutcomeIs ==
  ASSUME NEW q, NEW now
  PROVE  /\ HttpStatus(Outcome(q, now)) = 202 => Outcome(q, now) \in {"recorded", "replayed"}
         /\ Outcome(q, now) = "replayed" =>
              Receipt(Now, q.guid) # 0 /\ log[Receipt(Now, q.guid)].body = q.body
         /\ Outcome(q, now) = "recorded" =>
              /\ Receipt(Now, q.guid) = 0 /\ Enrollment(Now, q.payload.repo) # 0
              /\ ~(now < Watermark) /\ ObservationAdmitted(Selected(q.payload))
<1>1. Refusal(q) \in {"body-too-large", "invalid-headers", "malformed-payload", "authentication-failed",
                      "unsupported-event", "unsupported-action", "unsupported-pull-request-shape", "none"}
  BY DEF Refusal
<1> DEFINE prior == Receipt(Now, q.guid)
           outcome == Outcome(q, now)
<1>2. \/ outcome = Refusal(q) /\ Refusal(q) # "none"
      \/ outcome \in {"persistence-unavailable", "delivery-conflict", "repository-not-enrolled",
                      "clock-regression"}
      \/ outcome = "replayed" /\ prior # 0 /\ log[prior].body = q.body
      \/ /\ outcome = "recorded" /\ prior = 0 /\ Enrollment(Now, q.payload.repo) # 0
         /\ ~(now < Watermark) /\ ObservationAdmitted(Selected(q.payload))
  BY DEF Outcome
<1> HIDE DEF outcome, prior
<1>3. HttpStatus(outcome) = 202 => outcome \in {"recorded", "replayed"}
  BY <1>1, <1>2 DEF HttpStatus
<1> QED BY <1>1, <1>2, <1>3 DEF outcome, prior

LEMMA LogKept ==
  ASSUME HistoryInv, log' = log PROVE HistoryInv'
<1>0. IsHistory /\ IsHistory' /\ Now' = Now /\ Keeps /\ Now \in Nat
  BY DEF HistoryInv, IsHistory, Keeps, Now
<1>1. /\ \A n \in 0 .. Now : \A r : Checkpoint(n, r)' = Checkpoint(n, r)
      /\ \A n \in 0 .. Now : \A g : Repaired(n, g)' = Repaired(n, g)
  BY <1>0, SameReading
<1>2. \A n \in 1 .. Now' : EntrySound(n)' BY <1>0, EntryStays DEF HistoryInv
<1>3. InTime' /\ KeysDiffer' BY <1>0 DEF HistoryInv, InTime, KeysDiffer
<1>4. \A r : Checkpoint(Now, r)' = Checkpoint(Now, r) BY <1>0 DEF Checkpoint, LastOf, IsCheckpoint
<1>5. \A g : Repaired(Now, g)' = Repaired(Now, g) BY <1>0 DEF Repaired
<1>6. \A g : IsOpen(Now, g)' = IsOpen(Now, g) BY <1>5 DEF IsOpen
<1>7. GapsEndCoverage' BY <1>0, <1>4, <1>6 DEF HistoryInv, GapsEndCoverage
<1>8. CoverageUnbroken'
  <2>1. \A n, r : Checkpoint(n, r)' = Checkpoint(n, r) BY DEF Checkpoint, LastOf, IsCheckpoint
  <2> QED BY <1>0, <2>1 DEF HistoryInv, CoverageUnbroken, IsCheckpoint
<1>9. NoCoverageOverGap'
  <2>1. \A n, g : Repaired(n, g)' = Repaired(n, g) BY DEF Repaired
  <2> QED BY <1>0, <2>1 DEF HistoryInv, NoCoverageOverGap, IsCheckpoint
<1> QED BY <1>0, <1>2, <1>3, <1>7, <1>8, <1>9 DEF HistoryInv

LEMMA DeliverKeeps ==
  ASSUME CoverageInv, NEW q \in Requests, NEW now \in Nat, Deliver(q, now)
  PROVE  CoverageInv'
<1> DEFINE outcome == Outcome(q, now)
           e == [command |-> "delivery", guid |-> q.guid, body |-> q.body,
                 repo |-> q.payload.repo, source |-> q.source, pr |-> Selected(q.payload)]
<1>0. HistoryInv /\ IsHistory BY DEF CoverageInv, HistoryInv
<1>1. accepted' = accepted \/ accepted' = accepted \cup {<<q.guid, q.body>>} BY DEF Deliver
<1>2. accepted' # accepted => outcome \in {"recorded", "replayed"} BY OutcomeIs DEF Deliver
<1>3. CASE outcome # "recorded"
  <2>1. log' = log BY <1>3 DEF Deliver
  <2>2. HistoryInv' BY <1>0, <2>1, LogKept
  <2>3. outcome = "replayed" =>
          \E n \in 1 .. Now : log[n].command = "delivery" /\ <<log[n].guid, log[n].body>> = <<q.guid, q.body>>
    <3> DEFINE S == {k \in Of(Now, "delivery") : log[k].guid = q.guid}
    <3>1. S \in SUBSET (1 .. Now) /\ Now \in Nat BY <1>0 DEF Of, IsHistory
    <3>2. Receipt(Now, q.guid) = LastOf(S) BY DEF Receipt
    <3>3. LastOf(S) # 0 => LastOf(S) \in S BY <3>1, LastOfIs
    <3>4. outcome = "replayed" => LastOf(S) # 0 /\ log[LastOf(S)].body = q.body BY <3>2, OutcomeIs
    <3> HIDE DEF outcome
    <3> QED BY <3>3, <3>4 DEF Of
  <2> HIDE DEF outcome
  <2>4. AcceptedIsRecorded'
    <3>1. Now' = Now BY <2>1 DEF Now
    <3> QED BY <1>1, <1>2, <1>3, <2>1, <2>3, <3>1 DEF CoverageInv, AcceptedIsRecorded
  <2> QED BY <2>2, <2>4 DEF CoverageInv
<1>4. CASE outcome = "recorded"
  <2>M. PICK M : M = Now OBVIOUS
  <2>f. PICK f : f = log'[M + 1] OBVIOUS
  <2>1. /\ Receipt(Now, q.guid) = 0 /\ Enrollment(Now, q.payload.repo) # 0
        /\ ~(now < Watermark) /\ ObservationAdmitted(Selected(q.payload))
    BY <1>4, OutcomeIs
  <2>2. Appends(e, now) BY <1>4 DEF Deliver
  <2>3. Extends(e, now) BY <1>0, <2>2, AppendsExtends
  <2>4. /\ Now' = M + 1 /\ M \in Nat /\ M >= 1 /\ \A k \in 1 .. M : log'[k] = log[k]
        /\ \A r : EverEnrolled(M, r)' = EverEnrolled(M, r)
    BY <1>0, <2>M, <2>3, ReadAfter
  <2>5. /\ f.command = "delivery" /\ f.guid = q.guid /\ f.body = q.body /\ f.repo = q.payload.repo
        /\ f.pr = Selected(q.payload) /\ f.key = q.guid /\ f.time = now
    BY <2>M, <2>f, <2>3 DEF Extends, KeyOf
  <2>6. DeliveryVerified(M + 1, f)'
    <3>1. EverEnrolled(M, f.repo) BY <1>0, <2>1, <2>5, <2>M, EnrolledOnce
    <3>2. DeliveryAdmitted(f) BY <2>5, RequestAssumption DEF DeliveryAdmitted
    <3>3. (M + 1) - 1 = M BY <2>4
    <3> QED BY <2>1, <2>4, <2>5, <3>1, <3>2, <3>3 DEF DeliveryVerified
  <2>7. EntrySound(M + 1)'
    BY <2>5, <2>6, <2>f DEF EntrySound, Verified, Kinds, OwnKey, IsCheckpoint
  <2>8. \A m \in 1 .. Now : log[m].command = f.command => log[m].key # f.key
    BY <1>0, <2>1, <2>5, Unused, OwnKeys
  <2>9. Watermark \in Nat BY <1>0, <2>4, <2>M DEF HistoryInv, EntrySound, Watermark
  <2>10. Joins(now) BY <2>1, <2>4, <2>5, <2>7, <2>8, <2>9, <2>M, <2>f DEF Joins, IsCheckpoint
  <2>11. HistoryInv' BY <1>0, <2>3, <2>10, JoinsKeeps
  <2>12. AcceptedIsRecorded'
    <3>1. \A n \in 1 .. Now : n \in 1 .. Now' /\ log'[n] = log[n] BY <2>4, <2>M
    <3>2. M + 1 \in 1 .. Now' /\ log'[M + 1].command = "delivery"
          /\ <<log'[M + 1].guid, log'[M + 1].body>> = <<q.guid, q.body>>
      BY <2>4, <2>5, <2>f
    <3> QED BY <1>1, <3>1, <3>2 DEF CoverageInv, AcceptedIsRecorded
  <2> QED BY <2>11, <2>12 DEF CoverageInv
<1> QED BY <1>3, <1>4

LEMMA AcceptedStays ==
  ASSUME AcceptedIsRecorded, IsHistory, NEW e, NEW now, Extends(e, now), UNCHANGED accepted
  PROVE  AcceptedIsRecorded'
<1>1. \A n \in 1 .. Now : n \in 1 .. Now' /\ log'[n] = log[n] BY DEF Extends, IsHistory
<1> QED BY <1>1 DEF AcceptedIsRecorded

LEMMA RecordAuditKeeps ==
  ASSUME HistoryInv, NEW a \in Audits, NEW expected, NEW now \in Nat,
         RecordAudit(a.listed, a.detail, expected, now)
  PROVE  HistoryInv' /\ \E e : Extends(e, now)
<1> DEFINE d == a.listed
           x == a.detail
           e == RepairInput(d, x, expected)
<1>M. PICK M : M = Now OBVIOUS
<1>f. PICK f : f = log'[M + 1] OBVIOUS
<1>0. IsHistory BY DEF HistoryInv
<1>1. /\ DetailComplete(d, x) /\ AuditOf(Now, d.delivery) = 0
      /\ ObservationAdmitted(Selected(x.payload)) /\ expected = Now
      /\ Enrollment(Now, x.payload.repo) # 0 /\ Receipt(Now, d.guid) = 0
      /\ now >= Watermark /\ now >= d.deliveredAt /\ Appends(e, now)
  BY DEF RecordAudit, CoverageWrite, CoverageTime
<1>2. /\ x.status = 200 /\ x.summary = d /\ x.payload.action = d.action
      /\ x.payload.repo = d.repo /\ x.source = d.source
  BY <1>1 DEF DetailComplete
<1>3. /\ d.guid # Null /\ d.delivery # Null /\ d.deliveredAt \in Nat /\ x.body # Null
  BY <1>2, RequestAssumption
<1>4. Extends(e, now) BY <1>0, <1>1, AppendsExtends
<1>5. /\ Now' = M + 1 /\ M \in Nat /\ M >= 1
      /\ \A r : EverEnrolled(M, r)' = EverEnrolled(M, r)
      /\ \A g : Receipt(M, g)' = Receipt(M, g)
  BY <1>M, <1>4, ReadAfter
<1>6. /\ f.command = "audit" /\ f.guid = d.guid /\ f.delivery = d.delivery /\ f.body = x.body
      /\ f.deliveredAt = d.deliveredAt /\ f.repo = x.payload.repo /\ f.source = x.source
      /\ f.pr = Selected(x.payload) /\ f.expected = expected /\ f.key = d.delivery /\ f.time = now
  BY <1>M, <1>f, <1>4 DEF Extends, KeyOf, RepairInput
<1> HIDE DEF e
<1>7. AsListed(f)
  <2>1. f.pr.action = d.action BY <1>2, <1>6 DEF Selected
  <2> QED BY <1>2, <1>6, <2>1 DEF AsListed
<1>8. AuditVerified(M + 1, f)'
  <2>1. EverEnrolled(M, f.repo) BY <1>0, <1>1, <1>6, <1>M, EnrolledOnce
  <2>2. (M + 1) - 1 = M BY <1>5
  <2>3. AuditAdmitted(f) /\ ObservationAdmitted(f.pr) BY <1>1, <1>3, <1>6 DEF AuditAdmitted
  <2>4. Receipt(M, f.guid) = 0 /\ f.deliveredAt <= f.time /\ f.expected = M
    BY <1>1, <1>3, <1>6, <1>M
  <2> QED BY <1>5, <1>6, <2>1, <2>2, <2>3, <2>4 DEF AuditVerified
<1>9. EntrySound(M + 1)'
  BY <1>6, <1>7, <1>8, <1>f DEF EntrySound, Verified, Kinds, OwnKey, IsCheckpoint, AsListed
<1>10. \A m \in 1 .. Now : log[m].command = f.command => log[m].key # f.key
  BY <1>1, <1>6, Unused, OwnKeys
<1>11. Joins(now) BY <1>1, <1>5, <1>6, <1>9, <1>10, <1>M, <1>f DEF Joins, IsCheckpoint
<1> QED BY <1>4, <1>11, JoinsKeeps

LEMMA RecordCheckpointKeeps ==
  ASSUME HistoryInv, NEW r, NEW s, NEW run, NEW from \in Nat, NEW through \in Nat, NEW expected,
         NEW now \in Nat, RecordCheckpoint(r, s, run, from, through, expected, now)
  PROVE  HistoryInv' /\ \E e : Extends(e, now)
<1> DEFINE previous == Checkpoint(Now, r)
           e == [command |-> "checkpoint", repo |-> r, source |-> s, run |-> run,
                 previous |-> previous, from |-> from, through |-> through, expected |-> expected]
<1>M. PICK M : M = Now OBVIOUS
<1>f. PICK f : f = log'[M + 1] OBVIOUS
<1>0. IsHistory /\ Now \in Nat BY DEF HistoryInv, IsHistory
<1>1. /\ RunOf(Now, "checkpoint", run) = 0 /\ expected = Now /\ Enrollment(Now, r) # 0
      /\ OpenGap(Now, r) = 0 /\ from <= through /\ now >= Watermark
      /\ IF previous = 0 THEN from = through
         ELSE from = log[previous].through /\ s = log[previous].source
      /\ Appends(e, now)
  BY DEF RecordCheckpoint, CoverageWrite, CoverageTime
<1>2. Extends(e, now) BY <1>0, <1>1, AppendsExtends
<1>3. /\ Now' = M + 1 /\ M \in Nat /\ M >= 1 /\ \A k \in 1 .. M : log'[k] = log[k]
      /\ \A u : EverEnrolled(M, u)' = EverEnrolled(M, u)
  BY <1>M, <1>2, ReadAfter
<1>4. /\ f.command = "checkpoint" /\ f.repo = r /\ f.source = s /\ f.run = run
      /\ f.previous = previous /\ f.from = from /\ f.through = through /\ f.expected = expected
      /\ f.key = run /\ f.time = now
  BY <1>M, <1>f, <1>2 DEF Extends, KeyOf
<1>5. previous \in 0 .. Now /\ (previous # 0 => IsCheckpoint(log[previous]) /\ log[previous].repo = r)
  <2> DEFINE S == {k \in 1 .. Now : IsCheckpoint(log[k]) /\ log[k].repo = r}
  <2>1. S \in SUBSET (1 .. Now) /\ previous = LastOf(S) BY DEF Checkpoint
  <2>2. LastOf(S) \in 0 .. Now /\ (LastOf(S) # 0 => LastOf(S) \in S) BY <1>0, <2>1, LastOfIs
  <2> HIDE DEF previous
  <2> QED BY <2>1, <2>2
<1> HIDE DEF previous, e
<1>6. CheckpointVerified(M + 1, f)'
  <2>1. EverEnrolled(M, f.repo) BY <1>0, <1>1, <1>4, <1>M, EnrolledOnce
  <2>2. (M + 1) - 1 = M BY <1>3
  <2>3. previous # 0 => previous \in 1 .. M /\ log'[previous] = log[previous] BY <1>3, <1>5, <1>M
  <2>4. CheckpointAdmitted(f) BY <1>1, <1>4 DEF CheckpointAdmitted
  <2>5. previous # 0 => previous < M + 1 BY <1>3, <2>3
  <2> QED BY <1>1, <1>3, <1>4, <1>5, <1>M, <2>1, <2>2, <2>3, <2>4, <2>5
          DEF CheckpointVerified, IsCheckpoint
<1>7. EntrySound(M + 1)'
  <2>1. previous \in 0 .. (M + 1) - 1 BY <1>3, <1>5, <1>M
  <2> QED BY <1>4, <1>6, <1>f, <2>1 DEF EntrySound, Verified, Kinds, OwnKey, IsCheckpoint
<1>8. \A m \in 1 .. Now : log[m].command = f.command => log[m].key # f.key
  BY <1>1, <1>4, Unused, OwnKeys
<1>9. \A g \in 1 .. Now : ~(IsOpen(Now, g) /\ log[g].repo = r)
  <2>1. OpenGaps(Now, r) \in SUBSET (1 .. Now) BY DEF OpenGaps
  <2>2. OpenGaps(Now, r) = {} BY <1>0, <1>1, <2>1, OpenGapIs, LastOfIs
  <2> QED BY <2>2 DEF OpenGaps, IsOpen
<1>10. Joins(now)
  BY <1>1, <1>3, <1>4, <1>7, <1>8, <1>9, <1>M, <1>f DEF Joins, previous
<1> QED BY <1>2, <1>10, JoinsKeeps

LEMMA OpenSourceGapKeeps ==
  ASSUME HistoryInv, NEW r, NEW s, NEW run, NEW checkpoint \in 1 .. Now, NEW x \in Failures,
         NEW expected, NEW now \in Nat, OpenSourceGap(r, s, run, checkpoint, x, expected, now)
  PROVE  HistoryInv' /\ \E e : Extends(e, now)
<1> DEFINE e == [command |-> "gap", repo |-> r, source |-> s, run |-> run,
                 checkpoint |-> checkpoint, lower |-> log[checkpoint].through,
                 cause |-> x.cause, kind |-> x.kind, guids |-> x.guids, expected |-> expected]
<1>M. PICK M : M = Now OBVIOUS
<1>f. PICK f : f = log'[M + 1] OBVIOUS
<1>0. IsHistory /\ Now \in Nat BY DEF HistoryInv, IsHistory
<1>1. /\ RunOf(Now, "gap", run) = 0 /\ GapShape(x.cause, x.kind, x.guids)
      /\ expected = Now /\ Enrollment(Now, r) # 0 /\ OpenGap(Now, r) = 0
      /\ checkpoint = Checkpoint(Now, r) /\ log[checkpoint].source = s
      /\ now >= Watermark /\ now >= log[checkpoint].through /\ Appends(e, now)
  BY DEF OpenSourceGap, CoverageWrite, CoverageTime
<1>2. Extends(e, now) BY <1>0, <1>1, AppendsExtends
<1>3. /\ Now' = M + 1 /\ M \in Nat /\ M >= 1 /\ \A k \in 1 .. M : log'[k] = log[k]
      /\ \A u : EverEnrolled(M, u)' = EverEnrolled(M, u)
      /\ \A u : OpenGap(M, u)' = OpenGap(M, u)
  BY <1>M, <1>2, ReadAfter
<1>4. /\ f.command = "gap" /\ f.repo = r /\ f.source = s /\ f.run = run
      /\ f.checkpoint = checkpoint /\ f.lower = log[checkpoint].through
      /\ f.cause = x.cause /\ f.kind = x.kind /\ f.guids = x.guids
      /\ f.expected = expected /\ f.key = run /\ f.time = now
  BY <1>M, <1>f, <1>2 DEF Extends, KeyOf
<1>5. IsCheckpoint(log[checkpoint]) /\ log[checkpoint].repo = r
  <2> DEFINE S == {k \in 1 .. Now : IsCheckpoint(log[k]) /\ log[k].repo = r}
  <2>1. S \in SUBSET (1 .. Now) /\ checkpoint = LastOf(S) BY <1>1 DEF Checkpoint
  <2>2. checkpoint # 0 BY <1>0
  <2>3. LastOf(S) # 0 => LastOf(S) \in S BY <1>0, <2>1, LastOfIs
  <2> QED BY <2>1, <2>2, <2>3
<1>6. log[checkpoint].through \in Nat BY <1>5 DEF HistoryInv, EntrySound
<1> HIDE DEF e
<1>7. GapVerified(M + 1, f)'
  <2>1. EverEnrolled(M, f.repo) BY <1>0, <1>1, <1>4, <1>M, EnrolledOnce
  <2>2. (M + 1) - 1 = M BY <1>3
  <2>3. log'[checkpoint] = log[checkpoint] /\ checkpoint < M + 1 BY <1>3, <1>M
  <2>4. GapAdmitted(f)
    BY <1>1, <1>4, CoverageAssumption DEF GapAdmitted
  <2> QED BY <1>1, <1>3, <1>4, <1>5, <1>M, <2>1, <2>2, <2>3, <2>4 DEF GapVerified, IsCheckpoint
<1>8. EntrySound(M + 1)'
  <2>1. checkpoint \in 1 .. (M + 1) - 1 BY <1>3, <1>M
  <2> QED BY <1>4, <1>6, <1>7, <1>f, <2>1 DEF EntrySound, Verified, Kinds, OwnKey, IsCheckpoint
<1>9. \A m \in 1 .. Now : log[m].command = f.command => log[m].key # f.key
  BY <1>1, <1>4, Unused, OwnKeys
<1>10. \A g \in 1 .. Now : ~(IsOpen(Now, g) /\ log[g].repo = r)
  <2>1. OpenGaps(Now, r) \in SUBSET (1 .. Now) BY DEF OpenGaps
  <2>2. OpenGaps(Now, r) = {} BY <1>0, <1>1, <2>1, OpenGapIs, LastOfIs
  <2> QED BY <2>2 DEF OpenGaps, IsOpen
<1>11. Joins(now)
  BY <1>1, <1>3, <1>4, <1>8, <1>9, <1>10, <1>M, <1>f DEF Joins, IsCheckpoint
<1> QED BY <1>2, <1>11, JoinsKeeps

LEMMA RepairSourceGapKeeps ==
  ASSUME HistoryInv, NEW r, NEW s, NEW run, NEW gap \in 1 .. Now, NEW through \in Nat, NEW audits,
         NEW expected, NEW now \in Nat, RepairSourceGap(r, s, run, gap, through, audits, expected, now)
  PROVE  HistoryInv' /\ \E e : Extends(e, now)
<1>g. PICK g : g = log[gap] OBVIOUS
<1> DEFINE content == g.kind = "delivery-content"
           method == IF content THEN "delivery-observations-and-complete-audit"
                     ELSE "complete-delivery-audit"
           e == [command |-> "repair", repo |-> r, source |-> s, run |-> run, gap |-> gap,
                 previous |-> g.checkpoint, from |-> g.lower, through |-> through,
                 lower |-> g.lower, end |-> through, audits |-> audits,
                 method |-> method, expected |-> expected]
<1>M. PICK M : M = Now OBVIOUS
<1>f. PICK f : f = log'[M + 1] OBVIOUS
<1>0. IsHistory /\ Now \in Nat BY DEF HistoryInv, IsHistory
<1>1. /\ RunOf(Now, "repair", run) = 0 /\ expected = Now /\ Enrollment(Now, r) # 0
      /\ gap = OpenGap(Now, r) /\ g.source = s
      /\ IF content THEN Evidence(Now, gap, audits) ELSE audits = {}
      /\ through > g.lower /\ now >= Watermark /\ now >= through /\ Appends(e, now)
  BY <1>g DEF RepairSourceGap, CoverageWrite, CoverageTime
<1>2. Extends(e, now) BY <1>0, <1>1, AppendsExtends
<1>3. /\ Now' = M + 1 /\ M \in Nat /\ M >= 1 /\ \A k \in 1 .. M : log'[k] = log[k]
      /\ \A u : EverEnrolled(M, u)' = EverEnrolled(M, u)
      /\ \A u : Repaired(M, u)' = Repaired(M, u)
      /\ \A h \in 1 .. M : \A as : Evidence(M, h, as)' = Evidence(M, h, as)
  BY <1>M, <1>2, ReadAfter
<1>4. /\ f.command = "repair" /\ f.repo = r /\ f.source = s /\ f.run = run /\ f.gap = gap
      /\ f.previous = g.checkpoint /\ f.from = g.lower /\ f.through = through
      /\ f.lower = g.lower /\ f.end = through /\ f.audits = audits /\ f.method = method
      /\ f.expected = expected /\ f.key = run /\ f.time = now
  BY <1>M, <1>f, <1>2 DEF Extends, KeyOf
<1> HIDE DEF e
<1>5. IsOpen(Now, gap) /\ g.command = "gap" /\ g.repo = r
  <2>1. OpenGaps(Now, r) \in SUBSET (1 .. Now) BY DEF OpenGaps
  <2>2. gap = LastOf(OpenGaps(Now, r)) /\ gap # 0 BY <1>0, <1>1, OpenGapIs
  <2>3. gap \in OpenGaps(Now, r) BY <1>0, <2>1, <2>2, LastOfIs
  <2> QED BY <1>g, <2>3 DEF OpenGaps, IsOpen
<1>6. /\ g.checkpoint = Checkpoint(Now, r)
      /\ \A h \in 1 .. Now : IsOpen(Now, h) /\ log[h].repo = r => h = gap
  BY <1>5, <1>g DEF HistoryInv, GapsEndCoverage
<1>7. GapVerified(gap, g) /\ g.checkpoint \in 1 .. gap - 1 /\ g.lower \in Nat
  <2>1. EntrySound(gap) BY DEF HistoryInv
  <2> QED BY <1>5, <1>g, <2>1 DEF EntrySound, Verified
<1>8. /\ IsCheckpoint(log[g.checkpoint]) /\ log[g.checkpoint].repo = r
      /\ log[g.checkpoint].source = s /\ log[g.checkpoint].through = g.lower
      /\ GapShape(g.cause, g.kind, g.guids)
  BY <1>1, <1>5, <1>7 DEF GapVerified, GapAdmitted
<1>9. g.checkpoint \in 1 .. M /\ log'[g.checkpoint] = log[g.checkpoint] /\ gap \in 1 .. M
      /\ log'[gap] = g
  BY <1>3, <1>7, <1>M, <1>g
<1>10. content <=> audits # {}
  <2>1. CASE content
    <3>1. g.guids # {} BY <1>8, <2>1 DEF GapShape
    <3>2. {log[a].guid : a \in audits} = g.guids BY <1>1, <2>1, <1>g DEF Evidence
    <3> QED BY <2>1, <3>1, <3>2
  <2>2. CASE ~content BY <1>1, <2>2
  <2> QED BY <2>1, <2>2
<1>11. CheckpointVerified(M + 1, f)'
  <2>1. EverEnrolled(M, f.repo) BY <1>0, <1>1, <1>4, <1>M, EnrolledOnce
  <2>2. (M + 1) - 1 = M BY <1>3
  <2>3. g.checkpoint < M + 1 /\ g.checkpoint # 0 BY <1>3, <1>9
  <2>4. CheckpointAdmitted(f) BY <1>1, <1>4, <1>7 DEF CheckpointAdmitted
  <2> QED BY <1>1, <1>3, <1>4, <1>8, <1>9, <1>M, <2>1, <2>2, <2>3, <2>4
          DEF CheckpointVerified, IsCheckpoint
<1>12. RepairVerified(M + 1, f)'
  <2>1. RepairAdmitted(f)
    <3>1. f.end > f.lower /\ f.time >= f.end BY <1>1, <1>4
    <3>2. (f.method = "delivery-observations-and-complete-audit") = (f.audits # {})
      BY <1>4, <1>10
    <3> QED BY <3>1, <3>2 DEF RepairAdmitted
  <2>2. (M + 1) - 1 = M /\ gap < M + 1 BY <1>3, <1>9
  <2>3. Fact(gap, "gap")'
    <3>1. gap \in DOMAIN log' BY <1>3, <1>9, <1>2 DEF Extends, IsHistory, Now
    <3> QED BY <1>5, <1>9, <3>1 DEF Fact
  <2>4. ~Repaired(M, gap)' BY <1>3, <1>5, <1>M DEF IsOpen
  <2>5. content => Evidence(M, gap, audits)' BY <1>1, <1>3, <1>9, <1>M
  <2>6. /\ f.method = method /\ g.repo = f.repo /\ g.source = f.source
        /\ g.checkpoint = f.previous /\ g.lower = f.lower /\ f.from = f.lower /\ f.through = f.end
        /\ (~content => f.audits = {})
    BY <1>1, <1>4, <1>5
  <2> QED BY <1>4, <1>9, <1>11, <2>1, <2>2, <2>3, <2>4, <2>5, <2>6 DEF RepairVerified
<1>13. EntrySound(M + 1)'
  <2>1. g.checkpoint \in 0 .. (M + 1) - 1 /\ gap \in 1 .. (M + 1) - 1 BY <1>3, <1>9
  <2> QED BY <1>4, <1>7, <1>12, <1>f, <2>1 DEF EntrySound, Verified, Kinds, OwnKey, IsCheckpoint
<1>14. \A m \in 1 .. Now : log[m].command = f.command => log[m].key # f.key
  BY <1>1, <1>4, Unused, OwnKeys
<1>15. Joins(now)
  <2>1. g.checkpoint # 0 BY <1>9, <1>3
  <2>2. \A h \in 1 .. Now : IsOpen(Now, h) /\ log[h].repo = r => h = gap /\ f.from = log[h].lower
    BY <1>4, <1>6, <1>g
  <2> QED BY <1>1, <1>3, <1>4, <1>6, <1>8, <1>13, <1>14, <1>M, <1>f, <2>1, <2>2 DEF Joins
<1> QED BY <1>2, <1>15, JoinsKeeps

-----------------------------------------------------------------------------
(* The invariant holds.                                                    *)

LEMMA CoverageInitInv == CoverageInit => CoverageInv
<1> SUFFICES ASSUME CoverageInit PROVE CoverageInv OBVIOUS
<1> DEFINE e == [command |-> "initialize", key |-> 0, time |-> 0]
<1>1. log = <<e>> /\ accepted = {} BY DEF CoverageInit
<1>2. IsHistory /\ Now = 1 /\ log[1] = e
  <2> HIDE DEF e
  <2>1. <<e>> \in Seq({e}) /\ Len(<<e>>) = 1 /\ <<e>>[1] = e OBVIOUS
  <2>2. \E S : log \in Seq(S) BY <1>1, <2>1
  <2> QED BY <1>1, <2>1, <2>2 DEF IsHistory, Now
<1>3. EntrySound(1) BY <1>2 DEF EntrySound, Verified, Kinds, OwnKey, IsCheckpoint
<1>4. \A g \in 1 .. Now : log[g].command = "initialize" BY <1>2
<1> QED BY <1>1, <1>2, <1>3, <1>4 DEF CoverageInv, HistoryInv, InTime, KeysDiffer,
        GapsEndCoverage, IsOpen, CoverageUnbroken, NoCoverageOverGap, AcceptedIsRecorded, IsCheckpoint

LEMMA CoverageNextInv == CoverageInv /\ [CoverageNext]_coverageVars => CoverageInv'
<1> SUFFICES ASSUME CoverageInv, [CoverageNext]_coverageVars PROVE CoverageInv' OBVIOUS
<1>0. HistoryInv /\ IsHistory /\ AcceptedIsRecorded /\ Now \in Nat
  BY DEF CoverageInv, HistoryInv, IsHistory
<1>1. CASE UNCHANGED coverageVars
  <2>1. log' = log /\ accepted' = accepted BY <1>1 DEF coverageVars
  <2>2. HistoryInv' BY <1>0, <2>1, LogKept
  <2>3. AcceptedIsRecorded' BY <1>0, <2>1 DEF AcceptedIsRecorded, Now
  <2> QED BY <2>2, <2>3 DEF CoverageInv
<1>2. ASSUME NEW now \in Nat, NEW e, "command" \in DOMAIN e,
             e.command \in {"activate", "enroll", "reconcile"},
             now >= Watermark, Appends(e, now), UNCHANGED accepted
      PROVE  CoverageInv'
  <2>1. Extends(e, now) BY <1>0, <1>2, AppendsExtends
  <2>2. HistoryInv' BY <1>0, <1>2, <2>1, PlainKeeps
  <2> QED BY <1>0, <1>2, <2>1, <2>2, AcceptedStays DEF CoverageInv
<1>3. ASSUME CoverageNext PROVE CoverageInv'
  <2>1. MaxTime \in Nat BY CoverageAssumption
  <2>2. PICK now \in 0 .. MaxTime :
          \/ Activate(now)
          \/ \E r \in Repos : Enroll(r, now) \/ Reconcile(r, now)
          \/ \E q \in Requests : Deliver(q, now)
          \/ \E expected \in {Now - 1, Now} :
               \/ \E a \in Audits : RecordAudit(a.listed, a.detail, expected, now)
               \/ \E r \in Repos, s \in Sources, run \in Runs :
                    \/ \E from, through \in 0 .. MaxTime :
                         RecordCheckpoint(r, s, run, from, through, expected, now)
                    \/ \E checkpoint \in Records("checkpoint") \cup Records("repair"), f \in Failures :
                         OpenSourceGap(r, s, run, checkpoint, f, expected, now)
                    \/ \E gap \in Records("gap"), through \in 0 .. MaxTime,
                         audits \in SUBSET Records("audit") :
                         RepairSourceGap(r, s, run, gap, through, audits, expected, now)
    BY <1>3 DEF CoverageNext
  <2>3. now \in Nat BY <2>1
  <2>4. CASE Activate(now)
    <3>1. PICK fleet \in [Repos -> Fleets] : Appends([command |-> "activate", fleet |-> fleet], now)
      BY <2>4 DEF Activate
    <3>2. now >= Watermark /\ UNCHANGED accepted BY <2>4 DEF Activate
    <3> QED BY <1>2, <2>3, <3>1, <3>2
  <2>5. ASSUME NEW r \in Repos, Enroll(r, now) \/ Reconcile(r, now) PROVE CoverageInv'
    <3>1. CASE Enroll(r, now)
      <4>1. Appends([command |-> "enroll", repo |-> r], now) /\ now >= Watermark /\ UNCHANGED accepted
        BY <3>1 DEF Enroll
      <4> QED BY <1>2, <2>3, <4>1
    <3>2. CASE Reconcile(r, now)
      <4>1. Appends([command |-> "reconcile", repo |-> r], now) /\ now >= Watermark /\ UNCHANGED accepted
        BY <3>2 DEF Reconcile
      <4> QED BY <1>2, <2>3, <4>1
    <3> QED BY <2>5, <3>1, <3>2
  <2>6. ASSUME NEW q \in Requests, Deliver(q, now) PROVE CoverageInv'
    BY <2>3, <2>6, DeliverKeeps
  <2>7. ASSUME HistoryInv' /\ \E e : Extends(e, now), UNCHANGED accepted PROVE CoverageInv'
    BY <1>0, <2>7, AcceptedStays DEF CoverageInv
  <2>8. ASSUME NEW expected, NEW a \in Audits, RecordAudit(a.listed, a.detail, expected, now)
        PROVE  CoverageInv'
    <3>1. HistoryInv' /\ \E e : Extends(e, now) BY <1>0, <2>3, <2>8, RecordAuditKeeps
    <3>2. UNCHANGED accepted BY <2>8 DEF RecordAudit
    <3> QED BY <2>7, <3>1, <3>2
  <2>9. ASSUME NEW expected, NEW r, NEW s, NEW run, NEW from \in 0 .. MaxTime,
               NEW through \in 0 .. MaxTime,
               RecordCheckpoint(r, s, run, from, through, expected, now)
        PROVE  CoverageInv'
    <3>1. from \in Nat /\ through \in Nat BY <2>1
    <3>2. HistoryInv' /\ \E e : Extends(e, now) BY <1>0, <2>3, <2>9, <3>1, RecordCheckpointKeeps
    <3>3. UNCHANGED accepted BY <2>9 DEF RecordCheckpoint
    <3> QED BY <2>7, <3>2, <3>3
  <2>10. ASSUME NEW expected, NEW r, NEW s, NEW run,
                NEW checkpoint \in Records("checkpoint") \cup Records("repair"), NEW f \in Failures,
                OpenSourceGap(r, s, run, checkpoint, f, expected, now)
         PROVE  CoverageInv'
    <3>1. checkpoint \in 1 .. Now BY DEF Records
    <3>2. HistoryInv' /\ \E e : Extends(e, now) BY <1>0, <2>3, <2>10, <3>1, OpenSourceGapKeeps
    <3>3. UNCHANGED accepted BY <2>10 DEF OpenSourceGap
    <3> QED BY <2>7, <3>2, <3>3
  <2>11. ASSUME NEW expected, NEW r, NEW s, NEW run, NEW gap \in Records("gap"),
                NEW through \in 0 .. MaxTime, NEW audits,
                RepairSourceGap(r, s, run, gap, through, audits, expected, now)
         PROVE  CoverageInv'
    <3>1. gap \in 1 .. Now /\ through \in Nat BY <2>1 DEF Records
    <3>2. HistoryInv' /\ \E e : Extends(e, now) BY <1>0, <2>3, <2>11, <3>1, RepairSourceGapKeeps
    <3>3. UNCHANGED accepted BY <2>11 DEF RepairSourceGap
    <3> QED BY <2>7, <3>2, <3>3
  <2> QED BY <2>2, <2>4, <2>5, <2>6, <2>8, <2>9, <2>10, <2>11
<1> QED BY <1>1, <1>3

(* The record that the control plane keeps of deliveries and of coverage   *)
(* is sound at every moment, whatever arrives and in whatever order        *)
(* (src/src/control/store.ts).                                             *)
THEOREM CoverageInvariant == CoverageSpec => []CoverageInv
<1> QED BY CoverageInitInv, CoverageNextInv, PTL DEF CoverageSpec

(* The log holds only transactions that the commands write, and time does  *)
(* not go back in it, though the clock may (assertCommandTime).            *)
THEOREM CoverageTypes == CoverageSpec => []CoverageTypeOK
<1>1. CoverageInv => CoverageTypeOK
  BY DEF CoverageInv, HistoryInv, EntrySound, InTime, Kinds, CoverageTypeOK
<1> QED BY <1>1, CoverageInvariant, PTL

(* No command for deliveries, audits, checkpoints, gaps or repairs writes  *)
(* a transaction that verifyExisting refuses at the next command, and none *)
(* uses an idempotency key again (insertReceipt).                          *)
THEOREM CoverageVerified == CoverageSpec => []HistoryVerified
<1>1. CoverageInv => HistoryVerified
  <2> SUFFICES ASSUME CoverageInv PROVE HistoryVerified OBVIOUS
  <2>1. Now \in Nat /\ Now >= 1 /\ Now \in 1 .. Now BY DEF CoverageInv, HistoryInv, IsHistory
  <2>2. Verified(Now) BY <2>1 DEF CoverageInv, HistoryInv, EntrySound
  <2>3. \A m \in 1 .. Now - 1 : log[m].command = log[Now].command => log[m].key # log[Now].key
    BY <2>1 DEF CoverageInv, HistoryInv, KeysDiffer
  <2> QED BY <2>2, <2>3 DEF HistoryVerified
<1> QED BY <1>1, CoverageInvariant, PTL

(* A delivery that GitHub was told is accepted is on record with the bytes *)
(* it sent (recordVerifiedGitHubPullRequestDelivery).                      *)
THEOREM AcceptedDeliveriesRecorded == CoverageSpec => []AcceptedIsRecorded
<1>1. CoverageInv => AcceptedIsRecorded BY DEF CoverageInv
<1> QED BY <1>1, CoverageInvariant, PTL

(* The checkpoints of a repository join without hole or overlap, none is   *)
(* beyond a gap that is not repaired, and a content gap is repaired only   *)
(* by deliveries observed after it was found (recordGitHubSourceCheckpoint,*)
(* repairGitHubSourceGap).                                                 *)
THEOREM CoveredIsCovered == CoverageSpec => []CoverageSound
<1>1. CoverageInv => ContentObserved
  <2> SUFFICES ASSUME CoverageInv, NEW k \in 1 .. Now, log[k].command = "repair",
                      log[log[k].gap].kind = "delivery-content", NEW guid \in log[log[k].gap].guids
               PROVE  \E a \in log[k].gap + 1 .. k - 1 :
                        /\ log[a].command = "audit" /\ log[a].guid = guid
                        /\ log[a].repo = log[k].repo /\ log[a].source = log[k].source
    BY DEF ContentObserved
  <2>1. RepairVerified(k, log[k]) BY DEF CoverageInv, HistoryInv, EntrySound, Verified
  <2>2. Evidence(k - 1, log[k].gap, log[k].audits) /\ log[log[k].gap].repo = log[k].repo
        /\ log[log[k].gap].source = log[k].source
    BY <2>1 DEF RepairVerified
  <2>3. PICK a \in log[k].audits : log[a].guid = guid BY <2>2 DEF Evidence
  <2> QED BY <2>2, <2>3 DEF Evidence
<1>2. CoverageInv => CoverageSound BY <1>1 DEF CoverageInv, HistoryInv, CoverageSound
<1> QED BY <1>2, CoverageInvariant, PTL

(* What the webhook lets through, its command and the record's contract    *)
(* accept as well, and an audit's record says what GitHub's list says      *)
(* (normalizeGitHubPullRequestPayload, fetchGitHubPullRequestDeliveryDetail).*)
THEOREM ReadingsAgree == CoverageSpec => []NormalizersAgree
<1>1. ASSUME NEW q \in Requests, Refusal(q) = "none", q.payload.refs = "plain"
      PROVE  InputAccepted(Selected(q.payload)) /\ ObservationAdmitted(Selected(q.payload))
  <2>1. q.payload.action \in Actions /\ ShapeSupported(q.payload) BY <1>1 DEF Refusal
  <2>2. Parsed(q.payload) BY RequestAssumption
  <2> QED BY <1>1, <2>1, <2>2 DEF ShapeSupported, Parsed, Selected, InputAccepted, ObservationAdmitted
<1>2. ASSUME CoverageInv, NEW q \in Requests, Refusal(q) = "none", q.payload.refs = "plain"
      PROVE  Outcome(q, Watermark) # "persistence-unavailable"
  BY <1>1, <1>2 DEF Outcome
<1>3. ASSUME CoverageInv, NEW n \in 1 .. Now, log[n].command = "audit" PROVE AsListed(log[n])
  BY <1>3 DEF CoverageInv, HistoryInv, EntrySound
<1>4. CoverageInv => NormalizersAgree BY <1>2, <1>3 DEF NormalizersAgree, AsListed
<1> QED BY <1>4, CoverageInvariant, PTL
====

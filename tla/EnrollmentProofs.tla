---- MODULE EnrollmentProofs ----
(***************************************************************************)
(* Proofs about Enrollment.  Every transaction is Sound: it verifies given *)
(* those before it, its contract admits it, and it is exactly what its     *)
(* handler makes of the facts it refers to.  A pass holds, at each stage,  *)
(* references to facts of the kind the stage needs.                        *)
(***************************************************************************)
EXTENDS Enrollment, WellFoundedInduction, NaturalsInduction, FiniteSetTheorems, SequenceTheorems, TLAPS

-----------------------------------------------------------------------------
(* Reading a history.                                                      *)

(* A set of numbers up to some bound has a largest one.                    *)
LEMMA Newest ==
  ASSUME NEW n \in Nat, NEW S \in SUBSET (1 .. n), S # {}
  PROVE  \E k \in S : \A m \in S : m <= k
<1> DEFINE T == {n - k : k \in S}
<1>1. T \subseteq Nat /\ T # {}
  <2>1. \A k \in S : n - k \in Nat OBVIOUS
  <2> QED BY <2>1
<1> HIDE DEF T
<1>2. \E x \in T : \A y \in T : ~ (<<y, x>> \in OpToRel(<, Nat))
  BY <1>1, NatLessThanWellFounded, WFMin
<1>3. PICK x \in T : \A y \in T : ~ (y < x) BY <1>1, <1>2 DEF OpToRel
<1>4. PICK k \in S : x = n - k BY DEF T
<1>5. ASSUME NEW m \in S PROVE m <= k
  <2>1. n - m \in T BY DEF T
  <2> QED BY <1>3, <1>4, <2>1
<1> QED BY <1>5

LEMMA LastOfIs ==
  ASSUME NEW n \in Nat, NEW S \in SUBSET (1 .. n)
  PROVE  /\ LastOf(S) \in 0 .. n
         /\ S = {} <=> LastOf(S) = 0
         /\ S # {} => LastOf(S) \in S
         /\ \A m \in S : m <= LastOf(S)
<1>1. CASE S = {} BY <1>1 DEF LastOf
<1>2. CASE S # {}
  <2>1. \E k \in S : \A m \in S : m <= k BY <1>2, Newest
  <2>2. LastOf(S) \in S /\ \A m \in S : m <= LastOf(S) BY <1>2, <2>1 DEF LastOf
  <2>3. LastOf(S) \in 1 .. n BY <2>2
  <2> QED BY <1>2, <2>2, <2>3
<1> QED BY <1>1, <1>2

(* The largest number that there is.                                       *)
LEMMA LastOfLargest ==
  ASSUME NEW n \in Nat, NEW S \in SUBSET (1 .. n), NEW k \in S, \A m \in S : m <= k
  PROVE  LastOf(S) = k
<1>1. LastOf(S) \in S /\ LastOf(S) <= k /\ k <= LastOf(S) BY LastOfIs
<1>2. LastOf(S) \in Nat /\ k \in Nat BY <1>1, LastOfIs
<1> QED BY <1>1, <1>2

(* The history is a sequence that begins with the transaction of           *)
(* initialize.                                                             *)
IsHistory == (\E S : log \in Seq(S)) /\ Now \in Nat /\ Now >= 1

(* A step that appends the transaction of e.                               *)
Extends(e) ==
  /\ Now' = Now + 1 /\ IsHistory'
  /\ \A k \in 1 .. Now : log'[k] = log[k]
  /\ \A f \in DOMAIN e \ {"key"} : log'[Now + 1][f] = e[f]
  /\ log'[Now + 1].key = KeyOf(Now, e)

LEMMA AppendsExtends ==
  ASSUME IsHistory, NEW e, Appends(e) PROVE Extends(e)
<1>1. PICK S : log \in Seq(S) BY DEF IsHistory
<1> DEFINE s == Stamped(e)
<1>2. (\A f \in DOMAIN e \ {"key"} : s[f] = e[f]) /\ s.key = KeyOf(Now, e) BY DEF Stamped
<1> HIDE DEF s
<1>3. log \in Seq(S \cup {s}) BY <1>1, SeqMonotonic
<1>4. log' = Append(log, s) BY DEF Appends, s
<1>5. /\ log' \in Seq(S \cup {s}) /\ Len(log') = Len(log) + 1
      /\ \A k \in 1 .. Len(log) : log'[k] = log[k]
      /\ log'[Len(log) + 1] = s
  BY <1>3, <1>4, AppendProperties
<1>6. Len(log) \in Nat BY <1>1
<1>7. Now' = Now + 1 /\ IsHistory' BY <1>5, <1>6 DEF IsHistory, Now
<1> QED BY <1>2, <1>5, <1>7 DEF Extends, Now

-----------------------------------------------------------------------------
(* What is read of a history does not depend on what comes after it.       *)

Keeps == Now <= Now' /\ \A k \in 1 .. Now : log'[k] = log[k]

(* The sets of transactions that the readings take the newest of.          *)
Authorities(n, r, snapshot) == {k \in Of(n, "materialize") : log[k].repo = r /\ log[k].snapshot = snapshot}
Identities(n, authority) == {k \in Of(n, "identity") : log[k].authority = authority}
Surfaces(n, identity) == {k \in Of(n, "surfaces") : log[k].identity = identity}
Enrollments(n, surface) == {k \in Of(n, "enroll") : log[k].surface = surface}
Decisions(n, r) == {k \in Of(n, "hold") : log[k].repo = r}
Ever(n, r) == {k \in Of(n, "enroll") : log[k].repo = r}

LEMMA SameReading ==
  ASSUME IsHistory, IsHistory', Keeps, NEW n \in 0 .. Now
  PROVE  /\ ActiveSnapshot(n)' = ActiveSnapshot(n)
         /\ \A a : IdentityOf(n, a)' = IdentityOf(n, a)
         /\ \A g : SurfaceOf(n, g)' = SurfaceOf(n, g)
         /\ \A e : KeyOf(n, e)' = KeyOf(n, e)
         /\ \A r : DecisionOf(n, r)' = DecisionOf(n, r)
         /\ \A r : LastOf(Ever(n, r))' = LastOf(Ever(n, r))
<1>1. \A k \in 1 .. n : log'[k] = log[k] BY DEF Keeps, IsHistory
<1>2. ASSUME NEW c PROVE Of(n, c)' = Of(n, c) BY <1>1 DEF Of
<1>3. ActiveSnapshot(n)' = ActiveSnapshot(n) BY <1>2 DEF ActiveSnapshot
<1>4. ASSUME NEW a PROVE IdentityOf(n, a)' = IdentityOf(n, a)
  <2>1. Identities(n, a)' = Identities(n, a) BY <1>1, <1>2 DEF Identities, Of
  <2> QED BY <2>1 DEF IdentityOf, Identities
<1>5. ASSUME NEW g PROVE SurfaceOf(n, g)' = SurfaceOf(n, g)
  <2>1. Surfaces(n, g)' = Surfaces(n, g) BY <1>1, <1>2 DEF Surfaces, Of
  <2> QED BY <2>1 DEF SurfaceOf, Surfaces
<1>6. ASSUME NEW e PROVE KeyOf(n, e)' = KeyOf(n, e)
  <2>1. Follows(n, e)' = Follows(n, e) BY <1>4, <1>5 DEF Follows
  <2> QED BY <2>1 DEF KeyOf
<1>7. ASSUME NEW r PROVE DecisionOf(n, r)' = DecisionOf(n, r)
  <2>1. Decisions(n, r)' = Decisions(n, r) BY <1>1, <1>2 DEF Decisions, Of
  <2> QED BY <2>1 DEF DecisionOf, Decisions
<1>8. ASSUME NEW r PROVE LastOf(Ever(n, r))' = LastOf(Ever(n, r))
  <2>1. Ever(n, r)' = Ever(n, r) BY <1>1, <1>2 DEF Ever, Of
  <2> QED BY <2>1
<1> QED BY <1>3, <1>4, <1>5, <1>6, <1>7, <1>8

-----------------------------------------------------------------------------
(* The invariant.                                                          *)

Commands == {"initialize", "activate", "materialize", "identity", "surfaces",
             "enroll", "hold", "installation"}

(* What a transaction says is a function of what it refers to.             *)
IdentityMade(n, e) ==
  /\ e.authority \in 1 .. n - 1 /\ log[e.authority].command = "materialize"
  /\ LET fact == IdentityFact(e.authority, e.seen)
     IN /\ <<e.repo, e.snapshot, e.declared>> = <<fact.repo, fact.snapshot, fact.declared>>
        /\ e.observed = fact.observed /\ e.result = fact.result
        /\ e.result = "matched" => e.seen.kind = "found"

SurfacesMade(n, e) ==
  /\ e.identity \in 1 .. n - 1 /\ log[e.identity].command = "identity"
  /\ LET fact == SurfacesFact(e.identity, e.probe)
     IN /\ <<e.repo, e.snapshot, e.authority>> = <<fact.repo, fact.snapshot, fact.authority>>
        /\ e.commit = fact.commit /\ e.result = fact.result /\ e.decision = fact.decision
        /\ e.requirements = fact.requirements

EnrollmentMade(n, e) ==
  /\ e.surface \in 1 .. n - 1 /\ log[e.surface].command = "surfaces"
  /\ log[e.surface].authority \in 1 .. n - 1
  /\ LET fact == EnrollmentFact(e.surface)
     IN /\ e.programs = fact.programs /\ e.ceiling = fact.ceiling

Made(n) ==
  LET e == log[n]
  IN /\ e.command = "activate" => e.catalog \in DOMAIN Catalogs
     /\ e.command = "materialize" => e.snapshot \in 1 .. n - 1
     /\ e.command = "identity" => IdentityMade(n, e)
     /\ e.command = "surfaces" => SurfacesMade(n, e)
     /\ e.command = "enroll" => EnrollmentMade(n, e)
     /\ e.command = "hold" =>
          e.authority \in 1 .. n - 1 /\ e.expected = n - 1 /\ e.choice \in {"impose", "clear"}

Sound(n) == log[n].command \in Commands /\ Verified(n) /\ Admitted(n) /\ Made(n)

KeysDiffer ==
  \A k \in 1 .. Now : \A m \in 1 .. k - 1 :
    log[m].command = log[k].command => log[m].key # log[k].key

LogInv == IsHistory /\ (\A n \in 1 .. Now : Sound(n)) /\ KeysDiffer

(* Nothing that comes after it makes a transaction unsound.                *)
LEMMA SoundStays ==
  ASSUME IsHistory, IsHistory', Keeps, NEW n \in 1 .. Now, Sound(n)
  PROVE  Sound(n)'
<1>e. PICK e : e = log[n] OBVIOUS
<1>0. n \in Nat /\ n - 1 \in 0 .. Now /\ n - 1 < n /\ n \in 1 .. Now' BY DEF IsHistory, Keeps
<1>1. log'[n] = e /\ \A k \in 1 .. n : log'[k] = log[k] BY <1>e DEF Keeps, IsHistory
<1>2. /\ \A x : KeyOf(n - 1, x)' = KeyOf(n - 1, x)
      /\ ActiveSnapshot(n - 1)' = ActiveSnapshot(n - 1)
      /\ \A r : DecisionOf(n - 1, r)' = DecisionOf(n - 1, r)
      /\ \A r : LastOf(Ever(n - 1, r))' = LastOf(Ever(n - 1, r))
  BY <1>0, SameReading
<1>3. e.command \in Commands /\ Verified(n) /\ Admitted(n) /\ Made(n) BY <1>e DEF Sound
<1>4. DOMAIN log = 1 .. Now /\ DOMAIN log' = 1 .. Now' BY DEF IsHistory, Now
<1>5. \A i \in 1 .. n : \A c : Fact(i, c)' <=> Fact(i, c)
  BY <1>0, <1>1, <1>4 DEF Fact, Keeps, IsHistory
<1>6. Admitted(n)' BY <1>1, <1>3, <1>e DEF Admitted
<1>7. e.key = KeyOf(n - 1, e) /\ KeyOf(n - 1, e)' = KeyOf(n - 1, e)
  BY <1>2, <1>3, <1>e DEF Verified
<1>8. CASE e.command = "materialize"
  <2>1. AuthorityVerified(e) /\ e.snapshot \in 1 .. n - 1 BY <1>3, <1>8, <1>e DEF Verified, Made
  <2>2. AuthorityVerified(e)' BY <1>0, <1>1, <1>5, <2>1 DEF AuthorityVerified, CatalogOf
  <2>3. Verified(n)' BY <1>1, <1>7, <1>8, <2>2 DEF Verified
  <2>4. Made(n)' BY <1>1, <1>8, <2>1 DEF Made
  <2> QED BY <1>1, <1>3, <1>6, <2>3, <2>4 DEF Sound
<1>9. CASE e.command = "identity"
  <2>1. IdentityVerified(e) /\ IdentityMade(n, e) BY <1>3, <1>9, <1>e DEF Verified, Made
  <2>2. e.authority \in 1 .. n /\ log'[e.authority] = log[e.authority]
    BY <1>0, <1>1, <2>1 DEF IdentityMade
  <2>3. IdentityVerified(e)' BY <1>5, <2>1, <2>2 DEF IdentityVerified
  <2>4. IdentityFact(e.authority, e.seen)' = IdentityFact(e.authority, e.seen)
    BY <2>2 DEF IdentityFact
  <2>5. IdentityMade(n, e)' BY <2>1, <2>2, <2>4 DEF IdentityMade
  <2>6. Verified(n)' BY <1>1, <1>7, <1>9, <2>3 DEF Verified
  <2>7. Made(n)' BY <1>1, <1>9, <2>5 DEF Made
  <2> QED BY <1>1, <1>3, <1>6, <2>6, <2>7 DEF Sound
<1>10. CASE e.command = "surfaces"
  <2>1. SurfacesVerified(e) /\ SurfacesMade(n, e) BY <1>3, <1>10, <1>e DEF Verified, Made
  <2>2. e.identity \in 1 .. n /\ log'[e.identity] = log[e.identity]
    BY <1>0, <1>1, <2>1 DEF SurfacesMade
  <2>3. SurfacesVerified(e)' BY <1>5, <2>1, <2>2 DEF SurfacesVerified
  <2>4. SurfacesFact(e.identity, e.probe)' = SurfacesFact(e.identity, e.probe)
    BY <2>2 DEF SurfacesFact
  <2>5. SurfacesMade(n, e)' BY <2>1, <2>2, <2>4 DEF SurfacesMade
  <2>6. Verified(n)' BY <1>1, <1>7, <1>10, <2>3 DEF Verified
  <2>7. Made(n)' BY <1>1, <1>10, <2>5 DEF Made
  <2> QED BY <1>1, <1>3, <1>6, <2>6, <2>7 DEF Sound
<1>11. CASE e.command = "enroll"
  <2>1. EnrollmentVerified(e) /\ EnrollmentMade(n, e) BY <1>3, <1>11, <1>e DEF Verified, Made
  <2>2. e.surface \in 1 .. n - 1 /\ log'[e.surface] = log[e.surface]
    BY <1>0, <1>1, <2>1 DEF EnrollmentMade
  <2>3. EnrollmentVerified(e)' BY <1>0, <1>5, <2>1, <2>2 DEF EnrollmentVerified
  <2>4. EnrollmentFact(e.surface)' = EnrollmentFact(e.surface)
    <3>1. log'[log[e.surface].authority] = log[log[e.surface].authority]
      BY <1>0, <1>1, <2>1 DEF EnrollmentMade
    <3> QED BY <2>2, <3>1 DEF EnrollmentFact
  <2>5. EnrollmentMade(n, e)' BY <2>1, <2>2, <2>4 DEF EnrollmentMade
  <2>6. Verified(n)' BY <1>1, <1>7, <1>11, <2>3 DEF Verified
  <2>7. Made(n)' BY <1>1, <1>11, <2>5 DEF Made
  <2> QED BY <1>1, <1>3, <1>6, <2>6, <2>7 DEF Sound
<1>12. CASE e.command = "hold"
  <2>1. /\ HoldVerified(n, e) /\ e.authority \in 1 .. n - 1 /\ e.expected = n - 1
        /\ e.choice \in {"impose", "clear"}
    BY <1>3, <1>12, <1>e DEF Verified, Made
  <2>2. e.authority \in 1 .. n /\ log'[e.authority] = log[e.authority] BY <1>0, <1>1, <2>1
  <2>3. DecisionOf(n - 1, e.repo) \in 0 .. n - 1 BY <1>0, LastOfIs DEF DecisionOf, Of
  <2>4. DecisionOf(n - 1, e.repo) # 0 =>
          log'[DecisionOf(n - 1, e.repo)] = log[DecisionOf(n - 1, e.repo)]
    BY <1>0, <1>1, <2>3
  <2>5. HoldVerified(n, e)' BY <1>2, <1>5, <2>1, <2>2, <2>4 DEF HoldVerified
  <2>6. Verified(n)' BY <1>1, <1>7, <1>12, <2>5 DEF Verified
  <2>7. Made(n)' BY <1>1, <1>12, <2>1 DEF Made
  <2> QED BY <1>1, <1>3, <1>6, <2>6, <2>7 DEF Sound
<1>13. CASE e.command = "installation"
  <2>1. InstallationVerified(n, e) BY <1>3, <1>13, <1>e DEF Verified
  <2>2. InstallationVerified(n, e)' BY <1>2, <2>1 DEF InstallationVerified, Ever
  <2>3. Verified(n)' BY <1>1, <1>7, <1>13, <2>2 DEF Verified
  <2>4. Made(n)' BY <1>1, <1>13 DEF Made
  <2> QED BY <1>1, <1>3, <1>6, <2>3, <2>4 DEF Sound
<1>14. CASE e.command \in {"initialize", "activate"}
  <2>1. Verified(n)' BY <1>1, <1>7, <1>14 DEF Verified
  <2>2. Made(n)' BY <1>1, <1>3, <1>14, <1>e DEF Made
  <2> QED BY <1>1, <1>3, <1>6, <2>1, <2>2 DEF Sound
<1> QED BY <1>3, <1>8, <1>9, <1>10, <1>11, <1>12, <1>13, <1>14 DEF Commands

-----------------------------------------------------------------------------
(* What the newest of some transactions is.                                *)

LEMMA Readings ==
  ASSUME IsHistory, NEW n \in 0 .. Now
  PROVE  /\ ActiveSnapshot(n) \in 0 .. n
         /\ ActiveSnapshot(n) # 0 => log[ActiveSnapshot(n)].command = "activate"
         /\ \A r : LET a == AuthorityOf(n, r)
                   IN /\ a \in 0 .. n
                      /\ a # 0 => /\ log[a].command = "materialize" /\ log[a].repo = r
                                  /\ log[a].snapshot = ActiveSnapshot(n)
         /\ \A a : LET i == IdentityOf(n, a)
                   IN /\ i \in 0 .. n /\ (i # 0 => log[i].command = "identity" /\ log[i].authority = a)
                      /\ \A m \in 1 .. n : log[m].command = "identity" /\ log[m].authority = a => m <= i
         /\ \A g : LET s == SurfaceOf(n, g)
                   IN /\ s \in 0 .. n /\ (s # 0 => log[s].command = "surfaces" /\ log[s].identity = g)
                      /\ \A m \in 1 .. n : log[m].command = "surfaces" /\ log[m].identity = g => m <= s
         /\ \A s : LET e == EnrollmentOf(n, s)
                   IN /\ e \in 0 .. n /\ (e # 0 => log[e].command = "enroll" /\ log[e].surface = s)
                      /\ \A m \in 1 .. n : log[m].command = "enroll" /\ log[m].surface = s => m <= e
         /\ \A r : LET d == DecisionOf(n, r)
                   IN d \in 0 .. n /\ (d # 0 => log[d].command = "hold" /\ log[d].repo = r)
<1>0. n \in Nat BY DEF IsHistory
<1>1. \A S \in SUBSET (1 .. n) :
        /\ LastOf(S) \in 0 .. n /\ (LastOf(S) # 0 => LastOf(S) \in S) /\ \A m \in S : m <= LastOf(S)
  BY <1>0, LastOfIs
<1>2. \A c : Of(n, c) \in SUBSET (1 .. n) /\ \A k : k \in Of(n, c) <=> k \in 1 .. n /\ log[k].command = c
  BY DEF Of
<1>3. ActiveSnapshot(n) \in 0 .. n /\ (ActiveSnapshot(n) # 0 => log[ActiveSnapshot(n)].command = "activate")
  BY <1>1, <1>2 DEF ActiveSnapshot
<1>4. ASSUME NEW r
      PROVE  LET a == AuthorityOf(n, r)
             IN /\ a \in 0 .. n
                /\ a # 0 => /\ log[a].command = "materialize" /\ log[a].repo = r
                            /\ log[a].snapshot = ActiveSnapshot(n)
  <2> DEFINE S == {k \in Of(n, "materialize") : log[k].repo = r /\ log[k].snapshot = ActiveSnapshot(n)}
  <2>1. AuthorityOf(n, r) = LastOf(S) BY DEF AuthorityOf
  <2>2. S \in SUBSET (1 .. n) BY <1>2
  <2> QED BY <1>1, <1>2, <2>1, <2>2
<1>5. ASSUME NEW a
      PROVE  LET i == IdentityOf(n, a)
             IN /\ i \in 0 .. n /\ (i # 0 => log[i].command = "identity" /\ log[i].authority = a)
                /\ \A m \in 1 .. n : log[m].command = "identity" /\ log[m].authority = a => m <= i
  <2>1. IdentityOf(n, a) = LastOf(Identities(n, a)) BY DEF IdentityOf, Identities
  <2>2. Identities(n, a) \in SUBSET (1 .. n) BY <1>2 DEF Identities
  <2> QED BY <1>1, <1>2, <2>1, <2>2 DEF Identities
<1>6. ASSUME NEW g
      PROVE  LET s == SurfaceOf(n, g)
             IN /\ s \in 0 .. n /\ (s # 0 => log[s].command = "surfaces" /\ log[s].identity = g)
                /\ \A m \in 1 .. n : log[m].command = "surfaces" /\ log[m].identity = g => m <= s
  <2>1. SurfaceOf(n, g) = LastOf(Surfaces(n, g)) BY DEF SurfaceOf, Surfaces
  <2>2. Surfaces(n, g) \in SUBSET (1 .. n) BY <1>2 DEF Surfaces
  <2> QED BY <1>1, <1>2, <2>1, <2>2 DEF Surfaces
<1>7. ASSUME NEW s
      PROVE  LET e == EnrollmentOf(n, s)
             IN /\ e \in 0 .. n /\ (e # 0 => log[e].command = "enroll" /\ log[e].surface = s)
                /\ \A m \in 1 .. n : log[m].command = "enroll" /\ log[m].surface = s => m <= e
  <2>1. EnrollmentOf(n, s) = LastOf(Enrollments(n, s)) BY DEF EnrollmentOf, Enrollments
  <2>2. Enrollments(n, s) \in SUBSET (1 .. n) BY <1>2 DEF Enrollments
  <2> QED BY <1>1, <1>2, <2>1, <2>2 DEF Enrollments
<1>8. ASSUME NEW r
      PROVE  LET d == DecisionOf(n, r)
             IN d \in 0 .. n /\ (d # 0 => log[d].command = "hold" /\ log[d].repo = r)
  <2>1. DecisionOf(n, r) = LastOf(Decisions(n, r)) BY DEF DecisionOf, Decisions
  <2>2. Decisions(n, r) \in SUBSET (1 .. n) BY <1>2 DEF Decisions
  <2> QED BY <1>1, <1>2, <2>1, <2>2 DEF Decisions
<1> QED BY <1>3, <1>4, <1>5, <1>6, <1>7, <1>8

-----------------------------------------------------------------------------
(* Appending one transaction.                                              *)

LEMMA JoinsKeeps ==
  ASSUME LogInv, NEW e, Extends(e), Sound(Now)',
         \A m \in 1 .. Now : log[m].command = log'[Now + 1].command => log[m].key # log'[Now + 1].key
  PROVE  LogInv'
<1>N. PICK N : N = Now + 1 OBVIOUS
<1>0. /\ Now \in Nat /\ N \in Nat /\ Now' = N /\ (1 .. N) = (1 .. Now) \cup {N} /\ N - 1 = Now
      /\ IsHistory /\ IsHistory' /\ Keeps /\ \A k \in 1 .. Now : log'[k] = log[k]
  BY <1>N DEF LogInv, IsHistory, Extends, Keeps
<1>1. \A n \in 1 .. Now' : Sound(n)'
  <2>1. \A n \in 1 .. Now : Sound(n)' BY <1>0, SoundStays DEF LogInv
  <2> QED BY <1>0, <2>1
<1>2. KeysDiffer'
  <2>1. ASSUME NEW k \in 1 .. Now, NEW m \in 1 .. k - 1, log'[m].command = log'[k].command
        PROVE  log'[m].key # log'[k].key
    <3>1. m \in 1 .. Now BY <1>0
    <3> QED BY <1>0, <2>1, <3>1 DEF LogInv, KeysDiffer
  <2>2. ASSUME NEW m \in 1 .. N - 1, log'[m].command = log'[N].command
        PROVE  log'[m].key # log'[N].key
    BY <1>0, <1>N, <2>2
  <2> QED BY <1>0, <2>1, <2>2 DEF KeysDiffer
<1> QED BY <1>0, <1>1, <1>2 DEF LogInv

(* What a command reads of the history before its own transaction, is what *)
(* the verification reads of it afterwards.                                *)
LEMMA ReadAfter ==
  ASSUME LogInv, NEW e, Extends(e), NEW M, M = Now
  PROVE  /\ Now' = M + 1 /\ M \in Nat /\ M >= 1 /\ (M + 1) - 1 = M
         /\ \A k \in 1 .. M : log'[k] = log[k] /\ k \in 1 .. M + 1
         /\ \A i \in 1 .. M : \A c : Fact(i, c)' <=> log[i].command = c
         /\ \A x : KeyOf(M, x)' = KeyOf(M, x)
         /\ ActiveSnapshot(M)' = ActiveSnapshot(M)
         /\ \A r : DecisionOf(M, r)' = DecisionOf(M, r)
         /\ \A r : LastOf(Ever(M, r))' = LastOf(Ever(M, r))
<1>1. IsHistory /\ IsHistory' /\ Keeps /\ M \in 0 .. Now /\ Now' = M + 1 /\ M \in Nat
  BY DEF LogInv, Extends, Keeps, IsHistory
<1>2. DOMAIN log' = 1 .. M + 1 BY <1>1 DEF IsHistory, Now
<1>3. \A i \in 1 .. M : \A c : Fact(i, c)' <=> log[i].command = c
  BY <1>1, <1>2 DEF Fact, Keeps
<1> QED BY <1>1, <1>3, SameReading DEF Extends, IsHistory

LEMMA OwnKeys ==
  ASSUME LogInv, NEW m \in 1 .. Now
  PROVE  log[m].key = KeyOf(m - 1, log[m]) /\ Made(m) /\ Verified(m) /\ Admitted(m)
BY DEF LogInv, Sound, Verified

LEMMA ActivateKeeps ==
  ASSUME LogInv, NEW c \in DOMAIN Catalogs, Appends([command |-> "activate", catalog |-> c])
  PROVE  LogInv' /\ \E e : Extends(e)
<1> DEFINE e == [command |-> "activate", catalog |-> c]
<1>M. PICK M : M = Now OBVIOUS
<1>f. PICK f : f = log'[M + 1] OBVIOUS
<1>1. Extends(e) BY AppendsExtends DEF LogInv
<1>2. /\ Now' = M + 1 /\ M \in Nat /\ M >= 1 /\ (M + 1) - 1 = M
      /\ \A x : KeyOf(M, x)' = KeyOf(M, x)
  BY <1>M, <1>1, ReadAfter
<1>3. f.command = "activate" /\ f.catalog = c /\ f.key = <<"activate", M>>
  BY <1>M, <1>f, <1>1 DEF Extends, KeyOf
<1>4. Sound(M + 1)'
  <2>1. f.key = KeyOf(M, f) BY <1>3 DEF KeyOf
  <2>2. f.key = KeyOf(M, f)' BY <1>2, <2>1
  <2>3. Verified(M + 1)' BY <1>2, <1>3, <1>f, <2>2 DEF Verified
  <2> QED BY <1>2, <1>3, <1>f, <2>3 DEF Sound, Made, Admitted, Commands
<1>5. \A m \in 1 .. Now : log[m].command = f.command => log[m].key # f.key
  <2>1. ASSUME NEW m \in 1 .. Now, log[m].command = "activate" PROVE log[m].key # f.key
    <3>1. log[m].key = <<"activate", m - 1>> BY <2>1, OwnKeys DEF KeyOf
    <3>2. m - 1 # M BY <1>2, <1>M
    <3> QED BY <1>3, <3>1, <3>2
  <2> QED BY <1>3, <2>1
<1> QED BY <1>1, <1>2, <1>4, <1>5, <1>M, <1>f, JoinsKeeps

LEMMA MaterializeKeeps ==
  ASSUME LogInv, NEW r, NEW snapshot, ActiveSnapshot(Now) = snapshot, r \in DeclaredIn(Now),
         LastOf({k \in Of(Now, "materialize") : log[k].key = <<snapshot, r>>}) = 0,
         Appends([command |-> "materialize", repo |-> r, snapshot |-> snapshot,
                  declaration |-> CatalogOf(snapshot)[r]])
  PROVE  LogInv' /\ \E e : Extends(e)
<1>d. PICK d : d = CatalogOf(snapshot)[r] OBVIOUS
<1> DEFINE e == [command |-> "materialize", repo |-> r, snapshot |-> snapshot, declaration |-> d]
<1>M. PICK M : M = Now OBVIOUS
<1>f. PICK f : f = log'[M + 1] OBVIOUS
<1>1. Extends(e) BY <1>d, AppendsExtends DEF LogInv
<1>2. /\ Now' = M + 1 /\ M \in Nat /\ M >= 1 /\ (M + 1) - 1 = M
      /\ \A x : KeyOf(M, x)' = KeyOf(M, x)
      /\ \A k \in 1 .. M : log'[k] = log[k]
      /\ \A i \in 1 .. M : \A c : Fact(i, c)' <=> log[i].command = c
  BY <1>M, <1>1, ReadAfter
<1>3. /\ f.command = "materialize" /\ f.repo = r /\ f.snapshot = snapshot /\ f.declaration = d
      /\ f.key = <<snapshot, r>>
  BY <1>M, <1>f, <1>1 DEF Extends, KeyOf
<1>4. snapshot \in 1 .. M /\ log[snapshot].command = "activate" /\ r \in DOMAIN CatalogOf(snapshot)
  <2>1. snapshot # 0 /\ r \in DOMAIN CatalogOf(snapshot) BY DEF DeclaredIn
  <2>2. Now \in 0 .. Now /\ IsHistory BY <1>2, <1>M DEF LogInv
  <2> QED BY <1>2, <1>M, <2>1, <2>2, Readings
<1>5. AuthorityAdmitted(f)
  <2>1. log[snapshot].catalog \in DOMAIN Catalogs BY <1>4, <1>M, OwnKeys DEF Made
  <2>2. AuthorityAdmitted([declaration |-> d])
    BY <1>4, <1>d, <2>1, DeclarationAssumption DEF CatalogOf
  <2> QED BY <1>3, <2>2 DEF AuthorityAdmitted
<1>6. Sound(M + 1)'
  <2>1. f.key = KeyOf(M, f) BY <1>3 DEF KeyOf
  <2>2. f.key = KeyOf(M, f)' BY <1>2, <2>1
  <2>3. AuthorityVerified(f)' BY <1>2, <1>3, <1>4, <1>d DEF AuthorityVerified, CatalogOf
  <2>4. Verified(M + 1)' BY <1>2, <1>3, <1>f, <2>2, <2>3 DEF Verified
  <2>5. Made(M + 1)' BY <1>2, <1>3, <1>4, <1>f DEF Made
  <2> QED BY <1>3, <1>5, <1>f, <2>4, <2>5 DEF Sound, Admitted, Commands
<1>7. \A m \in 1 .. Now : log[m].command = f.command => log[m].key # f.key
  <2> DEFINE S == {k \in Of(Now, "materialize") : log[k].key = <<snapshot, r>>}
  <2>1. S \in SUBSET (1 .. Now) BY DEF Of
  <2>2. S = {} BY <1>2, <1>M, <2>1, LastOfIs
  <2> QED BY <1>3, <2>2 DEF Of
<1> QED BY <1>1, <1>2, <1>6, <1>7, <1>M, <1>f, JoinsKeeps

(* A reconciliation of GitHub's answer.                                    *)
LEMMA IdentityAdmits ==
  ASSUME NEW a, AuthorityAdmitted(log[a]), NEW seen, seen # Null,
         seen.kind \in {"missing", "unavailable", "found"}
  PROVE  /\ IdentityAdmitted(IdentityFact(a, seen))
         /\ IdentityFact(a, seen).result = "matched" => seen.kind = "found"
<1>1. log[a].declaration.fleet \in Fleet BY DEF AuthorityAdmitted
<1>2. CASE seen.kind = "found"
  <2>r. PICK r : r = log[a].repo OBVIOUS
  <2>d. PICK d : d = log[a].declaration OBVIOUS
  <2> DEFINE declared == [id |-> r, locator |-> d.locator, fleet |-> d.fleet]
             e == IdentityFact(a, seen)
  <2>1. e.declared = declared /\ e.observed = seen /\ e.result = Classify(r, d, seen)
        /\ e.state = IdentityState(d.fleet, e.result)
    BY <1>2, <2>r, <2>d DEF IdentityFact
  <2>2. declared.id = r /\ declared.locator = d.locator /\ declared.fleet = d.fleet OBVIOUS
  <2> HIDE DEF declared, e
  <2>3. Classify(r, d, seen) = ObservedResult(declared, seen)
    BY <1>2, <2>2, Zenon DEF Classify, ObservedResult
  <2>4. Classify(r, d, seen) \in IdentityResults \ {"missing", "unavailable"}
    <3>1. Classify(r, d, seen) \in {"identity-mismatch", "locator-mismatch", "archived", "matched"}
      BY <1>2 DEF Classify
    <3> QED BY <3>1 DEF IdentityResults
  <2>5. IdentityState(d.fleet, e.result) = HeldBy(d.fleet, e.result)
    <3>1. d.fleet = "enabled" \/ d.fleet = "paused" \/ d.fleet = "disabled" BY <1>1, <2>d DEF Fleet
    <3> PICK fleet : fleet = d.fleet OBVIOUS
    <3> PICK result : result = e.result OBVIOUS
    <3>2. IdentityState(fleet, result) = HeldBy(fleet, result)
      BY <3>1 DEF IdentityState, HeldBy
    <3> QED BY <3>2
  <2> QED BY <1>2, <2>1, <2>2, <2>3, <2>4, <2>5 DEF IdentityAdmitted, e
<1>3. CASE seen.kind # "found"
  BY <1>1, <1>3 DEF IdentityAdmitted, IdentityFact, Classify, ObservedResult, IdentityState, HeldBy,
     IdentityResults, Fleet
<1> QED BY <1>2, <1>3

LEMMA IdentityKeeps ==
  ASSUME LogInv, NEW a \in 1 .. Now, log[a].command = "materialize", NEW seen, seen # Null,
         seen.kind \in {"missing", "unavailable", "found"}, Appends(IdentityFact(a, seen))
  PROVE  /\ LogInv' /\ \E e : Extends(e)
         /\ log'[Now + 1].command = "identity" /\ log'[Now + 1].seen = seen
         /\ log'[Now + 1].result = IdentityFact(a, seen).result
<1>e. PICK e : e = IdentityFact(a, seen) OBVIOUS
<1>M. PICK M : M = Now OBVIOUS
<1>f. PICK f : f = log'[M + 1] OBVIOUS
<1>1. Extends(e) BY <1>e, AppendsExtends DEF LogInv
<1>2. /\ Now' = M + 1 /\ M \in Nat /\ M >= 1 /\ (M + 1) - 1 = M
      /\ \A x : KeyOf(M, x)' = KeyOf(M, x)
      /\ \A k \in 1 .. M : log'[k] = log[k]
      /\ \A i \in 1 .. M : \A c : Fact(i, c)' <=> log[i].command = c
  BY <1>M, <1>1, ReadAfter
<1>3. /\ DOMAIN e = {"command", "repo", "snapshot", "authority", "declared", "seen", "observed",
                     "result", "state"}
      /\ e.command = "identity" /\ e.authority = a /\ e.seen = seen
      /\ e.repo = log[a].repo /\ e.snapshot = log[a].snapshot
      /\ e.declared.locator = log[a].declaration.locator
      /\ e.declared.fleet = log[a].declaration.fleet
  BY <1>e DEF IdentityFact
<1>4. /\ f.command = "identity" /\ f.repo = e.repo /\ f.snapshot = e.snapshot /\ f.authority = a
      /\ f.declared = e.declared /\ f.seen = seen /\ f.observed = e.observed
      /\ f.result = e.result /\ f.state = e.state
      /\ f.key = <<a, IdentityOf(M, a), seen>>
  BY <1>M, <1>f, <1>1, <1>3 DEF Extends, KeyOf, Follows
<1>5. IdentityAdmitted(f) /\ (f.result = "matched" => seen.kind = "found")
  <2>1. AuthorityAdmitted(log[a]) BY OwnKeys DEF Admitted
  <2>2. IdentityAdmitted(e) /\ (e.result = "matched" => seen.kind = "found")
    BY <1>e, <2>1, IdentityAdmits
  <2> QED BY <1>4, <2>2 DEF IdentityAdmitted
<1>6. IdentityFact(a, seen)' = e
  BY <1>2, <1>M, <1>e DEF IdentityFact
<1>7. Sound(M + 1)'
  <2>1. f.key = KeyOf(M, f) BY <1>4 DEF KeyOf, Follows
  <2>2. f.key = KeyOf(M, f)' BY <1>2, <2>1
  <2>3. IdentityVerified(f)' BY <1>2, <1>3, <1>4, <1>M DEF IdentityVerified
  <2>4. Verified(M + 1)' BY <1>2, <1>4, <1>f, <2>2, <2>3 DEF Verified
  <2>5. IdentityMade(M + 1, f)' BY <1>2, <1>4, <1>5, <1>6, <1>M DEF IdentityMade
  <2>6. Made(M + 1)' BY <1>4, <1>f, <2>5 DEF Made
  <2> QED BY <1>4, <1>5, <1>f, <2>4, <2>6 DEF Sound, Admitted, Commands
<1>8. \A m \in 1 .. Now : log[m].command = f.command => log[m].key # f.key
  <2>1. ASSUME NEW m \in 1 .. Now, log[m].command = "identity", log[m].key = <<a, IdentityOf(M, a), seen>>
        PROVE  FALSE
    <3>1. log[m].key = <<log[m].authority, IdentityOf(m - 1, log[m].authority), log[m].seen>>
      BY <2>1, OwnKeys DEF KeyOf, Follows
    <3>2. log[m].authority = a /\ IdentityOf(m - 1, a) = IdentityOf(M, a) BY <2>1, <3>1
    <3>3. M \in 0 .. Now /\ m - 1 \in 0 .. Now /\ IsHistory BY <1>2, <1>M DEF LogInv
    <3>4. m <= IdentityOf(M, a) /\ IdentityOf(M, a) \in 0 .. M
      BY <1>M, <2>1, <3>2, <3>3, Readings
    <3>5. IdentityOf(m - 1, a) \in 0 .. m - 1 BY <3>3, Readings
    <3> QED BY <1>2, <3>2, <3>4, <3>5
  <2> QED BY <1>4, <2>1
<1>9. LogInv' BY <1>1, <1>2, <1>7, <1>8, <1>M, <1>f, JoinsKeeps
<1> QED BY <1>1, <1>4, <1>9, <1>M, <1>f, <1>e

(* A probe of the surfaces, as inspectRepositorySurfaces makes it.         *)
GoodProbe(probe) ==
  \/ probe.kind = "unavailable"
  \/ /\ probe.kind = "resolved" /\ probe.branch # Null /\ probe.commit # Null
     /\ \A i \in 1 .. 4 : probe.entries[i] \in {"missing", "wrong-type", "present", "invalid"}

LEMMA EvaluateIs ==
  ASSUME NEW probe, GoodProbe(probe)
  PROVE  \/ probe.kind = "unavailable"
            /\ Evaluate(probe) = [result |-> "unavailable", failed |-> 0, summaries |-> 0]
         \/ probe.kind = "resolved" /\ Evaluate(probe) = [result |-> "valid", failed |-> 0, summaries |-> 4]
         \/ \E f \in 1 .. 4 :
              /\ probe.kind = "resolved" /\ probe.entries[f] \in {"missing", "wrong-type", "invalid"}
              /\ Evaluate(probe) =
                   [result |-> probe.entries[f], failed |-> f,
                    summaries |-> IF probe.entries[f] = "invalid" THEN f ELSE f - 1]
<1> DEFINE bad == {i \in 1 .. 4 : probe.entries[i] # "present"}
           f == CHOOSE i \in bad : \A j \in bad : i <= j
<1>1. CASE probe.kind = "unavailable" BY <1>1 DEF Evaluate
<1>2. CASE probe.kind # "unavailable" /\ bad = {}
  BY <1>2 DEF Evaluate, GoodProbe
<1>3. CASE probe.kind # "unavailable" /\ bad # {}
  <2>1. \E i \in bad : \A j \in bad : i <= j
    <3>1. bad \in SUBSET (1 .. 4) OBVIOUS
    <3> HIDE DEF bad
    <3>2. CASE 1 \in bad BY <3>1, <3>2
    <3>3. CASE 1 \notin bad /\ 2 \in bad BY <3>1, <3>3
    <3>4. CASE 1 \notin bad /\ 2 \notin bad /\ 3 \in bad BY <3>1, <3>4
    <3>5. CASE 1 \notin bad /\ 2 \notin bad /\ 3 \notin bad
      <4>1. \A i \in bad : i = 4 BY <3>1, <3>5
      <4> QED BY <1>3, <4>1
    <3> QED BY <3>2, <3>3, <3>4, <3>5
  <2>2. f \in bad BY <2>1
  <2>3. Evaluate(probe) = [result |-> probe.entries[f], failed |-> f,
                           summaries |-> IF probe.entries[f] = "invalid" THEN f ELSE f - 1]
    BY <1>3 DEF Evaluate
  <2> HIDE DEF f
  <2>4. f \in 1 .. 4 /\ probe.entries[f] \in {"missing", "wrong-type", "invalid"}
    BY <1>3, <2>2 DEF GoodProbe
  <2> QED BY <1>3, <2>3, <2>4 DEF GoodProbe
<1> QED BY <1>1, <1>2, <1>3

LEMMA SurfacesAdmits ==
  ASSUME NEW g, NEW probe, GoodProbe(probe)
  PROVE  /\ SurfacesAdmitted(SurfacesFact(g, probe))
         /\ SurfacesFact(g, probe).branch # Null => SurfacesFact(g, probe).branch = probe.branch
                                                   /\ probe.kind = "resolved"
<1>v. PICK v : v = Evaluate(probe) OBVIOUS
<1> DEFINE commit == IF probe.kind = "resolved" THEN probe.commit ELSE Null
           surfaces == [i \in 1 .. v.summaries |-> <<SurfaceIds[i], commit>>]
           e == SurfacesFact(g, probe)
<1>1. /\ e.result = v.result /\ e.commit = commit /\ e.surfaces = surfaces
      /\ e.branch = (IF commit = Null THEN Null ELSE probe.branch)
      /\ e.policy = (IF v.result = "valid" THEN commit ELSE Null)
      /\ e.decision = (IF v.result = "valid" THEN "permit" ELSE "deny")
      /\ e.requirements = Requirements(v, surfaces)
      /\ e.failed = (IF v.failed = 0 THEN Null ELSE SurfaceIds[v.failed])
  BY <1>v DEF SurfacesFact
<1>2. v.summaries \in 0 .. 4 BY <1>v, EvaluateIs
<1>3. Len(surfaces) = v.summaries /\ \A i \in 1 .. v.summaries : surfaces[i] = <<SurfaceIds[i], commit>>
  BY <1>2
<1>4. Len(e.requirements) = 4
  BY <1>1 DEF Requirements
<1> HIDE DEF surfaces, e
<1>5. CASE probe.kind = "unavailable"
  <2>1. v.result = "unavailable" /\ v.failed = 0 /\ v.summaries = 0 /\ commit = Null
    BY <1>5, <1>v, EvaluateIs
  <2>2. \A i \in 1 .. 4 : e.requirements[i] = Requirement("unknown", Null)
    BY <1>1, <2>1 DEF Requirements
  <2>3. surfaces = << >> BY <2>1 DEF surfaces
  <2> QED BY <1>1, <1>3, <1>4, <2>1, <2>2, <2>3 DEF SurfacesAdmitted, SurfaceResults, e
<1>6. CASE probe.kind = "resolved" /\ v = [result |-> "valid", failed |-> 0, summaries |-> 4]
  <2>1. v.result = "valid" /\ v.failed = 0 /\ v.summaries = 4 /\ commit = probe.commit
        /\ commit # Null /\ probe.branch # Null
    BY <1>6 DEF GoodProbe
  <2>2. \A i \in 1 .. 4 : e.requirements[i] = Requirement("pass", surfaces[i])
    BY <1>1, <1>3, <2>1 DEF Requirements
  <2> QED BY <1>1, <1>3, <1>4, <1>6, <2>1, <2>2 DEF SurfacesAdmitted, SurfaceResults, e
<1>7. ASSUME NEW f \in 1 .. 4, probe.kind = "resolved",
             probe.entries[f] \in {"missing", "wrong-type", "invalid"},
             v = [result |-> probe.entries[f], failed |-> f,
                  summaries |-> IF probe.entries[f] = "invalid" THEN f ELSE f - 1]
      PROVE  SurfacesAdmitted(e) /\ (e.branch # Null => e.branch = probe.branch /\ probe.kind = "resolved")
  <2>1. /\ v.result \in {"missing", "wrong-type", "invalid"} /\ v.failed = f /\ commit = probe.commit
        /\ v.summaries = (IF v.result = "invalid" THEN f ELSE f - 1)
        /\ commit # Null /\ probe.branch # Null
    BY <1>7 DEF GoodProbe
  <2>2. e.failed = SurfaceIds[f] BY <1>1, <2>1
  <2>3. \A i \in 1 .. 4 : SurfaceIds[i] = SurfaceIds[f] => i = f
    BY DEF SurfaceIds
  <2>4. (CHOOSE i \in 1 .. 4 : SurfaceIds[i] = e.failed) = f BY <2>2, <2>3
  <2>5. \A i \in 1 .. f - 1 : e.requirements[i] = Requirement("pass", surfaces[i])
    BY <1>1, <1>3, <2>1 DEF Requirements
  <2>6. e.requirements[f] = Requirement("fail", IF v.result = "invalid" THEN surfaces[f] ELSE Null)
    BY <1>1, <1>3, <2>1 DEF Requirements
  <2>7. \A i \in f + 1 .. 4 : e.requirements[i] = Requirement("unknown", Null)
    BY <1>1, <1>3, <2>1 DEF Requirements
  <2>8. \E i \in 1 .. 4 : SurfaceIds[i] = e.failed BY <2>2
  <2>9. Len(e.surfaces) <= 4 /\ \A i \in 1 .. Len(e.surfaces) : e.surfaces[i] = <<SurfaceIds[i], e.commit>>
    BY <1>1, <1>2, <1>3
  <2>10. Len(e.surfaces) = f - (IF e.result = "invalid" THEN 0 ELSE 1) BY <1>1, <1>3, <2>1
  <2>11. /\ e.result \in {"missing", "wrong-type", "invalid"} /\ e.branch # Null /\ e.commit # Null
         /\ e.policy = Null /\ e.decision = "deny"
    BY <1>1, <2>1
  <2> QED BY <1>1, <1>4, <1>7, <2>1, <2>4, <2>5, <2>6, <2>7, <2>8, <2>9, <2>10, <2>11
          DEF SurfacesAdmitted, SurfaceResults
<1> QED BY <1>5, <1>6, <1>7, <1>v, EvaluateIs DEF e

LEMMA SurfacesKeeps ==
  ASSUME LogInv, NEW g \in 1 .. Now, log[g].command = "identity", log[g].result = "matched",
         NEW probe, GoodProbe(probe), ProbeAccepted(probe, log[g].observed.branch),
         Appends(SurfacesFact(g, probe))
  PROVE  /\ LogInv' /\ \E e : Extends(e)
         /\ log'[Now + 1].command = "surfaces"
         /\ log'[Now + 1].result = SurfacesFact(g, probe).result
<1>e. PICK e : e = SurfacesFact(g, probe) OBVIOUS
<1>M. PICK M : M = Now OBVIOUS
<1>f. PICK f : f = log'[M + 1] OBVIOUS
<1>1. Extends(e) BY <1>e, AppendsExtends DEF LogInv
<1>2. /\ Now' = M + 1 /\ M \in Nat /\ M >= 1 /\ (M + 1) - 1 = M
      /\ \A x : KeyOf(M, x)' = KeyOf(M, x)
      /\ \A k \in 1 .. M : log'[k] = log[k]
      /\ \A i \in 1 .. M : \A c : Fact(i, c)' <=> log[i].command = c
  BY <1>M, <1>1, ReadAfter
<1>3. /\ DOMAIN e = {"command", "repo", "snapshot", "authority", "identity", "probe", "branch",
                     "commit", "surfaces", "policy", "decision", "requirements", "result", "failed"}
      /\ e.command = "surfaces" /\ e.identity = g /\ e.probe = probe
      /\ e.repo = log[g].repo /\ e.snapshot = log[g].snapshot /\ e.authority = log[g].authority
  BY <1>e DEF SurfacesFact
<1>4. /\ f.command = "surfaces" /\ f.repo = e.repo /\ f.snapshot = e.snapshot
      /\ f.authority = e.authority /\ f.identity = g /\ f.probe = probe /\ f.branch = e.branch
      /\ f.commit = e.commit /\ f.surfaces = e.surfaces /\ f.policy = e.policy
      /\ f.decision = e.decision /\ f.requirements = e.requirements /\ f.result = e.result
      /\ f.failed = e.failed /\ f.key = <<g, SurfaceOf(M, g), probe>>
  BY <1>M, <1>f, <1>1, <1>3 DEF Extends, KeyOf, Follows
<1>5. SurfacesAdmitted(f)
  <2>1. SurfacesAdmitted(e) BY <1>e, SurfacesAdmits
  <2> QED BY <1>4, <2>1 DEF SurfacesAdmitted
<1>6. SurfacesFact(g, probe)' = e
  BY <1>2, <1>M, <1>e DEF SurfacesFact
<1>7. Sound(M + 1)'
  <2>1. f.key = KeyOf(M, f) BY <1>4 DEF KeyOf, Follows
  <2>2. f.key = KeyOf(M, f)' BY <1>2, <2>1
  <2>3. f.branch # Null => f.branch = log[g].observed.branch
    BY <1>4, <1>e, SurfacesAdmits DEF ProbeAccepted
  <2>4. SurfacesVerified(f)' BY <1>2, <1>3, <1>4, <1>M, <2>3 DEF SurfacesVerified
  <2>5. Verified(M + 1)' BY <1>2, <1>4, <1>f, <2>2, <2>4 DEF Verified
  <2>6. SurfacesMade(M + 1, f)' BY <1>2, <1>4, <1>6, <1>M, <1>3 DEF SurfacesMade
  <2>7. Made(M + 1)' BY <1>4, <1>f, <2>6 DEF Made
  <2> QED BY <1>4, <1>5, <1>f, <2>5, <2>7 DEF Sound, Admitted, Commands
<1>8. \A m \in 1 .. Now : log[m].command = f.command => log[m].key # f.key
  <2>1. ASSUME NEW m \in 1 .. Now, log[m].command = "surfaces", log[m].key = <<g, SurfaceOf(M, g), probe>>
        PROVE  FALSE
    <3>1. log[m].key = <<log[m].identity, SurfaceOf(m - 1, log[m].identity), log[m].probe>>
      BY <2>1, OwnKeys DEF KeyOf, Follows
    <3>2. log[m].identity = g /\ SurfaceOf(m - 1, g) = SurfaceOf(M, g) BY <2>1, <3>1
    <3>3. M \in 0 .. Now /\ m - 1 \in 0 .. Now /\ IsHistory BY <1>2, <1>M DEF LogInv
    <3>4. m <= SurfaceOf(M, g) /\ SurfaceOf(M, g) \in 0 .. M BY <1>M, <2>1, <3>2, <3>3, Readings
    <3>5. SurfaceOf(m - 1, g) \in 0 .. m - 1 BY <3>3, Readings
    <3> QED BY <1>2, <3>2, <3>4, <3>5
  <2> QED BY <1>4, <2>1
<1>9. LogInv' BY <1>1, <1>2, <1>7, <1>8, <1>M, <1>f, JoinsKeeps
<1> QED BY <1>1, <1>4, <1>9, <1>M, <1>f, <1>e

LEMMA EnrollKeeps ==
  ASSUME LogInv, NEW s \in 1 .. Now, log[s].command = "surfaces", log[s].result = "valid",
         EnrollmentOf(Now, s) = 0, log[s].authority \in 1 .. Now,
         log[log[s].authority].command = "materialize",
         log[log[s].authority].declaration.fleet = "enabled", Appends(EnrollmentFact(s))
  PROVE  LogInv' /\ \E e : Extends(e)
<1>e. PICK e : e = EnrollmentFact(s) OBVIOUS
<1>M. PICK M : M = Now OBVIOUS
<1>f. PICK f : f = log'[M + 1] OBVIOUS
<1>a. PICK a : a = log[s].authority OBVIOUS
<1>1. Extends(e) BY <1>e, AppendsExtends DEF LogInv
<1>2. /\ Now' = M + 1 /\ M \in Nat /\ M >= 1 /\ (M + 1) - 1 = M
      /\ \A x : KeyOf(M, x)' = KeyOf(M, x)
      /\ \A k \in 1 .. M : log'[k] = log[k]
      /\ \A i \in 1 .. M : \A c : Fact(i, c)' <=> log[i].command = c
  BY <1>M, <1>1, ReadAfter
<1>3. /\ DOMAIN e = {"command", "repo", "snapshot", "authority", "identity", "surface", "commit",
                     "programs", "ceiling"}
      /\ e.command = "enroll" /\ e.surface = s /\ e.repo = log[s].repo
      /\ e.snapshot = log[s].snapshot /\ e.authority = a /\ e.identity = log[s].identity
      /\ e.commit = log[s].commit /\ e.programs = log[a].declaration.programs
      /\ e.ceiling = log[a].declaration.ceiling
  BY <1>e, <1>a DEF EnrollmentFact
<1>4. /\ f.command = "enroll" /\ f.repo = e.repo /\ f.snapshot = e.snapshot
      /\ f.authority = e.authority /\ f.identity = e.identity /\ f.surface = s
      /\ f.commit = e.commit /\ f.programs = e.programs /\ f.ceiling = e.ceiling
      /\ f.key = <<s>>
  BY <1>M, <1>f, <1>1, <1>3 DEF Extends, KeyOf
<1>5. EnrollmentAdmitted(f)
  <2>1. SurfacesAdmitted(log[s]) /\ AuthorityAdmitted(log[a]) BY <1>a, OwnKeys DEF Admitted
  <2>2. log[s].commit # Null BY <2>1 DEF SurfacesAdmitted
  <2>3. log[a].declaration.programs # {} /\ log[a].declaration.ceiling # {}
    BY <1>a, <2>1 DEF AuthorityAdmitted
  <2> QED BY <1>3, <1>4, <2>2, <2>3 DEF EnrollmentAdmitted
<1>6. EnrollmentFact(s)' = e
  BY <1>2, <1>M, <1>e, <1>a DEF EnrollmentFact
<1>7. Sound(M + 1)'
  <2>1. f.key = KeyOf(M, f) BY <1>4 DEF KeyOf
  <2>2. f.key = KeyOf(M, f)' BY <1>2, <2>1
  <2>3. EnrollmentVerified(f)' BY <1>2, <1>3, <1>4, <1>M, <1>a DEF EnrollmentVerified
  <2>4. Verified(M + 1)' BY <1>2, <1>4, <1>f, <2>2, <2>3 DEF Verified
  <2>5. EnrollmentMade(M + 1, f)' BY <1>2, <1>4, <1>6, <1>M, <1>a DEF EnrollmentMade
  <2>6. Made(M + 1)' BY <1>4, <1>f, <2>5 DEF Made
  <2> QED BY <1>4, <1>5, <1>f, <2>4, <2>6 DEF Sound, Admitted, Commands
<1>8. \A m \in 1 .. Now : log[m].command = f.command => log[m].key # f.key
  <2>1. ASSUME NEW m \in 1 .. Now, log[m].command = "enroll", log[m].key = <<s>> PROVE FALSE
    <3>0. <<log[m].surface>> = <<s>> BY <2>1, OwnKeys DEF KeyOf
    <3>1. log[m].surface = s
      <4>1. <<log[m].surface>>[1] = <<s>>[1] BY <3>0
      <4> QED BY <4>1
    <3>2. Now \in 0 .. Now /\ IsHistory BY <1>2, <1>M DEF LogInv
    <3>3. m <= EnrollmentOf(Now, s) BY <2>1, <3>1, <3>2, Readings
    <3> QED BY <1>2, <1>M, <3>3
  <2> QED BY <1>4, <2>1
<1> QED BY <1>1, <1>2, <1>7, <1>8, <1>M, <1>f, JoinsKeeps

(* The chain of a repository's facts.                                      *)
LEMMA StatusIs ==
  ASSUME LogInv, NEW n \in 1 .. Now, NEW r, NEW t, t = Status(n, r)
  PROVE  /\ {t.authority, t.identity, t.surface, t.enrollment, t.hold} \subseteq 0 .. n
         /\ t.authority = AuthorityOf(n, r) /\ t.hold = HoldOf(n, r)
         /\ t.authority # 0 => /\ log[t.authority].command = "materialize" /\ log[t.authority].repo = r
                               /\ log[t.authority].snapshot = ActiveSnapshot(n)
                               /\ t.fleet = log[t.authority].declaration.fleet /\ t.fleet \in Fleet
         /\ t.identity # 0 => /\ t.authority # 0 /\ t.identity = IdentityOf(n, t.authority)
                              /\ log[t.identity].command = "identity"
                              /\ log[t.identity].authority = t.authority
                              /\ log[t.identity].repo = r
                              /\ log[t.identity].snapshot = ActiveSnapshot(n)
         /\ t.surface # 0 => /\ t.identity # 0 /\ t.surface = SurfaceOf(n, t.identity)
                             /\ log[t.surface].command = "surfaces"
                             /\ log[t.surface].identity = t.identity
                             /\ log[t.surface].authority = t.authority
                             /\ log[t.surface].repo = r
                             /\ log[t.surface].snapshot = ActiveSnapshot(n)
         /\ t.enrollment # 0 => /\ t.surface # 0 /\ t.enrollment = EnrollmentOf(n, t.surface)
                                /\ log[t.enrollment].command = "enroll"
                                /\ log[t.enrollment].surface = t.surface
                                /\ log[t.enrollment].identity = t.identity
                                /\ log[t.enrollment].authority = t.authority
                                /\ log[t.enrollment].repo = r
                                /\ log[t.enrollment].snapshot = ActiveSnapshot(n)
<1>0. IsHistory /\ n \in 0 .. Now /\ n \in Nat /\ Now \in Nat BY DEF LogInv, IsHistory
<1> DEFINE a == AuthorityOf(n, r)
           i == IF a = 0 THEN 0 ELSE IdentityOf(n, a)
           s == IF i = 0 THEN 0 ELSE SurfaceOf(n, i)
           e == IF s = 0 THEN 0 ELSE EnrollmentOf(n, s)
<1>1. /\ t.authority = a /\ t.identity = i /\ t.surface = s /\ t.enrollment = e
      /\ t.hold = HoldOf(n, r)
      /\ t.fleet = (IF a = 0 THEN Null ELSE log[a].declaration.fleet)
  BY DEF Status
<1>2. /\ a \in 0 .. n
      /\ a # 0 => log[a].command = "materialize" /\ log[a].repo = r /\ log[a].snapshot = ActiveSnapshot(n)
  BY <1>0, Readings
<1>3. i \in 0 .. n /\ (i # 0 => a # 0 /\ i = IdentityOf(n, a) /\ log[i].command = "identity"
                                /\ log[i].authority = a)
  BY <1>0, Readings
<1>4. s \in 0 .. n /\ (s # 0 => i # 0 /\ s = SurfaceOf(n, i) /\ log[s].command = "surfaces"
                                /\ log[s].identity = i)
  BY <1>0, Readings
<1>5. e \in 0 .. n /\ (e # 0 => s # 0 /\ e = EnrollmentOf(n, s) /\ log[e].command = "enroll"
                                /\ log[e].surface = s)
  BY <1>0, Readings
<1>6. HoldOf(n, r) \in 0 .. n
  <2>1. DecisionOf(n, r) \in 0 .. n BY <1>0, Readings
  <2> QED BY <1>0, <2>1 DEF HoldOf
<1> HIDE DEF a, i, s, e
<1>7. a # 0 => log[a].declaration.fleet \in Fleet
  <2>1. a # 0 => a \in 1 .. Now BY <1>0, <1>2
  <2> QED BY <1>2, <2>1, OwnKeys DEF Admitted, AuthorityAdmitted
<1>8. i # 0 => log[i].repo = r /\ log[i].snapshot = ActiveSnapshot(n)
  <2>1. i # 0 => i \in 1 .. Now BY <1>0, <1>3
  <2>2. i # 0 => IdentityVerified(log[i]) BY <1>3, <2>1, OwnKeys DEF Verified
  <2> QED BY <1>2, <1>3, <2>2 DEF IdentityVerified
<1>9. s # 0 => log[s].repo = r /\ log[s].snapshot = ActiveSnapshot(n) /\ log[s].authority = a
  <2>1. s # 0 => s \in 1 .. Now BY <1>0, <1>4
  <2>2. s # 0 => SurfacesVerified(log[s]) BY <1>4, <2>1, OwnKeys DEF Verified
  <2> QED BY <1>3, <1>4, <1>8, <2>2 DEF SurfacesVerified
<1>10. e # 0 => /\ log[e].repo = r /\ log[e].snapshot = ActiveSnapshot(n)
               /\ log[e].authority = a /\ log[e].identity = i
  <2>1. e # 0 => e \in 1 .. Now BY <1>0, <1>5
  <2>2. e # 0 => EnrollmentVerified(log[e]) BY <1>5, <2>1, OwnKeys DEF Verified
  <2> QED BY <1>4, <1>5, <1>9, <2>2 DEF EnrollmentVerified
<1>11. a = AuthorityOf(n, r) BY DEF a
<1>12. a # 0 => t.fleet = log[a].declaration.fleet BY <1>1
<1> QED BY <1>1, <1>2, <1>3, <1>4, <1>5, <1>6, <1>7, <1>8, <1>9, <1>10, <1>11, <1>12

LEMMA HoldKeeps ==
  ASSUME LogInv, NEW r, NEW choice \in {"impose", "clear"}, NEW t, t = Status(Now, r),
         t.authority # 0, (choice = "impose") <=> (t.hold = 0),
         Appends(HoldFact(r, choice, ActiveSnapshot(Now), t.authority, t.hold))
  PROVE  LogInv' /\ \E e : Extends(e)
<1>M. PICK M : M = Now OBVIOUS
<1>e. PICK e : e = HoldFact(r, choice, ActiveSnapshot(M), t.authority, t.hold) OBVIOUS
<1>f. PICK f : f = log'[M + 1] OBVIOUS
<1>a. PICK a : a = t.authority OBVIOUS
<1>1. Extends(e) BY <1>e, <1>M, AppendsExtends DEF LogInv
<1>2. /\ Now' = M + 1 /\ M \in Nat /\ M >= 1 /\ (M + 1) - 1 = M
      /\ \A x : KeyOf(M, x)' = KeyOf(M, x)
      /\ ActiveSnapshot(M)' = ActiveSnapshot(M)
      /\ \A q : DecisionOf(M, q)' = DecisionOf(M, q)
      /\ \A k \in 1 .. M : log'[k] = log[k]
      /\ \A i \in 1 .. M : \A c : Fact(i, c)' <=> log[i].command = c
  BY <1>M, <1>1, ReadAfter
<1>3. /\ DOMAIN e = {"command", "repo", "snapshot", "authority", "choice", "declaration", "hold",
                     "previous", "gates", "expected"}
      /\ e.command = "hold" /\ e.repo = r /\ e.snapshot = ActiveSnapshot(M) /\ e.authority = a
      /\ e.choice = choice /\ e.declaration = log[a].declaration /\ e.gates = HoldGates
      /\ e.expected = M /\ e.hold = (IF choice = "impose" THEN M + 1 ELSE t.hold)
      /\ e.previous = (IF choice = "impose" THEN 0 ELSE t.hold)
  BY <1>e, <1>M, <1>a DEF HoldFact
<1>4. /\ f.command = "hold" /\ f.repo = r /\ f.snapshot = e.snapshot
      /\ f.authority = a /\ f.choice = choice /\ f.declaration = e.declaration
      /\ f.hold = e.hold /\ f.previous = e.previous /\ f.gates = e.gates /\ f.expected = M
      /\ f.key = KeyOf(M, e)
  BY <1>M, <1>f, <1>1, <1>3 DEF Extends
<1>5. /\ a \in 1 .. M /\ log[a].command = "materialize" /\ log[a].repo = r
      /\ log[a].snapshot = ActiveSnapshot(M) /\ t.hold = HoldOf(M, r) /\ t.hold \in 0 .. M
  <2>1. Now \in 1 .. Now BY <1>2, <1>M
  <2> QED BY <1>a, <1>M, <1>2, <2>1, StatusIs
<1>6. HoldAdmitted(f, M + 1)
  BY <1>2, <1>3, <1>4, <1>5 DEF HoldAdmitted
<1>7. Sound(M + 1)'
  <2>1. f.key = KeyOf(M, f) BY <1>3, <1>4 DEF KeyOf
  <2>2. f.key = KeyOf(M, f)' BY <1>2, <2>1
  <2>d. PICK d : d = DecisionOf(M, r) OBVIOUS
  <2>3. d \in 0 .. M /\ (d # 0 => log[d].command = "hold")
    BY <1>2, <1>M, <2>d, Readings DEF LogInv
  <2>4. t.hold = (IF d # 0 /\ log[d].choice = "impose" THEN d ELSE 0) BY <1>5, <2>d DEF HoldOf
  <2>5. d # 0 => log'[d] = log[d] /\ log[d].choice \in {"impose", "clear"}
    <3>1. d # 0 => d \in 1 .. M BY <1>2, <2>3
    <3> QED BY <1>2, <1>M, <2>3, <3>1, OwnKeys DEF Made
  <2>6. IF choice = "impose" THEN d # 0 => log'[d].choice = "clear"
        ELSE d # 0 /\ d = f.hold /\ log'[d].choice = "impose"
    BY <1>3, <1>4, <2>3, <2>4, <2>5
  <2>7. HoldVerified(M + 1, f)'
    BY <1>2, <1>3, <1>4, <1>5, <2>d, <2>6 DEF HoldVerified
  <2>8. Verified(M + 1)' BY <1>2, <1>4, <1>f, <2>2, <2>7 DEF Verified
  <2>9. Made(M + 1)' BY <1>2, <1>4, <1>5, <1>f DEF Made
  <2> QED BY <1>2, <1>4, <1>6, <1>f, <2>8, <2>9 DEF Sound, Admitted, Commands
<1>8. \A m \in 1 .. Now : log[m].command = f.command => log[m].key # f.key
  <2>1. ASSUME NEW m \in 1 .. Now, log[m].command = "hold" PROVE log[m].key # f.key
    <3>1. log[m].expected = m - 1 BY <2>1, OwnKeys DEF Made
    <3>2. log[m].key[2] = m - 1
      <4>1. log[m].key = IF log[m].choice = "impose" THEN <<"impose", m - 1, log[m].repo>>
                         ELSE <<"clear", m - 1, log[m].hold>>
        BY <2>1, <3>1, OwnKeys DEF KeyOf
      <4> QED BY <4>1
    <3>3. f.key[2] = M
      <4>1. f.key = IF choice = "impose" THEN <<"impose", M, r>> ELSE <<"clear", M, e.hold>>
        BY <1>3, <1>4 DEF KeyOf
      <4> QED BY <4>1
    <3> QED BY <1>2, <1>M, <3>2, <3>3
  <2> QED BY <1>4, <2>1
<1> QED BY <1>1, <1>2, <1>7, <1>8, <1>M, <1>f, JoinsKeeps

LEMMA InstallationKeeps ==
  ASSUME LogInv, NEW r, Status(Now, r).enrollment # 0, NEW i \in Inspections,
         LastOf({k \in Of(Now, "installation") : log[k].key = <<r, i>>}) = 0,
         Appends([command |-> "installation", repo |-> r, inspection |-> i, access |-> i.access,
                  installation |-> IF i.access \in {"not-installed", "unavailable"} THEN Null
                                   ELSE i.installation,
                  response |-> IF i.access = "unavailable" THEN Null ELSE i,
                  cause |-> LastOf({k \in Of(Now, "enroll") : log[k].repo = r}),
                  expected |-> Now])
  PROVE  LogInv' /\ \E e : Extends(e)
<1>M. PICK M : M = Now OBVIOUS
<1>c. PICK cause : cause = LastOf(Ever(M, r)) OBVIOUS
<1>n. PICK installation : installation = IF i.access \in {"not-installed", "unavailable"} THEN Null
                                         ELSE i.installation
  OBVIOUS
<1>p. PICK response : response = IF i.access = "unavailable" THEN Null ELSE i OBVIOUS
<1> DEFINE e == [command |-> "installation", repo |-> r, inspection |-> i, access |-> i.access,
                 installation |-> installation, response |-> response, cause |-> cause, expected |-> M]
<1>f. PICK f : f = log'[M + 1] OBVIOUS
<1>1. Extends(e)
  <2>1. Appends(e) BY <1>M, <1>c, <1>n, <1>p DEF Ever
  <2> QED BY <2>1, AppendsExtends DEF LogInv
<1>2. /\ Now' = M + 1 /\ M \in Nat /\ M >= 1 /\ (M + 1) - 1 = M
      /\ \A x : KeyOf(M, x)' = KeyOf(M, x)
      /\ \A u : LastOf(Ever(M, u))' = LastOf(Ever(M, u))
      /\ IsHistory /\ Now \in 1 .. Now
  BY <1>M, <1>1, ReadAfter DEF LogInv
<1>3. /\ f.command = "installation" /\ f.repo = r /\ f.inspection = i /\ f.access = i.access
      /\ f.installation = installation /\ f.response = response /\ f.cause = cause /\ f.expected = M
      /\ f.key = <<r, i>>
  BY <1>M, <1>f, <1>1 DEF Extends, KeyOf
<1>4. InstallationAdmitted(f)
  BY <1>3, <1>n, <1>p, GitHubAssumption DEF InstallationAdmitted
<1>5. cause # 0
  <2>t. PICK t : t = Status(Now, r) OBVIOUS
  <2>1. t.enrollment \in 1 .. M /\ log[t.enrollment].command = "enroll" /\ log[t.enrollment].repo = r
    BY <1>2, <1>M, <2>t, StatusIs
  <2>2. Ever(M, r) \in SUBSET (1 .. M) /\ t.enrollment \in Ever(M, r) BY <2>1 DEF Ever, Of
  <2> QED BY <1>2, <1>c, <2>2, LastOfIs
<1>6. Sound(M + 1)'
  <2>1. f.key = KeyOf(M, f) BY <1>3 DEF KeyOf
  <2>2. f.key = KeyOf(M, f)' BY <1>2, <2>1
  <2>3. InstallationVerified(M + 1, f)'
    <3>1. LastOf(Ever(M, r))' = cause BY <1>2, <1>c
    <3> QED BY <1>2, <1>3, <1>5, <3>1 DEF InstallationVerified, Ever
  <2>4. Verified(M + 1)' BY <1>2, <1>3, <1>f, <2>2, <2>3 DEF Verified
  <2>5. Made(M + 1)' BY <1>3, <1>f DEF Made
  <2> QED BY <1>3, <1>4, <1>f, <2>4, <2>5 DEF Sound, Admitted, Commands
<1>7. \A m \in 1 .. Now : log[m].command = f.command => log[m].key # f.key
  <2> DEFINE S == {k \in Of(Now, "installation") : log[k].key = <<r, i>>}
  <2>1. S \in SUBSET (1 .. Now) BY DEF Of
  <2>2. S = {} BY <1>2, <1>M, <2>1, LastOfIs
  <2> QED BY <1>3, <2>2 DEF Of
<1> QED BY <1>1, <1>2, <1>6, <1>7, <1>M, <1>f, JoinsKeeps

-----------------------------------------------------------------------------
(* The passes.                                                             *)

Stages == {"idle", "begin", "materialize", "reread", "inspect", "record", "probe", "surfaces", "enroll"}

(* What each stage of a pass may count on.                                 *)
PassSound(s) ==
  /\ DOMAIN s = {"pc", "snapshot", "rest", "authority", "seen", "identity", "probe", "surface"}
  /\ s.pc \in Stages /\ s.rest \subseteq Repos
  /\ {s.snapshot, s.authority, s.identity, s.surface} \subseteq 0 .. Now
  /\ s.pc \notin {"idle", "begin"} => s.rest # {}
  /\ s.pc \in {"inspect", "record"} => s.authority # 0 /\ log[s.authority].command = "materialize"
  /\ s.pc \in {"record", "probe"} => \E a \in Answer : s.seen = Inspection(a)
  /\ s.pc = "probe" => s.seen.kind = "found"
  /\ s.pc \in {"probe", "surfaces"} =>
       s.identity # 0 /\ log[s.identity].command = "identity" /\ log[s.identity].result = "matched"
  /\ s.pc = "surfaces" => GoodProbe(s.probe) /\ s.probe # Null
  /\ s.pc = "enroll" =>
       s.surface # 0 /\ log[s.surface].command = "surfaces" /\ log[s.surface].result = "valid"

PassInv == DOMAIN pass = Passes /\ \A p \in Passes : PassSound(pass[p])
WorldInv ==
  /\ DOMAIN world = Repos
  /\ \A r \in Repos : world[r] \in [answer : Answers[r], content : Contents[r]]
Inv == LogInv /\ PassInv /\ WorldInv /\ ready \in BOOLEAN /\ changes \in 0 .. MaxChanges

LEMMA LogKept == ASSUME LogInv, log' = log PROVE LogInv' /\ IsHistory' /\ Keeps /\ Now' = Now
<1>1. IsHistory /\ IsHistory' /\ Now' = Now /\ Keeps BY DEF LogInv, IsHistory, Keeps, Now
<1>2. \A n \in 1 .. Now' : Sound(n)' BY <1>1, SoundStays DEF LogInv
<1> QED BY <1>1, <1>2 DEF LogInv, KeysDiffer

LEMMA PassStays ==
  ASSUME IsHistory, Keeps, Now' \in Nat, NEW s, PassSound(s) PROVE PassSound(s)'
<1>1. /\ \A k \in 0 .. Now : k \in 0 .. Now' /\ (k # 0 => log'[k] = log[k])
  BY DEF IsHistory, Keeps
<1> QED BY <1>1 DEF PassSound

LEMMA StepKeeps ==
  ASSUME LogInv, PassInv, Keeps, Now' \in Nat, NEW p \in Passes, NEW s, Step(p, s), PassSound(s)'
  PROVE  PassInv'
<1>1. /\ DOMAIN pass' = Passes /\ pass'[p] = s
      /\ \A q \in Passes : q # p => pass'[q] = pass[q]
  BY DEF PassInv, Step
<1>2. ASSUME NEW q \in Passes PROVE PassSound(pass[q])'
  <2>1. CASE q = p
    <3>1. pass'[q] = s BY <1>1, <2>1
    <3> QED BY <3>1 DEF PassSound
  <2>2. CASE q # p
    <3> PICK x : x = pass[q] OBVIOUS
    <3>1. PassSound(x)' BY PassStays DEF LogInv, PassInv
    <3>2. pass'[q] = x BY <1>1, <2>2
    <3> QED BY <3>1, <3>2 DEF PassSound
  <2> QED BY <2>1, <2>2
<1> QED BY <1>1, <1>2 DEF PassInv

LEMMA PassesStay ==
  ASSUME LogInv, PassInv, Keeps, Now' \in Nat, UNCHANGED pass PROVE PassInv'
<1>1. ASSUME NEW q \in Passes PROVE PassSound(pass[q])'
  <2> PICK x : x = pass[q] OBVIOUS
  <2>1. PassSound(x)' BY PassStays DEF LogInv, PassInv
  <2>2. pass'[q] = x OBVIOUS
  <2> QED BY <2>1, <2>2 DEF PassSound
<1> QED BY <1>1 DEF PassInv

LEMMA CurrentIs ==
  ASSUME PassInv, NEW p \in Passes, pass[p].rest # {}
  PROVE  Current(p) \in pass[p].rest /\ Current(p) \in Repos
<1>1. pass[p].rest \subseteq Repos /\ Repos \subseteq Nat
  BY EnrollmentAssumption DEF PassInv, PassSound
<1>2. \E x \in pass[p].rest : \A y \in pass[p].rest : ~ (<<y, x>> \in OpToRel(<, Nat))
  BY <1>1, NatLessThanWellFounded, WFMin
<1>3. PICK x \in pass[p].rest : \A y \in pass[p].rest : ~ (y < x) BY <1>1, <1>2 DEF OpToRel
<1>4. \A y \in pass[p].rest : x <= y
  <2>1. x \in Nat /\ \A y \in pass[p].rest : y \in Nat BY <1>1
  <2> QED BY <1>3, <2>1
<1>5. Current(p) \in pass[p].rest BY <1>4 DEF Current
<1> QED BY <1>1, <1>5

LEMMA IdleSound == ASSUME IsHistory PROVE PassSound(Idle)
BY DEF PassSound, Idle, Stages, IsHistory

LEMMA ContinueSound ==
  ASSUME IsHistory, PassInv, NEW p \in Passes PROVE PassSound(Continue(p))
<1>1. pass[p].rest \subseteq Repos /\ pass[p].snapshot \in 0 .. Now BY DEF PassInv, PassSound
<1> DEFINE rest == pass[p].rest \ {Current(p)}
<1>2. rest \subseteq Repos BY <1>1
<1>3. /\ Continue(p).pc = "begin" /\ Continue(p).snapshot = pass[p].snapshot /\ Continue(p).rest = rest
      /\ Continue(p).authority = 0 /\ Continue(p).identity = 0 /\ Continue(p).surface = 0
      /\ DOMAIN Continue(p) = {"pc", "snapshot", "rest", "authority", "seen", "identity", "probe", "surface"}
  BY DEF Continue, Idle
<1> HIDE DEF rest
<1> QED BY <1>1, <1>2, <1>3 DEF PassSound, Stages, IsHistory

LEMMA ProbeIsGood ==
  ASSUME NEW x \in Content, NEW a \in Answer, Inspection(a).kind = "found"
  PROVE  GoodProbe(ProbeOf(x, Inspection(a).branch)) /\ ProbeOf(x, Inspection(a).branch) # Null
<1>1. a.status = 200 /\ Inspection(a).branch = a.branch BY DEF Inspection
<1>2. ProbeOf(x, a.branch) # Null /\ a.branch # Null BY <1>1, GitHubAssumption
<1>3. CASE x.status # 200
  <2>1. ProbeOf(x, a.branch).kind = "unavailable" BY <1>3 DEF ProbeOf
  <2> QED BY <1>1, <1>2, <2>1 DEF GoodProbe
<1>4. CASE x.status = 200
  <2>1. /\ x.commit # Null
        /\ \A i \in 1 .. 4 : x.at[i] \in {"absent", "file-above", "present", "wrong-type", "invalid"}
    BY <1>4, GitHubAssumption
  <2>2. \A i \in 1 .. 4 : Resolve(i, x.at[i]) \in {"missing", "wrong-type", "present", "invalid"}
    BY <2>1 DEF Resolve
  <2>3. /\ ProbeOf(x, a.branch).kind = "resolved" /\ ProbeOf(x, a.branch).branch = a.branch
        /\ ProbeOf(x, a.branch).commit = x.commit
        /\ \A i \in 1 .. 4 : ProbeOf(x, a.branch).entries[i] = Resolve(i, x.at[i])
    BY <1>4 DEF ProbeOf
  <2> QED BY <1>1, <1>2, <2>1, <2>2, <2>3 DEF GoodProbe
<1> QED BY <1>3, <1>4

-----------------------------------------------------------------------------
(* The steps of a pass.                                                    *)

(* Nothing of the record changes but the pass.                             *)
LEMMA OnlyPass ==
  ASSUME Inv, log' = log, UNCHANGED <<ready, world>>, changes' \in 0 .. MaxChanges,
         NEW p \in Passes, NEW s, Step(p, s), PassSound(s)
  PROVE  Inv'
<1>1. LogInv' /\ IsHistory' /\ Keeps /\ Now' = Now BY LogKept DEF Inv
<1>2. Now' \in Nat BY <1>1 DEF IsHistory
<1>3. PassSound(s)' BY <1>1, <1>2, PassStays DEF Inv, LogInv
<1>4. PassInv' BY <1>1, <1>2, <1>3, StepKeeps DEF Inv
<1> QED BY <1>1, <1>4 DEF Inv, WorldInv

(* A transaction of the pass is appended.                                  *)
LEMMA PassWrites ==
  ASSUME Inv, LogInv', NEW e, Extends(e), UNCHANGED <<ready, world, changes>>, NEW p \in Passes, NEW s,
         Step(p, s), PassSound(s)'
  PROVE  Inv'
<1>1. Keeps /\ Now' \in Nat BY DEF Inv, LogInv, Extends, Keeps, IsHistory
<1>2. PassInv' BY <1>1, StepKeeps DEF Inv
<1> QED BY <1>2 DEF Inv, WorldInv

LEMMA Goes ==
  ASSUME Inv, NEW p \in Passes, NEW s, s = pass[p]
  PROVE  /\ PassSound(s) /\ IsHistory
         /\ \A c : [s EXCEPT !.pc = c].pc = c
BY DEF Inv, PassInv, PassSound, LogInv

LEMMA ConsiderKeeps ==
  ASSUME Inv, NEW p \in Passes, pass[p].rest # {}, log' = log, UNCHANGED <<ready, world, changes>>,
         NEW r, NEW t, t = Status(Now, r), t.authority # 0, Consider(p, t)
  PROVE  Inv'
<1>s. PICK s : s = pass[p] OBVIOUS
<1>1. PassSound(s) /\ IsHistory BY <1>s, Goes
<1>2. Now \in 1 .. Now BY <1>1 DEF IsHistory
<1>3. t.authority \in 0 .. Now /\ log[t.authority].command = "materialize"
  BY <1>2, StatusIs DEF Inv
<1> DEFINE u == [s EXCEPT !.pc = "inspect", !.authority = t.authority]
<1>4. PassSound(u)
  <2>1. /\ u.pc = "inspect" /\ u.authority = t.authority /\ u.rest = s.rest /\ u.snapshot = s.snapshot
        /\ u.identity = s.identity /\ u.surface = s.surface /\ DOMAIN u = DOMAIN s
    BY <1>1 DEF PassSound
  <2> HIDE DEF u
  <2> QED BY <1>1, <1>3, <1>s, <2>1 DEF PassSound, Stages
<1>5. PassSound(Continue(p)) BY <1>1, ContinueSound DEF Inv
<1>6. Step(p, Continue(p)) \/ Step(p, u) BY <1>s DEF Consider
<1>7. changes' \in 0 .. MaxChanges BY DEF Inv
<1> HIDE DEF u
<1> QED BY <1>4, <1>5, <1>6, <1>7, OnlyPass

LEMMA ChangedIs == ASSUME Inv, Changed PROVE changes' \in 0 .. MaxChanges
BY EnrollmentAssumption DEF Inv, Changed

LEMMA StartPassKeeps == ASSUME Inv, NEW p \in Passes, StartPass(p) PROVE Inv'
<1> DEFINE snapshot == ActiveSnapshot(Now)
           rest == DeclaredIn(Now)
           u == [Idle EXCEPT !.pc = "begin", !.snapshot = snapshot, !.rest = rest]
<1>0. IsHistory /\ Now \in 0 .. Now /\ changes \in 0 .. MaxChanges BY DEF Inv, LogInv, IsHistory
<1>1. snapshot \in 0 .. Now /\ (snapshot # 0 => log[snapshot].command = "activate")
  BY <1>0, Readings
<1>2. rest \subseteq Repos
  <2>1. CASE snapshot = 0 BY <2>1 DEF DeclaredIn
  <2>2. CASE snapshot # 0
    <3>1. snapshot \in 1 .. Now BY <1>0, <1>1, <2>2
    <3>2. log[snapshot].catalog \in DOMAIN Catalogs BY <1>1, <2>2, <3>1, OwnKeys DEF Inv, Made
    <3> QED BY <2>2, <3>2, EnrollmentAssumption DEF DeclaredIn, CatalogOf
  <2> QED BY <2>1, <2>2
<1> HIDE DEF snapshot, rest
<1>3. PassSound(u)
  <2>1. /\ u.pc = "begin" /\ u.snapshot = snapshot /\ u.rest = rest /\ u.authority = 0
        /\ u.identity = 0 /\ u.surface = 0
        /\ DOMAIN u = {"pc", "snapshot", "rest", "authority", "seen", "identity", "probe", "surface"}
    BY DEF Idle
  <2> HIDE DEF u
  <2> QED BY <1>0, <1>1, <1>2, <2>1 DEF PassSound, Stages
<1>4. changes' \in 0 .. MaxChanges BY <1>0, ChangedIs DEF StartPass
<1>5. Step(p, u) /\ log' = log /\ UNCHANGED <<ready, world>> BY DEF StartPass, snapshot, rest
<1> HIDE DEF u
<1> QED BY <1>3, <1>4, <1>5, OnlyPass

LEMMA StopKeeps ==
  ASSUME Inv, NEW p \in Passes, Abort(p) \/ EndPass(p) PROVE Inv'
<1>1. PassSound(Idle) BY IdleSound DEF Inv, LogInv
<1>2. Step(p, Idle) /\ log' = log /\ UNCHANGED <<ready, world>> BY DEF Abort, EndPass
<1>3. changes' \in 0 .. MaxChanges BY ChangedIs DEF Abort, EndPass, Inv
<1> QED BY <1>1, <1>2, <1>3, OnlyPass

LEMMA RefusedKeeps ==
  ASSUME Inv, NEW p \in Passes, Refused(p), UNCHANGED <<ready, world, changes>> PROVE Inv'
<1>1. PassSound(Idle) BY IdleSound DEF Inv, LogInv
<1>2. Step(p, Idle) /\ log' = log /\ changes' \in 0 .. MaxChanges BY DEF Refused, Inv
<1> QED BY <1>1, <1>2, OnlyPass

LEMMA BeginKeeps == ASSUME Inv, NEW p \in Passes, Begin(p) PROVE Inv'
<1>s. PICK s : s = pass[p] OBVIOUS
<1>r. PICK r : r = Current(p) OBVIOUS
<1>1. PassSound(s) /\ IsHistory BY <1>s, Goes
<1>2. s.pc = "begin" /\ s.rest # {} /\ log' = log /\ UNCHANGED <<ready, world, changes>>
  BY <1>s DEF Begin
<1>3. CASE ActiveSnapshot(Now) = s.snapshot /\ AuthorityOf(Now, r) # 0
  <2>t. PICK t : t = Status(Now, r) OBVIOUS
  <2>1. Consider(p, t) BY <1>3, <1>s, <1>r, <2>t DEF Begin
  <2>2. t.authority # 0 BY <1>3, <2>t DEF Status
  <2> QED BY <1>2, <1>s, <2>t, <2>1, <2>2, ConsiderKeeps
<1>4. CASE ~(ActiveSnapshot(Now) = s.snapshot /\ AuthorityOf(Now, r) # 0)
  <2> DEFINE u == [s EXCEPT !.pc = "materialize"]
  <2>1. Step(p, u) BY <1>4, <1>s, <1>r DEF Begin
  <2>2. PassSound(u)
    <3>1. /\ u.pc = "materialize" /\ u.authority = s.authority /\ u.rest = s.rest
          /\ u.snapshot = s.snapshot /\ u.identity = s.identity /\ u.surface = s.surface
          /\ DOMAIN u = DOMAIN s
      BY <1>1 DEF PassSound
    <3> HIDE DEF u
    <3> QED BY <1>1, <1>2, <3>1 DEF PassSound, Stages
  <2>3. changes' \in 0 .. MaxChanges BY <1>2 DEF Inv
  <2> HIDE DEF u
  <2> QED BY <1>2, <2>1, <2>2, <2>3, OnlyPass
<1> QED BY <1>3, <1>4

LEMMA MaterializeStepKeeps == ASSUME Inv, NEW p \in Passes, Materialize(p) PROVE Inv'
<1>s. PICK s : s = pass[p] OBVIOUS
<1>r. PICK r : r = Current(p) OBVIOUS
<1>1. PassSound(s) /\ IsHistory BY <1>s, Goes
<1> DEFINE prior == LastOf({k \in Of(Now, "materialize") : log[k].key = <<s.snapshot, r>>})
           u == [s EXCEPT !.pc = "reread"]
<1>2. s.pc = "materialize" /\ UNCHANGED <<ready, world, changes>> BY <1>s DEF Materialize
<1>3. /\ u.pc = "reread" /\ u.authority = s.authority /\ u.rest = s.rest
      /\ u.snapshot = s.snapshot /\ u.identity = s.identity /\ u.surface = s.surface
      /\ DOMAIN u = DOMAIN s
  BY <1>1 DEF PassSound
<1>4. changes' \in 0 .. MaxChanges BY <1>2 DEF Inv
<1>5. \/ UNCHANGED log /\ Step(p, u)
      \/ /\ prior = 0 /\ ActiveSnapshot(Now) = s.snapshot /\ r \in DeclaredIn(Now)
         /\ Appends([command |-> "materialize", repo |-> r, snapshot |-> s.snapshot,
                     declaration |-> CatalogOf(s.snapshot)[r]])
         /\ Step(p, u)
      \/ Refused(p)
  BY <1>s, <1>r DEF Materialize
<1> HIDE DEF prior, u
<1>6. PassSound(u) BY <1>1, <1>2, <1>3 DEF PassSound, Stages
<1>7. CASE UNCHANGED log /\ Step(p, u) BY <1>2, <1>4, <1>6, <1>7, OnlyPass
<1>8. CASE /\ prior = 0 /\ ActiveSnapshot(Now) = s.snapshot /\ r \in DeclaredIn(Now)
           /\ Appends([command |-> "materialize", repo |-> r, snapshot |-> s.snapshot,
                       declaration |-> CatalogOf(s.snapshot)[r]])
           /\ Step(p, u)
  <2>1. LogInv' /\ \E e : Extends(e) BY <1>8, MaterializeKeeps DEF Inv, prior
  <2>2. PICK e : Extends(e) BY <2>1
  <2>3. Keeps /\ Now' \in Nat BY <1>1, <2>2 DEF Extends, Keeps, IsHistory
  <2>4. PassSound(u)' BY <1>1, <1>6, <2>3, PassStays
  <2> QED BY <1>2, <1>8, <2>1, <2>2, <2>4, PassWrites
<1>9. CASE Refused(p) BY <1>2, <1>9, RefusedKeeps
<1> QED BY <1>5, <1>7, <1>8, <1>9

LEMMA RereadKeeps == ASSUME Inv, NEW p \in Passes, Reread(p) PROVE Inv'
<1>s. PICK s : s = pass[p] OBVIOUS
<1>r. PICK r : r = Current(p) OBVIOUS
<1>1. PassSound(s) /\ IsHistory BY <1>s, Goes
<1>2. s.pc = "reread" /\ log' = log /\ UNCHANGED <<ready, world, changes>> BY <1>s DEF Reread
<1>3. s.rest # {} BY <1>1, <1>2 DEF PassSound
<1>4. CASE r \in DeclaredIn(Now) /\ AuthorityOf(Now, r) # 0
  <2>t. PICK t : t = Status(Now, r) OBVIOUS
  <2>1. Consider(p, t) BY <1>4, <1>r, <2>t DEF Reread
  <2>2. t.authority # 0 BY <1>4, <2>t DEF Status
  <2> QED BY <1>2, <1>3, <1>s, <2>t, <2>1, <2>2, ConsiderKeeps
<1>5. CASE ~(r \in DeclaredIn(Now) /\ AuthorityOf(Now, r) # 0)
  <2>1. Refused(p) BY <1>2, <1>5, <1>r DEF Reread, Refused
  <2> QED BY <1>2, <2>1, RefusedKeeps
<1> QED BY <1>4, <1>5

LEMMA InspectKeeps == ASSUME Inv, NEW p \in Passes, Inspect(p) PROVE Inv'
<1>s. PICK s : s = pass[p] OBVIOUS
<1>1. PassSound(s) /\ IsHistory BY <1>s, Goes
<1>2. s.pc = "inspect" /\ log' = log /\ UNCHANGED <<ready, world, changes>> BY <1>s DEF Inspect
<1>3. s.rest # {} BY <1>1, <1>2 DEF PassSound
<1>4. Current(p) \in Repos BY <1>3, <1>s, CurrentIs DEF Inv
<1>a. PICK a : a = world[Current(p)].answer OBVIOUS
<1>5. a \in Answer BY <1>4, <1>a DEF Inv, WorldInv, Answer
<1> DEFINE u == [s EXCEPT !.pc = "record", !.seen = Inspection(a)]
<1>6. Step(p, u) BY <1>s, <1>a DEF Inspect
<1>7. PassSound(u)
  <2>1. /\ u.pc = "record" /\ u.authority = s.authority /\ u.rest = s.rest /\ u.seen = Inspection(a)
        /\ u.snapshot = s.snapshot /\ u.identity = s.identity /\ u.surface = s.surface
        /\ DOMAIN u = DOMAIN s
    BY <1>1 DEF PassSound
  <2> HIDE DEF u
  <2> QED BY <1>1, <1>2, <1>5, <2>1 DEF PassSound, Stages
<1>8. changes' \in 0 .. MaxChanges BY <1>2 DEF Inv
<1> HIDE DEF u
<1> QED BY <1>2, <1>6, <1>7, <1>8, OnlyPass

LEMMA RecordIdentityKeeps == ASSUME Inv, NEW p \in Passes, RecordIdentity(p) PROVE Inv'
<1>s. PICK s : s = pass[p] OBVIOUS
<1>a. PICK a : a = s.authority OBVIOUS
<1>n. PICK newest : newest = IdentityOf(Now, a) OBVIOUS
<1>t. PICK result : result = IdentityFact(a, s.seen).result OBVIOUS
<1>M. PICK M : M = Now OBVIOUS
<1>1. PassSound(s) /\ IsHistory BY <1>s, Goes
<1> DEFINE u(i) == [s EXCEPT !.pc = "probe", !.identity = i]
           After(i) == IF result = "matched" THEN Step(p, u(i)) ELSE Step(p, Continue(p))
<1>2. s.pc = "record" /\ UNCHANGED <<ready, world, changes>> BY <1>s DEF RecordIdentity
<1>3. \/ Refused(p)
      \/ newest # 0 /\ log[newest].seen = s.seen /\ UNCHANGED log /\ After(newest)
      \/ Appends(IdentityFact(a, s.seen)) /\ After(Now + 1)
  BY <1>s, <1>a, <1>n, <1>t DEF RecordIdentity
<1>4. \A i : /\ u(i).pc = "probe" /\ u(i).authority = a /\ u(i).rest = s.rest /\ u(i).seen = s.seen
            /\ u(i).snapshot = s.snapshot /\ u(i).identity = i /\ u(i).surface = s.surface
            /\ DOMAIN u(i) = DOMAIN s
  BY <1>1, <1>a DEF PassSound
<1> HIDE DEF u
<1>5. PICK x \in Answer : s.seen = Inspection(x) BY <1>1, <1>2 DEF PassSound
<1>6. s.seen # Null /\ s.seen.kind \in {"missing", "unavailable", "found"}
  <2>1. Inspection(x) # Null BY GitHubAssumption
  <2>2. Inspection(x).kind \in {"missing", "unavailable", "found"} BY DEF Inspection
  <2> QED BY <1>5, <2>1, <2>2
<1>7. a \in 1 .. Now /\ log[a].command = "materialize"
  BY <1>1, <1>2, <1>a DEF PassSound, IsHistory
<1>8. result = "matched" => s.seen.kind = "found"
  <2>1. AuthorityAdmitted(log[a]) BY <1>7, OwnKeys DEF Admitted, Inv
  <2> PICK seen : seen = s.seen OBVIOUS
  <2>2. seen # Null /\ seen.kind \in {"missing", "unavailable", "found"} BY <1>6
  <2>3. IdentityFact(a, seen).result = "matched" => seen.kind = "found" BY <2>1, <2>2, IdentityAdmits
  <2>4. result = IdentityFact(a, seen).result BY <1>t
  <2> QED BY <2>3, <2>4
<1>9. changes' \in 0 .. MaxChanges BY <1>2 DEF Inv
<1>10. PassSound(Continue(p)) BY <1>1, ContinueSound DEF Inv
<1>11. CASE newest # 0 /\ log[newest].seen = s.seen /\ UNCHANGED log /\ After(newest)
  <2>1. newest \in 1 .. Now /\ log[newest].command = "identity" /\ log[newest].authority = a
    <3>1. IsHistory /\ Now \in 0 .. Now /\ Now \in Nat BY <1>1 DEF IsHistory
    <3>2. IdentityOf(Now, a) \in 0 .. Now BY <3>1, Readings
    <3>3. IdentityOf(Now, a) # 0 => /\ log[IdentityOf(Now, a)].command = "identity"
                                   /\ log[IdentityOf(Now, a)].authority = a
      BY <3>1, Readings
    <3>4. newest = IdentityOf(Now, a) /\ newest # 0 BY <1>11, <1>n
    <3>5. newest \in 1 .. Now BY <3>1, <3>2, <3>4
    <3> QED BY <3>3, <3>4, <3>5
  <2>2. log[newest].result = result
    <3>1. IdentityMade(newest, log[newest]) BY <2>1, OwnKeys DEF Made, Inv
    <3> QED BY <1>11, <1>t, <2>1, <3>1 DEF IdentityMade
  <2>3. CASE result = "matched"
    <3>1. PassSound(u(newest))
      <4> PICK v : v = u(newest) OBVIOUS
      <4>1. /\ v.pc = "probe" /\ v.authority = a /\ v.rest = s.rest /\ v.seen = s.seen
            /\ v.snapshot = s.snapshot /\ v.identity = newest /\ v.surface = s.surface
            /\ DOMAIN v = DOMAIN s
        BY <1>4
      <4>2. (\E y \in Answer : v.seen = Inspection(y)) /\ v.seen.kind = "found"
        BY <1>5, <1>8, <2>3, <4>1
      <4>3. PassSound(v) BY <1>1, <1>2, <1>a, <2>1, <2>2, <2>3, <4>1, <4>2 DEF PassSound, Stages
      <4> QED BY <4>3
    <3>2. Step(p, u(newest)) BY <1>11, <2>3
    <3> QED BY <1>2, <1>9, <1>11, <3>1, <3>2, OnlyPass
  <2>4. CASE result # "matched"
    <3>1. Step(p, Continue(p)) BY <1>11, <2>4
    <3> QED BY <1>2, <1>9, <1>10, <1>11, <3>1, OnlyPass
  <2> QED BY <2>3, <2>4
<1>12. CASE Appends(IdentityFact(a, s.seen)) /\ After(Now + 1)
  <2>1. /\ LogInv' /\ \E e : Extends(e)
        /\ log'[Now + 1].command = "identity" /\ log'[Now + 1].result = result
    BY <1>6, <1>7, <1>12, <1>t, IdentityKeeps DEF Inv
  <2>2. PICK e : Extends(e) BY <2>1
  <2>3. Keeps /\ Now' \in Nat /\ Now' = M + 1 /\ M + 1 \in 0 .. Now' /\ M + 1 # 0
    BY <1>1, <1>M, <2>2 DEF Extends, Keeps, IsHistory
  <2>4. CASE result = "matched"
    <3>1. PassSound(s)' BY <1>1, <2>3, PassStays
    <3>2. PassSound(u(M + 1))'
      <4> PICK v : v = u(M + 1) OBVIOUS
      <4>1. /\ v.pc = "probe" /\ v.authority = a /\ v.rest = s.rest /\ v.seen = s.seen
            /\ v.snapshot = s.snapshot /\ v.identity = M + 1 /\ v.surface = s.surface
            /\ DOMAIN v = DOMAIN s
        BY <1>4
      <4>2. (\E y \in Answer : v.seen = Inspection(y)) /\ v.seen.kind = "found"
        BY <1>5, <1>8, <2>4, <4>1
      <4>3. PassSound(v)'
        BY <1>2, <1>a, <1>M, <2>1, <2>3, <2>4, <3>1, <4>1, <4>2 DEF PassSound, Stages
      <4> QED BY <4>3
    <3>3. Step(p, u(M + 1)) BY <1>12, <1>M, <2>4
    <3> QED BY <1>2, <2>1, <2>2, <3>2, <3>3, PassWrites
  <2>5. CASE result # "matched"
    <3> PICK v : v = Continue(p) OBVIOUS
    <3>1. Step(p, v) BY <1>12, <2>5
    <3>2. PassSound(v)' BY <1>1, <1>10, <2>3, PassStays
    <3> QED BY <1>2, <2>1, <2>2, <3>1, <3>2, PassWrites
  <2> QED BY <2>4, <2>5
<1>13. CASE Refused(p) BY <1>2, <1>13, RefusedKeeps
<1> HIDE DEF After
<1> QED BY <1>3, <1>11, <1>12, <1>13

LEMMA ProbeKeeps == ASSUME Inv, NEW p \in Passes, Probe(p) PROVE Inv'
<1>s. PICK s : s = pass[p] OBVIOUS
<1>1. PassSound(s) /\ IsHistory BY <1>s, Goes
<1>2. s.pc = "probe" /\ log' = log /\ UNCHANGED <<ready, world, changes>> BY <1>s DEF Probe
<1>3. s.rest # {} BY <1>1, <1>2 DEF PassSound
<1>4. Current(p) \in Repos BY <1>3, <1>s, CurrentIs DEF Inv
<1>x. PICK x : x = world[Current(p)].content OBVIOUS
<1>5. x \in Content BY <1>4, <1>x DEF Inv, WorldInv, Content
<1>6. PICK a \in Answer : s.seen = Inspection(a) BY <1>1, <1>2 DEF PassSound
<1>7. GoodProbe(ProbeOf(x, s.seen.branch)) /\ ProbeOf(x, s.seen.branch) # Null
  BY <1>1, <1>2, <1>5, <1>6, ProbeIsGood DEF PassSound
<1> DEFINE probe == ProbeOf(x, s.seen.branch)
           u == [s EXCEPT !.pc = "surfaces", !.probe = probe]
<1>8. Step(p, u) BY <1>s, <1>x DEF Probe
<1> HIDE DEF probe
<1>9. PassSound(u)
  <2>1. /\ u.pc = "surfaces" /\ u.authority = s.authority /\ u.rest = s.rest /\ u.seen = s.seen
        /\ u.snapshot = s.snapshot /\ u.identity = s.identity /\ u.surface = s.surface
        /\ u.probe = probe /\ DOMAIN u = DOMAIN s
    BY <1>1 DEF PassSound
  <2>2. GoodProbe(probe) /\ probe # Null BY <1>7 DEF probe
  <2> HIDE DEF u
  <2> QED BY <1>1, <1>2, <2>1, <2>2 DEF PassSound, Stages
<1>10. changes' \in 0 .. MaxChanges BY <1>2 DEF Inv
<1> HIDE DEF u
<1> QED BY <1>2, <1>8, <1>9, <1>10, OnlyPass

LEMMA RecordSurfacesKeeps == ASSUME Inv, NEW p \in Passes, RecordSurfaces(p) PROVE Inv'
<1>s. PICK s : s = pass[p] OBVIOUS
<1>g. PICK g : g = s.identity OBVIOUS
<1>n. PICK newest : newest = SurfaceOf(Now, g) OBVIOUS
<1>t. PICK result : result = SurfacesFact(g, s.probe).result OBVIOUS
<1>M. PICK M : M = Now OBVIOUS
<1>1. PassSound(s) /\ IsHistory BY <1>s, Goes
<1> DEFINE u(i) == [s EXCEPT !.pc = "enroll", !.surface = i]
           After(i) == IF result = "valid" THEN Step(p, u(i)) ELSE Step(p, Continue(p))
<1>2. s.pc = "surfaces" /\ UNCHANGED <<ready, world, changes>> BY <1>s DEF RecordSurfaces
<1>3. \/ Refused(p)
      \/ newest # 0 /\ log[newest].probe = s.probe /\ UNCHANGED log /\ After(newest)
      \/ /\ ProbeAccepted(s.probe, log[g].observed.branch)
         /\ Appends(SurfacesFact(g, s.probe)) /\ After(Now + 1)
  BY <1>s, <1>g, <1>n, <1>t DEF RecordSurfaces
<1>4. \A i : /\ u(i).pc = "enroll" /\ u(i).authority = s.authority /\ u(i).rest = s.rest
            /\ u(i).seen = s.seen /\ u(i).snapshot = s.snapshot /\ u(i).identity = g
            /\ u(i).surface = i /\ DOMAIN u(i) = DOMAIN s
  BY <1>1, <1>g DEF PassSound
<1> HIDE DEF u
<1>5. GoodProbe(s.probe) BY <1>1, <1>2 DEF PassSound
<1>7. g \in 1 .. Now /\ log[g].command = "identity" /\ log[g].result = "matched"
  BY <1>1, <1>2, <1>g DEF PassSound, IsHistory
<1>9. changes' \in 0 .. MaxChanges BY <1>2 DEF Inv
<1>10. PassSound(Continue(p)) BY <1>1, ContinueSound DEF Inv
<1>11. CASE newest # 0 /\ log[newest].probe = s.probe /\ UNCHANGED log /\ After(newest)
  <2>1. newest \in 1 .. Now /\ log[newest].command = "surfaces" /\ log[newest].identity = g
    <3>1. IsHistory /\ Now \in 0 .. Now /\ Now \in Nat BY <1>1 DEF IsHistory
    <3>2. SurfaceOf(Now, g) \in 0 .. Now BY <3>1, Readings
    <3>3. SurfaceOf(Now, g) # 0 => /\ log[SurfaceOf(Now, g)].command = "surfaces"
                                   /\ log[SurfaceOf(Now, g)].identity = g
      BY <3>1, Readings
    <3>4. newest = SurfaceOf(Now, g) /\ newest # 0 BY <1>11, <1>n
    <3>5. newest \in 1 .. Now BY <3>1, <3>2, <3>4
    <3> QED BY <3>3, <3>4, <3>5
  <2>2. log[newest].result = result
    <3>1. SurfacesMade(newest, log[newest]) BY <2>1, OwnKeys DEF Made, Inv
    <3> QED BY <1>11, <1>t, <2>1, <3>1 DEF SurfacesMade
  <2>3. CASE result = "valid"
    <3>1. PassSound(u(newest))
      BY <1>1, <1>2, <1>4, <2>1, <2>2, <2>3, <1>g DEF PassSound, Stages
    <3>2. Step(p, u(newest)) BY <1>11, <2>3
    <3> QED BY <1>2, <1>9, <1>11, <3>1, <3>2, OnlyPass
  <2>4. CASE result # "valid"
    <3>1. Step(p, Continue(p)) BY <1>11, <2>4
    <3> QED BY <1>2, <1>9, <1>10, <1>11, <3>1, OnlyPass
  <2> QED BY <2>3, <2>4
<1>12. CASE /\ ProbeAccepted(s.probe, log[g].observed.branch)
            /\ Appends(SurfacesFact(g, s.probe)) /\ After(Now + 1)
  <2>1. /\ LogInv' /\ \E e : Extends(e)
        /\ log'[Now + 1].command = "surfaces" /\ log'[Now + 1].result = result
    BY <1>5, <1>7, <1>12, <1>t, SurfacesKeeps DEF Inv
  <2>2. PICK e : Extends(e) BY <2>1
  <2>3. Keeps /\ Now' \in Nat /\ Now' = M + 1 /\ M + 1 \in 0 .. Now' /\ M + 1 # 0
    BY <1>1, <1>M, <2>2 DEF Extends, Keeps, IsHistory
  <2>4. CASE result = "valid"
    <3>1. PassSound(s)' BY <1>1, <2>3, PassStays
    <3>2. PassSound(u(M + 1))'
      <4> PICK v : v = u(M + 1) OBVIOUS
      <4>1. PassSound(v)'
        BY <1>2, <1>4, <1>M, <1>g, <2>1, <2>3, <2>4, <3>1 DEF PassSound, Stages
      <4> QED BY <4>1
    <3>3. Step(p, u(M + 1)) BY <1>12, <1>M, <2>4
    <3> QED BY <1>2, <2>1, <2>2, <3>2, <3>3, PassWrites
  <2>5. CASE result # "valid"
    <3> PICK v : v = Continue(p) OBVIOUS
    <3>1. Step(p, v) BY <1>12, <2>5
    <3>2. PassSound(v)' BY <1>1, <1>10, <2>3, PassStays
    <3> QED BY <1>2, <2>1, <2>2, <3>1, <3>2, PassWrites
  <2> QED BY <2>4, <2>5
<1>13. CASE Refused(p) BY <1>2, <1>13, RefusedKeeps
<1> HIDE DEF After
<1> QED BY <1>3, <1>11, <1>12, <1>13

LEMMA EnrollStepKeeps == ASSUME Inv, NEW p \in Passes, Enroll(p) PROVE Inv'
<1>s. PICK s : s = pass[p] OBVIOUS
<1>i. PICK i : i = s.surface OBVIOUS
<1>1. PassSound(s) /\ IsHistory BY <1>s, Goes
<1>2. s.pc = "enroll" /\ UNCHANGED <<ready, world, changes>> BY <1>s DEF Enroll
<1>3. i \in 1 .. Now /\ log[i].command = "surfaces" /\ log[i].result = "valid"
  BY <1>1, <1>2, <1>i DEF PassSound, IsHistory
<1>t. PICK t : t = Status(Now, log[i].repo) OBVIOUS
<1>4. \/ UNCHANGED log /\ Step(p, Continue(p))
      \/ Refused(p)
      \/ /\ EnrollmentOf(Now, i) = 0 /\ t.authority = log[i].authority /\ t.surface = i
         /\ t.fleet = "enabled" /\ Appends(EnrollmentFact(i)) /\ Step(p, Continue(p))
  BY <1>s, <1>i, <1>t DEF Enroll
<1>5. PassSound(Continue(p)) BY <1>1, ContinueSound DEF Inv
<1>6. CASE UNCHANGED log /\ Step(p, Continue(p))
  <2>1. changes' \in 0 .. MaxChanges BY <1>2 DEF Inv
  <2> QED BY <1>2, <1>5, <1>6, <2>1, OnlyPass
<1>7. CASE Refused(p) BY <1>2, <1>7, RefusedKeeps
<1>8. CASE /\ EnrollmentOf(Now, i) = 0 /\ t.authority = log[i].authority /\ t.surface = i
           /\ t.fleet = "enabled" /\ Appends(EnrollmentFact(i)) /\ Step(p, Continue(p))
  <2>1. /\ t.authority \in 0 .. Now /\ t.authority # 0 /\ log[t.authority].command = "materialize"
        /\ t.fleet = log[t.authority].declaration.fleet
    <3>1. Now \in 1 .. Now BY <1>1 DEF IsHistory
    <3>2. t.surface # 0 BY <1>3, <1>8
    <3> QED BY <1>t, <3>1, <3>2, StatusIs DEF Inv
  <2>2. log[i].authority \in 1 .. Now BY <1>1, <1>8, <2>1 DEF IsHistory
  <2>3. LogInv' /\ \E e : Extends(e) BY <1>3, <1>8, <2>1, <2>2, EnrollKeeps DEF Inv
  <2>4. PICK e : Extends(e) BY <2>3
  <2>5. Keeps /\ Now' \in Nat BY <1>1, <2>4 DEF Extends, Keeps, IsHistory
  <2> PICK v : v = Continue(p) OBVIOUS
  <2>6. Step(p, v) BY <1>8
  <2>7. PassSound(v)' BY <1>1, <1>5, <2>5, PassStays
  <2> QED BY <1>2, <2>3, <2>4, <2>6, <2>7, PassWrites
<1> QED BY <1>4, <1>6, <1>7, <1>8

-----------------------------------------------------------------------------
(* What other actors do, and the invariant.                                *)

(* A transaction of another actor is appended.                             *)
LEMMA OthersWrite ==
  ASSUME Inv, LogInv', NEW e, Extends(e), UNCHANGED <<world, pass>>, Changed, ready' \in BOOLEAN
  PROVE  Inv'
<1>1. Keeps /\ Now' \in Nat BY DEF Inv, LogInv, Extends, Keeps, IsHistory
<1>2. PassInv' BY <1>1, PassesStay DEF Inv
<1> QED BY <1>2, ChangedIs DEF Inv, WorldInv

LEMMA OthersKeep == ASSUME Inv, Environment PROVE Inv'
<1>1. ASSUME NEW p \in Passes, Abort(p) PROVE Inv' BY <1>1, StopKeeps
<1>2. ASSUME NEW c \in DOMAIN Catalogs, Activate(c) PROVE Inv'
  <2>1. LogInv' /\ \E e : Extends(e) BY <1>2, ActivateKeeps DEF Activate, Inv
  <2>2. UNCHANGED <<world, pass>> /\ Changed /\ ready' \in BOOLEAN BY <1>2 DEF Activate
  <2> QED BY <2>1, <2>2, OthersWrite
<1>3. ASSUME ReadinessChanges PROVE Inv'
  <2>1. LogInv' /\ IsHistory' /\ Keeps /\ Now' = Now BY <1>3, LogKept DEF ReadinessChanges, Inv
  <2>2. PassInv' BY <1>3, <2>1, PassesStay DEF ReadinessChanges, Inv, IsHistory
  <2>3. ready' \in BOOLEAN BY <1>3 DEF ReadinessChanges
  <2>4. changes' \in 0 .. MaxChanges /\ UNCHANGED world BY <1>3, ChangedIs DEF ReadinessChanges
  <2> QED BY <2>1, <2>2, <2>3, <2>4 DEF Inv, WorldInv
<1>4. ASSUME NEW r \in Repos, WorldChanges(r) PROVE Inv'
  <2>1. LogInv' /\ IsHistory' /\ Keeps /\ Now' = Now BY <1>4, LogKept DEF WorldChanges, Inv
  <2>2. PassInv' BY <1>4, <2>1, PassesStay DEF WorldChanges, Inv, IsHistory
  <2>3. changes' \in 0 .. MaxChanges /\ UNCHANGED ready BY <1>4, ChangedIs DEF WorldChanges
  <2>4. WorldInv'
    <3>1. CASE \E a \in Answers[r] : world' = [world EXCEPT ![r] = [answer |-> a, content |-> @.content]]
      BY <3>1 DEF Inv, WorldInv
    <3>2. CASE \E c \in Contents[r] : world' = [world EXCEPT ![r] = [answer |-> @.answer, content |-> c]]
      BY <3>2 DEF Inv, WorldInv
    <3> QED BY <1>4, <3>1, <3>2 DEF WorldChanges
  <2> QED BY <2>1, <2>2, <2>3, <2>4 DEF Inv
<1>5. ASSUME NEW r \in Repos, NEW choice \in {"impose", "clear"}, Hold(r, choice) PROVE Inv'
  <2> PICK t : t = Status(Now, r) OBVIOUS
  <2>1. /\ t.authority # 0 /\ ((choice = "impose") <=> (t.hold = 0))
        /\ Appends(HoldFact(r, choice, ActiveSnapshot(Now), t.authority, t.hold))
        /\ UNCHANGED <<ready, world, pass>> /\ Changed
    BY <1>5 DEF Hold
  <2>2. LogInv' /\ \E e : Extends(e) BY <2>1, HoldKeeps DEF Inv
  <2>3. ready' \in BOOLEAN BY <2>1 DEF Inv
  <2> QED BY <2>1, <2>2, <2>3, OthersWrite
<1>6. ASSUME NEW r \in Repos, NEW i \in Inspections, Installation(r, i) PROVE Inv'
  <2>1. LogInv' /\ \E e : Extends(e) BY <1>6, InstallationKeeps DEF Installation, Inv
  <2>2. UNCHANGED <<ready, world, pass>> /\ Changed BY <1>6 DEF Installation
  <2>3. ready' \in BOOLEAN BY <2>2 DEF Inv
  <2> QED BY <2>1, <2>2, <2>3, OthersWrite
<1> QED BY <1>1, <1>2, <1>3, <1>4, <1>5, <1>6 DEF Environment

LEMMA PassStepKeeps == ASSUME Inv, NEW p \in Passes, PassStep(p) PROVE Inv'
BY StartPassKeeps, StopKeeps, BeginKeeps, MaterializeStepKeeps, RereadKeeps, InspectKeeps,
   RecordIdentityKeeps, ProbeKeeps, RecordSurfacesKeeps, EnrollStepKeeps DEF PassStep

LEMMA NothingKeeps == ASSUME Inv, UNCHANGED vars PROVE Inv'
<1>1. log' = log /\ UNCHANGED <<ready, world, pass, changes>> BY DEF vars
<1>2. LogInv' /\ IsHistory' /\ Keeps /\ Now' = Now BY <1>1, LogKept DEF Inv
<1>3. PassInv' BY <1>1, <1>2, PassesStay DEF Inv, IsHistory
<1> QED BY <1>1, <1>2, <1>3 DEF Inv, WorldInv

LEMMA InitInv == Init => Inv
<1> SUFFICES ASSUME Init PROVE Inv OBVIOUS
<1> DEFINE first == [command |-> "initialize", key |-> <<"initialize", 0>>]
<1>1. log = <<first>> BY DEF Init
<1>2. first.command = "initialize" /\ first.key = <<"initialize", 0>> OBVIOUS
<1> HIDE DEF first
<1>3. log \in Seq({first}) /\ Now = 1 /\ log[1] = first BY <1>1 DEF Now
<1>4. IsHistory BY <1>3 DEF IsHistory
<1>5. Sound(1)
  <2>1. KeyOf(0, first) = <<"initialize", 0>> BY <1>2 DEF KeyOf
  <2>2. Verified(1) BY <1>2, <1>3, <2>1 DEF Verified
  <2> QED BY <1>2, <1>3, <2>2 DEF Sound, Admitted, Made, Commands
<1>6. KeysDiffer BY <1>3 DEF KeysDiffer
<1>7. LogInv BY <1>3, <1>4, <1>5, <1>6 DEF LogInv
<1>8. PassInv
  <2>1. PassSound(Idle) BY <1>4, IdleSound
  <2> QED BY <2>1 DEF Init, PassInv
<1>9. WorldInv BY EnrollmentAssumption DEF Init, WorldInv
<1>10. ready \in BOOLEAN /\ changes \in 0 .. MaxChanges
  <2>1. MaxChanges \in Nat BY EnrollmentAssumption
  <2>2. ready \in BOOLEAN
    <3>1. ready = FALSE BY DEF Init
    <3> QED BY <3>1, Zenon
  <2>3. changes = 0 BY DEF Init
  <2> QED BY <2>1, <2>2, <2>3
<1> QED BY <1>7, <1>8, <1>9, <1>10 DEF Inv

(* The inductive invariant: however the passes, the activations, GitHub    *)
(* and the operator interleave.                                            *)
THEOREM EnrollmentInvariant == Spec => []Inv
<1>1. Init => Inv BY InitInv
<1>2. Inv /\ [Next]_vars => Inv'
  BY OthersKeep, PassStepKeeps, NothingKeeps DEF Next
<1> QED BY <1>1, <1>2, PTL DEF Spec

(* TypeOK: the passes and the transactions hold what the code gives them,  *)
(* and a stage of a pass what it needs.                                    *)
THEOREM EnrollmentTypes == Spec => []TypeOK
<1>1. Inv => TypeOK
  <2> SUFFICES ASSUME Inv PROVE TypeOK OBVIOUS
  <2>1. \A r \in Repos : world[r].answer \in Answers[r] /\ world[r].content \in Contents[r]
    BY DEF Inv, WorldInv
  <2>2. ASSUME NEW p \in Passes
        PROVE  /\ pass[p].pc \in {"idle", "begin", "materialize", "reread", "inspect",
                                 "record", "probe", "surfaces", "enroll"}
               /\ pass[p].rest \subseteq Repos
               /\ {pass[p].snapshot, pass[p].authority, pass[p].identity, pass[p].surface}
                    \subseteq 0 .. Now
               /\ pass[p].pc = "record" => pass[p].seen # Null
               /\ pass[p].pc = "surfaces" => pass[p].identity # 0 /\ pass[p].probe # Null
               /\ pass[p].pc = "enroll" => pass[p].surface # 0
    <3>s. PICK s : s = pass[p] OBVIOUS
    <3>1. PassSound(s) BY <3>s DEF Inv, PassInv
    <3>2. s.pc = "record" => s.seen # Null BY <3>1, GitHubAssumption DEF PassSound
    <3> QED BY <3>1, <3>2, <3>s DEF PassSound, Stages
  <2>3. \A i \in DOMAIN log : log[i].command \in Commands
    <3>1. DOMAIN log = 1 .. Now BY DEF Inv, LogInv, IsHistory, Now
    <3> QED BY <3>1 DEF Inv, LogInv, Sound
  <2>4. ready \in BOOLEAN /\ changes \in 0 .. MaxChanges BY DEF Inv
  <2> QED BY <2>1, <2>2, <2>3, <2>4 DEF TypeOK, Commands
<1> QED BY <1>1, EnrollmentInvariant, PTL

(* HistoryVerified: no handler appends a transaction that the references,  *)
(* the contract of its kind or an earlier key make the database refuse,    *)
(* however the passes of the poll and of the command line interleave.      *)
THEOREM EnrollmentVerifies == Spec => []HistoryVerified
<1>1. Inv => HistoryVerified
  <2> SUFFICES ASSUME Inv PROVE HistoryVerified OBVIOUS
  <2>1. Now \in 1 .. Now BY DEF Inv, LogInv, IsHistory
  <2>2. Verified(Now) /\ Admitted(Now) BY <2>1 DEF Inv, LogInv, Sound
  <2>3. \A m \in 1 .. Now - 1 : log[m].command = log[Now].command => log[m].key # log[Now].key
    BY <2>1 DEF Inv, LogInv, KeysDiffer
  <2> QED BY <2>2, <2>3 DEF HistoryVerified
<1> QED BY <1>1, EnrollmentInvariant, PTL

-----------------------------------------------------------------------------
(* Enrolled repositories.                                                  *)

(* What the four facts of an enrolled repository say of each other.        *)
LEMMA EnrolledIs ==
  ASSUME LogInv, NEW n \in 1 .. Now, NEW r, r \in Enrolled(n), NEW t, t = Status(n, r)
  PROVE  /\ {t.authority, t.identity, t.surface, t.enrollment} \subseteq 1 .. Now
         /\ t.hold = 0 /\ t.fleet = "enabled" /\ log[t.identity].result = "matched"
         /\ log[t.surface].result = "valid"
<1>1. r \in DeclaredIn(n) /\ t.state = "enrolled" BY DEF Enrolled
<1>2. /\ t.authority # 0 /\ t.identity # 0 /\ t.surface # 0 /\ t.enrollment # 0 /\ t.hold = 0
      /\ t.fleet \notin {"disabled", "paused"} /\ log[t.identity].result = "matched"
      /\ log[t.surface].result = "valid"
  BY <1>1 DEF Status
<1>3. n \in Nat /\ n <= Now /\ Now \in Nat BY DEF LogInv, IsHistory
<1>4. {t.authority, t.identity, t.surface, t.enrollment} \subseteq 0 .. n /\ t.fleet \in Fleet
  BY <1>2, StatusIs
<1> QED BY <1>2, <1>3, <1>4 DEF Fleet

LEMMA EnrolledCoheres ==
  ASSUME LogInv, NEW n \in 1 .. Now, NEW r, r \in Enrolled(n) PROVE Coherent(n, r)
<1>t. PICK t : t = Status(n, r) OBVIOUS
<1>1. /\ {t.authority, t.identity, t.surface, t.enrollment} \subseteq 1 .. Now
      /\ t.fleet = "enabled" /\ log[t.identity].result = "matched"
      /\ log[t.surface].result = "valid"
  BY <1>t, EnrolledIs
<1>2. t.authority # 0 /\ t.identity # 0 /\ t.surface # 0 /\ t.enrollment # 0 BY <1>1
<1>a. PICK a : a = log[t.authority] OBVIOUS
<1>g. PICK g : g = log[t.identity] OBVIOUS
<1>s. PICK s : s = log[t.surface] OBVIOUS
<1>e. PICK e : e = log[t.enrollment] OBVIOUS
<1>3. /\ a.repo = r /\ a.snapshot = ActiveSnapshot(n) /\ a.declaration.fleet = "enabled"
      /\ g.repo = r /\ g.snapshot = ActiveSnapshot(n) /\ g.authority = t.authority
      /\ g.command = "identity"
  BY <1>1, <1>2, <1>t, <1>a, <1>g, StatusIs
<1>4. /\ s.repo = r /\ s.snapshot = ActiveSnapshot(n) /\ s.authority = t.authority
      /\ s.identity = t.identity /\ s.command = "surfaces"
  BY <1>2, <1>t, <1>s, StatusIs
<1>5. /\ e.repo = r /\ e.snapshot = ActiveSnapshot(n) /\ e.authority = t.authority
      /\ e.identity = t.identity /\ e.surface = t.surface /\ e.command = "enroll"
  BY <1>2, <1>t, <1>e, StatusIs
<1>6. SurfacesVerified(s) /\ SurfacesAdmitted(s) BY <1>1, <1>4, <1>s, OwnKeys DEF Verified, Admitted
<1>7. s.decision = "permit" /\ s.commit # Null /\ s.branch # Null
  BY <1>1, <1>6, <1>s DEF SurfacesAdmitted
<1>8. g.observed.branch = s.branch BY <1>4, <1>6, <1>7, <1>g DEF SurfacesVerified
<1>9. EnrollmentVerified(e) /\ EnrollmentMade(t.enrollment, e)
  BY <1>1, <1>5, <1>e, OwnKeys DEF Verified, Made
<1>10. s.commit = e.commit BY <1>5, <1>9, <1>s DEF EnrollmentVerified
<1>11. a.declaration.programs = e.programs /\ a.declaration.ceiling = e.ceiling
  BY <1>4, <1>5, <1>9, <1>s, <1>a DEF EnrollmentMade, EnrollmentFact
<1>12. g.result = "matched" /\ s.result = "valid" BY <1>1, <1>g, <1>s
<1> QED BY <1>3, <1>4, <1>5, <1>7, <1>8, <1>10, <1>11, <1>12, <1>t, <1>a, <1>g, <1>s, <1>e DEF Coherent

(* A snapshot gives a repository its authority once.                       *)
LEMMA OneAuthority ==
  ASSUME LogInv, NEW k \in 1 .. Now, NEW m \in 1 .. Now, log[k].command = "materialize",
         log[m].command = "materialize", log[k].repo = log[m].repo, log[k].snapshot = log[m].snapshot
  PROVE  k = m
<1>1. log[k].key = log[m].key
  <2>1. log[k].key = <<log[k].snapshot, log[k].repo>> /\ log[m].key = <<log[m].snapshot, log[m].repo>>
    BY OwnKeys DEF KeyOf
  <2> QED BY <2>1
<1>2. k \in Nat /\ m \in Nat BY DEF LogInv, IsHistory
<1>3. ~(k < m) /\ ~(m < k) BY <1>1, <1>2 DEF LogInv, KeysDiffer
<1> QED BY <1>2, <1>3

(* What an enrolled repository's context says is what GitHub answered and  *)
(* what the surfaces' probe found, of the declaration in force.            *)
LEMMA ContextIs ==
  ASSUME LogInv, NEW n \in 1 .. Now, NEW r, r \in Enrolled(n), NEW t, t = Status(n, r)
  PROVE  /\ Context(n, r).snapshot = ActiveSnapshot(n)
         /\ Context(n, r).declaration = log[t.authority].declaration
         /\ Context(n, r).observed = log[t.identity].seen
         /\ Context(n, r).probe = log[t.surface].probe
         /\ Context(n, r).requirements = SurfacesFact(t.identity, log[t.surface].probe).requirements
         /\ Context(n, r).commit = SurfacesFact(t.identity, log[t.surface].probe).commit
         /\ Context(n, r).ceiling = log[t.authority].declaration.ceiling
<1>1. /\ {t.authority, t.identity, t.surface, t.enrollment} \subseteq 1 .. Now
      /\ log[t.identity].result = "matched" /\ log[t.surface].result = "valid"
  BY EnrolledIs
<1>2. t.authority # 0 /\ t.identity # 0 /\ t.surface # 0 /\ t.enrollment # 0 BY <1>1
<1>g. PICK g : g = log[t.identity] OBVIOUS
<1>s. PICK s : s = log[t.surface] OBVIOUS
<1>e. PICK e : e = log[t.enrollment] OBVIOUS
<1>3. g.command = "identity" /\ g.authority = t.authority BY <1>2, <1>g, StatusIs
<1>4. s.command = "surfaces" /\ s.identity = t.identity /\ s.authority = t.authority
  BY <1>2, <1>s, StatusIs
<1>5. e.command = "enroll" /\ e.surface = t.surface BY <1>2, <1>e, StatusIs
<1>6. g.observed = g.seen
  <2>1. IdentityMade(t.identity, g) BY <1>1, <1>3, <1>g, OwnKeys DEF Made
  <2> QED BY <1>1, <1>g, <2>1 DEF IdentityMade, IdentityFact
<1>7. SurfacesMade(t.surface, s) BY <1>1, <1>4, <1>s, OwnKeys DEF Made
<1>8. EnrollmentMade(t.enrollment, e) /\ EnrollmentVerified(e)
  BY <1>1, <1>5, <1>e, OwnKeys DEF Made, Verified
<1>9. e.ceiling = log[t.authority].declaration.ceiling /\ e.commit = s.commit
  BY <1>4, <1>5, <1>8, <1>s DEF EnrollmentMade, EnrollmentFact, EnrollmentVerified
<1>10. s.requirements = SurfacesFact(t.identity, s.probe).requirements
       /\ s.commit = SurfacesFact(t.identity, s.probe).commit
  BY <1>4, <1>7 DEF SurfacesMade
<1>11. /\ Context(n, r).snapshot = ActiveSnapshot(n)
       /\ Context(n, r).declaration = log[t.authority].declaration
       /\ Context(n, r).observed = g.observed /\ Context(n, r).probe = s.probe
       /\ Context(n, r).requirements = s.requirements /\ Context(n, r).commit = e.commit
       /\ Context(n, r).ceiling = e.ceiling
  BY <1>g, <1>s, <1>e DEF Context
<1> QED BY <1>6, <1>9, <1>10, <1>11, <1>g, <1>s

LEMMA SameContext ==
  ASSUME LogInv, NEW n \in 1 .. Now, NEW m \in 1 .. Now, NEW r, r \in Enrolled(n), r \in Enrolled(m),
         NEW t, t = Status(n, r), NEW u, u = Status(m, r)
  PROVE  Context(n, r) = Context(m, r) <=>
           /\ ActiveSnapshot(n) = ActiveSnapshot(m)
           /\ log[t.identity].seen = log[u.identity].seen
           /\ log[t.surface].probe = log[u.surface].probe
<1>c. PICK c : c = Context(n, r) OBVIOUS
<1>d. PICK d : d = Context(m, r) OBVIOUS
<1>p. PICK probe : probe = log[t.surface].probe OBVIOUS
<1>q. PICK other : other = log[u.surface].probe OBVIOUS
<1>1. /\ c.snapshot = ActiveSnapshot(n) /\ c.declaration = log[t.authority].declaration
      /\ c.observed = log[t.identity].seen /\ c.probe = probe
      /\ c.requirements = SurfacesFact(t.identity, probe).requirements
      /\ c.commit = SurfacesFact(t.identity, probe).commit
      /\ c.ceiling = log[t.authority].declaration.ceiling
  BY <1>c, <1>p, ContextIs
<1>2. /\ d.snapshot = ActiveSnapshot(m) /\ d.declaration = log[u.authority].declaration
      /\ d.observed = log[u.identity].seen /\ d.probe = other
      /\ d.requirements = SurfacesFact(u.identity, other).requirements
      /\ d.commit = SurfacesFact(u.identity, other).commit
      /\ d.ceiling = log[u.authority].declaration.ceiling
  BY <1>d, <1>q, ContextIs
<1>3. ASSUME ActiveSnapshot(n) = ActiveSnapshot(m), log[t.identity].seen = log[u.identity].seen,
             probe = other
      PROVE  c = d
  <2>1. t.authority \in 1 .. Now /\ u.authority \in 1 .. Now BY EnrolledIs
  <2>2. /\ log[t.authority].command = "materialize" /\ log[t.authority].repo = r
        /\ log[t.authority].snapshot = ActiveSnapshot(n)
    BY <2>1, StatusIs
  <2>3. /\ log[u.authority].command = "materialize" /\ log[u.authority].repo = r
        /\ log[u.authority].snapshot = ActiveSnapshot(m)
    BY <2>1, StatusIs
  <2>4. t.authority = u.authority BY <1>3, <2>1, <2>2, <2>3, OneAuthority
  <2>5. /\ SurfacesFact(t.identity, probe).requirements = SurfacesFact(u.identity, probe).requirements
        /\ SurfacesFact(t.identity, probe).commit = SurfacesFact(u.identity, probe).commit
    BY DEF SurfacesFact
  <2>6. /\ c.snapshot = d.snapshot /\ c.declaration = d.declaration /\ c.observed = d.observed
        /\ c.probe = d.probe /\ c.requirements = d.requirements /\ c.commit = d.commit
        /\ c.ceiling = d.ceiling
    BY <1>1, <1>2, <1>3, <2>4, <2>5
  <2> QED BY <1>c, <1>d, <2>6 DEF Context
<1> QED BY <1>1, <1>2, <1>3, <1>c, <1>d, <1>p, <1>q

(* ResumesIffUnchanged: what four commands recorded of an enrolled         *)
(* repository hangs together, and held work resumes by itself exactly when *)
(* snapshot, GitHub's answer and the surfaces' probe are as they were.     *)
THEOREM ResumptionIsExact == Spec => []ResumesIffUnchanged
<1>1. Inv => ResumesIffUnchanged
  <2> SUFFICES ASSUME Inv, NEW r \in Enrolled(Now) PROVE
        /\ Coherent(Now, r)
        /\ \A n \in DOMAIN log :
             log[n].command = "enroll" /\ log[n].repo = r /\ r \in Enrolled(n) =>
               LET then == Status(n, r)
                   now == Status(Now, r)
               IN (Recovery("github-unavailable", Context(n, r), Now, r) = "resume-automatically") =
                    /\ ActiveSnapshot(n) = ActiveSnapshot(Now)
                    /\ log[then.identity].seen = log[now.identity].seen
                    /\ log[then.surface].probe = log[now.surface].probe
    BY DEF ResumesIffUnchanged
  <2>0. LogInv /\ Now \in 1 .. Now /\ DOMAIN log = 1 .. Now BY DEF Inv, LogInv, IsHistory, Now
  <2>1. Coherent(Now, r) BY <2>0, EnrolledCoheres
  <2>2. ASSUME NEW n \in 1 .. Now, r \in Enrolled(n)
        PROVE  LET then == Status(n, r)
                   now == Status(Now, r)
               IN (Recovery("github-unavailable", Context(n, r), Now, r) = "resume-automatically") =
                    /\ ActiveSnapshot(n) = ActiveSnapshot(Now)
                    /\ log[then.identity].seen = log[now.identity].seen
                    /\ log[then.surface].probe = log[now.surface].probe
    <3> PICK t : t = Status(n, r) OBVIOUS
    <3> PICK u : u = Status(Now, r) OBVIOUS
    <3>1. Context(n, r) = Context(Now, r) <=>
            /\ ActiveSnapshot(n) = ActiveSnapshot(Now)
            /\ log[t.identity].seen = log[u.identity].seen
            /\ log[t.surface].probe = log[u.surface].probe
      BY <2>0, <2>2, SameContext
    <3>2. (Recovery("github-unavailable", Context(n, r), Now, r) = "resume-automatically")
            <=> Context(n, r) = Context(Now, r)
      BY DEF Recovery
    <3>3. (Recovery("github-unavailable", Context(n, r), Now, r) = "resume-automatically") =
            /\ ActiveSnapshot(n) = ActiveSnapshot(Now)
            /\ log[t.identity].seen = log[u.identity].seen
            /\ log[t.surface].probe = log[u.surface].probe
      BY <3>1, <3>2
    <3> QED BY <3>3
  <2> QED BY <2>0, <2>1, <2>2
<1> QED BY <1>1, EnrollmentInvariant, PTL
====

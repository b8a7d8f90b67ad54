---- MODULE IssueImportProofs ----
(***************************************************************************)
(* Proofs about IssueImport.  The pages of a listing partition it by rank, *)
(* so that an import during which nothing moved has, before page n, found  *)
(* every issue of a rank the earlier pages cover; the other parts of the   *)
(* invariant say what the candidates of an import and the proposals are.   *)
(***************************************************************************)
EXTENDS IssueImport, FiniteSetTheorems, SequenceTheorems, TLAPS

-----------------------------------------------------------------------------
(* A finite set of numbers in order.                                       *)

LEMMA BeforeIs ==
  ASSUME NEW S \in SUBSET Nat, IsFiniteSet(S)
  PROVE  /\ Cardinality(S) \in Nat
         /\ \A i \in S : Before(i, S) \in 0 .. Cardinality(S) - 1
         /\ \A i, j \in S : i < j => Before(i, S) < Before(j, S)
<1>1. Cardinality(S) \in Nat BY FS_CardinalityType
<1> DEFINE Below(i) == {j \in S : j < i}
<1>2. ASSUME NEW T \in SUBSET S, NEW U \in SUBSET T, NEW x \in T \ U
      PROVE  Cardinality(U) \in Nat /\ Cardinality(U) < Cardinality(T) /\ Cardinality(T) \in Nat
  <2>1. IsFiniteSet(T) BY FS_Subset
  <2>2. IsFiniteSet(U) /\ Cardinality(U) <= Cardinality(T) /\ Cardinality(T) # Cardinality(U)
    BY <2>1, FS_Subset
  <2>3. Cardinality(T) \in Nat /\ Cardinality(U) \in Nat BY <2>1, <2>2, FS_CardinalityType
  <2> QED BY <2>2, <2>3
<1>3. ASSUME NEW i \in S PROVE Before(i, S) \in 0 .. Cardinality(S) - 1
  <2>1. Below(i) \in SUBSET S /\ i \in S \ Below(i) OBVIOUS
  <2>2. Cardinality(Below(i)) \in Nat /\ Cardinality(Below(i)) < Cardinality(S)
    BY <1>2, <2>1
  <2> QED BY <1>1, <2>2 DEF Before
<1>4. ASSUME NEW i \in S, NEW j \in S, i < j PROVE Before(i, S) < Before(j, S)
  <2>1. Below(j) \in SUBSET S /\ Below(i) \in SUBSET Below(j) /\ i \in Below(j) \ Below(i)
    <3>1. \A k \in S : k \in Int OBVIOUS
    <3>2. \A k \in S : k < i => k < j BY <1>4, <3>1
    <3>3. i \in Below(j) BY <1>4
    <3>4. i \notin Below(i) BY <3>1
    <3>5. Below(i) \subseteq Below(j) BY <3>2
    <3>6. Below(j) \subseteq S OBVIOUS
    <3> HIDE DEF Below
    <3> QED BY <3>3, <3>4, <3>5, <3>6
  <2> HIDE DEF Below
  <2>2. Cardinality(Below(i)) < Cardinality(Below(j)) BY <1>2, <2>1
  <2> QED BY <2>2 DEF Before, Below
<1> QED BY <1>1, <1>3, <1>4

(* Ordered lists each number of the set once.                              *)
LEMMA OrderedIs ==
  ASSUME NEW S \in SUBSET Nat, IsFiniteSet(S)
  PROVE  /\ Cardinality(S) \in Nat /\ DOMAIN Ordered(S) = 1 .. Cardinality(S)
         /\ \A k \in 1 .. Cardinality(S) : Ordered(S)[k] \in S /\ Before(Ordered(S)[k], S) = k - 1
         /\ \A i \in S : Before(i, S) + 1 \in 1 .. Cardinality(S) /\ Ordered(S)[Before(i, S) + 1] = i
<1> DEFINE n == Cardinality(S)
           R == 0 .. n - 1
           rank == [i \in S |-> Before(i, S)]
<1>1. n \in Nat /\ (\A i \in S : Before(i, S) \in R) /\ \A i, j \in S : i < j => Before(i, S) < Before(j, S)
  BY BeforeIs
<1>2. \A i, j \in S : Before(i, S) = Before(j, S) => i = j
  <2>1. \A i, j \in S : i < j \/ j < i \/ i = j OBVIOUS
  <2>2. \A i \in S : Before(i, S) \in Int BY <1>1
  <2> QED BY <1>1, <2>1, <2>2
<1>3. IsFiniteSet(R) /\ Cardinality(R) = n
  <2>1. 0 \in Int /\ n - 1 \in Int BY <1>1
  <2> HIDE DEF n
  <2>2. IsFiniteSet(0 .. n - 1) /\ Cardinality(0 .. n - 1) = IF 0 > n - 1 THEN 0 ELSE n - 1 - 0 + 1
    BY <2>1, FS_Interval
  <2> QED BY <1>1, <2>2
<1>4. rank \in Injection(S, R)
  BY <1>1, <1>2 DEF Injection, IsInjective
<1> HIDE DEF R
<1>5. rank \in Surjection(S, R) BY <1>3, <1>4, FS_Injection
<1>6. \A k \in R : \E i \in S : Before(i, S) = k BY <1>5 DEF Surjection
<1>7. ASSUME NEW k \in 1 .. n PROVE Ordered(S)[k] \in S /\ Before(Ordered(S)[k], S) = k - 1
  <2>1. k - 1 \in R BY <1>1 DEF R
  <2>2. \E i \in S : Before(i, S) = k - 1 BY <1>6, <2>1
  <2>3. Ordered(S)[k] = CHOOSE i \in S : Before(i, S) = k - 1 BY DEF Ordered
  <2> QED BY <2>2, <2>3
<1>8. ASSUME NEW i \in S PROVE Before(i, S) + 1 \in 1 .. n /\ Ordered(S)[Before(i, S) + 1] = i
  <2>1. Before(i, S) + 1 \in 1 .. n /\ Before(i, S) \in Nat BY <1>1 DEF R
  <2>2. Ordered(S)[Before(i, S) + 1] \in S
        /\ Before(Ordered(S)[Before(i, S) + 1], S) = Before(i, S)
    BY <1>7, <2>1
  <2> QED BY <1>2, <2>1, <2>2
<1>9. DOMAIN Ordered(S) = 1 .. n BY DEF Ordered
<1> QED BY <1>1, <1>7, <1>8, <1>9

(* Some of the entries of a sequence.                                      *)
LEMMA EntriesAre ==
  ASSUME NEW T, NEW s \in Seq(T), NEW K \in SUBSET (DOMAIN s)
  PROVE  /\ Entries(s, K) \in Seq(T)
         /\ \A k \in DOMAIN Entries(s, K) : \E p \in K : Entries(s, K)[k] = s[p]
         /\ \A p \in K : \E k \in DOMAIN Entries(s, K) : Entries(s, K)[k] = s[p]
         /\ (\A p, q \in K : s[p] = s[q] => p = q) =>
              \A j, k \in DOMAIN Entries(s, K) : Entries(s, K)[j] = Entries(s, K)[k] => j = k
<1>1. DOMAIN s = 1 .. Len(s) /\ Len(s) \in Nat /\ \A p \in DOMAIN s : s[p] \in T
  BY LenProperties, ElementOfSeq
<1>2. K \in SUBSET Nat /\ IsFiniteSet(K)
  <2>1. IsFiniteSet(1 .. Len(s)) BY <1>1, FS_Interval
  <2> QED BY <1>1, <2>1, FS_Subset
<1> DEFINE n == Cardinality(K)
           e == Entries(s, K)
<1>3. /\ n \in Nat
      /\ \A k \in 1 .. n : Ordered(K)[k] \in K /\ Before(Ordered(K)[k], K) = k - 1
      /\ \A p \in K : Before(p, K) + 1 \in 1 .. n /\ Ordered(K)[Before(p, K) + 1] = p
  BY <1>2, OrderedIs
<1>4. e = [k \in 1 .. n |-> s[Ordered(K)[k]]] BY DEF Entries
<1> HIDE DEF n, e
<1>5. DOMAIN e = 1 .. n /\ \A k \in 1 .. n : e[k] = s[Ordered(K)[k]] BY <1>4
<1>6. e \in [1 .. n -> T] BY <1>1, <1>3, <1>4
<1>7. e \in Seq(T) BY <1>3, <1>6, SeqDef
<1>8. ASSUME \A p, q \in K : s[p] = s[q] => p = q, NEW j \in 1 .. n, NEW k \in 1 .. n, e[j] = e[k]
      PROVE  j = k
  <2>1. Ordered(K)[j] = Ordered(K)[k] BY <1>3, <1>5, <1>8
  <2>2. j - 1 = k - 1 BY <1>3, <2>1
  <2> QED BY <1>3, <2>2
<1>9. \A p \in K : \E k \in DOMAIN e : e[k] = s[p] BY <1>3, <1>5
<1>10. \A k \in DOMAIN e : \E p \in K : e[k] = s[p] BY <1>3, <1>5
<1>11. (\A p, q \in K : s[p] = s[q] => p = q) => \A j, k \in DOMAIN e : e[j] = e[k] => j = k
  BY <1>5, <1>8
<1> QED BY <1>7, <1>9, <1>10, <1>11 DEF e

-----------------------------------------------------------------------------
(* The listing's pages.                                                    *)

(* A page with fewer than PageSize issues is the last one.                 *)
LEMMA LastPage ==
  ASSUME listed \subseteq Issues, NEW n \in 1 .. MaxPages, Cardinality(Page(n)) < PageSize
  PROVE  \A i \in listed : Before(i, listed) < n * PageSize
<1>1. /\ listed \in SUBSET Nat /\ IsFiniteSet(listed) /\ PageSize \in Nat /\ PageSize > 0
      /\ n \in Nat /\ n >= 1
  <2>1. listed \in SUBSET Issues /\ IsFiniteSet(Issues) /\ Issues \subseteq Nat /\ MaxPages \in Nat
        /\ PageSize \in Nat \ {0}
    BY ImportAssumption
  <2>2. IsFiniteSet(listed) BY <2>1, FS_Subset
  <2> QED BY <2>1, <2>2
<1> DEFINE a == (n - 1) * PageSize
           b == n * PageSize
<1>2. a \in Nat /\ b \in Nat /\ b = a + PageSize
  BY <1>1
<1> HIDE DEF a, b
<1>3. /\ Cardinality(listed) \in Nat
      /\ \A k \in 1 .. Cardinality(listed) :
           Ordered(listed)[k] \in listed /\ Before(Ordered(listed)[k], listed) = k - 1
      /\ \A i \in listed : Before(i, listed) \in 0 .. Cardinality(listed) - 1
  BY <1>1, OrderedIs, BeforeIs
<1>4. ASSUME NEW i \in listed, ~(Before(i, listed) < b) PROVE FALSE
  <2>1. b < Cardinality(listed) BY <1>2, <1>3, <1>4
  <2> DEFINE f == [k \in a .. b - 1 |-> Ordered(listed)[k + 1]]
  <2>2. ASSUME NEW k \in a .. b - 1
        PROVE  f[k] \in Page(n) /\ Before(f[k], listed) = k
    <3>1. k + 1 \in 1 .. Cardinality(listed) /\ (k + 1) - 1 = k BY <1>2, <1>3, <2>1
    <3>2. f[k] \in listed /\ Before(f[k], listed) = k BY <1>3, <3>1
    <3> QED BY <3>2 DEF Page, a, b
  <2>3. f \in Injection(a .. b - 1, Page(n)) BY <2>2 DEF Injection, IsInjective
  <2> HIDE DEF f
  <2>4. IsFiniteSet(Page(n))
    <3>1. Page(n) \in SUBSET listed BY DEF Page
    <3> QED BY <1>1, <3>1, FS_Subset
  <2>5. Cardinality(a .. b - 1) <= Cardinality(Page(n)) BY <2>3, <2>4, FS_Injection
  <2>6. Cardinality(a .. b - 1) = PageSize
    <3>1. a \in Int /\ b - 1 \in Int BY <1>2
    <3>2. Cardinality(a .. b - 1) = IF a > b - 1 THEN 0 ELSE b - 1 - a + 1 BY <3>1, FS_Interval
    <3> QED BY <1>1, <1>2, <3>2
  <2>7. Cardinality(Page(n)) \in Nat BY <2>4, FS_CardinalityType
  <2> QED BY <1>1, <2>5, <2>6, <2>7
<1> QED BY <1>4 DEF b

-----------------------------------------------------------------------------
(* The invariant.                                                          *)

Pcs == {"idle", "page", "enqueue", "refresh", "replace"}
Candidates == [issue : Issues \ PullRequests, edges : SUBSET Issues]
Locals == [pc : Pcs, page : 1 .. MaxPages, found : Seq(Candidates), complete : BOOLEAN,
           todo : Seq(Candidates), created : SUBSET Issues, item : Nat, quiet : BOOLEAN]
Proposals == [issue : Issues \ PullRequests, status : {"proposed", "admitted", "ended"},
              edges : SUBSET Issues, approved : SUBSET Issues]

(* The edges are those that some body of the issue names.                  *)
Stated(c) == \E lines \in Bodies[c.issue] : c.edges = ParseDependsOn(c.issue, lines)
IssuesOf(e) == {e[k].issue : k \in DOMAIN e}
FoundIn(s) == IssuesOf(s.found)

ProposalsSound ==
  /\ proposals \in Seq(Proposals)
  /\ \A j, k \in DOMAIN proposals : proposals[j].issue = proposals[k].issue => j = k
  /\ \A k \in DOMAIN proposals :
       /\ Stated(proposals[k])
       /\ proposals[k].status # "proposed" => proposals[k].edges = proposals[k].approved

(* What an import holds, and in a quiet one what it cannot have missed.    *)
FoundSound(s) ==
  /\ s \in Locals
  /\ \A j, k \in DOMAIN s.found : s.found[j].issue = s.found[k].issue => j = k
  /\ \A k \in DOMAIN s.found : Stated(s.found[k])
  /\ \A k \in DOMAIN s.todo : Stated(s.todo[k])
RefsSound(s) ==
  /\ s.item \in 0 .. Len(proposals)
  /\ s.pc = "replace" =>
       s.todo # <<>> /\ s.item # 0 /\ proposals[s.item].issue = Head(s.todo).issue
  /\ s.pc \in {"refresh", "replace"} => \A k \in DOMAIN s.found : KnownRef(s.found[k].issue)
QuietSound(s) ==
  /\ s.pc = "page" /\ s.quiet =>
       \A i \in listed \ PullRequests :
         Before(i, listed) < (s.page - 1) * PageSize => i \in FoundIn(s)
  /\ s.pc \notin {"idle", "page"} /\ s.quiet /\ s.complete => listed \ PullRequests \subseteq FoundIn(s)
ImporterSound(s) == FoundSound(s) /\ RefsSound(s) /\ QuietSound(s)

ListingOK == listed \subseteq Issues /\ DOMAIN body = Issues /\ \A i \in Issues : body[i] \in Bodies[i]
ImportersSound == DOMAIN importer = Importers /\ \A m \in Importers : ImporterSound(importer[m])

ImportInv ==
  /\ ListingOK /\ accepting \in BOOLEAN /\ observed \subseteq Issues \X {"created", "existing"}
  /\ ProposalsSound /\ ImportersSound

(* What a body names is issues, and not its own.                           *)
LEMMA ParseIs ==
  ASSUME NEW i \in Issues, NEW lines \in Bodies[i]
  PROVE  ParseDependsOn(i, lines) \in SUBSET Issues /\ i \notin ParseDependsOn(i, lines)
<1>1. lines \in Seq(Issues \cup {Malformed}) BY ImportAssumption
<1>2. \A k \in DOMAIN lines : lines[k] \in Issues \cup {Malformed} BY <1>1
<1> QED BY <1>2 DEF ParseDependsOn

(* Proposals are added, and none becomes one of another issue.             *)
Grows ==
  /\ proposals \in Seq(Proposals) /\ proposals' \in Seq(Proposals)
  /\ Len(proposals) <= Len(proposals')
  /\ \A k \in DOMAIN proposals : proposals'[k].issue = proposals[k].issue

LEMMA ImporterStays ==
  ASSUME Grows, UNCHANGED listed, NEW s, ImporterSound(s) PROVE ImporterSound(s)'
<1>1. /\ DOMAIN proposals = 1 .. Len(proposals) /\ DOMAIN proposals' = 1 .. Len(proposals')
      /\ Len(proposals) \in Nat /\ Len(proposals') \in Nat
  BY LenProperties DEF Grows
<1>2. FoundSound(s)' BY DEF ImporterSound, FoundSound
<1>3. \A k \in 1 .. Len(proposals) : k \in 1 .. Len(proposals') /\ proposals'[k].issue = proposals[k].issue
  BY <1>1 DEF Grows
<1>4. \A i : KnownRef(i) => KnownRef(i)' BY <1>1, <1>3 DEF KnownRef
<1>5. RefsSound(s)'
  <2>1. s.item \in 0 .. Len(proposals') /\ (s.item # 0 => proposals'[s.item].issue = proposals[s.item].issue)
    BY <1>1, <1>3 DEF ImporterSound, RefsSound, Grows
  <2> QED BY <1>4, <2>1 DEF ImporterSound, RefsSound
<1>6. QuietSound(s)' BY DEF ImporterSound, QuietSound, Before
<1> QED BY <1>2, <1>5, <1>6 DEF ImporterSound

LEMMA GoKeeps ==
  ASSUME ImportersSound, Grows, UNCHANGED listed, NEW m \in Importers, NEW s, Go(m, s), ImporterSound(s)'
  PROVE  ImportersSound'
<1>1. /\ DOMAIN importer' = Importers /\ importer'[m] = s
      /\ \A o \in Importers : o # m => importer'[o] = importer[o]
  BY DEF ImportersSound, Go
<1>2. ASSUME NEW o \in Importers PROVE ImporterSound(importer[o])'
  <2>1. CASE o = m
    <3>1. importer'[o] = s BY <1>1, <2>1
    <3> QED BY <3>1 DEF ImporterSound, FoundSound, RefsSound, QuietSound, FoundIn, IssuesOf
  <2>2. CASE o # m
    <3> PICK x : x = importer[o] OBVIOUS
    <3>1. ImporterSound(x)' BY ImporterStays DEF ImportersSound
    <3>2. importer'[o] = x BY <1>1, <2>2
    <3> QED BY <3>1, <3>2 DEF ImporterSound, FoundSound, RefsSound, QuietSound, FoundIn, IssuesOf
  <2> QED BY <2>1, <2>2
<1> QED BY <1>1, <1>2 DEF ImportersSound

(* An import that only reads.                                              *)
LEMMA OnlyGoes ==
  ASSUME ImportInv, NEW m \in Importers, NEW s, Go(m, s), ImporterSound(s),
         UNCHANGED <<listed, body, proposals, accepting>>,
         observed' \subseteq Issues \X {"created", "existing"}
  PROVE  ImportInv'
<1>1. Grows BY LenProperties DEF Grows, ImportInv, ProposalsSound
<1>2. ImporterSound(s)' BY <1>1, ImporterStays
<1>3. ImportersSound' BY <1>1, <1>2, GoKeeps DEF ImportInv
<1> QED BY <1>3 DEF ImportInv, ListingOK, ProposalsSound

LEMMA StillSound == ASSUME ProposalsSound PROVE ImporterSound(Still)
<1>1. /\ Still.pc = "idle" /\ Still.found = <<>> /\ Still.todo = <<>> /\ Still.item = 0
      /\ Still \in Locals
  <2>1. MaxPages \in Nat \ {0} BY ImportAssumption
  <2>2. <<>> \in Seq(Candidates) OBVIOUS
  <2> QED BY <2>1, <2>2 DEF Still, Locals, Pcs
<1>2. Len(proposals) \in Nat BY LenProperties DEF ProposalsSound
<1> QED BY <1>1, <1>2 DEF ImporterSound, FoundSound, RefsSound, QuietSound

LEMMA ImportersStay ==
  ASSUME ImportersSound, Grows, UNCHANGED listed, UNCHANGED importer PROVE ImportersSound'
<1>1. DOMAIN importer' = Importers BY DEF ImportersSound
<1>2. ASSUME NEW o \in Importers PROVE ImporterSound(importer[o])'
  <2> PICK x : x = importer[o] OBVIOUS
  <2>1. ImporterSound(x)' BY ImporterStays DEF ImportersSound
  <2>2. importer'[o] = x OBVIOUS
  <2> QED BY <2>1, <2>2 DEF ImporterSound, FoundSound, RefsSound, QuietSound, FoundIn, IssuesOf
<1> QED BY <1>1, <1>2 DEF ImportersSound

-----------------------------------------------------------------------------
(* The steps of an import.                                                 *)

LEMMA ImporterIs ==
  ASSUME ImportInv, NEW m \in Importers, NEW s, s = importer[m]
  PROVE  ImporterSound(s) /\ s \in Locals /\ ProposalsSound /\ ListingOK
BY DEF ImportInv, ImportersSound, ImporterSound, FoundSound

LEMMA EndKeeps ==
  ASSUME ImportInv, NEW m \in Importers, Go(m, Still), UNCHANGED <<listed, body, proposals, accepting>>,
         observed' \subseteq Issues \X {"created", "existing"}
  PROVE  ImportInv'
BY StillSound, OnlyGoes DEF ImportInv

LEMMA StartImportKeeps == ASSUME ImportInv, NEW m \in Importers, StartImport(m) PROVE ImportInv'
<1> DEFINE u == [Still EXCEPT !.pc = "page"]
<1>1. ImporterSound(Still) BY StillSound DEF ImportInv
<1>2. /\ u.pc = "page" /\ u.found = <<>> /\ u.todo = <<>> /\ u.item = 0 /\ u.page = 1
      /\ u \in Locals
  <2>1. Still \in Locals BY <1>1 DEF ImporterSound, FoundSound
  <2> QED BY <2>1 DEF Still, Locals, Pcs
<1>3. Go(m, u) /\ UNCHANGED <<listed, body, proposals, accepting, observed>> BY DEF StartImport
<1> HIDE DEF u
<1>4. \A i \in listed : ~(Before(i, listed) < (u.page - 1) * PageSize)
  <2>1. listed \in SUBSET Nat /\ IsFiniteSet(listed) /\ PageSize \in Nat
    <3>1. listed \in SUBSET Issues /\ IsFiniteSet(Issues) /\ Issues \subseteq Nat /\ PageSize \in Nat
      BY ImportAssumption DEF ImportInv, ListingOK
    <3> QED BY <3>1, FS_Subset
  <2>2. \A i \in listed : Before(i, listed) \in 0 .. Cardinality(listed) - 1 BY <2>1, BeforeIs
  <2>3. (u.page - 1) * PageSize = 0 BY <1>2, <2>1
  <2> QED BY <2>2, <2>3
<1>5. ImporterSound(u)
  <2>1. FoundSound(u) BY <1>2 DEF FoundSound
  <2>2. RefsSound(u) BY <1>1, <1>2 DEF RefsSound, ImporterSound, Still
  <2>3. QuietSound(u) BY <1>2, <1>4 DEF QuietSound
  <2> QED BY <2>1, <2>2, <2>3 DEF ImporterSound
<1> QED BY <1>3, <1>5, OnlyGoes DEF ImportInv

(* What one page adds to what was found.                                   *)
Fresh(s) == Ordered(Page(s.page) \ (FoundIn(s) \cup PullRequests))
Grown(s, fresh) == s.found \o [k \in DOMAIN fresh |-> Candidate(fresh[k])]

Adds(s, found) ==
  /\ found \in Seq(Candidates)
  /\ \A j, k \in DOMAIN found : found[j].issue = found[k].issue => j = k
  /\ \A k \in DOMAIN found : Stated(found[k])
  /\ IssuesOf(found) = FoundIn(s) \cup (Page(s.page) \ PullRequests)

LEMMA PageAdds ==
  ASSUME ImportInv, NEW m \in Importers, NEW s, s = importer[m]
  PROVE  Adds(s, Grown(s, Fresh(s)))
<1>f. PICK fresh : fresh = Fresh(s) OBVIOUS
<1>g. PICK found : found = Grown(s, fresh) OBVIOUS
<1>S. PICK S : S = Page(s.page) \ (FoundIn(s) \cup PullRequests) OBVIOUS
<1>n. PICK n : n = Cardinality(S) OBVIOUS
<1>m. PICK more : more = [k \in DOMAIN fresh |-> Candidate(fresh[k])] OBVIOUS
<1>1. ImporterSound(s) /\ s \in Locals /\ ListingOK BY ImporterIs
<1>2. S \in SUBSET Nat /\ IsFiniteSet(S) /\ S \subseteq Issues \ PullRequests
  <2>1. S \in SUBSET Issues BY <1>1, <1>S DEF Page, ListingOK
  <2>2. IsFiniteSet(Issues) /\ Issues \subseteq Nat BY ImportAssumption
  <2>3. S \cap PullRequests = {} BY <1>S
  <2> QED BY <2>1, <2>2, <2>3, FS_Subset
<1>3. /\ n \in Nat /\ DOMAIN fresh = 1 .. n
      /\ \A k \in 1 .. n : fresh[k] \in S /\ Before(fresh[k], S) = k - 1
      /\ \A i \in S : Before(i, S) + 1 \in 1 .. n /\ fresh[Before(i, S) + 1] = i
  BY <1>2, <1>S, <1>n, <1>f, OrderedIs DEF Fresh
<1>4. ASSUME NEW i \in S
      PROVE  Candidate(i) \in Candidates /\ Stated(Candidate(i)) /\ Candidate(i).issue = i
  <2>1. i \in Issues \ PullRequests /\ body[i] \in Bodies[i] BY <1>1, <1>2 DEF ListingOK
  <2>2. ParseDependsOn(i, body[i]) \in SUBSET Issues BY <2>1, ParseIs
  <2> QED BY <2>1, <2>2 DEF Candidate, Candidates, Stated
<1>5. DOMAIN more = 1 .. n /\ \A k \in 1 .. n : more[k] = Candidate(fresh[k]) BY <1>3, <1>m
<1>6. more \in Seq(Candidates)
  <2>1. more \in [1 .. n -> Candidates] BY <1>3, <1>4, <1>m
  <2> QED BY <1>3, <2>1, SeqDef
<1>7. Len(more) = n BY <1>3, <1>5, <1>6, LenProperties
<1>8. s.found \in Seq(Candidates) BY <1>1 DEF Locals
<1>l. PICK l : l = Len(s.found) OBVIOUS
<1>9. l \in Nat /\ DOMAIN s.found = 1 .. l BY <1>8, <1>l, LenProperties
<1>10. /\ found \in Seq(Candidates) /\ Len(found) = l + n
       /\ \A i \in 1 .. l + n : found[i] = IF i <= l THEN s.found[i] ELSE more[i - l]
  <2>1. found = s.found \o more BY <1>m, <1>g DEF Grown
  <2>2. PICK a : a = s.found OBVIOUS
  <2>3. a \in Seq(Candidates) /\ Len(a) = l BY <1>8, <1>l, <2>2
  <2>4. /\ a \o more \in Seq(Candidates) /\ Len(a \o more) = l + n
        /\ \A i \in 1 .. l + n : (a \o more)[i] = IF i <= l THEN a[i] ELSE more[i - l]
    BY <1>6, <1>7, <2>3, ConcatProperties
  <2> QED BY <2>1, <2>2, <2>4
<1>11. DOMAIN found = 1 .. l + n BY <1>10, LenProperties
<1>12. ASSUME NEW k \in 1 .. l + n
       PROVE  \/ k \in 1 .. l /\ found[k] = s.found[k] /\ found[k].issue \in FoundIn(s)
              \/ /\ k \notin 1 .. l /\ k - l \in 1 .. n /\ found[k] = Candidate(fresh[k - l])
                 /\ fresh[k - l] \in S /\ found[k].issue = fresh[k - l]
  <2>1. CASE k <= l
    <3>1. k \in 1 .. l /\ found[k] = s.found[k] BY <1>3, <1>9, <1>10, <2>1
    <3> QED BY <1>9, <3>1 DEF FoundIn, IssuesOf
  <2>2. CASE ~(k <= l)
    <3>1. k \notin 1 .. l /\ k - l \in 1 .. n BY <1>3, <1>9, <2>2
    <3>2. found[k] = more[k - l] BY <1>10, <2>2
    <3> PICK j : j = k - l OBVIOUS
    <3>3. found[k] = Candidate(fresh[j]) /\ fresh[j] \in S BY <1>3, <1>5, <3>1, <3>2
    <3>4. found[k].issue = fresh[j] BY <1>4, <3>3
    <3> QED BY <3>1, <3>3, <3>4
  <2> QED BY <2>1, <2>2
<1>13. ASSUME NEW k \in 1 .. l + n PROVE Stated(found[k])
  BY <1>1, <1>4, <1>9, <1>12 DEF ImporterSound, FoundSound
<1>14. ASSUME NEW j \in 1 .. l + n, NEW k \in 1 .. l + n, found[j].issue = found[k].issue PROVE j = k
  <2>1. CASE j \in 1 .. l /\ k \in 1 .. l
    BY <1>1, <1>9, <1>12, <1>14, <2>1 DEF ImporterSound, FoundSound
  <2>2. CASE j \notin 1 .. l /\ k \notin 1 .. l
    <3>1. fresh[j - l] = fresh[k - l] /\ j - l \in 1 .. n /\ k - l \in 1 .. n
      BY <1>12, <1>14, <2>2
    <3>2. (j - l) - 1 = (k - l) - 1 BY <1>3, <3>1
    <3> QED BY <1>3, <1>9, <3>2
  <2>3. \A i \in S : i \notin FoundIn(s) BY <1>S
  <2>4. CASE j \in 1 .. l /\ k \notin 1 .. l BY <1>12, <1>14, <2>3, <2>4
  <2>5. CASE j \notin 1 .. l /\ k \in 1 .. l BY <1>12, <1>14, <2>3, <2>5
  <2> QED BY <2>1, <2>2, <2>4, <2>5
<1>15. IssuesOf(found) = FoundIn(s) \cup (Page(s.page) \ PullRequests)
  <2>1. FoundIn(s) \cup (Page(s.page) \ PullRequests) = FoundIn(s) \cup S
    <3>1. \A k \in 1 .. l : s.found[k] \in Candidates BY <1>8, <1>l, ElementOfSeq
    <3>2. FoundIn(s) \subseteq Issues \ PullRequests BY <1>9, <3>1 DEF FoundIn, IssuesOf, Candidates
    <3> QED BY <3>2, <1>S
  <2>2. ASSUME NEW k \in 1 .. l + n PROVE found[k].issue \in FoundIn(s) \cup S BY <1>12
  <2>3. ASSUME NEW i \in FoundIn(s) PROVE \E k \in 1 .. l + n : found[k].issue = i
    <3>1. PICK k \in 1 .. l : s.found[k].issue = i BY <1>9 DEF FoundIn, IssuesOf
    <3>2. k \in 1 .. l + n /\ found[k] = s.found[k] BY <1>3, <1>9, <1>10
    <3> QED BY <3>1, <3>2
  <2>4. ASSUME NEW i \in S PROVE \E k \in 1 .. l + n : found[k].issue = i
    <3> DEFINE k == Before(i, S) + 1
    <3>1. k \in 1 .. n /\ fresh[k] = i BY <1>3
    <3> HIDE DEF k
    <3>2. k + l \in 1 .. l + n /\ ~(k + l <= l) /\ (k + l) - l = k BY <1>3, <1>9, <3>1
    <3>3. found[k + l] = more[k] BY <1>10, <3>2
    <3> QED BY <1>4, <1>5, <3>1, <3>2, <3>3
  <2>5. \A i : i \in IssuesOf(found) <=> \E k \in 1 .. l + n : found[k].issue = i
    BY <1>11 DEF IssuesOf
  <2>6. \A i : (\E k \in 1 .. l + n : found[k].issue = i) <=> i \in FoundIn(s) \cup S
    BY <2>2, <2>3, <2>4
  <2>7. IssuesOf(found) = FoundIn(s) \cup S BY <2>5, <2>6
  <2> QED BY <2>1, <2>7
<1>16. ASSUME NEW j \in DOMAIN found, NEW k \in DOMAIN found, found[j].issue = found[k].issue PROVE j = k
  <2>1. j \in 1 .. l + n /\ k \in 1 .. l + n BY <1>11
  <2> QED BY <1>14, <1>16, <2>1
<1>17. \A k \in DOMAIN found : Stated(found[k]) BY <1>11, <1>13
<1> QED BY <1>f, <1>g, <1>10, <1>15, <1>16, <1>17 DEF Adds

LEMMA ReadPageKeeps == ASSUME ImportInv, NEW m \in Importers, ReadPage(m) PROVE ImportInv'
<1>s. PICK s : s = importer[m] OBVIOUS
<1>f. PICK fresh : fresh = Fresh(s) OBVIOUS
<1>g. PICK found : found = Grown(s, fresh) OBVIOUS
<1>l. PICK last \in BOOLEAN : last <=> Cardinality(Page(s.page)) < PageSize OBVIOUS
<1>1. ImporterSound(s) /\ s \in Locals /\ ProposalsSound /\ ListingOK BY <1>s, ImporterIs
<1>2. /\ found \in Seq(Candidates)
      /\ \A j, k \in DOMAIN found : found[j].issue = found[k].issue => j = k
      /\ \A k \in DOMAIN found : Stated(found[k])
      /\ IssuesOf(found) = FoundIn(s) \cup (Page(s.page) \ PullRequests)
  <2>1. Adds(s, Grown(s, Fresh(s))) BY <1>s, PageAdds
  <2>2. Adds(s, found) BY <1>f, <1>g, <2>1
  <2> QED BY <2>2 DEF Adds
<1>3. s.pc = "page" /\ UNCHANGED <<listed, body, proposals, accepting, observed>>
  BY <1>s DEF ReadPage, Importing
<1> DEFINE u == [s EXCEPT !.found = found, !.complete = last, !.pc = "enqueue"]
           v == [s EXCEPT !.found = found, !.page = @ + 1]
<1>4. Go(m, IF last \/ s.page = MaxPages THEN u ELSE v)
  <2> DEFINE i == importer[m]
             taken == {i.found[k].issue : k \in DOMAIN i.found} \cup PullRequests
             some == Ordered(Page(i.page) \ taken)
             grown == i.found \o [k \in DOMAIN some |-> Candidate(some[k])]
             small == Cardinality(Page(i.page)) < PageSize
  <2>1. Go(m, IF small \/ i.page = MaxPages
              THEN [i EXCEPT !.found = grown, !.complete = small, !.pc = "enqueue"]
              ELSE [i EXCEPT !.found = grown, !.page = @ + 1])
    BY DEF ReadPage
  <2>2. some = Fresh(i) BY DEF Fresh, FoundIn, IssuesOf
  <2>3. grown = Grown(i, some) BY DEF Grown
  <2>4. small \in BOOLEAN OBVIOUS
  <2>5. small <=> Cardinality(Page(i.page)) < PageSize OBVIOUS
  <2> HIDE DEF some, grown, small
  <2>6. i = s BY <1>s
  <2>7. grown = found BY <1>f, <1>g, <2>2, <2>3, <2>6
  <2>8. small <=> last BY <1>l, <2>5, <2>6
  <2>9. small = last BY <2>4, <2>8
  <2> HIDE DEF i
  <2> QED BY <2>1, <2>6, <2>7, <2>9
<1>5. /\ PageSize \in Nat /\ MaxPages \in Nat /\ s.page \in 1 .. MaxPages
      /\ \A i \in listed : Before(i, listed) \in Nat
  <2>1. listed \in SUBSET Issues /\ IsFiniteSet(Issues) /\ Issues \subseteq Nat /\ PageSize \in Nat
        /\ MaxPages \in Nat
    BY <1>1, ImportAssumption DEF ListingOK
  <2>2. listed \in SUBSET Nat /\ IsFiniteSet(listed) BY <2>1, FS_Subset
  <2> QED BY <1>1, <2>1, <2>2, BeforeIs DEF Locals
<1>a. PICK a : a = (s.page - 1) * PageSize OBVIOUS
<1>b. PICK b : b = s.page * PageSize OBVIOUS
<1>6. a \in Nat /\ b \in Nat /\ b = a + PageSize BY <1>5, <1>a, <1>b
<1>7. s.quiet => \A i \in listed \ PullRequests :
                  Before(i, listed) < b => i \in IssuesOf(found)
  <2> SUFFICES ASSUME s.quiet, NEW i \in listed \ PullRequests, Before(i, listed) < b
               PROVE  i \in FoundIn(s) \cup (Page(s.page) \ PullRequests)
    BY <1>2
  <2>1. CASE Before(i, listed) < a BY <1>1, <1>3, <1>a, <2>1 DEF ImporterSound, QuietSound
  <2>2. CASE ~(Before(i, listed) < a)
    <3>1. Before(i, listed) \in a .. b - 1 BY <1>5, <1>6, <2>2
    <3> QED BY <1>a, <1>b, <3>1 DEF Page
  <2> QED BY <2>1, <2>2
<1>8. last => \A i \in listed : Before(i, listed) < b
  BY <1>1, <1>5, <1>l, <1>b, LastPage DEF ListingOK
<1>9. CASE last \/ s.page = MaxPages
  <2>1. /\ u.found = found /\ u.complete = last /\ u.pc = "enqueue" /\ u.todo = s.todo
        /\ u.item = s.item /\ u.quiet = s.quiet /\ u \in Locals
    BY <1>1, <1>2 DEF Locals, Pcs
  <2> HIDE DEF u
  <2>2. FoundSound(u) BY <1>1, <1>2, <2>1 DEF FoundSound, ImporterSound
  <2>3. RefsSound(u) BY <1>1, <2>1 DEF RefsSound, ImporterSound
  <2>4. u.quiet /\ u.complete => listed \ PullRequests \subseteq FoundIn(u)
    BY <1>7, <1>8, <2>1 DEF FoundIn, IssuesOf
  <2>5. ImporterSound(u) BY <2>1, <2>2, <2>3, <2>4 DEF QuietSound, ImporterSound
  <2>6. Go(m, u) BY <1>4, <1>9
  <2> QED BY <1>3, <2>5, <2>6, OnlyGoes DEF ImportInv
<1>10. CASE ~(last \/ s.page = MaxPages)
  <2>1. /\ v.found = found /\ v.pc = "page" /\ v.todo = s.todo /\ v.page = s.page + 1
        /\ v.item = s.item /\ v.quiet = s.quiet /\ v \in Locals
    <3>1. s.page + 1 \in 1 .. MaxPages BY <1>5, <1>10
    <3>2. \A p \in 1 .. MaxPages : [s EXCEPT !.found = found, !.page = p] \in Locals
      BY <1>1, <1>2 DEF Locals
    <3>3. v \in Locals BY <3>1, <3>2
    <3> QED BY <1>1, <1>3, <3>3 DEF Locals
  <2> HIDE DEF v
  <2>2. FoundSound(v) BY <1>1, <1>2, <2>1 DEF FoundSound, ImporterSound
  <2>3. RefsSound(v) BY <1>1, <2>1 DEF RefsSound, ImporterSound
  <2>4. (v.page - 1) * PageSize = b
    <3>1. v.page - 1 = s.page BY <1>5, <2>1
    <3> QED BY <1>b, <3>1
  <2>5. ImporterSound(v) BY <1>7, <2>1, <2>2, <2>3, <2>4 DEF QuietSound, ImporterSound, FoundIn, IssuesOf
  <2>6. Go(m, v) BY <1>4, <1>10
  <2> QED BY <1>3, <2>5, <2>6, OnlyGoes DEF ImportInv
<1> QED BY <1>9, <1>10

(* What is known already, and the rows of what is not.                     *)
Seen(s) == {k \in DOMAIN s.found : KnownRef(s.found[k].issue)}
Rows(new) == [k \in DOMAIN new |-> NewProposal(new[k])]

LEMMA EnqueueFoundKeeps == ASSUME ImportInv, NEW m \in Importers, EnqueueFound(m) PROVE ImportInv'
<1>s. PICK s : s = importer[m] OBVIOUS
<1>1. ImporterSound(s) /\ s \in Locals /\ ProposalsSound /\ ListingOK BY <1>s, ImporterIs
<1>k. PICK known : known = Seen(s) OBVIOUS
<1>n. PICK new : new = Entries(s.found, DOMAIN s.found \ known) OBVIOUS
<1>o. PICK old : old = Entries(s.found, known) OBVIOUS
<1>c. PICK created : created = IssuesOf(new) OBVIOUS
<1>w. PICK more : more = Rows(new) OBVIOUS
<1> DEFINE u == [s EXCEPT !.pc = "refresh", !.todo = old, !.created = created]
<1>2. s.pc = "enqueue" /\ UNCHANGED <<listed, body, accepting, observed>>
  BY <1>s DEF EnqueueFound, Importing
<1>3. \/ proposals' = proposals \o more /\ Go(m, u)
      \/ UNCHANGED proposals /\ Go(m, Still)
  <2> DEFINE i == importer[m]
             seen == {k \in DOMAIN i.found : KnownRef(i.found[k].issue)}
             fresh == Entries(i.found, DOMAIN i.found \ seen)
             stale == Entries(i.found, seen)
             made == {fresh[k].issue : k \in DOMAIN fresh}
             rows == [k \in DOMAIN fresh |-> NewProposal(fresh[k])]
  <2>1. \/ /\ proposals' = proposals \o rows
           /\ Go(m, [i EXCEPT !.pc = "refresh", !.todo = stale, !.created = made])
        \/ UNCHANGED proposals /\ Go(m, Still)
    BY DEF EnqueueFound
  <2>2. seen = Seen(i) BY DEF Seen
  <2>3. fresh = Entries(i.found, DOMAIN i.found \ seen) /\ stale = Entries(i.found, seen) OBVIOUS
  <2>4. made = IssuesOf(fresh) BY DEF IssuesOf
  <2>5. rows = Rows(fresh) BY DEF Rows
  <2> HIDE DEF made, rows
  <2> HIDE DEF fresh, stale
  <2> HIDE DEF seen
  <2>6. i = s BY <1>s
  <2> HIDE DEF i
  <2>7. seen = known BY <1>k, <2>2, <2>6
  <2>8. fresh = new /\ stale = old BY <1>n, <1>o, <2>3, <2>6, <2>7
  <2>9. made = created /\ rows = more BY <1>c, <1>w, <2>4, <2>5, <2>8
  <2> QED BY <2>1, <2>6, <2>8, <2>9
<1>4. s.found \in Seq(Candidates) /\ known \in SUBSET (DOMAIN s.found)
      /\ (DOMAIN s.found \ known) \in SUBSET (DOMAIN s.found)
      /\ \A k \in DOMAIN s.found : s.found[k] \in Candidates
  <2>1. s.found \in Seq(Candidates) BY <1>1 DEF Locals
  <2>2. \A k \in DOMAIN s.found : s.found[k] \in Candidates BY <2>1, LenProperties, ElementOfSeq
  <2> QED BY <1>k, <2>1, <2>2 DEF Seen
<1>5. /\ new \in Seq(Candidates)
      /\ \A k \in DOMAIN new : \E i \in DOMAIN s.found \ known : new[k] = s.found[i]
      /\ \A i \in DOMAIN s.found \ known : \E k \in DOMAIN new : new[k] = s.found[i]
      /\ \A j, k \in DOMAIN new : new[j] = new[k] => j = k
  <2>1. \A i, j \in DOMAIN s.found \ known : s.found[i] = s.found[j] => i = j
    BY <1>1 DEF ImporterSound, FoundSound
  <2>2. PICK K \in SUBSET (DOMAIN s.found) : K = DOMAIN s.found \ known OBVIOUS
  <2>3. PICK f \in Seq(Candidates) : f = s.found BY <1>4
  <2>4. /\ Entries(f, K) \in Seq(Candidates)
        /\ \A k \in DOMAIN Entries(f, K) : \E p \in K : Entries(f, K)[k] = f[p]
        /\ \A p \in K : \E k \in DOMAIN Entries(f, K) : Entries(f, K)[k] = f[p]
        /\ \A j, k \in DOMAIN Entries(f, K) : Entries(f, K)[j] = Entries(f, K)[k] => j = k
    <3>1. \A p, q \in K : f[p] = f[q] => p = q BY <2>1, <2>2, <2>3
    <3>2. K \in SUBSET (DOMAIN f) BY <2>3
    <3> QED BY <3>1, <3>2, EntriesAre
  <2>5. new = Entries(f, K) BY <1>n, <2>2, <2>3
  <2>6. /\ new \in Seq(Candidates)
        /\ \A k \in DOMAIN new : \E p \in K : new[k] = f[p]
        /\ \A p \in K : \E k \in DOMAIN new : new[k] = f[p]
        /\ \A j, k \in DOMAIN new : new[j] = new[k] => j = k
    BY <2>4, <2>5
  <2> QED BY <2>2, <2>3, <2>6
<1>6. old \in Seq(Candidates) /\ \A k \in DOMAIN old : \E i \in known : old[k] = s.found[i]
  BY <1>4, <1>o, EntriesAre
<1>7. CASE proposals' = proposals \o more /\ Go(m, u)
  <2>n. PICK n : n = Len(new) OBVIOUS
  <2>l. PICK l : l = Len(proposals) OBVIOUS
  <2>1. n \in Nat /\ DOMAIN new = 1 .. n /\ \A k \in 1 .. n : new[k] \in Candidates
    BY <1>5, <2>n, LenProperties, ElementOfSeq
  <2>2. \A k \in 1 .. n : NewProposal(new[k]) \in Proposals BY <2>1 DEF NewProposal, Proposals, Candidates
  <2>3. more \in Seq(Proposals) /\ Len(more) = n /\ DOMAIN more = 1 .. n
        /\ \A k \in 1 .. n : more[k] = NewProposal(new[k])
    <3>1. more \in [1 .. n -> Proposals] BY <1>w, <2>1, <2>2 DEF Rows
    <3>2. more \in Seq(Proposals) BY <2>1, <3>1, SeqDef
    <3>3. DOMAIN more = 1 .. n BY <3>1
    <3>4. Len(more) = n BY <2>1, <3>2, <3>3, LenProperties
    <3> QED BY <1>w, <2>1, <3>2, <3>3, <3>4 DEF Rows
  <2>4. proposals \in Seq(Proposals) /\ l \in Nat /\ DOMAIN proposals = 1 .. l
    BY <1>1, <2>l, LenProperties DEF ProposalsSound
  <2>5. /\ proposals' \in Seq(Proposals) /\ Len(proposals') = l + n
        /\ \A i \in 1 .. l + n : proposals'[i] = IF i <= l THEN proposals[i] ELSE more[i - l]
    BY <1>7, <2>3, <2>4, <2>l, ConcatProperties
  <2>6. DOMAIN proposals' = 1 .. l + n BY <2>5, LenProperties
  <2>7. \A k \in 1 .. l : k \in 1 .. l + n /\ proposals'[k] = proposals[k] BY <2>1, <2>4, <2>5
  <2>8. \A k \in 1 .. n : k + l \in 1 .. l + n /\ proposals'[k + l] = NewProposal(new[k])
    <3>1. ASSUME NEW k \in 1 .. n PROVE k + l \in 1 .. l + n /\ ~(k + l <= l) /\ (k + l) - l = k
      BY <2>1, <2>4
    <3> QED BY <2>3, <2>5, <3>1
  <2>9. ASSUME NEW k \in 1 .. l + n
        PROVE  \/ k \in 1 .. l /\ proposals'[k] = proposals[k]
               \/ \E i \in DOMAIN s.found \ known : \E j \in 1 .. n :
                    k = j + l /\ proposals'[k] = NewProposal(new[j]) /\ new[j] = s.found[i]
    <3>1. CASE k <= l
      <4>1. k \in 1 .. l BY <2>1, <2>4, <3>1
      <4> QED BY <2>7, <4>1
    <3>2. CASE ~(k <= l)
      <4>1. PICK j \in 1 .. n : k = j + l
        <5>1. k - l \in 1 .. n /\ k = (k - l) + l BY <2>1, <2>4, <3>2
        <5> QED BY <5>1
      <4>2. proposals'[k] = NewProposal(new[j]) BY <2>8, <4>1
      <4>3. \E i \in DOMAIN s.found \ known : new[j] = s.found[i] BY <1>5, <2>1
      <4> QED BY <4>1, <4>2, <4>3
    <3> QED BY <3>1, <3>2
  <2>f. \A c : NewProposal(c).issue = c.issue BY DEF NewProposal
  <2>g. ASSUME NEW k \in 1 .. l + n
        PROVE  \/ k \in 1 .. l /\ proposals'[k].issue = proposals[k].issue
               \/ \E i \in DOMAIN s.found \ known : \E j \in 1 .. n :
                    k = j + l /\ proposals'[k].issue = s.found[i].issue /\ new[j] = s.found[i]
    BY <2>9, <2>f
  <2>10. Grows BY <2>1, <2>4, <2>5, <2>7, <2>l DEF Grows
  <2>11. ProposalsSound'
    <3>1. ASSUME NEW j \in 1 .. l + n, NEW k \in 1 .. l + n, proposals'[j].issue = proposals'[k].issue
          PROVE  j = k
      <4>1. \A i \in DOMAIN s.found \ known : \A q \in 1 .. l : proposals[q].issue # s.found[i].issue
        BY <1>k, <2>4 DEF KnownRef, Seen
      <4>2. CASE j \in 1 .. l /\ k \in 1 .. l
        BY <1>1, <2>4, <2>7, <3>1, <4>2 DEF ProposalsSound
      <4>3. CASE j \in 1 .. l /\ k \notin 1 .. l
        BY <2>7, <2>g, <3>1, <4>1, <4>3
      <4>4. CASE j \notin 1 .. l /\ k \in 1 .. l
        BY <2>7, <2>g, <3>1, <4>1, <4>4
      <4>5. CASE j \notin 1 .. l /\ k \notin 1 .. l
        <5>1. PICK i \in DOMAIN s.found, x \in 1 .. n :
                j = x + l /\ proposals'[j].issue = s.found[i].issue /\ new[x] = s.found[i]
          BY <2>g, <4>5
        <5>2. PICK q \in DOMAIN s.found, y \in 1 .. n :
                k = y + l /\ proposals'[k].issue = s.found[q].issue /\ new[y] = s.found[q]
          BY <2>g, <4>5
        <5>3. i = q BY <1>1, <3>1, <5>1, <5>2 DEF ImporterSound, FoundSound
        <5>4. x = y BY <1>5, <2>1, <5>1, <5>2, <5>3
        <5> QED BY <5>1, <5>2, <5>4
      <4> QED BY <4>2, <4>3, <4>4, <4>5
    <3>2. ASSUME NEW k \in 1 .. l + n
          PROVE  /\ Stated(proposals'[k])
                 /\ proposals'[k].status # "proposed" => proposals'[k].edges = proposals'[k].approved
      <4>1. CASE k \in 1 .. l BY <1>1, <2>4, <2>7, <4>1 DEF ProposalsSound
      <4>2. CASE k \notin 1 .. l
        <5>1. PICK i \in DOMAIN s.found : proposals'[k] = NewProposal(s.found[i]) BY <2>9, <4>2
        <5>2. Stated(s.found[i]) BY <1>1 DEF ImporterSound, FoundSound
        <5> QED BY <5>1, <5>2 DEF NewProposal, Stated
      <4> QED BY <4>1, <4>2
    <3> QED BY <2>5, <2>6, <3>1, <3>2 DEF ProposalsSound, Stated
  <2>12. ImporterSound(u)'
    <3>1. ImporterSound(s)' BY <1>1, <1>2, <2>10, ImporterStays
    <3>2. created \subseteq Issues BY <1>c, <2>1 DEF Candidates, IssuesOf
    <3>3. /\ u.pc = "refresh" /\ u.found = s.found /\ u.todo = old /\ u.item = s.item
          /\ u.quiet = s.quiet /\ u.complete = s.complete /\ u \in Locals
      BY <1>1, <1>6, <3>2 DEF Locals, Pcs
    <3> PICK x : x = u OBVIOUS
    <3>4. \A k \in DOMAIN old : Stated(old[k])
      BY <1>1, <1>6, <1>k DEF ImporterSound, FoundSound, Seen
    <3>5. FoundSound(x) BY <1>1, <3>3, <3>4 DEF FoundSound, ImporterSound
    <3>6. ASSUME NEW i \in DOMAIN s.found PROVE \E k \in 1 .. l + n : proposals'[k].issue = s.found[i].issue
      <4>1. CASE i \in known
        <5>1. PICK k \in 1 .. l : proposals[k].issue = s.found[i].issue BY <1>k, <2>4, <4>1 DEF KnownRef, Seen
        <5> QED BY <2>7, <5>1
      <4>2. CASE i \notin known
        <5>1. PICK k \in 1 .. n : new[k] = s.found[i] BY <1>5, <2>1, <4>2
        <5>2. k + l \in 1 .. l + n /\ proposals'[k + l] = NewProposal(new[k]) BY <2>8
        <5> QED BY <2>f, <5>1, <5>2
      <4> QED BY <4>1, <4>2
    <3>7. RefsSound(x)' BY <2>6, <3>1, <3>3, <3>6 DEF RefsSound, ImporterSound, KnownRef
    <3>8. QuietSound(x)' BY <1>2, <3>1, <3>3 DEF QuietSound, ImporterSound, FoundIn, IssuesOf
    <3>9. ImporterSound(x)' BY <3>5, <3>7, <3>8 DEF ImporterSound, FoundSound
    <3> QED BY <3>9
  <2>13. ImportersSound'
    <3> PICK x : x = u OBVIOUS
    <3>1. Go(m, x) /\ ImporterSound(x)' BY <1>7, <2>12
    <3> QED BY <1>2, <2>10, <3>1, GoKeeps DEF ImportInv
  <2> QED BY <1>2, <2>11, <2>13 DEF ImportInv, ListingOK
<1>8. CASE UNCHANGED proposals /\ Go(m, Still) BY <1>2, <1>8, EndKeeps DEF ImportInv
<1> QED BY <1>3, <1>7, <1>8

(* One proposal changes, and stays sound.                                  *)
LEMMA RowKeeps ==
  ASSUME ImportInv, NEW k \in DOMAIN proposals, NEW row \in Proposals,
         row.issue = proposals[k].issue, Stated(row),
         row.status # "proposed" => row.edges = row.approved,
         proposals' = [proposals EXCEPT ![k] = row]
  PROVE  Grows /\ ProposalsSound'
<1>1. PICK n : n = Len(proposals) OBVIOUS
<1>2. n \in Nat /\ DOMAIN proposals = 1 .. n /\ proposals \in Seq(Proposals)
  BY <1>1, LenProperties DEF ImportInv, ProposalsSound
<1>3. \A j \in 1 .. n : proposals[j] \in Proposals BY <1>2, ElementOfSeq
<1>4. DOMAIN proposals' = 1 .. n /\ proposals'[k] = row /\ \A j \in 1 .. n : j # k => proposals'[j] = proposals[j]
  BY <1>2
<1>5. proposals' \in Seq(Proposals)
  <2>1. proposals' \in [1 .. n -> Proposals] BY <1>2, <1>3
  <2> QED BY <1>2, <2>1, SeqDef
<1>6. Len(proposals') = n BY <1>2, <1>4, <1>5, LenProperties
<1>7. \A j \in 1 .. n : proposals'[j].issue = proposals[j].issue BY <1>4
<1>8. Grows BY <1>1, <1>2, <1>5, <1>6, <1>7 DEF Grows
<1>9. \A j, l \in 1 .. n : proposals'[j].issue = proposals'[l].issue => j = l
  BY <1>2, <1>7 DEF ImportInv, ProposalsSound
<1>10. ASSUME NEW j \in 1 .. n
       PROVE  /\ Stated(proposals'[j])
              /\ proposals'[j].status # "proposed" => proposals'[j].edges = proposals'[j].approved
  <2>1. CASE j = k BY <1>4, <2>1
  <2>2. CASE j # k BY <1>2, <1>4, <2>2 DEF ImportInv, ProposalsSound
  <2> QED BY <2>1, <2>2
<1> QED BY <1>4, <1>5, <1>8, <1>9, <1>10 DEF ProposalsSound, Stated

LEMMA ReadProposalKeeps == ASSUME ImportInv, NEW m \in Importers, ReadProposal(m) PROVE ImportInv'
<1>s. PICK s : s = importer[m] OBVIOUS
<1>1. ImporterSound(s) /\ s \in Locals /\ ProposalsSound /\ ListingOK BY <1>s, ImporterIs
<1>2. s.pc = "refresh" /\ s.todo # <<>> /\ UNCHANGED <<listed, body, proposals, accepting, observed>>
  BY <1>s DEF ReadProposal, Importing
<1>c. PICK c : c = Head(s.todo) OBVIOUS
<1>3. \/ \E k \in DOMAIN proposals : /\ proposals[k].issue = c.issue
                                     /\ Go(m, [s EXCEPT !.pc = "replace", !.item = k])
      \/ Go(m, [s EXCEPT !.todo = Tail(@)])
  <2> DEFINE i == importer[m]
             items == {k \in DOMAIN proposals : proposals[k].issue = Head(i.todo).issue /\ IsProposed(k)}
             existing == CHOOSE k \in items : TRUE
             differs == items # {} /\ proposals[existing].edges # Head(i.todo).edges
  <2>1. Go(m, IF differs THEN [i EXCEPT !.pc = "replace", !.item = existing]
              ELSE [i EXCEPT !.todo = Tail(@)])
    BY DEF ReadProposal
  <2>2. items # {} => existing \in items OBVIOUS
  <2>3. \A k \in items : k \in DOMAIN proposals /\ proposals[k].issue = Head(i.todo).issue OBVIOUS
  <2>4. differs => items # {} OBVIOUS
  <2> HIDE DEF differs
  <2> HIDE DEF existing
  <2> HIDE DEF items
  <2>5. i = s BY <1>s
  <2> HIDE DEF i
  <2>6. CASE differs
    <3>1. existing \in DOMAIN proposals /\ proposals[existing].issue = c.issue
      BY <1>c, <2>2, <2>3, <2>4, <2>5, <2>6
    <3>2. Go(m, [s EXCEPT !.pc = "replace", !.item = existing]) BY <2>1, <2>5, <2>6
    <3> QED BY <3>1, <3>2
  <2>7. CASE ~differs
    <3>1. Go(m, [s EXCEPT !.todo = Tail(@)]) BY <2>1, <2>5, <2>7
    <3> QED BY <3>1
  <2> QED BY <2>6, <2>7
<1>4. s.todo \in Seq(Candidates) /\ Tail(s.todo) \in Seq(Candidates)
      /\ \A k \in DOMAIN Tail(s.todo) : Stated(Tail(s.todo)[k])
  <2>t. PICK t \in Seq(Candidates) : t = s.todo BY <1>1 DEF Locals
  <2>1. t # <<>> /\ \A k \in DOMAIN t : Stated(t[k]) BY <1>1, <1>2, <2>t DEF ImporterSound, FoundSound
  <2>2. Tail(t) \in Seq(Candidates) /\ Len(Tail(t)) = Len(t) - 1
        /\ \A k \in 1 .. Len(Tail(t)) : Tail(t)[k] = t[k + 1]
    BY <2>1, HeadTailProperties
  <2>3. DOMAIN t = 1 .. Len(t) /\ DOMAIN Tail(t) = 1 .. Len(Tail(t)) /\ Len(t) \in Nat
    BY <2>2, LenProperties
  <2>4. \A k \in DOMAIN Tail(t) : Tail(t)[k] = t[k + 1] /\ k + 1 \in DOMAIN t BY <2>2, <2>3
  <2> QED BY <2>t, <2>1, <2>2, <2>4
<1>5. ASSUME NEW k \in DOMAIN proposals, proposals[k].issue = c.issue,
             Go(m, [s EXCEPT !.pc = "replace", !.item = k])
      PROVE  ImportInv'
  <2> DEFINE u == [s EXCEPT !.pc = "replace", !.item = k]
  <2>1. k \in 1 .. Len(proposals) /\ Len(proposals) \in Nat /\ k \in Nat
    BY <1>1, LenProperties DEF ProposalsSound
  <2>2. /\ u.pc = "replace" /\ u.item = k /\ u.found = s.found /\ u.todo = s.todo /\ u.quiet = s.quiet
        /\ u.complete = s.complete /\ u \in Locals
    BY <1>1, <2>1 DEF Locals, Pcs
  <2>3. Go(m, u) BY <1>5
  <2> HIDE DEF u
  <2>4. FoundSound(u) BY <1>1, <2>2 DEF FoundSound, ImporterSound
  <2>5. RefsSound(u) BY <1>1, <1>2, <1>5, <1>c, <2>1, <2>2 DEF RefsSound, ImporterSound
  <2>6. QuietSound(u) BY <1>1, <1>2, <2>2 DEF QuietSound, ImporterSound, FoundIn
  <2> QED BY <1>2, <2>3, <2>4, <2>5, <2>6, OnlyGoes DEF ImporterSound, ImportInv
<1>6. ASSUME Go(m, [s EXCEPT !.todo = Tail(@)]) PROVE ImportInv'
  <2> DEFINE u == [s EXCEPT !.todo = Tail(s.todo)]
  <2>1. /\ u.pc = "refresh" /\ u.item = s.item /\ u.found = s.found /\ u.todo = Tail(s.todo)
        /\ u.quiet = s.quiet /\ u.complete = s.complete /\ u \in Locals
    BY <1>1, <1>2, <1>4 DEF Locals
  <2>2. Go(m, u) BY <1>6
  <2> HIDE DEF u
  <2>3. FoundSound(u) BY <1>1, <1>4, <2>1 DEF FoundSound, ImporterSound
  <2>4. RefsSound(u) BY <1>1, <1>2, <2>1 DEF RefsSound, ImporterSound
  <2>5. QuietSound(u) BY <1>1, <1>2, <2>1 DEF QuietSound, ImporterSound, FoundIn
  <2> QED BY <1>2, <2>2, <2>3, <2>4, <2>5, OnlyGoes DEF ImporterSound, ImportInv
<1> QED BY <1>3, <1>5, <1>6

LEMMA ReplaceEdgesKeeps == ASSUME ImportInv, NEW m \in Importers, ReplaceEdges(m) PROVE ImportInv'
<1>s. PICK s : s = importer[m] OBVIOUS
<1>1. ImporterSound(s) /\ s \in Locals /\ ProposalsSound /\ ListingOK BY <1>s, ImporterIs
<1>2. s.pc = "replace" /\ UNCHANGED <<listed, body, accepting, observed>>
  BY <1>s DEF ReplaceEdges, Importing
<1>t. PICK t \in Seq(Candidates) : t = s.todo BY <1>1 DEF Locals
<1>c. PICK c : c = Head(t) OBVIOUS
<1>k. PICK k : k = s.item OBVIOUS
<1> DEFINE u == [s EXCEPT !.pc = "refresh", !.todo = Tail(t), !.item = 0]
<1>3. \/ /\ IsProposed(k) /\ proposals' = [proposals EXCEPT ![k].edges = c.edges]
         /\ Go(m, u)
      \/ UNCHANGED proposals /\ Go(m, Still)
  BY <1>s, <1>t, <1>c, <1>k DEF ReplaceEdges
<1>4. t # <<>> /\ k \in DOMAIN proposals /\ proposals[k].issue = c.issue /\ proposals \in Seq(Proposals)
      /\ proposals[k] \in Proposals
  <2>1. t # <<>> /\ k # 0 /\ k \in 0 .. Len(proposals) /\ proposals[k].issue = c.issue
    BY <1>1, <1>2, <1>t, <1>c, <1>k DEF ImporterSound, RefsSound
  <2>2. proposals \in Seq(Proposals) /\ Len(proposals) \in Nat /\ DOMAIN proposals = 1 .. Len(proposals)
    BY <1>1, LenProperties DEF ProposalsSound
  <2>3. k \in 1 .. Len(proposals) BY <2>1, <2>2
  <2>4. proposals[k] \in Proposals BY <2>2, <2>3, ElementOfSeq
  <2> QED BY <2>1, <2>2, <2>3, <2>4
<1>5. /\ Tail(t) \in Seq(Candidates) /\ c \in Candidates /\ Stated(c)
      /\ \A j \in DOMAIN Tail(t) : Stated(Tail(t)[j])
  <2>1. \A j \in DOMAIN t : Stated(t[j]) BY <1>1, <1>t DEF ImporterSound, FoundSound
  <2>2. /\ Tail(t) \in Seq(Candidates) /\ Len(Tail(t)) = Len(t) - 1
        /\ \A j \in 1 .. Len(Tail(t)) : Tail(t)[j] = t[j + 1]
    BY <1>4, HeadTailProperties
  <2>3. DOMAIN t = 1 .. Len(t) /\ DOMAIN Tail(t) = 1 .. Len(Tail(t)) /\ Len(t) \in Nat
    BY <2>2, LenProperties
  <2>4. \A j \in DOMAIN Tail(t) : Tail(t)[j] = t[j + 1] /\ j + 1 \in DOMAIN t BY <2>2, <2>3
  <2>5. Len(t) # 0 BY <1>4, EmptySeq
  <2>6. c = t[1] /\ 1 \in DOMAIN t BY <1>c, <2>3, <2>5
  <2>7. c \in Candidates BY <2>3, <2>6, ElementOfSeq
  <2> QED BY <2>1, <2>2, <2>4, <2>6, <2>7
<1>6. CASE IsProposed(k) /\ proposals' = [proposals EXCEPT ![k].edges = c.edges] /\ Go(m, u)
  <2>1. PICK old \in Proposals : old = proposals[k] BY <1>4
  <2>2. PICK row : row = [old EXCEPT !.edges = c.edges] OBVIOUS
  <2>3. row \in Proposals /\ row.issue = old.issue /\ row.edges = c.edges /\ row.status = old.status
    BY <1>5, <2>1, <2>2 DEF Proposals, Candidates
  <2>4. row.status = "proposed" BY <1>6, <2>1, <2>3 DEF IsProposed
  <2>5. proposals' = [proposals EXCEPT ![k] = row] BY <1>4, <1>6, <2>1, <2>2
  <2>6. Stated(row) BY <1>4, <1>5, <2>1, <2>3 DEF Stated
  <2>7. Grows /\ ProposalsSound' BY <1>4, <2>1, <2>3, <2>4, <2>5, <2>6, RowKeeps
  <2>8. /\ u.pc = "refresh" /\ u.item = 0 /\ u.found = s.found /\ u.todo = Tail(t) /\ u.quiet = s.quiet
        /\ u.complete = s.complete /\ u \in Locals
    BY <1>1, <1>5 DEF Locals, Pcs
  <2>9. PICK x : x = u OBVIOUS
  <2>10. ImporterSound(s)' BY <1>1, <1>2, <2>7, ImporterStays
  <2>11. Len(proposals') \in Nat BY <2>7, LenProperties DEF Grows
  <2> HIDE DEF u
  <2>12. FoundSound(x)' BY <1>1, <1>5, <2>8, <2>9 DEF FoundSound, ImporterSound
  <2>13. RefsSound(x)' BY <1>2, <2>8, <2>9, <2>10, <2>11 DEF RefsSound, ImporterSound
  <2>14. QuietSound(x)' BY <1>2, <2>8, <2>9, <2>10 DEF QuietSound, ImporterSound, FoundIn
  <2>15. ImporterSound(x)' BY <2>12, <2>13, <2>14 DEF ImporterSound
  <2>16. Go(m, x) BY <1>6, <2>9
  <2>17. ImportersSound' BY <1>2, <2>7, <2>15, <2>16, GoKeeps DEF ImportInv
  <2> QED BY <1>2, <2>7, <2>17 DEF ImportInv, ListingOK
<1>7. CASE UNCHANGED proposals /\ Go(m, Still) BY <1>2, <1>7, EndKeeps DEF ImportInv
<1> QED BY <1>3, <1>6, <1>7

LEMMA RecordObservedKeeps == ASSUME ImportInv, NEW m \in Importers, RecordObserved(m) PROVE ImportInv'
<1>s. PICK s : s = importer[m] OBVIOUS
<1>1. ImporterSound(s) /\ s \in Locals BY <1>s, ImporterIs
<1>2. s.found \in Seq(Candidates) BY <1>1 DEF Locals
<1>3. \A k \in DOMAIN s.found : s.found[k].issue \in Issues
  <2>1. \A k \in DOMAIN s.found : s.found[k] \in Candidates BY <1>2, LenProperties, ElementOfSeq
  <2> QED BY <2>1 DEF Candidates
<1>4. Go(m, Still) /\ UNCHANGED <<listed, body, proposals, accepting>> BY DEF RecordObserved
<1>5. observed' \subseteq Issues \X {"created", "existing"}
  <2> DEFINE Outcome(issue) == IF issue \in importer[m].created THEN "created" ELSE "existing"
             seen == {<<importer[m].found[k].issue, Outcome(importer[m].found[k].issue)>>
                        : k \in DOMAIN importer[m].found}
  <2>1. observed' = IF accepting THEN seen ELSE observed BY DEF RecordObserved
  <2>2. \A k \in DOMAIN importer[m].found : importer[m].found[k].issue \in Issues BY <1>s, <1>3
  <2>3. \A i : Outcome(i) \in {"created", "existing"} OBVIOUS
  <2> HIDE DEF Outcome
  <2>4. seen \subseteq Issues \X {"created", "existing"} BY <2>2, <2>3
  <2> HIDE DEF seen
  <2> QED BY <2>1, <2>4 DEF ImportInv
<1> QED BY <1>4, <1>5, EndKeeps

-----------------------------------------------------------------------------
(* What happens meanwhile.                                                 *)

LEMMA IssueMovesKeeps == ASSUME ImportInv, NEW i \in Issues, IssueMoves(i) PROVE ImportInv'
<1>1. Disturb /\ UNCHANGED <<proposals, accepting, observed>> BY DEF IssueMoves
<1>2. ListingOK'
  <2>1. CASE body' = body /\ listed' = IF i \in listed THEN listed \ {i} ELSE listed \cup {i}
    BY <2>1 DEF ImportInv, ListingOK
  <2>2. CASE listed' = listed /\ \E lines \in Bodies[i] : body' = [body EXCEPT ![i] = lines]
    BY <2>2 DEF ImportInv, ListingOK
  <2>3. \/ listed' = (IF i \in listed THEN listed \ {i} ELSE listed \cup {i}) /\ body' = body
        \/ body' \in {[body EXCEPT ![i] = lines] : lines \in Bodies[i] \ {body[i]}} /\ listed' = listed
    BY DEF IssueMoves
  <2>4. body' \in {[body EXCEPT ![i] = lines] : lines \in Bodies[i] \ {body[i]}} =>
          \E lines \in Bodies[i] : body' = [body EXCEPT ![i] = lines]
    OBVIOUS
  <2> QED BY <2>1, <2>2, <2>3, <2>4
<1>3. ASSUME NEW m \in Importers PROVE ImporterSound(importer[m])'
  <2>x. PICK x : x = importer[m] OBVIOUS
  <2>q. PICK q \in BOOLEAN : q <=> x.pc = "idle" OBVIOUS
  <2>y. PICK y : y = [x EXCEPT !.quiet = q] OBVIOUS
  <2>1. ImporterSound(x) /\ x \in Locals BY <2>x, ImporterIs
  <2>2. importer'[m] = y
    <3>1. importer'[m] = [x EXCEPT !.quiet = x.pc = "idle"] BY <1>1, <2>x DEF Disturb
    <3>2. (x.pc = "idle") = q BY <2>q
    <3> QED BY <2>y, <3>1, <3>2
  <2>3. /\ y \in Locals /\ y.pc = x.pc /\ y.found = x.found /\ y.todo = x.todo /\ y.item = x.item
        /\ y.quiet = q
    BY <2>1, <2>y DEF Locals
  <2>4. FoundSound(y)' BY <2>1, <2>3 DEF ImporterSound, FoundSound
  <2>5. RefsSound(y)' BY <1>1, <2>1, <2>3 DEF ImporterSound, RefsSound, KnownRef
  <2>6. QuietSound(y)' BY <2>3, <2>q DEF QuietSound
  <2> QED BY <2>2, <2>4, <2>5, <2>6 DEF ImporterSound, FoundSound, RefsSound, QuietSound, FoundIn, IssuesOf
<1>4. DOMAIN importer' = Importers BY <1>1 DEF Disturb
<1>5. ImportersSound' BY <1>3, <1>4 DEF ImportersSound
<1> QED BY <1>1, <1>2, <1>5 DEF ImportInv, ProposalsSound, Stated

LEMMA DecideItemKeeps == ASSUME ImportInv, NEW k \in DOMAIN proposals, DecideItem(k) PROVE ImportInv'
<1>1. UNCHANGED <<listed, body, accepting, observed, importer>> BY DEF DecideItem
<1>2. PICK old \in Proposals : old = proposals[k]
  BY LenProperties, ElementOfSeq DEF ImportInv, ProposalsSound
<1>3. PICK rows : rows = proposals OBVIOUS
<1>4. \E row \in Proposals :
        /\ row.issue = old.issue /\ row.edges = old.edges /\ proposals' = [proposals EXCEPT ![k] = row]
        /\ row.status # "proposed" => row.edges = row.approved
  <2>1. ASSUME NEW st \in {"proposed", "admitted", "ended"}, NEW ap \in SUBSET Issues,
               proposals' = [proposals EXCEPT ![k].status = st, ![k].approved = ap],
               st # "proposed" => old.edges = ap
        PROVE  \E row \in Proposals :
                 /\ row.issue = old.issue /\ row.edges = old.edges
                 /\ proposals' = [proposals EXCEPT ![k] = row]
                 /\ row.status # "proposed" => row.edges = row.approved
    <3>1. PICK row : row = [old EXCEPT !.status = st, !.approved = ap] OBVIOUS
    <3>2. /\ row \in Proposals /\ row.issue = old.issue /\ row.edges = old.edges /\ row.status = st
          /\ row.approved = ap
      BY <1>2, <3>1 DEF Proposals
    <3>3. proposals' = [proposals EXCEPT ![k] = row] BY <1>2, <2>1, <3>1
    <3> QED BY <2>1, <3>2, <3>3
  <2>2. old.edges \in SUBSET Issues BY <1>2 DEF Proposals
  <2>3. \/ proposals' = [proposals EXCEPT ![k].status = "admitted", ![k].approved = old.edges]
        \/ proposals' = [proposals EXCEPT ![k].status = "proposed", ![k].approved = {}]
        \/ proposals' = [proposals EXCEPT ![k].status = "ended", ![k].approved = old.edges]
    BY <1>2 DEF DecideItem
  <2>4. CASE proposals' = [proposals EXCEPT ![k].status = "admitted", ![k].approved = old.edges]
    BY <2>1, <2>2, <2>4
  <2>5. CASE proposals' = [proposals EXCEPT ![k].status = "proposed", ![k].approved = {}]
    <3>1. PICK none \in SUBSET Issues : none = {} OBVIOUS
    <3>2. proposals' = [proposals EXCEPT ![k].status = "proposed", ![k].approved = none] BY <2>5, <3>1
    <3> QED BY <2>1, <3>2
  <2>6. CASE proposals' = [proposals EXCEPT ![k].status = "ended", ![k].approved = old.edges]
    BY <2>1, <2>2, <2>6
  <2> QED BY <2>3, <2>4, <2>5, <2>6
<1>5. PICK row \in Proposals :
        /\ row.issue = old.issue /\ row.edges = old.edges /\ proposals' = [proposals EXCEPT ![k] = row]
        /\ row.status # "proposed" => row.edges = row.approved
  BY <1>4
<1>6. Stated(row) BY <1>2, <1>5 DEF ImportInv, ProposalsSound, Stated
<1>7. Grows /\ ProposalsSound' BY <1>2, <1>5, <1>6, RowKeeps
<1>8. ImportersSound' BY <1>1, <1>7, ImportersStay DEF ImportInv
<1> QED BY <1>1, <1>7, <1>8 DEF ImportInv, ListingOK

LEMMA AcceptOrNotKeeps == ASSUME ImportInv, AcceptOrNot PROVE ImportInv'
<1>1. accepting' \in BOOLEAN /\ UNCHANGED <<listed, body, proposals, observed, importer>>
  BY DEF AcceptOrNot
<1>2. ImportersSound'
  <2>1. Grows BY <1>1, LenProperties DEF Grows, ImportInv, ProposalsSound
  <2> QED BY <1>1, <2>1, ImportersStay DEF ImportInv
<1> QED BY <1>1, <1>2 DEF ImportInv, ListingOK, ProposalsSound, Stated

-----------------------------------------------------------------------------
LEMMA InitHolds == ASSUME ImportInit PROVE ImportInv
<1>1. ListingOK
  <2>1. listed = Issues /\ DOMAIN body = Issues /\ \A i \in Issues : body[i] \in Bodies[i]
    BY DEF ImportInit
  <2> QED BY <2>1 DEF ListingOK
<1>2. proposals = <<>> /\ accepting \in BOOLEAN /\ observed = {} BY DEF ImportInit
<1>3. ProposalsSound BY <1>2 DEF ProposalsSound
<1>4. ImporterSound(Still) BY <1>3, StillSound
<1>5. DOMAIN importer = Importers /\ \A m \in Importers : importer[m] = Still BY DEF ImportInit
<1>6. ImportersSound
  <2> PICK x : x = Still OBVIOUS
  <2>1. ImporterSound(x) BY <1>4
  <2> QED BY <1>5, <2>1 DEF ImportersSound
<1> QED BY <1>1, <1>2, <1>3, <1>6 DEF ImportInv

LEMMA StepKeeps == ASSUME ImportInv, [ImportNext]_importVars PROVE ImportInv'
<1>1. CASE ImportNext
  <2>1. ASSUME NEW m \in Importers, ImportStep(m) PROVE ImportInv'
    <3>1. CASE FailImport(m) BY <3>1, EndKeeps DEF FailImport, ImportInv
    <3> QED BY <2>1, <3>1, StartImportKeeps, ReadPageKeeps, EnqueueFoundKeeps, ReadProposalKeeps,
            ReplaceEdgesKeeps, RecordObservedKeeps DEF ImportStep
  <2> QED BY <1>1, <2>1, IssueMovesKeeps, DecideItemKeeps, AcceptOrNotKeeps DEF ImportNext
<1>2. CASE UNCHANGED importVars
  <2>1. UNCHANGED <<listed, body, proposals, accepting, observed, importer>> BY <1>2 DEF importVars
  <2>2. Grows BY <2>1, LenProperties DEF Grows, ImportInv, ProposalsSound
  <2>3. ImportersSound' BY <2>1, <2>2, ImportersStay DEF ImportInv
  <2> QED BY <2>1, <2>3 DEF ImportInv, ListingOK, ProposalsSound, Stated
<1> QED BY <1>1, <1>2

(* Whatever the listing, the imports, the operators and GitHub do, in any  *)
(* order, the invariant holds: every candidate and every proposal is what  *)
(* a body of its issue stated, no two are of one issue, and what a quiet   *)
(* import has read so far is every issue of the pages it has read.         *)
THEOREM ImportInvariant == ImportSpec => []ImportInv
<1>1. ImportInit => ImportInv BY InitHolds
<1>2. ImportInv /\ [ImportNext]_importVars => ImportInv' BY StepKeeps
<1> QED BY <1>1, <1>2, PTL DEF ImportSpec

(* What imports hold and the ledger keeps stays within its types           *)
(* (importLabeledIssues and its transactions in queue/store.ts).           *)
THEOREM ImportTypes == ImportSpec => []ImportTypeOK
<1>1. ASSUME ImportInv PROVE ImportTypeOK
  <2>1. listed \subseteq Issues /\ accepting \in BOOLEAN /\ \A i \in Issues : body[i] \in Bodies[i]
    BY <1>1 DEF ImportInv, ListingOK
  <2>2. ASSUME NEW k \in DOMAIN proposals
        PROVE  /\ proposals[k].issue \in Issues \ PullRequests
               /\ proposals[k].status \in {"proposed", "admitted", "ended"}
               /\ proposals[k].edges \cup proposals[k].approved \subseteq Issues
    <3>1. proposals[k] \in Proposals
      BY <1>1, LenProperties, ElementOfSeq DEF ImportInv, ProposalsSound
    <3> QED BY <3>1 DEF Proposals
  <2>3. ASSUME NEW m \in Importers
        PROVE  /\ importer[m].pc \in {"idle", "page", "enqueue", "refresh", "replace"}
               /\ importer[m].page \in 1 .. MaxPages /\ importer[m].item \in 0 .. Len(proposals)
               /\ Importing(m, "replace") => importer[m].todo # <<>> /\ importer[m].item # 0
    <3>s. PICK s : s = importer[m] OBVIOUS
    <3>1. ImporterSound(s) /\ s \in Locals BY <1>1, <3>s, ImporterIs
    <3>2. s.pc \in Pcs /\ s.page \in 1 .. MaxPages BY <3>1 DEF Locals
    <3>3. s.item \in 0 .. Len(proposals) /\ (s.pc = "replace" => s.todo # <<>> /\ s.item # 0)
      BY <3>1 DEF ImporterSound, RefsSound
    <3> QED BY <3>s, <3>2, <3>3 DEF Pcs, Importing
  <2>4. \A o \in observed : o[1] \in Issues /\ o[2] \in {"created", "existing"}
    BY <1>1 DEF ImportInv
  <2> QED BY <2>1, <2>2, <2>3, <2>4 DEF ImportTypeOK
<1> QED BY <1>1, ImportInvariant, PTL

(* However imports, decisions and GitHub interleave: one item per issue,   *)
(* what it waits for is what a body of its issue said, never itself, and   *)
(* as it was approved; and an import that nothing disturbed reports no     *)
(* issue as imported without an item, and misses none of the open ones     *)
(* unless it read MaxPages pages.                                          *)
THEOREM ImportsAreSound == ImportSpec => []ImportsSound
<1>1. ASSUME ImportInv PROVE ImportsSound
  <2>1. \A j, k \in DOMAIN proposals : proposals[j].issue = proposals[k].issue => j = k
    BY <1>1 DEF ImportInv, ProposalsSound
  <2>2. ASSUME NEW k \in DOMAIN proposals
        PROVE  /\ \E lines \in Bodies[proposals[k].issue] :
                     proposals[k].edges = ParseDependsOn(proposals[k].issue, lines)
               /\ proposals[k].issue \notin proposals[k].edges
               /\ proposals[k].status # "proposed" => proposals[k].edges = proposals[k].approved
    <3>1. proposals[k] \in Proposals
      BY <1>1, LenProperties, ElementOfSeq DEF ImportInv, ProposalsSound
    <3>2. proposals[k].issue \in Issues BY <3>1 DEF Proposals
    <3>3. PICK lines \in Bodies[proposals[k].issue] :
            proposals[k].edges = ParseDependsOn(proposals[k].issue, lines)
      BY <1>1 DEF ImportInv, ProposalsSound, Stated
    <3>4. proposals[k].issue \notin proposals[k].edges BY <3>2, <3>3, ParseIs
    <3> QED BY <1>1, <3>3, <3>4 DEF ImportInv, ProposalsSound
  <2>3. ASSUME NEW m \in Importers, Importing(m, "refresh")
        PROVE  /\ \A k \in DOMAIN importer[m].found : KnownRef(importer[m].found[k].issue)
               /\ importer[m].quiet /\ importer[m].complete =>
                    \A i \in listed \ PullRequests : KnownRef(i)
    <3>s. PICK s : s = importer[m] OBVIOUS
    <3>1. ImporterSound(s) /\ s.pc = "refresh" BY <1>1, <2>3, <3>s, ImporterIs DEF Importing
    <3>2. \A k \in DOMAIN s.found : KnownRef(s.found[k].issue)
      BY <3>1 DEF ImporterSound, RefsSound
    <3>3. s.quiet /\ s.complete => \A i \in listed \ PullRequests : i \in FoundIn(s)
      BY <3>1 DEF ImporterSound, QuietSound
    <3>4. \A i \in FoundIn(s) : KnownRef(i) BY <3>2 DEF FoundIn, IssuesOf
    <3> QED BY <3>s, <3>2, <3>3, <3>4
  <2> QED BY <2>1, <2>2, <2>3 DEF ImportsSound
<1> QED BY <1>1, ImportInvariant, PTL
====

----------------------------- MODULE PagesProofs -----------------------------
(***************************************************************************)
(* Proofs about the small components around the run page: the list of      *)
(* runs, the settings form, the list of provider keys, the redirects, the  *)
(* vault and the framing of the event stream, for pages of any size and    *)
(* any number of runs, settings pages, saves, administrators, keys,        *)
(* rotations, events and pings.                                            *)
(***************************************************************************)
EXTENDS Settings, History, CredentialList, Routing, Vault, Frames,
        SequenceTheorems, FiniteSetTheorems, WellFoundedInduction, TLAPS

-----------------------------------------------------------------------------
(* History: the list of runs *)

HistoryTypeOK ==
    /\ archive \in Nat /\ runs \in Seq(Nat) /\ hasMore \in BOOLEAN /\ crossed \in BOOLEAN
    /\ asked \in [Asks -> [pc : {"no", "sent", "answered"}, offset : Nat, page : Seq(Nat),
                           more : BOOLEAN]]

\* Each is the run before the last: what NoGap says, from the first one.
Consecutive(q) == \A i \in 1..Len(q) : q[i] + i = q[1] + 1

\* Some of the first n runs, without a gap.
Listable(q, n) == Consecutive(q) /\ (q # << >> => q[1] <= n /\ Len(q) <= q[1])

\* The oldest run is the last.
ToTheEnd(q) == q # << >> => q[1] = Len(q)

\* An answer is a part of the archive, and its end if there is no more.
AnswersListable ==
    /\ \A q \in Asks : asked[q].pc = "answered" =>
          Listable(asked[q].page, archive) /\ (~asked[q].more => ToTheEnd(asked[q].page) \/ q = "more")
    /\ \A q \in Asks \ {"more"} : asked[q].offset = 0

\* What the page shows and the answer that will be appended to it.
ShownListable ==
    ~crossed =>
        /\ Listable(runs, archive)
        /\ ~hasMore => ToTheEnd(runs)
        /\ asked["more"].pc # "no" => runs # << >> /\ asked["more"].offset = Len(runs)
        /\ asked["more"].pc = "answered" =>
              LET found == asked["more"].page
              IN  /\ found # << >> => runs[1] <= found[1] + Len(runs)
                  /\ found = << >> => runs[1] <= Len(runs)
                  /\ ~asked["more"].more => ToTheEnd(found)

HistoryInv == HistoryTypeOK /\ AnswersListable /\ ShownListable

\* What list_runs answers after the n newest runs: a part of the archive.
LEMMA PageListable ==
    ASSUME archive \in Nat, NEW n \in Nat
    PROVE  /\ Page(n) \in Seq(Nat) /\ HasMore(n) \in BOOLEAN
           /\ Listable(Page(n), archive)
           /\ Page(n) # << >> => archive = Page(n)[1] + n
           /\ Page(n) = << >> => archive <= n
           /\ ~HasMore(n) => ToTheEnd(Page(n))
<1> DEFINE l == Least(PageSize, Found(n))
<1>1. /\ l \in Nat /\ HasMore(n) \in BOOLEAN
      /\ archive <= n => l = 0
      /\ archive > n => l >= 1 /\ l <= archive - n
      /\ ~HasMore(n) /\ archive > n => l = archive - n
  BY HistoryAssumption DEF Least, Found, Fetched, HasMore
<1>2. Page(n) = [i \in 1..l |-> archive - n - i + 1]
  BY DEF Page
<1> HIDE DEF l
<1>3. \A i \in 1..l : archive - n - i + 1 \in Nat
  BY <1>1
<1>4. Page(n) \in Seq(Nat) /\ Len(Page(n)) = l
  BY <1>1, <1>2, <1>3
<1>5. l # 0 => Page(n)[1] = archive - n /\ archive > n
  BY <1>1, <1>2
<1>6. Page(n) = << >> <=> l = 0
  BY <1>4
<1>7. \A i \in 1..l : Page(n)[i] + i = Page(n)[1] + 1
  BY <1>1, <1>2, <1>5
<1>8. l # 0 => Page(n)[1] <= archive /\ l <= Page(n)[1]
  BY <1>1, <1>5
<1>9. ~HasMore(n) /\ l # 0 => Page(n)[1] = l
  BY <1>1, <1>5
<1> QED
  BY <1>1, <1>4, <1>5, <1>6, <1>7, <1>8, <1>9 DEF Listable, Consecutive, ToTheEnd

\* Of a page whose first n runs are listed the others are what is new.
LEMMA FreshIs ==
    ASSUME NEW found \in Seq(Nat), NEW n \in 0..Len(found),
           \A i \in 1..Len(found) : Listed(found[i]) <=> i <= n
    PROVE  /\ Fresh(found) \in Seq(Nat) /\ Len(Fresh(found)) = Len(found) - n
           /\ \A k \in 1..(Len(found) - n) : Fresh(found)[k] = found[n + k]
<1> DEFINE l == Len(found)
           new == {i \in DOMAIN found : ~Listed(found[i])}
           upTo(i) == {j \in new : j <= i}
<1>1. l \in Nat /\ n \in Nat /\ n <= l
  OBVIOUS
<1>2. new = (n + 1)..l
  OBVIOUS
<1>3. Fresh(found) = [k \in 1..Cardinality(new) |->
                        found[CHOOSE i \in new : Cardinality(upTo(i)) = k]]
  BY DEF Fresh
<1>4. \A i \in new : upTo(i) = (n + 1)..i
  BY <1>1, <1>2
<1> HIDE DEF new, l, upTo
<1>5. Cardinality(new) = l - n
  <2>1. Cardinality((n + 1)..l) = IF n + 1 > l THEN 0 ELSE l - (n + 1) + 1
    BY <1>1, FS_Interval
  <2> QED
    BY <1>1, <1>2, <2>1
<1>6. \A i \in new : Cardinality(upTo(i)) = i - n
  <2> TAKE i \in new
  <2>1. i \in Nat /\ n + 1 <= i
    BY <1>1, <1>2
  <2>2. Cardinality((n + 1)..i) = IF n + 1 > i THEN 0 ELSE i - (n + 1) + 1
    BY <1>1, <2>1, FS_Interval
  <2>3. (IF n + 1 > i THEN 0 ELSE i - (n + 1) + 1) = i - n
    BY <1>1, <2>1
  <2> QED
    BY <1>4, <2>2, <2>3
<1>7. ASSUME NEW k \in 1..(l - n)
      PROVE  (CHOOSE i \in new : Cardinality(upTo(i)) = k) = n + k
  <2>1. n + k \in new /\ (n + k) - n = k
    BY <1>1, <1>2
  <2>2. \A i \in new : i - n = k => i = n + k
    BY <1>1, <1>2
  <2>3. Cardinality(upTo(n + k)) = k
    BY <1>6, <2>1
  <2>4. \A i \in new : Cardinality(upTo(i)) = k => i = n + k
    BY <1>6, <2>2
  <2> QED
    BY <2>1, <2>3, <2>4
<1>8. \A k \in 1..(l - n) : Fresh(found)[k] = found[n + k]
  BY <1>3, <1>5, <1>7
<1>9. \A k \in 1..(l - n) : found[n + k] \in Nat
  BY <1>1 DEF l
<1>10. Fresh(found) = [k \in 1..(l - n) |-> Fresh(found)[k]]
  BY <1>3, <1>5
<1>11. Fresh(found) \in Seq(Nat) /\ Len(Fresh(found)) = l - n
  <2> DEFINE w == l - n
  <2>1. w \in Nat
    BY <1>1
  <2>2. Fresh(found) \in [1..w -> Nat]
    BY <1>8, <1>9, <1>10
  <2> HIDE DEF w
  <2>3. Fresh(found) \in Seq(Nat) /\ Len(Fresh(found)) = w
    BY <2>1, <2>2
  <2> QED
    BY <2>3 DEF w
<1> QED
  BY <1>8, <1>11 DEF l

\* Runs stay listable when more are started.
LEMMA ListableStays ==
    ASSUME NEW n \in Nat, NEW m \in Nat, n <= m, NEW q \in Seq(Nat), Listable(q, n)
    PROVE  Listable(q, m)
<1>1. q # << >> => q[1] \in Nat
  OBVIOUS
<1> QED
  BY <1>1 DEF Listable

\* A step that answers and shows nothing.
LEMMA NothingShown ==
    ASSUME HistoryInv, archive' \in Nat, archive' >= archive, UNCHANGED <<runs, hasMore, crossed>>,
           asked' \in [Asks -> [pc : {"no", "sent", "answered"}, offset : Nat, page : Seq(Nat),
                                more : BOOLEAN]],
           \A q \in Asks : \/ asked'[q] = asked[q]
                           \/ asked'[q].pc = "no" /\ asked'[q].offset = 0
                           \/ asked'[q].pc = "sent" /\ asked'[q].offset = 0 /\ q # "more"
                           \/ /\ asked'[q].pc = "sent" /\ q = "more" /\ runs # << >>
                              /\ asked'[q].offset = Len(runs)
    PROVE  HistoryInv'
<1> USE DEF HistoryInv, HistoryTypeOK
<1>1. HistoryTypeOK'
  OBVIOUS
<1>2. AnswersListable'
  <2>1. ASSUME NEW q \in Asks, asked'[q].pc = "answered"
        PROVE  /\ Listable(asked'[q].page, archive')
               /\ ~asked'[q].more => ToTheEnd(asked'[q].page) \/ q = "more"
    <3>1. asked'[q] = asked[q]
      BY <2>1
    <3>2. asked[q].page \in Seq(Nat) /\ Listable(asked[q].page, archive)
      BY <2>1, <3>1 DEF AnswersListable
    <3> QED
      BY <2>1, <3>1, <3>2, ListableStays DEF AnswersListable, ToTheEnd
  <2>2. \A q \in Asks \ {"more"} : asked'[q].offset = 0
    BY DEF AnswersListable
  <2> QED
    BY <2>1, <2>2 DEF AnswersListable, ToTheEnd
<1>3. ShownListable'
  <2> SUFFICES ASSUME ~crossed PROVE ShownListable'
    BY DEF ShownListable
  <2>1. Listable(runs, archive)'
    BY ListableStays DEF ShownListable
  <2>2. ~hasMore' => ToTheEnd(runs)'
    BY DEF ShownListable, ToTheEnd
  <2>3. "more" \in Asks
    BY DEF Asks
  <2>4. CASE asked'["more"] = asked["more"]
    BY <2>1, <2>2, <2>4 DEF ShownListable, ToTheEnd
  <2>5. CASE asked'["more"] # asked["more"]
    <3>1. /\ asked'["more"].pc # "answered"
          /\ asked'["more"].pc # "no" => runs # << >> /\ asked'["more"].offset = Len(runs)
      BY <2>3, <2>5
    <3> QED
      BY <2>1, <2>2, <3>1 DEF ShownListable
  <2> QED
    BY <2>4, <2>5
<1> QED
  BY <1>1, <1>2, <1>3

\* The answer to a request is a part of the archive, which has all that is
\* listed.
LEMMA ListsStep ==
    ASSUME HistoryInv, NEW q \in Asks, Lists(q)
    PROVE  HistoryInv'
<1> USE DEF HistoryInv, HistoryTypeOK
<1> DEFINE n == asked[q].offset
<1>1. /\ asked[q].pc = "sent" /\ n \in Nat
      /\ asked' = [asked EXCEPT ![q].pc = "answered", ![q].page = Page(n), ![q].more = HasMore(n)]
      /\ UNCHANGED <<archive, runs, hasMore, crossed>>
  BY DEF Lists
<1>2. /\ Page(n) \in Seq(Nat) /\ HasMore(n) \in BOOLEAN
      /\ Listable(Page(n), archive)
      /\ Page(n) # << >> => archive = Page(n)[1] + n
      /\ Page(n) = << >> => archive <= n
      /\ ~HasMore(n) => ToTheEnd(Page(n))
  BY <1>1, PageListable
<1>3. /\ asked'[q].pc = "answered" /\ asked'[q].page = Page(n) /\ asked'[q].more = HasMore(n)
      /\ asked'[q].offset = n
      /\ \A r \in Asks : r # q => asked'[r] = asked[r]
  BY <1>1
<1>4. HistoryTypeOK'
  BY <1>1, <1>2
<1>5. AnswersListable'
  BY <1>1, <1>2, <1>3 DEF AnswersListable, Listable, Consecutive, ToTheEnd
<1>6. ShownListable'
  <2> SUFFICES ASSUME ~crossed PROVE ShownListable'
    BY <1>1 DEF ShownListable
  <2>1. "more" \in Asks
    BY DEF Asks
  <2>2. Listable(runs, archive)' /\ (~hasMore' => ToTheEnd(runs)')
    BY <1>1 DEF ShownListable, Listable, Consecutive, ToTheEnd
  <2>3. CASE q # "more"
    BY <1>1, <1>3, <2>1, <2>2, <2>3 DEF ShownListable, ToTheEnd
  <2>4. CASE q = "more"
    <3>1. runs # << >> /\ n = Len(runs) /\ runs[1] <= archive
      BY <1>1, <2>4 DEF ShownListable, Listable
    <3>2. Page(n) # << >> => runs[1] <= Page(n)[1] + Len(runs)
      BY <1>2, <3>1
    <3>3. runs[1] \in Nat /\ Len(runs) \in Nat
      BY <3>1
    <3>4. Page(n) = << >> => runs[1] <= Len(runs)
      BY <1>2, <3>1, <3>3
    <3> HIDE DEF n
    <3> QED
      BY <1>1, <1>2, <1>3, <2>2, <2>4, <3>1, <3>2, <3>4 DEF ShownListable, ToTheEnd
  <2> QED
    BY <2>3, <2>4
<1> QED
  BY <1>4, <1>5, <1>6

\* Where the runs of two joined lists are.
LEMMA Joined ==
    ASSUME NEW q \in Seq(Nat), NEW r \in Seq(Nat)
    PROVE  /\ q \o r \in Seq(Nat) /\ Len(q \o r) = Len(q) + Len(r)
           /\ \A i \in 1..Len(q) : (q \o r)[i] = q[i]
           /\ \A i \in 1..Len(r) : (q \o r)[Len(q) + i] = r[i]
  OBVIOUS

\* What is new on the page goes on where the list ends, if the page is not of
\* newer runs than are listed.
LEMMA FreshGoesOn ==
    ASSUME NEW n \in Nat, Listable(runs, n), runs \in Seq(Nat), runs # << >>,
           NEW found \in Seq(Nat), Listable(found, n), found # << >>,
           found[1] <= runs[1], runs[1] <= found[1] + Len(runs)
    PROVE  LET q == runs \o Fresh(found)
           IN  /\ q \in Seq(Nat) /\ Listable(q, n) /\ q # << >>
               /\ ToTheEnd(found) => ToTheEnd(q)
<1> DEFINE l == Len(runs)
           m == Len(found)
           t == runs[1]
           a == found[1]
           k0 == (l + a) - t
           k == IF k0 <= m THEN k0 ELSE m
           q == runs \o Fresh(found)
<1>1. /\ l \in Nat /\ m \in Nat /\ l >= 1 /\ m >= 1 /\ t \in Nat /\ a \in Nat
      /\ a <= t /\ t <= a + l /\ t <= n /\ l <= t /\ m <= a
  BY DEF Listable
<1>2. /\ \A j \in 1..l : runs[j] \in Nat /\ runs[j] + j = t + 1
      /\ \A i \in 1..m : found[i] \in Nat /\ found[i] + i = a + 1
  <2>1. \A j \in 1..l : runs[j] \in Nat
    OBVIOUS
  <2>2. \A i \in 1..m : found[i] \in Nat
    OBVIOUS
  <2>3. Consecutive(runs) /\ Consecutive(found)
    BY DEF Listable
  <2> QED
    BY <2>1, <2>2, <2>3, Zenon DEF Consecutive
<1>3. \A i \in 1..m : Listed(found[i]) <=> \E j \in 1..l : runs[j] = found[i]
  <2>1. DOMAIN runs = 1..l
    OBVIOUS
  <2> QED
    BY <2>1 DEF Listed
<1>4. m = Len(found) /\ l = Len(runs) /\ t = runs[1] /\ a = found[1]
  OBVIOUS
<1> HIDE DEF l, m, t, a
<1>5. k0 \in Nat /\ k \in 0..m /\ (k = k0 \/ (k = m /\ m < k0))
  BY <1>1
<1>6. ASSUME NEW i \in 1..m
      PROVE  Listed(found[i]) <=> i <= k
  <2>1. ASSUME NEW j \in 1..l, runs[j] = found[i]
        PROVE  i <= k
    <3>1. runs[j] \in Nat /\ runs[j] + j = t + 1 /\ runs[j] + i = a + 1
      BY <1>2, <2>1
    <3>2. i <= k0 /\ i <= m
      BY <1>1, <3>1
    <3> QED
      BY <3>2
  <2>2. ASSUME i <= k
        PROVE  \E j \in 1..l : runs[j] = found[i]
    <3> DEFINE j == (t - a) + i
    <3>1. j \in 1..l
      BY <1>1, <1>5, <2>2
    <3>2. runs[j] \in Nat /\ runs[j] + j = t + 1 /\ found[i] \in Nat /\ found[i] + i = a + 1
      BY <1>2, <3>1
    <3>3. j = (t - a) + i
      OBVIOUS
    <3> HIDE DEF j
    <3> DEFINE x == runs[j]
               y == found[i]
    <3>4. x \in Nat /\ x + j = t + 1 /\ y \in Nat /\ y + i = a + 1 /\ j \in Nat
      BY <1>1, <3>1, <3>2
    <3> HIDE DEF x, y
    <3>5. x = y
      BY <1>1, <3>3, <3>4
    <3>6. runs[j] = found[i]
      BY <3>5 DEF x, y
    <3> QED
      BY <3>1, <3>6
  <2> QED
    BY <1>3, <2>1, <2>2
<1>7. /\ Fresh(found) \in Seq(Nat) /\ Len(Fresh(found)) = m - k
      /\ \A i \in 1..(m - k) : Fresh(found)[i] = found[k + i]
  BY <1>4, <1>5, <1>6, FreshIs DEF m
<1> HIDE DEF k, k0
<1>8. q \in Seq(Nat) /\ Len(q) = l + (m - k)
  BY <1>4, <1>7, Joined
<1>9. \A j \in 1..l : q[j] = runs[j]
  BY <1>4, <1>7, Joined
<1>10. ASSUME NEW i \in 1..(m - k)
       PROVE  q[l + i] = found[k + i]
  BY <1>4, <1>7, Joined
<1>11. /\ l + (m - k) \in Nat /\ l + (m - k) >= 1 /\ l + (m - k) <= t
       /\ m = a => l + (m - k) = t
  BY <1>1, <1>5 DEF k0
<1> HIDE DEF q
<1>12. q # << >> /\ q[1] = t
  BY <1>1, <1>4, <1>8, <1>9, <1>11
<1>13. ASSUME NEW i \in 1..Len(q)
       PROVE  q[i] + i = q[1] + 1
  <2>1. CASE i <= l
    BY <1>2, <1>9, <1>12, <2>1
  <2>2. CASE ~(i <= l)
    <3> DEFINE j == i - l
    <3>1. j \in 1..(m - k) /\ i = l + j /\ k = k0 /\ k + j \in 1..m
      BY <1>1, <1>5, <1>8, <2>2
    <3>2. q[i] = found[k + j] /\ found[k + j] \in Nat /\ found[k + j] + (k + j) = a + 1
      BY <1>2, <1>10, <3>1
    <3>3. k = (l + a) - t
      BY <3>1 DEF k0
    <3> DEFINE x == q[i]
    <3>4. x \in Nat /\ x + (k + j) = a + 1 /\ i = l + j /\ k \in Nat /\ j \in Nat
      BY <1>5, <3>1, <3>2
    <3> HIDE DEF x, j
    <3>5. x + i = t + 1
      BY <1>1, <3>3, <3>4
    <3>6. q[i] + i = t + 1
      BY <3>5 DEF x
    <3> QED
      BY <3>6, <1>12
  <2> QED
    BY <2>1, <2>2
<1>14. Listable(q, n)
  BY <1>1, <1>8, <1>11, <1>12, <1>13 DEF Listable, Consecutive
<1>15. ToTheEnd(found) => ToTheEnd(q)
  BY <1>1, <1>4, <1>8, <1>11, <1>12 DEF ToTheEnd
<1> QED
  BY <1>8, <1>12, <1>14, <1>15 DEF q

\* A page of runs that are listed already adds none.
LEMMA NothingFresh ==
    ASSUME runs \in Seq(Nat)
    PROVE  runs \o Fresh(<< >>) = runs
<1>1. Fresh(<< >>) \in Seq(Nat) /\ Len(Fresh(<< >>)) = 0
  <2> DEFINE none == << >>
  <2>1. none \in Seq(Nat) /\ 0 \in 0..Len(none) /\ Len(none) - 0 = 0
    OBVIOUS
  <2>2. \A i \in 1..Len(none) : Listed(none[i]) <=> i <= 0
    OBVIOUS
  <2> HIDE DEF none
  <2>3. Fresh(none) \in Seq(Nat) /\ Len(Fresh(none)) = 0
    BY <2>1, <2>2, FreshIs
  <2> QED
    BY <2>3 DEF none
<1>2. Fresh(<< >>) = << >>
  BY <1>1
<1> QED
  BY <1>2

\* In a finite set of numbers there is a first, a second, and so on.
LEMMA Enumerated ==
    ASSUME NEW S \in SUBSET Nat, IsFiniteSet(S)
    PROVE  /\ Cardinality(S) \in Nat
           /\ \A k \in 1..Cardinality(S) : \E i \in S : Cardinality({j \in S : j <= i}) = k
<1> DEFINE w == Cardinality(S)
           upTo(i) == {j \in S : j <= i}
           f == [i \in S |-> Cardinality(upTo(i))]
<1>1. w \in Nat
  BY FS_CardinalityType
<1>2. IsFiniteSet(1..w) /\ Cardinality(1..w) = w
  <2>1. IsFiniteSet(1..w) /\ Cardinality(1..w) = IF 1 > w THEN 0 ELSE w - 1 + 1
    BY <1>1, FS_Interval
  <2>2. (IF 1 > w THEN 0 ELSE w - 1 + 1) = w
    BY <1>1
  <2> QED
    BY <2>1, <2>2
<1>3. ASSUME NEW i \in S
      PROVE  /\ IsFiniteSet(upTo(i)) /\ i \in upTo(i)
             /\ Cardinality(upTo(i)) \in 1..w
  <2>1. upTo(i) \in SUBSET S /\ i \in upTo(i)
    OBVIOUS
  <2>2. IsFiniteSet(upTo(i)) /\ Cardinality(upTo(i)) <= w
    BY <2>1, FS_Subset
  <2>3. Cardinality(upTo(i)) \in Nat
    BY <2>2, FS_CardinalityType
  <2>4. Cardinality(upTo(i)) # 0
    BY <2>1, <2>2, FS_EmptySet
  <2> HIDE DEF w, upTo
  <2>5. Cardinality(upTo(i)) \in 1..w
    BY <1>1, <2>2, <2>3, <2>4
  <2> QED
    BY <2>1, <2>2, <2>5
<1>4. ASSUME NEW i \in S, NEW j \in S, i < j
      PROVE  Cardinality(upTo(i)) # Cardinality(upTo(j))
  <2>1. \A x \in S : x <= i => x <= j
    BY <1>4
  <2>2. ~(j <= i)
    BY <1>4
  <2>3. j \in upTo(j) /\ j \notin upTo(i)
    BY <1>3, <2>2
  <2>4. upTo(i) \in SUBSET upTo(j) /\ upTo(i) # upTo(j)
    BY <2>1, <2>3
  <2> QED
    BY <1>3, <2>4, FS_Subset
<1>5. f \in Injection(S, 1..w)
  <2>1. f \in [S -> 1..w]
    BY <1>3
  <2>2. \A i, j \in S : f[i] = f[j] => i = j
    <3>1. \A i, j \in S : i = j \/ i < j \/ j < i
      OBVIOUS
    <3> HIDE DEF upTo
    <3> QED
      BY <1>4, <3>1
  <2>3. DOMAIN f = S
    OBVIOUS
  <2> HIDE DEF f
  <2> QED
    BY <2>1, <2>2, <2>3 DEF Injection, IsInjective
<1>6. f \in Surjection(S, 1..w)
  <2> HIDE DEF f
  <2> QED
    BY <1>2, <1>5, FS_Injection
<1>7. \A k \in 1..w : \E i \in S : f[i] = k
  BY <1>6 DEF Surjection
<1> QED
  BY <1>1, <1>7

\* More that is loaded goes on where the list ends.
LEMMA MoreLoadsStep ==
    ASSUME HistoryInv, MoreLoads
    PROVE  HistoryInv'
<1> DEFINE found == asked["more"].page
<1>1. /\ asked["more"].pc = "answered" /\ runs' = runs \o Fresh(found) /\ hasMore' = asked["more"].more
      /\ asked' = [asked EXCEPT !["more"] = NotAsked]
      /\ crossed' = (crossed \/ Overtaken(found)) /\ archive' = archive
  BY DEF MoreLoads
<1>2. "more" \in Asks
  BY DEF Asks
<1>3. /\ archive \in Nat /\ runs \in Seq(Nat) /\ found \in Seq(Nat) /\ asked["more"].more \in BOOLEAN
      /\ crossed \in BOOLEAN /\ AnswersListable /\ ShownListable
      /\ Listable(found, archive)
  BY <1>1, <1>2 DEF HistoryInv, HistoryTypeOK, AnswersListable
<1>4. /\ asked'["more"].pc = "no" /\ asked'["more"].offset = 0
      /\ \A q \in Asks : q # "more" => asked'[q] = asked[q]
      /\ asked' \in [Asks -> [pc : {"no", "sent", "answered"}, offset : Nat, page : Seq(Nat),
                              more : BOOLEAN]]
  BY <1>1, <1>2 DEF HistoryInv, HistoryTypeOK, NotAsked
<1>5. AnswersListable'
  BY <1>1, <1>3, <1>4 DEF AnswersListable, Listable, Consecutive, ToTheEnd
<1>6. Overtaken(found) \in BOOLEAN
  BY DEF Overtaken
<1>7. Fresh(found) \in Seq(Nat)
  <2> DEFINE new == {i \in DOMAIN found : ~Listed(found[i])}
             upTo(i) == {j \in new : j <= i}
             w == Cardinality(new)
  <2>1. Fresh(found) = [k \in 1..w |-> found[CHOOSE i \in new : Cardinality(upTo(i)) = k]]
    BY DEF Fresh
  <2>2. w \in Nat /\ \A k \in 1..w : \E i \in new : Cardinality(upTo(i)) = k
    <3>1. DOMAIN found = 1..Len(found) /\ Len(found) \in Nat
      BY <1>3
    <3>2. IsFiniteSet(1..Len(found))
      BY <3>1, FS_Interval
    <3>3. new \in SUBSET Nat /\ new \in SUBSET (1..Len(found))
      BY <3>1
    <3>4. IsFiniteSet(new)
      BY <3>2, <3>3, FS_Subset
    <3> HIDE DEF new
    <3> QED
      BY <3>3, <3>4, Enumerated
  <2>3. \A i \in new : found[i] \in Nat
    BY <1>3
  <2> HIDE DEF new, upTo, w
  <2>4. \A k \in 1..w : found[CHOOSE i \in new : Cardinality(upTo(i)) = k] \in Nat
    BY <2>2, <2>3
  <2> QED
    BY <2>1, <2>2, <2>4
<1>8. HistoryTypeOK'
  <2>1. runs' \in Seq(Nat)
    BY <1>1, <1>3, <1>7
  <2> QED
    BY <1>1, <1>3, <1>4, <1>6, <2>1 DEF HistoryTypeOK
<1>9. ShownListable'
  <2> SUFFICES ASSUME ~crossed' PROVE ShownListable'
    BY DEF ShownListable
  <2>1. /\ Listable(runs, archive) /\ runs # << >>
        /\ found # << >> => runs[1] <= found[1] + Len(runs)
        /\ found = << >> => runs[1] <= Len(runs)
        /\ ~asked["more"].more => ToTheEnd(found)
    BY <1>1, <1>3 DEF ShownListable
  <2>2. CASE found = << >>
    <3>1. runs' = runs
      BY <1>1, <1>3, <2>2, NothingFresh
    <3>2. runs[1] = Len(runs)
      BY <1>3, <2>1, <2>2 DEF Listable
    <3> QED
      BY <1>1, <1>4, <2>1, <3>1, <3>2 DEF ShownListable, ToTheEnd, Listable, Consecutive
  <2>3. CASE found # << >>
    <3>1. 1 \in DOMAIN found /\ found[1] \in Nat /\ runs[1] \in Nat
      BY <1>3, <2>1, <2>3
    <3>2. ~(found[1] > runs[1])
      BY <1>1, <2>1, <3>1 DEF Overtaken
    <3>3. found[1] <= runs[1]
      BY <3>1, <3>2
    <3>4. Listable(runs', archive) /\ (ToTheEnd(found) => ToTheEnd(runs'))
      BY <1>1, <1>3, <2>1, <2>3, <3>3, FreshGoesOn
    <3> QED
      BY <1>1, <1>4, <2>1, <3>4 DEF ShownListable, ToTheEnd, Listable, Consecutive
  <2> QED
    BY <2>2, <2>3
<1> QED
  BY <1>5, <1>8, <1>9 DEF HistoryInv

\* A request holds no page yet.
LEMMA RequestType ==
    ASSUME NEW n \in Nat
    PROVE  {NotAsked, Asked(n)} \subseteq [pc : {"no", "sent", "answered"}, offset : Nat,
                                           page : Seq(Nat), more : BOOLEAN]
<1> DEFINE T == [pc : {"no", "sent", "answered"}, offset : Nat, page : Seq(Nat), more : BOOLEAN]
<1>1. << >> \in Seq(Nat)
  OBVIOUS
<1>2. NotAsked \in T
  BY <1>1 DEF NotAsked
<1>3. Asked(n) \in T
  BY <1>2 DEF Asked
<1> QED
  BY <1>2, <1>3

\* A first page takes the list's place.
LEMMA FirstPageLoadsStep ==
    ASSUME HistoryInv, NEW q \in Asks, FirstPageLoads(q)
    PROVE  HistoryInv'
<1> DEFINE found == asked[q].page
<1>1. /\ q # "more" /\ asked[q].pc = "answered"
      /\ runs' = found /\ hasMore' = asked[q].more
      /\ asked' = [asked EXCEPT ![q] = NotAsked]
      /\ crossed' = (crossed \/ asked["more"].pc # "no") /\ archive' = archive
  BY DEF FirstPageLoads
<1>2. "more" \in Asks
  BY DEF Asks
<1>3. /\ archive \in Nat /\ found \in Seq(Nat) /\ asked[q].more \in BOOLEAN
      /\ crossed \in BOOLEAN /\ Listable(found, archive)
      /\ ~asked[q].more => ToTheEnd(found)
  BY <1>1 DEF HistoryInv, HistoryTypeOK, AnswersListable
<1>4. /\ asked'[q].pc = "no" /\ asked'[q].offset = 0
      /\ \A r \in Asks : r # q => asked'[r] = asked[r]
      /\ asked' \in [Asks -> [pc : {"no", "sent", "answered"}, offset : Nat, page : Seq(Nat),
                              more : BOOLEAN]]
  BY <1>1 DEF HistoryInv, HistoryTypeOK, NotAsked
<1>5. HistoryTypeOK'
  BY <1>1, <1>3, <1>4 DEF HistoryTypeOK
<1>6. AnswersListable'
  <2>1. AnswersListable
    BY DEF HistoryInv
  <2> QED
    BY <1>1, <1>4, <2>1 DEF AnswersListable, Listable, Consecutive, ToTheEnd
<1>7. ShownListable'
  <2> SUFFICES ASSUME ~crossed' PROVE ShownListable'
    BY DEF ShownListable
  <2>1. asked'["more"].pc = "no"
    BY <1>1, <1>2, <1>4
  <2>2. Listable(runs, archive)' /\ (~hasMore' => ToTheEnd(runs)')
    BY <1>1, <1>3 DEF Listable, Consecutive, ToTheEnd
  <2> QED
    BY <2>1, <2>2 DEF ShownListable
<1> QED
  BY <1>5, <1>6, <1>7 DEF HistoryInv

\* The page opens with an empty list, which it asks for.
LEMMA HistoryInitInv ==
    ASSUME HistoryInit
    PROVE  HistoryInv
<1>1. HistoryTypeOK
  <2>1. 0 \in Nat /\ << >> \in Seq(Nat)
    OBVIOUS
  <2> QED
    BY <2>1, RequestType DEF HistoryInit, HistoryTypeOK
<1>2. \A q \in Asks : asked[q].offset = 0 /\ asked[q].pc # "answered"
  BY DEF HistoryInit, NotAsked, Asked
<1>3. AnswersListable
  BY <1>2 DEF AnswersListable
<1>4. "more" \in Asks /\ asked["more"].pc = "no"
  BY DEF HistoryInit, NotAsked, Asked, Asks
<1>5. Listable(runs, archive) /\ ToTheEnd(runs)
  BY DEF HistoryInit, Listable, Consecutive, ToTheEnd
<1>6. ShownListable
  BY <1>4, <1>5 DEF ShownListable
<1> QED
  BY <1>1, <1>3, <1>6 DEF HistoryInv

\* Every step of the page and of the composer keeps the invariant.
LEMMA HistoryStep ==
    ASSUME HistoryInv, [HistoryNext]_historyVars
    PROVE  HistoryInv'
<1>1. CASE SubmitsQuery \/ CreatesRun \/ CreateFails \/ UNCHANGED historyVars
  <2>1. archive' \in Nat /\ archive' >= archive /\ UNCHANGED <<runs, hasMore, crossed, asked>>
    BY <1>1 DEF SubmitsQuery, CreatesRun, CreateFails, historyVars, HistoryInv, HistoryTypeOK
  <2> QED
    BY <2>1, NothingShown DEF HistoryInv, HistoryTypeOK
<1>2. ASSUME NEW q \in Asks, NEW n \in Nat, UNCHANGED <<archive, runs, hasMore, crossed>>,
             asked' = [asked EXCEPT ![q] = Asked(n)],
             \/ n = 0 /\ q # "more"
             \/ q = "more" /\ runs # << >> /\ n = Len(runs)
      PROVE  HistoryInv'
  <2>1. archive \in Nat
    BY DEF HistoryInv, HistoryTypeOK
  <2>2. asked'[q].pc = "sent" /\ asked'[q].offset = n /\ \A r \in Asks : r # q => asked'[r] = asked[r]
    BY <1>2 DEF HistoryInv, HistoryTypeOK, Asked, NotAsked
  <2>3. asked' \in [Asks -> [pc : {"no", "sent", "answered"}, offset : Nat, page : Seq(Nat),
                             more : BOOLEAN]]
    BY <1>2, RequestType DEF HistoryInv, HistoryTypeOK
  <2> QED
    BY <1>2, <2>1, <2>2, <2>3, NothingShown
<1>3. CASE Refreshes
  <2>1. /\ "refresh" \in Asks /\ UNCHANGED <<archive, runs, hasMore, crossed>>
        /\ asked' = [asked EXCEPT !["refresh"] = Asked(0)]
    BY <1>3 DEF Refreshes, Asks
  <2> QED
    BY <2>1, <1>2
<1>4. CASE TriesAgain
  <2>1. /\ "load" \in Asks /\ UNCHANGED <<archive, runs, hasMore, crossed>>
        /\ asked' = [asked EXCEPT !["load"] = Asked(0)]
    BY <1>4 DEF TriesAgain, Asks
  <2> QED
    BY <2>1, <1>2
<1>5. CASE LoadsMore
  <2>1. /\ "more" \in Asks /\ UNCHANGED <<archive, runs, hasMore, crossed>> /\ runs # << >>
        /\ asked' = [asked EXCEPT !["more"] = Asked(Len(runs))]
    BY <1>5 DEF LoadsMore, Asks
  <2>2. Len(runs) \in Nat
    BY DEF HistoryInv, HistoryTypeOK
  <2> QED
    BY <2>1, <2>2, <1>2
<1>6. CASE MoreLoads
  BY <1>6, MoreLoadsStep
<1>7. ASSUME NEW q \in Asks, Lists(q)
      PROVE  HistoryInv'
  BY <1>7, ListsStep
<1>8. ASSUME NEW q \in Asks, FirstPageLoads(q)
      PROVE  HistoryInv'
  BY <1>8, FirstPageLoadsStep
<1>9. ASSUME NEW q \in Asks, FailsToLoad(q)
      PROVE  HistoryInv'
  <2>1. /\ UNCHANGED <<archive, runs, hasMore, crossed>>
        /\ asked' = [asked EXCEPT ![q] = NotAsked]
    BY <1>9 DEF FailsToLoad
  <2>2. archive \in Nat
    BY DEF HistoryInv, HistoryTypeOK
  <2>3. asked'[q].pc = "no" /\ asked'[q].offset = 0 /\ \A r \in Asks : r # q => asked'[r] = asked[r]
    BY <2>1 DEF HistoryInv, HistoryTypeOK, NotAsked
  <2>4. asked' \in [Asks -> [pc : {"no", "sent", "answered"}, offset : Nat, page : Seq(Nat),
                             more : BOOLEAN]]
    BY <2>1 DEF HistoryInv, HistoryTypeOK, NotAsked
  <2> QED
    BY <2>1, <2>2, <2>3, <2>4, NothingShown
<1> QED
  BY <1>1, <1>3, <1>4, <1>5, <1>6, <1>7, <1>8, <1>9 DEF HistoryNext

\* What the history page holds and what it is told are parts of the archive.
THEOREM HistoryInvariance == HistorySpec => []HistoryInv
<1>1. HistoryInit => HistoryInv
  BY HistoryInitInv
<1>2. HistoryInv /\ [HistoryNext]_historyVars => HistoryInv'
  BY HistoryStep
<1> QED
  BY <1>1, <1>2, PTL DEF HistorySpec

\* The list of runs has no gap and shows none twice, whatever runs are started
\* while it is loaded page by page (loadMore of the history page), for pages of
\* any size.
THEOREM ListHasNoGap == HistorySpec => []NoGap
<1>1. HistoryInv => NoGap
  <2> SUFFICES ASSUME HistoryInv, ~crossed, NEW i \in 1..(Len(runs) - 1)
               PROVE  runs[i + 1] = runs[i] - 1
    BY DEF NoGap
  <2>1. runs \in Seq(Nat) /\ Len(runs) \in Nat /\ Consecutive(runs)
    BY DEF HistoryInv, HistoryTypeOK, ShownListable, Listable
  <2>2. i \in 1..Len(runs) /\ i + 1 \in 1..Len(runs) /\ 1 \in 1..Len(runs)
    BY <2>1
  <2> DEFINE x == runs[i]
             y == runs[i + 1]
             t == runs[1]
  <2>3. x \in Nat /\ y \in Nat /\ t \in Nat /\ x + i = t + 1 /\ y + (i + 1) = t + 1
    BY <2>1, <2>2 DEF Consecutive
  <2> HIDE DEF x, y, t
  <2>4. y = x - 1
    BY <2>3
  <2> QED
    BY <2>4 DEF x, y
<1> QED
  BY <1>1, HistoryInvariance, PTL

\* A list that offers no more runs (has_more of list_runs) ends with the oldest.
THEOREM ListEndsWithOldest == HistorySpec => []EndIsOldest
<1>1. HistoryInv => EndIsOldest
  <2> SUFFICES ASSUME HistoryInv, ~crossed, ~hasMore, runs # << >>
               PROVE  runs[Len(runs)] = 1
    BY DEF EndIsOldest
  <2>1. runs \in Seq(Nat) /\ Len(runs) \in Nat /\ Consecutive(runs) /\ runs[1] = Len(runs)
    BY DEF HistoryInv, HistoryTypeOK, ShownListable, Listable, ToTheEnd
  <2> DEFINE l == Len(runs)
             x == runs[l]
  <2>2. l \in 1..l /\ x \in Nat /\ l \in Nat
    BY <2>1
  <2>3. x + l = l + 1
    BY <2>1, <2>2 DEF Consecutive
  <2> HIDE DEF x, l
  <2>4. x = 1
    BY <2>2, <2>3
  <2> QED
    BY <2>4 DEF x, l
<1> QED
  BY <1>1, HistoryInvariance, PTL

-----------------------------------------------------------------------------
(* Settings: the settings form *)

SettingsTypeOK ==
    /\ stored \in Values /\ clashed \in BOOLEAN
    /\ page \in [Editors -> {"loading", "ready", "error"}]
    /\ config \in [Editors -> Values] /\ edited \in [Editors -> Values] /\ sent \in [Editors -> Values]
    /\ told \in [Editors -> SUBSET Values]
    /\ saving \in [Editors -> BOOLEAN] /\ todo \in [Editors -> SUBSET Fields]

\* The page waits for its save, or the server is still writing it.
Busy(e) == saving[e] \/ todo[e] # {}

\* A page saves once it is loaded, and is told the settings when it loads or
\* when its save has been written.
BusyIsReady == \A e \in Editors : Busy(e) => page[e] = "ready"
ToldInTime  == \A e \in Editors :
                  told[e] # {} => page[e] = "loading" \/ (saving[e] /\ todo[e] = {})

\* Edits keep each model with its provider.
FormFits == \A e \in Editors : Fits(config[e]) => Fits(edited[e])

\* The save started from settings that fit and leads to some that do; the keys
\* that are yet to be written are as they were, the others as they were sent.
HalfWritten(e) ==
    /\ Fits(config[e]) /\ Fits(sent[e]) /\ todo[e] \subseteq Payload(config[e], sent[e])
    /\ \A f \in Fields : stored[f] = IF f \in todo[e] THEN config[e][f] ELSE sent[e][f]

\* Saves that have not met: there is one at a time.
OneSave ==
    ~clashed =>
        /\ \A e, o \in Editors : Busy(e) /\ Busy(o) => e = o
        /\ (\A e \in Editors : ~Busy(e)) => Fits(stored)
        /\ \A e \in Editors : Busy(e) => HalfWritten(e)
        /\ \A e \in Editors : saving[e] => told[e] \subseteq {sent[e]}

SettingsInv == SettingsTypeOK /\ BusyIsReady /\ ToldInTime /\ FormFits /\ OneSave

\* Settings that agree on every field are the same.
LEMMA SameSettings ==
    ASSUME NEW v \in Values, NEW w \in Values, \A f \in Fields : v[f] = w[f]
    PROVE  v = w
<1>1. v.provider = w.provider /\ v.model = w.model /\ v.verifier = w.verifier
      /\ v.verifierModel = w.verifierModel
  BY DEF Fields
<1> QED
  BY <1>1 DEF Values

\* Whether settings fit is a matter of their fields.
LEMMA SameFits ==
    ASSUME NEW v, NEW w, \A f \in Fields : v[f] = w[f], Fits(w)
    PROVE  Fits(v)
<1>1. v.provider = w.provider /\ v.model = w.model /\ v.verifier = w.verifier
      /\ v.verifierModel = w.verifierModel
  BY DEF Fields
<1> QED
  BY <1>1 DEF Fits

\* When nothing of it is left to write, a save has stored what was sent.
LEMMA WrittenFits ==
    ASSUME SettingsTypeOK, NEW e \in Editors, HalfWritten(e), todo[e] = {}
    PROVE  stored = sent[e] /\ Fits(stored)
<1>1. \A f \in Fields : stored[f] = sent[e][f]
  BY DEF HalfWritten
<1>2. stored = sent[e]
  BY <1>1, SameSettings DEF SettingsTypeOK
<1> QED
  BY <1>2 DEF HalfWritten

\* The settings table starts with a provider and its model, and no page is busy.
LEMMA SettingsInitInv ==
    ASSUME SettingsInit
    PROVE  SettingsInv
<1>1. PICK p \in Mains : stored = [provider |-> p, model |-> p, verifier |-> Same,
                                   verifierModel |-> Custom]
  BY DEF SettingsInit
<1>2. stored \in Values /\ Fits(stored)
  BY <1>1 DEF Values, Fits
<1>3. SettingsTypeOK
  BY <1>2 DEF SettingsInit, SettingsTypeOK
<1>4. \A e \in Editors : ~saving[e] /\ todo[e] = {} /\ told[e] = {} /\ config[e] = edited[e]
  BY DEF SettingsInit
<1> QED
  BY <1>2, <1>3, <1>4
  DEF SettingsInv, BusyIsReady, ToldInTime, FormFits, OneSave, Busy

\* A page that loads, fails to, or is told: nothing is saved by it.
LEMMA LoadingStep ==
    ASSUME SettingsInv, NEW e \in Editors,
           ServesConfig(e) \/ Loads(e) \/ LoadFails(e) \/ LoadsAgain(e)
    PROVE  SettingsInv'
<1> USE DEF SettingsInv, SettingsTypeOK
<1>1. CASE ServesConfig(e)
  <2>1. /\ page[e] = "loading" \/ (saving[e] /\ todo[e] = {})
        /\ told' = [told EXCEPT ![e] = {stored}]
        /\ UNCHANGED <<stored, page, config, edited, saving, sent, todo, clashed>>
    BY <1>1 DEF ServesConfig
  <2>2. SettingsTypeOK' /\ BusyIsReady' /\ FormFits'
    BY <2>1 DEF BusyIsReady, FormFits, Busy, Fits
  <2>3. ToldInTime'
    BY <2>1 DEF ToldInTime
  <2>4. OneSave'
    <3> SUFFICES ASSUME ~clashed PROVE OneSave'
      BY <2>1 DEF OneSave
    <3>1. \A o \in Editors : Busy(o)' = Busy(o) /\ HalfWritten(o)' = HalfWritten(o)
      BY <2>1 DEF Busy, HalfWritten, Payload, Fits
    <3>2. Fits(stored)' = Fits(stored)
      BY <2>1 DEF Fits
    <3>3. ASSUME saving[e]
          PROVE  told'[e] \subseteq {sent'[e]}
      <4>1. Busy(e) /\ page[e] = "ready"
        BY <3>3 DEF Busy, BusyIsReady
      <4>2. todo[e] = {} /\ HalfWritten(e)
        BY <2>1, <4>1 DEF OneSave
      <4>3. stored = sent[e]
        BY <4>2, WrittenFits
      <4> QED
        BY <2>1, <4>3
    <3>4. \A o \in Editors : saving'[o] => told'[o] \subseteq {sent'[o]}
      BY <2>1, <3>3 DEF OneSave
    <3> QED
      BY <3>1, <3>2, <3>4 DEF OneSave
  <2> QED
    BY <2>2, <2>3, <2>4
<1>2. CASE Loads(e)
  <2>1. PICK v \in told[e] : Takes(e, v)
    BY <1>2 DEF Loads
  <2>2. /\ page[e] = "loading" /\ page' = [page EXCEPT ![e] = "ready"]
        /\ config' = [config EXCEPT ![e] = v] /\ edited' = [edited EXCEPT ![e] = v]
        /\ sent' = [sent EXCEPT ![e] = v] /\ told' = [told EXCEPT ![e] = {}]
        /\ UNCHANGED <<stored, saving, todo, clashed>> /\ v \in Values
    BY <1>2, <2>1 DEF Loads, Takes
  <2>3. ~Busy(e)
    BY <2>2 DEF BusyIsReady
  <2>4. SettingsTypeOK'
    BY <2>2
  <2>5. BusyIsReady' /\ ToldInTime' /\ FormFits'
    BY <2>2 DEF BusyIsReady, ToldInTime, FormFits, Busy, Fits
  <2>6. OneSave'
    <3> SUFFICES ASSUME ~clashed PROVE OneSave'
      BY <2>2 DEF OneSave
    <3>1. \A o \in Editors : Busy(o)' = Busy(o) /\ (o # e => HalfWritten(o)' = HalfWritten(o))
      BY <2>2 DEF Busy, HalfWritten, Payload, Fits
    <3>2. Fits(stored)' = Fits(stored)
      BY <2>2 DEF Fits
    <3>3. \A o \in Editors : saving'[o] => told'[o] \subseteq {sent'[o]}
      BY <2>2 DEF OneSave
    <3> QED
      BY <2>3, <3>1, <3>2, <3>3 DEF OneSave
  <2> QED
    BY <2>4, <2>5, <2>6
<1>3. CASE LoadFails(e) \/ LoadsAgain(e)
  <2>1. /\ page[e] # "ready" /\ page' \in [Editors -> {"loading", "ready", "error"}]
        /\ \A o \in Editors : o # e => page'[o] = page[o] /\ told'[o] = told[o]
        /\ told' \in [Editors -> SUBSET Values] /\ told'[e] \subseteq told[e]
        /\ told'[e] = {} \/ page'[e] = "loading"
        /\ UNCHANGED <<stored, config, edited, saving, sent, todo, clashed>>
    BY <1>3 DEF LoadFails, LoadsAgain
  <2>2. ~Busy(e)
    BY <2>1 DEF BusyIsReady
  <2>3. SettingsTypeOK' /\ FormFits'
    BY <2>1 DEF FormFits, Fits
  <2>4. BusyIsReady' /\ ToldInTime'
    BY <2>1, <2>2 DEF BusyIsReady, ToldInTime, Busy
  <2>5. OneSave'
    <3> SUFFICES ASSUME ~clashed PROVE OneSave'
      BY <2>1 DEF OneSave
    <3>1. \A o \in Editors : Busy(o)' = Busy(o) /\ HalfWritten(o)' = HalfWritten(o)
      BY <2>1 DEF Busy, HalfWritten, Payload, Fits
    <3>2. Fits(stored)' = Fits(stored)
      BY <2>1 DEF Fits
    <3>3. \A o \in Editors : saving'[o] => told'[o] \subseteq {sent'[o]}
      BY <2>1 DEF OneSave
    <3> QED
      BY <3>1, <3>2, <3>3 DEF OneSave
  <2> QED
    BY <2>3, <2>4, <2>5
<1> QED
  BY <1>1, <1>2, <1>3

\* What is edited fits, if the page was told what fits.
LEMMA EditKeeps ==
    ASSUME SettingsInv, NEW e \in Editors, NEW v \in Values, Edits(e, v), Fits(edited[e]) => Fits(v)
    PROVE  SettingsInv'
<1> USE DEF SettingsInv, SettingsTypeOK
<1>1. /\ edited' = [edited EXCEPT ![e] = v]
      /\ UNCHANGED <<stored, page, told, config, saving, sent, todo, clashed>>
  BY DEF Edits
<1>2. SettingsTypeOK' /\ BusyIsReady' /\ ToldInTime'
  BY <1>1 DEF BusyIsReady, ToldInTime, Busy
<1>3. FormFits'
  BY <1>1 DEF FormFits, Fits
<1>4. OneSave'
  BY <1>1 DEF OneSave, Busy, HalfWritten, Payload, Fits
<1> QED
  BY <1>2, <1>3, <1>4

LEMMA EditingStep ==
    ASSUME SettingsInv, NEW e \in Editors,
           \/ \E p \in Mains : PicksProvider(e, p)
           \/ \E p \in Verifiers \cup {Same} : PicksVerifier(e, p)
           \/ PicksModel(e) \/ PicksVerifierModel(e)
    PROVE  SettingsInv'
<1>0. edited[e] \in Values
  BY DEF SettingsInv, SettingsTypeOK
<1>1. ASSUME NEW p \in Mains, PicksProvider(e, p)
      PROVE  SettingsInv'
  <2> DEFINE v == [edited[e] EXCEPT !.provider = p, !.model = ModelFor(edited[e], p)]
  <2>1. v \in Values /\ (Fits(edited[e]) => Fits(v))
    BY <1>0 DEF Values, Fits, ModelFor
  <2>2. Edits(e, v)
    BY <1>1 DEF PicksProvider
  <2> HIDE DEF v
  <2> QED
    BY <2>1, <2>2, EditKeeps
<1>2. ASSUME NEW p \in Verifiers \cup {Same}, PicksVerifier(e, p)
      PROVE  SettingsInv'
  <2> DEFINE v == [edited[e] EXCEPT !.verifier = p, !.verifierModel = IF p = Same THEN Custom ELSE p]
  <2>1. v \in Values /\ (Fits(edited[e]) => Fits(v))
    BY <1>0 DEF Values, Fits
  <2>2. Edits(e, v)
    BY <1>2 DEF PicksVerifier
  <2> HIDE DEF v
  <2> QED
    BY <2>1, <2>2, EditKeeps
<1>3. CASE PicksModel(e)
  <2> DEFINE v == [edited[e] EXCEPT !.model = IF @ = Custom THEN edited[e].provider ELSE Custom]
  <2>1. v \in Values /\ (Fits(edited[e]) => Fits(v))
    BY <1>0 DEF Values, Fits
  <2>2. Edits(e, v)
    BY <1>3 DEF PicksModel
  <2> HIDE DEF v
  <2> QED
    BY <2>1, <2>2, EditKeeps
<1>4. CASE PicksVerifierModel(e)
  <2> DEFINE v == [edited[e] EXCEPT !.verifierModel = IF @ = Custom THEN edited[e].verifier ELSE Custom]
  <2>1. v \in Values /\ (Fits(edited[e]) => Fits(v))
    BY <1>0, <1>4 DEF Values, Fits, PicksVerifierModel
  <2>2. Edits(e, v)
    BY <1>4 DEF PicksVerifierModel
  <2> HIDE DEF v
  <2> QED
    BY <2>1, <2>2, EditKeeps
<1> QED
  BY <1>1, <1>2, <1>3, <1>4

\* A save starts from what is stored, or meets another.
LEMMA SavesStep ==
    ASSUME SettingsInv, NEW e \in Editors, Saves(e)
    PROVE  SettingsInv'
<1> USE DEF SettingsInv, SettingsTypeOK
<1> DEFINE meets == config[e] # stored \/ \E o \in Editors \ {e} : saving[o] \/ todo[o] # {}
<1>1. /\ page[e] = "ready" /\ ~saving[e] /\ todo[e] = {}
      /\ saving' = [saving EXCEPT ![e] = TRUE]
      /\ sent' = [sent EXCEPT ![e] = edited[e]]
      /\ todo' = [todo EXCEPT ![e] = Payload(config[e], edited[e])]
      /\ clashed' = (clashed \/ meets)
      /\ UNCHANGED <<stored, page, told, config, edited>>
  BY DEF Saves
<1>2. Payload(config[e], edited[e]) \subseteq Fields
  BY DEF Payload
<1>3. told[e] = {}
  BY <1>1 DEF ToldInTime
<1>4. SettingsTypeOK'
  <2>1. meets \in BOOLEAN
    OBVIOUS
  <2> HIDE DEF meets
  <2> QED
    BY <1>1, <1>2, <2>1
<1>5. BusyIsReady'
  BY <1>1 DEF BusyIsReady, Busy
<1>6. ToldInTime'
  BY <1>1, <1>3 DEF ToldInTime
<1>7. FormFits'
  BY <1>1 DEF FormFits, Fits
<1>8. OneSave'
  <2> SUFFICES ASSUME ~clashed' PROVE OneSave'
    BY DEF OneSave
  <2>1. ~clashed /\ config[e] = stored /\ \A o \in Editors : ~Busy(o)
    BY <1>1 DEF Busy
  <2>2. Fits(config[e]) /\ Fits(edited[e])
    BY <2>1 DEF OneSave, FormFits
  <2>3. \A o \in Editors : Busy(o)' => o = e
    BY <1>1, <2>1 DEF Busy
  <2>4. HalfWritten(e)'
    <3>1. /\ sent'[e] = edited[e] /\ todo'[e] = Payload(config[e], edited[e])
          /\ config'[e] = config[e] /\ stored' = config[e]
      BY <1>1, <2>1
    <3>2. Payload(config[e], sent[e])' = todo'[e]
      BY <3>1 DEF Payload
    <3>3. \A f \in Fields : stored'[f] = IF f \in todo'[e] THEN config'[e][f] ELSE sent'[e][f]
      BY <3>1 DEF Payload
    <3>4. Fits(config[e])' /\ Fits(sent[e])'
      BY <2>2, <3>1 DEF Fits
    <3> QED
      BY <3>2, <3>3, <3>4 DEF HalfWritten
  <2>5. Busy(e)'
    BY <1>1 DEF Busy
  <2>6. \A o \in Editors : saving'[o] => told'[o] \subseteq {sent'[o]}
    BY <1>1, <1>3, <2>1 DEF Busy
  <2> QED
    BY <2>3, <2>4, <2>5, <2>6 DEF OneSave
<1> QED
  BY <1>4, <1>5, <1>6, <1>7, <1>8

\* One key more is as it was sent.
LEMMA WritesKeyStep ==
    ASSUME SettingsInv, NEW e \in Editors, WritesKey(e)
    PROVE  SettingsInv'
<1> USE DEF SettingsInv, SettingsTypeOK
<1>1. PICK f \in todo[e] :
          /\ stored' = [stored EXCEPT ![f] = sent[e][f]]
          /\ todo' = [todo EXCEPT ![e] = @ \ {f}]
          /\ sent' = [sent EXCEPT ![e] = SentAfter(e, todo'[e])]
          /\ UNCHANGED <<page, told, config, edited, saving, saves, clashed>>
  BY DEF WritesKey, Written
<1>2. f \in Fields /\ todo'[e] = todo[e] \ {f} /\ \A o \in Editors : o # e => todo'[o] = todo[o]
  BY <1>1
<1>3. Busy(e) /\ page[e] = "ready" /\ told[e] = {}
  BY <1>1 DEF Busy, BusyIsReady, ToldInTime
<1>4. SentAfter(e, todo'[e]) = IF saving[e] \/ todo'[e] # {} THEN sent[e] ELSE config[e]
  BY DEF SentAfter
<1>5. SettingsTypeOK'
  <2>1. stored' \in Values
    BY <1>1, <1>2 DEF Values, Fields
  <2>2. SentAfter(e, todo'[e]) \in Values
    BY <1>4
  <2> QED
    BY <1>1, <1>2, <2>1, <2>2
<1>6. BusyIsReady' /\ ToldInTime'
  BY <1>1, <1>2, <1>3 DEF BusyIsReady, ToldInTime, Busy
<1>7. FormFits'
  BY <1>1 DEF FormFits, Fits
<1>8. OneSave'
  <2> SUFFICES ASSUME ~clashed PROVE OneSave'
    BY <1>1 DEF OneSave
  <2>1. HalfWritten(e) /\ \A o \in Editors : o # e => ~Busy(o)
    BY <1>3 DEF OneSave
  <2>2. \A g \in Fields : stored'[g] = IF g \in todo'[e] THEN config[e][g] ELSE sent[e][g]
    <3>1. \A g \in Fields : stored'[g] = IF g = f THEN sent[e][f] ELSE stored[g]
      BY <1>1, <1>2 DEF Values, Fields
    <3> QED
      BY <1>2, <2>1, <3>1 DEF HalfWritten
  <2>3. \A o \in Editors : o # e => ~Busy(o)'
    BY <1>1, <1>2, <2>1 DEF Busy
  <2>4. CASE Busy(e)'
    <3>1. sent'[e] = sent[e] /\ config'[e] = config[e]
      BY <1>1, <1>4, <2>4 DEF Busy
    <3>2. HalfWritten(e)'
      BY <1>2, <2>1, <2>2, <3>1 DEF HalfWritten, Payload, Fits
    <3>3. \A o \in Editors : saving'[o] => told'[o] \subseteq {sent'[o]}
      BY <1>1, <1>3, <2>3 DEF Busy
    <3> QED
      BY <2>3, <2>4, <3>2, <3>3 DEF OneSave
  <2>5. CASE ~Busy(e)'
    <3>1. todo'[e] = {}
      BY <2>5 DEF Busy
    <3>2. \A g \in Fields : stored'[g] = sent[e][g]
      BY <2>2, <3>1
    <3>3. Fits(stored') /\ Fits(stored)'
      BY <2>1, <3>2, SameFits DEF HalfWritten, Fits
    <3>4. \A o \in Editors : ~Busy(o)' /\ ~saving'[o]
      BY <2>3, <2>5 DEF Busy
    <3> QED
      BY <3>3, <3>4 DEF OneSave
  <2> QED
    BY <2>4, <2>5
<1> QED
  BY <1>5, <1>6, <1>7, <1>8

\* A page that is told the outcome of its save shows it.
LEMMA SavedStep ==
    ASSUME SettingsInv, NEW e \in Editors, Saved(e)
    PROVE  SettingsInv'
<1> USE DEF SettingsInv, SettingsTypeOK
<1>1. PICK v \in told[e] : Takes(e, v)
  BY DEF Saved
<1>2. /\ saving[e] /\ saving' = [saving EXCEPT ![e] = FALSE]
      /\ config' = [config EXCEPT ![e] = v] /\ edited' = [edited EXCEPT ![e] = v]
      /\ sent' = [sent EXCEPT ![e] = v] /\ told' = [told EXCEPT ![e] = {}]
      /\ UNCHANGED <<stored, page, todo, clashed>> /\ v \in Values
  BY <1>1 DEF Saved, Takes
<1>3. Busy(e) /\ page[e] = "ready" /\ todo[e] = {}
  BY <1>1, <1>2 DEF Busy, BusyIsReady, ToldInTime
<1>4. SettingsTypeOK'
  BY <1>2
<1>5. BusyIsReady' /\ ToldInTime' /\ FormFits'
  BY <1>2, <1>3 DEF BusyIsReady, ToldInTime, FormFits, Busy, Fits
<1>6. OneSave'
  <2> SUFFICES ASSUME ~clashed PROVE OneSave'
    BY <1>2 DEF OneSave
  <2>1. \A o \in Editors : ~Busy(o)'
    BY <1>2, <1>3 DEF Busy, OneSave
  <2>2. Fits(stored)
    BY <1>3, WrittenFits DEF OneSave
  <2>3. Fits(stored)' /\ \A o \in Editors : ~saving'[o]
    BY <1>2, <2>1, <2>2 DEF Fits, Busy
  <2> QED
    BY <2>1, <2>3 DEF OneSave
<1> QED
  BY <1>4, <1>5, <1>6

\* A save that fails has written all or nothing, or the server writes on, or it
\* stopped half-way.
LEMMA SaveFailsStep ==
    ASSUME SettingsInv, NEW e \in Editors, SaveFails(e)
    PROVE  SettingsInv'
<1> USE DEF SettingsInv, SettingsTypeOK
<1>1. PICK left \in {{}, todo[e]} :
          /\ todo' = [todo EXCEPT ![e] = left]
          /\ sent' = [sent EXCEPT ![e] = IF left = {} THEN config[e] ELSE @]
          /\ clashed' = (clashed \/ (left = {} /\ todo[e] \notin {{}, Payload(config[e], sent[e])}))
  BY DEF SaveFails
<1>2. /\ saving[e] /\ saving' = [saving EXCEPT ![e] = FALSE] /\ told' = [told EXCEPT ![e] = {}]
      /\ UNCHANGED <<stored, page, config, edited>>
  BY DEF SaveFails
<1>3. Busy(e) /\ page[e] = "ready"
  BY <1>2 DEF Busy, BusyIsReady
<1>4. SettingsTypeOK'
  BY <1>1, <1>2
<1>5. BusyIsReady' /\ ToldInTime' /\ FormFits'
  BY <1>1, <1>2, <1>3 DEF BusyIsReady, ToldInTime, FormFits, Busy, Fits
<1>6. OneSave'
  <2> SUFFICES ASSUME ~clashed' PROVE OneSave'
    BY DEF OneSave
  <2>1. ~clashed /\ (left = {} => todo[e] \in {{}, Payload(config[e], sent[e])})
    BY <1>1
  <2>2. HalfWritten(e) /\ \A o \in Editors : o # e => ~Busy(o)
    BY <1>3, <2>1 DEF OneSave
  <2>3. \A o \in Editors : (o # e => ~Busy(o)') /\ ~saving'[o]
    BY <1>1, <1>2, <2>2 DEF Busy
  <2>4. CASE left = {}
    <3>1. \A o \in Editors : ~Busy(o)'
      BY <1>1, <1>2, <2>3, <2>4 DEF Busy
    <3>2. CASE todo[e] = {}
      BY <1>2, <2>2, <2>3, <3>1, <3>2, WrittenFits DEF OneSave, Fits
    <3>3. CASE todo[e] = Payload(config[e], sent[e])
      <4>1. \A f \in Fields : stored[f] = config[e][f]
        BY <2>2, <3>3 DEF HalfWritten, Payload
      <4>2. Fits(stored)
        BY <2>2, <4>1, SameFits DEF HalfWritten
      <4> QED
        BY <1>2, <2>3, <3>1, <4>2 DEF OneSave, Fits
    <3> QED
      BY <2>1, <2>4, <3>2, <3>3
  <2>5. CASE left # {}
    <3>1. sent'[e] = sent[e] /\ config'[e] = config[e] /\ todo'[e] = todo[e] /\ stored' = stored
          /\ todo'[e] # {}
      BY <1>1, <1>2, <2>5
    <3>2. HalfWritten(e)' /\ Busy(e)'
      BY <2>2, <3>1 DEF HalfWritten, Payload, Fits, Busy
    <3> QED
      BY <2>3, <3>2 DEF OneSave
  <2> QED
    BY <2>4, <2>5
<1> QED
  BY <1>4, <1>5, <1>6

\* Every step of the pages and of the server keeps the invariant.
LEMMA SettingsStep ==
    ASSUME SettingsInv, [SettingsNext]_settingsVars
    PROVE  SettingsInv'
<1>1. CASE SettingsNext
  <2>1. PICK e \in Editors :
            \/ ServesConfig(e) \/ Loads(e) \/ LoadFails(e) \/ LoadsAgain(e)
            \/ \E p \in Mains : PicksProvider(e, p)
            \/ \E p \in Verifiers \cup {Same} : PicksVerifier(e, p)
            \/ PicksModel(e) \/ PicksVerifierModel(e)
            \/ Saves(e) \/ WritesKey(e) \/ Saved(e) \/ SaveFails(e)
    BY <1>1 DEF SettingsNext
  <2> QED
    BY <2>1, LoadingStep, EditingStep, SavesStep, WritesKeyStep, SavedStep, SaveFailsStep
<1>2. CASE UNCHANGED settingsVars
  BY <1>2 DEF settingsVars, SettingsInv, SettingsTypeOK, BusyIsReady, ToldInTime, FormFits, OneSave,
              Busy, HalfWritten, Payload, Fits
<1> QED
  BY <1>1, <1>2

\* Saves that do not meet are written one at a time, from settings that fit to
\* settings that fit.
THEOREM SettingsInvariance == SettingsSpec => []SettingsInv
<1>1. SettingsInit => SettingsInv
  BY SettingsInitInv
<1>2. SettingsInv /\ [SettingsNext]_settingsVars => SettingsInv'
  BY SettingsStep
<1> QED
  BY <1>1, <1>2, PTL DEF SettingsSpec

\* The stored model belongs to the stored provider (handleSave sends what was
\* changed, update() writes it key by key), for any number of administrators
\* and of saves.
THEOREM StoredPairFits == SettingsSpec => []PairFits
<1>1. SettingsInv => PairFits
  <2> SUFFICES ASSUME SettingsInv, ~clashed, \A e \in Editors : todo[e] = {}
               PROVE  Fits(stored)
    BY DEF PairFits
  <2>1. CASE \E e \in Editors : Busy(e)
    BY <2>1, WrittenFits DEF SettingsInv, OneSave
  <2>2. CASE \A e \in Editors : ~Busy(e)
    BY <2>2 DEF SettingsInv, OneSave
  <2> QED
    BY <2>1, <2>2
<1> QED
  BY <1>1, SettingsInvariance, PTL

\* What a save answers (current() at the end of update()) is the form that was
\* sent, so setForm changes nothing that was not edited meanwhile.
THEOREM AnswerKeepsForm == SettingsSpec => SaveKeepsForm
<1> DEFINE Keeps(e) == (saving[e] /\ ~saving'[e] /\ edited'[e] # edited[e])
                          => (edited[e] # sent[e] \/ clashed)
<1>1. ASSUME SettingsInv, SettingsNext, NEW e \in Editors
      PROVE  Keeps(e)
  <2> SUFFICES ASSUME saving[e], ~saving'[e], edited'[e] # edited[e], ~clashed
               PROVE  edited[e] # sent[e]
    OBVIOUS
  <2>1. PICK o \in Editors :
            \/ ServesConfig(o) \/ Loads(o) \/ LoadFails(o) \/ LoadsAgain(o)
            \/ \E p \in Mains : PicksProvider(o, p)
            \/ \E p \in Verifiers \cup {Same} : PicksVerifier(o, p)
            \/ PicksModel(o) \/ PicksVerifierModel(o)
            \/ Saves(o) \/ WritesKey(o) \/ Saved(o) \/ SaveFails(o)
    BY <1>1 DEF SettingsNext
  <2>2. ~(ServesConfig(o) \/ Loads(o) \/ LoadFails(o) \/ LoadsAgain(o) \/ WritesKey(o))
    BY DEF ServesConfig, Loads, LoadFails, LoadsAgain, WritesKey
  <2>3. ~(\/ \E p \in Mains : PicksProvider(o, p)
          \/ \E p \in Verifiers \cup {Same} : PicksVerifier(o, p)
          \/ PicksModel(o) \/ PicksVerifierModel(o))
    BY DEF PicksProvider, PicksVerifier, PicksModel, PicksVerifierModel, Edits
  <2>4. ~Saves(o)
    BY DEF Saves
  <2>5. ~SaveFails(o)
    BY DEF SaveFails
  <2>6. Saved(o)
    BY <2>1, <2>2, <2>3, <2>4, <2>5
  <2>7. PICK v \in told[o] : edited' = [edited EXCEPT ![o] = v]
    BY <2>6 DEF Saved, Takes
  <2>8. o = e /\ edited'[e] = v
    BY <1>1, <2>7 DEF SettingsInv, SettingsTypeOK
  <2>9. v = sent[e]
    BY <1>1, <2>7, <2>8 DEF SettingsInv, OneSave
  <2> QED
    BY <2>8, <2>9
<1>2. SettingsInv /\ [SettingsNext]_settingsVars => [\A e \in Editors : Keeps(e)]_settingsVars
  BY <1>1
<1> QED
  BY <1>2, SettingsInvariance, PTL DEF SettingsSpec, SaveKeepsForm

-----------------------------------------------------------------------------
(* CredentialList: the list of provider keys *)

Changes == {"no", "adding", "revoking", "added", "revoked", "listing added", "listing revoked",
            "listed added", "listed revoked"}

ListTypeOK ==
    /\ row \in [Items -> Statuses] /\ shown \in [Items -> Statuses] /\ own \in [Items -> Statuses]
    /\ change \in [Items -> Changes] /\ list \in [Items -> [Items -> Statuses]]
    /\ overlapped \in BOOLEAN

\* What the panel was told is stored, and what is stored comes from it: a key
\* that it adds is not there yet, a change that it was told of has been made.
OwnStored ==
    \A c \in Items :
        /\ Stage(own[c]) <= Stage(row[c])
        /\ change[c] = "adding" => row[c] = "absent"
        /\ change[c] = "added" => row[c] # "absent"
        /\ change[c] = "revoked" => row[c] = "revoked"

\* One list is under way at a time, and it has, like the list shown, what the
\* panel was told.
OneList ==
    ~overlapped =>
        /\ \A c, d \in Listing : c = d
        /\ Listing = {} => \A c \in Items : Stage(own[c]) <= Stage(shown[c])
        /\ \A c, d \in Items :
              change[c] \in {"listed added", "listed revoked"} => Stage(own[d]) <= Stage(list[c][d])

ListInv == ListTypeOK /\ OwnStored /\ OneList

\* A status is at one of three stages.
LEMMA StageIs ==
    Stage("absent") = 0 /\ Stage("active") = 1 /\ Stage("revoked") = 2
  BY DEF Stage

\* Every step of the panel, of the other administrator and of the server keeps
\* the invariant.
LEMMA ListStep ==
    ASSUME ListInv, [ListNext]_listVars
    PROVE  ListInv'
<1> USE DEF ListInv, ListTypeOK
<1>1. ASSUME NEW c \in Items, NEW s \in {"adding", "revoking"},
             change[c] = "no", s = "adding" => row[c] = "absent",
             change' = [change EXCEPT ![c] = s],
             UNCHANGED <<row, shown, list, own, overlapped>>
      PROVE  ListInv'
  <2>1. ListTypeOK' /\ OwnStored'
    BY <1>1 DEF OwnStored, Changes
  <2>2. Listing' = Listing /\ \A d \in Items : change'[d] \in {"listed added", "listed revoked"} =>
                                change[d] = change'[d]
    BY <1>1 DEF Listing
  <2>3. OneList'
    BY <1>1, <2>2 DEF OneList
  <2> QED
    BY <2>1, <2>3
<1>2. ASSUME NEW c \in Items, SubmitsKey(c) \/ ClicksRevoke(c)
      PROVE  ListInv'
  <2>1. CASE SubmitsKey(c)
    BY <1>1, <2>1 DEF SubmitsKey
  <2>2. CASE ClicksRevoke(c)
    BY <1>1, <2>2 DEF ClicksRevoke
  <2> QED
    BY <1>2, <2>1, <2>2
<1>3. ASSUME NEW c \in Items, Stores(c)
      PROVE  ListInv'
  <2> DEFINE adds == change[c] = "adding"
  <2>1. /\ change[c] \in {"adding", "revoking"}
        /\ row' = [row EXCEPT ![c] = IF adds THEN "active" ELSE "revoked"]
        /\ change' = [change EXCEPT ![c] = IF adds THEN "added" ELSE "revoked"]
        /\ UNCHANGED <<shown, list, own, overlapped>>
    BY <1>3 DEF Stores
  <2>2. ListTypeOK'
    BY <2>1 DEF Changes, Statuses
  <2>3. OwnStored'
    <3>1. \A d \in Items : d # c => row'[d] = row[d] /\ change'[d] = change[d]
      BY <2>1
    <3>2. Stage(own[c]) <= Stage(row'[c])
      <4>1. CASE adds
        BY <2>1, <4>1, StageIs DEF OwnStored, Statuses
      <4>2. CASE ~adds
        BY <2>1, <4>2, StageIs DEF OwnStored, Statuses
      <4> QED
        BY <4>1, <4>2
    <3>3. /\ change'[c] # "adding"
          /\ change'[c] = "added" => row'[c] # "absent"
          /\ change'[c] = "revoked" => row'[c] = "revoked"
      BY <2>1
    <3>4. \A d \in Items : Stage(own[d])' = Stage(own[d]) /\ (d # c => Stage(row[d])' = Stage(row[d]))
      BY <2>1, <3>1 DEF Stage
    <3> QED
      BY <2>1, <3>1, <3>2, <3>3, <3>4 DEF OwnStored, Stage
  <2>4. Listing' = Listing /\ \A d \in Items : change'[d] \in {"listed added", "listed revoked"} =>
                                change[d] = change'[d]
    BY <2>1 DEF Listing
  <2>5. OneList'
    BY <2>1, <2>4 DEF OneList, Stage
  <2> QED
    BY <2>2, <2>3, <2>5
<1>4. ASSUME NEW c \in Items, OtherStores(c)
      PROVE  ListInv'
  <2>1. /\ row[c] # "revoked" /\ change[c] # "adding"
        /\ row' = [row EXCEPT ![c] = IF @ = "absent" THEN "active" ELSE "revoked"]
        /\ UNCHANGED <<shown, change, list, own, overlapped>>
    BY <1>4 DEF OtherStores
  <2>2. ListTypeOK'
    BY <2>1 DEF Statuses
  <2>3. row'[c] # "absent" /\ (row[c] = "active" => row'[c] = "revoked")
    BY <2>1
  <2>4. \A d \in Items : d # c => row'[d] = row[d]
    BY <2>1
  <2>5. \A d \in Items : Stage(own[d]) <= Stage(row'[d])
    <3> TAKE d \in Items
    <3>1. CASE d = c
      <4>1. row[d] \in {"absent", "active"} /\ row'[d] \in Statuses /\ own[d] \in Statuses
            /\ row'[d] # "absent" /\ (row[d] = "active" => row'[d] = "revoked")
        BY <2>1, <2>2, <2>3, <3>1 DEF Statuses
      <4>2. Stage(own[d]) <= Stage(row[d])
        BY DEF OwnStored
      <4> QED
        BY <4>1, <4>2, StageIs DEF Statuses
    <3>2. CASE d # c
      BY <2>4, <3>2 DEF OwnStored
    <3> QED
      BY <3>1, <3>2
  <2>6. \A d \in Items :
            /\ change[d] = "adding" => row'[d] = "absent"
            /\ change[d] = "added" => row'[d] # "absent"
            /\ change[d] = "revoked" => row'[d] = "revoked"
    BY <2>1, <2>3, <2>4 DEF OwnStored
  <2>7. OwnStored'
    BY <2>1, <2>5, <2>6 DEF OwnStored
  <2>8. OneList'
    BY <2>1 DEF OneList, Listing, Stage
  <2> QED
    BY <2>2, <2>7, <2>8
<1>5. ASSUME NEW c \in Items, AsksForList(c)
      PROVE  ListInv'
  <2> DEFINE s == IF change[c] = "added" THEN "active" ELSE "revoked"
  <2>1. /\ change[c] \in {"added", "revoked"}
        /\ change' = [change EXCEPT ![c] = NextList(c)]
        /\ own' = [own EXCEPT ![c] = s]
        /\ overlapped' = (overlapped \/ Listing # {})
        /\ UNCHANGED <<row, shown, list>>
    BY <1>5 DEF AsksForList
  <2>2. NextList(c) \in {"listing added", "listing revoked"}
    BY DEF NextList
  <2>3. ListTypeOK'
    BY <2>1, <2>2 DEF Changes, Statuses
  <2>4. OwnStored'
    <3>1. s \in Statuses /\ Stage(s) <= Stage(row[c])
      BY <2>1, StageIs DEF OwnStored, Statuses
    <3>2. \A d \in Items : Stage(own'[d]) <= Stage(row[d])
      BY <2>1, <3>1 DEF OwnStored
    <3>3. \A d \in Items : change'[d] \in {"adding", "added", "revoked"} => change'[d] = change[d]
      BY <2>1, <2>2
    <3> QED
      BY <2>1, <3>2, <3>3 DEF OwnStored
  <2>5. OneList'
    <3> SUFFICES ASSUME ~overlapped' PROVE OneList'
      BY DEF OneList
    <3>1. ~overlapped /\ Listing = {}
      BY <2>1
    <3>2. \A d \in Items : change'[d] \in {"listing added", "listing revoked", "listed added",
                                           "listed revoked"} <=> d = c
      BY <2>1, <2>2, <3>1 DEF Listing
    <3>3. Listing' = {c}
      BY <3>2 DEF Listing
    <3>4. change'[c] \notin {"listed added", "listed revoked"}
      BY <2>1, <2>2
    <3> QED
      BY <3>2, <3>3, <3>4 DEF OneList
  <2> QED
    BY <2>3, <2>4, <2>5
<1>6. ASSUME NEW c \in Items, ServesList(c)
      PROVE  ListInv'
  <2>1. /\ change[c] \in {"listing added", "listing revoked"}
        /\ list' = [list EXCEPT ![c] = row]
        /\ change' = [change EXCEPT ![c] = IF @ = "listing added" THEN "listed added" ELSE "listed revoked"]
        /\ UNCHANGED <<row, shown, own, overlapped>>
    BY <1>6 DEF ServesList
  <2>2. ListTypeOK'
    BY <2>1 DEF Changes
  <2>3. OwnStored'
    BY <2>1 DEF OwnStored
  <2>4. Listing' = Listing /\ c \in Listing
    BY <2>1 DEF Listing
  <2>5. \A d \in Items : Stage(own[d]) <= Stage(row[d])
    BY DEF OwnStored
  <2>6. \A d \in Items : d # c => change'[d] = change[d] /\ list'[d] = list[d]
    BY <2>1
  <2>7. list'[c] = row
    BY <2>1
  <2>8. OneList'
    BY <2>1, <2>4, <2>5, <2>6, <2>7 DEF OneList
  <2> QED
    BY <2>2, <2>3, <2>8
<1>7. ASSUME NEW c \in Items, ShowsList(c)
      PROVE  ListInv'
  <2>1. /\ change[c] \in {"listed added", "listed revoked"}
        /\ shown' = list[c]
        /\ list' = [list EXCEPT ![c] = AllAbsent]
        /\ change' = [change EXCEPT ![c] = "no"]
        /\ UNCHANGED <<row, own, overlapped>>
    BY <1>7 DEF ShowsList
  <2>2. ListTypeOK'
    BY <2>1 DEF Changes, AllAbsent, Statuses
  <2>3. OwnStored'
    BY <2>1 DEF OwnStored
  <2>4. OneList'
    <3> SUFFICES ASSUME ~overlapped PROVE OneList'
      BY <2>1 DEF OneList
    <3>1. c \in Listing /\ Listing = {c}
      BY <2>1 DEF OneList, Listing
    <3>2. Listing' = {}
      BY <2>1, <3>1 DEF Listing
    <3>3. \A d \in Items : Stage(own[d]) <= Stage(list[c][d])
      BY <2>1 DEF OneList
    <3>4. \A d \in Items : change'[d] \notin {"listed added", "listed revoked"}
      BY <3>2 DEF Listing
    <3> QED
      BY <2>1, <3>2, <3>3, <3>4 DEF OneList
  <2> QED
    BY <2>2, <2>3, <2>4
<1>8. ASSUME NEW c \in Items, ChangeFails(c)
      PROVE  ListInv'
  <2>1. /\ change' = [change EXCEPT ![c] = "no"]
        /\ list' = [list EXCEPT ![c] = AllAbsent]
        /\ overlapped' = (overlapped \/ c \in Listing)
        /\ UNCHANGED <<row, shown, own>>
    BY <1>8 DEF ChangeFails
  <2>2. ListTypeOK'
    BY <2>1 DEF Changes, AllAbsent, Statuses
  <2>3. OwnStored'
    BY <2>1 DEF OwnStored
  <2>4. OneList'
    <3> SUFFICES ASSUME ~overlapped' PROVE OneList'
      BY DEF OneList
    <3>1. ~overlapped /\ c \notin Listing
      BY <2>1
    <3>2. \A d \in Items : d # c => change'[d] = change[d] /\ list'[d] = list[d]
      BY <2>1
    <3>3. change'[c] = "no"
      BY <2>1
    <3>4. Listing' = Listing
      BY <3>1, <3>2, <3>3 DEF Listing
    <3> QED
      BY <2>1, <3>1, <3>2, <3>3, <3>4 DEF OneList
  <2> QED
    BY <2>2, <2>3, <2>4
<1>9. CASE UNCHANGED listVars
  BY <1>9 DEF listVars, OwnStored, OneList, Listing, Stage
<1> QED
  BY <1>2, <1>3, <1>4, <1>5, <1>6, <1>7, <1>8, <1>9 DEF ListNext

\* Every change that the panel was told of is stored and in the list it shows.
THEOREM ListInvariance == ListSpec => []ListInv
<1>1. ListInit => ListInv
  <2> SUFFICES ASSUME ListInit PROVE ListInv
    OBVIOUS
  <2>1. ListTypeOK
    BY DEF ListInit, ListTypeOK, AllAbsent, Statuses, Changes
  <2>2. \A c \in Items : change[c] = "no" /\ own[c] = "absent" /\ row[c] = "absent" /\ shown[c] = "absent"
    BY DEF ListInit, AllAbsent
  <2>3. \A c \in Items : Stage(own[c]) <= Stage(row[c]) /\ Stage(own[c]) <= Stage(shown[c])
    <3>1. Stage("absent") <= Stage("absent")
      BY StageIs
    <3> QED
      BY <2>2, <3>1
  <2>4. Listing = {}
    BY <2>2 DEF Listing
  <2>5. OwnStored /\ OneList
    BY <2>2, <2>3, <2>4 DEF OwnStored, OneList
  <2> QED
    BY <2>1, <2>5 DEF ListInv
<1>2. ListInv /\ [ListNext]_listVars => ListInv'
  BY ListStep
<1> QED
  BY <1>1, <1>2, PTL DEF ListSpec

\* A panel at rest shows what it was told to have changed, or later (load() after
\* each change of credentials-panel.tsx), for any number of keys.
THEOREM PanelShowsOwn == ListSpec => []OwnChangesShow
<1>1. ListInv => OwnChangesShow
  BY DEF ListInv, OneList, OwnChangesShow, Listing
<1> QED
  BY <1>1, ListInvariance, PTL

-----------------------------------------------------------------------------
(* Routing: redirects *)

\* Only who is signed in is an administrator.
RoutingInv ==
    /\ path \in Paths /\ authStatus \in AuthStatuses /\ isAdmin \in BOOLEAN
    /\ isAdmin => authStatus = "authenticated"

\* The visitor is on a page, and the role goes with the session.
THEOREM RoutingInvariance == RoutingSpec => []RoutingInv
<1>1. RoutingInit => RoutingInv
  BY DEF RoutingInit, RoutingInv, Paths, AuthStatuses
<1>2. RoutingInv /\ [RoutingNext]_routingVars => RoutingInv'
  <2> SUFFICES ASSUME RoutingInv, [RoutingNext]_routingVars PROVE RoutingInv'
    OBVIOUS
  <2>1. AuthTarget \in Paths
    BY DEF AuthTarget, RoutingInv, Paths, PUBLIC_ROUTES
  <2>2. CASE AuthRedirects \/ AdminRedirects \/ Navigates
    BY <2>1, <2>2 DEF AuthRedirects, AdminRedirects, Navigates, AdminTarget, RoutingInv, Paths
  <2>3. CASE StatusChanges
    BY <2>3 DEF StatusChanges, RoutingInv, AuthStatuses
  <2>4. CASE UNCHANGED routingVars
    BY <2>4 DEF routingVars, RoutingInv
  <2> QED
    BY <2>2, <2>3, <2>4 DEF RoutingNext
<1> QED
  BY <1>1, <1>2, PTL DEF RoutingSpec

\* A visitor whose session is known is never left on the spinner, and redirects
\* (the effects of auth-provider.tsx and of the admin page) do not chase each
\* other.
THEOREM RedirectsSettle == RoutingSpec => PageIsShown
<1> DEFINE Shows == /\ (authStatus # "loading" /\ NoRedirect) => Permitted
                    /\ (AuthRedirects \/ AdminRedirects) => (Permitted' /\ NoRedirect')
<1>1. ASSUME RoutingInv, authStatus # "loading", NoRedirect
      PROVE  Permitted
  <2>1. /\ path \in Paths /\ AuthTarget = path
        /\ authStatus \in {"setup", "unauthenticated", "authenticated"}
    BY <1>1 DEF RoutingInv, AuthStatuses, NoRedirect
  <2> QED
    BY <2>1 DEF AuthTarget, Permitted, OnPublic, PUBLIC_ROUTES, ALWAYS_PUBLIC
<1>2. ASSUME RoutingInv, AuthRedirects
      PROVE  Permitted' /\ NoRedirect'
  BY <1>2 DEF RoutingInv, AuthStatuses, AuthRedirects, NoRedirect, AuthTarget, AdminTarget, Permitted,
              OnPublic, PUBLIC_ROUTES, ALWAYS_PUBLIC
<1>3. ASSUME RoutingInv, AdminRedirects
      PROVE  Permitted' /\ NoRedirect'
  BY <1>3 DEF AdminRedirects, NoRedirect, AuthTarget, AdminTarget, Permitted,
              OnPublic, PUBLIC_ROUTES, ALWAYS_PUBLIC
<1>4. RoutingInv /\ [RoutingNext]_routingVars => [Shows]_routingVars
  BY <1>1, <1>2, <1>3
<1> QED
  BY <1>4, RoutingInvariance, PTL DEF RoutingSpec, PageIsShown

-----------------------------------------------------------------------------
(* Vault: the stored credentials and the master key *)

\* Rotations that did not meet anything: one at a time is under way, it has
\* read every row, and the vault's key decrypts them until it writes; then each
\* row is under the new key or still to be written.
Rotating ==
    ~mixed =>
        /\ \A a, b \in InRotation : a = b
        /\ \A a \in InRotation : \A c \in Stored : c \in plain[a].ids \/ cred[c].key = a
        /\ \A a \in InRotation : rotation[a] = "reading" =>
              Stored \subseteq plain[a].ids /\ plain[a].keys \subseteq {vaultKey}
        /\ (\A a \in Admins : rotation[a] # "writing") => \A c \in Stored : cred[c].key = vaultKey

\* A lookup that met no rotation holds a row under the vault's key.
LookedUp ==
    \A x \in Lookups : ~mixed /\ ~lookup[x].met =>
        /\ lookup[x].pc = "read" => InRotation = {} /\ lookup[x].key = vaultKey
        /\ lookup[x].pc # "failed"

VaultInv == VaultTypeOK /\ Rotating /\ LookedUp /\ PanelIsFreed

LEMMA VaultInitial == VaultInit => VaultInv
<1> SUFFICES ASSUME VaultInit PROVE VaultInv
  OBVIOUS
<1> USE VaultAssumption DEF VaultInit
<1>1. VaultTypeOK
  <2>1. EnvKey \in Keys /\ rotations \in 0..MaxRotations /\ restarts \in 0..MaxRestarts
    BY DEF Keys
  <2>2. cred \in [Creds -> [status : {"absent", "active", "revoked"}, key : Keys]]
    BY <2>1
  <2>3. plain \in [Admins -> [ids : SUBSET Creds, keys : SUBSET Keys]]
    BY DEF NoRows
  <2>4. lookup \in [Lookups -> [pc : {"idle", "read", "failed"}, key : Keys, met : BOOLEAN]]
    BY <2>1 DEF NoLookup
  <2> QED
    BY <2>1, <2>2, <2>3, <2>4 DEF VaultTypeOK
<1>2. Rotating
  BY DEF Rotating, InRotation, Stored
<1>3. LookedUp
  BY DEF LookedUp, NoLookup
<1>4. PanelIsFreed
  BY DEF PanelIsFreed
<1> QED
  BY <1>1, <1>2, <1>3, <1>4 DEF VaultInv

\* Every step keeps the types.
LEMMA TypesKept ==
    ASSUME VaultTypeOK, [VaultNext]_vaultVars
    PROVE  VaultTypeOK'
<1> USE VaultAssumption DEF VaultTypeOK
<1>1. ASSUME NEW c \in Creds, Adds(c)
      PROVE  VaultTypeOK'
  BY <1>1 DEF Adds, EncryptionKey, Keys
<1>2. ASSUME NEW c \in Creds, Revokes(c)
      PROVE  VaultTypeOK'
  BY <1>2 DEF Revokes
<1>3. ASSUME NEW x \in Lookups, Reads(x)
      PROVE  VaultTypeOK'
  <2>1. PICK c \in Active : lookup' = [lookup EXCEPT ![x] = [pc |-> "read", key |-> cred[c].key, met |-> InRotation # {}]]
    BY <1>3 DEF Reads
  <2>2. cred[c].key \in Keys
    BY DEF Active
  <2>3. lookup' \in [Lookups -> [pc : {"idle", "read", "failed"}, key : Keys, met : BOOLEAN]]
    BY <2>1, <2>2
  <2> QED
    BY <1>3, <2>3 DEF Reads
<1>4. ASSUME NEW x \in Lookups, Resolves(x)
      PROVE  VaultTypeOK'
  BY <1>4 DEF Resolves, NoLookup, Keys
<1>5. ASSUME NEW x \in Lookups, LooksAgain(x)
      PROVE  VaultTypeOK'
  BY <1>5 DEF LooksAgain, NoLookup, Keys
<1>6. ASSUME NEW a \in Admins, Generates(a)
      PROVE  VaultTypeOK'
  BY <1>6 DEF Generates
<1>7. ASSUME NEW a \in Admins, Cancels(a)
      PROVE  VaultTypeOK'
  BY <1>7 DEF Cancels
<1>8. ASSUME NEW a \in Admins, ConfirmsRotate(a)
      PROVE  VaultTypeOK'
  <2>1. {cred[c].key : c \in Stored} \subseteq Keys /\ Stored \subseteq Creds
    BY DEF Stored
  <2>2. plain' \in [Admins -> [ids : SUBSET Creds, keys : SUBSET Keys]]
    BY <1>8, <2>1 DEF ConfirmsRotate
  <2>3. lookup' \in [Lookups -> [pc : {"idle", "read", "failed"}, key : Keys, met : BOOLEAN]]
    <3>1. \A x \in Lookups : (lookup[x].met \/ lookup[x].pc = "read") \in BOOLEAN
      OBVIOUS
    <3>2. \A x \in Lookups : lookup'[x] \in [pc : {"idle", "read", "failed"}, key : Keys, met : BOOLEAN]
      BY <1>8, <3>1 DEF ConfirmsRotate
    <3> QED
      BY <1>8, <3>2 DEF ConfirmsRotate
  <2> QED
    BY <1>8, <2>2, <2>3 DEF ConfirmsRotate
<1>9. ASSUME NEW a \in Admins, RotateReturns(a)
      PROVE  VaultTypeOK'
  BY <1>9 DEF RotateReturns
<1>10. ASSUME NEW a \in Admins, RotateLost(a)
      PROVE  VaultTypeOK'
  BY <1>10 DEF RotateLost
<1>11. ASSUME NEW a \in Admins, DecryptsAll(a)
      PROVE  VaultTypeOK'
  BY <1>11 DEF DecryptsAll, NoRows
<1>12. ASSUME NEW a \in Admins, Reencrypts(a)
      PROVE  VaultTypeOK'
  <2>1. PICK c \in plain[a].ids : /\ cred' = [cred EXCEPT ![c].key = a]
                                  /\ plain' = [plain EXCEPT ![a].ids = plain[a].ids \ {c}]
    BY <1>12 DEF Reencrypts
  <2>2. c \in Creds /\ a \in Keys
    BY DEF Keys
  <2>3. cred' \in [Creds -> [status : {"absent", "active", "revoked"}, key : Keys]]
    BY <2>1, <2>2
  <2>4. plain' \in [Admins -> [ids : SUBSET Creds, keys : SUBSET Keys]]
    BY <2>1
  <2> QED
    BY <1>12, <2>3, <2>4 DEF Reencrypts
<1>13. ASSUME NEW a \in Admins, SwapsVault(a)
      PROVE  VaultTypeOK'
  BY <1>13 DEF SwapsVault, Keys, NoRows
<1>14. CASE Installs
  BY <1>14 DEF Installs
<1>15. CASE Restarts
  BY <1>15 DEF Restarts, NoRows, NoLookup, Keys
<1>16. CASE UNCHANGED vaultVars
  BY <1>16 DEF vaultVars
<1> QED
  BY <1>1, <1>2, <1>3, <1>4, <1>5, <1>6, <1>7, <1>8, <1>9, <1>10, <1>11, <1>12, <1>13, <1>14, <1>15, <1>16 DEF VaultNext

\* Every step keeps what holds of a rotation that met nothing.
LEMMA RotatingKept ==
    ASSUME VaultTypeOK, Rotating, [VaultNext]_vaultVars
    PROVE  Rotating'
<1> USE VaultAssumption DEF VaultTypeOK, Rotating, InRotation, Stored
<1>1. ASSUME NEW c \in Creds, Adds(c)
      PROVE  Rotating'
  BY <1>1 DEF Adds, EncryptionKey
<1>2. ASSUME NEW c \in Creds, Revokes(c)
      PROVE  Rotating'
  BY <1>2 DEF Revokes
<1>3. ASSUME NEW x \in Lookups, Reads(x)
      PROVE  Rotating'
  BY <1>3 DEF Reads
<1>4. ASSUME NEW x \in Lookups, Resolves(x)
      PROVE  Rotating'
  BY <1>4 DEF Resolves
<1>5. ASSUME NEW x \in Lookups, LooksAgain(x)
      PROVE  Rotating'
  BY <1>5 DEF LooksAgain
<1>6. ASSUME NEW a \in Admins, Generates(a)
      PROVE  Rotating'
  BY <1>6 DEF Generates
<1>7. ASSUME NEW a \in Admins, Cancels(a)
      PROVE  Rotating'
  BY <1>7 DEF Cancels
<1>8. ASSUME NEW a \in Admins, ConfirmsRotate(a)
      PROVE  Rotating'
  <2> SUFFICES ASSUME ~mixed' PROVE Rotating'
    BY DEF Rotating
  <2>1. /\ InRotation = {}
        /\ \A c \in Stored : cred[c].key = vaultKey
    BY <1>8 DEF ConfirmsRotate
  <2>2. /\ rotation' = [rotation EXCEPT ![a] = "reading"]
        /\ plain'[a].ids = Stored /\ plain'[a].keys = {cred[c].key : c \in Stored}
        /\ UNCHANGED <<cred, vaultKey>>
    BY <1>8 DEF ConfirmsRotate
  <2>3. \A b \in Admins : rotation'[b] \in {"reading", "writing"} => b = a /\ rotation'[b] = "reading"
    BY <2>1, <2>2
  <2>4. {cred[c].key : c \in Stored} \subseteq {vaultKey}
    BY <2>1
  <2>5. Stored' = Stored
    BY <2>2
  <2> QED
    BY <2>1, <2>2, <2>3, <2>4, <2>5
<1>9. ASSUME NEW a \in Admins, RotateReturns(a)
      PROVE  Rotating'
  BY <1>9 DEF RotateReturns
<1>10. ASSUME NEW a \in Admins, RotateLost(a)
      PROVE  Rotating'
  BY <1>10 DEF RotateLost
<1>11. ASSUME NEW a \in Admins, DecryptsAll(a)
      PROVE  Rotating'
  BY <1>11 DEF DecryptsAll, AllDecrypt, Decrypts, NoRows
<1>12. ASSUME NEW a \in Admins, Reencrypts(a)
      PROVE  Rotating'
  BY <1>12 DEF Reencrypts
<1>13. ASSUME NEW a \in Admins, SwapsVault(a)
      PROVE  Rotating'
  BY <1>13 DEF SwapsVault, RowsLeft, NoRows
<1>14. CASE Installs
  BY <1>14 DEF Installs
<1>15. CASE Restarts
  BY <1>15 DEF Restarts, NoRows
<1>16. CASE UNCHANGED vaultVars
  BY <1>16 DEF vaultVars
<1> QED
  BY <1>1, <1>2, <1>3, <1>4, <1>5, <1>6, <1>7, <1>8, <1>9, <1>10, <1>11, <1>12, <1>13, <1>14, <1>15, <1>16 DEF VaultNext

\* Every step keeps what holds of a lookup that met no rotation.
LEMMA LookedUpKept ==
    ASSUME VaultTypeOK, Rotating, LookedUp, [VaultNext]_vaultVars
    PROVE  LookedUp'
<1> USE VaultAssumption DEF VaultTypeOK, LookedUp, InRotation
<1>1. ASSUME NEW c \in Creds, Adds(c)
      PROVE  LookedUp'
  BY <1>1 DEF Adds
<1>2. ASSUME NEW c \in Creds, Revokes(c)
      PROVE  LookedUp'
  BY <1>2 DEF Revokes
<1>3. ASSUME NEW x \in Lookups, Reads(x)
      PROVE  LookedUp'
  <2>1. PICK c \in Active : lookup' = [lookup EXCEPT ![x] = [pc |-> "read", key |-> cred[c].key, met |-> InRotation # {}]]
    BY <1>3 DEF Reads
  <2>2. ~mixed /\ InRotation = {} => cred[c].key = vaultKey
    BY DEF Active, Stored, Rotating
  <2> QED
    BY <1>3, <2>1, <2>2 DEF Reads
<1>4. ASSUME NEW x \in Lookups, Resolves(x)
      PROVE  LookedUp'
  BY <1>4 DEF Resolves, Decrypts, NoLookup
<1>5. ASSUME NEW x \in Lookups, LooksAgain(x)
      PROVE  LookedUp'
  BY <1>5 DEF LooksAgain, NoLookup
<1>6. ASSUME NEW a \in Admins, Generates(a)
      PROVE  LookedUp'
  BY <1>6 DEF Generates
<1>7. ASSUME NEW a \in Admins, Cancels(a)
      PROVE  LookedUp'
  BY <1>7 DEF Cancels
<1>8. ASSUME NEW a \in Admins, ConfirmsRotate(a)
      PROVE  LookedUp'
  BY <1>8 DEF ConfirmsRotate
<1>9. ASSUME NEW a \in Admins, RotateReturns(a)
      PROVE  LookedUp'
  BY <1>9 DEF RotateReturns
<1>10. ASSUME NEW a \in Admins, RotateLost(a)
      PROVE  LookedUp'
  BY <1>10 DEF RotateLost
<1>11. ASSUME NEW a \in Admins, DecryptsAll(a)
      PROVE  LookedUp'
  BY <1>11 DEF DecryptsAll
<1>12. ASSUME NEW a \in Admins, Reencrypts(a)
      PROVE  LookedUp'
  BY <1>12 DEF Reencrypts
<1>13. ASSUME NEW a \in Admins, SwapsVault(a)
      PROVE  LookedUp'
  BY <1>13 DEF SwapsVault, RowsLeft
<1>14. CASE Installs
  BY <1>14 DEF Installs
<1>15. CASE Restarts
  BY <1>15 DEF Restarts, NoLookup
<1>16. CASE UNCHANGED vaultVars
  BY <1>16 DEF vaultVars
<1> QED
  BY <1>1, <1>2, <1>3, <1>4, <1>5, <1>6, <1>7, <1>8, <1>9, <1>10, <1>11, <1>12, <1>13, <1>14, <1>15, <1>16 DEF VaultNext

\* Every step keeps a panel that waits for a rotation one that has it under way.
LEMMA PanelKept ==
    ASSUME VaultTypeOK, PanelIsFreed, [VaultNext]_vaultVars
    PROVE  PanelIsFreed'
<1> USE VaultAssumption DEF VaultTypeOK, PanelIsFreed
<1>1. ASSUME NEW c \in Creds, Adds(c)
      PROVE  PanelIsFreed'
  BY <1>1 DEF Adds
<1>2. ASSUME NEW c \in Creds, Revokes(c)
      PROVE  PanelIsFreed'
  BY <1>2 DEF Revokes
<1>3. ASSUME NEW x \in Lookups, Reads(x)
      PROVE  PanelIsFreed'
  BY <1>3 DEF Reads
<1>4. ASSUME NEW x \in Lookups, Resolves(x)
      PROVE  PanelIsFreed'
  BY <1>4 DEF Resolves
<1>5. ASSUME NEW x \in Lookups, LooksAgain(x)
      PROVE  PanelIsFreed'
  BY <1>5 DEF LooksAgain
<1>6. ASSUME NEW a \in Admins, Generates(a)
      PROVE  PanelIsFreed'
  BY <1>6 DEF Generates
<1>7. ASSUME NEW a \in Admins, Cancels(a)
      PROVE  PanelIsFreed'
  BY <1>7 DEF Cancels
<1>8. ASSUME NEW a \in Admins, ConfirmsRotate(a)
      PROVE  PanelIsFreed'
  BY <1>8 DEF ConfirmsRotate
<1>9. ASSUME NEW a \in Admins, RotateReturns(a)
      PROVE  PanelIsFreed'
  BY <1>9 DEF RotateReturns
<1>10. ASSUME NEW a \in Admins, RotateLost(a)
      PROVE  PanelIsFreed'
  BY <1>10 DEF RotateLost
<1>11. ASSUME NEW a \in Admins, DecryptsAll(a)
      PROVE  PanelIsFreed'
  BY <1>11 DEF DecryptsAll
<1>12. ASSUME NEW a \in Admins, Reencrypts(a)
      PROVE  PanelIsFreed'
  BY <1>12 DEF Reencrypts
<1>13. ASSUME NEW a \in Admins, SwapsVault(a)
      PROVE  PanelIsFreed'
  BY <1>13 DEF SwapsVault
<1>14. CASE Installs
  BY <1>14 DEF Installs
<1>15. CASE Restarts
  BY <1>15 DEF Restarts
<1>16. CASE UNCHANGED vaultVars
  BY <1>16 DEF vaultVars
<1> QED
  BY <1>1, <1>2, <1>3, <1>4, <1>5, <1>6, <1>7, <1>8, <1>9, <1>10, <1>11, <1>12, <1>13, <1>14, <1>15, <1>16 DEF VaultNext

THEOREM VaultInvariant == VaultSpec => []VaultInv
<1>1. VaultInv /\ [VaultNext]_vaultVars => VaultInv'
  BY TypesKept, RotatingKept, LookedUpKept, PanelKept DEF VaultInv
<1> QED
  BY VaultInitial, <1>1, PTL DEF VaultSpec

\* The variables of the vault and its panels keep their types.
THEOREM VaultTyped == VaultSpec => []VaultTypeOK
<1>1. VaultInv => VaultTypeOK
  BY DEF VaultInv
<1> QED
  BY VaultInvariant, <1>1, PTL

\* A rotation that met no addition, rotation or restart is all or nothing.
THEOREM RotationIsWhole == VaultSpec => []AllReadable
<1>1. VaultInv => AllReadable
  BY DEF VaultInv, Rotating, AllReadable, InRotation
<1> QED
  BY VaultInvariant, <1>1, PTL

\* A key is resolved unless a rotation was met.
THEOREM LookupsResolve == VaultSpec => []KeyIsResolved
<1>1. VaultInv => KeyIsResolved
  BY DEF VaultInv, LookedUp, KeyIsResolved
<1> QED
  BY VaultInvariant, <1>1, PTL

\* No panel waits for a rotation that is over.
THEOREM PanelsAreFreed == VaultSpec => []PanelIsFreed
<1>1. VaultInv => PanelIsFreed
  BY DEF VaultInv
<1> QED
  BY VaultInvariant, <1>1, PTL

\* A rotation is refused only when it met an addition, a rotation or a restart:
\* only its own check of the rows and a restart refuse it.
THEOREM RotationsSucceed == VaultSpec => RotationSucceeds
<1>1. VaultInv /\ [VaultNext]_vaultVars =>
        [\A a \in Admins : (rotation[a] = "reading" /\ rotation'[a] = "refused") => mixed']_vaultVars
  <2> SUFFICES ASSUME VaultInv, VaultNext, NEW a \in Admins,
                      rotation[a] = "reading", rotation'[a] = "refused"
               PROVE  mixed'
    OBVIOUS
  <2>1. rotation \in [Admins -> {"no", "reading", "writing", "done", "refused"}]
    BY DEF VaultInv, VaultTypeOK
  <2>2. ASSUME NEW b \in Admins, DecryptsAll(b) PROVE mixed'
    BY <2>1, <2>2 DEF DecryptsAll, AllDecrypt, Decrypts, VaultInv, Rotating, InRotation
  <2>3. CASE Restarts
    BY <2>1, <2>3 DEF Restarts, InRotation
  <2>4. ASSUME NEW b \in Admins, ConfirmsRotate(b) \/ RotateReturns(b) \/ SwapsVault(b) PROVE mixed'
    BY <2>1, <2>4 DEF ConfirmsRotate, RotateReturns, SwapsVault
  <2>5. CASE UNCHANGED rotation
    BY <2>5
  <2>6. ASSUME NEW b \in Admins, Generates(b) \/ Cancels(b) \/ RotateLost(b) \/ Reencrypts(b)
        PROVE  UNCHANGED rotation
    BY <2>6 DEF Generates, Cancels, RotateLost, Reencrypts
  <2>7. ASSUME NEW c \in Creds, Adds(c) \/ Revokes(c) PROVE UNCHANGED rotation
    BY <2>7 DEF Adds, Revokes
  <2>8. ASSUME NEW x \in Lookups, Reads(x) \/ Resolves(x) \/ LooksAgain(x) PROVE UNCHANGED rotation
    BY <2>8 DEF Reads, Resolves, LooksAgain
  <2>9. ASSUME Installs PROVE UNCHANGED rotation
    BY <2>9 DEF Installs
  <2> QED
    BY <2>2, <2>3, <2>4, <2>5, <2>6, <2>7, <2>8, <2>9 DEF VaultNext
<1> QED
  BY VaultInvariant, <1>1, PTL DEF VaultSpec, RotationSucceeds

-----------------------------------------------------------------------------
(* Recursion *)

\* Of numbers one is the least.
LEMMA LeastNat ==
    ASSUME NEW S \in SUBSET Nat, S # {}
    PROVE  \E i \in S : \A j \in S : i <= j
<1> DEFINE R == OpToRel(<, Nat)
<1>1. IsWellFoundedOn(R, Nat)
  BY NatLessThanWellFounded
<1>2. PICK i \in S : \A j \in S : <<j, i>> \notin R
  <2> HIDE DEF R
  <2> QED
    BY <1>1, WFMin
<1>3. \A j \in S : ~(j < i)
  BY <1>2 DEF OpToRel
<1> QED
  BY <1>3

\* Induction for a set of numbers.
LEMMA FromZero ==
    ASSUME NEW S, 0 \in S, \A n \in Nat : n \in S => n + 1 \in S
    PROVE  \A n \in Nat : n \in S
<1> DEFINE R == Nat \ S
<1> SUFFICES ASSUME R # {} PROVE FALSE
  OBVIOUS
<1>1. PICK i \in R : \A j \in R : i <= j
  <2>1. R \in SUBSET Nat
    OBVIOUS
  <2> HIDE DEF R
  <2> QED
    BY <2>1, LeastNat
<1>2. i \in Nat /\ i \notin S /\ i # 0
  OBVIOUS
<1>3. i - 1 \in Nat /\ i - 1 < i /\ i - 1 \notin R
  BY <1>1, <1>2
<1>4. (i - 1) + 1 \in S
  BY <1>3
<1> QED
  BY <1>2, <1>4

\* A recursion to something smaller, and a function that solves it.
Descends(D, V, size, B, base, next, step) ==
    /\ size \in [D -> Nat] /\ base \in [D -> V]
    /\ next \in [D -> D] /\ step \in [D -> [V -> V]]
    /\ \A s \in D : s \notin B => size[next[s]] < size[s]

Solves(f, D, V, B, base, next, step) ==
    /\ f \in [D -> V]
    /\ \A s \in D : f[s] = IF s \in B THEN base[s] ELSE step[s][f[next[s]]]

\* A recursion to something smaller defines a function.
LEMMA SolutionExists ==
    ASSUME NEW D, NEW V, NEW size, NEW B, NEW base, NEW next, NEW step,
           Descends(D, V, size, B, base, next, step)
    PROVE  \E f : Solves(f, D, V, B, base, next, step)
<1>0. /\ size \in [D -> Nat] /\ base \in [D -> V]
      /\ next \in [D -> D] /\ step \in [D -> [V -> V]]
      /\ \A s \in D : s \notin B => size[next[s]] < size[s]
  BY DEF Descends
<1> USE <1>0
<1> DEFINE Below(m) == {s \in D : size[s] < m}
           Sol(m) == {f \in [Below(m) -> V] :
                        \A s \in Below(m) : f[s] = IF s \in B THEN base[s] ELSE step[s][f[next[s]]]}
           S == {m \in Nat : Sol(m) # {}}
<1>1. ASSUME NEW m \in Nat, NEW s \in Below(m), s \notin B
      PROVE  next[s] \in Below(m)
  BY <1>1
<1>2. ASSUME NEW m \in Nat, NEW k \in Nat, NEW f \in Sol(m), NEW g \in Sol(k)
      PROVE  \A s \in Below(m) \cap Below(k) : f[s] = g[s]
  <2> DEFINE Bad == {n \in Nat : \E s \in Below(m) \cap Below(k) : size[s] = n /\ f[s] # g[s]}
  <2>1. Bad = {}
    <3> SUFFICES ASSUME Bad # {} PROVE FALSE
      OBVIOUS
    <3>1. PICK n \in Bad : \A j \in Bad : n <= j
      <4>1. Bad \in SUBSET Nat
        OBVIOUS
      <4> HIDE DEF Bad
      <4> QED
        BY <4>1, LeastNat
    <3>2. PICK s \in Below(m) \cap Below(k) : size[s] = n /\ f[s] # g[s]
      OBVIOUS
    <3>3. CASE s \in B
      BY <3>2, <3>3
    <3>4. CASE s \notin B
      <4>1. next[s] \in Below(m) \cap Below(k) /\ size[next[s]] < n /\ size[next[s]] \in Nat
        BY <1>1, <3>2, <3>4
      <4>2. size[next[s]] \notin Bad
        <5>1. n \in Nat
          OBVIOUS
        <5> HIDE DEF Bad
        <5> QED
          BY <3>1, <4>1, <5>1
      <4>3. f[next[s]] = g[next[s]]
        BY <4>1, <4>2
      <4> QED
        BY <3>2, <3>4, <4>3
    <3> QED
      BY <3>3, <3>4
  <2> QED
    BY <2>1
<1>3. 0 \in S
  <2>1. Below(0) = {}
    OBVIOUS
  <2>2. [s \in {} |-> base[s]] \in Sol(0)
    BY <2>1
  <2> QED
    BY <2>2
<1>4. ASSUME NEW m \in Nat, m \in S
      PROVE  m + 1 \in S
  <2>1. PICK f : f \in Sol(m)
    BY <1>4
  <2> DEFINE g == [s \in Below(m + 1) |-> IF s \in B THEN base[s] ELSE step[s][f[next[s]]]]
  <2>2. \A s \in Below(m) : s \in Below(m + 1)
    BY SMT
  <2>3. \A s \in Below(m) : g[s] = f[s]
    BY <2>1, <2>2
  <2>4. \A s \in Below(m + 1) : s \notin B => next[s] \in Below(m)
    BY SMT
  <2>5. \A s \in Below(m) : f[s] \in V
    BY <2>1
  <2>6. g \in [Below(m + 1) -> V]
    BY <2>4, <2>5
  <2>7. \A s \in Below(m + 1) : g[s] = IF s \in B THEN base[s] ELSE step[s][g[next[s]]]
    BY <2>3, <2>4
  <2>8. g \in Sol(m + 1)
    <3> HIDE DEF g
    <3> QED
      BY <2>6, <2>7
  <2> HIDE DEF Sol, g
  <2> QED
    BY <2>8
<1>5. \A m \in Nat : Sol(m) # {}
  <2>1. \A m \in Nat : m \in S
    <3> HIDE DEF S
    <3> QED
      BY <1>3, <1>4, FromZero
  <2> QED
    BY <2>1
<1> DEFINE sol == [m \in Nat |-> CHOOSE f \in Sol(m) : TRUE]
           h == [s \in D |-> sol[size[s] + 1][s]]
<1>6. \A m \in Nat : sol[m] \in Sol(m)
  <2> HIDE DEF Sol
  <2> QED
    BY <1>5
<1>7. ASSUME NEW s \in D
      PROVE  size[s] + 1 \in Nat /\ s \in Below(size[s] + 1) /\ h[s] = sol[size[s] + 1][s]
  BY SMT
<1> HIDE DEF sol
<1>8. h \in [D -> V]
  <2>1. ASSUME NEW s \in D
        PROVE  sol[size[s] + 1][s] \in V
    <3> DEFINE m == size[s] + 1
               f == sol[m]
    <3>1. m \in Nat /\ f \in Sol(m) /\ s \in Below(m)
      BY <1>6, <1>7
    <3> HIDE DEF m, f
    <3>2. f[s] \in V
      BY <3>1
    <3> QED
      BY <3>2 DEF m, f
  <2> QED
    BY <2>1
<1>9. ASSUME NEW s \in D
      PROVE  h[s] = IF s \in B THEN base[s] ELSE step[s][h[next[s]]]
  <2> DEFINE m == size[s] + 1
             f == sol[m]
  <2>1. m \in Nat /\ f \in Sol(m) /\ s \in Below(m) /\ h[s] = f[s]
    BY <1>6, <1>7
  <2>2. f[s] = IF s \in B THEN base[s] ELSE step[s][f[next[s]]]
    <3> HIDE DEF m, f
    <3> QED
      BY <2>1
  <2>3. ASSUME s \notin B
        PROVE  h[next[s]] = f[next[s]]
    <3> DEFINE t == next[s]
               k == size[t] + 1
               g == sol[k]
    <3>1. t \in D /\ t \in Below(m)
      <4> HIDE DEF m, f, h
      <4> QED
        BY <1>1, <2>1, <2>3
    <3>2. k \in Nat /\ g \in Sol(k) /\ t \in Below(k) /\ h[t] = g[t]
      <4> HIDE DEF m, f, t
      <4> QED
        BY <1>6, <1>7, <3>1
    <3> HIDE DEF m, f, k, g, h, t, Sol, Below
    <3>3. f[t] = g[t]
      BY <1>2, <2>1, <3>1, <3>2
    <3> QED
      BY <3>2, <3>3 DEF t
  <2> HIDE DEF m, f, h
  <2> QED
    BY <2>1, <2>2, <2>3
<1>10. Solves(h, D, V, B, base, next, step)
  <2> HIDE DEF h
  <2> QED
    BY <1>8, <1>9 DEF Solves
<1> QED
  BY <1>10

\* Of the elements of a set that has a size, all have what each has when the
\* smaller ones do.
LEMMA BySize ==
    ASSUME NEW D, NEW size \in [D -> Nat], NEW T,
           \A s \in D : (\A t \in D : size[t] < size[s] => t \in T) => s \in T
    PROVE  \A s \in D : s \in T
<1> DEFINE Bad == {n \in Nat : \E s \in D : size[s] = n /\ s \notin T}
<1>1. Bad = {}
  <2> SUFFICES ASSUME Bad # {} PROVE FALSE
    OBVIOUS
  <2>1. PICK n \in Bad : \A j \in Bad : n <= j
    <3>1. Bad \in SUBSET Nat
      OBVIOUS
    <3> HIDE DEF Bad
    <3> QED
      BY <3>1, LeastNat
  <2>2. PICK s \in D : size[s] = n /\ s \notin T
    OBVIOUS
  <2>3. ASSUME NEW t \in D, size[t] < size[s]
        PROVE  t \in T
    <3>1. size[t] \in Nat /\ size[t] < n /\ n \in Nat
      BY <2>2, <2>3
    <3>2. size[t] \notin Bad
      <4> HIDE DEF Bad
      <4> QED
        BY <2>1, <3>1
    <3> QED
      BY <3>1, <3>2
  <2> QED
    BY <2>2, <2>3
<1> QED
  BY <1>1

-----------------------------------------------------------------------------
(* The decoder, the splitter and the parser are functions *)

LEMMA OneInSeq ==
    ASSUME NEW S, NEW x \in S
    PROVE  <<x>> \in Seq(S) /\ Len(<<x>>) = 1 /\ <<x>>[1] = x /\ <<x>> # << >>
OBVIOUS

Kinds == {"open", "hi", "lo", "char", "garbled", "close", "ping", "cr", "lf"}

LEMMA BytesAre ==
    /\ \A c \in Kinds, n \in Nat : Byte(c, n) \in Symbols
    /\ CR \in Symbols /\ LF \in Symbols
    /\ EndOfFrame \in Seq(Symbols) /\ PingFrame \in Seq(Symbols)
    /\ \A n \in Nat : Json(n) \in Seq(Symbols) /\ EventFrame(n) \in Seq(Symbols)
<1>1. \A c \in Kinds, n \in Nat : Byte(c, n) \in Symbols
  BY DEF Byte, Symbols, Kinds
<1>2. CR \in Symbols /\ LF \in Symbols
  BY <1>1 DEF CR, LF, Kinds
<1>3. EndOfFrame \in Seq(Symbols)
  BY <1>2 DEF EndOfFrame
<1>4. PingFrame \in Seq(Symbols)
  <2>1. Byte("ping", 0) \in Symbols
    BY <1>1 DEF Kinds
  <2>2. <<Byte("ping", 0)>> \in Seq(Symbols)
    BY <2>1, OneInSeq
  <2> QED
    BY <1>3, <2>2, ConcatProperties DEF PingFrame
<1>5. ASSUME NEW n \in Nat
      PROVE  Json(n) \in Seq(Symbols) /\ EventFrame(n) \in Seq(Symbols)
  <2> DEFINE a == Byte("open", n)
             b == Byte("hi", n)
             c == Byte("lo", n)
             d == Byte("close", n)
             e == Byte("char", n)
  <2>1. a \in Symbols /\ b \in Symbols /\ c \in Symbols /\ d \in Symbols /\ e \in Symbols
    BY <1>1 DEF Kinds
  <2>2. Json(n) = <<a, e, d>> /\ EventFrame(n) = <<a, b, c, d>> \o EndOfFrame
    BY DEF Json, EventFrame
  <2> HIDE DEF a, b, c, d, e
  <2>3. <<a, e, d>> \in Seq(Symbols) /\ <<a, b, c, d>> \in Seq(Symbols)
    BY <2>1
  <2> QED
    BY <1>3, <2>2, <2>3, ConcatProperties
<1> QED
  BY <1>1, <1>2, <1>3, <1>4, <1>5

\* The byte after the first, as far as the decoder has it.
SecondByte(b) == IF Len(b) > 1 THEN b[2] ELSE CR

LEMMA DecodedIs ==
    ASSUME NEW b \in Symbols, NEW next
    PROVE  Decoded(b, next) \in Seq(Symbols)
<1> DEFINE x == Byte("char", b.n)
           y == Byte("garbled", b.n)
<1>1. x \in Symbols /\ y \in Symbols
  BY DEF Byte, Symbols, Kinds
<1>2. Decoded(b, next) = IF b.c = "hi" THEN (IF next.c = "lo" THEN <<x>> ELSE <<y>>)
                         ELSE IF b.c = "lo" THEN << >> ELSE <<b>>
  BY DEF Decoded
<1> HIDE DEF x, y
<1>3. <<x>> \in Seq(Symbols) /\ <<y>> \in Seq(Symbols) /\ <<b>> \in Seq(Symbols) /\ << >> \in Seq(Symbols)
  BY <1>1
<1> QED
  BY <1>2, <1>3

\* A function that joins what it finds at each tail of a sequence.
JoinsTails(f, S, A) ==
    /\ f = [s \in Seq(S) |-> f[s]]
    /\ \A s \in Seq(S) : f[s] = IF s = << >> THEN << >> ELSE A[s] \o f[Tail(s)]

\* There is one, and it is a function to sequences.
LEMMA TailsJoin ==
    ASSUME NEW S, NEW W, NEW A, \A s \in Seq(S) : s # << >> => A[s] \in Seq(W)
    PROVE  /\ \E f : JoinsTails(f, S, A)
           /\ \A g : JoinsTails(g, S, A) => g \in [Seq(S) -> Seq(W)]
<1> DEFINE D == Seq(S)
           V == Seq(W)
           size == [s \in D |-> Len(s)]
           B == {<< >>}
           base == [s \in D |-> << >>]
           next == [s \in D |-> IF s = << >> THEN << >> ELSE Tail(s)]
           step == [s \in D |-> [v \in V |-> IF s = << >> THEN v ELSE A[s] \o v]]
<1>0. << >> \in D /\ << >> \in V
  OBVIOUS
<1>1. size \in [D -> Nat] /\ base \in [D -> V]
  BY <1>0, LenProperties
<1>2. \A s \in D : s # << >> => Tail(s) \in D /\ Len(Tail(s)) < Len(s) /\ Len(Tail(s)) \in Nat
  <2> SUFFICES ASSUME NEW s \in D, s # << >>
               PROVE  Tail(s) \in D /\ Len(Tail(s)) < Len(s) /\ Len(Tail(s)) \in Nat
    OBVIOUS
  <2> QED
    OBVIOUS
<1>3. next \in [D -> D]
  BY <1>0, <1>2
<1>4. step \in [D -> [V -> V]]
  <2>1. ASSUME NEW s \in D, s # << >>, NEW v \in V
        PROVE  A[s] \o v \in V
    BY <2>1, ConcatProperties
  <2> HIDE DEF D, V
  <2> QED
    BY <2>1
<1>5. \A s \in D : s \notin B => size[next[s]] < size[s]
  BY <1>2
<1>6. \E f : Solves(f, D, V, B, base, next, step)
  <2> HIDE DEF D, V, size, B, base, next, step
  <2>1. Descends(D, V, size, B, base, next, step)
    BY <1>1, <1>3, <1>4, <1>5 DEF Descends
  <2> QED
    BY <2>1, SolutionExists
<1>7. \E f : JoinsTails(f, S, A)
  <2>1. PICK f \in [D -> V] : \A s \in D : f[s] = IF s \in B THEN base[s] ELSE step[s][f[next[s]]]
    <3> HIDE DEF D, V, size, B, base, next, step
    <3> QED
      BY <1>6 DEF Solves
  <2>2. ASSUME NEW s \in D
        PROVE  f[s] = IF s = << >> THEN << >> ELSE A[s] \o f[Tail(s)]
    <3> HIDE DEF D, V
    <3> QED
      BY <1>2, <2>1
  <2>3. JoinsTails(f, S, A)
    <3> HIDE DEF V
    <3> QED
      BY <2>1, <2>2 DEF JoinsTails
  <2> QED
    BY <2>3
<1>8. ASSUME NEW g, JoinsTails(g, S, A)
      PROVE  g \in [Seq(S) -> Seq(W)]
  <2> DEFINE T == {s \in D : g[s] \in V}
  <2>1. \A s \in D : g[s] = IF s = << >> THEN << >> ELSE A[s] \o g[Tail(s)]
    BY <1>8 DEF JoinsTails
  <2>2. ASSUME NEW s \in D, \A t \in D : size[t] < size[s] => t \in T
        PROVE  s \in T
    <3>1. CASE s = << >>
      BY <1>0, <2>1, <3>1
    <3>2. CASE s # << >>
      <4>1. Tail(s) \in T
        <5>1. Tail(s) \in D /\ size[Tail(s)] < size[s]
          BY <1>2, <3>2
        <5> HIDE DEF T, D, size
        <5> QED
          BY <2>2, <5>1
      <4>2. A[s] \o g[Tail(s)] \in V
        BY <3>2, <4>1, ConcatProperties
      <4> HIDE DEF V
      <4> QED
        BY <2>1, <3>2, <4>2
    <3> QED
      BY <3>1, <3>2
  <2>3. \A s \in D : s \in T
    <3> HIDE DEF T, D, size
    <3> QED
      BY <1>1, <2>2, BySize
  <2>4. \A s \in D : g[s] \in V
    BY <2>3
  <2>5. g = [s \in D |-> g[s]]
    BY <1>8 DEF JoinsTails
  <2> HIDE DEF D, V
  <2>6. g \in [D -> V]
    BY <2>4, <2>5
  <2> QED
    BY <2>6 DEF D, V
<1> QED
  BY <1>7, <1>8

LEMMA TextIs ==
    /\ Text \in [Seq(Symbols) -> Seq(Symbols)]
    /\ Text[<< >>] = << >>
    /\ \A b \in Seq(Symbols) : b # << >> => Text[b] = Decoded(b[1], SecondByte(b)) \o Text[Tail(b)]
<1> DEFINE D == Seq(Symbols)
           A == [b \in D |-> Decoded(b[1], SecondByte(b))]
           G(f) == f = [b \in D |-> IF b = << >> THEN << >> ELSE Decoded(b[1], SecondByte(b)) \o f[Tail(b)]]
<1>1. << >> \in D
  OBVIOUS
<1>2. \A b \in D : b # << >> => A[b] \in Seq(Symbols)
  <2> SUFFICES ASSUME NEW b \in D, b # << >> PROVE Decoded(b[1], SecondByte(b)) \in Seq(Symbols)
    OBVIOUS
  <2>1. b[1] \in Symbols
    OBVIOUS
  <2> QED
    BY <2>1, DecodedIs
<1>3. PICK f : JoinsTails(f, Symbols, A)
  <2> HIDE DEF A
  <2> QED
    BY <1>2, TailsJoin
<1>4. G(f)
  <2>1. f = [b \in D |-> f[b]] /\ \A b \in D : f[b] = IF b = << >> THEN << >> ELSE A[b] \o f[Tail(b)]
    BY <1>3 DEF JoinsTails
  <2> HIDE DEF D
  <2>2. \A b \in D : f[b] = IF b = << >> THEN << >> ELSE Decoded(b[1], SecondByte(b)) \o f[Tail(b)]
    BY <2>1
  <2> QED
    BY <2>1, <2>2
<1>5. Text = CHOOSE g : G(g)
  BY DEF Text, SecondByte
<1>6. G(Text)
  BY <1>4, <1>5
<1>7. PICK g : g = Text
  OBVIOUS
<1>8. JoinsTails(g, Symbols, A)
  <2>1. G(g)
    BY <1>6, <1>7
  <2>2. \A b \in D : g[b] = IF b = << >> THEN << >> ELSE A[b] \o g[Tail(b)]
    <3> HIDE DEF D
    <3> QED
      BY <2>1
  <2>3. g = [b \in D |-> g[b]]
    <3> HIDE DEF D
    <3> QED
      BY <2>1
  <2> HIDE DEF A
  <2> QED
    BY <2>2, <2>3 DEF JoinsTails
<1>9. g \in [Seq(Symbols) -> Seq(Symbols)]
  <2> HIDE DEF A
  <2> QED
    BY <1>2, <1>8, TailsJoin
<1>10. \A b \in D : g[b] = IF b = << >> THEN << >> ELSE Decoded(b[1], SecondByte(b)) \o g[Tail(b)]
  <2> HIDE DEF D
  <2> QED
    BY <1>6, <1>7
<1> QED
  BY <1>1, <1>7, <1>9, <1>10

-----------------------------------------------------------------------------
(* Where the splitter cuts *)

\* The first delimiter of a text, where it is, and what is before and after it.
First(s) == CHOOSE i \in Delimited(s) : \A j \in Delimited(s) : i <= j
Delim(s) == CHOOSE d \in FrameDelims : DelimAt(s, First(s), d)
Before(s) == SubSeq(s, 1, First(s) - 1)
After(s) == SubSeq(s, First(s) + Len(Delim(s)), Len(s))

LEMMA TwoLineEnds == CR # LF /\ CR.c = "cr" /\ LF.c = "lf"
BY DEF CR, LF, Byte

\* What a delimiter is, byte by byte.
LEMMA DelimIs ==
    ASSUME NEW s \in Seq(Symbols), NEW i \in 1..Len(s)
    PROVE  /\ DelimAt(s, i, <<CR, LF, CR, LF>>) <=>
                i + 3 <= Len(s) /\ s[i] = CR /\ s[i + 1] = LF /\ s[i + 2] = CR /\ s[i + 3] = LF
           /\ DelimAt(s, i, <<LF, LF>>) <=> i + 1 <= Len(s) /\ s[i] = LF /\ s[i + 1] = LF
           /\ DelimAt(s, i, <<CR, CR>>) <=> i + 1 <= Len(s) /\ s[i] = CR /\ s[i + 1] = CR
<1> DEFINE a == CR
           b == LF
<1>0. Len(s) \in Nat /\ i \in Nat /\ i >= 1
  OBVIOUS
<1> HIDE DEF a, b
<1>1. Len(<<a, b, a, b>>) = 4 /\ Len(<<b, b>>) = 2 /\ Len(<<a, a>>) = 2
  OBVIOUS
<1>2. ASSUME i + 3 <= Len(s)
      PROVE  SubSeq(s, i, i + 3) = <<a, b, a, b>> <=> s[i] = a /\ s[i + 1] = b /\ s[i + 2] = a /\ s[i + 3] = b
  <2> DEFINE t == SubSeq(s, i, i + 3)
  <2>1. t \in Seq(Symbols) /\ Len(t) = 4 /\ t[1] = s[i] /\ t[2] = s[i + 1] /\ t[3] = s[i + 2] /\ t[4] = s[i + 3]
    <3>1. \A j \in i..(i + 3) : s[j] \in Symbols
      BY <1>0, <1>2
    <3>2. t \in Seq(Symbols) /\ Len(t) = 4 /\ \A j \in 1..4 : t[j] = s[i + j - 1]
      BY <1>0, <3>1, SubSeqProperties
    <3> HIDE DEF t
    <3> QED
      BY <1>0, <3>2
  <2> HIDE DEF t
  <2>2. t = <<t[1], t[2], t[3], t[4]>>
    BY <2>1
  <2>3. t = <<a, b, a, b>> <=> t[1] = a /\ t[2] = b /\ t[3] = a /\ t[4] = b
    BY <2>2
  <2> QED
    BY <2>1, <2>3 DEF t
<1>3. ASSUME i + 1 <= Len(s), NEW x
      PROVE  SubSeq(s, i, i + 1) = <<x, x>> <=> s[i] = x /\ s[i + 1] = x
  <2> DEFINE t == SubSeq(s, i, i + 1)
  <2>1. t \in Seq(Symbols) /\ Len(t) = 2 /\ t[1] = s[i] /\ t[2] = s[i + 1]
    <3>1. \A j \in i..(i + 1) : s[j] \in Symbols
      BY <1>0, <1>3
    <3>2. t \in Seq(Symbols) /\ Len(t) = 2 /\ \A j \in 1..2 : t[j] = s[i + j - 1]
      BY <1>0, <3>1, SubSeqProperties
    <3> HIDE DEF t
    <3> QED
      BY <1>0, <3>2
  <2> HIDE DEF t
  <2>2. t = <<t[1], t[2]>>
    BY <2>1
  <2>3. t = <<x, x>> <=> t[1] = x /\ t[2] = x
    BY <2>2
  <2> QED
    BY <2>1, <2>3 DEF t
<1>4. i + 4 - 1 = i + 3 /\ i + 2 - 1 = i + 1
  BY <1>0
<1>5. DelimAt(s, i, <<a, b, a, b>>) <=> i + 3 <= Len(s) /\ s[i] = a /\ s[i + 1] = b /\ s[i + 2] = a /\ s[i + 3] = b
  BY <1>1, <1>2, <1>4 DEF DelimAt
<1>6. DelimAt(s, i, <<b, b>>) <=> i + 1 <= Len(s) /\ s[i] = b /\ s[i + 1] = b
  BY <1>1, <1>3, <1>4 DEF DelimAt
<1>7. DelimAt(s, i, <<a, a>>) <=> i + 1 <= Len(s) /\ s[i] = a /\ s[i + 1] = a
  BY <1>1, <1>3, <1>4 DEF DelimAt
<1> QED
  BY <1>5, <1>6, <1>7 DEF a, b

LEMMA FirstIs ==
    ASSUME NEW s \in Seq(Symbols), Delimited(s) # {}
    PROVE  /\ First(s) \in 1..Len(s) /\ First(s) \in Delimited(s)
           /\ \A j \in Delimited(s) : First(s) <= j
           /\ Delim(s) \in FrameDelims /\ DelimAt(s, First(s), Delim(s))
<1>1. Delimited(s) \in SUBSET Nat /\ Delimited(s) \subseteq 1..Len(s)
  BY DEF Delimited
<1>2. \E i \in Delimited(s) : \A j \in Delimited(s) : i <= j
  <2> DEFINE S == Delimited(s)
  <2> HIDE DEF S
  <2>1. S \in SUBSET Nat /\ S # {}
    BY <1>1 DEF S
  <2>2. \E i \in S : \A j \in S : i <= j
    BY <2>1, LeastNat
  <2> QED
    BY <2>2 DEF S
<1>3. First(s) \in Delimited(s) /\ \A j \in Delimited(s) : First(s) <= j
  BY <1>2 DEF First
<1>4. \E d \in FrameDelims : DelimAt(s, First(s), d)
  BY <1>3 DEF Delimited
<1>5. Delim(s) \in FrameDelims /\ DelimAt(s, First(s), Delim(s))
  BY <1>4 DEF Delim
<1> QED
  BY <1>1, <1>3, <1>5

LEMMA DelimsAre ==
    ASSUME NEW d \in FrameDelims
    PROVE  /\ d \in Seq(Symbols) /\ Len(d) \in {2, 4}
           /\ d = <<CR, LF, CR, LF>> \/ d = <<LF, LF>> \/ d = <<CR, CR>>
<1>1. CR \in Symbols /\ LF \in Symbols
  BY BytesAre
<1>2. d = <<CR, LF, CR, LF>> \/ d = <<LF, LF>> \/ d = <<CR, CR>>
  BY DEF FrameDelims
<1> DEFINE a == CR
           b == LF
<1> HIDE DEF a, b
<1>3. a \in Symbols /\ b \in Symbols /\ (d = <<a, b, a, b>> \/ d = <<b, b>> \/ d = <<a, a>>)
  BY <1>1, <1>2 DEF a, b
<1>4. /\ <<a, b, a, b>> \in Seq(Symbols) /\ Len(<<a, b, a, b>>) = 4
      /\ \A x \in Symbols : <<x, x>> \in Seq(Symbols) /\ Len(<<x, x>>) = 2
  BY <1>3
<1>5. d \in Seq(Symbols) /\ (Len(d) = 2 \/ Len(d) = 4)
  <2>1. CASE d = <<a, b, a, b>>
    BY <1>4, <2>1
  <2>2. CASE d # <<a, b, a, b>>
    BY <1>3, <1>4, <2>2
  <2> QED
    BY <2>1, <2>2
<1> QED
  BY <1>2, <1>5

LEMMA PartsAre ==
    ASSUME NEW s \in Seq(Symbols), Delimited(s) # {}
    PROVE  /\ Before(s) \in Seq(Symbols) /\ Len(Before(s)) = First(s) - 1
           /\ After(s) \in Seq(Symbols) /\ Len(After(s)) = Len(s) - (First(s) + Len(Delim(s)) - 1)
           /\ Len(After(s)) < Len(s)
           /\ First(s) + Len(Delim(s)) - 1 <= Len(s)
<1> DEFINE i == First(s)
           d == Delim(s)
           k == Len(d)
<1>1. i \in 1..Len(s) /\ d \in FrameDelims /\ i + k - 1 <= Len(s)
  BY FirstIs DEF DelimAt
<1>2. k \in {2, 4}
  BY <1>1, DelimsAre
<1>3. Before(s) = SubSeq(s, 1, i - 1) /\ After(s) = SubSeq(s, i + k, Len(s))
  BY DEF Before, After
<1> HIDE DEF i, d, k
<1>4. SubSeq(s, 1, i - 1) \in Seq(Symbols) /\ Len(SubSeq(s, 1, i - 1)) = i - 1
  BY <1>1, SubSeqProperties
<1>5. SubSeq(s, i + k, Len(s)) \in Seq(Symbols) /\ Len(SubSeq(s, i + k, Len(s))) = Len(s) - (i + k - 1)
  BY <1>1, <1>2, SubSeqProperties
<1>6. Len(s) \in Nat /\ Len(s) - (i + k - 1) < Len(s)
  BY <1>1, <1>2
<1> QED
  BY <1>1, <1>3, <1>4, <1>5, <1>6 DEF i, d, k

Cuts == [frames : Seq(Seq(Symbols)), rest : Seq(Symbols)]

\* A frame before the others.
CutOff(frame, v) == [frames |-> <<frame>> \o v.frames, rest |-> v.rest]

LEMMA SplitIs ==
    /\ Split \in [Seq(Symbols) -> Cuts]
    /\ \A s \in Seq(Symbols) : Delimited(s) = {} => Split[s] = [frames |-> << >>, rest |-> s]
    /\ \A s \in Seq(Symbols) : Delimited(s) # {} => Split[s] = CutOff(Before(s), Split[After(s)])
<1> DEFINE D == Seq(Symbols)
           V == Cuts
           size == [s \in D |-> Len(s)]
           B == {s \in D : Delimited(s) = {}}
           base == [s \in D |-> [frames |-> << >>, rest |-> s]]
           next == [s \in D |-> IF s \in B THEN s ELSE After(s)]
           step == [s \in D |-> [v \in V |-> IF s \in B THEN v ELSE CutOff(Before(s), v)]]
           G(f) == f = [s \in D |-> IF Delimited(s) = {} THEN [frames |-> << >>, rest |-> s]
                                    ELSE CutOff(Before(s), f[After(s)])]
<1>1. size \in [D -> Nat]
  BY LenProperties
<1>2. ASSUME NEW s \in D
      PROVE  [frames |-> << >>, rest |-> s] \in V
  <2>1. << >> \in Seq(Seq(Symbols))
    OBVIOUS
  <2> QED
    BY <2>1 DEF Cuts
<1>3. ASSUME NEW s \in D, Delimited(s) # {}, NEW v \in V
      PROVE  CutOff(Before(s), v) \in V
  <2>1. Before(s) \in Seq(Symbols)
    BY <1>3, PartsAre
  <2>2. <<Before(s)>> \in Seq(Seq(Symbols))
    BY <2>1, OneInSeq
  <2>3. v.frames \in Seq(Seq(Symbols)) /\ v.rest \in Seq(Symbols)
    BY DEF Cuts
  <2>4. <<Before(s)>> \o v.frames \in Seq(Seq(Symbols))
    BY <2>2, <2>3, ConcatProperties
  <2> QED
    BY <2>3, <2>4 DEF Cuts, CutOff
<1>4. ASSUME NEW s \in D, Delimited(s) # {}
      PROVE  After(s) \in D /\ Len(After(s)) < Len(s) /\ Len(After(s)) \in Nat
  BY <1>4, PartsAre, LenProperties
<1>5. base \in [D -> V]
  BY <1>2
<1>6. next \in [D -> D]
  <2> HIDE DEF D
  <2> QED
    BY <1>4
<1>7. step \in [D -> [V -> V]]
  <2> HIDE DEF D, V
  <2> QED
    BY <1>3
<1>8. \A s \in D : s \notin B => size[next[s]] < size[s]
  BY <1>4
<1>9. \E f : Solves(f, D, V, B, base, next, step)
  <2> HIDE DEF D, V, size, B, base, next, step
  <2>1. Descends(D, V, size, B, base, next, step)
    BY <1>1, <1>5, <1>6, <1>7, <1>8 DEF Descends
  <2> QED
    BY <2>1, SolutionExists
<1>10. PICK f \in [D -> V] : \A s \in D : f[s] = IF s \in B THEN base[s] ELSE step[s][f[next[s]]]
  <2> HIDE DEF D, V, size, B, base, next, step
  <2> QED
    BY <1>9 DEF Solves
<1>11. ASSUME NEW s \in D
       PROVE  f[s] = IF Delimited(s) = {} THEN [frames |-> << >>, rest |-> s]
                     ELSE CutOff(Before(s), f[After(s)])
  <2> HIDE DEF D, V
  <2> QED
    BY <1>4, <1>10
<1>12. G(f)
  <2> HIDE DEF D
  <2> QED
    BY <1>10, <1>11
<1>13. Split = CHOOSE g : G(g)
  BY DEF Split, First, Delim, Before, After, CutOff
<1>14. G(Split)
  BY <1>12, <1>13
<1>15. \A s \in D : Split[s] = IF Delimited(s) = {} THEN [frames |-> << >>, rest |-> s]
                               ELSE CutOff(Before(s), Split[After(s)])
  <2> HIDE DEF D
  <2> QED
    BY <1>14
<1> DEFINE T == {s \in D : Split[s] \in V}
<1>16. ASSUME NEW s \in D, \A t \in D : size[t] < size[s] => t \in T
       PROVE  s \in T
  <2>1. CASE Delimited(s) = {}
    BY <1>2, <1>15, <2>1
  <2>2. CASE Delimited(s) # {}
    <3>1. After(s) \in T
      <4>1. After(s) \in D /\ size[After(s)] < size[s]
        BY <1>4, <2>2
      <4> HIDE DEF T, D, size
      <4> QED
        BY <1>16, <4>1
    <3>2. CutOff(Before(s), Split[After(s)]) \in V
      BY <1>3, <2>2, <3>1
    <3> QED
      BY <1>15, <2>2, <3>2
  <2> QED
    BY <2>1, <2>2
<1>17. \A s \in D : s \in T
  <2> HIDE DEF T, D, size
  <2> QED
    BY <1>1, <1>16, BySize
<1>18. Split \in [D -> V]
  <2>1. Split = [s \in D |-> IF Delimited(s) = {} THEN [frames |-> << >>, rest |-> s]
                             ELSE CutOff(Before(s), Split[After(s)])]
    BY <1>14
  <2>2. \A s \in D : Split[s] \in V
    BY <1>17
  <2> HIDE DEF D, V
  <2> QED
    BY <2>1, <2>2
<1> HIDE DEF V
<1> QED
  BY <1>15, <1>18 DEF V

-----------------------------------------------------------------------------
(* The parser *)

LEMMA LineIs ==
    ASSUME NEW s \in Seq(Symbols)
    PROVE  /\ FirstLine(s) \in Seq(Symbols)
           /\ EventOf(s) \in Seq(Nat)
<1>1. FirstLine(s) \in Seq(Symbols)
  <2>1. CASE LineEnds(s) = {}
    BY <2>1 DEF FirstLine
  <2>2. CASE LineEnds(s) # {}
    <3> DEFINE E == LineEnds(s)
               i == CHOOSE i \in E : \A j \in E : i <= j
    <3>1. E \in SUBSET Nat /\ E \subseteq 1..Len(s) /\ E # {}
      BY <2>2 DEF LineEnds
    <3>2. FirstLine(s) = SubSeq(s, 1, i - 1)
      BY <2>2 DEF FirstLine
    <3> HIDE DEF E
    <3>3. i \in E
      BY <3>1, LeastNat
    <3> HIDE DEF i
    <3>4. i \in 1..Len(s)
      BY <3>1, <3>3
    <3> QED
      BY <3>2, <3>4, SubSeqProperties
  <2> QED
    BY <2>1, <2>2
<1>2. EventOf(s) \in Seq(Nat)
  <2> DEFINE line == FirstLine(s)
             m == IF line = Json(line[1].n) THEN line[1].n ELSE 0
  <2>1. line \in Seq(Symbols)
    BY <1>1
  <2>2. EventOf(s) = IF line = << >> \/ line[1].c # "open" \/ line[Len(line)].c # "close" THEN << >> ELSE <<m>>
    BY DEF EventOf
  <2>3. line # << >> => m \in Nat
    <3> HIDE DEF line
    <3>1. line # << >> => line[1] \in Symbols
      BY <2>1
    <3> QED
      BY <3>1 DEF Symbols
  <2> HIDE DEF m, line
  <2>4. line # << >> => <<m>> \in Seq(Nat)
    BY <2>3, OneInSeq
  <2>5. << >> \in Seq(Nat)
    OBVIOUS
  <2> QED
    BY <2>2, <2>4, <2>5
<1> QED
  BY <1>1, <1>2

LEMMA EventsIs ==
    /\ Events \in [Seq(Seq(Symbols)) -> Seq(Nat)]
    /\ Events[<< >>] = << >>
    /\ \A f \in Seq(Seq(Symbols)) : f # << >> => Events[f] = EventOf(f[1]) \o Events[Tail(f)]
<1> DEFINE D == Seq(Seq(Symbols))
           A == [b \in D |-> EventOf(b[1])]
           G(f) == f = [b \in D |-> IF b = << >> THEN << >> ELSE EventOf(b[1]) \o f[Tail(b)]]
<1>1. << >> \in D
  OBVIOUS
<1>2. \A b \in D : b # << >> => A[b] \in Seq(Nat)
  <2> SUFFICES ASSUME NEW b \in D, b # << >> PROVE EventOf(b[1]) \in Seq(Nat)
    OBVIOUS
  <2>1. b[1] \in Seq(Symbols)
    <3> DEFINE S == Seq(Symbols)
    <3> HIDE DEF S
    <3>1. b \in Seq(S)
      BY DEF S
    <3>2. b[1] \in S
      BY <3>1
    <3> QED
      BY <3>2 DEF S
  <2> QED
    BY <2>1, LineIs
<1>3. PICK f : JoinsTails(f, Seq(Symbols), A)
  <2> HIDE DEF A
  <2> QED
    BY <1>2, TailsJoin
<1>4. G(f)
  <2>1. f = [b \in D |-> f[b]] /\ \A b \in D : f[b] = IF b = << >> THEN << >> ELSE A[b] \o f[Tail(b)]
    BY <1>3 DEF JoinsTails
  <2> HIDE DEF D
  <2>2. \A b \in D : f[b] = IF b = << >> THEN << >> ELSE EventOf(b[1]) \o f[Tail(b)]
    BY <2>1
  <2> QED
    BY <2>1, <2>2
<1>5. Events = CHOOSE g : G(g)
  BY DEF Events
<1>6. G(Events)
  BY <1>4, <1>5
<1>7. PICK g : g = Events
  OBVIOUS
<1>8. JoinsTails(g, Seq(Symbols), A)
  <2>1. \A b \in D : g[b] = IF b = << >> THEN << >> ELSE A[b] \o g[Tail(b)]
    <3> HIDE DEF D
    <3> QED
      BY <1>6, <1>7
  <2>2. g = [b \in D |-> g[b]]
    <3> HIDE DEF D
    <3> QED
      BY <1>6, <1>7
  <2> HIDE DEF A
  <2> QED
    BY <2>1, <2>2 DEF JoinsTails
<1>9. g \in [Seq(Seq(Symbols)) -> Seq(Nat)]
  <2> HIDE DEF A
  <2> QED
    BY <1>2, <1>8, TailsJoin
<1>10. \A b \in D : g[b] = IF b = << >> THEN << >> ELSE EventOf(b[1]) \o g[Tail(b)]
  <2> HIDE DEF D
  <2> QED
    BY <1>6, <1>7
<1> QED
  BY <1>1, <1>7, <1>9, <1>10

-----------------------------------------------------------------------------
(* What is decoded, cut and parsed in two parts *)

LEMMA TailOfConcat ==
    ASSUME NEW S, NEW a \in Seq(S), NEW b \in Seq(S), a # << >>
    PROVE  /\ Tail(a \o b) = Tail(a) \o b /\ a \o b # << >>
           /\ (a \o b)[1] = a[1]
           /\ Tail(a) \in Seq(S) /\ Len(Tail(a)) < Len(a)
<1>1. Len(a) \in Nat /\ Len(a) >= 1 /\ Len(b) \in Nat
  OBVIOUS
<1>2. a \o b \in Seq(S) /\ Len(a \o b) = Len(a) + Len(b) /\ (a \o b)[1] = a[1] /\ a \o b # << >>
  BY <1>1, ConcatProperties
<1>3. Tail(a) \in Seq(S) /\ Len(Tail(a)) = Len(a) - 1
  BY HeadTailProperties
<1>4. Tail(a) \o b \in Seq(S) /\ Len(Tail(a) \o b) = Len(a) - 1 + Len(b)
  BY <1>3, ConcatProperties
<1>5. Tail(a \o b) \in Seq(S) /\ Len(Tail(a \o b)) = Len(a) + Len(b) - 1
  BY <1>2, HeadTailProperties
<1>6. ASSUME NEW i \in 1..(Len(a) + Len(b) - 1)
      PROVE  Tail(a \o b)[i] = (Tail(a) \o b)[i]
  <2>1. Tail(a \o b)[i] = (a \o b)[i + 1]
    BY <1>2, <1>5, HeadTailProperties
  <2>2. i + 1 \in 1..(Len(a) + Len(b)) /\ i \in 1..(Len(Tail(a)) + Len(b))
    BY <1>1, <1>3
  <2>3. (a \o b)[i + 1] = IF i + 1 <= Len(a) THEN a[i + 1] ELSE b[i + 1 - Len(a)]
    BY <2>2, ConcatProperties
  <2>4. (Tail(a) \o b)[i] = IF i <= Len(Tail(a)) THEN Tail(a)[i] ELSE b[i - Len(Tail(a))]
    BY <1>3, <2>2, ConcatProperties
  <2>5. CASE i + 1 <= Len(a)
    <3>1. i \in 1..Len(Tail(a))
      BY <1>1, <1>3, <2>5
    <3>2. Tail(a)[i] = a[i + 1]
      BY <3>1, HeadTailProperties
    <3> QED
      BY <2>1, <2>3, <2>4, <2>5, <3>1, <3>2
  <2>6. CASE ~(i + 1 <= Len(a))
    <3>1. ~(i <= Len(Tail(a))) /\ i + 1 - Len(a) = i - Len(Tail(a))
      BY <1>1, <1>3, <2>6
    <3> QED
      BY <2>1, <2>3, <2>4, <2>6, <3>1
  <2> QED
    BY <2>5, <2>6
<1>7. Tail(a \o b) = Tail(a) \o b
  BY <1>1, <1>4, <1>5, <1>6, SeqEqual
<1> QED
  BY <1>1, <1>2, <1>3, <1>7

\* No character is split between two parts.
Whole(a, b) == a # << >> /\ b # << >> => ~(a[Len(a)].c = "hi" /\ b[1].c = "lo")

LEMMA Rejoined ==
    ASSUME NEW S, NEW x \in Seq(S), NEW y \in Seq(S), NEW z \in Seq(S), NEW p, NEW q,
           p = x \o (y \o z), q = x \o y
    PROVE  p = q \o z
BY ConcatAssociative

LEMMA TextOfConcat ==
    ASSUME NEW b \in Seq(Symbols)
    PROVE  \A a \in Seq(Symbols) : Whole(a, b) => Text[a \o b] = Text[a] \o Text[b]
<1> DEFINE D == Seq(Symbols)
           size == [a \in D |-> Len(a)]
           T == {a \in D : Whole(a, b) => Text[a \o b] = Text[a] \o Text[b]}
<1>1. size \in [D -> Nat]
  BY LenProperties
<1>2. ASSUME NEW a \in D, \A t \in D : size[t] < size[a] => t \in T
      PROVE  a \in T
  <2> SUFFICES ASSUME Whole(a, b) PROVE Text[a \o b] = Text[a] \o Text[b]
    OBVIOUS
  <2>0. Text[a] \in D /\ Text[b] \in D
    BY TextIs
  <2>1. CASE a = << >>
    <3>1. a \o b = b /\ << >> \o Text[b] = Text[b]
      BY <2>0, <2>1, ConcatEmptySeq
    <3> QED
      BY <2>1, <3>1, TextIs
  <2>2. CASE a # << >>
    <3> DEFINE t == Tail(a)
               ab == a \o b
    <3>1. /\ Tail(ab) = t \o b /\ ab # << >> /\ ab[1] = a[1] /\ t \in D /\ Len(t) < Len(a)
          /\ ab \in D
      BY <2>2, TailOfConcat, ConcatProperties
    <3>2. t \in T
      <4>1. size[t] < size[a]
        BY <3>1
      <4> HIDE DEF T, size, t, D
      <4> QED
        BY <1>2, <3>1, <4>1
    <3>3. Len(a) \in Nat /\ Len(a) >= 1 /\ Len(t) = Len(a) - 1 
      BY <2>2
    <3>4. Whole(t, b)
      <4> SUFFICES ASSUME t # << >> PROVE t[Len(t)] = a[Len(a)]
        BY <2>2 DEF Whole
      <4>1. Len(t) \in 1..Len(t)
        BY <3>1, <3>3
      <4>2. t[Len(t)] = a[Len(t) + 1]
        BY <2>2, <4>1, HeadTailProperties
      <4>3. Len(t) + 1 = Len(a)
        BY <3>3
      <4> QED
        BY <4>2, <4>3
    <3>5. Text[t \o b] = Text[t] \o Text[b]
      BY <3>2, <3>4
    <3>6. Decoded(ab[1], SecondByte(ab)) = Decoded(a[1], SecondByte(a))
      <4>1. CASE Len(a) > 1
        <5>1. ab[2] = a[2] /\ Len(ab) > 1
          <6>1. Len(ab) = Len(a) + Len(b) /\ Len(b) \in Nat
            BY ConcatProperties, LenProperties
          <6>2. 2 \in 1..(Len(a) + Len(b))
            BY <3>3, <4>1, <6>1
          <6> QED
            BY <3>3, <4>1, <6>1, <6>2, ConcatProperties
        <5> QED
          BY <3>1, <4>1, <5>1 DEF SecondByte
      <4>2. CASE Len(a) = 1 /\ b = << >>
        <5>1. ab = a
          BY <4>2, ConcatEmptySeq
        <5> QED
          BY <5>1
      <4>3. CASE Len(a) = 1 /\ b # << >>
        <5>1. Len(b) \in Nat /\ Len(b) >= 1
          BY <4>3
        <5>2. Len(ab) = 1 + Len(b) /\ ab[2] = b[1]
          <6>1. Len(ab) = Len(a) + Len(b)
            BY ConcatProperties
          <6>2. 2 \in 1..(Len(a) + Len(b)) /\ ~(2 <= Len(a)) /\ 2 - Len(a) = 1
            BY <4>3, <5>1
          <6> QED
            BY <4>3, <6>1, <6>2, ConcatProperties
        <5>3. SecondByte(ab) = b[1] /\ SecondByte(a) = CR
          BY <4>3, <5>1, <5>2 DEF SecondByte
        <5>4. ~(a[1].c = "hi" /\ b[1].c = "lo")
          BY <2>2, <4>3 DEF Whole
        <5>5. CR.c = "cr"
          BY DEF CR, Byte
        <5> HIDE DEF ab
        <5> QED
          BY <3>1, <5>3, <5>4, <5>5 DEF Decoded
      <4>4. Len(a) > 1 \/ Len(a) = 1
        <5> DEFINE k == Len(a)
        <5>1. k \in Nat /\ k >= 1
          BY <3>3
        <5> HIDE DEF k
        <5>2. k > 1 \/ k = 1
          BY <5>1
        <5> QED
          BY <5>2 DEF k
      <4>5. b = << >> \/ b # << >>
        OBVIOUS
      <4> HIDE DEF D, ab, T, size, t
      <4> QED
        BY <4>1, <4>2, <4>3, <4>4, <4>5, Zenon
    <3>7. Decoded(a[1], SecondByte(a)) \in D
      <4>1. a[1] \in Symbols
        BY <2>2
      <4> QED
        BY <4>1, DecodedIs
    <3>8. Text[ab] = Decoded(a[1], SecondByte(a)) \o (Text[t] \o Text[b])
      <4> HIDE DEF ab, t
      <4> QED
        BY <3>1, <3>5, <3>6, TextIs
    <3>9. Text[a] = Decoded(a[1], SecondByte(a)) \o Text[t] /\ Text[t] \in D
      <4>1. t \in D
        BY <3>1
      <4> QED
        BY <2>2, <4>1, TextIs
    <3> DEFINE d == Decoded(a[1], SecondByte(a))
               u == Text[t]
               v == Text[b]
    <3>10. d \in Seq(Symbols) /\ u \in Seq(Symbols) /\ v \in Seq(Symbols)
      BY <2>0, <3>7, <3>9
    <3>11. Text[ab] = d \o (u \o v) /\ Text[a] = d \o u
      BY <3>8, <3>9
    <3> HIDE DEF d, u, v
    <3>12. Text[ab] = Text[a] \o v
      <4> DEFINE p == Text[ab]
                 q == Text[a]
      <4>1. p = d \o (u \o v) /\ q = d \o u
        BY <3>11
      <4> HIDE DEF p, q, D, T, size, t, ab
      <4>2. p = q \o v
        BY <3>10, <4>1, Rejoined
      <4> QED
        BY <4>2 DEF p, q
    <3> QED
      BY <3>12 DEF v
  <2> QED
    BY <2>1, <2>2
<1>3. \A a \in D : a \in T
  <2> HIDE DEF T, D, size
  <2> QED
    BY <1>1, <1>2, BySize
<1> QED
  BY <1>3

LEMMA EventsOfConcat ==
    ASSUME NEW b \in Seq(Seq(Symbols))
    PROVE  \A a \in Seq(Seq(Symbols)) : Events[a \o b] = Events[a] \o Events[b]
<1> DEFINE S == Seq(Symbols)
           D == Seq(S)
           size == [a \in D |-> Len(a)]
           T == {a \in D : Events[a \o b] = Events[a] \o Events[b]}
<1>0. b \in D
  OBVIOUS
<1>1. size \in [D -> Nat]
  BY LenProperties
<1>2. ASSUME NEW a \in D, \A t \in D : size[t] < size[a] => t \in T
      PROVE  a \in T
  <2> SUFFICES Events[a \o b] = Events[a] \o Events[b]
    OBVIOUS
  <2>0. Events[a] \in Seq(Nat) /\ Events[b] \in Seq(Nat)
    BY EventsIs
  <2>1. CASE a = << >>
    <3>1. a \o b = b
      BY <2>1, ConcatEmptySeq
    <3>2. << >> \o Events[b] = Events[b]
      BY <2>0, ConcatEmptySeq
    <3> QED
      BY <2>1, <3>1, <3>2, EventsIs
  <2>2. CASE a # << >>
    <3> DEFINE t == Tail(a)
               ab == a \o b
               d == EventOf(a[1])
               u == Events[t]
               v == Events[b]
    <3>1. Tail(ab) = t \o b /\ ab # << >> /\ ab[1] = a[1] /\ t \in D /\ Len(t) < Len(a) /\ ab \in D
      <4> HIDE DEF S
      <4> QED
        BY <1>0, <2>2, TailOfConcat, ConcatProperties
    <3>2. t \in T
      <4>1. size[t] < size[a]
        BY <3>1
      <4> HIDE DEF T, size, t, D
      <4> QED
        BY <1>2, <3>1, <4>1
    <3>3. Events[t \o b] = u \o v
      BY <3>2
    <3>4. a[1] \in S
      <4> HIDE DEF S
      <4> QED
        BY <2>2
    <3>5. d \in Seq(Nat) /\ u \in Seq(Nat) /\ v \in Seq(Nat)
      BY <2>0, <3>1, <3>4, LineIs, EventsIs
    <3>6. Events[ab] = d \o (u \o v)
      <4> HIDE DEF ab, t
      <4> QED
        BY <3>1, <3>3, EventsIs
    <3>7. Events[a] = d \o u
      BY <2>2, EventsIs
    <3> HIDE DEF d, u, v
    <3>8. (d \o u) \o v = d \o (u \o v)
      BY <3>5, ConcatAssociative
    <3> QED
      BY <3>6, <3>7, <3>8 DEF v
  <2> QED
    BY <2>1, <2>2
<1>3. \A a \in D : a \in T
  <2> HIDE DEF T, D, size
  <2> QED
    BY <1>1, <1>2, BySize
<1> QED
  BY <1>3

\* What is cut from the first part of a text, and what is left of both.
LEMMA PartOfConcat ==
    ASSUME NEW S, NEW x \in Seq(S), NEW y \in Seq(S), NEW k \in 0..Len(x)
    PROVE  /\ SubSeq(x \o y, 1, k) = SubSeq(x, 1, k)
           /\ SubSeq(x \o y, k + 1, Len(x \o y)) = SubSeq(x, k + 1, Len(x)) \o y
<1> DEFINE xy == x \o y
           m == Len(x)
           n == Len(y)
<1>1. /\ m \in Nat /\ n \in Nat /\ k \in Nat /\ k <= m
      /\ xy \in Seq(S) /\ Len(xy) = m + n
  BY ConcatProperties, LenProperties
<1>2. \A i \in 1..(m + n) : xy[i] = IF i <= m THEN x[i] ELSE y[i - m]
  BY ConcatProperties
<1>3. (\A i \in 1..m : x[i] \in S) /\ (\A i \in 1..n : y[i] \in S) /\ (\A i \in 1..(m + n) : xy[i] \in S)
  BY <1>1, ElementOfSeq
<1>4. Len(x) = m /\ Len(y) = n
  OBVIOUS
<1> HIDE DEF xy, m, n
<1>5. SubSeq(xy, 1, k) = SubSeq(x, 1, k)
  <2> DEFINE p == SubSeq(xy, 1, k)
             q == SubSeq(x, 1, k)
  <2>1. p \in Seq(S) /\ Len(p) = k /\ \A i \in 1..k : p[i] = xy[i]
    <3>1. \A i \in 1..k : xy[i] \in S
      BY <1>1, <1>3
    <3>2. p \in Seq(S) /\ Len(p) = (IF 1 <= k THEN k - 1 + 1 ELSE 0) /\ \A i \in 1..(k - 1 + 1) : p[i] = xy[1 + i - 1]
      BY <1>1, <3>1, SubSeqProperties
    <3> HIDE DEF p
    <3> QED
      BY <1>1, <3>2
  <2>2. q \in Seq(S) /\ Len(q) = k /\ \A i \in 1..k : q[i] = x[i]
    <3>1. \A i \in 1..k : x[i] \in S
      BY <1>1, <1>3
    <3>2. q \in Seq(S) /\ Len(q) = (IF 1 <= k THEN k - 1 + 1 ELSE 0) /\ \A i \in 1..(k - 1 + 1) : q[i] = x[1 + i - 1]
      BY <1>1, <3>1, SubSeqProperties
    <3> HIDE DEF q
    <3> QED
      BY <1>1, <3>2
  <2> HIDE DEF p, q
  <2>3. ASSUME NEW i \in 1..k
        PROVE  p[i] = q[i]
    <3>1. i \in 1..(m + n) /\ i <= m
      BY <1>1
    <3>2. xy[i] = x[i]
      BY <1>2, <3>1
    <3> QED
      BY <2>1, <2>2, <3>2
  <2>4. p = q
    BY <2>1, <2>2, <2>3, SeqEqual
  <2> QED
    BY <2>4 DEF p, q
<1>6. SubSeq(xy, k + 1, m + n) = SubSeq(x, k + 1, m) \o y
  <2> DEFINE p == SubSeq(xy, k + 1, m + n)
             r == SubSeq(x, k + 1, m)
             q == r \o y
             h == m - k
  <2>0. h \in Nat /\ k + 1 \in Int /\ m + n \in Int
    BY <1>1
  <2>1. p \in Seq(S) /\ Len(p) = h + n /\ \A i \in 1..(h + n) : p[i] = xy[k + i]
    <3>1. \A i \in (k + 1)..(m + n) : xy[i] \in S
      BY <1>1, <1>3
    <3> DEFINE lo == k + 1
               hi == m + n
    <3>2. lo \in Int /\ hi \in Int
      BY <2>0
    <3> HIDE DEF lo, hi
    <3>3. /\ SubSeq(xy, lo, hi) \in Seq(S) /\ Len(SubSeq(xy, lo, hi)) = (IF lo <= hi THEN hi - lo + 1 ELSE 0)
          /\ \A i \in 1..(hi - lo + 1) : SubSeq(xy, lo, hi)[i] = xy[lo + i - 1]
      BY <3>1, <3>2, SubSeqProperties DEF lo, hi
    <3>4. p = SubSeq(xy, lo, hi)
      BY DEF lo, hi
    <3> HIDE DEF p
    <3>5. p \in Seq(S) /\ Len(p) = (IF lo <= hi THEN hi - lo + 1 ELSE 0) /\ \A i \in 1..(hi - lo + 1) : p[i] = xy[lo + i - 1]
      BY <3>3, <3>4
    <3>6. hi - lo + 1 = h + n /\ (IF lo <= hi THEN hi - lo + 1 ELSE 0) = h + n
      BY <1>1 DEF lo, hi
    <3>7. \A i \in 1..(h + n) : lo + i - 1 = k + i
      BY <1>1 DEF lo
    <3> HIDE DEF h
    <3> QED
      BY <3>5, <3>6, <3>7
  <2>2. r \in Seq(S) /\ Len(r) = h /\ \A i \in 1..h : r[i] = x[k + i]
    <3>1. \A i \in (k + 1)..m : x[i] \in S
      BY <1>1, <1>3
    <3>2. /\ r \in Seq(S) /\ Len(r) = (IF k + 1 <= m THEN m - (k + 1) + 1 ELSE 0)
          /\ \A i \in 1..(m - (k + 1) + 1) : r[i] = x[k + 1 + i - 1]
      BY <1>1, <2>0, <3>1, SubSeqProperties
    <3> HIDE DEF r
    <3> QED
      BY <1>1, <3>2
  <2> HIDE DEF r, p
  <2>3. /\ q \in Seq(S) /\ Len(q) = h + n
        /\ \A i \in 1..(h + n) : q[i] = IF i <= h THEN r[i] ELSE y[i - h]
    <3>1. q \in Seq(S) /\ Len(q) = Len(r) + Len(y)
      BY <2>2, ConcatProperties
    <3>2. \A i \in 1..(Len(r) + Len(y)) : q[i] = IF i <= Len(r) THEN r[i] ELSE y[i - Len(r)]
      BY <2>2, ConcatProperties
    <3> HIDE DEF q, h
    <3> QED
      BY <1>4, <2>2, <3>1, <3>2
  <2> HIDE DEF q
  <2>4. ASSUME NEW i \in 1..(h + n)
        PROVE  p[i] = q[i]
    <3> DEFINE z == k + i
    <3>1. z \in 1..(m + n) /\ p[i] = xy[z]
      <4>1. z \in 1..(m + n)
        BY <1>1
      <4>2. p[i] = xy[k + i]
        BY <2>1
      <4> QED
        BY <4>1, <4>2
    <3>2. (i <= h => i \in 1..h /\ z <= m) /\ (~(i <= h) => ~(z <= m) /\ z - m = i - h)
      BY <1>1
    <3>3. \A u \in 1..h : r[u] = x[k + u]
      BY <2>2
    <3> HIDE DEF h
    <3>4. i <= h => r[i] = x[z]
      BY <3>2, <3>3
    <3> HIDE DEF z
    <3>5. xy[z] = IF z <= m THEN x[z] ELSE y[z - m]
      BY <1>2, <3>1
    <3>6. q[i] = IF i <= h THEN r[i] ELSE y[i - h]
      BY <2>3
    <3> QED
      BY <3>1, <3>2, <3>4, <3>5, <3>6
  <2>5. p = q
    BY <2>1, <2>3, <2>4, SeqEqual
  <2> QED
    BY <2>5 DEF p, q, r
<1> QED
  BY <1>1, <1>4, <1>5, <1>6 DEF xy

-----------------------------------------------------------------------------

Four(s, i) == i + 3 <= Len(s) /\ s[i] = CR /\ s[i + 1] = LF /\ s[i + 2] = CR /\ s[i + 3] = LF
Twice(s, i, x) == i + 1 <= Len(s) /\ s[i] = x /\ s[i + 1] = x

LEMMA DelimitedIs ==
    ASSUME NEW s \in Seq(Symbols), NEW i
    PROVE  i \in Delimited(s) <=> i \in 1..Len(s) /\ (Four(s, i) \/ Twice(s, i, LF) \/ Twice(s, i, CR))
<1>1. i \in Delimited(s) <=> /\ i \in 1..Len(s)
                             /\ \/ DelimAt(s, i, <<CR, LF, CR, LF>>)
                                \/ DelimAt(s, i, <<LF, LF>>)
                                \/ DelimAt(s, i, <<CR, CR>>)
  BY DEF Delimited, FrameDelims
<1>2. CASE i \in 1..Len(s)
  BY <1>1, <1>2, DelimIs DEF Four, Twice
<1> QED
  BY <1>1, <1>2

LEMMA DelimLength ==
    ASSUME NEW s \in Seq(Symbols), Delimited(s) # {}
    PROVE  Len(Delim(s)) = IF Four(s, First(s)) THEN 4 ELSE 2
<1> DEFINE i == First(s)
           d == Delim(s)
           a == CR
           b == LF
<1>1. i \in 1..Len(s) /\ d \in FrameDelims /\ DelimAt(s, i, d)
  BY FirstIs
<1>2. d = <<a, b, a, b>> \/ d = <<b, b>> \/ d = <<a, a>>
  BY <1>1, DelimsAre
<1>3. a # b
  BY TwoLineEnds
<1>4. /\ DelimAt(s, i, <<a, b, a, b>>) <=> Four(s, i)
      /\ DelimAt(s, i, <<b, b>>) => s[i] = b /\ s[i + 1] = b
      /\ DelimAt(s, i, <<a, a>>) => s[i] = a /\ s[i + 1] = a
      /\ Four(s, i) => s[i] = a /\ s[i + 1] = b
  <2> HIDE DEF i
  <2> QED
    BY <1>1, DelimIs DEF Four
<1> HIDE DEF a, b
<1>5. Len(<<a, b, a, b>>) = 4 /\ Len(<<b, b>>) = 2 /\ Len(<<a, a>>) = 2
  OBVIOUS
<1> HIDE DEF i, d
<1>6. CASE d = <<a, b, a, b>>
  BY <1>1, <1>4, <1>5, <1>6 DEF d, i
<1>7. CASE d = <<b, b>>
  BY <1>1, <1>3, <1>4, <1>5, <1>7 DEF d, i
<1>8. CASE d = <<a, a>>
  BY <1>1, <1>3, <1>4, <1>5, <1>8 DEF d, i
<1> QED
  BY <1>2, <1>6, <1>7, <1>8

\* The first delimiter of a text is still the first one when more text comes:
\* none that begins before it ends after it.
LEMMA FirstStays ==
    ASSUME NEW x \in Seq(Symbols), NEW y \in Seq(Symbols), Delimited(x) # {}
    PROVE  /\ Delimited(x \o y) # {}
           /\ Before(x \o y) = Before(x)
           /\ After(x \o y) = After(x) \o y
<1> DEFINE xy == x \o y
           i == First(x)
           m == Len(x)
           n == Len(y)
           a == CR
           b == LF
<1>1. /\ m \in Nat /\ n \in Nat /\ xy \in Seq(Symbols) /\ Len(xy) = m + n
      /\ \A j \in 1..m : xy[j] = x[j]
  <2>1. m \in Nat /\ n \in Nat /\ xy \in Seq(Symbols) /\ Len(xy) = m + n
    BY ConcatProperties, LenProperties
  <2>2. \A j \in 1..(m + n) : xy[j] = IF j <= m THEN x[j] ELSE y[j - m]
    BY ConcatProperties
  <2> HIDE DEF xy, m, n
  <2> QED
    BY <2>1, <2>2
<1>2. i \in 1..m /\ i \in Delimited(x) /\ \A j \in Delimited(x) : i <= j
  BY FirstIs
<1>3. a # b
  BY TwoLineEnds
<1>4. \A j : j \in Delimited(x) <=>
               /\ j \in 1..m
               /\ \/ j + 3 <= m /\ x[j] = a /\ x[j + 1] = b /\ x[j + 2] = a /\ x[j + 3] = b
                  \/ j + 1 <= m /\ x[j] = b /\ x[j + 1] = b
                  \/ j + 1 <= m /\ x[j] = a /\ x[j + 1] = a
  BY DelimitedIs DEF Four, Twice
<1>5. \A j : j \in Delimited(xy) <=>
               /\ j \in 1..(m + n)
               /\ \/ j + 3 <= m + n /\ xy[j] = a /\ xy[j + 1] = b /\ xy[j + 2] = a /\ xy[j + 3] = b
                  \/ j + 1 <= m + n /\ xy[j] = b /\ xy[j + 1] = b
                  \/ j + 1 <= m + n /\ xy[j] = a /\ xy[j + 1] = a
  <2> HIDE DEF xy, m, n
  <2> QED
    BY <1>1, DelimitedIs DEF Four, Twice
<1> DEFINE k == Len(Delim(x))
<1>6. /\ k = IF Four(x, i) THEN 4 ELSE 2
      /\ Four(x, i) <=> i + 3 <= m /\ x[i] = a /\ x[i + 1] = b /\ x[i + 2] = a /\ x[i + 3] = b
      /\ i + k - 1 <= m
  BY DelimLength, PartsAre DEF Four
<1> DEFINE F == Four(x, i)
           Fy == Four(xy, i)
<1>7. Fy <=> i + 3 <= m + n /\ xy[i] = a /\ xy[i + 1] = b /\ xy[i + 2] = a /\ xy[i + 3] = b
  <2> HIDE DEF m, n, xy, i
  <2> QED
    BY <1>1 DEF Four
<1>8. Before(x) = SubSeq(x, 1, i - 1) /\ After(x) = SubSeq(x, i + k, m)
  BY DEF Before, After
<1> DEFINE Dx == Delimited(x)
           Dy == Delimited(xy)
<1> HIDE DEF xy, i, m, n, a, b, k, F, Fy, Dx, Dy
<1>9. i \in Nat /\ i >= 1 /\ i <= m
  BY <1>1, <1>2
<1>10a. ASSUME NEW j \in Nat, j >= 1
       PROVE  /\ j <= m => xy[j] = x[j]
              /\ j + 1 <= m => xy[j + 1] = x[j + 1]
              /\ j + 3 <= m => xy[j + 2] = x[j + 2] /\ xy[j + 3] = x[j + 3]
  <2>1. \A t : t \in 1..m => xy[t] = x[t]
    BY <1>1
  <2> DEFINE j1 == j + 1
             j2 == j + 2
             j3 == j + 3
  <2>2. /\ j <= m => j \in 1..m
        /\ j + 1 <= m => j1 \in 1..m
        /\ j + 3 <= m => j2 \in 1..m /\ j3 \in 1..m
    BY <1>1, <1>10a
  <2> HIDE DEF j1, j2, j3
  <2>3. /\ j <= m => xy[j] = x[j]
        /\ j + 1 <= m => xy[j1] = x[j1]
        /\ j + 3 <= m => xy[j2] = x[j2] /\ xy[j3] = x[j3]
    BY <2>1, <2>2
  <2> QED
    BY <2>3 DEF j1, j2, j3
<1>10b. i + 1 <= m
  BY <1>1, <1>2, <1>4, <1>9
<1>10. i \in Dy
  <2>1. i + 1 <= m /\ xy[i] = x[i] /\ xy[i + 1] = x[i + 1]
    BY <1>9, <1>10a, <1>10b
  <2>2. i + 3 <= m => xy[i + 2] = x[i + 2] /\ xy[i + 3] = x[i + 3]
    BY <1>9, <1>10a
  <2>3. i + 1 <= m + n /\ (i + 3 <= m => i + 3 <= m + n) /\ i \in 1..(m + n)
    BY <1>1, <1>9, <2>1
  <2> QED
    BY <1>2, <1>4, <1>5, <2>1, <2>2, <2>3 DEF Dy
<1>11. ASSUME NEW j \in Dy, ~(i <= j)
       PROVE  FALSE
  <2>1. j \in Nat /\ j >= 1 /\ j + 1 <= i /\ j \in 1..m /\ j + 1 \in 1..m /\ i + 1 <= m
    BY <1>1, <1>2, <1>4, <1>5, <1>9, <1>11, <1>10b DEF Dy
  <2>2. xy[j] = x[j] /\ xy[j + 1] = x[j + 1]
    BY <1>1, <2>1
  <2>3. CASE xy[j] = xy[j + 1]
    <3>1. /\ j + 1 <= m /\ x[j] = x[j + 1]
          /\ x[j] = a \/ x[j] = b
      BY <1>1, <1>3, <1>5, <1>9, <2>1, <2>2, <2>3 DEF Dy
    <3>2. (x[j] = b /\ x[j + 1] = b) \/ (x[j] = a /\ x[j + 1] = a)
      BY <3>1
    <3>3. j \in Delimited(x)
      BY <1>4, <2>1, <3>1, <3>2
    <3> QED
      BY <1>2, <1>11, <3>3
  <2>4. CASE xy[j] # xy[j + 1]
    <3>1. xy[j] = a /\ xy[j + 1] = b /\ xy[j + 2] = a /\ xy[j + 3] = b
      BY <1>5, <2>4 DEF Dy
    <3>2. CASE j + 3 <= m
      <4>1. xy[j + 2] = x[j + 2] /\ xy[j + 3] = x[j + 3]
        BY <1>10a, <2>1, <3>2
      <4>2. j \in Delimited(x)
        BY <1>4, <2>1, <2>2, <3>1, <3>2, <4>1
      <4> QED
        BY <1>2, <1>11, <4>2
    <3>3. CASE ~(j + 3 <= m)
      <4>1. i = j + 1 /\ i + 1 = j + 2 /\ j + 2 \in 1..m /\ ~(i + 3 <= m)
        BY <1>1, <1>9, <2>1, <3>3
      <4>2. x[i] = b /\ x[i + 1] = a
        BY <1>1, <2>2, <3>1, <4>1
      <4> QED
        BY <1>2, <1>3, <1>4, <4>1, <4>2
    <3> QED
      BY <3>2, <3>3
  <2> QED
    BY <2>3, <2>4
<1>12. Delimited(xy) # {} /\ First(xy) = i
  <2>1. Delimited(xy) # {}
    BY <1>10 DEF Dy
  <2>2. First(xy) \in Dy /\ \A j \in Dy : First(xy) <= j
    BY <1>1, <2>1, FirstIs DEF Dy
  <2>3. First(xy) \in Nat
    BY <1>1, <1>5, <2>2 DEF Dy
  <2>4. i <= First(xy) /\ First(xy) <= i
    BY <1>10, <1>11, <2>2
  <2> QED
    BY <1>9, <2>1, <2>3, <2>4
<1>13. Fy <=> F
  <2>1. i + 1 <= m /\ xy[i] = x[i] /\ xy[i + 1] = x[i + 1]
    BY <1>9, <1>10a, <1>10b
  <2>2. CASE x[i] = x[i + 1]
    BY <1>3, <1>6, <1>7, <2>1, <2>2 DEF F
  <2>3. CASE x[i] # x[i + 1]
    <3>1. i + 3 <= m /\ F
      BY <1>2, <1>4, <1>6, <2>3 DEF F
    <3>2. xy[i + 2] = x[i + 2] /\ xy[i + 3] = x[i + 3] /\ i + 3 <= m + n
      BY <1>1, <1>9, <1>10a, <3>1
    <3>3. Fy
      BY <1>6, <1>7, <2>1, <3>1, <3>2 DEF F
    <3> QED
      BY <3>1, <3>3
  <2> QED
    BY <2>2, <2>3
<1>14. Len(Delim(xy)) = k
  <2>1. Len(Delim(xy)) = IF Four(xy, First(xy)) THEN 4 ELSE 2
    BY <1>1, <1>12, DelimLength
  <2> QED
    BY <1>6, <1>12, <1>13, <2>1 DEF F, Fy
<1>15. Before(xy) = SubSeq(xy, 1, i - 1) /\ After(xy) = SubSeq(xy, i + k, Len(xy))
  BY <1>12, <1>14 DEF Before, After
<1>16. SubSeq(xy, 1, i - 1) = SubSeq(x, 1, i - 1)
  <2>1. i - 1 \in 0..Len(x)
    BY <1>1, <1>9 DEF m
  <2> QED
    BY <2>1, PartOfConcat DEF xy
<1>17. SubSeq(xy, i + k, Len(xy)) = SubSeq(x, i + k, m) \o y
  <2> DEFINE h == i + k - 1
  <2>0. k = 4 \/ k = 2
    BY <1>6
  <2>1. h \in 0..m /\ h + 1 = i + k
    BY <1>1, <1>6, <1>9, <2>0
  <2> HIDE DEF h
  <2>2. SubSeq(xy, h + 1, Len(xy)) = SubSeq(x, h + 1, m) \o y
    BY <2>1, PartOfConcat DEF xy, m
  <2> QED
    BY <2>1, <2>2
<1> QED
  BY <1>8, <1>12, <1>15, <1>16, <1>17 DEF xy

LEMMA CutOffIs ==
    \A frame, v : CutOff(frame, v).frames = <<frame>> \o v.frames /\ CutOff(frame, v).rest = v.rest
BY DEF CutOff

\* What is cut from a text is the same however the text arrives.
LEMMA SplitOfConcat ==
    ASSUME NEW y \in Seq(Symbols)
    PROVE  \A x \in Seq(Symbols) :
             /\ Split[x \o y].frames = Split[x].frames \o Split[Split[x].rest \o y].frames
             /\ Split[x \o y].rest = Split[Split[x].rest \o y].rest
<1> DEFINE D == Seq(Symbols)
           Ok(x) == /\ Split[x \o y].frames = Split[x].frames \o Split[Split[x].rest \o y].frames
                    /\ Split[x \o y].rest = Split[Split[x].rest \o y].rest
           size == [x \in D |-> Len(x)]
           T == {x \in D : Ok(x)}
<1>1. size \in [D -> Nat]
  BY LenProperties
<1>2. ASSUME NEW x \in D, \A t \in D : size[t] < size[x] => t \in T
      PROVE  x \in T
  <2>0. \A s \in D : Split[s] \in Cuts /\ Split[s].frames \in Seq(Seq(Symbols)) /\ Split[s].rest \in D
    BY SplitIs DEF Cuts
  <2>1. x \o y \in D
    BY ConcatProperties
  <2>2. CASE Delimited(x) = {}
    <3>1. Split[x].frames = << >> /\ Split[x].rest = x
      BY <2>2, SplitIs
    <3>2. Split[x \o y].frames \in Seq(Seq(Symbols))
      BY <2>0, <2>1
    <3>3. << >> \o Split[x \o y].frames = Split[x \o y].frames
      BY <3>2, ConcatEmptySeq
    <3>4. Ok(x)
      BY <3>1, <3>3
    <3> QED
      BY <3>4
  <2>3. CASE Delimited(x) # {}
    <3> DEFINE t == After(x)
               b == Before(x)
    <3>1. t \in D /\ b \in D /\ Len(t) < Len(x)
      BY <2>3, PartsAre
    <3>2. Ok(t)
      <4>1. t \in T
        <5>1. size[t] < size[x]
          BY <3>1
        <5> HIDE DEF T, size, t, D
        <5> QED
          BY <1>2, <3>1, <5>1
      <4> QED
        BY <4>1
    <3>3. Split[x] = CutOff(b, Split[t])
      BY <2>3, SplitIs
    <3>4. Split[x \o y] = CutOff(b, Split[t \o y])
      <4>1. Delimited(x \o y) # {} /\ Before(x \o y) = b /\ After(x \o y) = t \o y
        BY <2>3, FirstStays
      <4> QED
        BY <2>1, <4>1, SplitIs
    <3> DEFINE one == <<b>>
               f == Split[t].frames
               r == Split[t].rest
               g == Split[r \o y].frames
    <3>5. one \in Seq(Seq(Symbols))
      <4> HIDE DEF b
      <4> QED
        BY <3>1, OneInSeq
    <3>6. f \in Seq(Seq(Symbols)) /\ r \in D /\ r \o y \in D /\ g \in Seq(Seq(Symbols))
      <4>1. f \in Seq(Seq(Symbols)) /\ r \in D
        BY <2>0, <3>1
      <4>2. r \o y \in D
        BY <4>1, ConcatProperties
      <4> QED
        BY <2>0, <4>1, <4>2
    <3>7. Split[x].frames = one \o f /\ Split[x].rest = r
      <4> HIDE DEF b, t
      <4> QED
        BY <3>3, CutOffIs DEF one
    <3>8. Split[x \o y].frames = one \o (f \o g) /\ Split[x \o y].rest = Split[r \o y].rest
      <4> DEFINE v == Split[t \o y]
                 w == Split[x \o y]
                 h == f \o g
      <4>1. v.frames = h /\ v.rest = Split[r \o y].rest
        BY <3>2
      <4>2. w = CutOff(b, v)
        BY <3>4
      <4> HIDE DEF b, v, w, h
      <4>3. w.frames = <<b>> \o h /\ w.rest = v.rest
        BY <4>1, <4>2, CutOffIs
      <4> QED
        BY <4>1, <4>3 DEF w, h
    <3>9. Ok(x)
      <4> DEFINE p == Split[x \o y].frames
                 q == Split[x].frames
      <4>1. p = one \o (f \o g) /\ q = one \o f
        BY <3>7, <3>8
      <4> DEFINE W == Seq(Symbols)
      <4>2. one \in Seq(W) /\ f \in Seq(W) /\ g \in Seq(W)
        BY <3>5, <3>6
      <4> HIDE DEF p, q, one, f, g, W
      <4>3. p = q \o g
        BY <4>1, <4>2, Rejoined
      <4>4. Split[x \o y].frames = Split[x].frames \o Split[r \o y].frames
        BY <4>3 DEF p, q, g
      <4> QED
        BY <3>7, <3>8, <4>4
    <3> QED
      BY <3>9
  <2> QED
    BY <2>2, <2>3
<1>3. \A x \in D : x \in T
  <2> HIDE DEF T, D, size
  <2> QED
    BY <1>1, <1>2, BySize
<1> QED
  BY <1>3

\* What is left has no delimiter.
LEMMA RestIsUndelimited ==
    \A x \in Seq(Symbols) : Delimited(Split[x].rest) = {}
<1> DEFINE D == Seq(Symbols)
           size == [x \in D |-> Len(x)]
           T == {x \in D : Delimited(Split[x].rest) = {}}
<1>1. size \in [D -> Nat]
  BY LenProperties
<1>2. ASSUME NEW x \in D, \A t \in D : size[t] < size[x] => t \in T
      PROVE  x \in T
  <2>1. CASE Delimited(x) = {}
    BY <2>1, SplitIs
  <2>2. CASE Delimited(x) # {}
    <3> DEFINE t == After(x)
    <3>1. t \in D /\ Len(t) < Len(x)
      BY <2>2, PartsAre
    <3>2. t \in T
      <4>1. size[t] < size[x]
        BY <3>1
      <4> HIDE DEF T, size, t, D
      <4> QED
        BY <1>2, <3>1, <4>1
    <3>3. Split[x].rest = Split[t].rest
      <4>1. Split[x] = CutOff(Before(x), Split[t])
        BY <2>2, SplitIs
      <4> HIDE DEF t
      <4> QED
        BY <4>1, CutOffIs
    <3> QED
      BY <3>2, <3>3
  <2> QED
    BY <2>1, <2>2
<1>3. \A x \in D : x \in T
  <2> HIDE DEF T, D, size
  <2> QED
    BY <1>1, <1>2, BySize
<1> QED
  BY <1>3

-----------------------------------------------------------------------------
(* One frame *)

LEMMA NoDelimiterInEmpty == Delimited(<< >>) = {} /\ Split[<< >>] = [frames |-> << >>, rest |-> << >>]
<1>1. Delimited(<< >>) = {}
  BY DEF Delimited
<1>2. << >> \in Seq(Symbols)
  OBVIOUS
<1> QED
  BY <1>1, <1>2, SplitIs

LEMMA SplitOfFrame ==
    ASSUME NEW x \in Seq(Symbols), LineEnds(x) = {}
    PROVE  Split[x \o EndOfFrame] = [frames |-> <<x>>, rest |-> << >>]
<1> DEFINE s == x \o EndOfFrame
           m == Len(x)
           a == CR
           b == LF
<1>1. EndOfFrame \in Seq(Symbols) /\ EndOfFrame = <<a, b, a, b>> /\ Len(<<a, b, a, b>>) = 4
  BY BytesAre DEF EndOfFrame
<1>2. /\ s \in Seq(Symbols) /\ m \in Nat /\ Len(s) = m + 4
      /\ \A i \in 1..(m + 4) : s[i] = IF i <= m THEN x[i] ELSE EndOfFrame[i - m]
  BY <1>1, ConcatProperties, LenProperties
<1>3. \A i \in 1..m : x[i] # a /\ x[i] # b
  BY TwoLineEnds DEF LineEnds
<1>4. EndOfFrame[1] = a /\ EndOfFrame[2] = b /\ EndOfFrame[3] = a /\ EndOfFrame[4] = b
  <2> DEFINE e == EndOfFrame
  <2> HIDE DEF a, b, e
  <2>1. e = <<a, b, a, b>>
    BY <1>1 DEF e
  <2>2. e[1] = a /\ e[2] = b /\ e[3] = a /\ e[4] = b
    BY <2>1
  <2> QED
    BY <2>2 DEF e
<1> DEFINE i == m + 1
<1>5. Four(s, i) /\ i \in 1..Len(s) /\ i \in Nat
  <2>1. /\ i \in 1..(m + 4) /\ m + 2 \in 1..(m + 4) /\ m + 3 \in 1..(m + 4) /\ m + 4 \in 1..(m + 4)
        /\ ~(i <= m) /\ ~(m + 2 <= m) /\ ~(m + 3 <= m) /\ ~(m + 4 <= m)
        /\ i - m = 1 /\ m + 2 - m = 2 /\ m + 3 - m = 3 /\ m + 4 - m = 4
        /\ i + 1 = m + 2 /\ i + 2 = m + 3 /\ i + 3 = m + 4
    BY <1>2
  <2> HIDE DEF s, m
  <2>2. s[i] = EndOfFrame[i - m] /\ s[m + 2] = EndOfFrame[m + 2 - m] /\ s[m + 3] = EndOfFrame[m + 3 - m]
        /\ s[m + 4] = EndOfFrame[m + 4 - m]
    BY <1>2, <2>1
  <2>3. s[i] = a /\ s[i + 1] = b /\ s[i + 2] = a /\ s[i + 3] = b
    BY <1>4, <2>1, <2>2
  <2>4. i + 3 <= Len(s) /\ i \in 1..Len(s) /\ i \in Nat
    BY <1>2
  <2> HIDE DEF i
  <2> QED
    BY <2>3, <2>4 DEF Four
<1>6. Delimited(s) # {} /\ First(s) = i
  <2>1. i \in Delimited(s)
    <3> HIDE DEF i, s
    <3> QED
      BY <1>2, <1>5, DelimitedIs
  <2>2. First(s) \in Delimited(s) /\ \A j \in Delimited(s) : First(s) <= j
    <3> HIDE DEF i, s
    <3> QED
      BY <1>2, <2>1, FirstIs
  <2> DEFINE j == First(s)
  <2> HIDE DEF j, s
  <2>3. j \in 1..(m + 4) /\ (s[j] = a \/ s[j] = b) /\ j <= i
    <3> HIDE DEF i, a, b
    <3> QED
      BY <1>2, <2>1, <2>2, DelimitedIs DEF Four, Twice, j, a, b
  <2>4. ~(j <= m)
    <3> SUFFICES ASSUME j <= m PROVE FALSE
      OBVIOUS
    <3>1. j \in 1..m
      BY <1>2, <2>3
    <3>2. s[j] = x[j]
      BY <1>2, <2>3
    <3> QED
      BY <1>3, <2>3, <3>1, <3>2
  <2>5. j = i
    BY <1>2, <2>3, <2>4
  <2> QED
    BY <2>1, <2>5 DEF j
<1>7. Len(Delim(s)) = 4
  BY <1>2, <1>5, <1>6, DelimLength
<1>8. Before(s) = x
  <2>1. Before(s) = SubSeq(s, 1, i - 1) /\ i - 1 = m
    BY <1>2, <1>6 DEF Before
  <2>2. m \in 0..m
    BY <1>2
  <2>3. SubSeq(s, 1, m) = SubSeq(x, 1, m)
    BY <1>1, <2>2, PartOfConcat
  <2>4. SubSeq(x, 1, Len(x)) = x
    BY SubSeqFull
  <2> QED
    BY <2>1, <2>3, <2>4
<1>9. After(s) = << >>
  <2>1. After(s) = SubSeq(s, i + 4, m + 4) /\ i + 4 \in Int /\ m + 4 \in Int /\ m + 4 < i + 4
    BY <1>2, <1>6, <1>7 DEF After
  <2> DEFINE h == i + 4
             k == m + 4
  <2> HIDE DEF h, k
  <2>2. SubSeq(s, h, k) = << >>
    BY <2>1, SubSeqEmpty DEF h, k
  <2> QED
    BY <2>1, <2>2 DEF h, k
<1>10. Split[s] = CutOff(x, [frames |-> << >>, rest |-> << >>])
  BY <1>2, <1>6, <1>8, <1>9, SplitIs, NoDelimiterInEmpty
<1>11. <<x>> \o << >> = <<x>>
  <2>1. <<x>> \in Seq(Seq(Symbols))
    BY OneInSeq
  <2> QED
    BY <2>1, ConcatEmptySeq
<1> QED
  BY <1>10, <1>11 DEF CutOff

\* What has no half of a character is decoded to itself.
LEMMA PlainText ==
    \A s \in Seq(Symbols) : (\A i \in 1..Len(s) : s[i].c \notin {"hi", "lo"}) => Text[s] = s
<1> DEFINE D == Seq(Symbols)
           Plain(s) == \A i \in 1..Len(s) : s[i].c \notin {"hi", "lo"}
           size == [s \in D |-> Len(s)]
           T == {s \in D : Plain(s) => Text[s] = s}
<1>1. size \in [D -> Nat]
  BY LenProperties
<1>2. ASSUME NEW s \in D, \A t \in D : size[t] < size[s] => t \in T
      PROVE  s \in T
  <2> SUFFICES ASSUME Plain(s) PROVE Text[s] = s
    OBVIOUS
  <2>1. CASE s = << >>
    BY <2>1, TextIs
  <2>2. CASE s # << >>
    <3> DEFINE t == Tail(s)
    <3>1. t \in D /\ Len(t) = Len(s) - 1 /\ (\A i \in 1..Len(t) : t[i] = s[i + 1]) /\ Len(s) \in Nat /\ Len(s) >= 1
      BY <2>2, HeadTailProperties, LenProperties
    <3>2. t \in T
      <4>1. size[t] < size[s]
        BY <3>1
      <4> HIDE DEF T, size, t, D
      <4> QED
        BY <1>2, <3>1, <4>1
    <3>3. Plain(t)
      <4> SUFFICES ASSUME NEW i \in 1..Len(t) PROVE t[i].c \notin {"hi", "lo"}
        OBVIOUS
      <4>1. t[i] = s[i + 1] /\ i + 1 \in 1..Len(s)
        BY <3>1
      <4> HIDE DEF t
      <4> QED
        BY <4>1
    <3>4. Text[s] = Decoded(s[1], SecondByte(s)) \o t
      BY <2>2, <3>2, <3>3, TextIs
    <3>5. 1 \in 1..Len(s)
      BY <3>1
    <3>6. Decoded(s[1], SecondByte(s)) = <<s[1]>>
      <4>1. s[1].c # "hi" /\ s[1].c # "lo"
        BY <3>5
      <4> QED
        BY <4>1 DEF Decoded
    <3>7. s = <<s[1]>> \o t
      <4>1. SubSeq(s, 1, Len(s)) = <<s[1]>> \o SubSeq(s, 2, Len(s))
        <5>1. 1 \in 1..Len(s) /\ Len(s) \in 1..Len(s)
          BY <3>1
        <5> QED
          BY <5>1, SubSeqRecursiveFirst
      <4>2. SubSeq(s, 1, Len(s)) = s /\ SubSeq(s, 2, Len(s)) = t
        BY <2>2, SubSeqFull, TailIsSubSeq
      <4> QED
        BY <4>1, <4>2
    <3> QED
      BY <3>4, <3>6, <3>7
  <2> QED
    BY <2>1, <2>2
<1>3. \A s \in D : s \in T
  <2> HIDE DEF T, D, size
  <2> QED
    BY <1>1, <1>2, BySize
<1> QED
  BY <1>3

IsFrame(x) == x = <<Byte("ping", 0)>> \/ \E n \in Nat : x = Json(n)

\* The parts of a frame, byte by byte.
LEMMA FramesAre ==
    /\ <<Byte("ping", 0)>> \in Seq(Symbols) /\ Len(<<Byte("ping", 0)>>) = 1
    /\ <<Byte("ping", 0)>>[1].c = "ping"
    /\ \A n \in Nat : /\ Json(n) \in Seq(Symbols) /\ Len(Json(n)) = 3
                      /\ Json(n)[1].c = "open" /\ Json(n)[2].c = "char" /\ Json(n)[3].c = "close"
                      /\ Json(n)[1].n = n
    /\ EndOfFrame \in Seq(Symbols) /\ Len(EndOfFrame) = 4
    /\ \A i \in 1..4 : EndOfFrame[i] = CR \/ EndOfFrame[i] = LF
    /\ EndOfFrame[4] = LF
<1>1. <<Byte("ping", 0)>> \in Seq(Symbols) /\ Len(<<Byte("ping", 0)>>) = 1 /\ <<Byte("ping", 0)>>[1].c = "ping"
  <2> DEFINE b == Byte("ping", 0)
  <2>1. b \in Symbols /\ b.c = "ping"
    BY BytesAre DEF Kinds, Byte
  <2>2. <<b>> \in Seq(Symbols) /\ Len(<<b>>) = 1 /\ <<b>>[1].c = "ping"
    <3> HIDE DEF b
    <3> QED
      BY <2>1, OneInSeq
  <2> QED
    BY <2>2
<1>2. ASSUME NEW n \in Nat
      PROVE  /\ Json(n) \in Seq(Symbols) /\ Len(Json(n)) = 3
             /\ Json(n)[1].c = "open" /\ Json(n)[2].c = "char" /\ Json(n)[3].c = "close"
             /\ Json(n)[1].n = n
  <2> DEFINE a == Byte("open", n)
             b == Byte("char", n)
             c == Byte("close", n)
             s == <<a, b, c>>
  <2>1. a.c = "open" /\ b.c = "char" /\ c.c = "close" /\ a.n = n
    BY DEF Byte
  <2>2. Json(n) = s
    BY DEF Json
  <2> HIDE DEF a, b, c
  <2>3. Len(s) = 3 /\ s[1] = a /\ s[2] = b /\ s[3] = c
    OBVIOUS
  <2>4. Json(n) \in Seq(Symbols)
    BY BytesAre
  <2> HIDE DEF s
  <2> QED
    BY <2>1, <2>2, <2>3, <2>4
<1>3. /\ EndOfFrame \in Seq(Symbols) /\ Len(EndOfFrame) = 4
      /\ \A i \in 1..4 : EndOfFrame[i] = CR \/ EndOfFrame[i] = LF
      /\ EndOfFrame[4] = LF
  <2> DEFINE a == CR
             b == LF
             s == <<a, b, a, b>>
  <2>1. EndOfFrame = s
    BY DEF EndOfFrame
  <2>2. EndOfFrame \in Seq(Symbols)
    BY BytesAre
  <2> HIDE DEF a, b
  <2>3. Len(s) = 4 /\ s[1] = a /\ s[2] = b /\ s[3] = a /\ s[4] = b
    OBVIOUS
  <2> HIDE DEF s
  <2>4. \A i \in 1..4 : s[i] = a \/ s[i] = b
    <3>1. \A i \in 1..4 : i = 1 \/ i = 2 \/ i = 3 \/ i = 4
      OBVIOUS
    <3> QED
      BY <2>3, <3>1
  <2> QED
    BY <2>1, <2>2, <2>3, <2>4 DEF a, b
<1> QED
  BY <1>1, <1>2, <1>3

LEMMA LineOfFrame ==
    ASSUME NEW x \in Seq(Symbols), IsFrame(x)
    PROVE  LineEnds(x) = {} /\ FirstLine(x) = x
<1>1. CASE x = <<Byte("ping", 0)>>
  <2>1. \A i \in 1..Len(x) : i = 1 /\ x[i].c = "ping"
    BY <1>1, FramesAre
  <2> QED
    BY <2>1 DEF LineEnds, FirstLine
<1>2. ASSUME NEW n \in Nat, x = Json(n)
      PROVE  LineEnds(x) = {} /\ FirstLine(x) = x
  <2>1. Len(x) = 3 /\ x[1].c = "open" /\ x[2].c = "char" /\ x[3].c = "close"
    BY <1>2, FramesAre
  <2>2. \A i \in 1..Len(x) : i = 1 \/ i = 2 \/ i = 3
    BY <2>1
  <2>3. LineEnds(x) = {}
    BY <2>1, <2>2 DEF LineEnds
  <2> QED
    BY <2>3 DEF FirstLine
<1> QED
  BY <1>1, <1>2 DEF IsFrame

LEMMA EventOfFrame ==
    /\ EventOf(<<Byte("ping", 0)>>) = << >>
    /\ \A n \in Nat : EventOf(Json(n)) = <<n>>
<1>1. EventOf(<<Byte("ping", 0)>>) = << >>
  <2> DEFINE x == <<Byte("ping", 0)>>
  <2>1. x \in Seq(Symbols) /\ x[1].c = "ping" /\ IsFrame(x)
    BY FramesAre DEF IsFrame
  <2> HIDE DEF x
  <2>2. FirstLine(x) = x
    BY <2>1, LineOfFrame
  <2>3. EventOf(x) = << >>
    BY <2>1, <2>2 DEF EventOf
  <2> QED
    BY <2>3 DEF x
<1>2. ASSUME NEW n \in Nat
      PROVE  EventOf(Json(n)) = <<n>>
  <2> DEFINE x == Json(n)
  <2>1. x \in Seq(Symbols) /\ Len(x) = 3 /\ x[1].c = "open" /\ x[3].c = "close" /\ x[1].n = n /\ IsFrame(x)
    BY FramesAre DEF IsFrame
  <2>2. x # << >> /\ x = Json(x[1].n)
    <3>1. x = Json(x[1].n)
      BY <2>1
    <3> HIDE DEF x
    <3>2. x # << >>
      <4>1. Len(x) = 3
        BY <2>1
      <4>2. Len(<< >>) = 0
        BY EmptySeq
      <4> QED
        BY <4>1, <4>2
    <3> QED
      BY <3>1, <3>2
  <2> HIDE DEF x
  <2>3. FirstLine(x) = x
    BY <2>1, LineOfFrame
  <2>4. EventOf(x) = <<n>>
    BY <2>1, <2>2, <2>3 DEF EventOf
  <2> QED
    BY <2>4 DEF x
<1> QED
  BY <1>1, <1>2

LEMMA TextOfPing == Text[PingFrame] = <<Byte("ping", 0)>> \o EndOfFrame /\ PingFrame # << >> /\ PingFrame[1].c = "ping"
<1> DEFINE p == <<Byte("ping", 0)>>
           e == EndOfFrame
<1>1. PingFrame = p \o e
  BY DEF PingFrame
<1>2. p \in Seq(Symbols) /\ Len(p) = 1 /\ p[1].c = "ping" /\ e \in Seq(Symbols) /\ Len(e) = 4
  BY FramesAre
<1>3. \A i \in 1..4 : e[i].c \notin {"hi", "lo"}
  <2>1. \A i \in 1..4 : e[i] = CR \/ e[i] = LF
    BY FramesAre
  <2> QED
    BY <2>1, TwoLineEnds
<1> HIDE DEF p, e
<1>4. Text[p] = p /\ Text[e] = e
  BY <1>2, <1>3, PlainText
<1>5. Whole(p, e)
  BY <1>2 DEF Whole
<1>6. Text[p \o e] = p \o e
  BY <1>2, <1>4, <1>5, TextOfConcat
<1>7. (p \o e)[1] = p[1] /\ p \o e # << >>
  <2>1. Len(<< >>) = 0
    BY EmptySeq
  <2>2. Len(p) = 1
    BY <1>2
  <2>3. p # << >>
    BY <2>1, <2>2
  <2> QED
    BY <1>2, <2>3, TailOfConcat
<1> QED
  BY <1>1, <1>2, <1>6, <1>7 DEF p, e

LEMMA Literals ==
    ASSUME NEW S, NEW x \in S, NEW y \in S, NEW z \in S
    PROVE  <<x>> \o <<y>> = <<x, y>> /\ <<x>> \o <<y, z>> = <<x, y, z>>
<1>1. /\ <<x>> \in Seq(S) /\ Len(<<x>>) = 1 /\ <<x>>[1] = x
      /\ <<y>> \in Seq(S) /\ Len(<<y>>) = 1 /\ <<y>>[1] = y
      /\ <<y, z>> \in Seq(S) /\ Len(<<y, z>>) = 2 /\ <<y, z>>[1] = y /\ <<y, z>>[2] = z
      /\ <<x, y>> \in Seq(S) /\ Len(<<x, y>>) = 2 /\ <<x, y>>[1] = x /\ <<x, y>>[2] = y
      /\ <<x, y, z>> \in Seq(S) /\ Len(<<x, y, z>>) = 3
      /\ <<x, y, z>>[1] = x /\ <<x, y, z>>[2] = y /\ <<x, y, z>>[3] = z
  OBVIOUS
<1> DEFINE a == <<x>>
           b == <<y>>
           c == <<y, z>>
           d == <<x, y>>
           e == <<x, y, z>>
<1>2. /\ a \in Seq(S) /\ Len(a) = 1 /\ a[1] = x /\ b \in Seq(S) /\ Len(b) = 1 /\ b[1] = y
      /\ c \in Seq(S) /\ Len(c) = 2 /\ c[1] = y /\ c[2] = z
      /\ d \in Seq(S) /\ Len(d) = 2 /\ d[1] = x /\ d[2] = y
      /\ e \in Seq(S) /\ Len(e) = 3 /\ e[1] = x /\ e[2] = y /\ e[3] = z
  BY <1>1
<1> HIDE DEF a, b, c, d, e
<1>3. a \o b = d
  <2> DEFINE f == a \o b
  <2>0. /\ f \in Seq(S) /\ Len(f) = Len(a) + Len(b)
        /\ \A i \in 1..(Len(a) + Len(b)) : f[i] = IF i <= Len(a) THEN a[i] ELSE b[i - Len(a)]
    BY <1>2, ConcatProperties
  <2>1. f \in Seq(S) /\ Len(f) = 2 /\ \A i \in 1..2 : f[i] = IF i <= 1 THEN a[i] ELSE b[i - 1]
    <3> HIDE DEF f
    <3> QED
      BY <1>2, <2>0
  <2> HIDE DEF f
  <2>2. \A i \in 1..2 : f[i] = d[i]
    BY <1>2, <2>1
  <2>3. f = d
    BY <1>2, <2>1, <2>2, SeqEqual
  <2> QED
    BY <2>3 DEF f
<1>4. a \o c = e
  <2> DEFINE f == a \o c
  <2>0. /\ f \in Seq(S) /\ Len(f) = Len(a) + Len(c)
        /\ \A i \in 1..(Len(a) + Len(c)) : f[i] = IF i <= Len(a) THEN a[i] ELSE c[i - Len(a)]
    BY <1>2, ConcatProperties
  <2>1. f \in Seq(S) /\ Len(f) = 3 /\ \A i \in 1..3 : f[i] = IF i <= 1 THEN a[i] ELSE c[i - 1]
    <3> HIDE DEF f
    <3> QED
      BY <1>2, <2>0
  <2> HIDE DEF f
  <2>2. \A i \in 1..3 : f[i] = e[i]
    BY <1>2, <2>1
  <2>3. f = e
    BY <1>2, <2>1, <2>2, SeqEqual
  <2> QED
    BY <2>3 DEF f
<1> QED
  BY <1>3, <1>4 DEF a, b, c, d, e

LEMMA TextOfEvent ==
    ASSUME NEW n \in Nat
    PROVE  Text[EventFrame(n)] = Json(n) \o EndOfFrame /\ EventFrame(n) # << >> /\ EventFrame(n)[1].c = "open"
<1> DEFINE o == Byte("open", n)
           h == Byte("hi", n)
           l == Byte("lo", n)
           c == Byte("close", n)
           k == Byte("char", n)
           p == <<o, h, l, c>>
           e == EndOfFrame
<1>1. EventFrame(n) = p \o e /\ Json(n) = <<o, k, c>>
  BY DEF EventFrame, Json
<1>2. /\ o \in Symbols /\ h \in Symbols /\ l \in Symbols /\ c \in Symbols /\ k \in Symbols
      /\ e \in Seq(Symbols) /\ Len(e) = 4
  BY BytesAre, FramesAre DEF Kinds
<1>3. \A i \in 1..4 : e[i].c \notin {"hi", "lo"}
  <2>1. \A i \in 1..4 : e[i] = CR \/ e[i] = LF
    BY FramesAre
  <2> QED
    BY <2>1, TwoLineEnds
<1>4. /\ \A next : Decoded(o, next) = <<o>> /\ Decoded(c, next) = <<c>> /\ Decoded(l, next) = << >>
      /\ Decoded(h, l) = <<k>>
      /\ o.c = "open" /\ c.c = "close"
  BY DEF Decoded, Byte
<1> HIDE DEF o, h, l, c, k, e
<1>5. Text[<<c>>] = <<c>>
  <2>1. <<c>> \in Seq(Symbols) /\ <<c>> # << >> /\ <<c>>[1] = c /\ Tail(<<c>>) = << >>
    BY <1>2
  <2> DEFINE s == <<c>>
  <2> HIDE DEF s
  <2>2. Text[s] = Decoded(s[1], SecondByte(s)) \o Text[<< >>]
    BY <2>1, TextIs DEF s
  <2>3. Text[s] = <<c>> \o << >>
    BY <1>4, <2>1, <2>2, TextIs DEF s
  <2> QED
    BY <1>2, <2>1, <2>3, ConcatEmptySeq DEF s
<1>6. Text[<<l, c>>] = <<c>>
  <2> DEFINE s == <<l, c>>
  <2>1. s \in Seq(Symbols) /\ s # << >> /\ s[1] = l /\ Tail(s) = <<c>>
    BY <1>2
  <2> HIDE DEF s
  <2>2. Text[s] = Decoded(l, SecondByte(s)) \o <<c>>
    BY <1>5, <2>1, TextIs
  <2>3. Text[s] = << >> \o <<c>>
    BY <1>4, <2>2
  <2>4. <<c>> \in Seq(Symbols)
    BY <1>2, OneInSeq
  <2> QED
    BY <2>3, <2>4, ConcatEmptySeq DEF s
<1>7. Text[<<h, l, c>>] = <<k, c>>
  <2> DEFINE s == <<h, l, c>>
  <2>1. s \in Seq(Symbols) /\ s # << >> /\ s[1] = h /\ s[2] = l /\ Len(s) = 3 /\ Tail(s) = <<l, c>>
    BY <1>2
  <2> HIDE DEF s
  <2>2. SecondByte(s) = l
    BY <2>1 DEF SecondByte
  <2>3. Text[s] = <<k>> \o <<c>>
    BY <1>4, <1>6, <2>1, <2>2, TextIs
  <2>4. <<k>> \o <<c>> = <<k, c>>
    BY <1>2, Literals
  <2> QED
    BY <2>3, <2>4 DEF s
<1>8. Text[p] = <<o, k, c>>
  <2>1. p \in Seq(Symbols) /\ p # << >> /\ p[1] = o /\ Tail(p) = <<h, l, c>>
    BY <1>2
  <2> HIDE DEF p
  <2>2. Text[p] = Decoded(o, SecondByte(p)) \o <<k, c>>
    BY <1>7, <2>1, TextIs
  <2>3. Text[p] = <<o>> \o <<k, c>>
    BY <1>4, <2>2
  <2>4. <<o>> \o <<k, c>> = <<o, k, c>>
    BY <1>2, Literals
  <2> QED
    BY <2>3, <2>4
<1>9. Text[e] = e
  BY <1>2, <1>3, PlainText
<1>10. p \in Seq(Symbols) /\ Len(p) = 4 /\ p[4] = c /\ p # << >> /\ p[1] = o
  BY <1>2
<1> HIDE DEF p
<1>11. Whole(p, e)
  BY <1>4, <1>10 DEF Whole
<1>12. Text[p \o e] = <<o, k, c>> \o e
  BY <1>2, <1>8, <1>9, <1>10, <1>11, TextOfConcat
<1>13. (p \o e)[1] = o /\ p \o e # << >>
  BY <1>2, <1>10, TailOfConcat
<1> QED
  BY <1>1, <1>4, <1>12, <1>13 DEF e

\* As long as no frame is complete there is at most the event of the first one.
LEMMA PartOfFrame ==
    ASSUME NEW b \in Seq(Symbols), NEW w \in Seq(Symbols), Delimited(b) = {},
           Delimited(b \o w) # {}, IsFrame(Before(b \o w))
    PROVE  EventOf(b) = << >> \/ EventOf(b) = EventOf(Before(b \o w))
<1> DEFINE s == b \o w
           x == Before(s)
           i == First(s)
           m == Len(b)
<1>1. /\ s \in Seq(Symbols) /\ Len(s) \in Nat /\ m \in Nat /\ m <= Len(s)
      /\ \A j \in 1..m : s[j] = b[j]
  <2>1. s \in Seq(Symbols) /\ Len(s) = m + Len(w) /\ m \in Nat /\ Len(w) \in Nat
    BY ConcatProperties, LenProperties
  <2>2. \A j \in 1..(m + Len(w)) : s[j] = IF j <= m THEN b[j] ELSE w[j - m]
    BY ConcatProperties
  <2> HIDE DEF s, m
  <2> QED
    BY <2>1, <2>2
<1>2. /\ i \in 1..Len(s) /\ x \in Seq(Symbols) /\ Len(x) = i - 1 /\ (s[i] = CR \/ s[i] = LF)
      /\ \A j \in 1..Len(x) : x[j] = s[j]
  <2>1. i \in 1..Len(s) /\ i \in Delimited(s) /\ x \in Seq(Symbols) /\ Len(x) = i - 1
    <3> HIDE DEF s
    <3> QED
      BY <1>1, FirstIs, PartsAre DEF s
  <2>2. s[i] = CR \/ s[i] = LF
    <3> HIDE DEF s, i
    <3> QED
      BY <1>1, <2>1, DelimitedIs DEF Four, Twice
  <2>3. x = SubSeq(s, 1, i - 1)
    BY DEF Before
  <2> DEFINE k == i - 1
  <2> HIDE DEF s, i
  <2>4. \A j \in 1..k : s[j] \in Symbols
    BY <1>1, <2>1
  <2>5. k \in Nat /\ k \in Int
    BY <1>1, <2>1
  <2> HIDE DEF k
  <2>6. \A j \in 1..(k - 1 + 1) : SubSeq(s, 1, k)[j] = s[1 + j - 1]
    BY <2>4, <2>5, SubSeqProperties
  <2> HIDE DEF x
  <2>7. \A j \in 1..k : x[j] = s[j]
    BY <2>3, <2>5, <2>6 DEF k
  <2> QED
    BY <2>1, <2>2, <2>7 DEF k
<1>3. IsFrame(x) /\ LineEnds(x) = {} /\ FirstLine(x) = x
  BY <1>2, LineOfFrame
<1>4. \A y, z : FirstLine(y) = FirstLine(z) => EventOf(y) = EventOf(z)
  BY DEF EventOf
<1>5. m = Len(b)
  OBVIOUS
<1> SUFFICES EventOf(b) = << >> \/ EventOf(b) = EventOf(x)
  OBVIOUS
<1> HIDE DEF s, x, i, m
<1>6. CASE m < i
  <2>1. \A j \in 1..m : b[j] = x[j] /\ j \in 1..Len(x)
    BY <1>1, <1>2, <1>6
  <2>2. LineEnds(b) = {} /\ FirstLine(b) = b
    <3>1. LineEnds(b) = {}
      BY <1>3, <1>5, <2>1 DEF LineEnds
    <3> QED
      BY <3>1 DEF FirstLine
  <2>3. CASE m = 0
    <3>1. b = << >>
      BY <1>5, <2>3, EmptySeq
    <3> QED
      BY <2>2, <3>1 DEF EventOf
  <2>4. CASE m >= 1 /\ x = <<Byte("ping", 0)>>
    <3>1. b[1].c = "ping"
      BY <1>1, <2>1, <2>4, FramesAre
    <3> QED
      BY <2>2, <3>1 DEF EventOf
  <2>5. ASSUME m >= 1, NEW n \in Nat, x = Json(n)
        PROVE  EventOf(b) = << >> \/ EventOf(b) = EventOf(x)
    <3>1. Len(x) = 3 /\ x[1].c = "open" /\ x[2].c = "char" /\ x[3].c = "close"
      BY <2>5, FramesAre
    <3>2. m = 1 \/ m = 2 \/ m = 3
      <4>1. i \in Nat
        BY <1>1, <1>2
      <4>2. i - 1 = 3
        BY <1>2, <3>1
      <4>3. m \in Nat /\ m >= 1 /\ m < i
        BY <1>1, <1>6, <2>5
      <4> QED
        BY <4>1, <4>2, <4>3
    <3>3. CASE m = 1 \/ m = 2
      <4>1. b[m].c # "close"
        BY <1>1, <2>1, <3>1, <3>3
      <4> QED
        BY <1>5, <2>2, <4>1 DEF EventOf
    <3>4. CASE m = 3
      <4>1. b = x
        <5>1. Len(b) = Len(x) /\ \A j \in 1..Len(b) : b[j] = x[j]
          BY <1>5, <2>1, <3>1, <3>4
        <5> QED
          BY <1>2, <5>1, SeqEqual
      <4> QED
        BY <4>1
    <3> QED
      BY <3>2, <3>3, <3>4
  <2> QED
    BY <1>1, <1>3, <2>3, <2>4, <2>5 DEF IsFrame
<1>7. CASE ~(m < i)
  <2>1. i \in 1..m /\ b[i] = s[i] /\ i - 1 \in 0..m /\ i \in Nat
    BY <1>1, <1>2, <1>7
  <2>2. i \in LineEnds(b)
    BY <1>2, <1>5, <2>1, TwoLineEnds DEF LineEnds
  <2>3. ASSUME NEW j \in LineEnds(b)
        PROVE  i <= j
    <3> SUFFICES ASSUME ~(i <= j) PROVE FALSE
      OBVIOUS
    <3>1. j \in 1..m /\ b[j].c \in {"cr", "lf"}
      BY <1>5 DEF LineEnds
    <3>2. j \in 1..Len(x)
      BY <1>1, <1>2, <2>1, <3>1
    <3>3. b[j] = s[j] /\ x[j] = s[j]
      BY <1>1, <1>2, <3>1, <3>2
    <3> QED
      BY <1>3, <3>1, <3>2, <3>3 DEF LineEnds
  <2> DEFINE k == CHOOSE u \in LineEnds(b) : \A j \in LineEnds(b) : u <= j
  <2>4. k \in LineEnds(b) /\ \A j \in LineEnds(b) : k <= j
    BY <2>2, <2>3
  <2>5. k = i
    <3> HIDE DEF k
    <3>1. k \in 1..m
      BY <1>5, <2>4 DEF LineEnds
    <3>2. k <= i /\ i <= k
      BY <2>2, <2>3, <2>4
    <3> QED
      BY <2>1, <3>1, <3>2
  <2>6. FirstLine(b) = SubSeq(b, 1, i - 1)
    <3>1. FirstLine(b) = SubSeq(b, 1, k - 1)
      BY <2>2 DEF FirstLine
    <3> HIDE DEF k
    <3> QED
      BY <2>5, <3>1
  <2>7. SubSeq(b, 1, i - 1) = x
    <3> DEFINE h == i - 1
               y == SubSeq(b, 1, h)
    <3>1. h \in Nat /\ h \in Int /\ h <= m
      BY <2>1
    <3>2. h = Len(x)
      BY <1>2
    <3>3. i - 1 = h
      OBVIOUS
    <3> HIDE DEF h
    <3>4. ASSUME NEW j \in 1..h
          PROVE  b[j] \in Symbols /\ b[j] = x[j]
      <4>1. j \in 1..m /\ j \in 1..Len(x)
        BY <1>5, <3>1, <3>2
      <4> QED
        BY <1>1, <1>2, <1>5, <4>1
    <3>5. y \in Seq(Symbols) /\ Len(y) = (IF 1 <= h THEN h - 1 + 1 ELSE 0) /\ \A j \in 1..(h - 1 + 1) : y[j] = b[1 + j - 1]
      BY <3>1, <3>4, SubSeqProperties
    <3> HIDE DEF y
    <3>6. Len(y) = h /\ \A j \in 1..h : y[j] = b[j]
      BY <3>1, <3>5
    <3>7. y = x
      BY <1>2, <3>2, <3>4, <3>5, <3>6, SeqEqual
    <3> QED
      BY <3>3, <3>7 DEF y
  <2> QED
    BY <1>3, <1>4, <2>6, <2>7
<1> QED
  BY <1>6, <1>7

-----------------------------------------------------------------------------
(* What is sent and what is read *)

IsJoined(S, x, y, z) == x \o (y \o z) = (x \o y) \o z /\ x \o y \in Seq(S)

LEMMA JoinedText ==
    ASSUME NEW S, NEW x, NEW y, NEW z, x \in Seq(S), y \in Seq(S), z \in Seq(S)
    PROVE  IsJoined(S, x, y, z)
BY ConcatAssociative, ConcatProperties DEF IsJoined

\* The bytes that are decoded to a frame and its end.
Carries(f, x) ==
    /\ x \in Seq(Symbols) /\ IsFrame(x)
    /\ f \in Seq(Symbols) /\ f # << >> /\ f[1].c # "lo"
    /\ Text[f] = x \o EndOfFrame

\* A frame that is sent after whole frames is one more.
LEMMA SendsFrame ==
    ASSUME NEW b \in Seq(Symbols), NEW u \in Seq(Symbols), Split[b \o Text[u]].rest = << >>,
           NEW x, NEW f, Carries(f, x)
    PROVE  /\ Split[b \o Text[u \o f]].frames = Split[b \o Text[u]].frames \o <<x>>
           /\ Split[b \o Text[u \o f]].rest = << >>
<1> DEFINE y == x \o EndOfFrame
           t == Text[u]
           s == b \o t
<1>0. /\ x \in Seq(Symbols) /\ IsFrame(x)
      /\ f \in Seq(Symbols) /\ f # << >> /\ f[1].c # "lo"
      /\ Text[f] = y
  BY DEF Carries
<1>1. y \in Seq(Symbols) /\ t \in Seq(Symbols) /\ s \in Seq(Symbols)
  BY <1>0, FramesAre, TextIs, ConcatProperties
<1>2. Whole(u, f)
  BY <1>0 DEF Whole
<1>3. Text[u \o f] = t \o y
  BY <1>0, <1>2, TextOfConcat
<1>4. Split[y] = [frames |-> <<x>>, rest |-> << >>]
  BY <1>0, LineOfFrame, SplitOfFrame
<1> HIDE DEF y
<1>5. b \o (t \o y) = s \o y
  <2> HIDE DEF t
  <2>1. IsJoined(Symbols, b, t, y)
    BY <1>1, JoinedText
  <2> QED
    BY <2>1 DEF IsJoined
<1> HIDE DEF s, t
<1>6. << >> \o y = y
  BY <1>1, ConcatEmptySeq
<1>7. Split[s].rest = << >>
  BY DEF s, t
<1>8. /\ Split[s \o y].frames = Split[s].frames \o Split[Split[s].rest \o y].frames
      /\ Split[s \o y].rest = Split[Split[s].rest \o y].rest
  BY <1>1, SplitOfConcat
<1>9. /\ Split[s \o y].frames = Split[s].frames \o <<x>>
      /\ Split[s \o y].rest = << >>
  <2> DEFINE z == Split[s].rest
             q == Split[y]
  <2>1. z \o y = y
    BY <1>6, <1>7
  <2>2. q.frames = <<x>> /\ q.rest = << >>
    BY <1>4
  <2>3. Split[z \o y] = q
    BY <2>1
  <2>4. /\ Split[s \o y].frames = Split[s].frames \o Split[z \o y].frames
        /\ Split[s \o y].rest = Split[z \o y].rest
    BY <1>8
  <2> HIDE DEF z, q
  <2> QED
    BY <2>2, <2>3, <2>4
<1> QED
  BY <1>3, <1>5, <1>9 DEF s, t

\* What the decoder holds back.
LEMMA HeldIs ==
    ASSUME NEW s \in Seq(Symbols)
    PROVE  LET hb == HeldBack(s)
               p  == SubSeq(s, 1, Len(s) - Len(hb))
           IN  /\ hb \in Seq(Symbols) /\ p \in Seq(Symbols)
               /\ s = p \o hb
               /\ \A r \in Seq(Symbols) : Whole(p, hb \o r)
               /\ s # << >> /\ s[Len(s)].c # "hi" => hb = << >>
<1> DEFINE hb == HeldBack(s)
           p == SubSeq(s, 1, Len(s) - Len(hb))
           n == Len(s)
<1>1. CASE Incomplete(s)
  <2>1. s # << >> /\ s[n].c = "hi" /\ hb = <<s[n]>>
    BY <1>1 DEF Incomplete, HeldBack
  <2>2. n \in Nat /\ n >= 1 /\ n \in 1..n /\ s[n] \in Symbols
    BY <2>1, EmptySeq, ElementOfSeq
  <2> DEFINE e == s[n]
             m == n - 1
  <2>3. hb \in Seq(Symbols) /\ Len(hb) = 1 /\ hb[1] = e /\ hb # << >>
    <3>1. <<e>> \in Seq(Symbols) /\ Len(<<e>>) = 1 /\ <<e>>[1] = e /\ <<e>> # << >>
      BY <2>2, OneInSeq
    <3> HIDE DEF hb
    <3> QED
      BY <2>1, <3>1
  <2>4. p = SubSeq(s, 1, m)
    <3> HIDE DEF hb
    <3> QED
      BY <2>3
  <2>5. m \in Int /\ m \in 0..n /\ 1 \in Int /\ \A i \in 1..m : s[i] \in Symbols
    <3>1. \A i \in 1..m : i \in 1..n
      BY <2>2
    <3> QED
      BY <2>2, <3>1, ElementOfSeq
  <2>6. p \in Seq(Symbols)
    <3> HIDE DEF p, m
    <3> QED
      BY <2>4, <2>5, SubSeqProperties
  <2>7. s = p \o hb
    <3>1. SubSeq(s, 1, n) = SubSeq(s, 1, n - 1) \o <<s[n]>>
      <4>1. 1 \in 1..n /\ n \in 1..n
        BY <2>2
      <4> QED
        BY <4>1, SubSeqRecursiveSecond
    <3>2. SubSeq(s, 1, n) = s
      BY SubSeqFull
    <3> HIDE DEF hb, p
    <3> QED
      BY <2>1, <2>4, <3>1, <3>2
  <2>8. ASSUME NEW r \in Seq(Symbols)
        PROVE  Whole(p, hb \o r)
    <3> HIDE DEF hb, p
    <3>1. hb # << >>
      BY <2>3
    <3>2. (hb \o r)[1] = hb[1]
      BY <2>3, <3>1, TailOfConcat
    <3> QED
      BY <2>1, <2>3, <3>2 DEF Whole
  <2> HIDE DEF hb, p
  <2>9. /\ hb \in Seq(Symbols) /\ p \in Seq(Symbols)
        /\ s = p \o hb
        /\ \A r \in Seq(Symbols) : Whole(p, hb \o r)
        /\ s # << >> /\ s[n].c # "hi" => hb = << >>
    BY <2>1, <2>3, <2>6, <2>7, <2>8
  <2> QED
    BY <2>9 DEF hb, p
<1>2. CASE ~Incomplete(s)
  <2>1. hb = << >>
    BY <1>2 DEF HeldBack
  <2>2. n \in Nat
    BY LenProperties
  <2>3. p = s
    <3>1. Len(hb) = 0
      BY <2>1
    <3>2. n - Len(hb) = n
      BY <2>2, <3>1
    <3>3. SubSeq(s, 1, n) = s
      BY SubSeqFull
    <3> QED
      BY <3>2, <3>3
  <2>4. s = << >> \/ s[n].c # "hi"
    BY <1>2 DEF Incomplete
  <2>5. s \o << >> = s /\ << >> \in Seq(Symbols)
    BY ConcatEmptySeq
  <2>6. \A r \in Seq(Symbols) : Whole(s, r) /\ << >> \o r = r
    BY <2>4, ConcatEmptySeq DEF Whole
  <2> HIDE DEF hb, p
  <2>7. \A r \in Seq(Symbols) : Whole(p, hb \o r)
    <3> SUFFICES ASSUME NEW r \in Seq(Symbols) PROVE Whole(p, hb \o r)
      OBVIOUS
    <3>1. hb \o r = r
      BY <2>1, <2>6
    <3> QED
      BY <2>3, <2>6, <3>1
  <2>8. /\ hb \in Seq(Symbols) /\ p \in Seq(Symbols)
        /\ s = p \o hb
        /\ \A r \in Seq(Symbols) : Whole(p, hb \o r)
        /\ s # << >> /\ s[n].c # "hi" => hb = << >>
    BY <2>1, <2>3, <2>5, <2>7
  <2> QED
    BY <2>8 DEF hb, p
<1> QED
  BY <1>1, <1>2

\* What is read in two parts is what is read in one.
ReadInParts(b, h, v, w) ==
    LET cut  == Split[b \o Decode(h \o v)]
        left == HeldBack(h \o v)
        all  == Split[b \o Text[h \o (v \o w)]]
        more == Split[cut.rest \o Text[left \o w]]
    IN  /\ cut.rest \in Seq(Symbols) /\ cut.frames \in Seq(Seq(Symbols)) /\ left \in Seq(Symbols)
        /\ more.frames \in Seq(Seq(Symbols))
        /\ Delimited(cut.rest) = {}
        /\ all.frames = cut.frames \o more.frames
        /\ all.rest = more.rest

LEMMA ReadsPart ==
    ASSUME NEW b \in Seq(Symbols), NEW h \in Seq(Symbols), NEW v \in Seq(Symbols), NEW w \in Seq(Symbols)
    PROVE  ReadInParts(b, h, v, w)
<1> DEFINE s == h \o v
           left == HeldBack(s)
           p == SubSeq(s, 1, Len(s) - Len(left))
           t == Text[p]
           lw == left \o w
           r == Text[lw]
           cut == Split[b \o t]
           all == Split[b \o Text[h \o (v \o w)]]
           more == Split[cut.rest \o r]
<1>1. s \in Seq(Symbols)
  BY ConcatProperties
<1>2. /\ left \in Seq(Symbols) /\ p \in Seq(Symbols)
      /\ s = p \o left
      /\ Whole(p, lw)
  <2> HIDE DEF s
  <2> QED
    BY <1>1, HeldIs
<1>3. Decode(h \o v) = t
  BY DEF Decode
<1>4. h \o (v \o w) = s \o w
  <2>1. IsJoined(Symbols, h, v, w)
    BY JoinedText
  <2> QED
    BY <2>1 DEF IsJoined
<1> HIDE DEF left, p, s
<1>5. p \o lw = s \o w /\ lw \in Seq(Symbols)
  <2> DEFINE z == p \o lw
  <2>1. z = p \o (left \o w) /\ s = p \o left
    BY <1>2
  <2>2. lw \in Seq(Symbols)
    BY <1>2, ConcatProperties
  <2>3. IsJoined(Symbols, p, left, w)
    BY <1>2, JoinedText
  <2>4. p \o (left \o w) = (p \o left) \o w
    BY <2>3 DEF IsJoined
  <2> HIDE DEF z
  <2>5. z = s \o w
    BY <2>1, <2>4
  <2> QED
    BY <2>2, <2>5 DEF z
<1> HIDE DEF lw
<1>6. t \in Seq(Symbols) /\ r \in Seq(Symbols)
  BY <1>2, <1>5, TextIs
<1>6a. Text[s \o w] = t \o r
  BY <1>2, <1>5, TextOfConcat
<1> HIDE DEF t, r
<1>7. b \o (t \o r) = (b \o t) \o r /\ b \o t \in Seq(Symbols)
  <2>1. IsJoined(Symbols, b, t, r)
    BY <1>6, JoinedText
  <2> QED
    BY <2>1 DEF IsJoined
<1> DEFINE x == b \o t
<1>8. all = Split[x \o r]
  BY <1>4, <1>6a, <1>7
<1>9. cut \in Cuts /\ cut.rest \in Seq(Symbols) /\ cut.frames \in Seq(Seq(Symbols))
  BY <1>7, SplitIs DEF Cuts
<1>10. more \in Cuts /\ more.frames \in Seq(Seq(Symbols))
  <2> DEFINE z == cut.rest \o r
  <2>1. z \in Seq(Symbols)
    <3> HIDE DEF cut
    <3> QED
      BY <1>6, <1>9, ConcatProperties
  <2> HIDE DEF z, cut
  <2>2. Split[z] \in Cuts
    BY <2>1, SplitIs
  <2>3. Split[z].frames \in Seq(Seq(Symbols))
    BY <2>2 DEF Cuts
  <2> QED
    BY <2>2, <2>3 DEF z
<1>11. Delimited(cut.rest) = {}
  BY <1>7, RestIsUndelimited
<1>12. all.frames = cut.frames \o more.frames /\ all.rest = more.rest
  <2>1. /\ Split[x \o r].frames = Split[x].frames \o Split[Split[x].rest \o r].frames
        /\ Split[x \o r].rest = Split[Split[x].rest \o r].rest
    <3> HIDE DEF x
    <3> QED
      BY <1>6, <1>7, SplitOfConcat DEF x
  <2> HIDE DEF all
  <2> QED
    BY <1>8, <2>1
<1> HIDE DEF all, cut, more
<1>13. /\ cut.rest \in Seq(Symbols) /\ cut.frames \in Seq(Seq(Symbols)) /\ left \in Seq(Symbols)
       /\ more.frames \in Seq(Seq(Symbols))
       /\ Delimited(cut.rest) = {}
       /\ all.frames = cut.frames \o more.frames
       /\ all.rest = more.rest
  BY <1>2, <1>9, <1>10, <1>11, <1>12
<1>14. /\ cut = Split[b \o Decode(h \o v)] /\ left = HeldBack(h \o v)
       /\ all = Split[b \o Text[h \o (v \o w)]]
       /\ more = Split[cut.rest \o Text[left \o w]]
  BY <1>3 DEF cut, left, all, more, s, r, lw
<1> QED
  BY <1>13, <1>14 DEF ReadInParts

-----------------------------------------------------------------------------

Numbers(n) == [i \in 1..n |-> i]

LEMMA NumbersAre ==
    ASSUME NEW n \in Nat
    PROVE  /\ Numbers(n) \in Seq(Nat) /\ Len(Numbers(n)) = n /\ \A i \in 1..n : Numbers(n)[i] = i
           /\ Numbers(n) \o <<n + 1>> = Numbers(n + 1)
<1>1. ASSUME NEW m \in Nat
      PROVE  Numbers(m) \in Seq(Nat) /\ Len(Numbers(m)) = m /\ \A i \in 1..m : Numbers(m)[i] = i
  BY DEF Numbers
<1> DEFINE a == Numbers(n)
           m == n + 1
           b == Numbers(m)
           o == <<m>>
           c == a \o o
<1>2. m \in Nat
  OBVIOUS
<1>3. a \in Seq(Nat) /\ Len(a) = n /\ (\A i \in 1..n : a[i] = i) /\ b \in Seq(Nat) /\ Len(b) = m /\ (\A i \in 1..m : b[i] = i)
  <2> HIDE DEF m
  <2> QED
    BY <1>1, <1>2
<1>4. o \in Seq(Nat) /\ Len(o) = 1 /\ o[1] = m
  <2> HIDE DEF m
  <2> QED
    BY <1>2, OneInSeq
<1> HIDE DEF a, b, o
<1>5. /\ c \in Seq(Nat) /\ Len(c) = Len(a) + Len(o)
      /\ \A i \in 1..(Len(a) + Len(o)) : c[i] = IF i <= Len(a) THEN a[i] ELSE o[i - Len(a)]
  BY <1>3, <1>4, ConcatProperties
<1> HIDE DEF c
<1>6. Len(c) = m /\ \A i \in 1..m : c[i] = i
  BY <1>3, <1>4, <1>5
<1>7. c = b
  BY <1>2, <1>3, <1>5, <1>6, SeqEqual
<1> QED
  BY <1>1, <1>7 DEF a, b, c, o

LEMMA PartOfNumbers ==
    ASSUME NEW n \in Nat, NEW g \in Seq(Nat), NEW e \in Seq(Nat), g \o e = Numbers(n)
    PROVE  Len(g) <= n /\ \A i \in 1..Len(g) : g[i] = i
<1> DEFINE a == g \o e
           k == Len(g)
           m == Len(e)
<1>1. /\ k \in Nat /\ m \in Nat /\ Len(a) = k + m
      /\ \A i \in 1..(k + m) : a[i] = IF i <= k THEN g[i] ELSE e[i - k]
  BY ConcatProperties, LenProperties
<1>2. Len(a) = n /\ \A i \in 1..n : a[i] = i
  BY NumbersAre
<1> HIDE DEF a
<1>3. k + m = n
  BY <1>1, <1>2
<1> HIDE DEF k, m
<1>4. k <= n /\ \A i \in 1..k : g[i] = i
  BY <1>1, <1>2, <1>3
<1> QED
  BY <1>4 DEF k

AllFrames(f) == \A i \in 1..Len(f) : IsFrame(f[i])

LEMMA AllOfConcat ==
    ASSUME NEW S, NEW f \in Seq(S), NEW g \in Seq(S)
    PROVE  AllFrames(f \o g) <=> AllFrames(f) /\ AllFrames(g)
<1> DEFINE a == f \o g
           k == Len(f)
           m == Len(g)
<1>1. /\ k \in Nat /\ m \in Nat /\ Len(a) = k + m
      /\ \A i \in 1..(k + m) : a[i] = IF i <= k THEN f[i] ELSE g[i - k]
  BY ConcatProperties, LenProperties
<1>2. Len(f) = k /\ Len(g) = m
  OBVIOUS
<1> HIDE DEF a, k, m
<1>3. ASSUME AllFrames(a) PROVE AllFrames(f) /\ AllFrames(g)
  <2>1. \A i \in 1..(k + m) : IsFrame(a[i])
    BY <1>1, <1>3 DEF AllFrames
  <2>2. \A i \in 1..k : IsFrame(f[i])
    <3> SUFFICES ASSUME NEW i \in 1..k PROVE IsFrame(f[i])
      OBVIOUS
    <3>1. i \in 1..(k + m) /\ a[i] = f[i]
      BY <1>1
    <3> QED
      BY <2>1, <3>1
  <2>3. \A i \in 1..m : IsFrame(g[i])
    <3> SUFFICES ASSUME NEW i \in 1..m PROVE IsFrame(g[i])
      OBVIOUS
    <3> DEFINE j == k + i
    <3>1. j \in 1..(k + m) /\ ~(j <= k) /\ j - k = i
      BY <1>1
    <3> HIDE DEF j
    <3>2. a[j] = g[j - k] /\ IsFrame(a[j])
      BY <1>1, <2>1, <3>1
    <3> QED
      BY <3>1, <3>2
  <2> QED
    BY <1>2, <2>2, <2>3 DEF AllFrames
<1>4. ASSUME AllFrames(f), AllFrames(g) PROVE AllFrames(a)
  <2>1. (\A i \in 1..k : IsFrame(f[i])) /\ (\A i \in 1..m : IsFrame(g[i]))
    BY <1>2, <1>4 DEF AllFrames
  <2>2. ASSUME NEW i \in 1..(k + m) PROVE IsFrame(a[i])
    <3>1. CASE i <= k
      <4>1. i \in 1..k /\ a[i] = f[i]
        BY <1>1, <3>1
      <4> QED
        BY <2>1, <4>1
    <3>2. CASE ~(i <= k)
      <4> DEFINE j == i - k
      <4>1. j \in 1..m /\ a[i] = g[j]
        BY <1>1, <3>2
      <4> HIDE DEF j
      <4> QED
        BY <2>1, <4>1
    <3> QED
      BY <3>1, <3>2
  <2> QED
    BY <1>1, <2>2 DEF AllFrames
<1> QED
  BY <1>3, <1>4 DEF a

-----------------------------------------------------------------------------
(* The invariant *)

FramesTypeOK ==
    /\ sentEvents \in Nat /\ sentPings \in Nat /\ reading \in BOOLEAN
    /\ wire \in Seq(Symbols) /\ held \in Seq(Symbols) /\ buffer \in Seq(Symbols)
    /\ got \in Seq(Nat)

\* What the loop would cut if it read to the end.
Unread == Split[buffer \o Text[held \o wire]]

\* What was handled and what is unread are the events that were sent.
WholeFrames ==
    /\ Unread.rest = << >> /\ AllFrames(Unread.frames)
    /\ got \o Events[Unread.frames] = Numbers(sentEvents)

\* The buffer holds no whole frame, the wire ends where a frame does, and with
\* nothing under way the decoder holds nothing.
AtFrameEnd ==
    /\ Delimited(buffer) = {}
    /\ wire = << >> => held = << >>
    /\ wire # << >> => wire[Len(wire)] = LF

FramesInv == FramesTypeOK /\ (reading => WholeFrames /\ AtFrameEnd) /\ EventsInOrder

LEMMA UnreadIs ==
    ASSUME FramesTypeOK
    PROVE  /\ held \o wire \in Seq(Symbols) /\ Text[held \o wire] \in Seq(Symbols)
           /\ buffer \o Text[held \o wire] \in Seq(Symbols)
           /\ Unread \in Cuts /\ Unread.frames \in Seq(Seq(Symbols)) /\ Unread.rest \in Seq(Symbols)
<1>1. held \o wire \in Seq(Symbols)
  BY ConcatProperties DEF FramesTypeOK
<1> DEFINE t == Text[held \o wire]
<1>2. t \in Seq(Symbols)
  BY <1>1, TextIs
<1> DEFINE s == buffer \o t
<1>3. s \in Seq(Symbols)
  <2> HIDE DEF t
  <2> QED
    BY <1>2, ConcatProperties DEF FramesTypeOK
<1>4. Split[s] \in Cuts
  <2> HIDE DEF s
  <2> QED
    BY <1>3, SplitIs
<1>5. Unread = Split[s]
  BY DEF Unread
<1>6. Unread.frames \in Seq(Seq(Symbols)) /\ Unread.rest \in Seq(Symbols)
  <2> HIDE DEF s
  <2> QED
    BY <1>4, <1>5 DEF Cuts
<1> QED
  BY <1>1, <1>2, <1>3, <1>4, <1>5, <1>6

LEMMA NoneYet == Numbers(0) = << >> /\ Text[<< >>] = << >> /\ Events[<< >>] = << >>
<1>1. Numbers(0) \in Seq(Nat) /\ Len(Numbers(0)) = 0
  BY NumbersAre
<1>2. Numbers(0) = << >>
  BY <1>1, EmptySeq
<1> QED
  BY <1>2, TextIs, EventsIs

LEMMA FramesInitInv == FramesInit => FramesInv
<1> SUFFICES ASSUME FramesInit PROVE FramesInv
  OBVIOUS
<1>1. FramesTypeOK /\ EventsInOrder
  <2>1. << >> \in Seq(Symbols) /\ << >> \in Seq(Nat) /\ Len(<< >>) = 0
    BY EmptySeq
  <2> QED
    BY <2>1 DEF FramesInit, FramesTypeOK, EventsInOrder
<1>2. Unread = [frames |-> << >>, rest |-> << >>]
  <2>1. << >> \o << >> = << >>
    BY EmptySeq, ConcatEmptySeq
  <2>2. Text[held \o wire] = << >>
    BY <2>1, NoneYet DEF FramesInit
  <2>3. buffer \o Text[held \o wire] = << >>
    BY <2>1, <2>2 DEF FramesInit
  <2> QED
    BY <2>3, NoDelimiterInEmpty DEF Unread
<1>3. WholeFrames
  <2>1. Unread.frames = << >> /\ Unread.rest = << >>
    BY <1>2
  <2>2. AllFrames(<< >>)
    BY DEF AllFrames
  <2>3. got = << >> /\ sentEvents = 0
    BY DEF FramesInit
  <2>4. << >> \o << >> = << >>
    BY EmptySeq, ConcatEmptySeq
  <2>5. got \o Events[Unread.frames] = Numbers(sentEvents)
    BY <2>1, <2>3, <2>4, NoneYet
  <2> QED
    BY <2>1, <2>2, <2>5 DEF WholeFrames
<1>4. AtFrameEnd
  BY NoDelimiterInEmpty DEF AtFrameEnd, FramesInit
<1> QED
  BY <1>1, <1>3, <1>4 DEF FramesInv

\* One more frame on the wire, and the event that is in it.
Sends(f, x) ==
    /\ wire' = wire \o f /\ UNCHANGED <<held, buffer, got>>
    /\ Numbers(sentEvents') = Numbers(sentEvents) \o EventOf(x)

LEMMA SendsOne ==
    ASSUME FramesTypeOK, WholeFrames, NEW x, NEW f, Carries(f, x), Sends(f, x)
    PROVE  WholeFrames'
<1> DEFINE u == held \o wire
           b == buffer
           q == Split[b \o Text[u]]
           q1 == Split[b \o Text[u \o f]]
           old == q.frames
           new == <<x>>
<1>0. x \in Seq(Symbols) /\ IsFrame(x) /\ f \in Seq(Symbols)
  BY DEF Carries
<1>1. u \in Seq(Symbols) /\ b \in Seq(Symbols) /\ q = Unread /\ old \in Seq(Seq(Symbols)) /\ q.rest = << >>
  <2>1. Unread.rest = << >>
    BY DEF WholeFrames
  <2>2. q = Unread
    BY DEF Unread
  <2> HIDE DEF q
  <2> QED
    BY <2>1, <2>2, UnreadIs DEF FramesTypeOK
<1>2. Unread' = q1
  <2>1. held \o (wire \o f) = u \o f
    <3>1. held \in Seq(Symbols) /\ wire \in Seq(Symbols)
      BY DEF FramesTypeOK
    <3> QED
      BY <1>0, <3>1, ConcatAssociative
  <2>2. (held \o wire)' = held \o (wire \o f) /\ buffer' = buffer
    BY DEF Sends
  <2> QED
    BY <2>1, <2>2 DEF Unread
<1>3. q1.frames = old \o new /\ q1.rest = << >>
  <2> HIDE DEF u, b
  <2> QED
    BY <1>1, SendsFrame
<1>4. new \in Seq(Seq(Symbols))
  BY <1>0, OneInSeq
<1>5. AllFrames(old) /\ got \o Events[old] = Numbers(sentEvents)
  BY <1>1 DEF WholeFrames
<1>6. AllFrames(new)
  <2>1. Len(new) = 1 /\ new[1] = x
    BY OneInSeq
  <2> HIDE DEF new
  <2> QED
    BY <1>0, <2>1 DEF AllFrames
<1>7. Events[new] = EventOf(x)
  <2>1. new # << >> /\ new[1] = x /\ Tail(new) = << >>
    OBVIOUS
  <2>2. Events[new] = EventOf(x) \o << >>
    <3> HIDE DEF new
    <3> QED
      BY <1>4, <2>1, EventsIs
  <2>3. EventOf(x) \in Seq(Nat)
    BY <1>0, LineIs
  <2> QED
    BY <2>2, <2>3, ConcatEmptySeq
<1> HIDE DEF q, q1, new, old, u, b
<1>8. AllFrames(old \o new)
  <2> DEFINE S == Seq(Symbols)
  <2>1. old \in Seq(S) /\ new \in Seq(S)
    BY <1>1, <1>4
  <2> HIDE DEF S
  <2> QED
    BY <1>5, <1>6, <2>1, AllOfConcat
<1>9. got \o Events[old \o new] = Numbers(sentEvents')
  <2> DEFINE p == Events[old]
             e == EventOf(x)
             g == got
             z == g \o (p \o e)
  <2>1. p \in Seq(Nat) /\ e \in Seq(Nat) /\ g \in Seq(Nat)
    BY <1>0, <1>1, EventsIs, LineIs DEF FramesTypeOK
  <2>2. Events[old \o new] = p \o e
    BY <1>1, <1>4, <1>7, EventsOfConcat
  <2> DEFINE h == g \o p
  <2>3. h = Numbers(sentEvents)
    BY <1>5
  <2>4. z = h \o e
    <3>1. z = g \o (p \o e) /\ h = g \o p
      OBVIOUS
    <3> HIDE DEF p, e, g, z, h
    <3> QED
      BY <2>1, <3>1, Rejoined
  <2> HIDE DEF p, h
  <2> QED
    BY <2>2, <2>3, <2>4 DEF Sends
<1>10. Unread'.rest = << >> /\ Unread'.frames = old \o new
  BY <1>2, <1>3
<1> QED
  BY <1>8, <1>9, <1>10 DEF WholeFrames, Sends

LEMMA WireEnds ==
    ASSUME NEW w \in Seq(Symbols), NEW f \in Seq(Symbols), f # << >>
    PROVE  w \o f # << >> /\ w \o f \in Seq(Symbols) /\ (w \o f)[Len(w \o f)] = f[Len(f)]
<1> DEFINE z == w \o f
           m == Len(w)
           n == Len(f)
<1>1. /\ m \in Nat /\ n \in Nat /\ n >= 1 /\ z \in Seq(Symbols) /\ Len(z) = m + n
      /\ \A i \in 1..(m + n) : z[i] = IF i <= m THEN w[i] ELSE f[i - m]
  BY ConcatProperties, LenProperties, EmptySeq
<1> HIDE DEF z, m, n
<1> DEFINE i == m + n
<1>2. i \in 1..(m + n) /\ ~(i <= m) /\ i - m = n
  BY <1>1
<1>3. z[i] = f[i - m] /\ Len(z) = i
  <2> HIDE DEF i
  <2>1. z[i] = f[i - m]
    BY <1>1, <1>2
  <2> QED
    BY <1>1, <2>1 DEF i
<1>4. z # << >>
  BY <1>1, EmptySeq
<1> HIDE DEF i
<1>5. z # << >> /\ z \in Seq(Symbols) /\ z[Len(z)] = f[n]
  BY <1>1, <1>2, <1>3, <1>4
<1> QED
  BY <1>5 DEF z, n

\* The frames of the server.
LEMMA FramesSent ==
    /\ Carries(PingFrame, <<Byte("ping", 0)>>)
    /\ \A n \in Nat : Carries(EventFrame(n), Json(n))
    /\ PingFrame[Len(PingFrame)] = LF
    /\ \A n \in Nat : EventFrame(n)[Len(EventFrame(n))] = LF
<1>1. EndOfFrame \in Seq(Symbols) /\ EndOfFrame # << >> /\ EndOfFrame[Len(EndOfFrame)] = LF
  <2>1. EndOfFrame \in Seq(Symbols) /\ Len(EndOfFrame) = 4 /\ EndOfFrame[4] = LF
    BY FramesAre
  <2> QED
    BY <2>1, EmptySeq
<1>2. Carries(PingFrame, <<Byte("ping", 0)>>) /\ PingFrame[Len(PingFrame)] = LF
  <2> DEFINE x == <<Byte("ping", 0)>>
             f == PingFrame
  <2>1. x \in Seq(Symbols) /\ IsFrame(x) /\ f \in Seq(Symbols) /\ f # << >> /\ f[1].c = "ping" /\ Text[f] = x \o EndOfFrame
    BY FramesAre, TextOfPing, BytesAre DEF IsFrame
  <2>2. f = x \o EndOfFrame
    BY DEF PingFrame
  <2> HIDE DEF x, f
  <2>3. f[Len(f)] = LF
    BY <1>1, <2>1, <2>2, WireEnds
  <2>4. Carries(f, x)
    BY <2>1 DEF Carries
  <2> QED
    BY <2>3, <2>4 DEF x, f
<1>3. ASSUME NEW n \in Nat
      PROVE  Carries(EventFrame(n), Json(n)) /\ EventFrame(n)[Len(EventFrame(n))] = LF
  <2> DEFINE x == Json(n)
             f == EventFrame(n)
             h == <<Byte("open", n), Byte("hi", n), Byte("lo", n), Byte("close", n)>>
  <2>1. x \in Seq(Symbols) /\ IsFrame(x) /\ f \in Seq(Symbols) /\ f # << >> /\ f[1].c = "open" /\ Text[f] = x \o EndOfFrame
    BY FramesAre, TextOfEvent, BytesAre DEF IsFrame
  <2>2. f = h \o EndOfFrame /\ h \in Seq(Symbols)
    <3> DEFINE a == Byte("open", n)
               b == Byte("hi", n)
               c == Byte("lo", n)
               d == Byte("close", n)
    <3>1. a \in Symbols /\ b \in Symbols /\ c \in Symbols /\ d \in Symbols
      BY BytesAre DEF Kinds
    <3> HIDE DEF a, b, c, d
    <3>2. <<a, b, c, d>> \in Seq(Symbols)
      BY <3>1
    <3> QED
      BY <3>2 DEF a, b, c, d, EventFrame
  <2> HIDE DEF x, f, h
  <2>3. f[Len(f)] = LF
    BY <1>1, <2>1, <2>2, WireEnds
  <2>4. Carries(f, x)
    BY <2>1 DEF Carries
  <2> QED
    BY <2>3, <2>4 DEF x, f
<1> QED
  BY <1>2, <1>3

LEMMA SendsKeeps ==
    ASSUME FramesInv, NEW x, NEW f, Carries(f, x), Sends(f, x), f[Len(f)] = LF,
           sentEvents' \in Nat, sentPings' \in Nat, sentEvents <= sentEvents', reading' = reading
    PROVE  FramesInv'
<1>1. FramesTypeOK /\ f \in Seq(Symbols) /\ f # << >>
  BY DEF FramesInv, Carries
<1>2. wire' # << >> /\ wire' \in Seq(Symbols) /\ wire'[Len(wire')] = LF
  <2>1. wire' = wire \o f
    BY DEF Sends
  <2>2. wire \in Seq(Symbols)
    BY <1>1 DEF FramesTypeOK
  <2> QED
    BY <1>1, <2>1, <2>2, WireEnds
<1>3. FramesTypeOK'
  BY <1>1, <1>2 DEF FramesTypeOK, Sends
<1>4. reading' => WholeFrames'
  BY <1>1, SendsOne DEF FramesInv
<1>5. reading' => AtFrameEnd'
  BY <1>2 DEF FramesInv, AtFrameEnd, Sends
<1>6. EventsInOrder'
  <2>1. Len(got) <= sentEvents /\ Len(got) \in Nat /\ sentEvents \in Nat
    BY <1>1 DEF FramesInv, EventsInOrder, FramesTypeOK
  <2>2. got' = got
    BY DEF Sends
  <2>3. Len(got) <= sentEvents'
    BY <2>1
  <2> QED
    BY <2>2, <2>3 DEF FramesInv, EventsInOrder
<1> QED
  BY <1>3, <1>4, <1>5, <1>6 DEF FramesInv

LEMMA SendsEventInv == FramesInv /\ SendsEvent => FramesInv'
<1> SUFFICES ASSUME FramesInv, SendsEvent PROVE FramesInv'
  OBVIOUS
<1> DEFINE n == sentEvents
           m == n + 1
<1>1. n \in Nat /\ m \in Nat /\ sentPings \in Nat /\ n <= m
  BY DEF FramesInv, FramesTypeOK
<1>2. sentEvents' = m /\ wire' = wire \o EventFrame(m) /\ UNCHANGED <<sentPings, held, buffer, got, reading>>
  BY DEF SendsEvent
<1>3. Numbers(n) \o <<m>> = Numbers(m)
  BY <1>1, NumbersAre
<1> HIDE DEF m
<1>4. EventOf(Json(m)) = <<m>>
  BY <1>1, EventOfFrame
<1>5. Numbers(sentEvents') = Numbers(sentEvents) \o EventOf(Json(m))
  BY <1>2, <1>3, <1>4
<1>6. Sends(EventFrame(m), Json(m))
  BY <1>2, <1>5 DEF Sends
<1>7. Carries(EventFrame(m), Json(m)) /\ EventFrame(m)[Len(EventFrame(m))] = LF
  BY <1>1, FramesSent
<1> QED
  BY <1>1, <1>2, <1>6, <1>7, SendsKeeps

LEMMA SendsPingInv == FramesInv /\ SendsPing => FramesInv'
<1> SUFFICES ASSUME FramesInv, SendsPing PROVE FramesInv'
  OBVIOUS
<1> DEFINE n == sentEvents
           x == <<Byte("ping", 0)>>
<1>1. n \in Nat /\ sentPings + 1 \in Nat /\ n <= n
  BY DEF FramesInv, FramesTypeOK
<1>2. sentPings' = sentPings + 1 /\ wire' = wire \o PingFrame /\ UNCHANGED <<sentEvents, held, buffer, got, reading>>
  BY DEF SendsPing
<1>3. Numbers(n) \o << >> = Numbers(n)
  BY <1>1, NumbersAre, ConcatEmptySeq
<1>4. EventOf(x) = << >>
  BY EventOfFrame
<1>5. Carries(PingFrame, x) /\ PingFrame[Len(PingFrame)] = LF
  BY FramesSent
<1> HIDE DEF x
<1>6. Numbers(sentEvents') = Numbers(sentEvents) \o EventOf(x)
  BY <1>2, <1>3, <1>4
<1>7. Sends(PingFrame, x)
  BY <1>2, <1>6 DEF Sends
<1> QED
  BY <1>1, <1>2, <1>5, <1>7, SendsKeeps

LEMMA ReadsChunkInv == FramesInv /\ ReadsChunk => FramesInv'
<1> SUFFICES ASSUME FramesInv, ReadsChunk PROVE FramesInv'
  OBVIOUS
<1>1. PICK k \in 1..Len(wire) :
        /\ reading
        /\ wire' = SubSeq(wire, k + 1, Len(wire))
        /\ held' = HeldBack(held \o SubSeq(wire, 1, k))
        /\ buffer' = Split[buffer \o Decode(held \o SubSeq(wire, 1, k))].rest
        /\ got' = got \o Events[Split[buffer \o Decode(held \o SubSeq(wire, 1, k))].frames]
        /\ UNCHANGED <<sentEvents, sentPings, reading>>
  BY DEF ReadsChunk
<1> DEFINE v == SubSeq(wire, 1, k)
           w == SubSeq(wire, k + 1, Len(wire))
           n == Len(wire)
           s == held \o v
           cut == Split[buffer \o Decode(s)]
           cf == cut.frames
           mf == Unread'.frames
<1>2. FramesTypeOK /\ WholeFrames /\ AtFrameEnd
  BY <1>1 DEF FramesInv
<1>3. /\ wire \in Seq(Symbols) /\ held \in Seq(Symbols) /\ buffer \in Seq(Symbols) /\ got \in Seq(Nat)
      /\ n \in Nat /\ k \in 1..n /\ sentEvents \in Nat /\ wire # << >> /\ wire[n] = LF
  <2>1. wire \in Seq(Symbols) /\ held \in Seq(Symbols) /\ buffer \in Seq(Symbols) /\ got \in Seq(Nat)
        /\ sentEvents \in Nat /\ n \in Nat /\ k \in 1..n
    BY <1>2, LenProperties DEF FramesTypeOK
  <2>2. wire # << >>
    BY <2>1, EmptySeq
  <2> QED
    BY <1>2, <2>1, <2>2 DEF AtFrameEnd
<1>4. /\ v \in Seq(Symbols) /\ Len(v) = k /\ v[k] = wire[k]
      /\ w \in Seq(Symbols) /\ Len(w) = n - k /\ (k < n => w[n - k] = wire[n])
      /\ v \o w = wire
  <2>1. \A i \in 1..n : wire[i] \in Symbols
    BY <1>3, ElementOfSeq
  <2>2. v \in Seq(Symbols) /\ Len(v) = k /\ v[k] = wire[k]
    <3>1. \A i \in 1..k : wire[i] \in Symbols
      BY <1>3, <2>1
    <3>2. k \in Int /\ k \in Nat /\ k >= 1
      BY <1>3
    <3>3. v \in Seq(Symbols) /\ Len(v) = (IF 1 <= k THEN k - 1 + 1 ELSE 0) /\ \A i \in 1..(k - 1 + 1) : v[i] = wire[1 + i - 1]
      BY <3>1, <3>2, SubSeqProperties
    <3> HIDE DEF v
    <3>4. \A i \in 1..k : v[i] = wire[i]
      BY <3>2, <3>3
    <3> QED
      BY <3>2, <3>3, <3>4
  <2>3. w \in Seq(Symbols) /\ Len(w) = n - k /\ (k < n => w[n - k] = wire[n])
    <3> DEFINE lo == k + 1
               h == n - k
    <3>0. lo \in Nat /\ n \in Nat /\ h \in Nat /\ lo >= 1 /\ n - lo + 1 = h /\ (lo <= n <=> h >= 1) /\ lo + h - 1 = n
      BY <1>3
    <3>1. w = SubSeq(wire, lo, n)
      OBVIOUS
    <3>2. h >= 1 <=> k < n
      BY <1>3
    <3> HIDE DEF lo, w, n
    <3>3. \A i \in lo..n : wire[i] \in Symbols
      BY <2>1, <3>0
    <3>4. lo \in Int /\ n \in Int
      BY <3>0
    <3>5. /\ SubSeq(wire, lo, n) \in Seq(Symbols)
          /\ Len(SubSeq(wire, lo, n)) = (IF lo <= n THEN n - lo + 1 ELSE 0)
          /\ \A i \in 1..(n - lo + 1) : SubSeq(wire, lo, n)[i] = wire[lo + i - 1]
      BY <3>3, <3>4, SubSeqProperties
    <3> HIDE DEF h
    <3>6. Len(w) = h
      BY <3>0, <3>1, <3>5
    <3>7. h >= 1 => w[h] = wire[n]
      BY <3>0, <3>1, <3>5
    <3> QED
      BY <3>1, <3>2, <3>5, <3>6, <3>7 DEF h
  <2>4. v \o w = wire
    <3>1. SubSeq(wire, 1, k) \o SubSeq(wire, k + 1, n) = SubSeq(wire, 1, n)
      <4>1. 1 \in 1..(n + 1) /\ k \in (1 - 1)..n /\ n \in k..n
        BY <1>3
      <4> QED
        BY <1>3, <4>1, ConcatAdjacentSubSeq
    <3>2. SubSeq(wire, 1, n) = wire
      BY <1>3, SubSeqFull
    <3> QED
      BY <3>1, <3>2
  <2> QED
    BY <2>2, <2>3, <2>4
<1>5. /\ wire' = w /\ held' = HeldBack(s) /\ buffer' = cut.rest /\ got' = got \o Events[cf] /\ reading
      /\ sentEvents' = sentEvents /\ sentPings' = sentPings /\ reading' = reading
  BY <1>1
<1>6. /\ cut.rest \in Seq(Symbols) /\ cf \in Seq(Seq(Symbols)) /\ HeldBack(s) \in Seq(Symbols)
      /\ mf \in Seq(Seq(Symbols)) /\ Delimited(cut.rest) = {}
      /\ Unread.frames = cf \o mf /\ Unread.rest = Unread'.rest
  <2> DEFINE more == Split[cut.rest \o Text[HeldBack(s) \o w]]
             all == Split[buffer \o Text[held \o (v \o w)]]
  <2>1. /\ cut.rest \in Seq(Symbols) /\ cf \in Seq(Seq(Symbols)) /\ HeldBack(s) \in Seq(Symbols)
        /\ more.frames \in Seq(Seq(Symbols)) /\ Delimited(cut.rest) = {}
        /\ all.frames = cf \o more.frames /\ all.rest = more.rest
    <3>1. ReadInParts(buffer, held, v, w)
      <4> HIDE DEF v, w
      <4> QED
        BY <1>3, <1>4, ReadsPart
    <3> HIDE DEF v, w
    <3> QED
      BY <3>1 DEF ReadInParts
  <2>2. all = Unread
    BY <1>4 DEF Unread
  <2>3. Unread' = more
    BY <1>5 DEF Unread
  <2> HIDE DEF all, more, cut, s
  <2> QED
    BY <2>1, <2>2, <2>3
<1>7. w = << >> => HeldBack(s) = << >>
  <2> SUFFICES ASSUME w = << >> PROVE HeldBack(s) = << >>
    OBVIOUS
  <2>1. Len(w) = 0
    BY EmptySeq
  <2>2. k = n
    <3> HIDE DEF n, w
    <3> QED
      BY <1>3, <1>4, <2>1
  <2>3. v # << >> /\ v[Len(v)] = LF
    <3> HIDE DEF v, w
    <3>1. Len(v) # 0
      BY <1>3, <1>4
    <3> QED
      BY <1>3, <1>4, <2>2, <3>1, EmptySeq
  <2> HIDE DEF v, w
  <2>4. s # << >> /\ s \in Seq(Symbols) /\ s[Len(s)] = LF
    BY <1>3, <1>4, <2>3, WireEnds
  <2> HIDE DEF s
  <2>5. s[Len(s)].c # "hi"
    BY <2>4, TwoLineEnds
  <2> QED
    BY <2>4, <2>5, HeldIs
<1>8. w # << >> => w[Len(w)] = LF
  <2> SUFFICES ASSUME w # << >> PROVE w[Len(w)] = LF
    OBVIOUS
  <2>1. Len(w) \in Nat /\ Len(w) # 0
    <3> HIDE DEF w
    <3> QED
      BY <1>4, EmptySeq
  <2>2. k < n
    <3> HIDE DEF w, n
    <3> QED
      BY <1>3, <1>4, <2>1
  <2> HIDE DEF w, n
  <2> QED
    BY <1>3, <1>4, <2>2
<1> HIDE DEF v, w, n, s, cut, cf, mf
<1>9. Events[cf] \in Seq(Nat) /\ Events[mf] \in Seq(Nat)
  BY <1>6, EventsIs
<1>10. got' \in Seq(Nat)
  BY <1>3, <1>5, <1>9, ConcatProperties
<1>11. FramesTypeOK'
  BY <1>2, <1>4, <1>5, <1>6, <1>10 DEF FramesTypeOK
<1>12. AtFrameEnd'
  BY <1>5, <1>6, <1>7, <1>8 DEF AtFrameEnd
<1>13. AllFrames(mf)
  <2> DEFINE S == Seq(Symbols)
  <2>1. cf \in Seq(S) /\ mf \in Seq(S)
    BY <1>6
  <2>2. AllFrames(cf \o mf)
    BY <1>2, <1>6 DEF WholeFrames
  <2> HIDE DEF S
  <2> QED
    BY <2>1, <2>2, AllOfConcat
<1>14. got' \o Events[mf] = Numbers(sentEvents)
  <2> DEFINE p == Events[cf]
             e == Events[mf]
             g == got
             z == g \o (p \o e)
             h == got'
  <2>1. z = Numbers(sentEvents)
    <3>1. Events[cf \o mf] = p \o e
      BY <1>6, EventsOfConcat
    <3> QED
      BY <1>2, <1>6, <3>1 DEF WholeFrames
  <2>2. z = g \o (p \o e) /\ h = g \o p /\ p \in Seq(Nat) /\ e \in Seq(Nat) /\ g \in Seq(Nat)
    BY <1>3, <1>5, <1>9
  <2>3. z = h \o e
    <3> HIDE DEF p, e, g
    <3>1. IsJoined(Nat, g, p, e)
      BY <2>2, JoinedText
    <3> QED
      BY <2>2, <3>1 DEF IsJoined
  <2> HIDE DEF z
  <2> QED
    BY <2>1, <2>3
<1>15. WholeFrames'
  <2>1. Unread'.rest = << >>
    BY <1>2, <1>6 DEF WholeFrames
  <2> QED
    BY <1>5, <1>13, <1>14, <2>1 DEF WholeFrames, mf
<1>16. EventsInOrder'
  <2> DEFINE h == got'
  <2>1. h \in Seq(Nat) /\ h \o Events[mf] = Numbers(sentEvents)
    BY <1>10, <1>14
  <2>2. Len(h) <= sentEvents /\ \A i \in 1..Len(h) : h[i] = i
    <3> HIDE DEF h
    <3> QED
      BY <1>3, <1>9, <2>1, PartOfNumbers
  <2> QED
    BY <1>5, <2>2 DEF EventsInOrder
<1> QED
  BY <1>11, <1>12, <1>15, <1>16 DEF FramesInv

LEMMA StreamEndsInv == FramesInv /\ StreamEnds => FramesInv'
<1> SUFFICES ASSUME FramesInv, StreamEnds PROVE FramesInv'
  OBVIOUS
<1> DEFINE t == Text[held \o wire]
           s == buffer \o t
           e == EventOf(buffer)
           us == Unread.frames
<1>1. /\ reading /\ reading' = FALSE /\ buffer' = << >> /\ held' = << >> /\ wire' = << >>
      /\ got' = got \o e /\ sentEvents' = sentEvents /\ sentPings' = sentPings
  BY DEF StreamEnds, LastFrame
<1>2. FramesTypeOK /\ WholeFrames /\ AtFrameEnd
  BY <1>1 DEF FramesInv
<1>3. /\ t \in Seq(Symbols) /\ s \in Seq(Symbols) /\ Unread = Split[s] /\ us \in Seq(Seq(Symbols))
      /\ buffer \in Seq(Symbols) /\ got \in Seq(Nat) /\ sentEvents \in Nat
  BY <1>2, UnreadIs DEF Unread, FramesTypeOK
<1>4. Unread.rest = << >> /\ AllFrames(us) /\ got \o Events[us] = Numbers(sentEvents) /\ Delimited(buffer) = {}
  BY <1>2 DEF WholeFrames, AtFrameEnd
<1>5. e \in Seq(Nat)
  BY <1>3, LineIs
<1>6. \E more \in Seq(Nat) : got' \o more = Numbers(sentEvents)
  <2>1. CASE e = << >>
    <3>1. got' = got
      BY <1>1, <1>3, <2>1, ConcatEmptySeq
    <3>2. Events[us] \in Seq(Nat)
      BY <1>3, EventsIs
    <3> QED
      BY <1>4, <3>1, <3>2
  <2>2. CASE e # << >>
    <3>1. Delimited(s) # {}
      <4> SUFFICES ASSUME Delimited(s) = {} PROVE FALSE
        OBVIOUS
      <4>1. Unread.rest = s
        <5>1. Split[s] = [frames |-> << >>, rest |-> s]
          <6> HIDE DEF s
          <6> QED
            BY <1>3, SplitIs
        <5> HIDE DEF s
        <5> QED
          BY <1>3, <5>1
      <4>2. s = << >>
        BY <1>4, <4>1
      <4>3. buffer = << >>
        <5> HIDE DEF t
        <5> QED
          BY <1>3, <4>2, ConcatEqualIffEmpty
      <4>4. EventOf(<< >>) = << >>
        <5>1. LineEnds(<< >>) = {}
          BY DEF LineEnds
        <5>2. FirstLine(<< >>) = << >>
          BY <5>1 DEF FirstLine
        <5> QED
          BY <5>2 DEF EventOf
      <4> QED
        BY <2>2, <4>3, <4>4
    <3> DEFINE x == Before(s)
               more == Split[After(s)]
               fs == more.frames
    <3>2. x \in Seq(Symbols) /\ After(s) \in Seq(Symbols) /\ Unread = CutOff(x, more)
      <4> HIDE DEF s
      <4> QED
        BY <1>3, <3>1, PartsAre, SplitIs
    <3>3. fs \in Seq(Seq(Symbols))
      <4>1. more \in Cuts
        BY <3>2, SplitIs
      <4> HIDE DEF more
      <4> QED
        BY <4>1 DEF Cuts
    <3>4. us = <<x>> \o fs
      <4> HIDE DEF x, more
      <4> QED
        BY <3>2, CutOffIs
    <3>5. <<x>> \in Seq(Seq(Symbols)) /\ Len(<<x>>) = 1 /\ <<x>>[1] = x /\ <<x>> # << >>
      <4> HIDE DEF x
      <4> QED
        BY <3>2, OneInSeq
    <3> DEFINE one == <<x>>
    <3>6. IsFrame(x)
      <4> DEFINE S == Seq(Symbols)
      <4>1. one \in Seq(S) /\ fs \in Seq(S) /\ Len(one) = 1 /\ one[1] = x
        BY <3>3, <3>5
      <4>2. AllFrames(one \o fs)
        BY <1>4, <3>4
      <4> HIDE DEF S, one, fs, x
      <4>3. AllFrames(one)
        BY <4>1, <4>2, AllOfConcat
      <4> QED
        BY <4>1, <4>3 DEF AllFrames
    <3>7. e = EventOf(x)
      <4>1. EventOf(buffer) = << >> \/ EventOf(buffer) = EventOf(Before(buffer \o t))
        <5> HIDE DEF t
        <5> QED
          BY <1>3, <1>4, <3>1, <3>6, PartOfFrame
      <4> QED
        BY <2>2, <4>1
    <3>8. Events[us] = e \o Events[fs]
      <4>1. us # << >> /\ us[1] = x /\ Tail(us) = fs
        <5> DEFINE S == Seq(Symbols)
        <5>1. one \in Seq(S) /\ fs \in Seq(S) /\ one # << >> /\ one[1] = x /\ us = one \o fs
          BY <3>3, <3>4, <3>5
        <5>2. Tail(one) = << >>
          OBVIOUS
        <5> HIDE DEF S, one, fs, x, us
        <5>3. Tail(us) = << >> \o fs /\ us # << >> /\ us[1] = x
          BY <5>1, <5>2, TailOfConcat
        <5> QED
          BY <5>1, <5>3, ConcatEmptySeq
      <4> HIDE DEF us, fs, x, e
      <4> QED
        BY <1>3, <3>7, <4>1, EventsIs
    <3>9. Events[fs] \in Seq(Nat)
      BY <3>3, EventsIs
    <3>10. got' \o Events[fs] = Numbers(sentEvents)
      <4> DEFINE r == Events[fs]
                 g == got
      <4>1. IsJoined(Nat, g, e, r)
        <5> HIDE DEF r, e
        <5> QED
          BY <1>3, <1>5, <3>9, JoinedText DEF r
      <4>2. g \o (e \o r) = Numbers(sentEvents) /\ got' = g \o e
        BY <1>1, <1>4, <3>8
      <4> HIDE DEF r, e, g
      <4>3. got' \o r = Numbers(sentEvents)
        BY <4>1, <4>2 DEF IsJoined
      <4> QED
        BY <4>3 DEF r
    <3> QED
      BY <3>9, <3>10
  <2> QED
    BY <2>1, <2>2
<1> HIDE DEF e, t, s, us
<1>7. got' \in Seq(Nat)
  BY <1>1, <1>3, <1>5, ConcatProperties
<1>8. EventsInOrder'
  <2> DEFINE h == got'
             n == sentEvents
  <2>1. PICK more \in Seq(Nat) : h \o more = Numbers(n)
    BY <1>6
  <2>2. h \in Seq(Nat) /\ n \in Nat
    BY <1>3, <1>7
  <2> HIDE DEF h, n
  <2>3. Len(h) <= n /\ \A i \in 1..Len(h) : h[i] = i
    BY <2>1, <2>2, PartOfNumbers
  <2> QED
    BY <1>1, <2>3 DEF EventsInOrder, h, n
<1>9. FramesTypeOK'
  <2>1. << >> \in Seq(Symbols)
    BY EmptySeq
  <2> QED
    BY <1>1, <1>2, <1>7, <2>1 DEF FramesTypeOK
<1> QED
  BY <1>1, <1>8, <1>9 DEF FramesInv

LEMMA StreamBreaksInv == FramesInv /\ StreamBreaks => FramesInv'
<1>1. << >> \in Seq(Symbols)
  BY EmptySeq
<1> QED
  BY <1>1 DEF FramesInv, StreamBreaks, FramesTypeOK, EventsInOrder

\* However the bytes are cut into chunks, what was handled and what is unread
\* are together the events that were sent, and the buffer holds no whole frame.
THEOREM FramesInvariance == FramesSpec => []FramesInv
<1>1. FramesInit => FramesInv
  BY FramesInitInv
<1>2. FramesInv /\ [FramesNext]_framesVars => FramesInv'
  <2> SUFFICES ASSUME FramesInv, [FramesNext]_framesVars PROVE FramesInv'
    OBVIOUS
  <2>1. CASE SendsEvent
    BY <2>1, SendsEventInv
  <2>2. CASE SendsPing
    BY <2>2, SendsPingInv
  <2>3. CASE ReadsChunk
    BY <2>3, ReadsChunkInv
  <2>4. CASE StreamEnds
    BY <2>4, StreamEndsInv
  <2>5. CASE StreamBreaks
    BY <2>5, StreamBreaksInv
  <2>6. CASE UNCHANGED framesVars
    BY <2>6 DEF framesVars, FramesInv, FramesTypeOK, WholeFrames, AtFrameEnd, Unread, EventsInOrder
  <2> QED
    BY <2>1, <2>2, <2>3, <2>4, <2>5, <2>6 DEF FramesNext
<1> QED
  BY <1>1, <1>2, PTL DEF FramesSpec

\* The events that are handled are the first ones sent, in order, each once.
THEOREM FramesArriveInOrder == FramesSpec => []EventsInOrder
<1>1. FramesInv => EventsInOrder
  BY DEF FramesInv
<1> QED
  BY <1>1, FramesInvariance, PTL

\* When all that was sent has been read all of it was handled.
THEOREM NothingIsKept == FramesSpec => []NoEventWaits
<1>1. FramesInv => NoEventWaits
  <2> SUFFICES ASSUME FramesInv, reading, wire = << >> PROVE Len(got) = sentEvents
    BY DEF NoEventWaits
  <2>1. FramesTypeOK /\ WholeFrames /\ AtFrameEnd /\ held = << >>
    BY DEF FramesInv, AtFrameEnd
  <2>2. buffer \in Seq(Symbols) /\ got \in Seq(Nat) /\ sentEvents \in Nat /\ Delimited(buffer) = {}
    BY <2>1 DEF FramesTypeOK, AtFrameEnd
  <2>3. Text[held \o wire] = << >>
    <3>1. << >> \o << >> = << >>
      BY EmptySeq, ConcatEmptySeq
    <3> QED
      BY <2>1, <3>1, NoneYet
  <2>4. buffer \o << >> = buffer
    BY <2>2, ConcatEmptySeq
  <2>5. Unread = [frames |-> << >>, rest |-> buffer]
    BY <2>2, <2>3, <2>4, SplitIs DEF Unread
  <2>6. Events[Unread.frames] = << >>
    BY <2>5, NoneYet
  <2>7. got \o << >> = Numbers(sentEvents)
    BY <2>1, <2>6 DEF WholeFrames
  <2>8. got \o << >> = got
    BY <2>2, ConcatEmptySeq
  <2> QED
    BY <2>2, <2>7, <2>8, NumbersAre
<1> QED
  BY <1>1, FramesInvariance, PTL

=============================================================================

--------------------------- MODULE LruListProofs ---------------------------
(***************************************************************************)
(* Proofs about LruList for any set of pages: the links stay consistent    *)
(* and form one ring, every listed page is mapped, and the list implements *)
(* the queue of module ClockQueue.                                         *)
(*                                                                         *)
(* The inductive invariant says that the listed pages can be numbered      *)
(* along the links, forwards and backwards, from lru_head.  That they form *)
(* one ring follows, and the numbering is the order in which the queue     *)
(* holds them.  Taking out the i-th page is taking out the last one of the *)
(* same ring, started behind i; the result, started again where lru_head   *)
(* points, is the queue that Leave or Evict promises.                      *)
(***************************************************************************)
EXTENDS LruList, FiniteSetTheorems, SequenceTheorems, WellFoundedInduction, TLAPS

\* The index behind i in a ring of n.
Behind(i, n) == IF i = n THEN 1 ELSE i + 1

\* s is the ring of the n pages of L along the links nx and back along pv.
Chain(s, n, L, nx, pv) ==
  /\ n \in Nat /\ s \in [1..n -> L]
  /\ \A p \in L : \E i \in 1..n : s[i] = p
  /\ \A i, j \in 1..n : s[i] = s[j] => i = j
  /\ \A i \in 1..n : nx[s[i]] = s[Behind(i, n)] /\ pv[s[Behind(i, n)]] = s[i]

\* The same, and hd is the first page or, if there is none, NULL.
IsList(s, n, L, nx, pv, hd) ==
  /\ Chain(s, n, L, nx, pv)
  /\ hd = IF n = 0 THEN NULL ELSE s[1]

\* s lists the pages of pages[] that are linked, from lru_head.
Lists(s, n) == IsList(s, n, Linked, next, prev, lru_head)
Listable == \E s, n : Lists(s, n)

\* A page with no next has no prev.
Unlisted == \A p \in Page : next[p] = NULL => prev[p] = NULL

\* The inductive invariant.
Inv == TypeOK /\ Listable /\ Unlisted /\ ListedMapped

-----------------------------------------------------------------------------
(* The order of the list. *)

\* The smallest element of a set, for any well-founded relation.
LEMMA Minimal ==
  ASSUME NEW R, IsWellFoundedOn(R, Nat), NEW S, S \subseteq Nat, S # {}
  PROVE  \E m \in S : \A k \in S : ~(<<k, m>> \in R)
BY WFMin, Zenon

\* A set of naturals has a least element.
LEMMA Least ==
  ASSUME NEW S, S \subseteq Nat, S # {}
  PROVE  \E m \in S : \A k \in S : m <= k
<1>1. PICK R : IsWellFoundedOn(R, Nat) /\ \A k, m \in Nat : <<k, m>> \in R <=> k < m
  <2>1. \A k, m \in Nat : <<k, m>> \in OpToRel(<, Nat) <=> k < m
    BY DEF OpToRel
  <2> QED
    BY <2>1, NatLessThanWellFounded, Zenon
<1>2. IsWellFoundedOn(R, Nat)
  BY <1>1, Zenon
<1>3. PICK m \in S : \A k \in S : ~(<<k, m>> \in R)
  BY <1>2, Minimal, Zenon
<1>4. \A k \in S : ~(k < m)
  BY <1>1, <1>3, Zenon
<1> QED
  BY <1>4

\* The walk along next from lru_head, in n steps.
Walk(f, n) == f = [i \in 1..n |-> IF i = 1 THEN lru_head ELSE next[f[i - 1]]]

\* There is only one such walk: two differ nowhere first.
LEMMA WalkUnique ==
  ASSUME NEW n \in Nat, NEW f, NEW g, Walk(f, n), Walk(g, n)
  PROVE  f = g
<1>1. SUFFICES ASSUME f # g
               PROVE  FALSE
  OBVIOUS
<1> DEFINE S == {i \in 1..n : f[i] # g[i]}
<1>2. DOMAIN f = 1..n /\ DOMAIN g = 1..n /\ f = [i \in 1..n |-> f[i]] /\ g = [i \in 1..n |-> g[i]]
  BY DEF Walk
<1>3. \A i \in 1..n : /\ f[i] = (IF i = 1 THEN lru_head ELSE next[f[i - 1]])
                      /\ g[i] = (IF i = 1 THEN lru_head ELSE next[g[i - 1]])
  BY DEF Walk
<1>4. S \subseteq Nat /\ S # {}
  BY <1>1, <1>2
<1>5. PICK m \in S : \A k \in S : m <= k
  BY <1>4, Least, Zenon
<1>6. CASE m = 1
  BY <1>3, <1>6
<1>7. CASE m # 1
  <2>1. m - 1 \in 1..n /\ m \in 1..n /\ ~(m <= m - 1)
    BY <1>7
  <2>2. f[m - 1] = g[m - 1]
    BY <1>5, <2>1
  <2> QED
    BY <1>3, <1>7, <2>1, <2>2
<1> QED
  BY <1>6, <1>7

\* The list is that walk.
LEMMA ListWalks ==
  ASSUME NEW s, NEW n, Lists(s, n)
  PROVE Walk(s, n)
<1>1. \A i \in 1..n : s[i] = IF i = 1 THEN lru_head ELSE next[s[i - 1]]
  <2> TAKE i \in 1..n
  <2>1. CASE i = 1
    BY <2>1 DEF Lists, IsList, Chain, Behind
  <2>2. CASE i # 1
    <3>1. i - 1 \in 1..n /\ i - 1 # n /\ (i - 1) + 1 = i
      BY <2>2 DEF Lists, IsList, Chain, Behind
    <3> QED
      BY <2>2, <3>1 DEF Lists, IsList, Chain, Behind
  <2> QED
    BY <2>1, <2>2
<1>2. s = [i \in 1..n |-> s[i]]
  BY DEF Lists, IsList, Chain, Behind
<1> QED
  BY <1>1, <1>2, Zenon DEF Walk

\* It is as long as there are listed pages.
LEMMA ListCount ==
  ASSUME NEW s, NEW n, Lists(s, n)
  PROVE IsFiniteSet(Linked) /\ Cardinality(Linked) = n
<1>1. n \in Nat /\ s \in Bijection(1..n, Linked)
  <2>1. n \in Nat /\ s \in Injection(1..n, Linked)
     BY DEF Lists, IsList, Chain, Behind, Injection, IsInjective
  <2>2. s \in Surjection(1..n, Linked)
     BY DEF Lists, IsList, Chain, Behind, Surjection
  <2> QED
    BY <2>1, <2>2 DEF Bijection
<1>2. ExistsBijection(1..n, Linked)
  BY <1>1 DEF ExistsBijection
<1>3. IsFiniteSet(Linked)
  BY <1>1, <1>2, FS_NatBijection, Zenon
<1> QED
  BY <1>1, <1>2, <1>3, FS_CountingElements, Zenon

\* So Order, the walk of the length of the list, is the list.
LEMMA OrderIs ==
  ASSUME NEW s, NEW n, Lists(s, n)
  PROVE  Order = s
<1>1. /\ n \in Nat /\ s = [i \in 1..n |-> s[i]]
      /\ Walk(s, n) /\ Cardinality(Linked) = n
  <2>1. n \in Nat /\ s = [i \in 1..n |-> s[i]]
    BY DEF Lists, IsList, Chain, Behind
  <2>2. Walk(s, n) /\ Cardinality(Linked) = n
    BY ListWalks, ListCount, Zenon
  <2> QED
    BY <2>1, <2>2
<1>2. PICK f : f = CHOOSE g : g = [i \in 1..n |-> IF i = 1 THEN lru_head ELSE next[g[i - 1]]]
  OBVIOUS
<1>3. Walk(f, n)
  BY <1>1, <1>2, Zenon DEF Walk
<1>4. f = s
  BY <1>1, <1>3, WalkUnique, Zenon
<1>5. Order = [i \in 1..n |-> f[i]]
  BY <1>1, <1>2 DEF Order
<1> QED
  BY <1>1, <1>4, <1>5


\* Whatever follows the links follows the list, so it goes all the way round.
LEMMA ListIsOneRing ==
  ASSUME NEW s, NEW n, Lists(s, n)
  PROVE  OneRing
<1> SUFFICES ASSUME NEW S \in SUBSET Linked, S # {}, \A q \in S : next[q] \in S, S # Linked
             PROVE  FALSE
  BY DEF OneRing
<1>1. /\ n \in Nat /\ \A p \in Linked : \E i \in 1..n : s[i] = p
      /\ \A i \in 1..n : s[i] \in S => s[Behind(i, n)] \in S
  BY DEF Lists, IsList, Chain
<1> DEFINE Out == {i \in 1..n : s[i] \notin S}
           In == {k \in 0..n : n - k \in 1..n /\ s[n - k] \in S}
<1>2. Out \subseteq Nat /\ Out # {} /\ In \subseteq Nat
  BY <1>1
<1>3. In # {}
  <2>1. PICK i \in 1..n : s[i] \in S
    BY <1>1
  <2>2. n - i \in 0..n /\ n - (n - i) = i
    BY <1>1
  <2> QED
    BY <2>1, <2>2
<1>4. PICK m \in Out : \A k \in Out : m <= k
  BY <1>2, Least, Zenon
<1>5. PICK k \in In : \A j \in In : k <= j
  BY <1>2, <1>3, Least, Zenon
<1>6. m = 1
  <2> SUFFICES ASSUME m # 1
               PROVE  FALSE
    OBVIOUS
  <2>1. m - 1 \in 1..n /\ m \in 1..n /\ ~(m <= m - 1) /\ Behind(m - 1, n) = m
    BY <1>1 DEF Behind
  <2> QED
    BY <1>1, <1>4, <2>1
<1>7. n - k \in 1..n /\ s[n - k] \in S /\ s[Behind(n - k, n)] \in S
  BY <1>1
<1>8. n - k # n
  BY <1>6, <1>7 DEF Behind
<1>9. Behind(n - k, n) = n - (k - 1) /\ k - 1 \in 0..n /\ n - (k - 1) \in 1..n /\ ~(k <= k - 1)
  BY <1>1, <1>7, <1>8 DEF Behind
<1> QED
  BY <1>5, <1>7, <1>9

\* The links of a list are inverse to each other.
LEMMA ListIsRing ==
  ASSUME TypeOK, Unlisted, NEW s, NEW n, Lists(s, n)
  PROVE  Ring
<1>1. /\ n \in Nat /\ s \in [1..n -> Linked] /\ \A p \in Linked : \E i \in 1..n : s[i] = p
      /\ \A i \in 1..n : /\ Behind(i, n) \in 1..n
                         /\ next[s[i]] = s[Behind(i, n)] /\ prev[s[Behind(i, n)]] = s[i]
      /\ lru_head = IF n = 0 THEN NULL ELSE s[1]
  BY DEF Lists, IsList, Chain, Behind
<1>2. ASSUME NEW p \in Linked
      PROVE  /\ p \in Page /\ next[p] \in Linked /\ prev[next[p]] = p
             /\ prev[p] \in Linked /\ next[prev[p]] = p /\ prev[p] # NULL
  <2>1. PICK i \in 1..n : s[i] = p
    BY <1>1
  <2>2. PICK k \in 1..n : Behind(k, n) = i
    <3>1. (IF i = 1 THEN n ELSE i - 1) \in 1..n /\ Behind(IF i = 1 THEN n ELSE i - 1, n) = i
      BY <1>1 DEF Behind
    <3> QED
      BY <3>1
  <2>3. prev[p] = s[k] /\ next[prev[p]] = p
    BY <1>1, <2>1, <2>2, Zenon
  <2>4. next[p] = s[Behind(i, n)] /\ prev[next[p]] = p
    BY <1>1, <2>1, Zenon
  <2>5. s[k] \in Linked /\ s[Behind(i, n)] \in Linked
    BY <1>1
  <2>6. p \in Page /\ next[p] \in Linked /\ prev[p] \in Linked
    BY <2>3, <2>4, <2>5 DEF Linked
  <2> QED
    BY <2>3, <2>4, <2>6, NullAssumption DEF Linked
<1>3. IF lru_head = NULL THEN Linked = {} ELSE lru_head \in Linked
  <2>1. CASE n = 0
    BY <1>1, <2>1
  <2>2. CASE n # 0
    BY <1>1, <2>2, NullAssumption DEF Linked
  <2> QED
    BY <2>1, <2>2
<1>4. \A p \in Page : next[p] = NULL <=> prev[p] = NULL
  BY <1>2 DEF Unlisted, Linked
<1> QED
  BY <1>2, <1>3, <1>4 DEF Ring

-----------------------------------------------------------------------------
(* Taking a page out of the ring. *)

\* The index of the j-th place in a ring of n that starts behind place r.
At(j, n, r) == IF j <= n - r THEN j + r ELSE j - (n - r)

\* The ring s from behind place r, and what is left without the page there.
Turn(s, n, r) == [j \in 1..n |-> s[At(j, n, r)]]
Rest(s, n, r) == [j \in 1..(n - 1) |-> s[At(j, n, r)]]

\* Turning a ring permutes its places and keeps them behind each other.
LEMMA Places ==
  ASSUME NEW n \in Nat, NEW r \in 0..n, NEW j \in 1..n
  PROVE  /\ At(j, n, r) \in 1..n /\ At(j, n, n - r) \in 1..n /\ Behind(j, n) \in 1..n
         /\ At(Behind(j, n), n, r) = Behind(At(j, n, r), n)
         /\ At(At(j, n, r), n, n - r) = j
         /\ At(At(j, n, n - r), n, r) = j
BY DEF At, Behind

\* A ring is a ring from each of its pages.
LEMMA TurnedChain ==
  ASSUME NEW s, NEW n, NEW L, NEW nx, NEW pv, Chain(s, n, L, nx, pv), NEW r \in 0..n
  PROVE  Chain(Turn(s, n, r), n, L, nx, pv)
<1>1. PICK t : t = Turn(s, n, r)
  OBVIOUS
<1>2. /\ n \in Nat /\ n - r \in 0..n /\ s \in [1..n -> L]
      /\ \A p \in L : \E i \in 1..n : s[i] = p
      /\ \A i, j \in 1..n : s[i] = s[j] => i = j
      /\ \A i \in 1..n : nx[s[i]] = s[Behind(i, n)] /\ pv[s[Behind(i, n)]] = s[i]
  BY DEF Chain
<1>3. \A j \in 1..n : /\ At(j, n, r) \in 1..n /\ At(j, n, n - r) \in 1..n /\ Behind(j, n) \in 1..n
                      /\ At(Behind(j, n), n, r) = Behind(At(j, n, r), n)
                      /\ At(At(j, n, r), n, n - r) = j
                      /\ At(At(j, n, n - r), n, r) = j
  BY <1>2, Places, Zenon
<1>4. t \in [1..n -> L] /\ \A j \in 1..n : t[j] = s[At(j, n, r)]
  BY <1>1, <1>2, <1>3 DEF Turn
<1>5. \A p \in L : \E j \in 1..n : t[j] = p
  BY <1>2, <1>3, <1>4
<1>6. ASSUME NEW i \in 1..n, NEW j \in 1..n, t[i] = t[j]
      PROVE  i = j
  <2>1. s[At(i, n, r)] = s[At(j, n, r)] /\ At(i, n, r) \in 1..n /\ At(j, n, r) \in 1..n
    BY <1>3, <1>4, <1>6, Zenon
  <2>2. At(i, n, r) = At(j, n, r)
    BY <1>2, <2>1
  <2> QED
    BY <1>3, <2>2, Zenon
<1>7. ASSUME NEW j \in 1..n
      PROVE  nx[t[j]] = t[Behind(j, n)] /\ pv[t[Behind(j, n)]] = t[j]
  <2>1. t[j] = s[At(j, n, r)] /\ t[Behind(j, n)] = s[Behind(At(j, n, r), n)] /\ At(j, n, r) \in 1..n
    BY <1>3, <1>4, Zenon
  <2> QED
    BY <1>2, <2>1
<1>8. Chain(t, n, L, nx, pv)
  BY <1>2, <1>4, <1>5, <1>6, <1>7, Zenon DEF Chain
<1> QED
  BY <1>1, <1>8, Zenon

\* Unlink takes the last page out of a ring.
LEMMA LastUnlinked ==
  ASSUME TypeOK, Unlisted, NEW s, NEW m \in Nat, Chain(s, m + 1, Linked, next, prev),
         NEW h \in Page, Unlink(s[m + 1], h), NEW t, t = [j \in 1..m |-> s[j]]
  PROVE  /\ Chain(t, m, Linked', next', prev') /\ Unlisted'
         /\ Linked' = Linked \ {s[m + 1]}
         /\ lru_head' = IF m = 0 THEN NULL ELSE h
         /\ lru_head' \in Page \cup {NULL}
         /\ next' \in [Page -> Page \cup {NULL}]
         /\ prev' \in [Page -> Page \cup {NULL}]
<1> DEFINE p == s[m + 1]
           k == IF m = 0 THEN 1 ELSE m
<1>1. /\ \A j \in 1..(m + 1) : s[j] \in Linked /\ s[j] \in Page /\ s[j] # NULL
      /\ \A i, j \in 1..(m + 1) : s[i] = s[j] => i = j
      /\ \A q \in Linked : \E j \in 1..(m + 1) : s[j] = q
  BY NullAssumption DEF Chain, Linked
<1>2. /\ next[p] = s[1] /\ prev[p] = s[k]
      /\ \A j \in 1..m : j # m => next[s[j]] = s[j + 1] /\ prev[s[j + 1]] = s[j]
  <2>1. \A j \in 1..(m + 1) : next[s[j]] = s[Behind(j, m + 1)] /\ prev[s[Behind(j, m + 1)]] = s[j]
    BY DEF Chain
  <2>2. /\ m + 1 \in 1..(m + 1) /\ Behind(m + 1, m + 1) = 1
        /\ k \in 1..(m + 1) /\ Behind(k, m + 1) = m + 1
        /\ \A j \in 1..m : j # m => j \in 1..(m + 1) /\ Behind(j, m + 1) = j + 1
    BY DEF Behind
  <2> QED
    BY <2>1, <2>2
<1>3. /\ next' = [next EXCEPT ![s[k]] = s[1], ![p] = NULL]
      /\ prev' = [prev EXCEPT ![s[1]] = s[k], ![p] = NULL]
  BY <1>2 DEF Unlink
<1>4. \A q \in Page : /\ next'[q] = IF q = p THEN NULL ELSE IF q = s[k] THEN s[1] ELSE next[q]
                      /\ prev'[q] = IF q = p THEN NULL ELSE IF q = s[1] THEN s[k] ELSE prev[q]
  BY <1>3 DEF TypeOK
<1>5. 1 \in 1..(m + 1) /\ k \in 1..(m + 1) /\ m + 1 \in 1..(m + 1)
  OBVIOUS
<1>6. /\ s[1] \in Page /\ s[1] # NULL /\ s[1] \in Linked
      /\ s[k] \in Page /\ s[k] # NULL /\ s[k] \in Linked
      /\ p \in Linked
  BY <1>1, <1>5
<1>7. /\ next' \in [Page -> Page \cup {NULL}]
      /\ prev' \in [Page -> Page \cup {NULL}]
  BY <1>3, <1>6, Zenon DEF TypeOK
<1>8. Linked' = Linked \ {p}
  BY <1>4, <1>6 DEF Linked
<1>9. Unlisted'
  BY <1>4, <1>6 DEF Unlisted, Linked
<1>10. p = s[1] <=> m = 0
  BY <1>1, <1>5
<1>11. lru_head' = (IF m = 0 THEN NULL ELSE h) /\ lru_head' \in Page \cup {NULL}
  BY <1>2, <1>10 DEF Unlink
<1>12. /\ \A j \in 1..m : /\ t[j] = s[j] /\ j \in 1..(m + 1)
                          /\ s[j] # p /\ s[j] \in Linked /\ s[j] \in Page
       /\ t \in [1..m -> Linked']
       /\ \A i, j \in 1..m : t[i] = t[j] => i = j
  BY <1>1, <1>5, <1>8
<1>13. ASSUME NEW q \in Linked'
       PROVE  \E j \in 1..m : t[j] = q
  <2>1. PICK j \in 1..(m + 1) : s[j] = q /\ s[j] # p
    BY <1>1, <1>8
  <2> QED
    BY <1>12, <2>1
<1>14. ASSUME NEW j \in 1..m
       PROVE  next'[t[j]] = t[Behind(j, m)] /\ prev'[t[Behind(j, m)]] = t[j]
  <2>1. CASE j = m
    BY <1>4, <1>12, <2>1 DEF Behind
  <2>2. CASE j # m
    <3>1. j + 1 \in 1..m /\ k = m
      BY <2>2
    <3>2. s[j] # s[k] /\ s[j + 1] # s[1] /\ s[j] # p /\ s[j + 1] # p
      BY <1>1, <1>12, <2>2, <3>1
    <3> QED
      BY <1>2, <1>4, <1>12, <2>2, <3>1, <3>2 DEF Behind
  <2> QED
    BY <2>1, <2>2
<1> QED
  BY <1>7, <1>8, <1>9, <1>11, <1>12, <1>13, <1>14, Zenon DEF Chain

\* Unlink takes any page out of a ring.
LEMMA PageUnlinked ==
  ASSUME TypeOK, Unlisted, NEW s, NEW n, Chain(s, n, Linked, next, prev), NEW i \in 1..n,
         NEW h \in Page, Unlink(s[i], h)
  PROVE  /\ Chain(Rest(s, n, i), n - 1, Linked', next', prev') /\ Unlisted'
         /\ Linked' = Linked \ {s[i]}
         /\ lru_head' = IF n - 1 = 0 THEN NULL ELSE h
         /\ lru_head' \in Page \cup {NULL}
         /\ next' \in [Page -> Page \cup {NULL}]
         /\ prev' \in [Page -> Page \cup {NULL}]
<1>1. n \in Nat /\ i \in 0..n
  BY DEF Chain
<1>2. PICK m : m \in Nat /\ n = m + 1 /\ n - 1 = m
  BY <1>1
<1>3. PICK t : t = Turn(s, n, i) /\ Chain(t, n, Linked, next, prev)
  BY <1>1, TurnedChain, Zenon
<1>4. t[m + 1] = s[i]
  BY <1>1, <1>2, <1>3 DEF Turn, At
<1>5. Rest(s, n, i) = [j \in 1..m |-> t[j]]
  BY <1>1, <1>2, <1>3 DEF Rest, Turn
<1>6. PICK r : r = [j \in 1..m |-> t[j]]
  BY Zenon
<1>7. Unlink(t[m + 1], h) /\ Chain(t, m + 1, Linked, next, prev) /\ m \in Nat
  BY <1>2, <1>3, <1>4, Zenon
<1>8. /\ Chain(r, m, Linked', next', prev') /\ Unlisted'
      /\ Linked' = Linked \ {t[m + 1]}
      /\ lru_head' = IF m = 0 THEN NULL ELSE h
      /\ lru_head' \in Page \cup {NULL}
      /\ next' \in [Page -> Page \cup {NULL}]
      /\ prev' \in [Page -> Page \cup {NULL}]
  BY <1>6, <1>7, LastUnlinked
<1> QED
  BY <1>2, <1>4, <1>5, <1>6, <1>8

\* u and v are the parts of the list s before and behind its i-th page.
Splits(s, n, i, u, v) ==
  /\ u \in Seq(Page) /\ Len(u) = i - 1 /\ \A j \in 1..(i - 1) : u[j] = s[j]
  /\ v \in Seq(Page) /\ Len(v) = n - i /\ \A j \in 1..(n - i) : v[j] = s[i + j]

\* The parts are what SubSeq yields.
LEMMA Parts ==
  ASSUME NEW n \in Nat, NEW s \in [1..n -> Page], NEW i \in 1..n
  PROVE  Splits(s, n, i, SubSeq(s, 1, i - 1), SubSeq(s, i + 1, n))
<1>1. s \in Seq(Page) /\ Len(s) = n
  OBVIOUS
<1>2. PICK u : u = SubSeq(s, 1, i - 1)
  BY Zenon
<1>3. u \in Seq(Page) /\ Len(u) = i - 1 /\ \A j \in 1..(i - 1) : u[j] = s[j]
  BY <1>1, <1>2
<1>4. PICK v : v = SubSeq(s, i + 1, n)
  BY Zenon
<1>5. v \in Seq(Page) /\ Len(v) = n - i /\ \A j \in 1..(n - i) : v[j] = s[i + j]
  BY <1>1, <1>4
<1>6. Splits(s, n, i, u, v)
  BY <1>3, <1>5 DEF Splits
<1> QED
  BY <1>2, <1>4, <1>6

\* t is u followed by v, as a function.
Follows(t, u, a, v, b) == t = [j \in 1..(a + b) |-> IF j <= a THEN u[j] ELSE v[j - a]]

\* What \o yields.
LEMMA Joined ==
  ASSUME NEW S, NEW a \in Nat, NEW b \in Nat, NEW u \in Seq(S), NEW v \in Seq(S),
         Len(u) = a, Len(v) = b
  PROVE  Follows(u \o v, u, a, v, b)
<1>1. /\ u \o v \in Seq(S) /\ Len(u \o v) = a + b
      /\ \A j \in 1..(a + b) : (u \o v)[j] = IF j <= a THEN u[j] ELSE v[j - a]
  BY ConcatProperties, Zenon
<1>2. u \o v \in [1..(a + b) -> S]
  BY <1>1, LenProperties, Zenon
<1> QED
  BY <1>1, <1>2, Zenon DEF Follows


\* The parts in both orders.
LEMMA Joins ==
  ASSUME NEW n \in Nat, NEW s, NEW i \in 1..n, NEW u, NEW v, Splits(s, n, i, u, v)
  PROVE  v \o u = Rest(s, n, i) /\ u \o v = Turn(Rest(s, n, i), n - 1, n - i)
<1>1. PICK a, b : /\ a \in Nat /\ b \in Nat /\ a = i - 1 /\ b = n - i
                  /\ a + b = n - 1 /\ b + a = n - 1
  OBVIOUS
<1>2. u \in Seq(Page) /\ v \in Seq(Page) /\ Len(u) = a /\ Len(v) = b
  BY <1>1, Zenon DEF Splits
<1>3. (\A j \in 1..a : u[j] = s[j]) /\ \A j \in 1..b : v[j] = s[i + j]
  BY <1>1, Zenon DEF Splits
<1>4. PICK t : t = u \o v /\ Follows(t, u, a, v, b)
  BY <1>1, <1>2, Joined, Zenon
<1>5. PICK r : r = v \o u /\ Follows(r, v, b, u, a)
  BY <1>1, <1>2, Joined, Zenon
<1>6. /\ r = [j \in 1..(n - 1) |-> IF j <= b THEN v[j] ELSE u[j - b]]
      /\ t = [j \in 1..(n - 1) |-> IF j <= a THEN u[j] ELSE v[j - a]]
  BY <1>1, <1>4, <1>5 DEF Follows
<1>7. ASSUME NEW j \in 1..(n - 1)
      PROVE  s[At(j, n, i)] = IF j <= b THEN v[j] ELSE u[j - b]
  BY <1>1, <1>3 DEF At
<1>8. r = Rest(s, n, i)
  BY <1>6, <1>7 DEF Rest
<1>9. ASSUME NEW j \in 1..(n - 1)
      PROVE  r[At(j, n - 1, n - i)] = IF j <= a THEN u[j] ELSE v[j - a]
  <2>1. CASE j <= a
    <3>1. At(j, n - 1, n - i) = j + b /\ j + b \in 1..(n - 1) /\ ~(j + b <= b) /\ (j + b) - b = j
      BY <1>1, <2>1 DEF At
    <3> QED
      BY <1>6, <2>1, <3>1
  <2>2. CASE ~(j <= a)
    <3>1. At(j, n - 1, n - i) = j - a /\ j - a \in 1..(n - 1) /\ j - a <= b
      BY <1>1, <2>2 DEF At
    <3> QED
      BY <1>6, <2>2, <3>1
  <2> QED
    BY <2>1, <2>2
<1>10. t = Turn(r, n - 1, n - i)
  BY <1>6, <1>9 DEF Turn
<1> QED
  BY <1>4, <1>5, <1>8, <1>10, Zenon

-----------------------------------------------------------------------------
(* Adding a page. *)

\* lru_add puts an unlisted page at the end of the ring.
LEMMA Added ==
  ASSUME TypeOK, Unlisted, NEW s, NEW n, Lists(s, n), NEW p \in Page, p \notin Linked,
         lru_add(p)
  PROVE  /\ IsList(Append(s, p), n + 1, Linked', next', prev', lru_head') /\ Unlisted'
         /\ Linked' = Linked \cup {p}
         /\ lru_head' \in Page \cup {NULL}
         /\ next' \in [Page -> Page \cup {NULL}]
         /\ prev' \in [Page -> Page \cup {NULL}]
<1>1. PICK t : t = Append(s, p)
  BY Zenon
<1>2. /\ n \in Nat /\ s \in [1..n -> Linked]
      /\ \A q \in Linked : \E i \in 1..n : s[i] = q
      /\ \A i, j \in 1..n : s[i] = s[j] => i = j
      /\ \A i \in 1..n : next[s[i]] = s[Behind(i, n)] /\ prev[s[Behind(i, n)]] = s[i]
      /\ lru_head = IF n = 0 THEN NULL ELSE s[1]
  BY DEF Lists, IsList, Chain
<1>3. /\ t \in [1..(n + 1) -> Linked \cup {p}] /\ t[n + 1] = p
      /\ \A i \in 1..n : t[i] = s[i] /\ s[i] \in Linked /\ s[i] \in Page /\ s[i] # p
  <2>1. s \in Seq(Linked \cup {p}) /\ Len(s) = n
    BY <1>2
  <2>2. t \in Seq(Linked \cup {p}) /\ Len(t) = n + 1 /\ t[n + 1] = p /\ \A i \in 1..n : t[i] = s[i]
    BY <1>1, <2>1
  <2> QED
    BY <1>2, <2>2, LenProperties DEF Linked
<1>4. PICK hd, tl : /\ hd = (IF n = 0 THEN p ELSE s[1]) /\ tl = (IF n = 0 THEN p ELSE s[n])
                    /\ hd \in Page /\ tl \in Page /\ hd # NULL /\ tl # NULL /\ (tl = p => hd = p)
  BY <1>2, <1>3, NullAssumption
<1>5. /\ lru_head' = hd
      /\ \A q \in Page : /\ next'[q] = IF q = tl THEN p ELSE IF q = p THEN hd ELSE next[q]
                         /\ prev'[q] = IF q = hd THEN p ELSE IF q = p THEN tl ELSE prev[q]
      /\ next' \in [Page -> Page \cup {NULL}]
      /\ prev' \in [Page -> Page \cup {NULL}]
  <2>1. CASE n = 0
    BY <1>2, <1>4, <2>1 DEF TypeOK, lru_add
  <2>2. CASE n # 0
    <3>1. lru_head = hd /\ lru_head # NULL /\ prev[lru_head] = tl
      BY <1>2, <1>4, <2>2 DEF Behind
    <3> QED
      BY <1>4, <3>1 DEF TypeOK, lru_add
  <2> QED
    BY <2>1, <2>2
<1>6. Linked' = Linked \cup {p}
  BY <1>2, <1>3, <1>4, <1>5, NullAssumption DEF Linked
<1>7. Unlisted'
  <2>1. hd \in Linked \cup {p} /\ tl \in Linked \cup {p}
    BY <1>2, <1>3, <1>4
  <2> QED
    BY <1>5, <2>1, NullAssumption DEF Unlisted, Linked
<1>8. \A q \in Linked' : \E i \in 1..(n + 1) : t[i] = q
  BY <1>2, <1>3, <1>6
<1>9. ASSUME NEW i \in 1..(n + 1), NEW j \in 1..(n + 1), t[i] = t[j]
      PROVE  i = j
  BY <1>2, <1>3, <1>9
<1>10. ASSUME NEW i \in 1..(n + 1)
       PROVE  next'[t[i]] = t[Behind(i, n + 1)] /\ prev'[t[Behind(i, n + 1)]] = t[i]
  <2>1. CASE i = n + 1
    <3>1. t[i] = p /\ t[Behind(i, n + 1)] = hd /\ p \in Page
      BY <1>2, <1>3, <1>4, <2>1 DEF Behind
    <3> QED
      BY <1>3, <1>4, <1>5, <3>1
  <2>2. CASE i = n
    <3>1. t[i] = tl /\ t[Behind(i, n + 1)] = p /\ p \in Page /\ p # hd
      BY <1>2, <1>3, <1>4, <2>2 DEF Behind
    <3> QED
      BY <1>4, <1>5, <3>1
  <2>3. CASE i # n /\ i # n + 1
    <3>1. /\ i \in 1..n /\ i + 1 \in 1..n /\ n # 0 /\ n \in 1..n /\ 1 \in 1..n
          /\ Behind(i, n) = i + 1 /\ Behind(i, n + 1) = i + 1
      BY <1>2, <2>3 DEF Behind
    <3>2. /\ t[i] = s[i] /\ t[i + 1] = s[i + 1] /\ s[i] # tl /\ s[i + 1] # hd
          /\ s[i] \in Page /\ s[i + 1] \in Page /\ s[i] # p /\ s[i + 1] # p
      BY <1>2, <1>3, <1>4, <2>3, <3>1
    <3> QED
      BY <1>2, <1>5, <3>1, <3>2
  <2> QED
    BY <2>1, <2>2, <2>3
<1>11. IsList(t, n + 1, Linked', next', prev', lru_head')
  <2>1. n + 1 \in Nat /\ n + 1 # 0 /\ t[1] = hd /\ t \in [1..(n + 1) -> Linked']
    BY <1>2, <1>3, <1>4, <1>6
  <2> QED
    BY <1>5, <1>8, <1>9, <1>10, <2>1 DEF IsList, Chain
<1> QED
  BY <1>1, <1>4, <1>5, <1>6, <1>7, <1>11

-----------------------------------------------------------------------------
(* The steps, on the links and on the queue. *)

\* The reference bits as module ClockQueue sees them.
Ref == [p \in Page |-> p \in Linked /\ ptea[p]]

\* Order lists the pages, whatever the state.
OrderIsList == \A s, n : Lists(s, n) => Order = s

\* OrderIs, as a fact about a state.
LEMMA OrderAlways == OrderIsList
BY OrderIs, Zenon DEF OrderIsList

\* What is a list after a step is the order after the step.
LEMMA OrderNext ==
  ASSUME NEW t, NEW m, IsList(t, m, Linked', next', prev', lru_head')
  PROVE  Order' = t /\ Listable'
<1>1. OrderIsList'
  BY OrderAlways, PTL
<1>2. \A s, n : IsList(s, n, Linked', next', prev', lru_head') => Order' = s
  BY <1>1, Zenon DEF OrderIsList, Lists
<1> QED
  BY <1>2, Zenon DEF Listable, Lists

\* The pages of the queue are the listed pages.
LEMMA Indexed ==
  ASSUME NEW s, NEW n, Lists(s, n)
  PROVE  /\ Order = s /\ Len(s) = n /\ n \in Nat /\ s \in [1..n -> Page]
         /\ \A p \in Page : p \in Linked <=> \E i \in 1..Len(s) : s[i] = p
<1>1. Order = s
  BY OrderIs, Zenon
<1>2. n \in Nat /\ s \in [1..n -> Linked] /\ \A p \in Linked : \E i \in 1..n : s[i] = p
  BY DEF Lists, IsList, Chain
<1>3. Len(s) = n /\ s \in [1..n -> Page]
  BY <1>2 DEF Linked
<1> QED
  BY <1>1, <1>2, <1>3

\* mappages of a user page: it enters at the back.
LEMMA MapStep ==
  ASSUME Inv, NEW s, NEW n, Lists(s, n), NEW p \in Page, Map(p, TRUE)
  PROVE  Inv' /\ Queue!Enter(p)
<1>1. TypeOK /\ Unlisted /\ ListedMapped
  BY DEF Inv
<1>2. p \notin Linked /\ lru_add(p)
  BY <1>1 DEF Map, ListedMapped
<1>3. /\ IsList(Append(s, p), n + 1, Linked', next', prev', lru_head') /\ Unlisted'
      /\ Linked' = Linked \cup {p}
      /\ lru_head' \in Page \cup {NULL}
      /\ next' \in [Page -> Page \cup {NULL}]
      /\ prev' \in [Page -> Page \cup {NULL}]
  BY <1>1, <1>2, Added, Zenon
<1>4. Order' = Append(s, p) /\ Listable'
  BY <1>3, OrderNext, Zenon
<1>5. TypeOK' /\ ListedMapped'
  BY <1>1, <1>3 DEF Map, TypeOK, ListedMapped
<1>6. Order = s /\ ~\E i \in 1..Len(s) : s[i] = p
  BY <1>2, Indexed, Zenon
<1>7. \E b \in BOOLEAN : Ref' = [Ref EXCEPT ![p] = b]
  BY <1>1, <1>3, Zenon DEF Ref, TypeOK, Map
<1>8. Queue!Enter(p)
  BY <1>4, <1>6, <1>7, Zenon DEF Queue!Enter, Queue!Listed, Ref
<1> QED
  BY <1>3, <1>4, <1>5, <1>8 DEF Inv

\* uvmunmap of a listed page: it leaves from its place.
LEMMA UnmapStep ==
  ASSUME Inv, NEW s, NEW n, Lists(s, n), NEW p \in Linked, Unmap(p)
  PROVE  Inv' /\ \E i \in 1..Len(Order) : Queue!Leave(i)
<1>1. TypeOK /\ Unlisted /\ ListedMapped /\ p \in Page /\ next[p] # NULL
  BY DEF Inv, Linked
<1>2. /\ Order = s /\ Len(s) = n /\ n \in Nat /\ s \in [1..n -> Page]
      /\ \E i \in 1..n : s[i] = p
  BY <1>1, Indexed, Zenon
<1>3. PICK i \in 1..n : s[i] = p
  BY <1>2, Zenon
<1>4. /\ Chain(s, n, Linked, next, prev) /\ n # 0 /\ lru_head = s[1] /\ next[p] = s[Behind(i, n)]
      /\ next[p] \in Page /\ lru_head \in Page
      /\ (i = 1 <=> lru_head = p)
  BY <1>2, <1>3 DEF Lists, IsList, Chain, Behind
<1>5. PICK h \in Page : /\ h = IF i = 1 THEN next[p] ELSE lru_head
                        /\ Unlink(p, h) /\ ptea' = [ptea EXCEPT ![p] = FALSE]
  BY <1>1, <1>4 DEF Unmap, lru_remove
<1>6. /\ Chain(Rest(s, n, i), n - 1, Linked', next', prev') /\ Unlisted'
      /\ Linked' = Linked \ {p}
      /\ lru_head' = IF n - 1 = 0 THEN NULL ELSE h
      /\ lru_head' \in Page \cup {NULL}
      /\ next' \in [Page -> Page \cup {NULL}]
      /\ prev' \in [Page -> Page \cup {NULL}]
  BY <1>1, <1>3, <1>4, <1>5, PageUnlinked
<1>7. PICK u, v : u = SubSeq(s, 1, i - 1) /\ v = SubSeq(s, i + 1, n) /\ Splits(s, n, i, u, v)
  BY <1>2, Parts, Zenon
<1>8. Splits(s, n, i, u, v) /\ n \in Nat
  BY <1>2, <1>7, Zenon
<1>9. PICK r : r = Rest(s, n, i) /\ u \o v = Turn(r, n - 1, n - i)
  BY <1>8, Joins
<1>10. n - i \in 0..(n - 1)
  BY <1>2
<1>11. Chain(Turn(r, n - 1, n - i), n - 1, Linked', next', prev')
  BY <1>6, <1>9, <1>10, TurnedChain
<1>12. n - 1 # 0 => Turn(r, n - 1, n - i)[1] = h
  BY <1>2, <1>3, <1>4, <1>5, <1>9 DEF Turn, Rest, At, Behind
<1>13. IsList(u \o v, n - 1, Linked', next', prev', lru_head')
  BY <1>6, <1>9, <1>11, <1>12 DEF IsList
<1>14. Order' = u \o v /\ Listable'
  BY <1>13, OrderNext, Zenon
<1>15. TypeOK' /\ ListedMapped'
  BY <1>1, <1>6 DEF Unmap, TypeOK, ListedMapped
<1>16. Ref' = [Ref EXCEPT ![s[i]] = FALSE]
  BY <1>1, <1>3, <1>5, <1>6, Zenon DEF Ref, TypeOK
<1>17. \E j \in 1..Len(Order) : Queue!Leave(j)
  BY <1>2, <1>7, <1>14, <1>16, Zenon DEF Queue!Leave, Ref
<1> QED
  BY <1>6, <1>14, <1>15, <1>17 DEF Inv

\* swap_out evicts the page under the hand, and the head follows the hand.
LEMMA VictimStep ==
  ASSUME Inv, NEW s, NEW n, Lists(s, n), ScanVictim
  PROVE  Inv' /\ \E i \in 1..Len(Order) : Queue!Evict(i)
<1>1. TypeOK /\ Unlisted /\ ListedMapped /\ hand \in Linked /\ hand \in Page
  BY DEF Inv, Linked, ListedMapped, ScanVictim
<1>2. /\ Order = s /\ Len(s) = n /\ n \in Nat /\ s \in [1..n -> Page]
      /\ \E i \in 1..n : s[i] = hand
  BY <1>1, Indexed, Zenon
<1>3. PICK i \in 1..n : s[i] = hand
  BY <1>2, Zenon
<1>4. Chain(s, n, Linked, next, prev) /\ next[s[i]] = s[Behind(i, n)] /\ Behind(i, n) \in 1..n
  BY <1>2 DEF Lists, IsList, Chain, Behind
<1>5. PICK h \in Page : h = next[s[i]] /\ Unlink(s[i], h) /\ ptea' = ptea /\ ~ptea[s[i]]
  BY <1>2, <1>3, <1>4 DEF ScanVictim
<1>6. /\ Chain(Rest(s, n, i), n - 1, Linked', next', prev') /\ Unlisted'
      /\ Linked' = Linked \ {s[i]}
      /\ lru_head' = IF n - 1 = 0 THEN NULL ELSE h
      /\ lru_head' \in Page \cup {NULL}
      /\ next' \in [Page -> Page \cup {NULL}]
      /\ prev' \in [Page -> Page \cup {NULL}]
  BY <1>1, <1>4, <1>5, PageUnlinked
<1>7. PICK u, v : u = SubSeq(s, 1, i - 1) /\ v = SubSeq(s, i + 1, n) /\ Splits(s, n, i, u, v)
  BY <1>2, Parts, Zenon
<1>8. Splits(s, n, i, u, v) /\ n \in Nat
  BY <1>2, <1>7, Zenon
<1>9. v \o u = Rest(s, n, i)
  BY <1>8, Joins
<1>10. n - 1 # 0 => Rest(s, n, i)[1] = h
  BY <1>2, <1>4, <1>5 DEF Rest, At, Behind
<1>11. IsList(v \o u, n - 1, Linked', next', prev', lru_head')
  BY <1>6, <1>9, <1>10 DEF IsList
<1>12. Order' = v \o u /\ Listable'
  BY <1>11, OrderNext, Zenon
<1>13. TypeOK' /\ ListedMapped'
  BY <1>1, <1>3, <1>6, MaxTouchAssumption DEF ScanVictim, TypeOK, ListedMapped
<1>14. Ref' = Ref /\ ~Ref[s[i]]
  BY <1>1, <1>3, <1>5, <1>6 DEF Ref, TypeOK
<1>15. \E j \in 1..Len(Order) : Queue!Evict(j)
  BY <1>2, <1>7, <1>12, <1>14, Zenon DEF Queue!Evict, Ref
<1> QED
  BY <1>6, <1>12, <1>13, <1>15 DEF Inv

\* A step that leaves the links alone leaves the order alone; it may set or
\* clear PTE_A of one page.
LEMMA LinksKept ==
  ASSUME Inv, UNCHANGED list, NEW p \in Page, NEW b \in BOOLEAN, ptea' = [ptea EXCEPT ![p] = b]
  PROVE  Listable' /\ Unlisted' /\ Linked' = Linked /\ [Queue!Next]_(Queue!vars)
<1>1. PICK s, n : Lists(s, n)
  BY DEF Inv, Listable
<1>2. Linked' = Linked /\ next' = next /\ prev' = prev /\ lru_head' = lru_head
  BY DEF Linked, list
<1>3. IsList(s, n, Linked', next', prev', lru_head')
  BY <1>1, <1>2, Zenon DEF Lists
<1>4. Order' = s /\ Listable'
  BY <1>3, OrderNext, Zenon
<1>5. Order = s /\ (p \in Linked <=> \E i \in 1..Len(s) : s[i] = p)
  BY <1>1, Indexed, Zenon
<1>6. Unlisted'
  BY <1>2 DEF Unlisted, Inv
<1>7. CASE p \in Linked
  <2>1. Ref' = [Ref EXCEPT ![p] = b]
    BY <1>2, <1>7, Zenon DEF Ref, TypeOK, Inv
  <2>2. Queue!Mark(p, b)
    BY <1>4, <1>5, <1>7, <2>1 DEF Queue!Mark, Queue!Listed, Ref
  <2> QED
    BY <1>2, <1>4, <1>6, <2>2 DEF Queue!Next
<1>8. CASE p \notin Linked
  <2>1. Ref' = Ref
    BY <1>2, <1>8 DEF Ref, TypeOK, Inv
  <2> QED
    BY <1>2, <1>4, <1>5, <1>6, <2>1 DEF Queue!vars, Ref
<1> QED
  BY <1>7, <1>8

\* A step that leaves the links and PTE_A alone is no step of the queue.
LEMMA NothingMoves ==
  ASSUME Inv, UNCHANGED <<list, ptea>>
  PROVE  Listable' /\ Unlisted' /\ Linked' = Linked /\ [Queue!Next]_(Queue!vars)
<1>1. PICK s, n : Lists(s, n)
  BY DEF Inv, Listable
<1>2. Linked' = Linked /\ next' = next /\ prev' = prev /\ lru_head' = lru_head /\ ptea' = ptea
  BY DEF Linked, list
<1>3. IsList(s, n, Linked', next', prev', lru_head')
  BY <1>1, <1>2, Zenon DEF Lists
<1>4. Order' = s /\ Order = s /\ Listable'
  BY <1>1, <1>3, OrderNext, OrderIs, Zenon
<1>5. Unlisted'
  BY <1>2 DEF Unlisted, Inv
<1> QED
  BY <1>2, <1>4, <1>5 DEF Queue!vars

\* Every step of the callers and of the clock preserves the invariant, and is
\* a step of the queue or none.
LEMMA NextInv == Inv /\ [Next]_vars => Inv' /\ [Queue!Next]_(Queue!vars)
<1> SUFFICES ASSUME Inv, [Next]_vars
             PROVE  Inv' /\ [Queue!Next]_(Queue!vars)
  OBVIOUS
<1> DEFINE Kept == Listable' /\ Unlisted' /\ Linked' = Linked /\ [Queue!Next]_(Queue!vars)
<1>1. PICK s, n : Lists(s, n)
  BY DEF Inv, Listable
<1>2. TypeOK /\ ListedMapped
  BY DEF Inv
<1>3. ASSUME NEW p \in Page, NEW user \in BOOLEAN, Map(p, user)
      PROVE  Inv' /\ [Queue!Next]_(Queue!vars)
  <2>1. CASE user = TRUE
    <3>1. Inv' /\ Queue!Enter(p)
      BY <1>1, <1>3, <2>1, MapStep, Zenon
    <3> QED
      BY <3>1 DEF Queue!Next
  <2>2. CASE user = FALSE
    <3>1. Kept
      BY <1>3, <2>2, LinksKept, Zenon DEF Map
    <3>2. TypeOK' /\ ListedMapped'
      BY <1>2, <1>3, <2>2, <3>1 DEF Map, TypeOK, ListedMapped, list
    <3> QED
      BY <3>1, <3>2 DEF Inv
  <2> QED
    BY <2>1, <2>2, Zenon
<1>4. ASSUME NEW p \in Page, Unmap(p)
      PROVE  Inv' /\ [Queue!Next]_(Queue!vars)
  <2>1. CASE p \in Linked
    <3>1. Inv' /\ \E i \in 1..Len(Order) : Queue!Leave(i)
      BY <1>1, <1>4, <2>1, UnmapStep, Zenon
    <3> QED
      BY <3>1 DEF Queue!Next
  <2>2. CASE p \notin Linked
    <3>1. UNCHANGED list
      BY <1>4, <2>2 DEF Unmap, lru_remove, Linked
    <3>2. Kept
      BY <1>4, <3>1, LinksKept, Zenon DEF Unmap
    <3>3. TypeOK' /\ ListedMapped'
      BY <1>2, <1>4, <2>2, <3>1, <3>2 DEF Unmap, TypeOK, ListedMapped, list
    <3> QED
      BY <3>2, <3>3 DEF Inv
  <2> QED
    BY <2>1, <2>2
<1>5. ASSUME NEW p \in Page, Touch(p)
      PROVE  Inv' /\ [Queue!Next]_(Queue!vars)
  <2>1. Kept
    BY <1>5, LinksKept, Zenon DEF Touch
  <2>2. TypeOK' /\ ListedMapped'
    BY <1>2, <1>5, <2>1, MaxTouchAssumption DEF Touch, TypeOK, ListedMapped, list
  <2> QED
    BY <2>1, <2>2 DEF Inv
<1>6. ASSUME ScanBegin \/ ScanNoSlot
      PROVE  Inv' /\ [Queue!Next]_(Queue!vars)
  <2>1. Kept
    BY <1>6, NothingMoves DEF ScanBegin, ScanNoSlot
  <2>2. Ring
    BY <1>1, ListIsRing, Zenon DEF Inv
  <2>3. TypeOK' /\ ListedMapped'
    BY <1>2, <1>6, <2>1, <2>2, MaxTouchAssumption
       DEF ScanBegin, ScanNoSlot, TypeOK, ListedMapped, list, Ring
  <2> QED
    BY <2>1, <2>3 DEF Inv
<1>7. CASE ScanAdvance
  <2>1. hand \in Page /\ Kept
    BY <1>2, <1>7, LinksKept, Zenon DEF ScanAdvance, TypeOK
  <2>2. Ring
    BY <1>1, ListIsRing, Zenon DEF Inv
  <2>3. TypeOK' /\ ListedMapped'
    BY <1>2, <1>7, <2>1, <2>2 DEF ScanAdvance, TypeOK, ListedMapped, list, Ring, Linked
  <2> QED
    BY <2>1, <2>3 DEF Inv
<1>8. CASE ScanVictim
  <2>1. Inv' /\ \E i \in 1..Len(Order) : Queue!Evict(i)
    BY <1>1, <1>8, VictimStep, Zenon
  <2> QED
    BY <2>1 DEF Queue!Next
<1>9. CASE UNCHANGED vars
  <2>1. Kept
    BY <1>9, NothingMoves DEF vars, list
  <2>2. TypeOK' /\ ListedMapped'
    BY <1>2, <1>9, <2>1 DEF vars, TypeOK, ListedMapped
  <2> QED
    BY <2>1, <2>2 DEF Inv
<1> QED
  BY <1>3, <1>4, <1>5, <1>6, <1>7, <1>8, <1>9, Zenon DEF Next, Scan

\* Initially the list is empty.
LEMMA InitInv == Init => Inv /\ Queue!Init
<1> SUFFICES ASSUME Init
             PROVE  Inv /\ Queue!Init
  OBVIOUS
<1>1. Linked = {} /\ lru_head = NULL
  BY DEF Init, Linked
<1>2. Lists(<<>>, 0)
  BY <1>1 DEF Lists, IsList, Chain
<1>3. Order = <<>> /\ Listable
  BY <1>2, OrderIs, Zenon DEF Listable
<1>4. Inv
  BY <1>1, <1>3, MaxTouchAssumption DEF Init, Inv, TypeOK, Unlisted, ListedMapped
<1>5. [p \in Page |-> p \in Linked /\ ptea[p]] = [p \in Page |-> FALSE]
  BY <1>1, Zenon
<1> QED
  BY <1>3, <1>4, <1>5, Zenon DEF Queue!Init

-----------------------------------------------------------------------------
\* The variables keep their types.
THEOREM TypeCorrect == Spec => []TypeOK
<1>1. Inv => TypeOK
  BY DEF Inv
<1> QED
  BY InitInv, NextInv, <1>1, PTL DEF Spec

\* The doubly linked list of pages[] is consistent and one ring after every
\* lru_add, lru_remove and swap_out.
THEOREM ListWellFormed == Spec => []WellFormed
<1>1. Inv => WellFormed
  BY ListIsRing, ListIsOneRing, Zenon DEF Inv, Listable, WellFormed
<1> QED
  BY InitInv, NextInv, <1>1, PTL DEF Spec

\* swap_out never walks over a page without a valid mapping, so the loop at
\* kalloc.c:165 always has a page it can evict.
THEOREM ClockMeetsMappedPages == Spec => []ListedMapped
<1>1. Inv => ListedMapped
  BY DEF Inv
<1> QED
  BY InitInv, NextInv, <1>1, PTL DEF Spec

\* The pointers of pages[] implement the queue of module ClockQueue: pages
\* are evicted in the order in which they were mapped, except for second
\* chances.
THEOREM Refinement == Spec => ImplementsQueue
BY InitInv, NextInv, PTL DEF Spec, ImplementsQueue, Queue!Spec

=============================================================================

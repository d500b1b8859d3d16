---------------------------- MODULE VirtioProofs ----------------------------
(***************************************************************************)
(* Proofs about the disk driver, for any number of processes, descriptors  *)
(* and ring index values: no ring entry is overwritten before it is read,  *)
(* whichever order the device finishes requests in, so a process that is   *)
(* woken has its data and every descriptor has one owner.                  *)
(***************************************************************************)
EXTENDS DeviceProofs, FiniteSetTheorems, WellFoundedInduction

\* The first of the descriptors that alloc3_desc finds heads the chain.
Head == CHOOSE d \in alloc3_desc : \A e \in alloc3_desc : d <= e

\* A process puts its request in avail.
LEMMA SubmitInv ==
  ASSUME Inv, NEW p \in Proc, submit(p), Dist(dev_avail, avail_idx) < NUM - 1,
         Head \in alloc3_desc, \E d, e \in alloc3_desc \ {Head} : d # e
  PROVE  Inv'
<1>1. PICK h : h = Head
  OBVIOUS
<1>2. /\ desc' = [desc EXCEPT ![h] = alloc3_desc]
      /\ status' = [status EXCEPT ![h] = 255]
      /\ b' = [b EXCEPT ![h] = p]
      /\ avail' = [avail EXCEPT ![avail_idx % NUM] = h]
      /\ idx0' = [idx0 EXCEPT ![p] = h]
  BY <1>1 DEF submit, Head
<1>3. /\ h \in alloc3_desc /\ alloc3_desc \subseteq free /\ free \subseteq Desc
      /\ \E d, e \in alloc3_desc \ {h} : d # e
  BY <1>1, Zenon DEF alloc3_desc, Inv, TypeOK
<1>4. /\ desc \in [Desc -> SUBSET Desc] /\ idx0 \in [Proc -> 0..NUM] /\ status \in [Desc -> {0, 255}]
      /\ b \in [Desc -> Proc \cup {NULL}]
      /\ pc \in [Proc -> {"idle", "rw", "nodesc", "wait", "woken"}]
      /\ bdisk \in [Proc -> BOOLEAN]
  BY DEF Inv, TypeOK
<1>5. /\ pc' = [pc EXCEPT ![p] = "wait"] /\ pc[p] = "rw" /\ ~Busy(p)
      /\ free' = free \ alloc3_desc /\ bdisk' = [bdisk EXCEPT ![p] = TRUE]
  BY DEF submit, Goto, Busy
<1>6. \A g \in Submitted \cup taken \cup Completed : g \in Desc \ free /\ g # h
  BY <1>3, Facts
<1>7. Ring(avail, dev_avail, avail_idx)' /\ Submitted' = Submitted \cup {h}
  <2>1. h \in Desc \ Entries(avail, dev_avail, avail_idx)
    BY <1>3, <1>6 DEF Submitted
  <2>2. /\ dev_avail \in 0..(Idx - 1) /\ avail_idx \in 0..(Idx - 1) /\ avail \in [Desc -> Desc]
        /\ Ring(avail, dev_avail, avail_idx)
    BY Facts DEF Inv, Requests
  <2> DEFINE r == [avail EXCEPT ![avail_idx % NUM] = h]
  <2>3. /\ Ring(r, dev_avail, (avail_idx + 1) % Idx)
        /\ \A g : g \in Entries(r, dev_avail, (avail_idx + 1) % Idx)
                   <=> g \in Entries(avail, dev_avail, avail_idx) \/ g = h
    BY <2>1, <2>2, Produce, Zenon
  <2>4. avail' = r /\ avail_idx' = (avail_idx + 1) % Idx /\ dev_avail' = dev_avail
    BY <1>2, Zenon DEF submit
  <2> QED
    BY <2>3, <2>4, Zenon DEF Submitted
<1>8. TypeOK'
  <2>1. (avail_idx + 1) % Idx \in 0..(Idx - 1)
    BY Facts, RingAssumption
  <2>2. h \in Desc /\ h \in 0..NUM
    BY <1>3, RingAssumption DEF Desc
  <2>3. avail' \in [Desc -> Desc]
    BY <1>2, <2>2, Facts, Zenon
  <2>4. /\ desc' \in [Desc -> SUBSET Desc] /\ idx0' \in [Proc -> 0..NUM]
        /\ b' \in [Desc -> Proc \cup {NULL}] /\ status' \in [Desc -> {0, 255}]
        /\ pc' \in [Proc -> {"idle", "rw", "nodesc", "wait", "woken"}]
        /\ bdisk' \in [Proc -> BOOLEAN] /\ free' \subseteq Desc
    BY <1>2, <1>3, <1>4, <1>5, <2>2
  <2> QED
    BY <2>1, <2>3, <2>4 DEF Inv, TypeOK, submit
<1>9. /\ Busy(p)' /\ idx0'[p] = h /\ Chain(p)' = alloc3_desc /\ b'[h] = p
      /\ pc'[p] = "wait"
  BY <1>2, <1>3, <1>4, <1>5 DEF Busy, Chain
<1>10. \A q \in Proc : q # p => idx0'[q] = idx0[q] /\ pc'[q] = pc[q] /\ bdisk'[q] = bdisk[q]
                                /\ (Busy(q)' <=> Busy(q))
  BY <1>2, <1>4, <1>5 DEF Busy
<1>11. \A q \in Proc : q # p /\ Busy(q) =>
         Chain(q)' = Chain(q) /\ b'[idx0[q]] = b[idx0[q]] /\ Chain(q) \cap alloc3_desc = {}
  <2>1. SUFFICES ASSUME NEW q \in Proc, q # p, Busy(q)
                 PROVE  Chain(q)' = Chain(q) /\ b'[idx0[q]] = b[idx0[q]]
                        /\ Chain(q) \cap alloc3_desc = {}
    OBVIOUS
  <2>2. idx0[q] \in Desc \ free /\ Chain(q) \subseteq Desc \ free /\ idx0'[q] = idx0[q]
    BY <1>10, <2>1, Facts
  <2> QED
    BY <1>2, <1>3, <1>4, <2>2 DEF Chain
<1>12. Chains'
  <2>1. ASSUME NEW q \in Proc, Busy(q)'
        PROVE  /\ idx0'[q] \in Chain(q)' /\ b'[idx0'[q]] = q
               /\ Chain(q)' \subseteq Desc \ free'
               /\ \E d, e \in Chain(q)' \ {idx0'[q]} : d # e
    <3>1. CASE q = p
      BY <1>3, <1>5, <1>9, <3>1
    <3>2. CASE q # p
      <4>1. /\ Busy(q) /\ idx0[q] \in Chain(q) /\ b[idx0[q]] = q
            /\ Chain(q) \subseteq Desc \ free
            /\ \E d, e \in Chain(q) \ {idx0[q]} : d # e
        BY <1>10, <2>1, <3>2 DEF Inv, Chains
      <4> QED
        BY <1>5, <1>10, <1>11, <3>2, <4>1
    <3> QED
      BY <3>1, <3>2
  <2>2. ASSUME NEW q \in Proc, NEW t \in Proc, Busy(q)', Busy(t)', q # t
        PROVE  Chain(q)' \cap Chain(t)' = {}
    <3>1. CASE q # p /\ t # p
      <4>1. Busy(q) /\ Busy(t) /\ Chain(q)' = Chain(q) /\ Chain(t)' = Chain(t)
        BY <1>10, <1>11, <2>2, <3>1
      <4>2. Chain(q) \cap Chain(t) = {}
        BY <2>2, <4>1 DEF Inv, Chains
      <4> QED
        BY <4>1, <4>2
    <3>2. CASE q = p \/ t = p
      BY <1>9, <1>10, <1>11, <2>2, <3>2
    <3> QED
      BY <3>1, <3>2
  <2>3. ASSUME NEW d \in Desc \ free'
        PROVE  \E q \in Proc : Busy(q)' /\ d \in Chain(q)'
    <3>1. CASE d \in alloc3_desc
      BY <1>9, <3>1
    <3>2. CASE d \notin alloc3_desc
      <4>1. PICK q \in Proc : Busy(q) /\ d \in Chain(q)
        BY <1>5, <3>2 DEF Inv, Chains
      <4> QED
        BY <1>5, <1>10, <1>11, <4>1
    <3> QED
      BY <3>1, <3>2
  <2> QED
    BY <2>1, <2>2, <2>3 DEF Chains
<1>13. Completed' = Completed /\ taken' = taken /\ Ring(used, used_idx, dev_idx)'
  BY DEF Completed, submit, Inv, Requests
<1>14. \A g \in Submitted' \cup taken' \cup Completed' : Waiting(g)'
  <2>1. Waiting(h)'
    BY <1>9 DEF Waiting
  <2>2. ASSUME NEW g \in Submitted \cup taken \cup Completed
        PROVE  Waiting(g)'
    <3>1. PICK q \in Proc : pc[q] = "wait" /\ idx0[q] = g
      BY Facts
    <3> QED
      BY <1>5, <1>10, <3>1 DEF Waiting
  <2> QED
    BY <1>7, <1>13, <2>1, <2>2
<1>15. \A g \in Completed' : status'[g] = 0
  BY <1>2, <1>4, <1>6, <1>13 DEF Inv, Requests
<1>16. served' = served
  BY DEF submit
<1>17. \A q \in Proc : Busy(q)' /\ idx0'[q] \in Completed' => served'[q]
  BY <1>6, <1>9, <1>10, <1>13, <1>16 DEF Inv, Requests
<1>18. Requests'
  BY <1>6, <1>7, <1>13, <1>14, <1>15, <1>17 DEF Inv, Requests
<1>19. Calls'
  <2>1. bdisk'[p]
    BY <1>4, <1>5
  <2> QED
    BY <1>9, <1>10, <1>16, <2>1 DEF Inv, Calls
<1>20. Transferred' /\ ~panicked'
  BY <1>9, <1>10, <1>16 DEF Inv, Transferred, submit
<1> QED
  BY <1>8, <1>12, <1>18, <1>19, <1>20 DEF Inv

\* A process that was woken frees its descriptors, which were its own.
LEMMA FinishInv ==
  ASSUME Inv, NEW p \in Proc, finish(p)
  PROVE  Inv'
<1>1. PICK h : h = idx0[p]
  OBVIOUS
<1>2. /\ b' = [b EXCEPT ![h] = NULL] /\ desc' = [desc EXCEPT ![h] = {}]
      /\ free' = free \cup Chain(p) /\ panicked' = (panicked \/ free \cap Chain(p) # {})
      /\ idx0' = [idx0 EXCEPT ![p] = NUM] /\ served' = [served EXCEPT ![p] = FALSE]
      /\ bdisk' = bdisk /\ ~bdisk[p]
  BY <1>1 DEF finish, Chain
<1>3. pc' = [q \in Proc |-> IF q = p THEN "idle" ELSE IF pc[q] = "nodesc" THEN "rw" ELSE pc[q]]
  BY DEF finish, WakeFree
<1>4. /\ desc \in [Desc -> SUBSET Desc] /\ idx0 \in [Proc -> 0..NUM] /\ free \subseteq Desc
      /\ b \in [Desc -> Proc \cup {NULL}] /\ served \in [Proc -> BOOLEAN]
      /\ pc \in [Proc -> {"idle", "rw", "nodesc", "wait", "woken"}]
  BY DEF Inv, TypeOK
<1>5. pc[p] = "woken" /\ Busy(p) /\ h \in Chain(p) /\ Chain(p) \subseteq Desc \ free
  BY <1>1 DEF finish, Busy, Inv, Chains
<1>6. ~panicked' /\ panicked' \in BOOLEAN
  BY <1>2, <1>5, Zenon DEF Inv
<1>7. TypeOK'
  <2>1. /\ desc' \in [Desc -> SUBSET Desc] /\ idx0' \in [Proc -> 0..NUM]
        /\ b' \in [Desc -> Proc \cup {NULL}] /\ free' \subseteq Desc
        /\ served' \in [Proc -> BOOLEAN]
    BY <1>2, <1>4, <1>5, RingAssumption
  <2>2. pc' \in [Proc -> {"idle", "rw", "nodesc", "wait", "woken"}]
    BY <1>3, <1>4
  <2> QED
    BY <1>2, <1>6, <2>1, <2>2 DEF Inv, TypeOK, finish, rings
<1>8. ~Busy(p)' /\ pc'[p] = "idle" /\ idx0'[p] = NUM /\ ~served'[p]
  BY <1>2, <1>3, <1>4 DEF Busy
<1>9. \A q \in Proc : q # p =>
        /\ idx0'[q] = idx0[q] /\ served'[q] = served[q] /\ (Busy(q)' <=> Busy(q))
        /\ (pc'[q] = "wait" <=> pc[q] = "wait") /\ (pc'[q] = "woken" <=> pc[q] = "woken")
  BY <1>2, <1>3, <1>4 DEF Busy
<1>10. \A q \in Proc : q # p /\ Busy(q) =>
         /\ Chain(q)' = Chain(q) /\ b'[idx0[q]] = b[idx0[q]]
         /\ Chain(q) \cap Chain(p) = {} /\ Chain(q) \subseteq Desc \ free
  <2>1. SUFFICES ASSUME NEW q \in Proc, q # p, Busy(q)
                 PROVE  /\ Chain(q)' = Chain(q) /\ b'[idx0[q]] = b[idx0[q]]
                        /\ Chain(q) \cap Chain(p) = {} /\ Chain(q) \subseteq Desc \ free
    OBVIOUS
  <2>2. /\ Chain(q) \cap Chain(p) = {} /\ Chain(q) \subseteq Desc \ free
        /\ idx0[q] \in Chain(q)
    BY <1>5, <2>1 DEF Inv, Chains
  <2> QED
    BY <1>2, <1>4, <1>5, <1>9, <2>1, <2>2 DEF Chain
<1>11. Chains'
  <2>1. ASSUME NEW q \in Proc, Busy(q)'
        PROVE  /\ idx0'[q] \in Chain(q)' /\ b'[idx0'[q]] = q
               /\ Chain(q)' \subseteq Desc \ free'
               /\ \E d, e \in Chain(q)' \ {idx0'[q]} : d # e
    <3>1. q # p /\ Busy(q)
      BY <1>8, <1>9, <2>1
    <3>2. /\ idx0[q] \in Chain(q) /\ b[idx0[q]] = q
          /\ \E d, e \in Chain(q) \ {idx0[q]} : d # e
      BY <3>1 DEF Inv, Chains
    <3> QED
      BY <1>2, <1>9, <1>10, <3>1, <3>2
  <2>2. ASSUME NEW q \in Proc, NEW t \in Proc, Busy(q)', Busy(t)', q # t
        PROVE  Chain(q)' \cap Chain(t)' = {}
    <3>1. \A u, v \in Proc : Busy(u) /\ Busy(v) /\ u # v => Chain(u) \cap Chain(v) = {}
      BY DEF Inv, Chains
    <3> QED
      BY <1>8, <1>9, <1>10, <2>2, <3>1
  <2>3. ASSUME NEW d \in Desc \ free'
        PROVE  \E q \in Proc : Busy(q)' /\ d \in Chain(q)'
    <3>1. PICK q \in Proc : Busy(q) /\ d \in Chain(q)
      BY <1>2 DEF Inv, Chains
    <3> QED
      BY <1>2, <1>9, <1>10, <3>1
  <2> QED
    BY <2>1, <2>2, <2>3 DEF Chains
<1>12. /\ Submitted' = Submitted /\ Completed' = Completed /\ taken' = taken /\ status' = status
       /\ Ring(avail, dev_avail, avail_idx)' /\ Ring(used, used_idx, dev_idx)'
  BY DEF Submitted, Completed, Inv, Requests, finish, rings
<1>13. \A g \in Submitted' \cup taken' \cup Completed' : Waiting(g)'
  <2>1. TAKE g \in Submitted' \cup taken' \cup Completed'
  <2>2. PICK q \in Proc : pc[q] = "wait" /\ idx0[q] = g
    BY <1>12, Facts
  <2>3. q # p
    BY <1>5, <2>2
  <2> QED
    BY <1>9, <2>2, <2>3 DEF Waiting
<1>14. \A q \in Proc : Busy(q)' /\ idx0'[q] \in Completed' => served'[q]
  BY <1>8, <1>9, <1>12 DEF Inv, Requests
<1>15. Requests'
  BY <1>12, <1>13, <1>14 DEF Inv, Requests
<1>16. Calls'
  BY <1>2, <1>8, <1>9 DEF Inv, Calls
<1>17. Transferred'
  BY <1>2, <1>8, <1>9 DEF Inv, Transferred
<1> QED
  BY <1>6, <1>7, <1>11, <1>15, <1>16, <1>17 DEF Inv
-----------------------------------------------------------------------------
(* Counting: a request gets three descriptors, and the rings have room. *)


\* A well-founded relation has a minimal element in every set of numbers.
LEMMA Minimal ==
  ASSUME NEW R, IsWellFoundedOn(R, Nat), NEW S, S \subseteq Nat, S # {}
  PROVE  \E m \in S : \A k \in S : ~(<<k, m>> \in R)
BY WFMin, Zenon

\* A set of numbers has a least one: alloc_desc takes the first free descriptor.
LEMMA Least ==
  ASSUME NEW S, S \subseteq Nat, S # {}
  PROVE  \E m \in S : \A k \in S : m <= k
<1>1. PICK R : IsWellFoundedOn(R, Nat) /\ \A k, m \in Nat : <<k, m>> \in R <=> k < m
  <2>1. \A k, m \in Nat : <<k, m>> \in OpToRel(<, Nat) <=> k < m
    BY DEF OpToRel
  <2> QED
    BY <2>1, NatLessThanWellFounded, Zenon
<1>2. IsWellFoundedOn(R, Nat)
  BY <1>1, Zenon
<1>3. PICK m \in S : \A k \in S : ~(<<k, m>> \in R)
  BY <1>2, Minimal, Zenon
<1>4. \A k \in S : ~(k < m)
  BY <1>1, <1>3, Zenon
<1> QED
  BY <1>4

\* Three free descriptors are found when there are three, the head of the chain
\* among them.
LEMMA Alloc ==
  ASSUME free \subseteq Desc, Cardinality(free) >= 3
  PROVE  /\ Head \in alloc3_desc /\ alloc3_desc \subseteq free
         /\ \E d, e \in alloc3_desc \ {Head} : d # e
<1>1. free \subseteq Nat
  BY RingAssumption DEF Desc
<1>2. IsFiniteSet(free)
  <2>1. IsFiniteSet(Desc)
    BY FS_Interval, RingAssumption DEF Desc
  <2> QED
    BY <2>1, FS_Subset
<1>3. PICK k \in Nat : k = Cardinality(free)
  BY <1>2, FS_CardinalityType
<1>4. PICK i \in free : \A e \in free : i <= e
  <2>1. free # {}
    BY <1>3, FS_EmptySet
  <2> QED
    BY <1>1, <2>1, Least, Zenon
<1>5. IsFiniteSet(free \ {i}) /\ Cardinality(free \ {i}) = k - 1
  BY <1>2, <1>3, FS_RemoveElement
<1>6. PICK j \in free \ {i} : \A e \in free \ {i} : j <= e
  <2>1. free \ {i} # {}
    BY <1>3, <1>5, FS_EmptySet
  <2> QED
    BY <1>1, <2>1, Least, Zenon
<1>7. PICK l \in (free \ {i}) \ {j} : \A e \in (free \ {i}) \ {j} : l <= e
  <2>1. Cardinality((free \ {i}) \ {j}) = (k - 1) - 1
    BY <1>5, FS_RemoveElement
  <2>2. (free \ {i}) \ {j} # {}
    BY <1>3, <2>1, FS_EmptySet
  <2> QED
    BY <1>1, <2>2, Least, Zenon
<1> DEFINE Below(d) == {e \in free : e < d}
<1>8. Cardinality(Below(i)) = 0
  <2>1. \A e \in free : ~(e < i)
    BY <1>1, <1>4
  <2>2. Below(i) = {}
    BY <2>1, Zenon
  <2> QED
    BY <2>2, FS_EmptySet, Zenon
<1>9. Cardinality(Below(j)) = 1
  <2>1. \A e \in free : e < j <=> e = i
    BY <1>1, <1>4, <1>6
  <2>2. Below(j) = {i}
    BY <2>1, Zenon
  <2> QED
    BY <2>2, FS_Singleton, Zenon
<1>10. Cardinality(Below(l)) = 2
  <2>1. \A e \in free : e < l <=> e = i \/ e = j
    BY <1>1, <1>4, <1>6, <1>7
  <2>2. Below(l) = {i} \cup {j}
    BY <2>1, Zenon
  <2>3. IsFiniteSet({i}) /\ Cardinality({i}) = 1 /\ j \notin {i}
    BY FS_Singleton, Zenon
  <2>4. Cardinality({i} \cup {j}) = Cardinality({i}) + 1
    BY <2>3, FS_AddElement, Zenon
  <2>5. Cardinality({i} \cup {j}) = 2
    BY <2>3, <2>4
  <2> QED
    BY <2>2, <2>5, Zenon
<1>11. {i, j, l} \subseteq alloc3_desc
  <2>1. \A d \in free : Cardinality(Below(d)) \in 0..2 => d \in alloc3_desc
    BY DEF alloc3_desc
  <2> QED
    BY <1>8, <1>9, <1>10, <2>1
<1>12. alloc3_desc \subseteq free
  BY DEF alloc3_desc
<1>13. Head \in alloc3_desc
  <2>1. \E d \in alloc3_desc : \A e \in alloc3_desc : d <= e
    BY <1>4, <1>11, <1>12
  <2> QED
    BY <2>1, Zenon DEF Head
<1>14. \E d, e \in alloc3_desc \ {Head} : d # e
  BY <1>6, <1>7, <1>11
<1> QED
  BY <1>12, <1>13, <1>14

\* A ring that two descriptors are not in has room for one more: its entries
\* are distinct descriptors.
LEMMA Room ==
  ASSUME NEW x \in 0..(Idx - 1), NEW y \in 0..(Idx - 1), NEW r \in [Desc -> Desc],
         Ring(r, x, y),
         NEW d \in Desc \ Entries(r, x, y), NEW e \in Desc \ Entries(r, x, y), d # e
  PROVE  Dist(x, y) < NUM - 1
<1>1. PICK D \in Nat : D = Dist(x, y) /\ D < NUM
  BY Distance DEF Ring
<1>2. PICK a \in Desc : a = x % NUM
  BY IndexNext
<1> DEFINE S == 0..(D - 1)
           T == (Desc \ {d}) \ {e}
           f == [n \in S |-> r[Slot(a, n)]]
<1>3. IsFiniteSet(S) /\ Cardinality(S) = D
  BY FS_Interval
<1>4. IsFiniteSet(T) /\ Cardinality(T) = NUM - 2
  <2>1. IsFiniteSet(Desc) /\ Cardinality(Desc) = NUM
    BY FS_Interval, RingAssumption DEF Desc
  <2>2. IsFiniteSet(Desc \ {d}) /\ Cardinality(Desc \ {d}) = NUM - 1
    BY <2>1, FS_RemoveElement
  <2> QED
    <3>1. e \in Desc \ {d}
      OBVIOUS
    <3>2. IsFiniteSet(T) /\ Cardinality(T) = Cardinality(Desc \ {d}) - 1
      BY <2>2, <3>1, FS_RemoveElement, Zenon
    <3> QED
      BY <2>2, <3>2, RingAssumption
<1>5. f \in [S -> T]
  <2>1. \A n \in S : r[Slot(a, n)] # d /\ r[Slot(a, n)] # e
    BY <1>1, <1>2 DEF Entries
  <2>2. \A n \in S : n \in Desc
    BY <1>1, RingAssumption DEF Desc
  <2>3. \A n \in S : r[Slot(a, n)] \in Desc
    BY <2>2, Slots, Zenon
  <2> QED
    BY <2>1, <2>3
<1>6. \A m, n \in S : f[m] = f[n] => m = n
  BY <1>1, <1>2 DEF Ring
<1> HIDE DEF S, T, f
<1>7. ~(Cardinality(T) < Cardinality(S))
  <2>1. SUFFICES ASSUME Cardinality(T) < Cardinality(S)
                 PROVE  FALSE
    OBVIOUS
  <2>2. \E m, n \in S : m # n /\ f[m] = f[n]
    BY <1>3, <1>4, <1>5, <2>1, FS_PigeonHole
  <2> QED
    BY <1>6, <2>2
<1> QED
  BY <1>1, <1>3, <1>4, <1>7, RingAssumption

\* The device finds room in used: the other descriptors of the chain are not
\* in it.
LEMMA UsedRoom ==
  ASSUME Inv, NEW h \in Desc, dev_complete(h)
  PROVE  Dist(used_idx, dev_idx) < NUM - 1
<1>1. PICK p \in Proc : Busy(p) /\ idx0[p] = h
  BY Facts DEF dev_complete
<1>2. /\ used_idx \in 0..(Idx - 1) /\ dev_idx \in 0..(Idx - 1) /\ used \in [Desc -> Desc]
      /\ Ring(used, used_idx, dev_idx)
  BY Facts DEF Inv, Requests
<1>3. PICK d, e \in Chain(p) \ {h} : d # e
  <2>1. \E d, e \in Chain(p) \ {idx0[p]} : d # e
    BY <1>1 DEF Inv, Chains
  <2> QED
    BY <1>1, <2>1
<1>4. \A g \in Chain(p) \ {h} : g \in Desc \ Entries(used, used_idx, dev_idx)
  <2>1. TAKE g \in Chain(p) \ {h}
  <2>2. ASSUME g \in Completed
        PROVE  FALSE
    <3>1. PICK q \in Proc : Busy(q) /\ idx0[q] = g
      BY <2>2, Facts
    <3> QED
      BY <1>1, <3>1, Facts
  <2> QED
    BY <1>1, <2>2, Facts DEF Completed
<1> QED
  BY <1>2, <1>3, <1>4, Room, Zenon

\* virtio_disk_rw finds room in avail: the descriptors it allocated are not in it.
LEMMA AvailRoom ==
  ASSUME Inv, Head \in alloc3_desc, \E d, e \in alloc3_desc \ {Head} : d # e
  PROVE  Dist(dev_avail, avail_idx) < NUM - 1
<1>1. PICK d, e \in alloc3_desc : d # e
  OBVIOUS
<1>2. /\ dev_avail \in 0..(Idx - 1) /\ avail_idx \in 0..(Idx - 1) /\ avail \in [Desc -> Desc]
      /\ Ring(avail, dev_avail, avail_idx)
  BY Facts DEF Inv, Requests
<1>3. \A g \in free : g \in Desc \ Entries(avail, dev_avail, avail_idx)
  <2>1. free \subseteq Desc
    BY DEF Inv, TypeOK
  <2>2. \A g \in Submitted : g \notin free
    BY Facts
  <2> QED
    BY <2>1, <2>2 DEF Submitted
<1>4. d \in free /\ e \in free
  BY DEF alloc3_desc
<1> QED
  BY <1>1, <1>2, <1>3, <1>4, Room, Zenon

\* Every step keeps the invariant.
LEMMA NextInv == Inv /\ [Next]_vars => Inv'
<1>1. SUFFICES ASSUME Inv, [Next]_vars
               PROVE  Inv'
  OBVIOUS
<1> DEFINE Labels == {"idle", "rw", "nodesc", "wait", "woken"}
<1>2. pc \in [Proc -> Labels] /\ pending \in BOOLEAN /\ handler \in BOOLEAN
  BY <1>1 DEF Inv, TypeOK
<1>3. ASSUME NEW p \in Proc, call(p) \/ alloc3_desc_fails(p)
      PROVE  Inv'
  <2>1. /\ UNCHANGED <<free, desc, b, status, rings, panicked, bdisk, idx0, served>>
        /\ pending' = pending /\ handler' = handler
    BY <1>3 DEF call, alloc3_desc_fails
  <2>2. /\ pc' \in [Proc -> Labels]
        /\ \A q \in Proc : /\ pc'[q] = "wait" <=> pc[q] = "wait"
                           /\ pc'[q] = "woken" <=> pc[q] = "woken"
    BY <1>2, <1>3 DEF call, alloc3_desc_fails, Goto, WakeFree
  <2> QED
    BY <1>1, <1>2, <2>1, <2>2, QuietInv, Zenon
<1>4. ASSUME intr_ack \/ intr_end \/ UNCHANGED vars
      PROVE  Inv'
  <2>1. /\ UNCHANGED <<free, desc, b, status, rings, panicked, bdisk, idx0, served>>
        /\ pending' \in BOOLEAN /\ handler' \in BOOLEAN /\ pc' = pc
    BY <1>2, <1>4, Zenon DEF intr_ack, intr_end, vars
  <2>2. /\ pc' \in [Proc -> Labels]
        /\ \A q \in Proc : /\ pc'[q] = "wait" <=> pc[q] = "wait"
                           /\ pc'[q] = "woken" <=> pc[q] = "woken"
    BY <1>2, <2>1
  <2> QED
    BY <1>1, <2>1, <2>2, QuietInv, Zenon
<1>5. ASSUME NEW p \in Proc, submit(p)
      PROVE  Inv'
  <2>1. Head \in alloc3_desc /\ \E d, e \in alloc3_desc \ {Head} : d # e
    <3>1. free \subseteq Desc /\ Cardinality(free) >= 3
      BY <1>1, <1>5 DEF Inv, TypeOK, submit
    <3> QED
      BY <3>1, Alloc
  <2>2. Dist(dev_avail, avail_idx) < NUM - 1
    BY <1>1, <2>1, AvailRoom
  <2> QED
    BY <1>1, <1>5, <2>1, <2>2, SubmitInv, Zenon
<1>6. ASSUME NEW p \in Proc, finish(p)
      PROVE  Inv'
  BY <1>1, <1>6, FinishInv
<1>7. CASE dev_take
  BY <1>1, <1>7, TakeInv
<1>8. ASSUME NEW h \in Desc, dev_complete(h)
      PROVE  Inv'
  <2>1. Dist(used_idx, dev_idx) < NUM - 1
    BY <1>1, <1>8, UsedRoom
  <2> QED
    BY <1>1, <1>8, <2>1, CompleteInv, Zenon
<1>9. CASE intr_entry
  BY <1>1, <1>9, EntryInv
<1> QED
  BY <1>1, <1>3, <1>4, <1>5, <1>6, <1>7, <1>8, <1>9 DEF Next

\* The invariant says that every descriptor has one owner.
LEMMA OneOwner == Inv => DescsExact
<1>1. SUFFICES ASSUME Inv, NEW d \in Desc
               PROVE  Cardinality({p \in Proc : pc[p] \in {"wait", "woken"} /\ d \in desc[idx0[p]]})
                        = IF d \in free THEN 0 ELSE 1
  BY DEF Inv, DescsExact
<1> DEFINE Owners == {p \in Proc : pc[p] \in {"wait", "woken"} /\ d \in desc[idx0[p]]}
<1>2. \A p \in Proc : p \in Owners <=> Busy(p) /\ d \in Chain(p)
  BY DEF Busy, Chain
<1>3. CASE d \in free
  <2>1. Owners = {}
    BY <1>1, <1>2, <1>3 DEF Inv, Chains
  <2> QED
    BY <1>3, <2>1, FS_EmptySet, Zenon
<1>4. CASE d \notin free
  <2>1. PICK p \in Proc : Busy(p) /\ d \in Chain(p)
    BY <1>1, <1>4 DEF Inv, Chains
  <2>2. Owners = {p}
    BY <1>1, <1>2, <2>1 DEF Inv, Chains
  <2> QED
    BY <1>4, <2>2, FS_Singleton, Zenon
<1> QED
  BY <1>3, <1>4
-----------------------------------------------------------------------------
(* Theorems. *)

\* Whatever number of processes use the disk and in whatever order the device
\* finishes their requests, the rings are never overrun and the invariant of
\* virtio_disk.c holds.
THEOREM Invariance == Spec => []Inv
<1>1. Init /\ [][Next]_vars => []Inv
  BY InitInv, NextInv, PTL
<1> QED
  BY <1>1, PTL DEF Spec

\* A process that virtio_disk_intr has woken finds b->disk clear and its own
\* request done.
THEOREM DataArrives == Spec => []Transferred
<1>1. Inv => Transferred
  BY DEF Inv
<1> QED
  BY <1>1, Invariance, PTL

\* No descriptor is lost or in two chains, and the panics of free_desc and of
\* virtio_disk_intr are not reached.
THEOREM DescriptorsOwned == Spec => []DescsExact
BY OneOwner, Invariance, PTL
=============================================================================

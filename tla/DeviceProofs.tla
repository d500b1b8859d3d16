---------------------------- MODULE DeviceProofs ----------------------------
(***************************************************************************)
(* Proofs about the disk driver: its inductive invariant, the two rings    *)
(* and the steps that only move requests through them, those of the device *)
(* and of the interrupt handler.                                           *)
(***************************************************************************)
EXTENDS Virtio, Integers, TLAPS

\* A ring from index x up to index y, both modulo Idx: the number of its
\* entries, and the slot of entry n when entry 0 is in slot a.
Dist(x, y) == IF x <= y THEN y - x ELSE y - x + Idx
After(a)   == IF a = NUM - 1 THEN 0 ELSE a + 1
Slot(a, n) == IF a + n < NUM THEN a + n ELSE a + n - NUM

\* The indices agree with the slots, and no descriptor is in the ring twice.
Ring(r, x, y) ==
  /\ Dist(x, y) < NUM
  /\ y % NUM = Slot(x % NUM, Dist(x, y))
  /\ \A m, n \in 0..(Dist(x, y) - 1) :
       r[Slot(x % NUM, m)] = r[Slot(x % NUM, n)] => m = n
Entries(r, x, y) == {r[Slot(x % NUM, n)] : n \in 0..(Dist(x, y) - 1)}

Submitted == Entries(avail, dev_avail, avail_idx)    \* not yet seen by the device
Completed == Entries(used, used_idx, dev_idx)        \* not yet seen by the handler

\* A process between submit and finish, and the chain of its request.
Busy(p)  == pc[p] \in {"wait", "woken"}
Chain(p) == desc[idx0[p]]

\* A request has its head and two more descriptors to itself, and every
\* descriptor that is not free belongs to one.
Chains ==
  /\ \A p \in Proc : Busy(p) =>
       /\ idx0[p] \in Chain(p) /\ b[idx0[p]] = p
       /\ Chain(p) \subseteq Desc \ free
       /\ \E d, e \in Chain(p) \ {idx0[p]} : d # e
  /\ \A p, q \in Proc : Busy(p) /\ Busy(q) /\ p # q => Chain(p) \cap Chain(q) = {}
  /\ \A d \in Desc \ free : \E p \in Proc : Busy(p) /\ d \in Chain(p)

\* b->disk is set while the process waits, and a call begins with nothing served.
Calls ==
  \A p \in Proc :
    /\ bdisk[p] <=> pc[p] = "wait"
    /\ ~Busy(p) => ~served[p] /\ idx0[p] = NUM

\* What the device and the handler have not finished is a request of a process
\* that waits, in one place; a completed request has its data and status.
Waiting(h) == \E p \in Proc : pc[p] = "wait" /\ idx0[p] = h
Requests ==
  /\ Ring(avail, dev_avail, avail_idx)
  /\ Ring(used, used_idx, dev_idx)
  /\ \A h \in Submitted \cup taken \cup Completed : Waiting(h)
  /\ Submitted \cap taken = {} /\ Submitted \cap Completed = {} /\ taken \cap Completed = {}
  /\ \A h \in Completed : status[h] = 0
  /\ \A p \in Proc : Busy(p) /\ idx0[p] \in Completed => served[p]

Inv == TypeOK /\ Chains /\ Requests /\ Calls /\ Transferred /\ ~panicked
-----------------------------------------------------------------------------
(* Numbers. *)

\* A remainder is a slot of the ring.
LEMMA ModRange == \A x \in Nat : (x % NUM) \in Desc
BY RingAssumption DEF Desc

\* The next number has the next remainder.
LEMMA ModNext ==
  ASSUME NEW x \in Nat
  PROVE  (x + 1) % NUM = After(x % NUM)
<1>1. \A y \in Nat : \E q \in Nat : y = (NUM * q) + (y % NUM)
  <2>1. \A y \in Nat : (y \div NUM) \in Nat /\ y = (NUM * (y \div NUM)) + (y % NUM)
    BY RingAssumption
  <2> QED
    BY <2>1, Zenon
<1>2. PICK q \in Nat : x = (NUM * q) + (x % NUM)
  BY <1>1
<1>3. PICK s \in Nat : x + 1 = (NUM * s) + ((x + 1) % NUM)
  BY <1>1
<1>4. PICK a \in Desc : a = x % NUM
  BY ModRange
<1>5. PICK c \in Desc : c = (x + 1) % NUM
  BY ModRange
<1>6. PICK k \in Int : k = s - q
  OBVIOUS
<1>7. NUM * k = a + 1 - c
  <2>1. PICK u \in Int : u = NUM * q
    BY RingAssumption
  <2>2. PICK v \in Int : v = NUM * s
    BY RingAssumption
  <2>3. NUM * k = v - u
    BY <1>6, <2>1, <2>2, RingAssumption
  <2>4. x = u + a /\ x + 1 = v + c
    BY <1>2, <1>3, <1>4, <1>5, <2>1, <2>2, Zenon
  <2>5. v - u = a + 1 - c
    BY <2>4 DEF Desc
  <2> QED
    BY <2>3, <2>5, Zenon
<1>8. k = 0 \/ k = 1
  <2>1. -NUM < NUM * k /\ NUM * k < NUM + NUM
    BY <1>7, RingAssumption DEF Desc
  <2>2. \A n \in Nat \ {0}, j \in Int : -n < n * j /\ n * j < n + n => j = 0 \/ j = 1
    OBVIOUS
  <2> QED
    BY <2>1, <2>2, RingAssumption
<1>9. c = After(a)
  BY <1>7, <1>8, RingAssumption DEF Desc, After
<1> QED
  BY <1>4, <1>5, <1>9, Zenon

\* The next index is in the next slot, at the end of the index values too:
\* their number is a multiple of NUM.
LEMMA IndexNext ==
  ASSUME NEW x \in 0..(Idx - 1)
  PROVE  /\ (x + 1) % Idx = IF x = Idx - 1 THEN 0 ELSE x + 1
         /\ x % NUM \in Desc
         /\ ((x + 1) % Idx) % NUM = After(x % NUM)
<1>1. (x + 1) % Idx = IF x = Idx - 1 THEN 0 ELSE x + 1
  BY RingAssumption
<1>2. x \in Nat
  BY RingAssumption
<1>3. (x + 1) % NUM = After(x % NUM)
  BY <1>2, ModNext
<1>4. x % NUM \in Desc
  BY <1>2, ModRange
<1>5. CASE x = Idx - 1
  <2>1. (x + 1) % NUM = 0 /\ 0 % NUM = 0
    BY <1>5, RingAssumption
  <2> QED
    BY <1>1, <1>3, <1>4, <1>5, <2>1, Zenon
<1>6. CASE x # Idx - 1
  BY <1>1, <1>3, <1>4, <1>6, Zenon
<1> QED
  BY <1>5, <1>6
-----------------------------------------------------------------------------
(* Rings. *)

\* The slots of a ring that starts at slot a.
LEMMA Slots ==
  ASSUME NEW a \in Desc
  PROVE  /\ After(a) \in Desc /\ Slot(a, 0) = a
         /\ \A n \in Desc : Slot(a, n) \in Desc
         /\ \A m, n \in Desc : Slot(a, m) = Slot(a, n) => m = n
         /\ \A n \in 0..(NUM - 2) : Slot(a, n + 1) = After(Slot(a, n))
         /\ \A n \in 0..(NUM - 2) : Slot(After(a), n) = Slot(a, n + 1)
BY RingAssumption DEF Slot, After, Desc

\* The number of entries of a ring, and how a step of an index changes it.
LEMMA Distance ==
  ASSUME NEW x \in 0..(Idx - 1), NEW y \in 0..(Idx - 1)
  PROVE  /\ Dist(x, y) \in 0..(Idx - 1) /\ (Dist(x, y) = 0 <=> x = y)
         /\ Dist(x, y) < NUM - 1 => Dist(x, (y + 1) % Idx) = Dist(x, y) + 1
         /\ x # y => Dist((x + 1) % Idx, y) = Dist(x, y) - 1
<1>1. (x + 1) % Idx = IF x = Idx - 1 THEN 0 ELSE x + 1
  BY IndexNext
<1>2. (y + 1) % Idx = IF y = Idx - 1 THEN 0 ELSE y + 1
  BY IndexNext
<1>3. Idx >= NUM
  BY RingAssumption
<1> QED
  BY <1>1, <1>2, <1>3, RingAssumption DEF Dist

\* One more entry is put after the last one, in a slot no entry has.
LEMMA Produce ==
  ASSUME NEW x \in 0..(Idx - 1), NEW y \in 0..(Idx - 1), NEW r \in [Desc -> Desc],
         Ring(r, x, y), Dist(x, y) < NUM - 1, NEW h \in Desc \ Entries(r, x, y)
  PROVE  /\ Ring([r EXCEPT ![y % NUM] = h], x, (y + 1) % Idx)
         /\ \A g : g \in Entries([r EXCEPT ![y % NUM] = h], x, (y + 1) % Idx)
                    <=> g \in Entries(r, x, y) \/ g = h
<1> DEFINE s == [r EXCEPT ![y % NUM] = h]
           z == (y + 1) % Idx
<1>1. PICK D \in Nat : D = Dist(x, y)
  BY Distance
<1>2. PICK a \in Desc : a = x % NUM
  BY IndexNext
<1>3. D < NUM - 1 /\ Dist(x, z) = D + 1
  BY <1>1, Distance
<1>4. y % NUM \in Desc /\ y % NUM = Slot(a, D) /\ z % NUM = After(y % NUM)
  BY <1>1, <1>2, IndexNext DEF Ring
<1>5. z % NUM = Slot(a, D + 1)
  <2>1. D \in 0..(NUM - 2)
    BY <1>3, RingAssumption
  <2>2. Slot(a, D + 1) = After(Slot(a, D))
    BY <2>1, Slots
  <2> QED
    BY <1>4, <2>2, Zenon
<1>6. s[Slot(a, D)] = h
  BY <1>4
<1>7. \A n \in 0..(D - 1) : s[Slot(a, n)] = r[Slot(a, n)] /\ r[Slot(a, n)] # h
  <2>1. TAKE n \in 0..(D - 1)
  <2>2. n \in Desc /\ D \in Desc /\ n # D
    BY <1>3, RingAssumption DEF Desc
  <2>3. Slot(a, n) \in Desc /\ Slot(a, n) # Slot(a, D)
    BY <2>2, Slots
  <2>4. r[Slot(a, n)] # h
    BY <1>1, <1>2 DEF Entries
  <2> QED
    BY <1>4, <2>3, <2>4
<1>8. 0..(Dist(x, z) - 1) = 0..(D - 1) \cup {D}
  BY <1>3
<1>9. \A m, n \in 0..(D - 1) : r[Slot(a, m)] = r[Slot(a, n)] => m = n
  BY <1>1, <1>2 DEF Ring
<1>10. \A m, n \in 0..(Dist(x, z) - 1) : s[Slot(a, m)] = s[Slot(a, n)] => m = n
  BY <1>6, <1>7, <1>8, <1>9
<1>11. Ring(s, x, z)
  BY <1>2, <1>3, <1>5, <1>10, RingAssumption DEF Ring
<1>12. Entries(s, x, z) = Entries(r, x, y) \cup {h}
  BY <1>1, <1>2, <1>6, <1>7, <1>8 DEF Entries
<1> QED
  BY <1>11, <1>12, Zenon

\* The first entry is taken out, and the others stay.
LEMMA Consume ==
  ASSUME NEW x \in 0..(Idx - 1), NEW y \in 0..(Idx - 1), NEW r \in [Desc -> Desc],
         Ring(r, x, y), x # y,
         NEW s, s = [r EXCEPT ![x % NUM] = 0], NEW z, z = (x + 1) % Idx
  PROVE  /\ Ring(s, z, y)
         /\ r[x % NUM] \in Entries(r, x, y)
         /\ Entries(s, z, y) = Entries(r, x, y) \ {r[x % NUM]}
<1>1. PICK D \in Nat : D = Dist(x, y)
  BY Distance
<1>2. PICK a \in Desc : a = x % NUM /\ z % NUM = After(a)
  BY IndexNext
<1>3. 0 < D /\ D < NUM /\ Dist(z, y) = D - 1
  BY <1>1, Distance DEF Ring
<1>4. Slot(a, 0) = a /\ \A n \in 0..(D - 1) : Slot(After(a), n) = Slot(a, n + 1)
  BY <1>3, Slots, RingAssumption
<1>5. y % NUM = Slot(After(a), D - 1)
  BY <1>1, <1>2, <1>3, <1>4 DEF Ring
<1>6. \A n \in 0..(D - 2) : s[Slot(After(a), n)] = r[Slot(a, n + 1)]
  <2>1. TAKE n \in 0..(D - 2)
  <2>2. 0 \in Desc /\ n \in 0..(D - 1) /\ n + 1 # 0
    BY <1>3, RingAssumption DEF Desc
  <2>3. n + 1 \in Desc
    BY <1>3, RingAssumption DEF Desc
  <2>4. Slot(a, n + 1) \in Desc /\ Slot(a, n + 1) # a
    BY <1>4, <2>2, <2>3, Slots
  <2> QED
    BY <1>2, <1>4, <2>2, <2>4
<1>7. \A m, n \in 0..(D - 1) : r[Slot(a, m)] = r[Slot(a, n)] => m = n
  BY <1>1, <1>2 DEF Ring
<1>8. \A n \in 0..(D - 2) : n + 1 \in 0..(D - 1) /\ n + 1 # 0 /\ 0 \in 0..(D - 1)
  BY <1>3
<1>9. \A m, n \in 0..(D - 2) : s[Slot(After(a), m)] = s[Slot(After(a), n)] => m = n
  BY <1>6, <1>7, <1>8
<1>10. Ring(s, z, y)
  <2>1. Dist(z, y) < NUM /\ 0..(Dist(z, y) - 1) = 0..(D - 2)
    BY <1>3, RingAssumption
  <2> QED
    BY <1>2, <1>3, <1>5, <1>9, <2>1 DEF Ring
<1>11. r[x % NUM] = r[Slot(a, 0)] /\ 0 \in 0..(D - 1)
  BY <1>2, <1>3, <1>4
<1>12. r[x % NUM] \in Entries(r, x, y)
  BY <1>1, <1>2, <1>11 DEF Entries
<1>13. Entries(s, z, y) = {r[Slot(a, n + 1)] : n \in 0..(D - 2)}
  BY <1>2, <1>3, <1>6 DEF Entries
<1>14. Entries(r, x, y) = {r[Slot(a, n)] : n \in 0..(D - 1)}
  BY <1>1, <1>2 DEF Entries
<1>15. \A n \in 0..(D - 1) : n = 0 \/ (n - 1 \in 0..(D - 2) /\ (n - 1) + 1 = n)
  BY <1>3
<1>16. Entries(s, z, y) = Entries(r, x, y) \ {r[x % NUM]}
  <2>1. ASSUME NEW n \in 0..(D - 2)
        PROVE  r[Slot(a, n + 1)] \in Entries(r, x, y) \ {r[x % NUM]}
    BY <1>7, <1>8, <1>11, <1>14
  <2>2. ASSUME NEW n \in 0..(D - 1), r[Slot(a, n)] # r[x % NUM]
        PROVE  r[Slot(a, n)] \in Entries(s, z, y)
    BY <1>11, <1>13, <1>15, <2>2, Zenon
  <2>3. \A e \in Entries(s, z, y) : e \in Entries(r, x, y) \ {r[x % NUM]}
    BY <1>13, <2>1, Zenon
  <2>4. \A e \in Entries(r, x, y) \ {r[x % NUM]} : e \in Entries(s, z, y)
    BY <1>14, <2>2, Zenon
  <2> QED
    BY <2>3, <2>4, Zenon
<1> QED
  BY <1>10, <1>12, <1>16, Zenon
-----------------------------------------------------------------------------
(* The invariant. *)

\* What the invariant says of the types and of the requests that are not
\* finished: they have a head that is not free, and different ones.
LEMMA Facts ==
  ASSUME Inv
  PROVE  /\ avail_idx \in 0..(Idx - 1) /\ dev_avail \in 0..(Idx - 1)
         /\ used_idx \in 0..(Idx - 1) /\ dev_idx \in 0..(Idx - 1)
         /\ avail \in [Desc -> Desc] /\ used \in [Desc -> Desc]
         /\ \A p \in Proc : Busy(p) => idx0[p] \in Desc \ free /\ Chain(p) \subseteq Desc \ free
         /\ \A p, q \in Proc : Busy(p) /\ Busy(q) /\ p # q => idx0[q] \notin Chain(p)
         /\ \A h \in Submitted \cup taken \cup Completed :
              \E p \in Proc : pc[p] = "wait" /\ Busy(p) /\ idx0[p] = h /\ b[h] = p
<1>1. /\ {avail_idx, used_idx, dev_idx, dev_avail} \subseteq 0..(Idx - 1)
      /\ avail \in [Desc -> Desc] /\ used \in [Desc -> Desc]
  BY DEF Inv, TypeOK
<1>2. \A p \in Proc : Busy(p) =>
        idx0[p] \in Chain(p) /\ Chain(p) \subseteq Desc \ free /\ b[idx0[p]] = p
  BY DEF Inv, Chains
<1>3. \A p, q \in Proc : Busy(p) /\ Busy(q) /\ p # q => Chain(p) \cap Chain(q) = {}
  BY DEF Inv, Chains
<1>4. \A h \in Submitted \cup taken \cup Completed : Waiting(h)
  BY DEF Inv, Requests
<1>5. \A p \in Proc : pc[p] = "wait" => Busy(p)
  BY DEF Busy
<1>6. \A h \in Submitted \cup taken \cup Completed :
        \E p \in Proc : pc[p] = "wait" /\ Busy(p) /\ idx0[p] = h /\ b[h] = p
  <2>1. TAKE h \in Submitted \cup taken \cup Completed
  <2>2. PICK p \in Proc : pc[p] = "wait" /\ idx0[p] = h
    BY <1>4 DEF Waiting
  <2> QED
    BY <1>2, <1>5, <2>2
<1>7. \A p, q \in Proc : Busy(p) /\ Busy(q) /\ p # q => idx0[q] \notin Chain(p)
  BY <1>2, <1>3
<1> QED
  BY <1>1, <1>2, <1>6, <1>7

\* The invariant holds initially.
LEMMA InitInv == Init => Inv
<1>1. SUFFICES ASSUME Init
               PROVE  Inv
  OBVIOUS
<1>2. 0 \in 0..(Idx - 1) /\ 0 \in Desc /\ 0 % NUM = 0
  BY RingAssumption DEF Desc
<1>3. TypeOK
  <2>1. /\ free \subseteq Desc /\ desc \in [Desc -> SUBSET Desc]
        /\ b \in [Desc -> Proc \cup {NULL}] /\ status \in [Desc -> {0, 255}]
        /\ avail \in [Desc -> Desc] /\ used \in [Desc -> Desc] /\ taken \subseteq Desc
    BY <1>1, <1>2 DEF Init
  <2>2. /\ pc \in [Proc -> {"idle", "rw", "nodesc", "wait", "woken"}]
        /\ bdisk \in [Proc -> BOOLEAN] /\ served \in [Proc -> BOOLEAN]
        /\ idx0 \in [Proc -> 0..NUM]
    BY <1>1, RingAssumption DEF Init
  <2>3. /\ {avail_idx, used_idx, dev_idx, dev_avail} \subseteq 0..(Idx - 1)
        /\ {pending, handler, panicked} \subseteq BOOLEAN
    BY <1>1, <1>2, Zenon DEF Init
  <2> QED
    BY <2>1, <2>2, <2>3 DEF TypeOK
<1>4. \A p \in Proc : ~Busy(p) /\ pc[p] # "wait" /\ pc[p] # "woken"
  BY <1>1 DEF Init, Busy
<1>5. Chains
  BY <1>1, <1>4 DEF Init, Chains
<1>6. Dist(0, 0) = 0 /\ Slot(0, 0) = 0 /\ 0..(0 - 1) = {}
  BY RingAssumption DEF Dist, Slot
<1>7. Submitted = {} /\ Completed = {}
  BY <1>1, <1>6 DEF Init, Submitted, Completed, Entries
<1>8. Ring(avail, dev_avail, avail_idx) /\ Ring(used, used_idx, dev_idx)
  BY <1>1, <1>2, <1>6, RingAssumption DEF Init, Ring
<1>9. Requests
  BY <1>1, <1>4, <1>7, <1>8 DEF Init, Requests
<1>10. Calls /\ Transferred /\ ~panicked
  BY <1>1, <1>4 DEF Init, Calls, Transferred
<1> QED
  BY <1>3, <1>5, <1>9, <1>10 DEF Inv

\* A step that leaves the requests alone: processes come and go, and the
\* interrupt is taken and acknowledged.
LEMMA QuietInv ==
  ASSUME Inv, UNCHANGED <<free, desc, b, status, rings, panicked, bdisk, idx0, served>>,
         pending' \in BOOLEAN, handler' \in BOOLEAN,
         pc' \in [Proc -> {"idle", "rw", "nodesc", "wait", "woken"}],
         \A q \in Proc : /\ pc'[q] = "wait" <=> pc[q] = "wait"
                         /\ pc'[q] = "woken" <=> pc[q] = "woken"
  PROVE  Inv'
<1>1. TypeOK'
  BY DEF Inv, TypeOK, rings
<1>2. \A q \in Proc : (Busy(q)' <=> Busy(q)) /\ Chain(q)' = Chain(q)
  BY DEF Busy, Chain
<1>3. \A h : Waiting(h)' <=> Waiting(h)
  BY DEF Waiting
<1>4. Submitted' = Submitted /\ Completed' = Completed /\ taken' = taken
  BY DEF Submitted, Completed, rings
<1>5. Chains'
  BY <1>2 DEF Inv, Chains
<1>6. Ring(avail, dev_avail, avail_idx)' /\ Ring(used, used_idx, dev_idx)'
  BY DEF Inv, Requests, rings
<1>7. Requests'
  BY <1>2, <1>3, <1>4, <1>6 DEF Inv, Requests
<1>8. (Calls /\ Transferred /\ ~panicked)'
  BY <1>2 DEF Inv, Calls, Transferred
<1> QED
  BY <1>1, <1>5, <1>7, <1>8 DEF Inv

\* The device takes a request out of avail.
LEMMA TakeInv ==
  ASSUME Inv, dev_take
  PROVE  Inv'
<1> DEFINE h == avail[dev_avail % NUM]
<1>1. /\ Ring(avail, dev_avail, avail_idx)' /\ h \in Submitted /\ Submitted' = Submitted \ {h}
  <2>1. /\ Ring(avail', dev_avail', avail_idx)
        /\ h \in Entries(avail, dev_avail, avail_idx)
        /\ Entries(avail', dev_avail', avail_idx) = Entries(avail, dev_avail, avail_idx) \ {h}
    <3>1. Ring(avail, dev_avail, avail_idx)
      BY DEF Inv, Requests
    <3>2. /\ dev_avail # avail_idx /\ avail' = [avail EXCEPT ![dev_avail % NUM] = 0]
          /\ dev_avail' = (dev_avail + 1) % Idx
      BY DEF dev_take
    <3>3. /\ avail_idx \in 0..(Idx - 1) /\ dev_avail \in 0..(Idx - 1)
          /\ avail \in [Desc -> Desc]
      BY Facts
    <3> QED
      BY <3>1, <3>2, <3>3, Consume, Zenon
  <2> QED
    BY <2>1, Zenon DEF Submitted, dev_take
<1>2. h \in Desc /\ (dev_avail + 1) % Idx \in 0..(Idx - 1)
  BY Facts, IndexNext, RingAssumption
<1>3. TypeOK'
  <2>1. avail' \in [Desc -> Desc]
    <3>1. 0 \in Desc
      BY RingAssumption DEF Desc
    <3> QED
      BY <3>1, Facts, Zenon DEF dev_take
  <2> QED
    BY <1>2, <2>1 DEF Inv, TypeOK, dev_take
<1>4. /\ \A q \in Proc : (Busy(q)' <=> Busy(q)) /\ Chain(q)' = Chain(q)
      /\ \A g : Waiting(g)' <=> Waiting(g)
  BY DEF Busy, Chain, Waiting, dev_take
<1>5. Chains'
  BY <1>4 DEF Inv, Chains, dev_take
<1>6. Completed' = Completed /\ taken' = taken \cup {h}
  BY DEF Completed, dev_take
<1>7. Ring(used, used_idx, dev_idx)'
  BY DEF Inv, Requests, dev_take
<1>8. Requests'
  BY <1>1, <1>4, <1>6, <1>7 DEF Inv, Requests, dev_take
<1>9. (Calls /\ Transferred /\ ~panicked)'
  BY <1>4 DEF Inv, Calls, Transferred, dev_take
<1> QED
  BY <1>3, <1>5, <1>8, <1>9 DEF Inv

\* The device finishes a request, whichever it is, and puts it in used.
LEMMA CompleteInv ==
  ASSUME Inv, NEW h \in Desc, dev_complete(h), Dist(used_idx, dev_idx) < NUM - 1
  PROVE  Inv'
<1>1. PICK p \in Proc : pc[p] = "wait" /\ Busy(p) /\ idx0[p] = h /\ b[h] = p
  BY Facts DEF dev_complete
<1>2. Ring(used, used_idx, dev_idx)' /\ Completed' = Completed \cup {h}
  <2>1. Ring(used, used_idx, dev_idx) /\ h \in Desc \ Entries(used, used_idx, dev_idx)
    BY DEF Inv, Requests, Completed, dev_complete
  <2>2. /\ used_idx \in 0..(Idx - 1) /\ dev_idx \in 0..(Idx - 1) /\ used \in [Desc -> Desc]
    BY Facts
  <2>3. used' = [used EXCEPT ![dev_idx % NUM] = h] /\ dev_idx' = (dev_idx + 1) % Idx
    BY DEF dev_complete
  <2>4. /\ Ring(used', used_idx, dev_idx')
        /\ Entries(used', used_idx, dev_idx') = Entries(used, used_idx, dev_idx) \cup {h}
    <3> DEFINE r == [used EXCEPT ![dev_idx % NUM] = h]
    <3>1. /\ Ring(r, used_idx, (dev_idx + 1) % Idx)
          /\ \A g : g \in Entries(r, used_idx, (dev_idx + 1) % Idx)
                     <=> g \in Entries(used, used_idx, dev_idx) \/ g = h
      BY <2>1, <2>2, Produce, Zenon
    <3> QED
      BY <2>3, <3>1, Zenon
  <2> QED
    BY <2>4, Zenon DEF Completed, dev_complete
<1>3. TypeOK'
  <2>1. (dev_idx + 1) % Idx \in 0..(Idx - 1)
    BY Facts, RingAssumption
  <2>2. used' \in [Desc -> Desc]
    BY Facts, Zenon DEF dev_complete
  <2> QED
    BY <2>1, <2>2 DEF Inv, TypeOK, dev_complete
<1>4. /\ \A q \in Proc : (Busy(q)' <=> Busy(q)) /\ Chain(q)' = Chain(q)
      /\ \A g : Waiting(g)' <=> Waiting(g)
  BY DEF Busy, Chain, Waiting, dev_complete
<1>5. Chains'
  BY <1>4 DEF Inv, Chains, dev_complete
<1>6. Submitted' = Submitted /\ taken' = taken \ {h} /\ h \in taken
  BY DEF Submitted, dev_complete
<1>7. Ring(avail, dev_avail, avail_idx)'
  BY DEF Inv, Requests, dev_complete
<1>8. \A g \in Completed' : status'[g] = 0
  <2>1. \A g \in Desc : status'[g] = 0 \/ status'[g] = status[g]
    BY DEF Inv, TypeOK, dev_complete
  <2>2. \A g \in Completed : status[g] = 0
    BY DEF Inv, Requests
  <2>3. \A g \in Completed : g \in Desc
    BY Facts
  <2>4. status'[h] = 0
    BY DEF Inv, TypeOK, dev_complete
  <2> QED
    BY <1>2, <2>1, <2>2, <2>3, <2>4
<1>9. \A q \in Proc : served'[q] <=> served[q] \/ idx0[q] = h
  BY Zenon DEF dev_complete
<1>10. \A q \in Proc : Busy(q)' /\ idx0'[q] \in Completed' => served'[q]
  BY <1>2, <1>4, <1>9 DEF Inv, Requests, dev_complete
<1>11. Requests'
  BY <1>2, <1>4, <1>6, <1>7, <1>8, <1>10 DEF Inv, Requests
<1>12. (Calls /\ Transferred /\ ~panicked)'
  <2>1. NUM \notin Desc
    BY RingAssumption DEF Desc
  <2> QED
    BY <1>4, <1>9, <2>1 DEF Inv, Calls, Transferred, dev_complete
<1> QED
  BY <1>3, <1>5, <1>11, <1>12 DEF Inv

\* The handler wakes the process of the next completed request.
LEMMA EntryInv ==
  ASSUME Inv, intr_entry
  PROVE  Inv'
<1> DEFINE id == used[used_idx % NUM]
<1>1. /\ Ring(used, used_idx, dev_idx)' /\ id \in Completed /\ Completed' = Completed \ {id}
  <2>1. Ring(used, used_idx, dev_idx)
    BY DEF Inv, Requests
  <2>2. /\ used_idx # dev_idx /\ used' = [used EXCEPT ![used_idx % NUM] = 0]
        /\ used_idx' = (used_idx + 1) % Idx
    BY DEF intr_entry
  <2>3. /\ used_idx \in 0..(Idx - 1) /\ dev_idx \in 0..(Idx - 1) /\ used \in [Desc -> Desc]
    BY Facts
  <2>4. /\ Ring(used', used_idx', dev_idx)
        /\ id \in Entries(used, used_idx, dev_idx)
        /\ Entries(used', used_idx', dev_idx) = Entries(used, used_idx, dev_idx) \ {id}
    BY <2>1, <2>2, <2>3, Consume, Zenon
  <2> QED
    BY <2>4, Zenon DEF Completed, intr_entry
<1>2. PICK p \in Proc : pc[p] = "wait" /\ Busy(p) /\ idx0[p] = id /\ b[id] = p
  BY <1>1, Facts
<1>3. status[id] = 0 /\ served[p] /\ p # NULL
  BY <1>1, <1>2, NullAssumption DEF Inv, Requests
<1>4. /\ ~panicked'
      /\ bdisk' = [q \in Proc |-> bdisk[q] /\ q # p]
      /\ pc' = [q \in Proc |-> IF q = p /\ pc[q] = "wait" THEN "woken" ELSE pc[q]]
  BY <1>2, <1>3, Zenon DEF intr_entry, Inv
<1>5. TypeOK'
  <2>1. 0 \in Desc
    BY RingAssumption DEF Desc
  <2>2. (used_idx + 1) % Idx \in 0..(Idx - 1)
    BY Facts, RingAssumption
  <2>3. used' \in [Desc -> Desc]
    BY <2>1, Facts, Zenon DEF intr_entry
  <2>4. pc' \in [Proc -> {"idle", "rw", "nodesc", "wait", "woken"}]
    BY <1>4 DEF Inv, TypeOK
  <2>5. bdisk' \in [Proc -> BOOLEAN]
    BY <1>4, Zenon
  <2>6. panicked' \in BOOLEAN
    BY DEF intr_entry
  <2> QED
    BY <2>2, <2>3, <2>4, <2>5, <2>6 DEF Inv, TypeOK, intr_entry
<1>6. \A q \in Proc : /\ (Busy(q)' <=> Busy(q)) /\ Chain(q)' = Chain(q) /\ idx0'[q] = idx0[q]
                      /\ pc'[q] = "wait" <=> pc[q] = "wait" /\ q # p
                      /\ pc'[q] = "woken" <=> pc[q] = "woken" \/ q = p
  BY <1>2, <1>4 DEF Busy, Chain, intr_entry
<1>7. Chains'
  <2>1. free' = free /\ b' = b
    BY DEF intr_entry
  <2> QED
    BY <1>6, <2>1 DEF Inv, Chains
<1>8. Submitted' = Submitted /\ taken' = taken
  BY DEF Submitted, intr_entry
<1>9. Ring(avail, dev_avail, avail_idx)'
  BY DEF Inv, Requests, intr_entry
<1>10. \A g \in Submitted' \cup taken' \cup Completed' : Waiting(g)'
  <2>1. TAKE g \in Submitted' \cup taken' \cup Completed'
  <2>2. g \in Submitted \cup taken \cup Completed /\ g # id
    BY <1>1, <1>8 DEF Inv, Requests
  <2>3. PICK q \in Proc : pc[q] = "wait" /\ idx0[q] = g
    BY <2>2, Facts
  <2>4. pc'[q] = "wait" /\ idx0'[q] = g
    BY <1>2, <1>6, <2>2, <2>3
  <2> QED
    BY <2>4 DEF Waiting
<1>11. Requests'
  BY <1>1, <1>6, <1>8, <1>9, <1>10 DEF Inv, Requests, intr_entry
<1>12. Calls'
  <2>1. \A q \in Proc : (bdisk'[q] <=> bdisk[q] /\ q # p) /\ served'[q] = served[q]
    BY <1>4, Zenon DEF intr_entry
  <2> QED
    BY <1>6, <2>1 DEF Inv, Calls
<1>13. Transferred'
  BY <1>3, <1>4, <1>6, Zenon DEF Inv, Transferred, intr_entry
<1> QED
  BY <1>4, <1>5, <1>7, <1>11, <1>12, <1>13 DEF Inv
=============================================================================

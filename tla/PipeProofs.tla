----------------------------- MODULE PipeProofs -----------------------------
(***************************************************************************)
(* Proofs about module Pipe, for any readers and writers, any size of the  *)
(* ring and any bound of the counters that is a multiple of it: no wakeup  *)
(* is lost, and the ring with its wrapping counters is a bounded queue.    *)
(*                                                                         *)
(* Calls says who has the lock and which ends are open; with it, the       *)
(* reasons for which a process sleeps are kept by each step.  RingOK says  *)
(* that the counters are at most PIPESIZE apart, so that the slot a byte   *)
(* is written to is none that is still to be read.                         *)
(***************************************************************************)
EXTENDS Pipe, Integers, Sequences, TLAPS

Types ==
  /\ lock \in Proc \cup {NULL}
  /\ has \subseteq Proc
  /\ killed \in [Proc -> BOOLEAN]
  /\ pc \in [Proc -> {"user", "acquire", "loop", "copy", "sleep"}]

\* Who is in a call has its end open, and who is past acquire has the lock.
Calls ==
  /\ \A p \in Proc : pc[p] # "user" => p \in has
  /\ \A p \in has : (p \in Writer => writeopen) /\ (p \in Reader => readopen)
  /\ \A p \in Proc : pc[p] \in {"loop", "copy"} => lock = p
  /\ \A p \in Proc : pc[p] = "copy" => p \in Reader

\* Why a reader or a writer may be asleep.
ReadersSleep ==
  \A p \in Reader : pc[p] = "sleep" =>
    writeopen /\ (Empty \/ lock \in Writer \/ \E w \in Writer : killed[w])
WritersSleep ==
  \A p \in Writer : pc[p] = "sleep" =>
    readopen /\ (Full \/ \E r \in Reader : pc[r] = "copy")

Inv == Types /\ Calls /\ ReadersSleep /\ WritersSleep
-----------------------------------------------------------------------------
(* Wakeups. *)

\* Every step of a process keeps the types.
LEMMA NextTypes ==
  ASSUME Types, NEW p \in Proc, Step(p)
  PROVE  Types'
<1> USE ProcAssumption DEF Types, ring, ends, Goto
<1>1. ASSUME NEW k \in 1..MaxN, Call(p, k) PROVE Types'
  BY <1>1 DEF Call
<1>2. CASE acquire(p)
  BY <1>2 DEF acquire
<1>3. CASE pipewrite(p)
  BY <1>3 DEF pipewrite, write_fails, write_full, write_ends, write_byte, Return,
     Sleep, Wake
<1>4. CASE piperead(p)
  BY <1>4 DEF piperead, read_fails, read_empty, read_starts, read_byte, read_faults,
     read_ends, Return, Sleep, Wake
<1>5. CASE fileclose(p)
  BY <1>5 DEF fileclose
<1>6. CASE pipeclose(p)
  BY <1>6 DEF pipeclose, Wake
<1>7. CASE kill(p)
  BY <1>7 DEF kill
<1> QED
  BY <1>1, <1>2, <1>3, <1>4, <1>5, <1>6, <1>7 DEF Step

\* pi->lock is held from the start of a call to its end or to sleep, and
\* pipeclose comes only when nobody has the end open.
LEMMA NextCalls ==
  ASSUME Types, Calls, NEW p \in Proc, Step(p)
  PROVE  Calls'
<1> USE ProcAssumption DEF Types, Calls, ring, ends, Goto
<1>1. ASSUME NEW k \in 1..MaxN, Call(p, k) PROVE Calls'
  BY <1>1 DEF Call
<1>2. CASE acquire(p)
  BY <1>2 DEF acquire
<1>3. CASE pipewrite(p)
  BY <1>3 DEF pipewrite, write_fails, write_full, write_ends, write_byte, Return,
     Sleep, Wake
<1>4. CASE piperead(p)
  BY <1>4 DEF piperead, read_fails, read_empty, read_starts, read_byte, read_faults,
     read_ends, Return, Sleep, Wake
<1>5. CASE fileclose(p)
  BY <1>5 DEF fileclose
<1>6. CASE pipeclose(p)
  BY <1>6 DEF pipeclose, Wake
<1>7. CASE kill(p)
  BY <1>7 DEF kill
<1> QED
  BY <1>1, <1>2, <1>3, <1>4, <1>5, <1>6, <1>7 DEF Step

\* pipewrite wakes the readers when it returns or sleeps, pipeclose when it
\* closes the write end.
LEMMA NextReaders ==
  ASSUME Types, Calls, ReadersSleep, NEW p \in Proc, Step(p)
  PROVE  ReadersSleep'
<1> USE ProcAssumption DEF Types, Calls, ReadersSleep, ring, ends, Goto, Empty, Proc
<1>1. ASSUME NEW k \in 1..MaxN, Call(p, k) PROVE ReadersSleep'
  BY <1>1 DEF Call
<1>2. CASE acquire(p)
  BY <1>2 DEF acquire
<1>3. CASE pipewrite(p)
  BY <1>3 DEF pipewrite, write_fails, write_full, write_ends, write_byte, Return,
     Sleep, Wake
<1>4. CASE piperead(p)
  BY <1>4 DEF piperead, read_fails, read_empty, read_starts, read_byte, read_faults,
     read_ends, Return, Sleep, Wake
<1>5. CASE fileclose(p)
  BY <1>5 DEF fileclose
<1>6. CASE pipeclose(p)
  BY <1>6 DEF pipeclose, Wake
<1>7. CASE kill(p)
  BY <1>7 DEF kill
<1> QED
  BY <1>1, <1>2, <1>3, <1>4, <1>5, <1>6, <1>7 DEF Step

\* piperead wakes the writers when it has copied, pipeclose when it closes the
\* read end.
LEMMA NextWriters ==
  ASSUME Types, Calls, WritersSleep, NEW p \in Proc, Step(p)
  PROVE  WritersSleep'
<1> USE ProcAssumption DEF Types, Calls, WritersSleep, ring, ends, Goto, Full, Proc
<1>1. ASSUME NEW k \in 1..MaxN, Call(p, k) PROVE WritersSleep'
  BY <1>1 DEF Call
<1>2. CASE acquire(p)
  BY <1>2 DEF acquire
<1>3. CASE pipewrite(p)
  BY <1>3 DEF pipewrite, write_fails, write_full, write_ends, write_byte, Return,
     Sleep, Wake
<1>4. CASE piperead(p)
  BY <1>4 DEF piperead, read_fails, read_empty, read_starts, read_byte, read_faults,
     read_ends, Return, Sleep, Wake
<1>5. CASE fileclose(p)
  BY <1>5 DEF fileclose
<1>6. CASE pipeclose(p)
  BY <1>6 DEF pipeclose, Wake
<1>7. CASE kill(p)
  BY <1>7 DEF kill
<1> QED
  BY <1>1, <1>2, <1>3, <1>4, <1>5, <1>6, <1>7 DEF Step

\* pipealloc makes an empty pipe that nobody uses yet.
LEMMA InitInv == Init => Inv
BY DEF Init, Inv, Types, Calls, ReadersSleep, WritersSleep, Proc

\* Every step keeps the invariant.
LEMMA NextInv == Inv /\ [Next]_vars => Inv'
<1> SUFFICES ASSUME Inv, [Next]_vars PROVE Inv'
  OBVIOUS
<1>1. ASSUME NEW p \in Proc, Step(p) PROVE Inv'
  BY <1>1, NextTypes, NextCalls, NextReaders, NextWriters DEF Inv
<1>2. CASE UNCHANGED vars
  BY <1>2 DEF vars, Inv, Types, Calls, ReadersSleep, WritersSleep, Full, Empty
<1> QED
  BY <1>1, <1>2 DEF Next, Done

\* pipewrite, piperead and pipeclose lose no wakeup, whoever reads and writes.
THEOREM WakeupsKept == Spec => []NoLostWakeup
<1>1. Inv => NoLostWakeup
  BY ProcAssumption DEF Inv, Types, Calls, ReadersSleep, WritersSleep, NoLostWakeup, Proc
<1> QED
  BY InitInv, NextInv, <1>1, PTL DEF Spec
-----------------------------------------------------------------------------
(* Counters and slots. *)

\* Every number is a multiple of b and its remainder.
LEMMA Quotient ==
  ASSUME NEW a \in Nat, NEW b \in Nat \ {0}
  PROVE  \E r \in 0..b - 1, q \in Int : a % b = r /\ a = b * q + r
<1>1. a = b * (a \div b) + (a % b) /\ a % b \in 0..b - 1 /\ a \div b \in Int
  BY SMT
<1> QED
  BY <1>1

\* Division leaves one remainder.
LEMMA Remainder ==
  ASSUME NEW a \in Nat, NEW b \in Nat \ {0}, NEW q \in Int, NEW r \in 0..b - 1,
         a = b * q + r
  PROVE  a % b = r
<1>1. a = b * (a \div b) + (a % b) /\ a % b \in 0..b - 1 /\ a \div b \in Int
  BY SMT
<1>2. \A k, l \in Int : \A s, t \in 0..b - 1 : b * k + s = b * l + t => s = t
  BY SMT
<1> QED
  BY <1>1, <1>2

\* A counter goes up by one and wraps around to 0 at UMax.
LEMMA NextIndex ==
  ASSUME NEW a \in 0..UMax - 1
  PROVE  (a + 1) % UMax = IF a + 1 = UMax THEN 0 ELSE a + 1
<1>1. CASE a + 1 = UMax
  BY <1>1, SizeAssumption, Remainder, a + 1 = UMax * 1 + 0
<1>2. CASE a + 1 # UMax
  BY <1>2, SizeAssumption, Remainder, a + 1 = UMax * 0 + (a + 1)
<1> QED
  BY <1>1, <1>2

\* The difference of two counters as unsigned arithmetic has it.
LEMMA Distance ==
  ASSUME NEW a \in 0..UMax - 1, NEW b \in 0..UMax - 1
  PROVE  (b + UMax - a) % UMax = IF a <= b THEN b - a ELSE b + UMax - a
<1>1. CASE a <= b
  BY <1>1, SizeAssumption, Remainder, b + UMax - a = UMax * 1 + (b - a)
<1>2. CASE ~(a <= b)
  BY <1>2, SizeAssumption, Remainder, b + UMax - a = UMax * 0 + (b + UMax - a)
<1> QED
  BY <1>1, <1>2

\* A counter that wraps around stays at its slot of the ring, since UMax is a
\* multiple of PIPESIZE: nwrite % PIPESIZE is right after an overflow.
LEMMA SlotWraps ==
  ASSUME NEW a \in Nat
  PROVE  (a + UMax) % PIPESIZE = a % PIPESIZE
<1>1. PIPESIZE \in Nat \ {0} /\ UMax \in Nat /\ a + UMax \in Nat
  BY SizeAssumption
<1>2. PICK u \in Int : UMax = PIPESIZE * u
  <2>1. PICK r \in 0..PIPESIZE - 1, u \in Int :
          UMax % PIPESIZE = r /\ UMax = PIPESIZE * u + r
    BY <1>1, Quotient
  <2>2. r = 0
    BY <2>1, SizeAssumption
  <2>3. UMax = PIPESIZE * u
    BY <1>1, <2>1, <2>2
  <2> QED
    BY <2>3
<1>3. PICK r \in 0..PIPESIZE - 1, q \in Int : a % PIPESIZE = r /\ a = PIPESIZE * q + r
  BY <1>1, Quotient
<1>4. PICK s \in Int : a + UMax = PIPESIZE * s + r
  <2>1. a + UMax = PIPESIZE * (q + u) + r /\ q + u \in Int
    BY <1>1, <1>2, <1>3
  <2> QED
    BY <2>1
<1>5. (a + UMax) % PIPESIZE = r
  BY <1>1, <1>4, Remainder
<1> QED
  BY <1>3, <1>5

\* Counters less than PIPESIZE apart are at different slots.
LEMMA SlotsDiffer ==
  ASSUME NEW a \in Nat, NEW d \in 1..PIPESIZE - 1
  PROVE  (a + d) % PIPESIZE # a % PIPESIZE
<1>1. PIPESIZE \in Nat \ {0} /\ a + d \in Nat
  BY SizeAssumption
<1>2. PICK r \in 0..PIPESIZE - 1, q \in Int : a % PIPESIZE = r /\ a = PIPESIZE * q + r
  BY <1>1, Quotient
<1>3. PICK s \in 0..PIPESIZE - 1, u \in Int :
        (a + d) % PIPESIZE = s /\ a + d = PIPESIZE * u + s
  BY <1>1, Quotient
<1>4. r # s
  BY <1>1, <1>2, <1>3
<1> QED
  BY <1>2, <1>3, <1>4
-----------------------------------------------------------------------------
(* The ring as a queue. *)

\* At most PIPESIZE bytes are inside.
RingOK ==
  /\ data \in [0..PIPESIZE - 1 -> Byte]
  /\ nread \in 0..UMax - 1 /\ nwrite \in 0..UMax - 1
  /\ Count <= PIPESIZE

\* How many bytes the counters say are in the ring.
LEMMA CountIs ==
  ASSUME RingOK
  PROVE  Count = IF nread <= nwrite THEN nwrite - nread ELSE nwrite + UMax - nread
BY Distance DEF RingOK, Count

\* A part of the ring, read from r on, is a sequence of bytes.
LEMMA RingSeq ==
  ASSUME NEW d \in [0..PIPESIZE - 1 -> Byte], NEW r \in 0..UMax - 1, NEW c \in Nat
  PROVE  LET s == [k \in 1..c |-> d[(r + k - 1) % PIPESIZE]]
         IN  s \in Seq(Byte) /\ Len(s) = c
<1>1. \A a \in Nat : a % PIPESIZE \in 0..PIPESIZE - 1
  BY Quotient, SizeAssumption
<1>2. \A k \in 1..c : r + k - 1 \in Nat
  BY SizeAssumption
<1>3. \A k \in 1..c : d[(r + k - 1) % PIPESIZE] \in Byte
  BY <1>1, <1>2
<1> QED
  BY <1>3

\* Two queues of bytes with the same bytes are the same.
LEMMA SameSeq ==
  ASSUME NEW s \in Seq(Byte), NEW t \in Seq(Byte), Len(s) = Len(t),
         \A k \in 1..Len(s) : s[k] = t[k]
  PROVE  s = t
OBVIOUS

\* pipewrite's assignment appends a byte to the queue.
LEMMA PutByte ==
  ASSUME RingOK, ~Full, NEW x \in Byte, nread' = nread, nwrite' = (nwrite + 1) % UMax,
         data' = [data EXCEPT ![nwrite % PIPESIZE] = x]
  PROVE  RingOK' /\ Len(Queue) < PIPESIZE /\ Queue' = Append(Queue, x)
<1> USE SizeAssumption
<1>1. Count = IF nread <= nwrite THEN nwrite - nread ELSE nwrite + UMax - nread
  BY CountIs
<1>2. /\ nwrite' = IF nwrite + 1 = UMax THEN 0 ELSE nwrite + 1
      /\ nwrite' \in 0..UMax - 1
  BY NextIndex DEF RingOK
<1>3. Count # PIPESIZE
  <2> SUFFICES ASSUME Count = PIPESIZE PROVE FALSE
    OBVIOUS
  <2>1. CASE nread + PIPESIZE = UMax * 0 + nwrite
    BY <2>1, Remainder DEF RingOK, Full
  <2>2. CASE nread + PIPESIZE = UMax * 1 + nwrite
    BY <2>2, Remainder DEF RingOK, Full
  <2> QED
    BY <1>1, <2>1, <2>2 DEF RingOK
<1>4. Count' = Count + 1
  <2>1. Count' = IF nread' <= nwrite' THEN nwrite' - nread' ELSE nwrite' + UMax - nread'
    BY <1>2, Distance DEF RingOK, Count
  <2> QED
    BY <1>1, <1>2, <1>3, <2>1 DEF RingOK
<1>5. nwrite % PIPESIZE \in 0..PIPESIZE - 1
  BY Quotient DEF RingOK
<1>6. RingOK'
  BY <1>2, <1>3, <1>4, <1>5, <1>1 DEF RingOK
<1>7. (nread + Count) % PIPESIZE = nwrite % PIPESIZE
  <2>1. nread + Count = nwrite \/ nread + Count = nwrite + UMax
    BY <1>1 DEF RingOK
  <2>2. nwrite \in Nat
    BY DEF RingOK
  <2> QED
    BY <2>1, <2>2, SlotWraps
<1>8. \A k \in 1..Count : (nread + k - 1) % PIPESIZE # nwrite % PIPESIZE
  <2> SUFFICES ASSUME NEW k \in 1..Count
               PROVE  (nread + k - 1) % PIPESIZE # (nread + Count) % PIPESIZE
    BY <1>7
  <2>1. PICK d \in 1..PIPESIZE - 1 : nread + Count = (nread + k - 1) + d
    <3>1. /\ Count - k + 1 \in 1..PIPESIZE - 1
          /\ nread + Count = (nread + k - 1) + (Count - k + 1)
      BY <1>1, <1>3 DEF RingOK
    <3> QED
      BY <3>1
  <2>2. nread + k - 1 \in Nat
    BY <1>1 DEF RingOK
  <2> QED
    BY <2>1, <2>2, SlotsDiffer
<1>9. \A k \in 1..Count + 1 : (nread + k - 1) % PIPESIZE \in 0..PIPESIZE - 1
  <2>1. \A k \in 1..Count + 1 : nread + k - 1 \in Nat
    BY <1>1 DEF RingOK
  <2> QED
    BY <2>1, Quotient
<1>10. /\ Queue \in Seq(Byte) /\ Len(Queue) = Count /\ Count \in Nat
       /\ \A k \in 1..Count : Queue[k] = data[(nread + k - 1) % PIPESIZE]
  BY <1>1, RingSeq DEF RingOK, Queue
<1>11. /\ Queue' \in Seq(Byte) /\ Len(Queue') = Count + 1
       /\ \A k \in 1..Count + 1 : Queue'[k] = data'[(nread + k - 1) % PIPESIZE]
  BY <1>4, <1>6, <1>10, RingSeq DEF RingOK, Queue
<1>12. \A k \in 1..Count : Queue'[k] = Queue[k]
  BY <1>8, <1>9, <1>10, <1>11 DEF RingOK
<1>13. Queue'[Count + 1] = x
  BY <1>5, <1>7, <1>10, <1>11 DEF RingOK
<1>14. Queue' = Append(Queue, x)
  <2>1. /\ Append(Queue, x) \in Seq(Byte) /\ Len(Append(Queue, x)) = Count + 1
        /\ \A k \in 1..Count : Append(Queue, x)[k] = Queue[k]
        /\ Append(Queue, x)[Count + 1] = x
    BY <1>10
  <2>2. \A k \in 1..Count + 1 : Queue'[k] = Append(Queue, x)[k]
    BY <1>10, <1>12, <1>13, <2>1
  <2>3. Queue' \in Seq(Byte) /\ Len(Queue') = Count + 1
    BY <1>11, Zenon
  <2> QED
    BY <2>1, <2>2, <2>3, SameSeq, Zenon
<1> QED
  BY <1>3, <1>6, <1>10, <1>14 DEF RingOK

\* piperead's assignment takes the first byte off the queue.
LEMMA GetByte ==
  ASSUME RingOK, ~Empty, nread' = (nread + 1) % UMax, nwrite' = nwrite, data' = data
  PROVE  /\ RingOK' /\ Queue # <<>>
         /\ Head(Queue) = data[nread % PIPESIZE] /\ Queue' = Tail(Queue)
<1> USE SizeAssumption
<1>1. Count = IF nread <= nwrite THEN nwrite - nread ELSE nwrite + UMax - nread
  BY CountIs
<1>2. /\ nread' = IF nread + 1 = UMax THEN 0 ELSE nread + 1
      /\ nread' \in 0..UMax - 1
  BY NextIndex DEF RingOK
<1>3. Count # 0
  BY <1>1 DEF RingOK, Empty
<1>4. Count' = Count - 1
  <2>1. Count' = IF nread' <= nwrite' THEN nwrite' - nread' ELSE nwrite' + UMax - nread'
    BY <1>2, Distance DEF RingOK, Count
  <2> QED
    BY <1>1, <1>2, <1>3, <2>1 DEF RingOK
<1>5. RingOK'
  BY <1>1, <1>2, <1>4 DEF RingOK
<1>6. /\ Queue \in Seq(Byte) /\ Len(Queue) = Count /\ Count \in Nat
      /\ \A k \in 1..Count : Queue[k] = data[(nread + k - 1) % PIPESIZE]
  BY <1>1, RingSeq DEF RingOK, Queue
<1>7. /\ Queue' \in Seq(Byte) /\ Len(Queue') = Count - 1
      /\ \A k \in 1..Count - 1 : Queue'[k] = data[(nread' + k - 1) % PIPESIZE]
  BY <1>3, <1>4, <1>5, <1>6, RingSeq DEF RingOK, Queue
<1>8. \A k \in 1..Count - 1 :
        (nread' + k - 1) % PIPESIZE = (nread + (k + 1) - 1) % PIPESIZE
  <2> SUFFICES ASSUME NEW k \in 1..Count - 1
               PROVE  (nread' + k - 1) % PIPESIZE = (nread + (k + 1) - 1) % PIPESIZE
    OBVIOUS
  <2>1. k - 1 \in Nat
    BY <1>6
  <2>2. CASE nread + 1 = UMax
    <3>1. nread + (k + 1) - 1 = (k - 1) + UMax /\ nread' + k - 1 = k - 1
      BY <1>2, <2>1, <2>2 DEF RingOK
    <3> QED
      BY <2>1, <3>1, SlotWraps
  <2>3. CASE nread + 1 # UMax
    BY <1>2, <2>3, nread' + k - 1 = nread + (k + 1) - 1 DEF RingOK
  <2> QED
    BY <2>2, <2>3
<1>9. \A k \in 1..Count - 1 : Queue'[k] = Queue[k + 1]
  <2> SUFFICES ASSUME NEW k \in 1..Count - 1 PROVE Queue'[k] = Queue[k + 1]
    OBVIOUS
  <2>1. k + 1 \in 1..Count
    BY <1>6
  <2>2. Queue[k + 1] = data[(nread + (k + 1) - 1) % PIPESIZE]
    BY <1>6, <2>1, Zenon
  <2>3. Queue'[k] = data[(nread' + k - 1) % PIPESIZE]
    BY <1>7, Zenon
  <2> QED
    BY <1>8, <2>2, <2>3, Zenon
<1>10. Queue # <<>> /\ Queue' = Tail(Queue)
  <2>1. Queue # <<>> /\ Tail(Queue) \in Seq(Byte) /\ Len(Tail(Queue)) = Count - 1
    BY <1>3, <1>6
  <2>2. \A k \in 1..Count - 1 : Tail(Queue)[k] = Queue[k + 1]
    BY <1>3, <1>6
  <2> HIDE SizeAssumption
  <2>3. Queue' \in Seq(Byte) /\ Len(Queue') = Count - 1
    BY <1>7, Zenon
  <2>4. \A k \in 1..Count - 1 : Queue'[k] = Tail(Queue)[k]
    BY <1>9, <2>2, Zenon
  <2>5. Queue' = Tail(Queue)
    BY <2>1, <2>3, <2>4, SameSeq, Zenon
  <2> QED
    BY <2>1, <2>5
<1>11. Head(Queue) = data[nread % PIPESIZE]
  <2>1. Queue[1] = data[(nread + 1 - 1) % PIPESIZE] /\ nread + 1 - 1 = nread
    BY <1>3, <1>6 DEF RingOK
  <2> QED
    BY <2>1, <1>10, <1>6
<1> QED
  BY <1>5, <1>10, <1>11
-----------------------------------------------------------------------------
(* Refinement. *)

\* pipealloc's pipe is the empty queue.
LEMMA InitSim == Init => RingOK /\ Fifo!Init
<1> SUFFICES ASSUME Init PROVE RingOK /\ Fifo!Init
  OBVIOUS
<1>1. Count = 0
  BY SizeAssumption, Distance DEF Init, Count
<1>2. data \in [0..PIPESIZE - 1 -> Byte]
  BY ByteAssumption DEF Init
<1>3. RingOK
  <2>1. nread = 0 /\ nwrite = 0
    BY DEF Init
  <2>2. 0 \in 0..UMax - 1 /\ 0 <= PIPESIZE
    BY SizeAssumption
  <2> QED
    BY <1>1, <1>2, <2>1, <2>2 DEF RingOK
<1>4. Queue = <<>>
  BY <1>1 DEF Queue
<1>5. Fifo!Init
  BY <1>4 DEF Init, Fifo!Init
<1> QED
  BY <1>3, <1>5

\* A step that leaves the ring and the ends alone is none of the queue's.
LEMMA Idle ==
  ASSUME RingOK, UNCHANGED <<ring, got, readopen, writeopen>>
  PROVE  RingOK' /\ UNCHANGED Fifo!vars
BY DEF RingOK, ring, Queue, Count, Fifo!vars

\* Every step of a process is a step of the queue or changes nothing of it.
LEMMA StepSim ==
  ASSUME Types, Calls, RingOK, NEW p \in Proc, Step(p)
  PROVE  RingOK' /\ [Fifo!Next]_(Fifo!vars)
<1> USE DEF ring, ends
<1>1. ASSUME NEW k \in 1..MaxN, Call(p, k) PROVE RingOK' /\ UNCHANGED Fifo!vars
  BY <1>1, Idle DEF Call
<1>2. ASSUME acquire(p) PROVE RingOK' /\ UNCHANGED Fifo!vars
  BY <1>2, Idle DEF acquire
<1>3. ASSUME write_fails(p) \/ write_full(p) \/ write_ends(p)
      PROVE  RingOK' /\ UNCHANGED Fifo!vars
  BY <1>3, Idle DEF write_fails, write_full, write_ends
<1>4. ASSUME NEW x \in Byte, write_byte(p, x) PROVE RingOK' /\ Fifo!Put(x)
  <2>1. readopen /\ writeopen
    BY <1>4 DEF write_byte, Calls, Types
  <2>2. RingOK' /\ Len(Queue) < PIPESIZE /\ Queue' = Append(Queue, x)
    BY <1>4, PutByte DEF write_byte
  <2> QED
    BY <1>4, <2>1, <2>2 DEF write_byte, Fifo!Put
<1>5. ASSUME read_fails(p) \/ read_empty(p) \/ read_starts(p) \/ read_ends(p)
      PROVE  RingOK' /\ UNCHANGED Fifo!vars
  BY <1>5, Idle DEF read_fails, read_empty, read_starts, read_ends
<1>6. ASSUME pc[p] = "copy" PROVE readopen
  BY <1>6 DEF Calls, Types
<1>7. ASSUME read_byte(p) PROVE RingOK' /\ Fifo!Get
  <2>1. /\ RingOK' /\ Queue # <<>>
        /\ Head(Queue) = data[nread % PIPESIZE] /\ Queue' = Tail(Queue)
    BY <1>7, GetByte DEF read_byte
  <2> QED
    BY <1>6, <1>7, <2>1 DEF read_byte, Fifo!Get
<1>8. ASSUME read_faults(p) PROVE RingOK' /\ Fifo!Drop
  <2>1. RingOK' /\ Queue # <<>> /\ Queue' = Tail(Queue)
    BY <1>8, GetByte DEF read_faults
  <2> QED
    BY <1>6, <1>8, <2>1 DEF read_faults, Fifo!Drop
<1>9. ASSUME fileclose(p) PROVE RingOK' /\ UNCHANGED Fifo!vars
  BY <1>9, Idle DEF fileclose
<1>10. ASSUME pipeclose(p) PROVE RingOK' /\ (Fifo!CloseRead \/ Fifo!CloseWrite)
  <2>1. RingOK' /\ Queue' = Queue /\ got' = got
    BY <1>10 DEF pipeclose, RingOK, Queue, Count
  <2>2. CASE p \in Writer
    BY <1>10, <2>1, <2>2 DEF pipeclose, Calls, Fifo!CloseWrite
  <2>3. CASE p \notin Writer
    BY <1>10, <2>1, <2>3 DEF pipeclose, Calls, Proc, Fifo!CloseRead
  <2> QED
    BY <2>2, <2>3
<1>11. ASSUME kill(p) PROVE RingOK' /\ UNCHANGED Fifo!vars
  BY <1>11, Idle DEF kill
<1> QED
  BY <1>1, <1>2, <1>3, <1>4, <1>5, <1>7, <1>8, <1>9, <1>10, <1>11
     DEF Step, pipewrite, piperead, Fifo!Next

\* A pipe is a bounded FIFO of bytes (BoundedFifo), for every PIPESIZE and
\* every width of the counters.
THEOREM Refinement == Spec => ImplementsFifo
<1>1. Inv /\ RingOK /\ [Next]_vars => RingOK' /\ [Fifo!Next]_(Fifo!vars)
  <2> SUFFICES ASSUME Inv, RingOK, [Next]_vars
               PROVE  RingOK' /\ [Fifo!Next]_(Fifo!vars)
    OBVIOUS
  <2>1. ASSUME NEW p \in Proc, Step(p) PROVE RingOK' /\ [Fifo!Next]_(Fifo!vars)
    BY <2>1, StepSim DEF Inv
  <2>2. CASE UNCHANGED vars
    BY <2>2, Idle DEF vars, ring
  <2> QED
    BY <2>1, <2>2 DEF Next, Done
<1> QED
  BY InitInv, NextInv, InitSim, <1>1, PTL DEF Spec, ImplementsFifo, Fifo!Spec
=============================================================================

----------------------------- MODULE LogProofs -----------------------------
(***************************************************************************)
(* The inductive invariant of the log, and what each step does to memory,  *)
(* to the disk and to the calls in progress when it holds.                 *)
(***************************************************************************)
EXTENDS Log, TLAPS

\* Processes between begin_op and end_op; a panic ends no call.
Ops == {p \in Proc : pc[p] \in {"op", "too_big", "panic"}}

\* The labels of commit, and whether somebody is at one of them.
Committer == {"commit", "write_log", "write_head", "install", "clear", "committed"}
At(l)     == \E p \in Proc : pc[p] = l

\* Calls and a commit exclude each other, and nobody runs before recovery is done.
Group ==
  /\ committing <=> \E p \in Proc : pc[p] \in Committer
  /\ committing => Ops = {}
  /\ \A p, q \in Proc : pc[p] \in Committer /\ pc[q] \in Committer => p = q
  /\ boot # "up" => \A p \in Proc : pc[p] = "idle"

\* The loops of write_log and install_trans stay inside the log.
Loops ==
  /\ At("write_log") \/ At("install") \/ boot = "install" => tail <= Len(lh)
  /\ At("write_head") => tail = 1 /\ Len(lh) > 0
  /\ boot = "read" => tail = 1

\* Entry i of the log is pinned: it has not been installed.
Pinned(i) ==
  /\ boot = "up"
  /\ At("install") => tail <= i
  /\ ~At("clear")

\* A block is logged once, and has one pin until it is installed.  Without a
\* pin, a cached block is as it is on disk; with one, it stays in the cache.
Memory ==
  /\ \A i, j \in 1..Len(lh) : lh[i] = lh[j] => i = j
  /\ \A b \in Block : pins[b] =
       IF \E i \in 1..Len(lh) : lh[i] = b /\ Pinned(i) THEN 1 ELSE 0
  /\ \A b \in Block : IF pins[b] = 0 THEN cache[b] \in {NULL, disk[b]} ELSE cache[b] # NULL

\* The header on disk is empty unless what it lists is being installed.
Header ==
  /\ \A i, j \in 1..Len(dhead) : dhead[i] = dhead[j] => i = j
  /\ dhead # <<>> => At("install") \/ At("clear") \/ boot # "up"
  /\ At("install") \/ At("clear") \/ boot \in {"install", "clear"} => dhead = lh

\* What the loops have copied so far.
Copied ==
  /\ At("write_log") => \A i \in 1..tail - 1 : dlog[i] = View[lh[i]]
  /\ At("write_head") \/ At("install") => \A i \in 1..Len(lh) : dlog[i] = View[lh[i]]
  /\ At("install") \/ boot = "install" => \A i \in 1..tail - 1 : disk[lh[i]] = dlog[i]
  /\ At("clear") \/ boot = "clear" => \A i \in 1..Len(lh) : disk[lh[i]] = dlog[i]

\* log.outstanding is the number of calls in progress.
Counted == outstanding = Cardinality(Ops)

Rest == Loops /\ Memory /\ Header /\ Copied
Inv  == TypeOK /\ Group /\ Counted /\ Rest

\* The log fits into its header and into its area on disk.
LEMMA Fits == Capacity \in Nat /\ Capacity <= LOGSIZE /\ Capacity <= NLog
BY SizeAssumption DEF Capacity

\* What that says about the last call, and what a step does to the calls.
Few == \A p \in Ops : outstanding \in Nat \ {0} /\ (outstanding = 1 => Ops = {p})
OpsStep ==
  \/ outstanding' = outstanding /\ Ops' = Ops
  \/ \E p \in Proc \ Ops : outstanding' = outstanding + 1 /\ Ops' = Ops \cup {p}
  \/ \E p \in Ops : outstanding' = outstanding - 1 /\ Ops' = Ops \ {p}
  \/ outstanding' = 0 /\ Ops' = {}
-----------------------------------------------------------------------------
(* The log and the disk. *)

\* At most one process is at a label of commit.
AtIs ==
  /\ \A p \in Proc, l \in Committer : pc[p] \in Committer => (At(l) <=> pc[p] = l)
  /\ ~committing => \A l \in Committer : ~At(l)

\* It follows from Group, in a state and in the next one.
LEMMA AtOne == Group => AtIs
BY DEF Group, AtIs, At
LEMMA AtOneNext == Group' => AtIs'
BY AtOne, PTL

Work == {"write_log", "write_head", "install", "clear"}

\* What begin_op and end_op do to pc does not concern the log.
LEMMA RestKept ==
  ASSUME Rest, \A l \in Work : At(l)' <=> At(l),
         UNCHANGED <<disk, dlog, dhead, cache, pins, lh, tail, boot>>
  PROVE  Rest'
<1>1. /\ At("write_log")' <=> At("write_log")
      /\ At("write_head")' <=> At("write_head")
      /\ At("install")' <=> At("install")
      /\ At("clear")' <=> At("clear")
  BY DEF Work
<1>2. View' = View /\ \A i : Pinned(i)' <=> Pinned(i)
  BY <1>1 DEF View, Pinned
<1> QED
  BY <1>1, <1>2 DEF Rest, Loops, Memory, Header, Copied

\* bread and bget change no contents: a block without a pin is as on disk.
LEMMA CacheRest ==
  ASSUME TypeOK, Rest, NEW b \in Block, bread(b) \/ bget_recycles(b)
  PROVE  Rest' /\ View' = View
<1>1. /\ UNCHANGED <<disk, dlog, dhead, pins, lh, pc, tail, boot>>
      /\ \/ cache[b] = NULL /\ cache' = [cache EXCEPT ![b] = disk[b]]
         \/ pins[b] = 0 /\ cache' = [cache EXCEPT ![b] = NULL]
  BY DEF bread, bget_recycles, ondisk, group
<1>2. pins[b] = 0 /\ cache[b] \in {NULL, disk[b]} /\ cache'[b] \in {NULL, disk[b]}
      /\ \A c \in Block \ {b} : cache'[c] = cache[c]
  BY <1>1 DEF TypeOK, Rest, Memory
<1>3. View' = View
  BY <1>1, <1>2 DEF View
<1>4. \A l : At(l)' <=> At(l)
  BY <1>1 DEF At
<1>5. \A i : Pinned(i)' <=> Pinned(i)
  BY <1>1, <1>4 DEF Pinned
<1>6. Memory'
  BY <1>1, <1>2, <1>5 DEF Rest, Memory
<1> QED
  BY <1>1, <1>3, <1>4, <1>6 DEF Rest, Loops, Header, Copied

\* begin_op and end_op.
LEMMA OpRest ==
  ASSUME TypeOK, Group, Rest, NEW p \in Proc, begin_op(p) \/ end_op(p)
  PROVE  Rest' /\ View' = View
<1>1. UNCHANGED <<disk, dlog, dhead, cache, pins, lh, tail, boot>>
  BY DEF begin_op, end_op, ondisk
<1>2. \A q \in Proc, l \in Work : pc'[q] = l <=> pc[q] = l
  BY DEF begin_op, end_op, Goto, WakeAll, Work, TypeOK
<1>3. \A l \in Work : At(l)' <=> At(l)
  BY <1>2 DEF At
<1> QED
  BY <1>1, <1>3, RestKept DEF View

\* log_write logs a block once, with one pin, and what it wrote is in the cache.
LEMMA WriteRest ==
  ASSUME TypeOK, Group, Group', Rest, NEW p \in Proc, NEW b \in Block, NEW x \in Val,
         log_write(p, b, x), pc'[p] = "op"
  PROVE  Rest' /\ View' = [View EXCEPT ![b] = x]
<1>1. /\ pc[p] = "op" /\ boot = "up" /\ ~committing
      /\ UNCHANGED <<disk, dlog, dhead, tail, boot, committing>>
      /\ cache' = [cache EXCEPT ![b] = x]
      /\ \/ (\E i \in 1..Len(lh) : lh[i] = b) /\ lh' = lh /\ pins' = pins
         \/ /\ ~\E i \in 1..Len(lh) : lh[i] = b
            /\ lh' = Append(lh, b) /\ pins' = [pins EXCEPT ![b] = @ + 1]
  <2>1. pc[p] = "op" /\ p \in Ops
    BY DEF log_write, Ops
  <2>2. boot = "up" /\ ~committing
    BY <2>1 DEF Group
  <2> QED
    BY <2>1, <2>2 DEF log_write, Goto, InSeq, ondisk, TypeOK
<1>2. \A l \in Committer : ~At(l) /\ ~At(l)'
  BY <1>1, AtOne, AtOneNext DEF AtIs
<1>3. \A i : Pinned(i) /\ Pinned(i)'
  BY <1>1, <1>2 DEF Pinned, Committer
<1>4. x # NULL /\ cache \in [Block -> Val \cup {NULL}]
  BY ValAssumption DEF TypeOK
<1>5. View' = [View EXCEPT ![b] = x]
  BY <1>1, <1>4, Zenon DEF View
<1>6. cache'[b] # NULL /\ \A c \in Block \ {b} : cache'[c] = cache[c]
  BY <1>1, <1>4
<1>7. lh \in Seq(Block) /\ Len(lh) \in Nat /\ pins \in [Block -> Nat]
  BY DEF TypeOK
<1>8. \A c \in Block : pins[c] = IF \E i \in 1..Len(lh) : lh[i] = c THEN 1 ELSE 0
  BY <1>3 DEF Rest, Memory
<1>9. Memory'
  <2>1. CASE (\E i \in 1..Len(lh) : lh[i] = b) /\ lh' = lh /\ pins' = pins
    <3>1. pins[b] = 1
      BY <1>8, <2>1
    <3> QED
      BY <1>1, <1>3, <1>6, <1>8, <2>1, <3>1 DEF Rest, Memory
  <2>2. CASE /\ ~\E i \in 1..Len(lh) : lh[i] = b
             /\ lh' = Append(lh, b) /\ pins' = [pins EXCEPT ![b] = @ + 1]
    <3>1. /\ Len(lh') = Len(lh) + 1 /\ lh'[Len(lh) + 1] = b
          /\ \A i \in 1..Len(lh) : lh'[i] = lh[i]
      BY <1>7, <2>2
    <3>2. \A i, j \in 1..Len(lh') : lh'[i] = lh'[j] => i = j
      BY <1>7, <2>2, <3>1 DEF Rest, Memory
    <3>3. pins'[b] = 1 /\ \A c \in Block \ {b} : pins'[c] = pins[c]
      BY <1>7, <1>8, <2>2
    <3>4. \A c \in Block : (\E i \in 1..Len(lh') : lh'[i] = c)
                           <=> c = b \/ \E i \in 1..Len(lh) : lh[i] = c
      <4>1. 1..Len(lh') = (1..Len(lh)) \cup {Len(lh) + 1}
        BY <1>7, <3>1
      <4> QED
        BY <3>1, <4>1
    <3>5. \A c \in Block : pins'[c] = IF \E i \in 1..Len(lh') : lh'[i] = c THEN 1 ELSE 0
      BY <1>8, <3>3, <3>4
    <3>6. \A c \in Block :
            IF pins'[c] = 0 THEN cache'[c] \in {NULL, disk'[c]} ELSE cache'[c] # NULL
      BY <1>1, <1>6, <3>3 DEF Rest, Memory
    <3> QED
      BY <1>3, <3>2, <3>5, <3>6 DEF Memory
  <2> QED
    BY <1>1, <2>1, <2>2
<1> QED
  BY <1>1, <1>2, <1>5, <1>9 DEF Rest, Loops, Header, Copied, Committer

\* The labels of a committing process, before and after its step.
LEMMA CommitAt ==
  ASSUME Group, Group', NEW p \in Proc, pc[p] \in Committer
  PROVE  /\ boot = "up"
         /\ \A l \in Committer : At(l) <=> pc[p] = l
         /\ pc'[p] \in Committer => \A l \in Committer : At(l)' <=> pc'[p] = l
         /\ ~committing' => \A l \in Committer : ~At(l)'
<1>1. boot = "up"
  BY DEF Group, Committer
<1> QED
  BY <1>1, AtOne, AtOneNext DEF AtIs

\* commit starts the loop of write_log unless the log is empty.
LEMMA CommitRest ==
  ASSUME TypeOK, Group, Group', Rest, NEW p \in Proc, commit(p)
  PROVE  Rest' /\ View' = View
<1>1. /\ pc[p] = "commit" /\ pc'[p] = IF lh = <<>> THEN "committed" ELSE "write_log"
      /\ UNCHANGED <<disk, dlog, dhead, cache, pins, lh, boot>> /\ tail' = 1
  BY DEF commit, Goto, ondisk, group, TypeOK
<1>2. boot = "up" /\ \A l \in Work : ~At(l)
  BY <1>1, CommitAt DEF Work, Committer
<1>3. /\ At("write_log")' => lh # <<>>
      /\ ~At("write_head")' /\ ~At("install")' /\ ~At("clear")'
  BY <1>1, CommitAt DEF Committer
<1>4. \A i : Pinned(i)' <=> Pinned(i)
  BY <1>1, <1>2, <1>3 DEF Pinned, Work
<1>5. View' = View
  BY <1>1 DEF View
<1>6. lh # <<>> => 1 <= Len(lh)
  BY DEF TypeOK
<1>7. Memory'
  BY <1>1, <1>4 DEF Rest, Memory
<1>8. Loops' /\ Copied'
  BY <1>1, <1>2, <1>3, <1>6 DEF Loops, Copied
<1>9. Header'
  BY <1>1, <1>2, <1>3 DEF Rest, Header, Work
<1> QED
  BY <1>5, <1>7, <1>8, <1>9 DEF Rest

\* write_log copies one more block.
LEMMA WriteLogRest ==
  ASSUME TypeOK, Group, Group', Rest, NEW p \in Proc, write_log(p)
  PROVE  Rest' /\ View' = View
<1>1. /\ pc[p] = "write_log"
      /\ UNCHANGED <<disk, dhead, cache, pins, lh, boot>>
      /\ dlog' = [dlog EXCEPT ![tail] = View[lh[tail]]]
      /\ pc'[p] = IF tail = Len(lh) THEN "write_head" ELSE "write_log"
      /\ tail' = IF tail = Len(lh) THEN 1 ELSE tail + 1
  BY DEF write_log, Goto, group, TypeOK
<1>2. /\ boot = "up" /\ At("write_log")
      /\ ~At("write_head") /\ ~At("install") /\ ~At("clear")
  BY <1>1, CommitAt DEF Committer
<1>3. /\ At("write_log")' => tail # Len(lh)
      /\ At("write_head")' => tail = Len(lh)
      /\ ~At("install")' /\ ~At("clear")'
  BY <1>1, CommitAt DEF Committer
<1>4. \A i : Pinned(i)' <=> Pinned(i)
  BY <1>1, <1>2, <1>3 DEF Pinned
<1>5. View' = View
  BY <1>1 DEF View
<1>6. Memory'
  BY <1>1, <1>4 DEF Rest, Memory
<1>7. Len(lh) \in Nat /\ tail \in 1..Len(lh) /\ tail \in 1..NLog /\ NLog \in Nat
      /\ dlog \in [1..NLog -> Val]
  BY <1>2, SizeAssumption, Fits DEF TypeOK, Rest, Loops
<1>8. \A i \in 1..tail : dlog'[i] = View[lh[i]]
  <2>1. \A i \in 1..tail - 1 : dlog[i] = View[lh[i]]
    BY <1>2 DEF Rest, Copied
  <2>2. dlog'[tail] = View[lh[tail]] /\ \A i \in 1..tail - 1 : dlog'[i] = dlog[i]
    BY <1>1, <1>7
  <2>3. 1..tail = (1..tail - 1) \cup {tail}
    BY <1>7
  <2> QED
    BY <2>1, <2>2, <2>3
<1>9. Loops'
  BY <1>1, <1>2, <1>3, <1>7 DEF Loops
<1>10. Copied'
  BY <1>1, <1>2, <1>3, <1>5, <1>7, <1>8 DEF Copied
<1>11. Header'
  BY <1>1, <1>2, <1>3 DEF Rest, Header
<1> QED
  BY <1>5, <1>6, <1>9, <1>10, <1>11 DEF Rest

\* write_head puts the header on disk when all blocks are.
LEMMA WriteHeadRest ==
  ASSUME TypeOK, Group, Group', Rest, NEW p \in Proc, write_head(p)
  PROVE  /\ Rest' /\ View' = View /\ dhead' = lh /\ dhead = <<>> /\ boot = "up"
         /\ UNCHANGED <<disk, dlog>> /\ \A i \in 1..Len(lh) : dlog[i] = View[lh[i]] /\ Pinned(i)
<1>1. /\ pc[p] = "write_head" /\ pc'[p] = "install" /\ dhead' = lh
      /\ UNCHANGED <<disk, dlog, cache, pins, lh, tail, boot>>
  BY DEF write_head, Goto, group, TypeOK
<1>2. /\ boot = "up" /\ At("write_head")
      /\ ~At("write_log") /\ ~At("install") /\ ~At("clear")
  BY <1>1, CommitAt DEF Committer
<1>3. At("install")' /\ ~At("write_log")' /\ ~At("write_head")' /\ ~At("clear")'
  BY <1>1, CommitAt DEF Committer
<1>4. tail = 1 /\ Len(lh) > 0 /\ Len(lh) \in Nat
  BY <1>2 DEF Rest, Loops, TypeOK
<1>5. \A i \in 1..Len(lh) : Pinned(i)' /\ Pinned(i)
  BY <1>1, <1>2, <1>3, <1>4 DEF Pinned
<1>6. View' = View /\ dhead = <<>>
  BY <1>1, <1>2 DEF View, Rest, Header
<1>7. Memory'
  BY <1>1, <1>5 DEF Rest, Memory
<1>8. Loops' /\ Copied'
  BY <1>1, <1>2, <1>3, <1>4, <1>6 DEF Rest, Loops, Copied
<1>9. Header'
  BY <1>1, <1>2, <1>3 DEF Rest, Header, Memory
<1>10. \A i \in 1..Len(lh) : dlog[i] = View[lh[i]]
  BY <1>2 DEF Rest, Copied
<1> QED
  BY <1>1, <1>2, <1>5, <1>6, <1>7, <1>8, <1>9, <1>10 DEF Rest

\* install_trans writes one block home and drops its pin.
LEMMA InstallRest ==
  ASSUME TypeOK, Group, Group', Rest, NEW p \in Proc, install_trans(p)
  PROVE  /\ Rest' /\ View' = View /\ dhead = lh /\ boot = "up" /\ tail \in 1..Len(lh)
         /\ UNCHANGED <<dlog, dhead, boot>> /\ disk' = [disk EXCEPT ![lh[tail]] = dlog[tail]]
<1>1. /\ pc[p] = "install"
      /\ UNCHANGED <<dlog, dhead, lh, boot>>
      /\ disk' = [disk EXCEPT ![lh[tail]] = dlog[tail]]
      /\ cache' = [cache EXCEPT ![lh[tail]] = dlog[tail]]
      /\ pins' = [pins EXCEPT ![lh[tail]] = @ - 1]
      /\ pc'[p] = IF tail = Len(lh) THEN "clear" ELSE "install"
      /\ tail' = IF tail = Len(lh) THEN 1 ELSE tail + 1
  BY DEF install_trans, Goto, group, TypeOK
<1>2. /\ boot = "up" /\ At("install")
      /\ ~At("write_log") /\ ~At("write_head") /\ ~At("clear")
  BY <1>1, CommitAt DEF Committer
<1>3. /\ At("install")' <=> tail # Len(lh)
      /\ At("clear")' <=> tail = Len(lh)
      /\ ~At("write_log")' /\ ~At("write_head")'
  BY <1>1, CommitAt DEF Committer
<1>4. Len(lh) \in Nat /\ tail \in 1..Len(lh) /\ tail \in 1..NLog /\ lh \in Seq(Block)
  BY <1>2, SizeAssumption, Fits DEF TypeOK, Rest, Loops
<1>5. PICK h \in Block : h = lh[tail]
  BY <1>4
<1>6. /\ dlog[tail] \in Val \ {NULL}
      /\ disk \in [Block -> Val] /\ cache \in [Block -> Val \cup {NULL}] /\ pins \in [Block -> Nat]
  BY <1>4, ValAssumption, Zenon DEF TypeOK
<1>7. /\ disk'[h] = dlog[tail] /\ cache'[h] = dlog[tail] /\ pins'[h] = pins[h] - 1
      /\ \A b \in Block \ {h} : disk'[b] = disk[b] /\ cache'[b] = cache[b] /\ pins'[b] = pins[b]
  BY <1>1, <1>5, <1>6
<1>8. View[h] = dlog[tail]
  BY <1>2, <1>4, <1>5 DEF Rest, Copied
<1>9. View' = View
  BY <1>6, <1>7, <1>8 DEF View
<1>10. \A i \in 1..Len(lh) : (Pinned(i) <=> i >= tail) /\ (Pinned(i)' <=> i > tail)
  BY <1>1, <1>2, <1>3, <1>4 DEF Pinned
<1>11. \A i \in 1..Len(lh) : lh[i] = h <=> i = tail
  BY <1>4, <1>5 DEF Rest, Memory
<1>12. Memory'
  <2>1. \A b \in Block : pins[b] = IF \E i \in 1..Len(lh) : lh[i] = b /\ i >= tail THEN 1 ELSE 0
    BY <1>10 DEF Rest, Memory
  <2>2. pins[h] = 1
    BY <1>4, <1>5, <2>1
  <2>3. \A b \in Block \ {h} : \A i \in 1..Len(lh) : lh[i] = b /\ i >= tail <=> lh[i] = b /\ i > tail
    BY <1>4, <1>5
  <2>4. ~\E i \in 1..Len(lh) : lh[i] = h /\ i > tail
    BY <1>4, <1>11
  <2>5. \A b \in Block : pins'[b] = IF \E i \in 1..Len(lh) : lh[i] = b /\ i > tail THEN 1 ELSE 0
    BY <1>7, <2>1, <2>2, <2>3, <2>4
  <2>6. \A b \in Block :
          IF pins'[b] = 0 THEN cache'[b] \in {NULL, disk'[b]} ELSE cache'[b] # NULL
    BY <1>7, <2>2 DEF Rest, Memory
  <2> QED
    BY <1>1, <1>10, <2>5, <2>6 DEF Rest, Memory
<1>13. \A i \in 1..tail : disk'[lh[i]] = dlog[i]
  <2>1. \A i \in 1..tail - 1 : disk[lh[i]] = dlog[i] /\ lh[i] \in Block \ {h}
    BY <1>2, <1>4, <1>11 DEF Rest, Copied
  <2>2. 1..tail = (1..tail - 1) \cup {tail}
    BY <1>4
  <2> QED
    BY <1>5, <1>7, <2>1, <2>2
<1>14. Loops'
  BY <1>1, <1>2, <1>3, <1>4 DEF Loops
<1>15. Copied'
  BY <1>1, <1>2, <1>3, <1>4, <1>9, <1>13 DEF Rest, Copied
<1>16. Header' /\ dhead = lh
  BY <1>1, <1>2, <1>3 DEF Rest, Header
<1> QED
  BY <1>1, <1>2, <1>4, <1>9, <1>12, <1>14, <1>15, <1>16 DEF Rest

\* clear empties the header when every block is home.
LEMMA ClearRest ==
  ASSUME TypeOK, Group, Group', Rest, NEW p \in Proc, clear(p)
  PROVE  /\ Rest' /\ View' = View /\ dhead' = <<>> /\ boot = "up" /\ dhead = lh
         /\ UNCHANGED <<disk, dlog, boot>> /\ \A i \in 1..Len(lh) : disk[lh[i]] = dlog[i]
<1>1. /\ pc[p] = "clear" /\ pc'[p] = "committed" /\ lh' = <<>> /\ dhead' = <<>>
      /\ UNCHANGED <<disk, dlog, cache, pins, tail, boot>>
  BY DEF clear, Goto, TypeOK
<1>2. boot = "up" /\ At("clear")
  BY <1>1, CommitAt DEF Committer
<1>3. ~At("write_log")' /\ ~At("write_head")' /\ ~At("install")' /\ ~At("clear")'
  BY <1>1, CommitAt DEF Committer
<1>4. \A b \in Block : pins[b] = 0
  BY <1>2 DEF Rest, Memory, Pinned
<1>5. View' = View
  BY <1>1 DEF View
<1>6. 1..Len(lh') = {} /\ 1..Len(dhead') = {}
  BY <1>1
<1>7. Memory'
  BY <1>1, <1>4, <1>6 DEF Rest, Memory
<1>8. Loops' /\ Copied' /\ Header'
  BY <1>1, <1>2, <1>3, <1>6 DEF Loops, Copied, Header
<1>9. dhead = lh /\ \A i \in 1..Len(lh) : disk[lh[i]] = dlog[i]
  BY <1>2 DEF Rest, Header, Copied
<1> QED
  BY <1>1, <1>2, <1>5, <1>7, <1>8, <1>9 DEF Rest

\* The end of end_op.
LEMMA CommittedRest ==
  ASSUME TypeOK, Group, Group', Rest, NEW p \in Proc, committed(p)
  PROVE  Rest' /\ View' = View
<1>1. /\ pc[p] = "committed" /\ ~committing'
      /\ UNCHANGED <<disk, dlog, dhead, cache, pins, lh, tail, boot>>
  BY DEF committed, ondisk
<1>2. \A l \in Work : ~At(l) /\ ~At(l)'
  BY <1>1, CommitAt DEF Work, Committer
<1> QED
  BY <1>1, <1>2, RestKept DEF View

\* Before recovery is done nothing is pinned and nobody commits.
LEMMA Booting ==
  ASSUME Group, Rest, boot # "up"
  PROVE  /\ \A l \in Committer : ~At(l)
         /\ \A b \in Block : pins[b] = 0 /\ cache[b] \in {NULL, disk[b]}
<1>1. \A p \in Proc : pc[p] = "idle"
  BY DEF Group
<1>2. \A l \in Committer : ~At(l)
  BY <1>1 DEF At, Committer
<1>3. \A b \in Block : pins[b] = 0
  BY DEF Rest, Memory, Pinned
<1> QED
  BY <1>2, <1>3 DEF Rest, Memory

\* A crash leaves the disk.
LEMMA CrashRest ==
  ASSUME TypeOK, Rest, Crash
  PROVE  Rest' /\ UNCHANGED <<disk, dlog, dhead>> /\ boot' = "read"
<1>1. /\ cache' = [b \in Block |-> NULL] /\ pins' = [b \in Block |-> 0]
      /\ lh' = <<>> /\ pc' = [p \in Proc |-> "idle"] /\ tail' = 1 /\ boot' = "read"
      /\ UNCHANGED <<disk, dlog, dhead>>
  BY DEF Crash, ondisk
<1>2. \A l \in Committer : ~At(l)'
  BY <1>1 DEF At, Committer
<1>3. 1..Len(lh') = {}
  BY <1>1
<1> QED
  BY <1>1, <1>2, <1>3 DEF Rest, Loops, Memory, Header, Copied, Committer

\* read_head takes the list of blocks from the disk.
LEMMA ReadHeadRest ==
  ASSUME TypeOK, Group, Group', Rest, read_head
  PROVE  Rest' /\ UNCHANGED <<disk, dlog, dhead>> /\ boot # "up" /\ boot' # "up"
<1>1. /\ boot = "read" /\ lh' = dhead /\ boot' = IF dhead = <<>> THEN "clear" ELSE "install"
      /\ UNCHANGED <<disk, dlog, dhead, cache, pins, pc, tail>>
  BY DEF read_head, ondisk
<1>2. \A l \in Committer : ~At(l)'
  BY <1>1, Booting DEF At
<1>3. tail = 1 /\ (dhead # <<>> => 1 <= Len(dhead)) /\ (dhead = <<>> => 1..Len(dhead) = {})
  BY <1>1 DEF Rest, Loops, TypeOK
<1>4. Memory'
  BY <1>1, Booting DEF Rest, Header, Memory, Pinned
<1> QED
  BY <1>1, <1>2, <1>3, <1>4 DEF Rest, Loops, Header, Copied, Committer

\* install_trans in recovery writes one block home.
LEMMA RecoverInstallRest ==
  ASSUME TypeOK, Group, Group', Rest, recover_install
  PROVE  /\ Rest' /\ dhead = lh /\ boot # "up" /\ boot' # "up" /\ tail \in 1..Len(lh)
         /\ UNCHANGED <<dlog, dhead>> /\ disk' = [disk EXCEPT ![lh[tail]] = dlog[tail]]
<1>1. /\ boot = "install"
      /\ UNCHANGED <<dlog, dhead, lh, pins, pc>>
      /\ disk' = [disk EXCEPT ![lh[tail]] = dlog[tail]]
      /\ cache' = [cache EXCEPT ![lh[tail]] = dlog[tail]]
      /\ boot' = IF tail = Len(lh) THEN "clear" ELSE "install"
      /\ tail' = IF tail = Len(lh) THEN 1 ELSE tail + 1
  BY DEF recover_install, group
<1>2. \A l \in Committer : ~At(l)'
  BY <1>1, Booting DEF At
<1>3. Len(lh) \in Nat /\ tail \in 1..Len(lh) /\ lh \in Seq(Block)
      /\ disk \in [Block -> Val] /\ cache \in [Block -> Val \cup {NULL}]
  BY <1>1 DEF TypeOK, Rest, Loops
<1>4. PICK h \in Block : h = lh[tail]
  BY <1>3
<1>5. /\ disk'[h] = dlog[tail] /\ cache'[h] = dlog[tail]
      /\ \A b \in Block \ {h} : disk'[b] = disk[b] /\ cache'[b] = cache[b]
  BY <1>1, <1>3, <1>4
<1>6. \A i \in 1..Len(lh) : lh[i] = h <=> i = tail
  BY <1>3, <1>4 DEF Rest, Memory
<1>7. Memory'
  BY <1>1, <1>5, Booting DEF Rest, Memory, Pinned
<1>8. \A i \in 1..tail : disk'[lh[i]] = dlog[i]
  <2>1. \A i \in 1..tail - 1 : disk[lh[i]] = dlog[i] /\ lh[i] \in Block \ {h}
    BY <1>1, <1>3, <1>6 DEF Rest, Copied
  <2>2. 1..tail = (1..tail - 1) \cup {tail}
    BY <1>3
  <2> QED
    BY <1>4, <1>5, <2>1, <2>2
<1>9. Loops' /\ Copied'
  BY <1>1, <1>2, <1>3, <1>8 DEF Loops, Copied, Committer
<1>10. Header' /\ dhead = lh
  BY <1>1, <1>2 DEF Rest, Header, Committer
<1> QED
  BY <1>1, <1>3, <1>7, <1>9, <1>10 DEF Rest

\* write_head at the end of recovery empties the header.
LEMMA RecoverClearRest ==
  ASSUME TypeOK, Group, Group', Rest, recover_clear
  PROVE  /\ Rest' /\ boot # "up" /\ dhead = lh /\ dhead' = <<>> /\ UNCHANGED <<disk, dlog>>
         /\ boot' = "up" /\ View' = disk /\ \A i \in 1..Len(lh) : disk[lh[i]] = dlog[i]
<1>1. /\ boot = "clear" /\ boot' = "up" /\ lh' = <<>> /\ dhead' = <<>>
      /\ UNCHANGED <<disk, dlog, cache, pins, pc, tail>>
  BY DEF recover_clear
<1>2. \A l \in Committer : ~At(l)'
  BY <1>1, Booting DEF At
<1>3. 1..Len(lh') = {} /\ 1..Len(dhead') = {}
  BY <1>1
<1>4. Memory'
  BY <1>1, <1>3, Booting DEF Memory
<1>5. Loops' /\ Copied' /\ Header'
  BY <1>1, <1>2, <1>3 DEF Loops, Copied, Header, Committer
<1>6. dhead = lh /\ \A i \in 1..Len(lh) : disk[lh[i]] = dlog[i]
  BY <1>1 DEF Rest, Header, Copied
<1>7. View' = disk
  <2>1. disk \in [Block -> Val]
    BY DEF TypeOK
  <2>2. \A b \in Block : cache[b] \in {NULL, disk[b]}
    BY <1>1, Booting
  <2> QED
    BY <1>1, <2>1, <2>2 DEF View
<1> QED
  BY <1>1, <1>4, <1>5, <1>6, <1>7 DEF Rest
-----------------------------------------------------------------------------
(* Types, and who may run. *)

\* A step of a committing process, or of the buffer cache, changes no call.
LEMMA SameOps ==
  ASSUME \A q \in Proc : pc'[q] \in {"op", "too_big", "panic"}
                         <=> pc[q] \in {"op", "too_big", "panic"}
  PROVE  Ops' = Ops
BY DEF Ops

\* begin_op adds one call.
LEMMA BeginGroup ==
  ASSUME TypeOK, Group, NEW p \in Proc, begin_op(p)
  PROVE  TypeOK' /\ Group' /\ OpsStep
<1>1. /\ boot = "up" /\ pc[p] \in {"idle", "begin"}
      /\ UNCHANGED <<disk, dlog, dhead, cache, pins, lh, committing, wrote,
                     tail, boot>>
      /\ \/ outstanding' = outstanding /\ pc' = [pc EXCEPT ![p] = "asleep"]
         \/ /\ ~committing /\ outstanding' = outstanding + 1
            /\ pc' = [pc EXCEPT ![p] = "op"]
  BY DEF begin_op, Goto, ondisk
<1>2. TypeOK'
  <2>1. pc' \in [Proc -> Label]
    BY <1>1, Zenon DEF TypeOK, Label
  <2>2. outstanding' \in Nat
    BY <1>1 DEF TypeOK
  <2> QED
    BY <1>1, <2>1, <2>2 DEF TypeOK
<1>3. \A q \in Proc : pc'[q] \in Committer <=> pc[q] \in Committer
  BY <1>1 DEF TypeOK, Committer
<1>4. OpsStep /\ (committing' => Ops' = {})
  <2>1. CASE outstanding' = outstanding /\ pc' = [pc EXCEPT ![p] = "asleep"]
    <3>1. Ops' = Ops
      BY <1>1, <2>1, SameOps DEF TypeOK
    <3> QED
      BY <1>1, <2>1, <3>1 DEF Group, OpsStep
  <2>2. CASE /\ ~committing /\ outstanding' = outstanding + 1
             /\ pc' = [pc EXCEPT ![p] = "op"]
    <3>1. Ops' = Ops \cup {p} /\ p \notin Ops
      BY <1>1, <2>2 DEF Ops, TypeOK
    <3> QED
      BY <1>1, <2>2, <3>1 DEF OpsStep
  <2> QED
    BY <1>1, <2>1, <2>2
<1>5. Group'
  BY <1>1, <1>3, <1>4 DEF Group
<1> QED
  BY <1>2, <1>4, <1>5

\* log_write leaves the calls as they are, or panics in one.
LEMMA WriteGroup ==
  ASSUME TypeOK, Group, NEW p \in Proc, NEW b \in Block, NEW x \in Val, log_write(p, b, x)
  PROVE  TypeOK' /\ Group' /\ OpsStep
<1>1. /\ pc[p] = "op"
      /\ UNCHANGED <<disk, dlog, dhead, outstanding, committing, tail, boot>>
      /\ \/ \E l \in {"too_big", "panic"} : pc' = [pc EXCEPT ![p] = l] /\ UNCHANGED <<cache, lh, pins, wrote>>
         \/ /\ Len(lh) < Capacity
            /\ cache' = [cache EXCEPT ![b] = x] /\ pc' = pc
            /\ wrote' = [wrote EXCEPT ![p] = @ \cup {b}]
            /\ \/ lh' = lh /\ pins' = pins
               \/ lh' = Append(lh, b) /\ pins' = [pins EXCEPT ![b] = @ + 1]
  <2>1. Len(lh) \in Nat
    BY DEF TypeOK
  <2> QED
    BY <2>1, Fits DEF log_write, Goto, ondisk, Capacity
<1>2. TypeOK'
  <2>1. CASE \E l \in {"too_big", "panic"} : pc' = [pc EXCEPT ![p] = l] /\ UNCHANGED <<cache, lh, pins, wrote>>
    <3>1. pc' \in [Proc -> Label]
      BY <2>1 DEF TypeOK, Label
    <3> QED
      BY <1>1, <2>1, <3>1 DEF TypeOK
  <2>2. CASE /\ Len(lh) < Capacity
             /\ cache' = [cache EXCEPT ![b] = x] /\ pc' = pc
             /\ wrote' = [wrote EXCEPT ![p] = @ \cup {b}]
             /\ \/ lh' = lh /\ pins' = pins
                \/ lh' = Append(lh, b) /\ pins' = [pins EXCEPT ![b] = @ + 1]
    <3>1. cache' \in [Block -> Val \cup {NULL}] /\ wrote' \in [Proc -> SUBSET Block]
      BY <2>2 DEF TypeOK
    <3>3. /\ lh' = lh \/ lh' = Append(lh, b)
          /\ pins' = pins \/ pins' = [pins EXCEPT ![b] = @ + 1]
          /\ lh \in Seq(Block) /\ Len(lh) \in Nat /\ Len(lh) < Capacity
      BY <2>2 DEF TypeOK
    <3>4. lh' \in Seq(Block) /\ Len(lh') <= Capacity
      BY <3>3, Fits
    <3>5. pins' \in [Block -> Nat]
      <4>1. pins \in [Block -> Nat]
        BY DEF TypeOK
      <4> QED
        BY <3>3, <4>1
    <3> QED
      BY <1>1, <2>2, <3>1, <3>4, <3>5 DEF TypeOK
  <2> QED
    BY <1>1, <2>1, <2>2
<1>3. /\ \A q \in Proc : pc'[q] \in Committer <=> pc[q] \in Committer
      /\ \A q \in Proc : pc'[q] \in {"op", "too_big", "panic"}
                         <=> pc[q] \in {"op", "too_big", "panic"}
      /\ boot = "up"
  BY <1>1 DEF TypeOK, Committer, Group
<1>4. Ops' = Ops
  BY <1>3, SameOps
<1> QED
  BY <1>1, <1>2, <1>3, <1>4 DEF Group, OpsStep

\* end_op ends one call; the last one commits.
LEMMA EndGroup ==
  ASSUME TypeOK, Group, Few, NEW p \in Proc, end_op(p)
  PROVE  TypeOK' /\ Group' /\ OpsStep
<1>1. pc[p] = "op" /\ p \in Ops /\ ~committing /\ boot = "up"
  BY DEF end_op, Ops, Group
<1>2. outstanding \in Nat \ {0} /\ (outstanding = 1 => Ops = {p})
  BY <1>1 DEF Few
<1>3. /\ UNCHANGED <<disk, dlog, dhead, cache, pins, lh, tail, boot>>
      /\ outstanding' = outstanding - 1
      /\ wrote' = [wrote EXCEPT ![p] = {}]
      /\ \/ outstanding = 1 /\ committing' = TRUE /\ pc' = [pc EXCEPT ![p] = "commit"]
         \/ /\ outstanding # 1 /\ committing' = committing
            /\ pc' = [q \in Proc |-> IF q = p THEN "idle"
                                     ELSE IF pc[q] = "asleep" THEN "begin" ELSE pc[q]]
  BY <1>1 DEF end_op, Goto, WakeAll, ondisk
<1>4. TypeOK'
  <2>1. pc' \in [Proc -> Label] /\ committing' \in BOOLEAN
    BY <1>1, <1>3, Zenon DEF TypeOK, Label
  <2>2. outstanding' \in Nat
    BY <1>2, <1>3, SizeAssumption, Fits DEF TypeOK
  <2> QED
    BY <1>3, <2>1, <2>2 DEF TypeOK
<1>5. Ops' = Ops \ {p} /\ OpsStep
  <2>1. Ops' = Ops \ {p}
    BY <1>1, <1>3 DEF Ops, TypeOK
  <2> QED
    BY <1>1, <1>3, <2>1 DEF OpsStep
<1>6. outstanding = 1 => Ops' = {}
  BY <1>2, <1>5
<1>7. \A q \in Proc : pc[q] \notin Committer
  BY <1>1 DEF Group
<1>8. CASE outstanding = 1
  <2>1. committing' = TRUE /\ pc' = [pc EXCEPT ![p] = "commit"]
    BY <1>3, <1>8
  <2>2. \A q \in Proc : pc'[q] \in Committer <=> q = p
    BY <1>7, <2>1 DEF TypeOK, Committer
  <2> QED
    BY <1>1, <1>3, <1>4, <1>5, <1>6, <1>8, <2>1, <2>2 DEF Group
<1>9. CASE outstanding # 1
  <2>1. \A q \in Proc : pc'[q] \notin Committer
    BY <1>3, <1>7, <1>9, Zenon DEF TypeOK, Committer
  <2> QED
    BY <1>1, <1>3, <1>4, <1>5, <1>9, <2>1 DEF Group
<1> QED
  BY <1>8, <1>9

\* A step that does not touch the counters.
LEMMA GroupKept ==
  ASSUME Group, boot = "up", UNCHANGED <<outstanding, committing, boot>>,
         \A q \in Proc : pc'[q] \in Committer <=> pc[q] \in Committer,
         \A q \in Proc : pc'[q] \in {"op", "too_big", "panic"}
                         <=> pc[q] \in {"op", "too_big", "panic"}
  PROVE  Group' /\ OpsStep
<1>1. Ops' = Ops
  BY SameOps
<1> QED
  BY <1>1 DEF Group, OpsStep

\* The committing process goes from label to label, alone.
LEMMA CommitGroup ==
  ASSUME TypeOK, Group, Loops, Memory, NEW p \in Proc, Commit(p)
  PROVE  TypeOK' /\ Group' /\ OpsStep
<1>1. pc[p] \in Committer
  BY DEF Commit, commit, write_log, write_head, install_trans, clear, committed, Committer
<1>2. boot = "up" /\ committing /\ \A q \in Proc : pc[q] \in Committer => q = p
  BY <1>1 DEF Group, Committer
<1>3. /\ lh \in Seq(Block) /\ Len(lh) \in Nat /\ Len(lh) <= NLog /\ Len(lh) <= LOGSIZE
      /\ tail \in Nat \ {0}
  BY SizeAssumption, Fits DEF TypeOK
<1>4. ASSUME NEW l \in Committer, pc' = [pc EXCEPT ![p] = l] \/ pc' = pc,
             UNCHANGED <<outstanding, committing, boot>>
      PROVE  pc' \in [Proc -> Label] /\ Group' /\ OpsStep
  <2>1. pc' \in [Proc -> Label]
    BY <1>4, Zenon DEF TypeOK, Label, Committer
  <2>2. /\ \A q \in Proc : pc'[q] \in Committer <=> pc[q] \in Committer
        /\ \A q \in Proc : pc'[q] \in {"op", "too_big", "panic"}
                           <=> pc[q] \in {"op", "too_big", "panic"}
    BY <1>1, <1>4 DEF TypeOK, Committer
  <2> QED
    BY <1>2, <1>4, <2>1, <2>2, GroupKept
<1>5. CASE commit(p)
  <2>1. UNCHANGED <<disk, dlog, dhead, cache, pins, lh, outstanding, committing, wrote,
                    boot>> /\ tail' = 1
    BY <1>5 DEF commit, ondisk, group
  <2>2. pc' \in [Proc -> Label] /\ Group' /\ OpsStep
    BY <1>4, <1>5, <2>1, Zenon DEF commit, Goto, Committer
  <2> QED
    BY <2>1, <2>2, SizeAssumption, Fits DEF TypeOK
<1>6. CASE write_log(p)
  <2>1. /\ UNCHANGED <<disk, dhead, cache, pins, lh, outstanding, committing, wrote,
                       boot>>
        /\ tail <= Len(lh) /\ dlog' = [dlog EXCEPT ![tail] = View[lh[tail]]]
        /\ tail' = 1 \/ (tail # Len(lh) /\ tail' = tail + 1)
    BY <1>6 DEF write_log, group, Loops, At
  <2>2. pc' \in [Proc -> Label] /\ Group' /\ OpsStep
    BY <1>4, <1>6, <2>1 DEF write_log, Goto, Committer
  <2>3. lh[tail] \in Block
    BY <1>3, <2>1
  <2>4. View[lh[tail]] \in Val
    BY <2>3 DEF View, TypeOK
  <2>5. dlog' \in [1..NLog -> Val]
    BY <2>1, <2>4, Zenon DEF TypeOK
  <2>6. tail' \in 1..(LOGSIZE + 1)
    BY <1>3, <2>1, SizeAssumption, Fits
  <2> QED
    BY <2>1, <2>2, <2>5, <2>6 DEF TypeOK
<1>7. CASE write_head(p)
  <2>1. UNCHANGED <<disk, dlog, cache, pins, lh, outstanding, committing, wrote,
                    tail, boot>> /\ dhead' = lh
    BY <1>7 DEF write_head, group
  <2>2. pc' \in [Proc -> Label] /\ Group' /\ OpsStep
    BY <1>4, <1>7, <2>1 DEF write_head, Goto, Committer
  <2> QED
    BY <2>1, <2>2 DEF TypeOK
<1>8. CASE install_trans(p)
  <2>1. /\ UNCHANGED <<dlog, dhead, lh, outstanding, committing, wrote,
                       boot>>
        /\ tail <= Len(lh)
        /\ disk' = [disk EXCEPT ![lh[tail]] = dlog[tail]]
        /\ cache' = [cache EXCEPT ![lh[tail]] = dlog[tail]]
        /\ pins' = [pins EXCEPT ![lh[tail]] = @ - 1]
        /\ tail' = 1 \/ (tail # Len(lh) /\ tail' = tail + 1)
    BY <1>8 DEF install_trans, group, Loops, At
  <2>2. pc' \in [Proc -> Label] /\ Group' /\ OpsStep
    BY <1>4, <1>8, <2>1 DEF install_trans, Goto, Committer
  <2>3. tail \in 1..NLog /\ tail \in 1..Len(lh)
    BY <1>3, <2>1, SizeAssumption, Fits
  <2>7. dlog[tail] \in Val /\ lh[tail] \in Block
    <3>1. dlog \in [1..NLog -> Val]
      BY DEF TypeOK
    <3> QED
      BY <1>3, <2>3, <3>1
  <2>4. disk' \in [Block -> Val] /\ cache' \in [Block -> Val \cup {NULL}]
    BY <2>1, <2>7 DEF TypeOK
  <2>5. tail' \in 1..(LOGSIZE + 1)
    BY <1>3, <2>1, SizeAssumption, Fits
  <2>6. pins' \in [Block -> Nat]
    <3>1. Pinned(tail)
      BY <1>2, <1>3, <1>8 DEF install_trans, Pinned, At, Committer
    <3>2. pins[lh[tail]] = 1
      BY <2>3, <2>7, <3>1 DEF Memory
    <3> QED
      BY <2>1, <2>7, <3>2 DEF TypeOK
  <2> QED
    BY <2>1, <2>2, <2>4, <2>5, <2>6 DEF TypeOK
<1>9. CASE clear(p)
  <2>1. /\ UNCHANGED <<disk, dlog, cache, pins, outstanding, committing, wrote,
                       tail, boot>>
        /\ lh' = <<>> /\ dhead' = <<>>
    BY <1>9 DEF clear
  <2>2. pc' \in [Proc -> Label] /\ Group' /\ OpsStep
    BY <1>4, <1>9, <2>1 DEF clear, Goto, Committer
  <2>3. <<>> \in Seq(Block) /\ Len(<<>>) <= Capacity
    BY SizeAssumption, Fits
  <2> QED
    BY <2>1, <2>2, <2>3 DEF TypeOK
<1>10. CASE committed(p)
  <2>1. /\ UNCHANGED <<disk, dlog, dhead, cache, pins, lh, outstanding, wrote,
                       tail, boot>>
        /\ committing' = FALSE
        /\ pc' = [q \in Proc |-> IF q = p THEN "idle"
                                 ELSE IF pc[q] = "asleep" THEN "begin" ELSE pc[q]]
    BY <1>10 DEF committed, WakeAll, ondisk
  <2>2. pc' \in [Proc -> Label]
    BY <2>1 DEF TypeOK, Label
  <2>3. /\ \A q \in Proc : pc'[q] \notin Committer
        /\ \A q \in Proc : pc'[q] \in {"op", "too_big", "panic"}
                           <=> pc[q] \in {"op", "too_big", "panic"}
    BY <1>1, <1>2, <2>1 DEF Committer
  <2>4. Ops' = Ops
    BY <2>3, SameOps
  <2>5. Group' /\ OpsStep
    BY <1>2, <2>1, <2>3, <2>4 DEF Group, OpsStep
  <2> QED
    BY <2>1, <2>2, <2>5, Zenon DEF TypeOK
<1> QED
  BY <1>5, <1>6, <1>7, <1>8, <1>9, <1>10 DEF Commit

\* A crash empties memory, and recovery goes over the log on disk.
LEMMA RecoverGroup ==
  ASSUME TypeOK, Group, Loops, Crash \/ Recover
  PROVE  TypeOK' /\ Group' /\ OpsStep
<1>1. <<>> \in Seq(Block) /\ Len(<<>>) <= Capacity
  BY SizeAssumption, Fits
<1>2. CASE Crash
  <2>1. /\ cache' \in [Block -> Val \cup {NULL}] /\ pins' \in [Block -> Nat]
        /\ lh' = <<>> /\ outstanding' = 0 /\ committing' = FALSE
        /\ pc' = [p \in Proc |-> "idle"] /\ wrote' \in [Proc -> SUBSET Block]
        /\ tail' = 1 /\ boot' = "read" /\ UNCHANGED <<disk, dlog, dhead>>
    BY <1>2 DEF Crash, ondisk
  <2>2. tail' \in 1..(LOGSIZE + 1)
    BY <1>2, SizeAssumption, Fits DEF Crash, TypeOK
  <2>3. pc' \in [Proc -> Label]
    BY <2>1 DEF Label
  <2>4. TypeOK'
    BY <1>1, <2>1, <2>2, <2>3, Zenon DEF TypeOK
  <2>5. Ops' = {} /\ \A p \in Proc : pc'[p] \notin Committer
    BY <2>1 DEF Ops, Committer
  <2>6. Group' /\ OpsStep
    BY <2>1, <2>5 DEF Group, OpsStep
  <2> QED
    BY <2>4, <2>6
<1>3. CASE Recover
  <2>1. /\ boot # "up" /\ UNCHANGED <<outstanding, committing, pc, pins, wrote>>
        /\ boot' \in {"install", "clear", "up"}
    BY <1>3 DEF Recover, read_head, recover_install, recover_clear, group
  <2>2. Group' /\ OpsStep
    BY <2>1 DEF Group, Ops, OpsStep
  <2>3. CASE read_head
    BY <2>1, <2>2, <2>3 DEF read_head, ondisk, TypeOK
  <2>4. CASE recover_install
    <3>1. /\ UNCHANGED <<dlog, dhead, lh>> /\ tail <= Len(lh)
          /\ disk' = [disk EXCEPT ![lh[tail]] = dlog[tail]]
          /\ cache' = [cache EXCEPT ![lh[tail]] = dlog[tail]]
          /\ tail' = 1 \/ (tail # Len(lh) /\ tail' = tail + 1)
      BY <2>4 DEF recover_install, group, Loops
    <3>2. tail \in 1..NLog /\ tail \in 1..Len(lh) /\ Len(lh) \in Nat /\ Len(lh) <= LOGSIZE
      BY <3>1, SizeAssumption, Fits DEF TypeOK
    <3>3. dlog[tail] \in Val
      BY <3>2, Zenon DEF TypeOK
    <3>4. disk' \in [Block -> Val] /\ cache' \in [Block -> Val \cup {NULL}]
      BY <3>1, <3>3 DEF TypeOK
    <3>5. tail' \in 1..(LOGSIZE + 1)
      BY <3>1, <3>2, SizeAssumption, Fits
    <3> QED
      BY <2>1, <2>2, <3>1, <3>4, <3>5 DEF TypeOK
  <2>5. CASE recover_clear
    <3>1. UNCHANGED <<disk, dlog, cache, tail>> /\ lh' = <<>> /\ dhead' = <<>>
      BY <2>5 DEF recover_clear
    <3> QED
      BY <1>1, <2>1, <2>2, <3>1 DEF TypeOK
  <2> QED
    BY <1>3, <2>2, <2>3, <2>4, <2>5 DEF Recover
<1> QED
  BY <1>2, <1>3

\* bread and bget change only the cache.
LEMMA CacheGroup ==
  ASSUME TypeOK, Group, NEW b \in Block, bread(b) \/ bget_recycles(b)
  PROVE  TypeOK' /\ Group' /\ OpsStep
<1>1. /\ UNCHANGED <<disk, dlog, dhead, pins, lh, outstanding, committing, pc, wrote,
                     tail, boot>>
      /\ boot = "up"
      /\ cache' = [cache EXCEPT ![b] = disk[b]] \/ cache' = [cache EXCEPT ![b] = NULL]
  BY DEF bread, bget_recycles, ondisk, group
<1>2. cache' \in [Block -> Val \cup {NULL}]
  BY <1>1, Zenon DEF TypeOK
<1>3. TypeOK'
  BY <1>1, <1>2 DEF TypeOK
<1>4. Group' /\ OpsStep
  BY <1>1, GroupKept
<1> QED
  BY <1>3, <1>4
=============================================================================

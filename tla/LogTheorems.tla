---------------------------- MODULE LogTheorems ----------------------------
(***************************************************************************)
(* Theorems about the log, for any processes, blocks and log size and any  *)
(* crashes: a group of system calls is on disk entirely or not at all,     *)
(* and the space that begin_op reserves is enough.  Every step is a step   *)
(* of the atomic disk, because what a crash would leave behind changes     *)
(* only when the header is written.                                        *)
(***************************************************************************)
EXTENDS LogProofs, FiniteSetTheorems

(* All steps. *)

\* Every step preserves the invariant, if outstanding counts the calls.
LEMMA NextCore ==
  ASSUME TypeOK, Group, Few, Rest, [Next]_vars
  PROVE  TypeOK' /\ Group' /\ OpsStep /\ Rest'
<1>1. CASE UNCHANGED vars
  <2>1. TypeOK'
    BY <1>1 DEF vars, TypeOK
  <2>2. Group' /\ OpsStep
    BY <1>1 DEF vars, Group, Ops, OpsStep
  <2>3. Rest'
    BY <1>1, RestKept DEF vars, At
  <2> QED
    BY <2>1, <2>2, <2>3
<1>2. ASSUME NEW b \in Block, bread(b) \/ bget_recycles(b) PROVE TypeOK' /\ Group' /\ OpsStep /\ Rest'
  BY <1>2, CacheGroup, CacheRest
<1>3. ASSUME NEW p \in Proc, begin_op(p) PROVE TypeOK' /\ Group' /\ OpsStep /\ Rest'
  BY <1>3, BeginGroup, OpRest
<1>4. ASSUME NEW p \in Proc, end_op(p) PROVE TypeOK' /\ Group' /\ OpsStep /\ Rest'
  BY <1>4, EndGroup, OpRest
<1>5. ASSUME NEW p \in Proc, Commit(p) PROVE TypeOK' /\ Group' /\ OpsStep /\ Rest'
  <2>1. TypeOK' /\ Group' /\ OpsStep
    BY <1>5, CommitGroup DEF Rest
  <2> QED
    BY <1>5, <2>1, CommitRest, WriteLogRest, WriteHeadRest, InstallRest, ClearRest,
       CommittedRest DEF Commit
<1>6. ASSUME NEW p \in Proc, NEW b \in Block, NEW x \in Val, log_write(p, b, x)
      PROVE  TypeOK' /\ Group' /\ OpsStep /\ Rest'
  <2>1. TypeOK' /\ Group' /\ OpsStep
    BY <1>6, WriteGroup
  <2>2. CASE pc'[p] # "op"
    <3>1. /\ UNCHANGED <<disk, dlog, dhead, cache, pins, lh, tail, boot>>
          /\ \E l \in {"too_big", "panic"} : pc' = [pc EXCEPT ![p] = l]
          /\ pc[p] = "op"
      BY <1>6, <2>2 DEF log_write, Goto, ondisk, TypeOK
    <3>2. \A l \in Work : At(l)' <=> At(l)
      BY <3>1 DEF At, Work, TypeOK
    <3> QED
      BY <2>1, <3>1, <3>2, RestKept
  <2>3. CASE pc'[p] = "op"
    BY <1>6, <2>1, <2>3, WriteRest
  <2> QED
    BY <2>2, <2>3
<1>7. ASSUME Crash \/ Recover PROVE TypeOK' /\ Group' /\ OpsStep /\ Rest'
  <2>1. TypeOK' /\ Group' /\ OpsStep
    BY <1>7, RecoverGroup DEF Rest
  <2>2. CASE Crash
    BY <2>1, <2>2, CrashRest
  <2>3. CASE Recover
    BY <2>1, <2>3, ReadHeadRest, RecoverInstallRest, RecoverClearRest DEF Recover
  <2> QED
    BY <1>7, <2>2, <2>3
<1> QED
  BY <1>1, <1>2, <1>3, <1>4, <1>5, <1>6, <1>7 DEF Next, panic
-----------------------------------------------------------------------------
(* What a crash would leave behind. *)

\* Recovery takes the listed blocks from the log and the others from home.
Merged ==
  /\ \A i \in 1..Len(dhead) : Recovered[dhead[i]] = dlog[i]
  /\ \A b \in Block : (\A i \in 1..Len(dhead) : dhead[i] # b) => Recovered[b] = disk[b]

\* A block is listed once, so the order of installation does not matter.
LEMMA RecoveredIs == Inv => Merged
<1> SUFFICES ASSUME Inv PROVE Merged
  OBVIOUS
<1>1. dhead \in Seq(Block) /\ \A i, j \in 1..Len(dhead) : dhead[i] = dhead[j] => i = j
  BY DEF Inv, TypeOK, Rest, Header
<1>2. ASSUME NEW i \in 1..Len(dhead) PROVE Recovered[dhead[i]] = dlog[i]
  <2>1. dhead[i] \in Block
    BY <1>1
  <2>2. (CHOOSE j \in 1..Len(dhead) : dhead[j] = dhead[i]) = i
    BY <1>1
  <2> QED
    BY <2>1, <2>2, Zenon DEF Recovered, InSeq
<1> QED
  BY <1>2, Zenon DEF Merged, Recovered, InSeq
LEMMA RecoveredIsNext == Inv' => Merged'
BY RecoveredIs, PTL

\* Nothing is different after a crash while the disk is as it was.
LEMMA DiskSame ==
  ASSUME UNCHANGED <<disk, dlog, dhead>>
  PROVE  Recovered' = Recovered
BY Zenon DEF Recovered, InSeq

\* Two merges that agree block by block are equal.
LEMMA SameRecovered ==
  ASSUME \A b \in Block : Recovered'[b] = Recovered[b]
  PROVE  Recovered' = Recovered
BY DEF Recovered

\* Installing a listed block, from commit or from recovery, changes nothing.
LEMMA InstallRecovers ==
  ASSUME Inv, Inv', dhead = lh, tail \in 1..Len(lh), UNCHANGED <<dlog, dhead>>,
         disk' = [disk EXCEPT ![lh[tail]] = dlog[tail]]
  PROVE  Recovered' = Recovered
<1>1. Merged /\ Merged'
  BY RecoveredIs, RecoveredIsNext
<1>2. ASSUME NEW b \in Block PROVE Recovered'[b] = Recovered[b]
  <2>1. CASE \E i \in 1..Len(dhead) : dhead[i] = b
    BY <1>1, <2>1 DEF Merged
  <2>2. CASE \A i \in 1..Len(dhead) : dhead[i] # b
    <3>1. disk \in [Block -> Val]
      BY DEF Inv, TypeOK
    <3>2. disk'[b] = disk[b]
      BY <2>2, <3>1
    <3> QED
      BY <1>1, <2>2, <3>2 DEF Merged
  <2> QED
    BY <2>1, <2>2
<1> QED
  BY <1>2, SameRecovered

\* Nor does emptying the header when the listed blocks are home.
LEMMA ClearRecovers ==
  ASSUME Inv, Inv', dhead' = <<>>, UNCHANGED disk,
         \A i \in 1..Len(dhead) : disk[dhead[i]] = dlog[i]
  PROVE  Recovered' = Recovered /\ \A b \in Block : Recovered[b] = disk[b]
<1>1. Merged /\ Merged'
  BY RecoveredIs, RecoveredIsNext
<1>2. 1..Len(dhead') = {}
  OBVIOUS
<1>3. ASSUME NEW b \in Block PROVE Recovered'[b] = disk[b] /\ Recovered[b] = disk[b]
  <2>1. Recovered'[b] = disk[b]
    BY <1>1, <1>2 DEF Merged
  <2>2. Recovered[b] = disk[b]
    BY <1>1 DEF Merged
  <2> QED
    BY <2>1, <2>2
<1> QED
  BY <1>3, SameRecovered

\* The log is not read while the header is empty.
LEMMA EmptyRecovers ==
  ASSUME Inv, Inv', dhead = <<>>, UNCHANGED <<disk, dhead>>
  PROVE  Recovered' = Recovered
<1>1. Merged /\ Merged' /\ 1..Len(dhead) = {} /\ 1..Len(dhead') = {}
  BY RecoveredIs, RecoveredIsNext
<1> QED
  BY <1>1, SameRecovered DEF Merged

\* Writing the header makes everything in memory durable at once.
LEMMA HeadRecovers ==
  ASSUME Inv, Inv', NEW p \in Proc, write_head(p)
  PROVE  Recovered' = View
<1>1. TypeOK /\ Group /\ Group' /\ Rest
  BY DEF Inv, Rest
<1>2. /\ dhead' = lh /\ UNCHANGED <<disk, dlog>>
      /\ \A i \in 1..Len(lh) : dlog[i] = View[lh[i]]
  BY <1>1, WriteHeadRest
<1>3. Merged'
  BY RecoveredIsNext
<1>4. ASSUME NEW b \in Block PROVE Recovered'[b] = View[b]
  <2>1. CASE \E i \in 1..Len(lh) : lh[i] = b
    BY <1>2, <1>3, <2>1 DEF Merged
  <2>2. CASE \A i \in 1..Len(lh) : lh[i] # b
    <3>1. pins[b] = 0
      BY <1>1, <2>2 DEF Rest, Memory
    <3>2. View[b] = disk[b]
      BY <1>1, <3>1 DEF Rest, Memory, View
    <3> QED
      BY <1>2, <1>3, <2>2, <3>2 DEF Merged
  <2> QED
    BY <2>1, <2>2
<1> QED
  BY <1>4, Zenon DEF Recovered, View
-----------------------------------------------------------------------------
(* The log implements the atomic disk. *)

\* What the file system sees, and the calls in progress, as AtomicDisk has them.
Seen   == IF boot = "up" THEN View ELSE Recovered
Active == {p \in Proc : pc[p] = "op"}

\* An empty log shows what mkfs wrote.
LEMMA InitAtomic == Init => Atomic!Init
<1> SUFFICES ASSUME Init PROVE Atomic!Init
  OBVIOUS
<1>1. dhead = <<>> /\ disk \in [Block -> Val] /\ boot = "read"
  BY ValAssumption DEF Init
<1>2. Recovered \in [Block -> Val]
  BY <1>1 DEF Recovered, InSeq
<1>3. {p \in Proc : pc[p] = "op"} = {}
  BY DEF Init
<1> QED
  BY <1>1, <1>2, <1>3 DEF Atomic!Init

\* Of the steps of a commit only the write of the header is seen.
LEMMA CommitAtomic ==
  ASSUME Inv, Inv', NEW p \in Proc, Commit(p)
  PROVE  /\ Active' = Active /\ Seen' = Seen
         /\ Recovered' = Recovered \/ (Active = {} /\ Recovered' = Seen)
<1>1. TypeOK /\ Group /\ Group' /\ Rest
  BY DEF Inv, Rest
<1>2. pc[p] \in Committer
  BY DEF Commit, commit, write_log, write_head, install_trans, clear, committed, Committer
<1>3. boot = "up" /\ committing
  BY <1>1, <1>2 DEF Group, Committer
<1>4. Ops = {}
  BY <1>1, <1>3 DEF Group
<1>5. boot' = boot
  BY DEF Commit, commit, write_log, write_head, install_trans, clear, committed
<1>6. Active = {}
  BY <1>4 DEF Active, Ops
<1>7. \A q \in Proc : pc'[q] # "op"
  <2>1. \A q \in Proc : pc[q] # "op"
    BY <1>6 DEF Active
  <2> QED
    BY <1>1, <2>1, Zenon DEF Commit, commit, write_log, write_head, install_trans, clear, committed,
                      Goto, WakeAll, TypeOK
<1>8. Active' = Active
  BY <1>6, <1>7 DEF Active
<1>9. CASE commit(p) \/ committed(p)
  <2>1. UNCHANGED <<disk, dlog, dhead>> /\ View' = View
    BY <1>1, <1>9, CommitRest, CommittedRest, Zenon DEF commit, committed, ondisk
  <2> QED
    BY <1>3, <1>5, <1>8, <2>1, DiskSame DEF Seen
<1>10. CASE write_log(p)
  <2>1. UNCHANGED <<disk, dhead>> /\ View' = View
    BY <1>1, <1>10, WriteLogRest DEF write_log
  <2>2. dhead = <<>>
    <3>1. ~At("install") /\ ~At("clear")
      BY <1>1, <1>10, CommitAt DEF write_log, Committer
    <3> QED
      BY <1>1, <1>3, <3>1 DEF Rest, Header
  <2>3. Recovered' = Recovered
    BY <2>1, <2>2, EmptyRecovers
  <2> QED
    BY <1>3, <1>5, <1>8, <2>1, <2>3 DEF Seen
<1>11. CASE write_head(p)
  <2>1. View' = View /\ Recovered' = View
    BY <1>1, <1>11, WriteHeadRest, HeadRecovers
  <2> QED
    BY <1>3, <1>5, <1>6, <1>8, <2>1 DEF Seen
<1>12. CASE install_trans(p)
  <2>1. /\ View' = View /\ dhead = lh /\ tail \in 1..Len(lh) /\ UNCHANGED <<dlog, dhead>>
        /\ disk' = [disk EXCEPT ![lh[tail]] = dlog[tail]]
    BY <1>1, <1>12, InstallRest
  <2>2. Recovered' = Recovered
    BY <2>1, InstallRecovers
  <2> QED
    BY <1>3, <1>5, <1>8, <2>1, <2>2 DEF Seen
<1>13. CASE clear(p)
  <2>1. /\ View' = View /\ dhead = lh /\ dhead' = <<>> /\ UNCHANGED disk
        /\ \A i \in 1..Len(lh) : disk[lh[i]] = dlog[i]
    BY <1>1, <1>13, ClearRest
  <2>2. Recovered' = Recovered
    BY <2>1, ClearRecovers
  <2> QED
    BY <1>3, <1>5, <1>8, <2>1, <2>2 DEF Seen
<1> QED
  BY <1>9, <1>10, <1>11, <1>12, <1>13 DEF Commit

\* No step of recovery is seen.
LEMMA RecoverAtomic ==
  ASSUME Inv, Inv', Recover
  PROVE  Active' = Active /\ Seen' = Seen /\ Recovered' = Recovered
<1>1. TypeOK /\ Group /\ Group' /\ Rest
  BY DEF Inv, Rest
<1>2. Active' = Active
  BY DEF Recover, read_head, recover_install, recover_clear, Active
<1>3. CASE read_head
  <2>1. UNCHANGED <<disk, dlog, dhead>> /\ boot # "up" /\ boot' # "up"
    BY <1>1, <1>3, ReadHeadRest
  <2> QED
    BY <1>2, <2>1, DiskSame DEF Seen
<1>4. CASE recover_install
  <2>1. /\ boot # "up" /\ boot' # "up" /\ dhead = lh /\ tail \in 1..Len(lh)
        /\ UNCHANGED <<dlog, dhead>> /\ disk' = [disk EXCEPT ![lh[tail]] = dlog[tail]]
    BY <1>1, <1>4, RecoverInstallRest
  <2>2. Recovered' = Recovered
    BY <2>1, InstallRecovers
  <2> QED
    BY <1>2, <2>1, <2>2 DEF Seen
<1>5. CASE recover_clear
  <2>1. /\ boot # "up" /\ boot' = "up" /\ dhead = lh /\ dhead' = <<>> /\ UNCHANGED disk
        /\ View' = disk /\ \A i \in 1..Len(lh) : disk[lh[i]] = dlog[i]
    BY <1>1, <1>5, RecoverClearRest
  <2>2. Recovered' = Recovered /\ \A b \in Block : Recovered[b] = disk[b]
    BY <2>1, ClearRecovers
  <2>3. View' = Recovered
    <3>1. disk \in [Block -> Val]
      BY <1>1 DEF TypeOK
    <3> QED
      BY <2>1, <2>2, <3>1 DEF Recovered
  <2> QED
    BY <1>2, <2>1, <2>2, <2>3 DEF Seen
<1> QED
  BY <1>3, <1>4, <1>5 DEF Recover

\* Every step of the log is a step of the atomic disk, or none.
LEMMA NextAtomic == Inv /\ Inv' /\ [Next]_vars => [Atomic!Next]_(Atomic!vars)
<1> DEFINE Same == Recovered' = Recovered /\ Seen' = Seen /\ Active' = Active
<1> SUFFICES ASSUME Inv, Inv', [Next]_vars PROVE Atomic!Next \/ Same
  BY DEF Atomic!vars, Seen, Active
<1>1. TypeOK /\ Group /\ Group' /\ Rest
  BY DEF Inv, Rest
<1>2. CASE UNCHANGED vars
  BY <1>2, DiskSame DEF vars, Seen, View, Active
<1>3. ASSUME NEW b \in Block, bread(b) \/ bget_recycles(b) PROVE Same
  <2>1. View' = View
    BY <1>1, <1>3, CacheRest
  <2>2. UNCHANGED <<disk, dlog, dhead, boot, pc>>
    BY <1>3 DEF bread, bget_recycles, ondisk
  <2> QED
    BY <2>1, <2>2, DiskSame DEF Seen, Active
<1>4. ASSUME NEW p \in Proc, begin_op(p) PROVE Atomic!Next \/ Same
  <2>1. View' = View /\ UNCHANGED <<disk, dlog, dhead, boot>>
    BY <1>1, <1>4, OpRest DEF begin_op, ondisk
  <2>2. Recovered' = Recovered /\ Seen' = Seen
    BY <2>1, DiskSame DEF Seen
  <2>3. p \notin Active /\ (Active' = Active \/ Active' = Active \cup {p})
    BY <1>1, <1>4 DEF begin_op, Goto, Active, TypeOK
  <2> QED
    BY <2>2, <2>3 DEF Atomic!Next, Atomic!Begin, Seen, Active
<1>5. ASSUME NEW p \in Proc, end_op(p) PROVE Atomic!Next
  <2>1. View' = View /\ UNCHANGED <<disk, dlog, dhead, boot>>
    BY <1>1, <1>5, OpRest, Zenon DEF end_op, ondisk
  <2>2. Recovered' = Recovered /\ Seen' = Seen
    BY <2>1, DiskSame DEF Seen
  <2>3. p \in Active /\ Active' = Active \ {p}
    BY <1>1, <1>5 DEF end_op, Goto, WakeAll, Active, TypeOK
  <2> QED
    BY <2>2, <2>3 DEF Atomic!Next, Atomic!End, Seen, Active
<1>6. ASSUME NEW p \in Proc, Commit(p) PROVE Atomic!Next \/ Same
  BY <1>6, CommitAtomic DEF Atomic!Next, Atomic!Commit, Seen, Active
<1>7. ASSUME NEW p \in Proc, NEW b \in Block, NEW x \in Val, log_write(p, b, x)
      PROVE  Atomic!Next
  <2>1. /\ UNCHANGED <<disk, dlog, dhead, boot>> /\ pc[p] = "op"
        /\ \/ pc' = pc
           \/ /\ \E l \in {"too_big", "panic"} : pc' = [pc EXCEPT ![p] = l]
              /\ cache' = cache
    BY <1>7 DEF log_write, Goto, ondisk
  <2>2. Recovered' = Recovered /\ p \in Active /\ boot = "up"
    BY <1>1, <2>1, DiskSame DEF Active, Group
  <2>3. CASE pc' = pc
    <3>1. Seen' = [Seen EXCEPT ![b] = x]
      BY <1>1, <1>7, <2>1, <2>2, <2>3, WriteRest DEF Seen
    <3>2. Active' = Active
      BY <2>3 DEF Active
    <3> QED
      BY <2>2, <3>1, <3>2 DEF Atomic!Next, Atomic!Write, Seen, Active
  <2>4. CASE /\ \E l \in {"too_big", "panic"} : pc' = [pc EXCEPT ![p] = l]
             /\ cache' = cache
    <3>1. Seen' = Seen
      BY <2>1, <2>2, <2>4 DEF Seen, View
    <3>2. Active' = Active \ {p}
      BY <1>1, <2>4 DEF Active, TypeOK
    <3> QED
      BY <2>2, <3>1, <3>2 DEF Atomic!Next, Atomic!End, Seen, Active
  <2> QED
    BY <2>1, <2>3, <2>4
<1>8. ASSUME Crash PROVE Atomic!Next
  <2>1. UNCHANGED <<disk, dlog, dhead>> /\ boot' = "read"
    BY <1>1, <1>8, CrashRest
  <2>2. Recovered' = Recovered /\ Seen' = Recovered /\ Active' = {}
    BY <1>8, <2>1, DiskSame DEF Seen, Active, Crash
  <2> QED
    BY <2>2 DEF Atomic!Next, Atomic!Crash, Seen, Active
<1>9. ASSUME Recover PROVE Same
  BY <1>9, RecoverAtomic
<1> QED
  BY <1>2, <1>3, <1>4, <1>5, <1>6, <1>7, <1>8, <1>9 DEF Next, panic
-----------------------------------------------------------------------------
(* The invariant. *)

\* The number of calls in progress is a natural number.
LEMMA OpsFinite ==
  /\ IsFiniteSet(Ops) /\ Cardinality(Ops) \in Nat
  /\ Cardinality(Ops) = 0 <=> Ops = {}
<1>1. IsFiniteSet(Ops)
  BY ProcAssumption, FS_Subset DEF Ops
<1> QED
  BY <1>1, FS_CardinalityType, FS_EmptySet

\* It is not 0 while there is a call, and 1 when there is one.
LEMMA CountedFew == Counted => Few
<1> SUFFICES ASSUME Counted, NEW p \in Ops
             PROVE  outstanding \in Nat \ {0} /\ (outstanding = 1 => Ops = {p})
  BY DEF Few
<1>1. outstanding \in Nat \ {0}
  BY OpsFinite DEF Counted
<1>2. IsFiniteSet(Ops \ {p}) /\ Cardinality(Ops \ {p}) = Cardinality(Ops) - 1
  BY OpsFinite, FS_RemoveElement
<1>3. outstanding = 1 => Ops \ {p} = {}
  BY <1>1, <1>2, FS_EmptySet DEF Counted
<1> QED
  BY <1>1, <1>3

\* The steps of begin_op and end_op keep the count.
LEMMA CountKept ==
  ASSUME Counted, OpsStep
  PROVE  Counted'
<1>1. CASE outstanding' = outstanding /\ Ops' = Ops
  BY <1>1 DEF Counted
<1>2. ASSUME NEW p \in Proc \ Ops, outstanding' = outstanding + 1, Ops' = Ops \cup {p}
      PROVE  Counted'
  BY <1>2, OpsFinite, FS_AddElement DEF Counted
<1>3. ASSUME NEW p \in Ops, outstanding' = outstanding - 1, Ops' = Ops \ {p}
      PROVE  Counted'
  BY <1>3, OpsFinite, FS_RemoveElement DEF Counted
<1>4. CASE outstanding' = 0 /\ Ops' = {}
  BY <1>4, FS_EmptySet DEF Counted
<1> QED
  BY <1>1, <1>2, <1>3, <1>4 DEF OpsStep

\* Init satisfies the invariant.
LEMMA InitInv == Init => Inv
<1> SUFFICES ASSUME Init PROVE Inv
  OBVIOUS
<1>1. <<>> \in Seq(Block) /\ Len(<<>>) <= Capacity /\ 1 \in 1..(LOGSIZE + 1)
  BY SizeAssumption, Fits
<1>2. TypeOK
  BY <1>1, ValAssumption, Zenon DEF Init, TypeOK, Label
<1>3. Ops = {} /\ \A l \in Committer : ~At(l)
  BY DEF Init, Ops, At, Committer
<1>4. Group /\ Counted
  BY <1>3, FS_EmptySet DEF Init, Group, Counted, At
<1>5. Loops /\ Memory /\ Header /\ Copied
  BY <1>3 DEF Init, Loops, Memory, Header, Copied, Committer
<1> QED
  BY <1>2, <1>4, <1>5 DEF Inv, Rest

\* Every step preserves it.
LEMMA NextInv == Inv /\ [Next]_vars => Inv'
BY CountedFew, CountKept, NextCore DEF Inv

\* The loops of log.c stay inside the log, a logged block has one pin until it
\* is installed, and the header is on disk only while its blocks are in the log.
THEOREM Invariance == Spec => []Inv
BY InitInv, NextInv, PTL DEF Spec

\* Whenever the machine stops, also during a commit or a recovery, what
\* recover_from_log leaves on disk is what some complete system calls wrote,
\* and until then every call reads what was written last.
THEOREM Refinement == Spec => ImplementsAtomicDisk
BY InitInv, NextInv, InitAtomic, NextAtomic, PTL DEF Spec, ImplementsAtomicDisk, Atomic!Spec
-----------------------------------------------------------------------------
(* The log has room for what begin_op admits. *)

\* The blocks that a call has logged are in the log, which nobody empties
\* before the call ends.
Logged ==
  /\ \A p \in Proc : p \notin Ops => wrote[p] = {}
  /\ \A p \in Proc, b \in Block : b \in wrote[p] => InSeq(b, lh)
  /\ \A p \in Proc : IsFiniteSet(wrote[p])

\* What the calls in progress may still log, one pair for each block.
Reserved ==
  {t \in Proc \X (1..MAXOPBLOCKS) : pc[t[1]] = "op" /\ Cardinality(wrote[t[1]]) < t[2]}
Enough   == Len(lh) + Cardinality(Reserved) <= LOGSIZE /\ ReservationHolds

\* Steps that log nothing and end no call.
LEMMA LoggedKept ==
  ASSUME Logged, Ops \subseteq Ops', UNCHANGED <<wrote, lh>>
  PROVE  Logged'
BY DEF Logged, InSeq

\* Without calls in progress the log may be emptied or read from the disk.
LEMMA LoggedIdle ==
  ASSUME Logged, Ops = {}, wrote' = wrote
  PROVE  Logged'
<1>1. \A p \in Proc : wrote'[p] = {}
  BY DEF Logged
<1> QED
  BY <1>1, FS_EmptySet DEF Logged

\* log_write puts its block into the log, or finds it there.
LEMMA WriteLogged ==
  ASSUME Inv, Logged, NEW p \in Proc, NEW b \in Block, NEW x \in Val, log_write(p, b, x)
  PROVE  Logged'
<1>1. lh \in Seq(Block) /\ Len(lh) \in Nat /\ wrote \in [Proc -> SUBSET Block]
      /\ pc \in [Proc -> Label] /\ pc[p] = "op"
  BY DEF Inv, TypeOK, log_write
<1>2. CASE UNCHANGED <<wrote, lh>>
  <2>1. Ops \subseteq Ops'
    BY <1>1 DEF Ops, log_write, Goto
  <2> QED
    BY <1>2, <2>1, LoggedKept
<1>3. CASE /\ wrote' = [wrote EXCEPT ![p] = @ \cup {b}] /\ pc' = pc
           /\ \/ InSeq(b, lh) /\ lh' = lh
              \/ lh' = Append(lh, b)
  <2>1. InSeq(b, lh') /\ \A c \in Block : InSeq(c, lh) => InSeq(c, lh')
    <3>1. CASE InSeq(b, lh) /\ lh' = lh
      BY <3>1
    <3>2. CASE lh' = Append(lh, b)
      BY <1>1, <3>2 DEF InSeq
    <3> QED
      BY <1>3, <3>1, <3>2
  <2>2. wrote'[p] = wrote[p] \cup {b} /\ \A q \in Proc \ {p} : wrote'[q] = wrote[q]
    BY <1>1, <1>3
  <2>3. \A q \in Proc : IsFiniteSet(wrote'[q])
    BY <2>2, FS_AddElement DEF Logged
  <2>4. Ops' = Ops /\ p \in Ops
    BY <1>1, <1>3 DEF Ops
  <2>5. \A q \in Proc, c \in Block : c \in wrote'[q] => InSeq(c, lh')
    BY <2>1, <2>2 DEF Logged
  <2>6. \A q \in Proc : q \notin Ops' => wrote'[q] = {}
    BY <2>2, <2>4 DEF Logged
  <2> QED
    BY <2>3, <2>5, <2>6 DEF Logged
<1> QED
  BY <1>2, <1>3 DEF log_write

\* end_op forgets the blocks of its call.
LEMMA EndLogged ==
  ASSUME Inv, Logged, NEW p \in Proc, end_op(p)
  PROVE  Logged'
<1>1. /\ wrote \in [Proc -> SUBSET Block] /\ pc \in [Proc -> Label]
      /\ lh' = lh /\ wrote' = [wrote EXCEPT ![p] = {}] /\ pc[p] = "op"
  BY DEF Inv, TypeOK, end_op
<1>2. wrote'[p] = {} /\ \A q \in Proc \ {p} : wrote'[q] = wrote[q]
  BY <1>1
<1>3. \A q \in Proc \ {p} : q \in Ops => q \in Ops'
  BY <1>1 DEF Ops, end_op, Goto, WakeAll
<1>4. \A q \in Proc : IsFiniteSet(wrote'[q])
  BY <1>2, FS_EmptySet DEF Logged
<1> QED
  BY <1>1, <1>2, <1>3, <1>4 DEF Logged, InSeq

\* Every step keeps the blocks of the calls in the log.
LEMMA NextLogged == Inv /\ Logged /\ [Next]_vars => Logged'
<1> SUFFICES ASSUME Inv, Logged, [Next]_vars PROVE Logged'
  OBVIOUS
<1>1. TypeOK /\ Group /\ pc \in [Proc -> Label]
  BY DEF Inv, TypeOK
<1>2. CASE UNCHANGED vars \/ \E b \in Block : bread(b) \/ bget_recycles(b)
  <2>1. UNCHANGED <<pc, wrote, lh>>
    BY <1>2 DEF vars, bread, bget_recycles, group
  <2> QED
    BY <2>1, LoggedKept DEF Ops
<1>3. ASSUME NEW p \in Proc, begin_op(p) PROVE Logged'
  <2>1. Ops \subseteq Ops' /\ UNCHANGED <<wrote, lh>>
    BY <1>1, <1>3 DEF begin_op, Goto, Ops
  <2> QED
    BY <2>1, LoggedKept
<1>4. ASSUME NEW p \in Proc, Commit(p) PROVE Logged'
  <2>1. pc[p] \in Committer /\ wrote' = wrote
    BY <1>4 DEF Commit, commit, write_log, write_head, install_trans, clear, committed, Committer
  <2>2. Ops = {}
    BY <1>1, <2>1 DEF Group
  <2> QED
    BY <2>1, <2>2, LoggedIdle
<1>5. CASE Crash
  BY <1>5, FS_EmptySet DEF Crash, Logged
<1>6. CASE Recover
  <2>1. boot # "up" /\ wrote' = wrote
    BY <1>6 DEF Recover, read_head, recover_install, recover_clear
  <2>2. Ops = {}
    BY <1>1, <2>1 DEF Group, Ops
  <2> QED
    BY <2>1, <2>2, LoggedIdle
<1> QED
  BY <1>2, <1>3, <1>4, <1>5, <1>6, WriteLogged, EndLogged DEF Next, panic

\* The reservations are finite.
LEMMA ReservedFinite ==
  /\ IsFiniteSet(Reserved) /\ Cardinality(Reserved) \in Nat
  /\ Cardinality(Reserved) = 0 <=> Reserved = {}
<1>1. IsFiniteSet(Proc \X (1..MAXOPBLOCKS))
  <2>1. IsFiniteSet(1..MAXOPBLOCKS)
    BY SizeAssumption, FS_Interval
  <2> QED
    BY <2>1, ProcAssumption, FS_Product, Zenon
<1>2. IsFiniteSet(Reserved)
  BY <1>1, FS_Subset DEF Reserved
<1> QED
  BY <1>2, FS_CardinalityType, FS_EmptySet

\* A call has a reservation for each block it has not logged yet.
LEMMA ReservedOf ==
  ASSUME Logged, NEW p \in Proc, pc[p] = "op"
  PROVE  MAXOPBLOCKS <= Cardinality(wrote[p]) + Cardinality(Reserved)
<1>1. Cardinality(wrote[p]) \in Nat
  BY FS_CardinalityType DEF Logged
<1>2. PICK c \in Nat : c = Cardinality(wrote[p])
  BY <1>1
<1>3. CASE c < MAXOPBLOCKS
  <2>1. /\ IsFiniteSet((c + 1)..MAXOPBLOCKS)
        /\ Cardinality((c + 1)..MAXOPBLOCKS) = MAXOPBLOCKS - c
    BY <1>3, SizeAssumption, FS_Interval
  <2>2. IsFiniteSet({p}) /\ Cardinality({p}) = 1
    BY FS_Singleton
  <2>3. Cardinality({p} \X ((c + 1)..MAXOPBLOCKS)) = MAXOPBLOCKS - c
    <3>1. Cardinality({p} \X ((c + 1)..MAXOPBLOCKS))
            = Cardinality({p}) * Cardinality((c + 1)..MAXOPBLOCKS)
      BY <2>1, <2>2, FS_Product, Zenon
    <3> QED
      BY <1>3, <2>1, <2>2, <3>1, SizeAssumption
  <2>4. {p} \X ((c + 1)..MAXOPBLOCKS) \subseteq Reserved
    BY <1>2, SizeAssumption DEF Reserved
  <2>5. Cardinality({p} \X ((c + 1)..MAXOPBLOCKS)) <= Cardinality(Reserved)
    BY <2>4, ReservedFinite, FS_Subset
  <2> QED
    BY <1>2, <2>3, <2>5, ReservedFinite, SizeAssumption
<1> QED
  BY <1>2, <1>3, ReservedFinite, SizeAssumption

\* Fewer reservations, and no more entries, leave enough room, if nobody panics.
LEMMA RoomKept ==
  ASSUME Enough, Reserved' \subseteq Reserved, Len(lh') <= Len(lh),
         Len(lh) \in Nat, Len(lh') \in Nat, ReservationHolds'
  PROVE  Enough'
<1>1. Cardinality(Reserved') <= Cardinality(Reserved) /\ Cardinality(Reserved') \in Nat
  BY ReservedFinite, FS_Subset, FS_CardinalityType
<1> QED
  BY <1>1, ReservedFinite, SizeAssumption DEF Enough

\* begin_op admits a call when all calls can log MAXOPBLOCKS blocks.
LEMMA BeginRoom ==
  ASSUME Inv, Inv', Enough, NEW p \in Proc, begin_op(p)
  PROVE  Enough'
<1>1. TypeOK /\ Counted'
  BY DEF Inv
<1>2. lh' = lh /\ wrote' = wrote /\ pc \in [Proc -> Label] /\ Len(lh) \in Nat
  BY <1>1 DEF begin_op, TypeOK
<1>3. ReservationHolds'
  <2>1. \A q \in Proc : pc'[q] \notin {"too_big", "panic"}
    BY <1>2 DEF begin_op, Goto, Stuck
  <2> QED
    BY <2>1 DEF ReservationHolds
<1>4. CASE pc' = [pc EXCEPT ![p] = "asleep"]
  <2>1. Reserved' \subseteq Reserved
    BY <1>2, <1>4 DEF Reserved
  <2> QED
    BY <1>2, <1>3, <2>1, RoomKept
<1>5. CASE /\ Len(lh) + (outstanding + 1) * MAXOPBLOCKS <= LOGSIZE
           /\ outstanding' = outstanding + 1
  <2>1. IsFiniteSet(Ops') /\ Cardinality(Ops') = outstanding'
    <3>1. IsFiniteSet(Ops')
      BY ProcAssumption, FS_Subset DEF Ops
    <3> QED
      BY <1>1, <3>1 DEF Counted
  <2>2. IsFiniteSet(1..MAXOPBLOCKS) /\ Cardinality(1..MAXOPBLOCKS) = MAXOPBLOCKS
    BY SizeAssumption, FS_Interval
  <2>3. /\ IsFiniteSet(Ops' \X (1..MAXOPBLOCKS))
        /\ Cardinality(Ops' \X (1..MAXOPBLOCKS)) = outstanding' * MAXOPBLOCKS
    BY <2>1, <2>2, FS_Product, Zenon
  <2>4. Reserved' \subseteq Ops' \X (1..MAXOPBLOCKS)
    BY DEF Reserved, Ops
  <2>5. Cardinality(Reserved') <= outstanding' * MAXOPBLOCKS /\ Cardinality(Reserved') \in Nat
    BY <2>3, <2>4, FS_Subset, FS_CardinalityType
  <2>6. PICK m \in Nat : m = outstanding' * MAXOPBLOCKS
    BY <1>1, <1>5, SizeAssumption DEF TypeOK
  <2> QED
    BY <1>2, <1>3, <1>5, <2>5, <2>6, SizeAssumption DEF Enough
<1> QED
  <2>1. \/ pc' = [pc EXCEPT ![p] = "asleep"]
        \/ /\ ~(Len(lh) + (outstanding + 1) * MAXOPBLOCKS > LOGSIZE)
           /\ outstanding' = outstanding + 1
    BY DEF begin_op, Goto
  <2>2. PICK m \in Nat : m = (outstanding + 1) * MAXOPBLOCKS
    BY <1>1, SizeAssumption DEF TypeOK
  <2> QED
    BY <1>2, <1>4, <1>5, <2>1, <2>2, SizeAssumption

\* log_write fails only when the log is full and its call has used what it
\* reserved; otherwise a new entry uses up one reservation of the call.
LEMMA WriteRoom ==
  ASSUME Inv, Logged, Enough,
         NEW p \in Proc, NEW b \in Block, NEW x \in Val, log_write(p, b, x)
  PROVE  Enough'
<1>1. /\ lh \in Seq(Block) /\ Len(lh) \in Nat /\ Len(lh) <= Capacity /\ outstanding \in Nat
      /\ wrote \in [Proc -> SUBSET Block] /\ pc \in [Proc -> Label] /\ pc[p] = "op"
      /\ Cardinality(wrote[p] \cup {b}) <= MAXOPBLOCKS
  <2>1. /\ lh \in Seq(Block) /\ Len(lh) <= Capacity /\ outstanding \in Nat
        /\ wrote \in [Proc -> SUBSET Block] /\ pc \in [Proc -> Label]
    BY Zenon DEF Inv, TypeOK
  <2>2. pc[p] = "op" /\ Cardinality(wrote[p] \cup {b}) <= MAXOPBLOCKS
    BY Zenon DEF log_write
  <2>3. Len(lh) \in Nat
    BY <2>1
  <2> QED
    BY <2>1, <2>2, <2>3, Zenon
<1>2. IsFiniteSet(wrote[p]) /\ Cardinality(wrote[p]) \in Nat
  BY FS_CardinalityType DEF Logged
<1>3. \A q \in Proc : pc[q] \notin {"too_big", "panic"}
  BY DEF log_write, Stuck
<1>4. CASE Len(lh) >= LOGSIZE \/ Len(lh) >= NLog
  <2>1. pc' = [pc EXCEPT ![p] = "too_big"] /\ UNCHANGED <<lh, wrote>>
    BY <1>4 DEF log_write, Goto
  <2>2. Len(lh) = Capacity
    BY <1>1, <1>4, Fits, SizeAssumption DEF Capacity
  <2>3. Cardinality(wrote[p]) + (LOGSIZE - Capacity) >= MAXOPBLOCKS
    BY <1>1, <1>2, <2>2, ReservedOf, ReservedFinite, Fits, SizeAssumption DEF Enough
  <2>4. \A q \in Proc : pc'[q] # "panic" /\ (pc'[q] = "too_big" => q = p)
    BY <1>1, <1>3, <2>1
  <2>5. ReservationHolds'
    BY <2>1, <2>2, <2>3, <2>4 DEF ReservationHolds
  <2>6. Reserved' \subseteq Reserved
    BY <1>1, <2>1 DEF Reserved
  <2> QED
    BY <1>1, <2>1, <2>5, <2>6, RoomKept
<1>5. CASE ~(Len(lh) >= LOGSIZE \/ Len(lh) >= NLog)
  <2>1. outstanding >= 1
    <3>1. p \in Ops
      BY <1>1 DEF Ops
    <3> QED
      BY <3>1, OpsFinite DEF Inv, Counted
  <2>2. /\ pc' = pc /\ wrote' = [wrote EXCEPT ![p] = @ \cup {b}]
        /\ lh' = IF InSeq(b, lh) THEN lh ELSE Append(lh, b)
    BY <1>1, <1>5, <2>1 DEF log_write
  <2>3. ReservationHolds'
    BY <1>3, <2>2 DEF ReservationHolds
  <2>4. wrote'[p] = wrote[p] \cup {b} /\ \A q \in Proc \ {p} : wrote'[q] = wrote[q]
    BY <1>1, <2>2
  <2>5. CASE b \in wrote[p]
    <3>1. InSeq(b, lh)
      BY <2>5 DEF Logged
    <3>2. lh' = lh /\ \A q \in Proc : wrote'[q] = wrote[q]
      BY <2>2, <2>4, <2>5, <3>1
    <3>3. Reserved' \subseteq Reserved
      BY <2>2, <3>2 DEF Reserved
    <3> QED
      BY <1>1, <2>3, <3>2, <3>3, RoomKept
  <2>6. CASE b \notin wrote[p]
    <3>1. Cardinality(wrote'[p]) = Cardinality(wrote[p]) + 1
      <4>1. Cardinality(wrote[p] \cup {b}) = Cardinality(wrote[p]) + 1
        BY <1>2, <2>6, FS_AddElement, Zenon
      <4> QED
        BY <2>4, <4>1, Zenon
    <3>2. PICK t : t = <<p, Cardinality(wrote[p]) + 1>>
      BY Zenon
    <3>3. Cardinality(wrote[p]) + 1 \in 1..MAXOPBLOCKS
      BY <1>1, <1>2, <2>4, <3>1, SizeAssumption
    <3>4. t \in Reserved
      BY <1>1, <1>2, <3>2, <3>3 DEF Reserved
    <3>5. Reserved' \subseteq Reserved \ {t}
      BY <1>1, <1>2, <2>2, <2>4, <3>1, <3>2 DEF Reserved
    <3>6. IsFiniteSet(Reserved \ {t}) /\ Cardinality(Reserved \ {t}) = Cardinality(Reserved) - 1
      BY <3>4, ReservedFinite, FS_RemoveElement
    <3>7. Cardinality(Reserved') <= Cardinality(Reserved \ {t}) /\ Cardinality(Reserved') \in Nat
      BY <3>5, <3>6, FS_Subset, FS_CardinalityType
    <3>8. Len(lh') <= Len(lh) + 1 /\ Len(lh') \in Nat
      BY <1>1, <2>2
    <3> QED
      BY <1>1, <2>3, <3>6, <3>7, <3>8, ReservedFinite, SizeAssumption DEF Enough
  <2> QED
    BY <2>5, <2>6
<1> QED
  BY <1>4, <1>5

\* The other steps reserve nothing, and only recovery reads a log.  After a
\* panic nothing moves but the cache, until the machine is started again.
LEMMA OtherRoom ==
  ASSUME Inv, Inv', Enough,
         \/ \E b \in Block : bread(b) \/ bget_recycles(b)
         \/ \E p \in Proc : end_op(p) \/ Commit(p)
         \/ Crash \/ Recover \/ UNCHANGED vars
  PROVE  Enough'
<1>1. TypeOK /\ Group
  BY DEF Inv
<1>2. pc \in [Proc -> Label] /\ wrote \in [Proc -> SUBSET Block] /\ Len(lh) \in Nat
      /\ ReservationHolds /\ Len(<<>>) = 0
  BY <1>1 DEF TypeOK, Enough
<1>3. CASE (\E b \in Block : bread(b) \/ bget_recycles(b)) \/ UNCHANGED vars
  <2>1. UNCHANGED <<lh, pc, wrote>>
    BY <1>3 DEF bread, bget_recycles, group, vars
  <2> QED
    BY <1>2, <2>1, RoomKept DEF Reserved, ReservationHolds
<1>4. ASSUME NEW p \in Proc, end_op(p) PROVE Enough'
  <2>1. pc[p] = "op" /\ p \in Ops
    BY <1>4 DEF end_op, Ops
  <2>2. ~committing
    BY <1>1, <2>1 DEF Group
  <2>3. lh' = lh /\ wrote' = [wrote EXCEPT ![p] = {}]
    BY <1>4 DEF end_op
  <2>4. \A q \in Proc : pc[q] \notin {"too_big", "panic"}
    BY <1>4 DEF end_op, Stuck
  <2>5. \A q \in Proc : /\ pc'[q] \notin {"too_big", "panic"}
                        /\ pc'[q] = "op" => q # p /\ pc[q] = "op"
    BY <1>2, <1>4, <2>2, <2>4 DEF end_op, Goto, WakeAll
  <2>6. Reserved' \subseteq Reserved
    BY <1>2, <2>3, <2>5 DEF Reserved
  <2> QED
    BY <1>2, <2>3, <2>5, <2>6, RoomKept DEF ReservationHolds
<1>5. ASSUME NEW p \in Proc, Commit(p) PROVE Enough'
  <2>1. pc[p] \in Committer /\ lh' \in {lh, <<>>} /\ wrote' = wrote
    BY <1>5 DEF Commit, commit, write_log, write_head, install_trans, clear, committed, group,
                Committer
  <2>2. Ops = {}
    BY <1>1, <2>1 DEF Group
  <2>3. \A q \in Proc : pc[q] \notin {"op", "too_big", "panic"}
    BY <2>2 DEF Ops
  <2>4. \A q \in Proc : pc'[q] \notin {"op", "too_big", "panic"}
    BY <1>2, <1>5, <2>3 DEF Commit, commit, write_log, write_head, install_trans, clear,
                            committed, Goto, WakeAll
  <2>5. Reserved' \subseteq Reserved /\ ReservationHolds'
    BY <2>4 DEF Reserved, ReservationHolds
  <2> QED
    BY <1>2, <2>1, <2>5, RoomKept
<1>6. CASE Crash \/ Recover
  <2>1. \A q \in Proc : pc'[q] = "idle"
    <3>1. CASE Crash
      BY <3>1 DEF Crash
    <3>2. CASE Recover
      BY <1>1, <3>2 DEF Recover, read_head, recover_install, recover_clear, group, Group
    <3> QED
      BY <1>6, <3>1, <3>2
  <2>2. Reserved' = {} /\ ReservationHolds'
    BY <2>1 DEF Reserved, ReservationHolds
  <2>3. Cardinality(Reserved') = 0
    BY <2>2, FS_EmptySet
  <2>4. Len(lh') \in Nat /\ Len(lh') <= LOGSIZE
    BY Fits, SizeAssumption DEF Inv, TypeOK
  <2> QED
    BY <2>2, <2>3, <2>4, SizeAssumption DEF Enough
<1> QED
  BY <1>3, <1>4, <1>5, <1>6

\* However often system calls log their blocks, and however large the log area
\* is, log_write does not panic in a call that has not used up the MAXOPBLOCKS
\* blocks that begin_op reserved for it, less what the area is too small; and
\* the panics "log_write outside of trans" and "log.committing" never come.
THEOREM ReservationEnough == Spec => []ReservationHolds
<1>1. Init => Logged /\ Enough
  <2> SUFFICES ASSUME Init PROVE Logged /\ Enough
    OBVIOUS
  <2>1. Reserved = {} /\ ReservationHolds /\ Len(lh) = 0
    BY DEF Init, Reserved, ReservationHolds
  <2>2. Cardinality(Reserved) = 0
    BY <2>1, FS_EmptySet
  <2>3. Logged
    BY FS_EmptySet DEF Init, Logged
  <2> QED
    BY <2>1, <2>2, <2>3, SizeAssumption DEF Enough
<1>2. Inv /\ Inv' /\ Logged /\ Enough /\ [Next]_vars => Enough'
  BY BeginRoom, WriteRoom, OtherRoom DEF Next, panic
<1>3. Enough => ReservationHolds
  BY DEF Enough
<1> QED
  BY <1>1, <1>2, <1>3, InitInv, NextInv, NextLogged, PTL DEF Spec
=============================================================================

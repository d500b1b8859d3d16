-------------------------------- MODULE File --------------------------------
(***************************************************************************)
(* What is in a file: block allocation, the block map of an inode, readi   *)
(* and writei (kernel/fs.c), and read and write through open files with a  *)
(* shared offset (kernel/file.c).                                          *)
(*                                                                         *)
(* One step is one round of a loop: a block mapped and copied, or freed.   *)
(* The inode stays locked meanwhile; the bitmap is shared by all inodes.   *)
(* A file holds BSIZE bytes per block and a byte is the process that wrote *)
(* it.  Every write of at most Max bytes is one transaction.               *)
(***************************************************************************)
EXTENDS Naturals, Sequences, FiniteSets

CONSTANTS
  Proc,
  Inode,        \* inodes of regular files
  OpenFile,     \* open files
  InodeOf,      \* the inode of each open file
  BSIZE,        \* bytes of a block
  NDIRECT, NINDIRECT,
  NBLOCK,       \* data blocks are numbered from 1
  BPB,          \* blocks per bitmap block
  MAXOPBLOCKS,  \* blocks that one transaction may write
  Loads,        \* what the processes do: functions from Proc to sets of calls
                \* <<op, open file, length>>
  NULL

ASSUME FileAssumption ==
  /\ InodeOf \in [OpenFile -> Inode]
  /\ BSIZE > 0 /\ NDIRECT > 0 /\ NINDIRECT > 0 /\ MAXOPBLOCKS >= 6

Block   == 1 .. NBLOCK
MAXFILE == NDIRECT + NINDIRECT
\* Mutant: no slop for writes that are not aligned.
Max_aligned == ((MAXOPBLOCKS - 1 - 1) \div 2) * BSIZE

\* Bytes that filewrite writes in one transaction.
Max     == ((MAXOPBLOCKS - 1 - 1 - 2) \div 2) * BSIZE

VARIABLES
  load,         \* the calls each process makes (never changes)
  bitmap,       \* blocks marked in use
  blk,          \* contents of data blocks: bytes, or block numbers
  ino, din,     \* inodes in memory and on disk: addrs, size
  lock,         \* who has each inode locked
  off,          \* offset of each open file
  pc, L,
  logged,       \* blocks that the transaction of each process has written
  want, sent    \* history: the bytes of each file; how many p wrote there

vars == <<load, bitmap, blk, ino, din, lock, off, pc, L, logged, want, sent>>

Lesser(a, b)  == IF a < b THEN a ELSE b
Greater(a, b) == IF a < b THEN b ELSE a

Zero   == [k \in 0 .. NDIRECT |-> 0]
Blank  == [k \in 0 .. Greater(BSIZE, NINDIRECT) - 1 |-> 0]
NoFile == [addrs |-> Zero, size |-> 0]
\* f, n, i: the file, the length of the call and what is done of it; at, m,
\* tot: offset, length and progress of readi and writei; got: bytes read.
Idle   == [f |-> NULL, n |-> 0, i |-> 0, at |-> 0, m |-> 0, tot |-> 0, got |-> <<>>]

Init ==
  /\ load \in Loads
  /\ bitmap = {} /\ blk = [b \in Block |-> Blank]
  /\ ino = [i \in Inode |-> NoFile] /\ din = ino
  /\ lock = [i \in Inode |-> NULL]
  /\ off = [f \in OpenFile |-> 0]
  /\ pc = [p \in Proc |-> "user"] /\ L = [p \in Proc |-> Idle]
  /\ logged = [p \in Proc |-> {}]
  /\ want = [i \in Inode |-> <<>>] /\ sent = [x \in Proc \X Inode |-> 0]

Goto(p, l, r) == pc' = [pc EXCEPT ![p] = l] /\ L' = [L EXCEPT ![p] = r]
Return(p)     == Goto(p, "user", Idle)
Ip(p)         == InodeOf[L[p].f]
-----------------------------------------------------------------------------
(* balloc and bmap.  A result has the new bitmap, blk and inode, the blocks *)
(* written to the log and the address, 0 if the disk is full.               *)

Bitmap(b) == <<"bitmap", b \div BPB>>

\* Mutant: the block is not marked in use.
balloc_unmarked(r) ==
  LET free == Block \ r.bitmap
      b == CHOOSE x \in free : \A y \in free : x <= y
  IN IF free = {} THEN [r EXCEPT !.addr = 0]
     ELSE [r EXCEPT !.addr = b, !.blk[b] = Blank, !.log = @ \cup {Bitmap(b), <<"block", b>>}]

\* The first free block, marked and zeroed.
balloc(r) ==
  LET free == Block \ r.bitmap
      b == CHOOSE x \in free : \A y \in free : x <= y
  IN IF free = {} THEN [r EXCEPT !.addr = 0]
     ELSE [r EXCEPT !.addr = b, !.bitmap = @ \cup {b}, !.blk[b] = Blank,
                    !.log = @ \cup {Bitmap(b), <<"block", b>>}]

\* Entry k of ip->addrs, allocated if it is missing.
MapDirect(r, k) ==
  IF r.ip.addrs[k] # 0 THEN [r EXCEPT !.addr = r.ip.addrs[k]]
  ELSE LET q == balloc(r) IN [q EXCEPT !.ip.addrs[k] = q.addr]

\* Mutant: the new block is not entered in the indirect block.
MapIndirect_lost(r, a, k) ==
  IF r.blk[a][k] # 0 THEN [r EXCEPT !.addr = r.blk[a][k]] ELSE balloc(r)

\* Entry k of the indirect block a, allocated if it is missing.
MapIndirect(r, a, k) ==
  IF r.blk[a][k] # 0 THEN [r EXCEPT !.addr = r.blk[a][k]]
  ELSE LET q == balloc(r)
       IN IF q.addr = 0 THEN q
          ELSE [q EXCEPT !.blk[a][k] = q.addr, !.log = @ \cup {<<"block", a>>}]

bmap(p, i, bn) ==
  LET r == [bitmap |-> bitmap, blk |-> blk, ip |-> ino[i], log |-> logged[p], addr |-> 0]
      q == MapDirect(r, NDIRECT)
  IN IF bn < NDIRECT THEN MapDirect(r, bn)
     ELSE IF q.addr = 0 THEN q ELSE MapIndirect(q, q.addr, bn - NDIRECT)

\* Block bn of inode i without allocating, 0 if there is none.
Addr(i, bn) ==
  LET a == ino[i].addrs
  IN IF bn < NDIRECT THEN a[bn]
     ELSE IF a[NDIRECT] = 0 THEN 0 ELSE blk[a[NDIRECT]][bn - NDIRECT]

\* iupdate of inode i, whose in-memory form is e, by p with the log l.
iupdate(p, i, e, l) ==
  /\ ino' = [ino EXCEPT ![i] = e]
  /\ din' = [din EXCEPT ![i] = e]
  /\ logged' = [logged EXCEPT ![p] = l \cup {<<"inode", i>>}]
-----------------------------------------------------------------------------
(* write. *)

sys_write(p, f, n) ==
  /\ pc[p] = "user" /\ <<"write", f, n>> \in load[p]
  /\ Goto(p, "chunk", [Idle EXCEPT !.f = f, !.n = n])
  /\ UNCHANGED <<load, bitmap, blk, ino, din, lock, off, logged, want, sent>>

\* Mutant: the offset was read when the call began.
filewrite_stale_off(p) ==
  /\ pc[p] = "chunk"
  /\ LET n1 == Lesser(L[p].n - L[p].i, Max)
     IN /\ lock[Ip(p)] = NULL
        /\ lock' = [lock EXCEPT ![Ip(p)] = p]
        /\ Goto(p, "writei", [L[p] EXCEPT !.m = n1, !.tot = 0])
  /\ UNCHANGED <<load, bitmap, blk, ino, din, off, logged, want, sent>>

\* One chunk of filewrite: begin_op, ilock and the checks of writei.
filewrite(p) ==
  /\ pc[p] = "chunk"
  /\ LET n1 == Lesser(L[p].n - L[p].i, Max)
         at == off[L[p].f]
     IN /\ lock[Ip(p)] = NULL
        /\ IF at > ino[Ip(p)].size \/ at + n1 > MAXFILE * BSIZE
           THEN Return(p) /\ UNCHANGED lock
           ELSE /\ lock' = [lock EXCEPT ![Ip(p)] = p]
                /\ Goto(p, "writei", [L[p] EXCEPT !.at = at, !.m = n1, !.tot = 0])
  /\ UNCHANGED <<load, bitmap, blk, ino, din, off, logged, want, sent>>

\* Bytes from position k of a block on, n of them, by p.
Fill(b, k, n, p) == [j \in DOMAIN b |-> IF k <= j /\ j < k + n THEN p ELSE b[j]]

\* One round of writei.  copyin copies c bytes: all of them, or fewer if it
\* meets a user page that is not in memory.  What it has copied then stays in
\* the buffer, unlogged: it shows where it is below the size of the file.
writei(p, c) ==
  /\ pc[p] = "writei"
  /\ LET i == Ip(p)
         o == L[p].at + L[p].tot
         r == bmap(p, i, o \div BSIZE)
         m == Lesser(L[p].m - L[p].tot, BSIZE - (o % BSIZE))
         ok == r.addr # 0 /\ c = m
     IN /\ c <= m /\ (r.addr = 0 => c = 0)
        /\ bitmap' = r.bitmap
        /\ blk' = IF r.addr = 0 THEN r.blk ELSE [r.blk EXCEPT ![r.addr] = Fill(@, o % BSIZE, c, p)]
        /\ ino' = [ino EXCEPT ![i] = r.ip]
        /\ logged' = [logged EXCEPT ![p] = r.log \cup IF ok THEN {<<"block", r.addr>>} ELSE {}]
        /\ want' = IF ok THEN want
                   ELSE [want EXCEPT ![i] = [k \in DOMAIN @ |-> IF o < k /\ k <= o + c THEN p ELSE @[k]]]
        /\ Goto(p, IF ok /\ L[p].tot + m < L[p].m THEN "writei" ELSE "wrote",
                [L[p] EXCEPT !.tot = IF ok THEN @ + m ELSE @])
  /\ UNCHANGED <<load, din, lock, off, sent>>

\* The file s after n bytes of p were stored at position k.
Overlay(s, k, n, p) ==
  [j \in 1 .. Greater(k + n, Len(s)) |->
     IF k < j /\ j <= k + n THEN p ELSE s[j]]

\* writei sets the size and writes the inode back, filewrite advances the
\* offset; then iunlock, end_op, and the next chunk unless this one was short.
wrote(p) ==
  /\ pc[p] = "wrote"
  /\ LET i == Ip(p)
         n == L[p].tot
     IN /\ iupdate(p, i, [ino[i] EXCEPT !.size = Greater(@, L[p].at + n)], logged[p])
        /\ off' = [off EXCEPT ![L[p].f] = @ + n]
        /\ want' = [want EXCEPT ![i] = Overlay(@, L[p].at, n, p)]
        /\ sent' = [sent EXCEPT ![<<p, i>>] = @ + n]
        /\ Goto(p, "end_op", [L[p] EXCEPT !.i = @ + n])
  /\ UNCHANGED <<load, bitmap, blk, lock>>

\* iunlock and end_op.
end_op(p) ==
  /\ pc[p] = "end_op"
  /\ lock' = [lock EXCEPT ![Ip(p)] = NULL]
  /\ logged' = [logged EXCEPT ![p] = {}]
  /\ IF L[p].tot = L[p].m /\ L[p].i < L[p].n
     THEN Goto(p, "chunk", [L[p] EXCEPT !.at = 0, !.m = 0, !.tot = 0]) ELSE Return(p)
  /\ UNCHANGED <<load, bitmap, blk, ino, din, off, want, sent>>
-----------------------------------------------------------------------------
(* read, and open with O_TRUNC. *)

\* fileread: ilock and the checks of readi.
fileread(p, f, n) ==
  /\ pc[p] = "user" /\ <<"read", f, n>> \in load[p]
  /\ LET i == InodeOf[f]
         m == Lesser(n, ino[i].size - off[f])
     IN /\ lock[i] = NULL
        /\ off[f] < ino[i].size
        /\ lock' = [lock EXCEPT ![i] = p]
        /\ Goto(p, "readi", [Idle EXCEPT !.f = f, !.at = off[f], !.m = m])
  /\ UNCHANGED <<load, bitmap, blk, ino, din, off, logged, want, sent>>

\* One round of readi, then off += r; copied is false if copyout failed.
readi(p, copied) ==
  /\ pc[p] = "readi"
  /\ LET i == Ip(p)
         o == L[p].at + L[p].tot
         r == bmap(p, i, o \div BSIZE)
         m == Lesser(L[p].m - L[p].tot, BSIZE - (o % BSIZE))
         more == copied /\ r.addr # 0 /\ L[p].tot + m < L[p].m
     IN /\ bitmap' = r.bitmap /\ blk' = r.blk
        /\ ino' = [ino EXCEPT ![i] = r.ip]
        /\ logged' = [logged EXCEPT ![p] = r.log]
        /\ IF copied /\ r.addr # 0
           THEN Goto(p, IF more THEN "readi" ELSE "read",
                     [L[p] EXCEPT !.tot = @ + m,
                        !.got = @ \o [j \in 1..m |-> r.blk[r.addr][(o + j - 1) % BSIZE]]])
           ELSE Goto(p, "read", IF copied THEN L[p] ELSE [L[p] EXCEPT !.tot = 0, !.got = <<>>])
  /\ UNCHANGED <<load, din, lock, off, want, sent>>

read(p) ==
  /\ pc[p] = "read"
  /\ off' = [off EXCEPT ![L[p].f] = @ + L[p].tot]
  /\ lock' = [lock EXCEPT ![Ip(p)] = NULL]
  /\ Return(p)
  /\ UNCHANGED <<load, bitmap, blk, ino, din, logged, want, sent>>

\* sys_open with O_TRUNC: f is a new open file.
open_trunc(p, f) ==
  /\ pc[p] = "user" /\ <<"trunc", f, 0>> \in load[p]
  /\ lock[InodeOf[f]] = NULL
  /\ lock' = [lock EXCEPT ![InodeOf[f]] = p]
  /\ off' = [off EXCEPT ![f] = 0]
  /\ Goto(p, "itrunc", [Idle EXCEPT !.f = f])
  /\ UNCHANGED <<load, bitmap, blk, ino, din, logged, want, sent>>

\* One round of itrunc: direct blocks, the blocks of the indirect block, the
\* indirect block (i counts the rounds); panics if the block is free.
itrunc(p) ==
  /\ pc[p] = "itrunc" /\ L[p].i <= MAXFILE
  /\ LET i == Ip(p)
         k == L[p].i
         b == IF k < MAXFILE THEN Addr(i, k) ELSE ino[i].addrs[NDIRECT]
         a == IF k < NDIRECT THEN k ELSE NDIRECT
     IN IF b = 0 THEN Goto(p, "itrunc", [L[p] EXCEPT !.i = k + 1]) /\ UNCHANGED <<bitmap, ino, logged>>
        ELSE /\ bitmap' = bitmap \ {b}
             /\ ino' = [ino EXCEPT ![i].addrs[a] = IF k < NDIRECT \/ k = MAXFILE THEN 0 ELSE @]
             /\ logged' = [logged EXCEPT ![p] = @ \cup {Bitmap(b)}]
             /\ Goto(p, IF b \in bitmap THEN "itrunc" ELSE "panic", [L[p] EXCEPT !.i = k + 1])
  /\ UNCHANGED <<load, blk, din, lock, off, want, sent>>

\* size = 0 and iupdate.
truncated(p) ==
  /\ pc[p] = "itrunc" /\ L[p].i > MAXFILE
  /\ iupdate(p, Ip(p), [ino[Ip(p)] EXCEPT !.size = 0], logged[p])
  /\ want' = [want EXCEPT ![Ip(p)] = <<>>]
  /\ sent' = [x \in DOMAIN sent |-> IF x[2] = Ip(p) THEN 0 ELSE sent[x]]
  /\ Goto(p, "end_op", L[p])
  /\ UNCHANGED <<load, bitmap, blk, lock, off>>
-----------------------------------------------------------------------------
Step(p) ==
  \/ filewrite(p) \/ wrote(p) \/ end_op(p) \/ read(p) \/ itrunc(p) \/ truncated(p)
  \/ \E c \in 0 .. BSIZE : writei(p, c)
  \/ \E copied \in BOOLEAN : readi(p, copied)

Next == \E p \in Proc :
  \/ Step(p)
  \/ \E f \in OpenFile, n \in 1 .. MAXFILE * BSIZE : sys_write(p, f, n) \/ fileread(p, f, n)
  \/ \E f \in OpenFile : open_trunc(p, f)

Spec == Init /\ [][Next]_vars
-----------------------------------------------------------------------------
(* Properties. *)

\* The blocks of an inode, each with its place.
Owns(i) ==
     {<<i, k, Addr(i, k)>> : k \in {k \in 0 .. MAXFILE - 1 : Addr(i, k) # 0}}
  \cup {<<i, MAXFILE, b>> : b \in {ino[i].addrs[NDIRECT]} \ {0}}

\* The bitmap marks exactly the blocks that some unlocked inode uses, each
\* used in one place, also after writes that failed half way; and every block
\* below the size is there, so that reading never allocates.
BlocksExact ==
  LET own == UNION {Owns(i) : i \in Inode}
  IN /\ \A x, y \in own : x[3] = y[3] /\ lock[x[1]] = NULL /\ lock[y[1]] = NULL => x = y
     /\ (\A i \in Inode : lock[i] = NULL) => bitmap = {x[3] : x \in own}
     /\ \A i \in Inode, k \in 0 .. MAXFILE - 1 :
          lock[i] = NULL /\ k * BSIZE < ino[i].size => Addr(i, k) \in bitmap

\* A read returns the bytes that were last written at its place: all that it
\* asked for up to the end of the file, or none if it fails.
ReadsBack ==
  \A p \in Proc : pc[p] = "read" =>
    /\ L[p].tot \in {0, L[p].m}
    /\ L[p].got = SubSeq(want[Ip(p)], L[p].at + 1, L[p].at + L[p].tot)

\* A chunk of filewrite, and itrunc, write at most MAXOPBLOCKS blocks: the
\* reservation of begin_op covers them.  (Different blocks are counted; a block
\* may be logged more than once.)  A read has no transaction and logs nothing.
TxFits ==
  \A p \in Proc : /\ Cardinality(logged[p]) <= MAXOPBLOCKS
                  /\ pc[p] \in {"user", "readi", "read"} => logged[p] = {}

\* Writers that share an open file do not overwrite each other: the file has
\* as many bytes of p as p has written to it, if it was opened once.
NoneOverwritten ==
  \A p \in Proc, i \in Inode : (\A f, g \in OpenFile : InodeOf[f] = i /\ InodeOf[g] = i => f = g) =>
    Cardinality({k \in DOMAIN want[i] : want[i][k] = p}) = sent[<<p, i>>]
=============================================================================

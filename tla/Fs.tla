--------------------------------- MODULE Fs ---------------------------------
(***************************************************************************)
(* Names, links and references in the file system: the inode table and     *)
(* directories (kernel/fs.c), open files (kernel/file.c) and the system    *)
(* calls that create, link, remove, open and close (kernel/sysfile.c).     *)
(*                                                                         *)
(* One step is a critical section of itable.lock or ftable.lock, or the    *)
(* time an inode is locked when no other lock is waited for meanwhile.  An *)
(* inode that stays locked across steps is recorded in its lock field.     *)
(* Every call but dup and fork runs inside a transaction; the log makes    *)
(* the disk after a crash the disk of some moment without transactions     *)
(* (module Log).  File contents and block allocation are in module File.   *)
(***************************************************************************)
EXTENDS Naturals, Sequences, FiniteSets

CONSTANTS
  Proc,      \* process slots
  Inum,      \* inode numbers, 1 is ROOTINO
  Name,      \* names other than "." and ".."
  NFILE,     \* entries of the file table
  NOFILE,    \* descriptors of a process
  Worlds,    \* what to start from: a tree, that is a set of <<inum, type, parent,
             \* name>>, and a load, a function from Proc to sets of calls
  NULL

ASSUME FsAssumption == Inum = 1 .. Cardinality(Inum) /\ NULL \notin Proc

Entry == Name \cup {".", ".."}
Fd    == 0 .. NOFILE - 1
File  == 1 .. NFILE

VARIABLES
  load,      \* the calls each process makes (never changes)
  din,       \* the dinodes, as in the log: type and nlink
  ents,      \* directory contents: ents[d][name] is an inode number or 0
  itable,    \* the in-memory inode of each number: ref, valid, type, nlink, lock
  ftable,    \* open files: ref and ip (0: a pipe end)
  ofile, cwd,
  pc, L      \* where each process is, and its local variables

fs    == <<din, ents>>
files == <<ftable, ofile, cwd>>
vars  == <<load, din, ents, itable, ftable, ofile, cwd, pc, L>>

NoEnt  == [n \in Entry |-> 0]
Free   == [ref |-> 0, valid |-> FALSE, type |-> "none", nlink |-> 0, lock |-> NULL]
Closed == [ref |-> 0, ip |-> 0]
\* ip, dp, put: inodes the call refers to; f, g: files it has allocated;
\* ret, fail, after: where to go on.
Idle == [op |-> "none", path |-> <<>>, new |-> <<>>, name |-> ".", type |-> "none",
         ip |-> 0, dp |-> 0, put |-> 0, f |-> 0, g |-> 0,
         ret |-> "user", fail |-> "user", after |-> "user"]

\* The file system that mkfs made, with the directories and files of a tree.
Init ==
  /\ \E w \in Worlds :
       LET t        == w.tree
           At(i, n) == {x \in t : x[3] = i /\ x[4] = n}
           Kids(i)  == {x \in t : x[3] = i /\ x[2] = "dir"}
           Of(i)    == {x \in t : x[1] = i}
       IN /\ load = w.load
          /\ din = [i \in Inum |->
               IF i = 1 THEN [type |-> "dir", nlink |-> 1 + Cardinality(Kids(1))]
               ELSE IF Of(i) = {} THEN [type |-> "none", nlink |-> 0]
               ELSE [type |-> (CHOOSE x \in Of(i) : TRUE)[2], nlink |-> Cardinality(Of(i) \cup Kids(i))]]
          /\ ents = [i \in Inum |-> [n \in Entry |->
               IF din[i].type # "dir" THEN 0
               ELSE IF n = "." THEN i
               ELSE IF n = ".." THEN (IF i = 1 THEN 1 ELSE (CHOOSE x \in Of(i) : TRUE)[3])
               ELSE IF At(i, n) = {} THEN 0 ELSE (CHOOSE x \in At(i, n) : TRUE)[1]]]
  /\ itable = [i \in Inum |->
       IF i = 1 THEN [Free EXCEPT !.ref = Cardinality(Proc)] ELSE Free]
  /\ ftable = [f \in File |-> Closed]
  /\ ofile = [p \in Proc |-> [d \in Fd |-> 0]]
  /\ cwd = [p \in Proc |-> 1]
  /\ pc = [p \in Proc |-> "user"]
  /\ L = [p \in Proc |-> Idle]

\* Process p goes on at label l with the locals r.
Goto(p, l, r) == pc' = [pc EXCEPT ![p] = l] /\ L' = [L EXCEPT ![p] = r]
Return(p)     == Goto(p, "user", Idle)
Panic(p)      == Goto(p, "panic", L[p])
-----------------------------------------------------------------------------
(* The inode table. *)

\* An entry after iget (or idup): found, or recycled.  A free entry holds
\* whatever its last user left, all of which iget overwrites or marks invalid.
iget(e) == IF e.ref > 0 THEN [e EXCEPT !.ref = @ + 1] ELSE [Free EXCEPT !.ref = 1]
Drop(e) == IF e.ref > 1 THEN [e EXCEPT !.ref = @ - 1] ELSE Free

\* The entry of i after ilock: read from disk if it is not valid.
ilock(i) ==
  IF itable[i].valid THEN itable[i]
  ELSE [itable[i] EXCEPT !.valid = TRUE, !.type = din[i].type, !.nlink = din[i].nlink]

\* The inode that a process at each label is about to lock.
LockOf(l) ==
  [namex |-> l.dp, create |-> l.dp, unlink |-> l.dp, link_entry |-> l.dp,
   open |-> l.ip, chdir |-> l.ip, link |-> l.ip, link_bad |-> l.ip,
   create_found |-> l.ip, create_new |-> l.ip, unlink_entry |-> l.ip]

\* ilock(i) succeeds now.  Only sys_open may find that it has i locked already.
CanLock(p, i) ==
  /\ itable[i].lock = NULL \/ (pc[p] = "open" /\ itable[i].lock = p)
  /\ ilock(i).type # "none"

\* p is at the panic "ilock: no type", where it stays.
ilock_panics(p) ==
  /\ pc[p] \in DOMAIN LockOf(L[p])
  /\ pc[p] = "namex" => L[p].path # <<>>
  /\ LET i == LockOf(L[p])[pc[p]]
     IN itable[i].lock = NULL /\ ilock(i).type = "none"

\* iupdate: the dinode of an in-memory inode e.
iupdate(e) == [type |-> e.type, nlink |-> e.nlink]

\* The lowest free inode, 0 if there is none.
ialloc ==
  LET free == {i \in Inum : din[i].type = "none"}
  IN IF free = {} THEN 0 ELSE CHOOSE i \in free : \A j \in free : i <= j

\* Call iput(i) with the locals r and go on at l.
iput(p, i, l, r) == Goto(p, "iput", [r EXCEPT !.put = i, !.after = l])

\* iput returns.
Put(p) == Goto(p, L[p].after, IF L[p].after = "user" THEN Idle ELSE [L[p] EXCEPT !.put = 0])

\* Mutant: other references do not matter.
Unreferenced_shared(e) == e.valid /\ e.nlink = 0

\* The last reference to an inode without links.
Unreferenced(e) == e.ref = 1 /\ e.valid /\ e.nlink = 0

\* iput under itable.lock: the last reference is kept while the inode is freed,
\* any other is dropped.
iput_check(p) ==
  /\ pc[p] = "iput"
  /\ LET i == L[p].put
     IN IF Unreferenced(itable[i])
        THEN /\ itable[i].lock = NULL
             /\ itable' = [itable EXCEPT ![i].lock = p]
             /\ Goto(p, "iput_free", L[p])
        ELSE /\ itable' = [itable EXCEPT ![i] = Drop(@)]
             /\ Put(p)
  /\ UNCHANGED <<load, fs, files>>

\* itrunc, type = 0, iupdate: from here on ialloc may take the number again.
iput_free(p) ==
  /\ pc[p] = "iput_free"
  /\ LET i == L[p].put
     IN /\ itable' = [itable EXCEPT ![i].type = "none"]
        /\ din' = [din EXCEPT ![i] = iupdate(itable'[i])]
        /\ ents' = [ents EXCEPT ![i] = NoEnt]
  /\ Goto(p, "iput_invalid", L[p])
  /\ UNCHANGED <<load, files>>

\* valid = 0 and releasesleep.
iput_invalid(p) ==
  /\ pc[p] = "iput_invalid"
  /\ itable' = [itable EXCEPT ![L[p].put].valid = FALSE, ![L[p].put].lock = NULL]
  /\ Goto(p, "iput_ref", L[p])
  /\ UNCHANGED <<load, fs, files>>

iput_ref(p) ==
  /\ pc[p] = "iput_ref"
  /\ itable' = [itable EXCEPT ![L[p].put] = Drop(@)]
  /\ Put(p)
  /\ UNCHANGED <<load, fs, files>>
-----------------------------------------------------------------------------
(* Path names.  A path is a sequence of names, after "/" if it is absolute. *)

\* Where each call goes on once namex has returned an inode.
After == [open |-> "open", openw |-> "open", create |-> "create", mkdir |-> "create",
          mknod |-> "create", link |-> "link", unlink |-> "unlink", chdir |-> "chdir"]

\* nameiparent rather than namei.
Parent(l) == l.ret \in {"create", "unlink", "link_entry"}

\* namex begins at the root or at the current directory.
StartNamex(p, path, r) ==
  LET abs == path # <<>> /\ Head(path) = "/"
      d   == IF abs THEN 1 ELSE cwd[p]
  IN /\ itable' = [itable EXCEPT ![d] = iget(@)]
     /\ Goto(p, "namex", [r EXCEPT !.path = IF abs THEN Tail(path) ELSE path, !.dp = d])

\* A system call with a path name.
Call(p, c) ==
  /\ pc[p] = "user"
  /\ c \in load[p] /\ c.op \in DOMAIN After
  /\ StartNamex(p, c.path, [Idle EXCEPT !.op = c.op, !.new = c.new, !.type = c.type,
                                        !.ret = After[c.op]])
  /\ UNCHANGED <<load, fs, files>>

\* One round of the loop of namex: lock a directory, look up a name.
namex(p) ==
  /\ pc[p] = "namex" /\ L[p].path # <<>>
  /\ LET d    == L[p].dp
         path == L[p].path
         next == ents[d][Head(path)]
         here == [itable EXCEPT ![d] = ilock(d)]
         dir  == here[d].type = "dir"
     IN /\ CanLock(p, d)
        /\ IF dir /\ Parent(L[p]) /\ Len(path) = 1
           THEN /\ itable' = here
                /\ Goto(p, L[p].ret, [L[p] EXCEPT !.name = path[1], !.path = <<>>])
           ELSE IF dir /\ next # 0
           THEN /\ itable' = [here EXCEPT ![next] = iget(@)]
                /\ iput(p, d, "namex", [L[p] EXCEPT !.path = Tail(path), !.dp = next])
           ELSE /\ itable' = here
                /\ iput(p, d, L[p].fail, [L[p] EXCEPT !.dp = 0])
  /\ UNCHANGED <<load, fs, files>>

\* The end of the path: nameiparent has found no last element.
namex_end(p) ==
  /\ pc[p] = "namex" /\ L[p].path = <<>>
  /\ IF Parent(L[p]) THEN iput(p, L[p].dp, L[p].fail, [L[p] EXCEPT !.dp = 0])
                     ELSE Goto(p, L[p].ret, [L[p] EXCEPT !.ip = L[p].dp, !.dp = 0])
  /\ UNCHANGED <<load, fs, itable, files>>

\* iunlockput(dp) at the end of a call.
unlockput(p) ==
  /\ pc[p] = "unlockput"
  /\ itable' = [itable EXCEPT ![L[p].dp].lock = NULL]
  /\ iput(p, L[p].dp, "user", [L[p] EXCEPT !.dp = 0])
  /\ UNCHANGED <<load, fs, files>>
-----------------------------------------------------------------------------
(* open, mkdir, mknod and create. *)

FreeFiles  == {f \in File : ftable[f].ref = 0}
FreeFds(p) == {d \in Fd : ofile[p][d] = 0}
Lowest(S)  == CHOOSE x \in S : \A y \in S : x <= y

\* create after nameiparent: the name exists, or dp stays locked.
create(p) ==
  /\ pc[p] = "create"
  /\ LET d == L[p].dp
         i == ents[d][L[p].name]
         here == [itable EXCEPT ![d] = ilock(d)]
     IN /\ CanLock(p, d)
        /\ IF i # 0
           THEN /\ itable' = [here EXCEPT ![i] = iget(@)]
                /\ iput(p, d, "create_found", [L[p] EXCEPT !.ip = i, !.dp = 0])
           ELSE /\ itable' = [here EXCEPT ![d].lock = p]
                /\ Goto(p, "ialloc", L[p])
  /\ UNCHANGED <<load, fs, files>>

create_found(p) ==
  /\ pc[p] = "create_found"
  /\ LET i == L[p].ip
         e == ilock(i)
     IN /\ CanLock(p, i)
        /\ IF L[p].op = "create" /\ e.type # "dir"
           THEN /\ itable' = [itable EXCEPT ![i] = [e EXCEPT !.lock = p]]
                /\ Goto(p, "open", L[p])
           ELSE /\ itable' = [itable EXCEPT ![i] = e]
                /\ iput(p, i, "user", [L[p] EXCEPT !.ip = 0])
  /\ UNCHANGED <<load, fs, files>>

create_alloc(p) ==
  /\ pc[p] = "ialloc"
  /\ LET i == ialloc
     IN IF i = 0 THEN Goto(p, "unlockput", L[p]) /\ UNCHANGED <<din, itable>>
        ELSE /\ din' = [din EXCEPT ![i] = [type |-> L[p].type, nlink |-> 0]]
             /\ itable' = [itable EXCEPT ![i] = iget(@)]
             /\ Goto(p, "create_new", [L[p] EXCEPT !.ip = i])
  /\ UNCHANGED <<load, ents, files>>

\* create with the new inode locked.  full: a block for a directory entry
\* could not be allocated, for the new directory itself or for dp.
create_new(p, full) ==
  /\ pc[p] = "create_new"
  /\ LET i == L[p].ip
         d == L[p].dp
         dir == L[p].type = "dir"
         new == [ilock(i) EXCEPT !.nlink = IF full = "no" THEN 1 ELSE 0]
         up  == [itable[d] EXCEPT !.nlink = IF dir THEN @ + 1 ELSE @]
         dots == IF dir /\ full # "self"
                 THEN [ents EXCEPT ![i]["."] = i, ![i][".."] = d] ELSE ents
     IN /\ CanLock(p, i)
        /\ IF full = "no"
           THEN /\ itable' = [itable EXCEPT ![i] = [new EXCEPT !.lock = p],
                                            ![d] = [up EXCEPT !.lock = NULL]]
                /\ din' = [din EXCEPT ![i] = iupdate(new), ![d] = iupdate(up)]
                /\ ents' = [dots EXCEPT ![d][L[p].name] = i]
                /\ iput(p, d, IF L[p].op = "create" THEN "open" ELSE "created", [L[p] EXCEPT !.dp = 0])
           ELSE /\ itable' = [itable EXCEPT ![i] = new]
                /\ din' = [din EXCEPT ![i] = iupdate(new)]
                /\ ents' = dots
                /\ iput(p, i, "unlockput", [L[p] EXCEPT !.ip = 0])
  /\ UNCHANGED <<load, files>>

\* sys_mkdir and sys_mknod with the new inode.
created(p) ==
  /\ pc[p] = "created"
  /\ itable' = [itable EXCEPT ![L[p].ip].lock = NULL]
  /\ iput(p, L[p].ip, "user", [L[p] EXCEPT !.ip = 0])
  /\ UNCHANGED <<load, fs, files>>

\* sys_open with its inode: check it and, with it locked, allocate a file.
open(p) ==
  /\ pc[p] = "open"
  /\ LET i == L[p].ip
         e == ilock(i)
         bad == <<L[p].op, e.type>> = <<"openw", "dir">> \/ e.type = "baddev"
         f == Lowest(FreeFiles)
     IN /\ CanLock(p, i)
        /\ IF bad \/ FreeFiles = {}
           THEN /\ itable' = [itable EXCEPT ![i] = [e EXCEPT !.lock = NULL]]
                /\ iput(p, i, "user", [L[p] EXCEPT !.ip = 0])
                /\ UNCHANGED ftable
           ELSE /\ itable' = [itable EXCEPT ![i] = [e EXCEPT !.lock = p]]
                /\ ftable' = [ftable EXCEPT ![f].ref = 1]
                /\ Goto(p, "open_fd", [L[p] EXCEPT !.f = f])
  /\ UNCHANGED <<load, fs, ofile, cwd>>

\* Mutant: without a descriptor the file is not closed.
open_fd_leaks(p) ==
  /\ pc[p] = "open_fd"
  /\ LET i == L[p].ip
         f == L[p].f
     IN /\ itable' = [itable EXCEPT ![i].lock = NULL]
        /\ IF FreeFds(p) = {}
           THEN /\ iput(p, i, "user", [L[p] EXCEPT !.ip = 0, !.f = 0])
                /\ UNCHANGED <<ftable, ofile>>
           ELSE /\ ftable' = [ftable EXCEPT ![f].ip = i]
                /\ ofile' = [ofile EXCEPT ![p][Lowest(FreeFds(p))] = f]
                /\ Return(p)
  /\ UNCHANGED <<load, fs, cwd>>

\* The rest of sys_open: a descriptor, or the file is closed again.
open_fd(p) ==
  /\ pc[p] = "open_fd"
  /\ LET i == L[p].ip
         f == L[p].f
     IN /\ itable' = [itable EXCEPT ![i].lock = NULL]
        /\ IF FreeFds(p) = {}
           THEN /\ ftable' = [ftable EXCEPT ![f] = Closed]
                /\ iput(p, i, "user", [L[p] EXCEPT !.ip = 0, !.f = 0])
                /\ UNCHANGED ofile
           ELSE /\ ftable' = [ftable EXCEPT ![f].ip = i]
                /\ ofile' = [ofile EXCEPT ![p][Lowest(FreeFds(p))] = f]
                /\ Return(p)
  /\ UNCHANGED <<load, fs, cwd>>
-----------------------------------------------------------------------------
(* link, unlink and chdir. *)

\* sys_link counts the new link before it exists.
link(p) ==
  /\ pc[p] = "link"
  /\ LET i == L[p].ip
         e == ilock(i)
         up == [e EXCEPT !.nlink = @ + 1]
     IN /\ CanLock(p, i)
        /\ IF e.type = "dir"
           THEN /\ itable' = [itable EXCEPT ![i] = e]
                /\ iput(p, i, "user", [L[p] EXCEPT !.ip = 0])
                /\ UNCHANGED din
           ELSE /\ itable' = [itable EXCEPT ![i] = up]
                /\ din' = [din EXCEPT ![i] = iupdate(up)]
                /\ Goto(p, "link_new", L[p])
  /\ UNCHANGED <<load, ents, files>>

link_new(p) ==
  /\ pc[p] = "link_new"
  /\ StartNamex(p, L[p].new, [L[p] EXCEPT !.new = <<>>, !.ret = "link_entry", !.fail = "link_bad"])
  /\ UNCHANGED <<load, fs, files>>

\* dirlink into the parent of the new name: it may exist, or the disk be full.
\* (dirlookup's reference to an existing entry is dropped before the unlock.)
link_entry(p, full) ==
  /\ pc[p] = "link_entry"
  /\ LET d == L[p].dp
         ok == ents[d][L[p].name] = 0 /\ ~full
     IN /\ CanLock(p, d)
        /\ itable' = [itable EXCEPT ![d] = ilock(d)]
        /\ ents' = IF ok THEN [ents EXCEPT ![d][L[p].name] = L[p].ip] ELSE ents
        /\ iput(p, d, IF ok THEN "link_done" ELSE "link_bad", [L[p] EXCEPT !.dp = 0])
  /\ UNCHANGED <<load, din, files>>

link_done(p) ==
  /\ pc[p] = "link_done"
  /\ iput(p, L[p].ip, "user", [L[p] EXCEPT !.ip = 0])
  /\ UNCHANGED <<load, fs, itable, files>>

\* The inode without one of its links, unlocked and put.
Unlinked(p, i) ==
  LET e == [ilock(i) EXCEPT !.nlink = @ - 1, !.lock = NULL]
  IN /\ itable' = [itable EXCEPT ![i] = e]
     /\ din' = [din EXCEPT ![i] = iupdate(e)]
     /\ iput(p, i, "user", [L[p] EXCEPT !.ip = 0])

\* Mutant: the link that was not made stays counted.
link_bad_counted(p) ==
  /\ pc[p] = "link_bad"
  /\ iput(p, L[p].ip, "user", [L[p] EXCEPT !.ip = 0])
  /\ UNCHANGED <<load, fs, itable, files>>

link_bad(p) ==
  /\ pc[p] = "link_bad"
  /\ CanLock(p, L[p].ip)
  /\ Unlinked(p, L[p].ip)
  /\ UNCHANGED <<load, ents, files>>

\* Mutant: dp is unlocked before the entry is cleared.
unlink_unlocked(p) ==
  /\ pc[p] = "unlink"
  /\ LET d == L[p].dp
         i == ents[d][L[p].name]
         here == [itable EXCEPT ![d] = ilock(d)]
     IN /\ CanLock(p, d)
        /\ IF L[p].name \in {".", ".."} \/ i = 0
           THEN itable' = here /\ iput(p, d, "user", [L[p] EXCEPT !.dp = 0])
           ELSE /\ itable' = [here EXCEPT ![i] = iget(@)]
                /\ Goto(p, "unlink_entry", [L[p] EXCEPT !.ip = i])
  /\ UNCHANGED <<load, fs, files>>

\* sys_unlink after nameiparent; dp stays locked if the name exists.
unlink(p) ==
  /\ pc[p] = "unlink"
  /\ LET d == L[p].dp
         i == ents[d][L[p].name]
         here == [itable EXCEPT ![d] = ilock(d)]
     IN /\ CanLock(p, d)
        /\ IF L[p].name \in {".", ".."} \/ i = 0
           THEN /\ itable' = here
                /\ iput(p, d, "user", [L[p] EXCEPT !.dp = 0])
           ELSE /\ itable' = [here EXCEPT ![d].lock = p, ![i] = iget(@)]
                /\ Goto(p, "unlink_entry", [L[p] EXCEPT !.ip = i])
  /\ UNCHANGED <<load, fs, files>>

isdirempty(d) == \A n \in Name : ents[d][n] = 0

\* With dp and ip locked: check, clear the entry, and let dp go.
unlink_entry(p) ==
  /\ pc[p] = "unlink_entry"
  /\ LET i == L[p].ip
         d == L[p].dp
         e == ilock(i)
         up == [itable[d] EXCEPT !.nlink = IF e.type = "dir" THEN @ - 1 ELSE @, !.lock = NULL]
     IN /\ CanLock(p, i)
        /\ IF e.nlink < 1
           THEN Panic(p) /\ UNCHANGED <<itable, fs>>
           ELSE IF e.type = "dir" /\ ~isdirempty(i)
           THEN /\ itable' = [itable EXCEPT ![i] = e]
                /\ iput(p, i, "unlockput", [L[p] EXCEPT !.ip = 0])
                /\ UNCHANGED fs
           ELSE /\ itable' = [itable EXCEPT ![d] = up, ![i] = [e EXCEPT !.lock = p]]
                /\ din' = [din EXCEPT ![d] = iupdate(up)]
                /\ ents' = [ents EXCEPT ![d][L[p].name] = 0]
                /\ iput(p, d, "unlinked", [L[p] EXCEPT !.dp = 0])
  /\ UNCHANGED <<load, files>>

unlinked(p) ==
  /\ pc[p] = "unlinked"
  /\ Unlinked(p, L[p].ip)
  /\ UNCHANGED <<load, ents, files>>

\* sys_chdir gives up the old directory before it has recorded the new one.
chdir(p) ==
  /\ pc[p] = "chdir"
  /\ LET i == L[p].ip
         e == ilock(i)
     IN /\ CanLock(p, i)
        /\ itable' = [itable EXCEPT ![i] = e]
        /\ IF e.type = "dir" THEN iput(p, cwd[p], "chdir_end", L[p])
                             ELSE iput(p, i, "user", [L[p] EXCEPT !.ip = 0])
  /\ UNCHANGED <<load, fs, files>>

chdir_end(p) ==
  /\ pc[p] = "chdir_end"
  /\ cwd' = [cwd EXCEPT ![p] = L[p].ip]
  /\ Return(p)
  /\ UNCHANGED <<load, fs, itable, ftable, ofile>>
-----------------------------------------------------------------------------
(* Descriptors. *)

Does(p, op) == pc[p] = "user" /\ \E c \in load[p] : c.op = op

\* fileclose of descriptor d; the process goes on at l.
fileclose(p, d, l) ==
  LET f == ofile[p][d]
      last == ftable[f].ref = 1
  IN /\ f # 0
     /\ ofile' = [ofile EXCEPT ![p][d] = 0]
     /\ ftable' = [ftable EXCEPT ![f] = IF last THEN Closed ELSE [@ EXCEPT !.ref = @ - 1]]
     /\ IF last /\ ftable[f].ip # 0 THEN iput(p, ftable[f].ip, l, L[p]) ELSE Goto(p, l, L[p])
     /\ UNCHANGED <<load, fs, itable, cwd>>

sys_close(p, d) == Does(p, "close") /\ fileclose(p, d, "user")

sys_dup(p, d) ==
  /\ Does(p, "dup")
  /\ ofile[p][d] # 0 /\ FreeFds(p) # {}
  /\ ofile' = [ofile EXCEPT ![p][Lowest(FreeFds(p))] = ofile[p][d]]
  /\ ftable' = [ftable EXCEPT ![ofile[p][d]].ref = @ + 1]
  /\ UNCHANGED <<load, fs, itable, cwd, pc, L>>

\* sys_pipe, in pipealloc: the first file.
sys_pipe(p) ==
  /\ Does(p, "pipe") /\ FreeFiles # {}
  /\ ftable' = [ftable EXCEPT ![Lowest(FreeFiles)].ref = 1]
  /\ Goto(p, "pipe", [Idle EXCEPT !.f = Lowest(FreeFiles)])
  /\ UNCHANGED <<load, fs, itable, ofile, cwd>>

\* The second file.
pipe_file(p) ==
  /\ pc[p] = "pipe"
  /\ IF FreeFiles = {} THEN Goto(p, "pipe_close", L[p]) /\ UNCHANGED ftable
     ELSE /\ ftable' = [ftable EXCEPT ![Lowest(FreeFiles)].ref = 1]
          /\ Goto(p, "pipe_fds", [L[p] EXCEPT !.g = Lowest(FreeFiles)])
  /\ UNCHANGED <<load, fs, itable, ofile, cwd>>

\* Two descriptors.  kalloc may have failed in pipealloc, a copyout may fail
\* later: the descriptors are then cleared before another process sees them.
pipe_fds(p, fails) ==
  /\ pc[p] = "pipe_fds"
  /\ LET d == Lowest(FreeFds(p))
         e == Lowest(FreeFds(p) \ {d})
     IN IF fails \/ Cardinality(FreeFds(p)) < 2
        THEN Goto(p, "pipe_close", L[p]) /\ UNCHANGED ofile
        ELSE ofile' = [ofile EXCEPT ![p][d] = L[p].f, ![p][e] = L[p].g] /\ Return(p)
  /\ UNCHANGED <<load, fs, itable, ftable, cwd>>

\* A call that fails closes the files it has, one after the other.
pipe_close(p) ==
  /\ pc[p] = "pipe_close"
  /\ ftable' = [ftable EXCEPT ![L[p].f] = Closed]
  /\ IF L[p].g = 0 THEN Return(p)
                   ELSE Goto(p, "pipe_close", [L[p] EXCEPT !.f = L[p].g, !.g = 0])
  /\ UNCHANGED <<load, fs, itable, ofile, cwd>>

\* The part of fork about files: filedup of each, idup of the directory.
fork(p, q) ==
  /\ Does(p, "fork") /\ pc[q] = "unused"
  /\ ofile' = [ofile EXCEPT ![q] = ofile[p]]
  /\ ftable' = [f \in File |->
       [ftable[f] EXCEPT !.ref = @ + Cardinality({d \in Fd : ofile[p][d] = f})]]
  /\ itable' = [itable EXCEPT ![cwd[p]] = iget(@)]
  /\ cwd' = [cwd EXCEPT ![q] = cwd[p]]
  /\ pc' = [pc EXCEPT ![q] = "user"]
  /\ UNCHANGED <<load, fs, L>>

\* exit closes every file, one after another, and gives up the directory.
exit(p) ==
  \/ /\ Does(p, "exit")
     /\ Goto(p, "exit", Idle)
     /\ UNCHANGED <<load, fs, itable, files>>
  \/ /\ pc[p] = "exit"
     /\ \E d \in Fd : (\A x \in 0 .. d - 1 : ofile[p][x] = 0) /\ fileclose(p, d, "exit")
  \/ /\ pc[p] = "exit"
     /\ \A d \in Fd : ofile[p][d] = 0
     /\ iput(p, cwd[p], "unused", L[p])
     /\ cwd' = [cwd EXCEPT ![p] = 0]
     /\ UNCHANGED <<load, fs, itable, ftable, ofile>>
-----------------------------------------------------------------------------
Step(p) ==
  \/ iput_check(p) \/ iput_free(p) \/ iput_invalid(p) \/ iput_ref(p)
  \/ namex(p) \/ namex_end(p) \/ unlockput(p)
  \/ create(p) \/ create_found(p) \/ create_alloc(p) \/ created(p)
  \/ open(p) \/ open_fd(p)
  \/ \E full \in {"no", "self", "parent"} : create_new(p, full)
  \/ link(p) \/ link_new(p) \/ link_done(p) \/ link_bad(p)
  \/ \E full \in BOOLEAN : link_entry(p, full)
  \/ unlink(p) \/ unlink_entry(p) \/ unlinked(p) \/ chdir(p) \/ chdir_end(p)

Syscall(p) ==
  \/ \E c \in load[p] : Call(p, c)
  \/ \E d \in Fd : sys_close(p, d) \/ sys_dup(p, d)
  \/ sys_pipe(p) \/ pipe_file(p) \/ pipe_close(p) \/ exit(p)
  \/ \E fails \in BOOLEAN : pipe_fds(p, fails)
  \/ \E q \in Proc : fork(p, q)

Next == \E p \in Proc : Step(p) \/ Syscall(p)

Spec == Init /\ [][Next]_vars
-----------------------------------------------------------------------------
(* Properties. *)

Count(S) == Cardinality(S)

\* ip->ref is the number of pointers to the in-memory inode: open files,
\* current directories and the variables of calls in progress; f->ref is the
\* number of descriptors of the file and of calls that have just allocated it.
\* No entry is recycled under a user, and none is kept without one.
RefExact ==
  /\ \A i \in Inum :
       itable[i].ref =
           Count({f \in File : ftable[f].ref > 0 /\ ftable[f].ip = i})
         + Count({p \in Proc : cwd[p] = i /\ "chdir_end" \notin {L[p].after, pc[p]}})
         + Count({p \in Proc : L[p].ip = i}) + Count({p \in Proc : L[p].dp = i})
         + Count({p \in Proc : L[p].put = i})
  /\ \A f \in File :
       ftable[f].ref = Count({x \in Proc \X Fd : ofile[x[1]][x[2]] = f})
                     + Count({p \in Proc : f \in {L[p].f, L[p].g}})

InOp(p) == pc[p] \notin {"user", "exit", "unused", "pipe", "pipe_fds", "pipe_close"}
Links(i) ==
  {x \in Inum \X Entry : /\ din[x[1]].type = "dir" /\ din[x[1]].nlink > 0
                         /\ x[2] # "." /\ ents[x[1]][x[2]] = i}

Quiet == \A p \in Proc : ~InOp(p)

\* What a crash would leave, and any moment without a transaction: link
\* counts are exact and no entry of a linked directory names a free inode.
Consistent ==
  Quiet => \A i \in Inum : /\ din[i].nlink = Count(Links(i))
                           /\ din[i].type = "none" => Links(i) = {}

\* fs.c:333: "If that was the last reference and the inode has no links to it,
\* free the inode (and its content) on disk": without a transaction, an inode
\* that has no links is allocated only while a process refers to it.
Reclaimed ==
  Quiet => \A i \in Inum : din[i].type # "none" /\ din[i].nlink = 0 => itable[i].ref > 0

\* None of the panics of ilock and unlink is reached while no process looks up
\* a path from a current directory that has been removed.
NoPanic == \A p \in Proc : pc[p] # "panic" /\ ~ilock_panics(p)

\* An open file and a current directory keep their inode: it is not freed and
\* not given to a new file while they refer to it.
OpenKept ==
  \A i \in Inum :
    \/ \E f \in File : ftable[f].ref > 0 /\ ftable[f].ip = i
    \/ \E p \in Proc : cwd[p] = i /\ pc[p] = "user"
    => din[i].type # "none"

\* iput: "ip->ref == 1 means no other process can have ip locked, so this
\* acquiresleep() won't block (or deadlock)".
IputNeverBlocks ==
  \A p \in Proc :
    pc[p] = "iput" /\ Unreferenced(itable[L[p].put]) => itable[L[p].put].lock = NULL
=============================================================================

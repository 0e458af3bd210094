-------------------------------- MODULE Inode --------------------------------
(***************************************************************************)
(* Inodes (kernel/fs.c) and the system calls that make, name and drop them *)
(* (kernel/sysfile.c, kernel/file.c): the inode table with its reference   *)
(* counts and sleep-locks, link counts, a file that stays while it is open *)
(* after its last name is gone, and orphans freed after a crash.           *)
(*                                                                         *)
(* There is one directory, the root; an inode has at most one data block.  *)
(* The log is what module Log shows it to be: changes become durable all   *)
(* at once when the last running operation ends.                           *)
(***************************************************************************)
EXTENDS Integers, FiniteSets, FiniteSetsExt

CONSTANTS
  Procs,     \* processes, each with at most one open file
  Names,     \* names in the directory
  NINUM,     \* inodes on the disk, besides the root
  NINODE,    \* slots of the inode table, besides the root's
  NBLOCKS,   \* data blocks
  NoProc     \* nobody

ASSUME InodeAssumption ==
  NINUM \in Nat /\ NINODE \in Nat /\ NBLOCKS \in Nat /\ NoProc \notin Procs

Inums == 1..NINUM
Slots == 1..NINODE

VARIABLES
  disk,     \* the durable file system
  cur,      \* the file system with the changes of the running transaction
  itable,   \* itable.inode
  dlock,    \* the lock of the root directory: who holds it
  op,       \* the system call a process is in, with its names
  pc,       \* where it is
  ip,       \* the table slot it works on, 0 for none
  file,     \* the slot of its open file, 0 for none
  outstanding,  \* log.outstanding
  up,       \* 1 after boot has reclaimed the orphans
  panic     \* "none" or the message of panic()

calls == <<op, pc>>
vars  == <<disk, cur, itable, dlock, calls, ip, file, outstanding, up, panic>>

NoOp    == [call |-> "none", name |-> "none", to |-> "none"]
NoInode == [inum |-> 0, ref |-> 0, valid |-> 0, type |-> 0, nlink |-> 0, addr |-> 0, lock |-> NoProc]

\* type, nlink and addrs of every dinode, the directory, and the number of
\* blocks the bitmap has in use.
EmptyFS == [type  |-> [i \in Inums |-> 0], nlink |-> [i \in Inums |-> 0],
            addr  |-> [i \in Inums |-> 0], entry |-> [n \in Names |-> 0], used |-> 0]

Init ==
  /\ disk = EmptyFS /\ cur = EmptyFS
  /\ itable = [s \in Slots |-> NoInode] /\ dlock = NoProc
  /\ op = [p \in Procs |-> NoOp] /\ pc = [p \in Procs |-> "user"]
  /\ ip = [p \in Procs |-> 0] /\ file = [p \in Procs |-> 0]
  /\ outstanding = 0 /\ up = 0 /\ panic = "none"

GoTo(p, l) == pc' = [pc EXCEPT ![p] = l]

----------------------------------------------------------------------------
\* The inode table.

\* iget(inum) for p: the slot that has it, or an unused one.
iget_Stale(p, i) ==
  LET hit   == {s \in Slots : itable[s].ref > 0 /\ itable[s].inum = i}
      empty == {s \in Slots : itable[s].ref = 0}
      s     == IF hit # {} THEN Min(hit) ELSE Min(empty)
  IN IF hit \cup empty = {}
     THEN panic' = "iget: no inodes" /\ UNCHANGED <<itable, ip>>
     ELSE /\ itable' = [itable EXCEPT ![s] =
                          IF hit # {} THEN [@ EXCEPT !.ref = @ + 1] ELSE [@ EXCEPT !.inum = i, !.ref = 1]]
          /\ ip' = [ip EXCEPT ![p] = s] /\ UNCHANGED panic
iget(p, i) ==
  LET hit   == {s \in Slots : itable[s].ref > 0 /\ itable[s].inum = i}
      empty == {s \in Slots : itable[s].ref = 0}
      s     == IF hit # {} THEN Min(hit) ELSE Min(empty)
  IN IF hit \cup empty = {}
     THEN panic' = "iget: no inodes" /\ UNCHANGED <<itable, ip>>
     ELSE /\ itable' = [itable EXCEPT ![s] =
                          IF hit # {} THEN [@ EXCEPT !.ref = @ + 1]
                          ELSE [@ EXCEPT !.inum = i, !.ref = 1, !.valid = 0]]
          /\ ip' = [ip EXCEPT ![p] = s] /\ UNCHANGED panic

\* What a slot holds after ilock has read it from the disk if it had to.
Loaded(s) ==
  IF s.valid = 1 THEN s
  ELSE [s EXCEPT !.valid = 1, !.type = cur.type[s.inum], !.nlink = cur.nlink[s.inum],
                 !.addr = cur.addr[s.inum]]

\* ilock, and the place where the caller goes on.
ilock(p, l) ==
  LET s == itable[ip[p]] IN
  /\ s.lock = NoProc
  /\ IF s.valid = 0 /\ cur.type[s.inum] = 0
     THEN panic' = "ilock: no type" /\ UNCHANGED <<itable, pc>>
     ELSE /\ itable' = [itable EXCEPT ![ip[p]] = [Loaded(s) EXCEPT !.lock = p]]
          /\ GoTo(p, l) /\ UNCHANGED panic

\* iupdate of the slot contents s, in the file system fs.
iupdate(fs, s) ==
  [fs EXCEPT !.type[s.inum] = s.type, !.nlink[s.inum] = s.nlink, !.addr[s.inum] = s.addr]

\* The data block of an inode: found in the bitmap by bmap if the inode has none
\* and one is free, given back by itrunc.
balloc(fs) == [fs EXCEPT !.used = @ + 1]
bfree(fs, s) == [fs EXCEPT !.used = @ - s.addr]
bmap_fails(s) == s.addr = 0 /\ cur.used = NBLOCKS
itrunc(s) == [s EXCEPT !.addr = 0]

\* The inode number a name leads to, 0 for none, and the directory with the name.
dirlookup(n) == cur.entry[n]
dirlink(fs, n, i) == [fs EXCEPT !.entry[n] = i]

\* The holder p of its inode stores s there and in the disk inode, unlocks it
\* and goes on at l.
UpdateUnlock(p, s, fs, l) ==
  /\ itable' = [itable EXCEPT ![ip[p]] = [s EXCEPT !.lock = NoProc]]
  /\ cur' = iupdate(fs, s)
  /\ GoTo(p, l)

\* One reference less.  When it was the last, the slot is recycled: its number
\* and what it held of the inode, which iget replaces, are forgotten here.
Drop(s) == IF s.ref = 1 THEN [NoInode EXCEPT !.valid = s.valid] ELSE [s EXCEPT !.ref = @ - 1]

\* iput's test, under itable.lock.  Its acquiresleep must not sleep there.
iput_Unlinked(p) ==
  LET s == itable[ip[p]] IN
  /\ pc[p] = "iput"
  /\ IF s.lock = NoProc /\ s.valid = 1 /\ s.nlink = 0
     THEN /\ itable' = [itable EXCEPT ![ip[p]].lock = p]
          /\ GoTo(p, "itrunc") /\ UNCHANGED ip
     ELSE /\ itable' = [itable EXCEPT ![ip[p]] = Drop(@)]
          /\ ip' = [ip EXCEPT ![p] = 0]
          /\ GoTo(p, "end_op")
  /\ UNCHANGED <<disk, cur, dlock, op, file, outstanding, up, panic>>
iput(p) ==
  LET s == itable[ip[p]] IN
  /\ pc[p] = "iput"
  /\ IF s.ref = 1 /\ s.valid = 1 /\ s.nlink = 0
     THEN IF s.lock # NoProc
          THEN panic' = "sched locks" /\ UNCHANGED <<itable, pc, ip>>
          ELSE /\ itable' = [itable EXCEPT ![ip[p]].lock = p]
               /\ GoTo(p, "itrunc") /\ UNCHANGED <<ip, panic>>
     ELSE /\ itable' = [itable EXCEPT ![ip[p]] = Drop(@)]
          /\ ip' = [ip EXCEPT ![p] = 0]
          /\ GoTo(p, "end_op") /\ UNCHANGED panic
  /\ UNCHANGED <<disk, cur, dlock, op, file, outstanding, up>>

\* ... then, without itable.lock, the content and the inode are freed ...
iput_free(p) ==
  LET s == itable[ip[p]] IN
  /\ pc[p] = "itrunc"
  /\ itable' = [itable EXCEPT ![ip[p]] = [itrunc(s) EXCEPT !.type = 0]]
  /\ cur' = iupdate(bfree(cur, s), [itrunc(s) EXCEPT !.type = 0])
  /\ GoTo(p, "invalid")
  /\ UNCHANGED <<disk, dlock, op, ip, file, outstanding, up, panic>>

\* ... the slot is marked invalid and unlocked ...
iput_unlock(p) ==
  /\ pc[p] = "invalid"
  /\ itable' = [itable EXCEPT ![ip[p]].valid = 0, ![ip[p]].lock = NoProc]
  /\ GoTo(p, "decref")
  /\ UNCHANGED <<disk, cur, dlock, op, ip, file, outstanding, up, panic>>

\* ... and the reference goes, under itable.lock again.
iput_decref(p) ==
  /\ pc[p] = "decref"
  /\ itable' = [itable EXCEPT ![ip[p]] = Drop(@)]
  /\ ip' = [ip EXCEPT ![p] = 0]
  /\ GoTo(p, "end_op")
  /\ UNCHANGED <<disk, cur, dlock, op, file, outstanding, up, panic>>

----------------------------------------------------------------------------
\* Transactions.

\* A system call's begin_op; its first lock is the directory's or the file's.
begin_op(p, o, l) ==
  /\ up = 1 /\ pc[p] = "user"
  /\ outstanding' = outstanding + 1
  /\ op' = [op EXCEPT ![p] = o]
  /\ GoTo(p, l)

\* end_op, after unlocking the directory if create failed with it locked.
\* The last operation to end commits all of them.
end_op_Early(p) ==
  /\ pc[p] = "end_op"
  /\ dlock' = IF dlock = p THEN NoProc ELSE dlock
  /\ outstanding' = outstanding - 1 /\ disk' = cur
  /\ op' = [op EXCEPT ![p] = NoOp] /\ GoTo(p, "user")
  /\ UNCHANGED <<cur, itable, ip, file, up, panic>>
end_op(p) ==
  /\ pc[p] = "end_op"
  /\ dlock' = IF dlock = p THEN NoProc ELSE dlock
  /\ outstanding' = outstanding - 1
  /\ disk' = IF outstanding = 1 THEN cur ELSE disk
  /\ op' = [op EXCEPT ![p] = NoOp] /\ GoTo(p, "user")
  /\ UNCHANGED <<cur, itable, ip, file, up, panic>>

----------------------------------------------------------------------------
\* open of an existing file, and the lookup that link begins with

sys_open(p, n) ==
  /\ file[p] = 0 /\ begin_op(p, [NoOp EXCEPT !.call = "open", !.name = n], "namei")
  /\ UNCHANGED <<disk, cur, itable, dlock, ip, file, up, panic>>

sys_link(p, n, m) ==
  /\ begin_op(p, [call |-> "link", name |-> n, to |-> m], "namei")
  /\ UNCHANGED <<disk, cur, itable, dlock, ip, file, up, panic>>

\* namei: the directory is locked only for the lookup.
namei(p) ==
  LET i == dirlookup(op[p].name) IN
  /\ pc[p] = "namei" /\ dlock = NoProc
  /\ IF i = 0 THEN GoTo(p, "end_op") /\ UNCHANGED <<itable, ip, panic>>
     ELSE iget(p, i) /\ GoTo(p, "ilock")
  /\ UNCHANGED <<disk, cur, dlock, op, file, outstanding, up>>

ilock_found(p) ==
  /\ pc[p] = "ilock" /\ ilock(p, op[p].call)
  /\ UNCHANGED <<disk, cur, dlock, op, ip, file, outstanding, up>>

\* The end of sys_open with the inode locked: filealloc and fdalloc succeed,
\* perhaps with O_TRUNC, or fail.
opened(p) ==
  LET s == itable[ip[p]] IN
  /\ pc[p] \in {"open", "opened"}
  /\ \/ /\ \/ UpdateUnlock(p, itrunc(s), bfree(cur, s), "end_op")
           \/ itable' = [itable EXCEPT ![ip[p]].lock = NoProc] /\ GoTo(p, "end_op") /\ UNCHANGED cur
        /\ file' = [file EXCEPT ![p] = ip[p]] /\ ip' = [ip EXCEPT ![p] = 0]
     \/ /\ itable' = [itable EXCEPT ![ip[p]].lock = NoProc] /\ GoTo(p, "iput")
        /\ UNCHANGED <<cur, ip, file>>
  /\ UNCHANGED <<disk, dlock, op, outstanding, up, panic>>

\* link: one more link, then the new name.
link_count_Locked(p) ==
  LET s == [itable[ip[p]] EXCEPT !.nlink = @ + 1] IN
  /\ pc[p] = "link"
  /\ itable' = [itable EXCEPT ![ip[p]] = s] /\ cur' = iupdate(cur, s) /\ GoTo(p, "dirlink")
  /\ UNCHANGED <<disk, dlock, op, ip, file, outstanding, up, panic>>
link_count_Late(p) ==
  /\ pc[p] = "link"
  /\ itable' = [itable EXCEPT ![ip[p]].lock = NoProc] /\ GoTo(p, "dirlink")
  /\ UNCHANGED <<disk, cur, dlock, op, ip, file, outstanding, up, panic>>
link_count(p) ==
  LET s == itable[ip[p]] IN
  /\ pc[p] = "link"
  /\ UpdateUnlock(p, [s EXCEPT !.nlink = @ + 1], cur, "dirlink")
  /\ UNCHANGED <<disk, dlock, op, ip, file, outstanding, up, panic>>

\* dirlink fails if the name exists or the directory cannot grow.  (The
\* reference its own lookup takes and drops is to an inode that has a name,
\* with the directory locked: no iput frees on its account.)
link_name(p) ==
  LET m == op[p].to IN
  /\ pc[p] = "dirlink" /\ dlock = NoProc
  /\ \/ /\ dirlookup(m) = 0
        /\ cur' = dirlink(cur, m, itable[ip[p]].inum) /\ GoTo(p, "iput")
     \/ GoTo(p, "relock") /\ UNCHANGED cur
  /\ UNCHANGED <<disk, itable, dlock, op, ip, file, outstanding, up, panic>>

\* The label bad of sys_link.
link_relock(p) ==
  /\ pc[p] = "relock" /\ ilock(p, "unlink_count")
  /\ UNCHANGED <<disk, cur, dlock, op, ip, file, outstanding, up>>

----------------------------------------------------------------------------
\* unlink

sys_unlink(p, n) ==
  /\ begin_op(p, [NoOp EXCEPT !.call = "unlink", !.name = n], "unlink_lookup")
  /\ UNCHANGED <<disk, cur, itable, dlock, ip, file, up, panic>>

\* The directory stays locked while the inode is looked up and locked.
unlink_lookup(p) ==
  LET i == dirlookup(op[p].name) IN
  /\ pc[p] = "unlink_lookup" /\ dlock = NoProc
  /\ IF i = 0 THEN GoTo(p, "end_op") /\ UNCHANGED <<itable, dlock, ip, panic>>
     ELSE iget(p, i) /\ dlock' = p /\ GoTo(p, "ilock")
  /\ UNCHANGED <<disk, cur, op, file, outstanding, up>>

unlink_entry(p) ==
  /\ pc[p] = "unlink"
  /\ IF itable[ip[p]].nlink < 1
     THEN panic' = "unlink: nlink < 1" /\ UNCHANGED <<cur, dlock, pc>>
     ELSE /\ cur' = dirlink(cur, op[p].name, 0)
          /\ dlock' = NoProc /\ GoTo(p, "unlink_count") /\ UNCHANGED panic
  /\ UNCHANGED <<disk, itable, op, ip, file, outstanding, up>>

\* One link less; also the end of link's failure.
unlink_count(p) ==
  LET s == itable[ip[p]] IN
  /\ pc[p] = "unlink_count"
  /\ UpdateUnlock(p, [s EXCEPT !.nlink = @ - 1], cur, "iput")
  /\ UNCHANGED <<disk, dlock, op, ip, file, outstanding, up, panic>>

----------------------------------------------------------------------------
\* open with O_CREATE

sys_create(p, n) ==
  /\ file[p] = 0 /\ begin_op(p, [NoOp EXCEPT !.call = "open", !.name = n], "create_lookup")
  /\ UNCHANGED <<disk, cur, itable, dlock, ip, file, up, panic>>

\* create opens the file if it exists.  Otherwise ialloc takes the first free
\* inode, if there is one, with the directory locked.
create_lookup(p) ==
  LET i    == dirlookup(op[p].name)
      none == {j \in Inums : cur.type[j] = 0}
  IN
  /\ pc[p] = "create_lookup" /\ dlock = NoProc
  /\ \/ i # 0 /\ iget(p, i) /\ GoTo(p, "ilock") /\ UNCHANGED <<cur, dlock>>
     \/ i = 0 /\ none = {} /\ GoTo(p, "end_op") /\ UNCHANGED <<cur, itable, ip, dlock, panic>>
     \/ /\ i = 0 /\ none # {}
        /\ cur' = [cur EXCEPT !.type[Min(none)] = 1, !.nlink[Min(none)] = 0, !.addr[Min(none)] = 0]
        /\ iget(p, Min(none)) /\ dlock' = p /\ GoTo(p, "create_ilock")
  /\ UNCHANGED <<disk, op, file, outstanding, up>>

create_ilock(p) ==
  /\ pc[p] = "create_ilock" /\ ilock(p, "create")
  /\ UNCHANGED <<disk, cur, dlock, op, ip, file, outstanding, up>>

\* The new inode gets its link and its name; if dirlink fails, create takes
\* the link back and drops the inode before it unlocks the directory.
create(p) ==
  LET s == [itable[ip[p]] EXCEPT !.nlink = 1] IN
  /\ pc[p] = "create"
  /\ \/ /\ itable' = [itable EXCEPT ![ip[p]] = s]
        /\ cur' = dirlink(iupdate(cur, s), op[p].name, s.inum)
        /\ dlock' = NoProc /\ GoTo(p, "opened")
     \/ UpdateUnlock(p, [s EXCEPT !.nlink = 0], cur, "iput") /\ UNCHANGED dlock
  /\ UNCHANGED <<disk, op, ip, file, outstanding, up, panic>>

----------------------------------------------------------------------------
\* write and close

sys_write(p) ==
  /\ file[p] # 0 /\ begin_op(p, [NoOp EXCEPT !.call = "write"], "ilock")
  /\ ip' = [ip EXCEPT ![p] = file[p]]
  /\ UNCHANGED <<disk, cur, itable, dlock, file, up, panic>>

\* writei writes the inode back whether or not bmap found it a block.
writei(p) ==
  LET s == itable[ip[p]] IN
  /\ pc[p] = "write"
  /\ IF s.addr = 0 /\ ~bmap_fails(s)
     THEN UpdateUnlock(p, [s EXCEPT !.addr = 1], balloc(cur), "end_op")
     ELSE UpdateUnlock(p, s, cur, "end_op")
  /\ ip' = [ip EXCEPT ![p] = 0]
  /\ UNCHANGED <<disk, dlock, op, file, outstanding, up, panic>>

\* fileclose of the last reference to the file.
fileclose(p) ==
  /\ file[p] # 0 /\ begin_op(p, [NoOp EXCEPT !.call = "close"], "iput")
  /\ ip' = [ip EXCEPT ![p] = file[p]] /\ file' = [file EXCEPT ![p] = 0]
  /\ UNCHANGED <<disk, cur, itable, dlock, up, panic>>

----------------------------------------------------------------------------
\* Crash and boot.

crash ==
  /\ up = 1 /\ up' = 0
  /\ cur' = disk /\ UNCHANGED <<disk, panic>>
  /\ itable' = [s \in Slots |-> NoInode] /\ dlock' = NoProc
  /\ op' = [p \in Procs |-> NoOp] /\ pc' = [p \in Procs |-> "user"]
  /\ ip' = [p \in Procs |-> 0] /\ file' = [p \in Procs |-> 0]
  /\ outstanding' = 0

\* ireclaim: an inode without links is freed by iput, in its own transaction.
ireclaim(i) ==
  /\ up = 0 /\ disk.type[i] # 0 /\ disk.nlink[i] = 0
  /\ cur' = [disk EXCEPT !.type[i] = 0, !.addr[i] = 0, !.used = @ - disk.addr[i]]
  /\ disk' = cur'
  /\ UNCHANGED <<itable, dlock, calls, ip, file, outstanding, up, panic>>

fsinit ==
  /\ up = 0 /\ \A i \in Inums : disk.type[i] # 0 => disk.nlink[i] # 0
  /\ up' = 1
  /\ UNCHANGED <<disk, cur, itable, dlock, calls, ip, file, outstanding, panic>>

Step(p) ==
  \/ namei(p) \/ ilock_found(p) \/ opened(p) \/ writei(p)
  \/ link_count(p) \/ link_name(p) \/ link_relock(p)
  \/ unlink_lookup(p) \/ unlink_entry(p) \/ unlink_count(p)
  \/ create_lookup(p) \/ create_ilock(p) \/ create(p)
  \/ iput(p) \/ iput_free(p) \/ iput_unlock(p) \/ iput_decref(p) \/ end_op(p)

Next ==
  /\ panic = "none"
  /\ \/ \E p \in Procs :
          \/ \E n \in Names : sys_open(p, n) \/ sys_create(p, n) \/ sys_unlink(p, n)
          \/ \E n, m \in Names : sys_link(p, n, m)
          \/ sys_write(p) \/ fileclose(p) \/ Step(p)
     \/ crash \/ fsinit \/ \E i \in Inums : ireclaim(i)

Spec == Init /\ [][Next]_vars

----------------------------------------------------------------------------
\* Properties.

\* The type of every variable.
TypeOK ==
  LET fs == [type : [Inums -> {0, 1}], nlink : [Inums -> 0..(Cardinality(Names) + Cardinality(Procs))],
             addr : [Inums -> {0, 1}], entry : [Names -> 0..NINUM], used : 0..NBLOCKS]
  IN
  /\ disk \in fs /\ cur \in fs
  /\ itable \in [Slots -> [inum : 0..NINUM, ref : Nat, valid : {0, 1}, type : {0, 1},
                           nlink : Nat, addr : {0, 1}, lock : Procs \cup {NoProc}]]
  /\ dlock \in Procs \cup {NoProc}
  /\ ip \in [Procs -> 0..NINODE] /\ file \in [Procs -> 0..NINODE]
  /\ outstanding = Cardinality({p \in Procs : pc[p] # "user"}) /\ up \in {0, 1}

\* No panic: an inode that was looked up is never freed before it is locked
\* ("ilock: no type"), no link count is too low, and iput's acquiresleep under
\* itable.lock finds the lock free.  (NINODE >= NINUM in the model, so that
\* iget finds a slot unless an inode has two.)
NoPanic == panic = "none"

\* What a process finds in a valid slot is what the disk inode says, also when
\* the inode was freed and allocated again in between.
CachedIsCurrent ==
  \A s \in Slots :
    LET n == itable[s] IN
    n.ref > 0 /\ n.valid = 1 /\ n.lock = NoProc =>
      n.type = cur.type[n.inum] /\ n.nlink = cur.nlink[n.inum] /\ n.addr = cur.addr[n.inum]

\* An open file keeps its inode and its contents, also after its last unlink.
OpenStays == \A p \in Procs : file[p] # 0 => cur.type[itable[file[p]].inum] = 1

\* At whatever moment the machine stops, the disk is a file system: names lead
\* to allocated inodes, every link count is the number of names, and the bitmap
\* has exactly the blocks of the inodes.
DiskConsistent ==
  /\ \A n \in Names : disk.entry[n] # 0 => disk.type[disk.entry[n]] = 1
  /\ \A i \in Inums : disk.type[i] = 1 =>
       disk.nlink[i] = Cardinality({n \in Names : disk.entry[n] = i})
  /\ disk.used = Cardinality({i \in Inums : disk.type[i] = 1 /\ disk.addr[i] = 1})

\* What the comment on iput() promises: the last reference to an inode without
\* links frees it.  With no system call running, then, an inode without names
\* is the inode of an open file.
NoOrphans ==
  (up = 1 /\ outstanding = 0) =>
    \A i \in Inums : cur.type[i] = 1 /\ cur.nlink[i] = 0 =>
      \E p \in Procs : file[p] # 0 /\ itable[file[p]].inum = i

\* The order directory, then inode, keeps the locks free of deadlock: while a
\* system call runs, some process in one can take a step.
NoLockCycle == (panic = "none" /\ outstanding > 0) => \E p \in Procs : ENABLED Step(p)
=============================================================================

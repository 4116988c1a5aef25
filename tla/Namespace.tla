----------------------------- MODULE Namespace -----------------------------
(***************************************************************************)
(* The directory operations (enclave/ecalls/dirs.c) over the dirnodes, the *)
(* hardlink table (enclave/hardlink_table.c) and the files of the volume,  *)
(* run by several clients on one datastore.                                *)
(*                                                                         *)
(* An operation changes dirnodes in the client's memory and then stores    *)
(* them one after the other; it holds the file lock of a dirnode from the  *)
(* moment it gets it for writing until it is stored.  The hardlink table   *)
(* is changed and flushed under its own lock, with nothing waited for in   *)
(* between: one step.  Each open, write, close or deletion of a datastore  *)
(* file may fail, and a client may die between any two steps.              *)
(*                                                                         *)
(* A client that has a cached copy looks at the time of the file before it *)
(* waits for the file's lock, and not again after it: what it goes on with *)
(* is the copy from before the wait.  A dirnode is read and written as a   *)
(* whole (Dirnode has its buckets), and the look itself notices every      *)
(* store (Metadata has the cases where it does not).                       *)
(***************************************************************************)
EXTENDS Integers, FiniteSets

CONSTANTS Clients, Dirs, Names,
          Kinds,     \* the kinds of operations the clients start
          MaxUuid,     \* bound on the files a behaviour creates
          MaxLinks,    \* bound on the link counts hardlinks start from
          MaxFailures  \* bound on the failures, crashes and waits of a behaviour

ASSUME SetsAssumption  == /\ IsFiniteSet(Clients) /\ IsFiniteSet(Dirs) /\ IsFiniteSet(Names)
                          /\ "free" \notin Clients /\ "none" \notin Dirs
ASSUME KindsAssumption == Kinds \subseteq {"create", "mkdir", "symlink", "remove", "hardlink", "rename"}
ASSUME BoundsAssumption == MaxUuid \in Nat /\ MaxLinks \in Nat /\ MaxFailures \in Nat

VARIABLES disk,        \* the stored dirnodes
          unsaved,     \* a client's cached dirnode that differs from the stored one, or NoDirnode
          table,       \* the stored hardlink table: UUID -> link count, 0 when it has no entry
          deferred,    \* a client's table that its buffer layer keeps from the datastore, or NoTable
          leaked,      \* clients whose buffer layer still counts the writer of a failed flush
          table_lock,  \* the client that keeps the file lock of the table
          files,       \* the UUIDs that have a file in the datastore
          lock,        \* the client that holds the file lock of a dirnode
          left,        \* how the lock of a dirnode was left behind by a failed rename
          hand,        \* the copy of a dirnode with which a client waits for its lock
          op,          \* the operation of each client
          next_uuid,   \* UUIDs generated so far
          failures,    \* failures, crashes and waits with a copy so far
          interrupted  \* history: UUIDs an unfinished operation was working on, or
                       \* that differ in a copy from before a wait

tables == <<table, deferred, leaked, table_lock>>
locks  == <<lock, left, hand>>
vars   == <<disk, unsaved, tables, files, locks, op, next_uuid, failures, interrupted>>

Uuids     == 1 .. MaxUuid
NoEntry   == [uuid |-> 0, type |-> "none"]
NoTable   == [u \in {} |-> 0]
NoDirnode == [entries |-> [n \in {} |-> NoEntry], symlinks |-> [u \in Uuids |-> 0]]
Empty     == [entries |-> [n \in Names |-> NoEntry], symlinks |-> [u \in Uuids |-> 0]]
NoOp      == [kind |-> "none", pc |-> "idle", dir |-> "none", name |-> "none", dir2 |-> "none",
              name2 |-> "none", uuid |-> 0, work |-> Empty, work2 |-> Empty,
              fresh |-> TRUE, overwritten |-> NoEntry, dirty |-> FALSE, table |-> NoTable]
NoHand    == [dir |-> "none", copy |-> Empty, dirty |-> FALSE]
-----------------------------------------------------------------------------
(* Dirnodes in memory.                                                     *)

Cached(c, d) == IF unsaved[c][d] = NoDirnode THEN disk[d] ELSE unsaved[c][d]

(* What the client works on when it has the lock, whether it has changes   *)
(* that are not stored, and the files in whose entries it is mistaken.     *)
Copy(c, d)   == IF hand[c].dir = d THEN hand[c].copy ELSE Cached(c, d)
Dirty(c, d)  == IF hand[c].dir = d THEN hand[c].dirty ELSE unsaved[c][d] # NoDirnode
Differ(c, d) ==
    {u \in Uuids : \E n \in Names : /\ Copy(c, d).entries[n] # Cached(c, d).entries[n]
                                   /\ u \in {Copy(c, d).entries[n].uuid, Cached(c, d).entries[n].uuid}}

Has(dn, n)     == dn.entries[n] # NoEntry
dirnode_add(dn, n, entry) == [dn EXCEPT !.entries[n] = entry]
clobber(dn, n) == [dn EXCEPT !.entries[n] = NoEntry]

(* __dirnode_add_symlink and __remove_symlink: the records of targets, a   *)
(* list in which a UUID may be more than once.                             *)
WithSymlink(dn, u)    == [dn EXCEPT !.symlinks[u] = @ + 1]
WithoutSymlink(dn, u) == [dn EXCEPT !.symlinks[u] = @ - 1]

\* Mutant: the target of a symbolic link stays in the old directory.
dirnode_rename_leave(from, to, n, m) ==
    [from |-> clobber(from, n), to |-> dirnode_add(to, m, from.entries[n])]

(* dirnode_rename between two directories: the record of a symbolic link   *)
(* follows its entry.                                                      *)
dirnode_rename(from, to, n, m) ==
    LET u == from.entries[n].uuid IN
    IF from.symlinks[u] > 0
    THEN [from |-> WithoutSymlink(clobber(from, n), u),
          to   |-> WithSymlink(dirnode_add(to, m, from.entries[n]), u)]
    ELSE [from |-> clobber(from, n), to |-> dirnode_add(to, m, from.entries[n])]

(* dirnode_rename within one directory.                                    *)
RenameWithin(dn, n, m) == dirnode_add(clobber(dn, n), m, dn.entries[n])

(* hardlink_table_incr_uuid: a file that is not in the table has one link. *)
\* Mutant: the link the file had before is not counted.
hardlink_table_incr_uuid_one(t, u) == [t EXCEPT ![u] = @ + 1]

hardlink_table_incr_uuid(t, u) == [t EXCEPT ![u] = IF @ = 0 THEN 2 ELSE @ + 1]

(* hardlink_table_decr_uuid: a file with one link leaves the table.        *)
hardlink_table_decr_uuid(t, u) == [t EXCEPT ![u] = IF @ - 1 < 2 THEN 0 ELSE @ - 1]

(* nexus_vfs_acquire_hardlink_table, and the release of what was acquired. *)
(* Nobody unlocks the table after a flush that failed: its writer stays    *)
(* counted, so that from the next use on the client never gives back the   *)
(* file lock and all its flushes are left to a later one.                  *)
Table(c)     == IF deferred[c] = NoTable THEN table ELSE deferred[c]
TableCopy(c) == IF op[c].table = NoTable THEN Table(c) ELSE op[c].table
Miscounted(c) == {u \in Uuids : TableCopy(c)[u] # Table(c)[u]}

acquire_hardlink_table(c) ==
    /\ table_lock \in {"free", c}
    /\ table_lock' = IF c \in leaked THEN c ELSE "free"

flush_hardlink_table(c, t) ==
    /\ IF c \in leaked THEN deferred' = [deferred EXCEPT ![c] = t] /\ UNCHANGED table
       ELSE table' = t /\ UNCHANGED deferred
    /\ UNCHANGED leaked

\* the file cannot be written or closed, before or after the write took effect
FlushFails(c, t) ==
    /\ c \notin leaked
    /\ table' \in {table, t} /\ leaked' = leaked \union {c}
    /\ UNCHANGED deferred
-----------------------------------------------------------------------------
Init ==
    /\ disk = [d \in Dirs |-> Empty]
    /\ unsaved = [c \in Clients |-> [d \in Dirs |-> NoDirnode]]
    /\ table = [u \in Uuids |-> 0] /\ deferred = [c \in Clients |-> NoTable]
    /\ leaked = {} /\ table_lock = "free"
    /\ files = {}
    /\ lock = [d \in Dirs |-> "free"] /\ left = [d \in Dirs |-> "no"]
    /\ hand = [c \in Clients |-> NoHand]
    /\ op = [c \in Clients |-> NoOp]
    /\ next_uuid = 0 /\ failures = 0
    /\ interrupted = {}

Idle(c) == op[c].pc = "idle"

Fail == failures < MaxFailures /\ failures' = failures + 1

(* nexus_metadata_revalidate: the client looks at its cached copy of d and *)
(* waits for the lock, which another client holds.  (When nobody holds it, *)
(* nothing comes between the look and the lock.)                           *)
Wait(c, d) ==
    /\ Idle(c) \/ (op[c].pc = "lock2" /\ op[c].dir2 = d)
    /\ hand[c] = NoHand /\ lock[d] \notin {"free", c} /\ Fail
    /\ hand' = [hand EXCEPT ![c] = [dir |-> d, copy |-> Cached(c, d), dirty |-> Dirty(c, d)]]
    /\ UNCHANGED <<disk, unsaved, tables, files, lock, left, op, next_uuid, interrupted>>

WaitForTable(c) ==
    /\ op[c].pc = "table" /\ op[c].table = NoTable /\ c \notin leaked
    /\ \E k \in Clients \ {c} : op[k].pc = "table"
    /\ Fail
    /\ op' = [op EXCEPT ![c].table = Table(c)]
    /\ UNCHANGED <<disk, unsaved, tables, files, locks, next_uuid, interrupted>>

(* The lock is there, or is still the client's own: buffer_layer_lock then *)
(* counts one writer more.                                                 *)
Lockable(c, d) == /\ hand[c].dir \in {"none", d}
                  /\ lock[d] = "free" \/ (lock[d] = c /\ left[d] \in {"held", "counted"})
Counted(c, d)  == [left EXCEPT ![d] = IF lock[d] = c THEN "counted" ELSE @]

Acquire(c, d) ==
    /\ Lockable(c, d)
    /\ lock' = [lock EXCEPT ![d] = c]
    /\ hand' = [hand EXCEPT ![c] = NoHand]
    /\ interrupted' = interrupted \union Differ(c, d)

(* The operation ends, well or not: nexus_vfs_put gives back its locks.    *)
Released(c) == [d \in Dirs |-> IF lock[d] = c /\ left[d] = "no" THEN "free" ELSE lock[d]]
EndOp(c)    == op' = [op EXCEPT ![c] = NoOp] /\ lock' = Released(c) /\ UNCHANGED <<left, hand>>

(* A client that waited has nothing to do: the name is not there.          *)
Refused(c) ==
    /\ Idle(c) /\ hand[c] # NoHand /\ Lockable(c, hand[c].dir)
    /\ hand' = [hand EXCEPT ![c] = NoHand]
    /\ UNCHANGED <<disk, unsaved, tables, files, lock, left, op, next_uuid, failures, interrupted>>

(* buffer_layer_new and dirnode_add or dirnode_add_link.                   *)
New(c, kind, type, d, n) ==
    LET u == next_uuid + 1 IN
    /\ kind \in Kinds /\ Idle(c) /\ u <= MaxUuid
    /\ next_uuid' = u
    /\ files' = files \union {u}
    /\ \/ /\ Has(Copy(c, d), n) /\ Lockable(c, d)
          /\ hand' = [hand EXCEPT ![c] = NoHand]
          /\ UNCHANGED <<op, lock, interrupted>>
       \/ /\ ~Has(Copy(c, d), n) /\ Acquire(c, d)
          /\ LET dn == dirnode_add(Copy(c, d), n, [uuid |-> u, type |-> type]) IN
             op' = [op EXCEPT ![c] = [NoOp EXCEPT !.pc = "store", !.dir = d,
                       !.work = IF type = "LNK" THEN WithSymlink(dn, u) ELSE dn]]
    /\ left' = Counted(c, d)
    /\ UNCHANGED <<disk, unsaved, tables, failures>>

ecall_fs_create(c, d, n)  == New(c, "create", "REG", d, n) \/ New(c, "mkdir", "DIR", d, n)
ecall_fs_symlink(c, d, n) == New(c, "symlink", "LNK", d, n)

(* nexus_vfs_delete: nobody looks whether the deletion succeeded.          *)
nexus_vfs_delete(u) == files' = files \ {u} \/ UNCHANGED files

(* ecall_fs_remove up to the point where the hardlink table is needed: a   *)
(* directory's file is deleted, a symbolic link has only its entry.        *)
ecall_fs_remove(c, d, n) ==
    LET dn == Copy(c, d)
        e  == dn.entries[n]
    IN
    /\ "remove" \in Kinds /\ Idle(c) /\ Acquire(c, d) /\ Has(dn, n)
    /\ op' = [op EXCEPT ![c] = [NoOp EXCEPT !.kind = "remove", !.dir = d, !.uuid = e.uuid,
                                   !.pc = IF e.type = "REG" THEN "table" ELSE "store",
                                   !.work = clobber(dn, n)]]
    /\ IF e.type = "DIR" THEN nexus_vfs_delete(e.uuid) ELSE UNCHANGED files
    /\ left' = Counted(c, d)
    /\ UNCHANGED <<disk, unsaved, tables, next_uuid, failures>>

(* __remove_filenode: the last link takes the file with it, every other    *)
(* one is counted off in the table, which is flushed at once.              *)
\* Mutant: the file goes with every link.
remove_filenode_always(c) ==
    LET u == op[c].uuid IN
    /\ op[c].kind = "remove" /\ op[c].pc = "table" /\ acquire_hardlink_table(c)
    /\ files' = files \ {u} /\ UNCHANGED <<table, deferred, leaked>>
    /\ op' = [op EXCEPT ![c].pc = "store", ![c].table = NoTable]
    /\ UNCHANGED <<disk, unsaved, locks, next_uuid, failures, interrupted>>

remove_filenode(c) ==
    LET u == op[c].uuid
        t == hardlink_table_decr_uuid(TableCopy(c), u)
    IN
    /\ op[c].kind = "remove" /\ op[c].pc = "table"
    /\ \/ /\ acquire_hardlink_table(c)
          /\ \/ TableCopy(c)[u] = 0 /\ nexus_vfs_delete(u) /\ UNCHANGED <<table, deferred, leaked>>
             \/ TableCopy(c)[u] > 0 /\ flush_hardlink_table(c, t) /\ UNCHANGED files
          /\ interrupted' = interrupted \union Miscounted(c)
          /\ op' = [op EXCEPT ![c].pc = "store", ![c].table = NoTable]
          /\ UNCHANGED <<locks, failures>>
       \/ /\ acquire_hardlink_table(c) /\ TableCopy(c)[u] > 0 /\ FlushFails(c, t)
          /\ interrupted' = interrupted \union (IF table' # table THEN {u} \union Miscounted(c) ELSE {})
          /\ Fail /\ EndOp(c) /\ UNCHANGED files
       \/ \* the table cannot be opened
          /\ table_lock = "free" /\ Fail /\ EndOp(c) /\ UNCHANGED <<tables, files, interrupted>>
    /\ UNCHANGED <<disk, unsaved, next_uuid>>

(* ecall_fs_hardlink of d/n to the file e/m: only the directory of the     *)
(* target is locked, that of the new link is read (and given back at the   *)
(* end, when it was left locked before).                                   *)
ecall_fs_hardlink(c, d, n, e, m) ==
    LET target == Copy(c, e).entries[m] IN
    /\ "hardlink" \in Kinds /\ Idle(c) /\ Acquire(c, e) /\ target.type = "REG"
    /\ Table(c)[target.uuid] < MaxLinks
    /\ op' = [op EXCEPT ![c] = [NoOp EXCEPT !.kind = "hardlink", !.pc = "table", !.uuid = target.uuid,
                                   !.dir = d, !.name = n, !.dir2 = e, !.work = Copy(c, d),
                                   !.work2 = Copy(c, e), !.dirty = Dirty(c, e)]]
    /\ left' = [Counted(c, e) EXCEPT ![d] = IF d # e /\ lock[d] = c /\ @ = "held" THEN "no" ELSE @]
    /\ UNCHANGED <<disk, unsaved, tables, files, next_uuid, failures>>

(* __nxs_fs_hardlink: the table is flushed before the entry is added.  The *)
(* dirnode that is stored is that of the target.                           *)
nxs_fs_hardlink(c) ==
    LET o  == op[c]
        t  == hardlink_table_incr_uuid(TableCopy(c), o.uuid)
        dn == dirnode_add(o.work, o.name, [uuid |-> o.uuid, type |-> "REG"])
    IN
    /\ o.kind = "hardlink" /\ o.pc = "table"
    /\ \/ /\ acquire_hardlink_table(c) /\ flush_hardlink_table(c, t)
          /\ \/ Has(o.work, o.name) /\ EndOp(c) /\ UNCHANGED unsaved
             \/ /\ ~Has(o.work, o.name) /\ o.dir = o.dir2
                /\ op' = [op EXCEPT ![c] = [NoOp EXCEPT !.pc = "store", !.dir = o.dir, !.work = dn]]
                /\ UNCHANGED <<locks, unsaved>>
             \/ /\ ~Has(o.work, o.name) /\ o.dir # o.dir2
                /\ unsaved' = IF o.fresh THEN [unsaved EXCEPT ![c][o.dir] = dn] ELSE unsaved
                /\ IF ~o.dirty THEN EndOp(c)
                   ELSE /\ op' = [op EXCEPT ![c] = [NoOp EXCEPT !.pc = "store", !.dir = o.dir2,
                                                                 !.work = o.work2]]
                        /\ UNCHANGED locks
          /\ interrupted' = interrupted \union Miscounted(c)
          /\ UNCHANGED failures
       \/ /\ acquire_hardlink_table(c) /\ FlushFails(c, t) /\ Fail /\ EndOp(c) /\ UNCHANGED unsaved
          /\ interrupted' = interrupted \union (IF table' # table THEN Miscounted(c) ELSE {})
       \/ table_lock = "free" /\ Fail /\ EndOp(c) /\ UNCHANGED <<tables, unsaved, interrupted>>
    /\ UNCHANGED <<disk, files, next_uuid>>

(* ecall_fs_rename of d/n to e/m.  Between two directories the lock of the *)
(* second is taken while the first is held.                                *)
ecall_fs_rename(c, d, n, e, m) ==
    LET dn == Copy(c, d) IN
    /\ "rename" \in Kinds /\ Idle(c) /\ <<d, n>> # <<e, m>> /\ Acquire(c, d) /\ Has(dn, n)
    /\ LET o == [NoOp EXCEPT !.kind = "rename", !.dir = d, !.uuid = dn.entries[n].uuid] IN
       op' = [op EXCEPT ![c] =
                 IF d = e THEN [o EXCEPT !.pc = "store", !.work = RenameWithin(dn, n, m),
                                         !.overwritten = dn.entries[m]]
                 ELSE [o EXCEPT !.pc = "lock2", !.work = dn, !.name = n, !.dir2 = e, !.name2 = m]]
    /\ left' = Counted(c, d)
    /\ UNCHANGED <<disk, unsaved, tables, files, next_uuid, failures>>

(* The source of a rename into e cannot be read: the rename fails, and     *)
(* nobody puts back the destination, which it got nevertheless.  A client  *)
(* that waited for it with an old copy cannot use it any more.             *)
RenameFails(c, e) ==
    /\ "rename" \in Kinds /\ Idle(c) /\ Lockable(c, e) /\ Fail
    /\ lock' = [lock EXCEPT ![e] = c]
    /\ left' = [left EXCEPT ![e] = IF Copy(c, e) # Cached(c, e) THEN "lost"
                                   ELSE IF lock[e] = c THEN "counted" ELSE "held"]
    /\ hand' = [hand EXCEPT ![c] = NoHand]
    /\ UNCHANGED <<disk, unsaved, tables, files, op, next_uuid, interrupted>>

(* A lookup finds the dirnode locked and gives the lock back.              *)
Lookup(c, d) ==
    /\ Idle(c) /\ hand[c] = NoHand /\ lock[d] = c /\ left[d] = "held"
    /\ lock' = [lock EXCEPT ![d] = "free"] /\ left' = [left EXCEPT ![d] = "no"]
    /\ UNCHANGED <<disk, unsaved, tables, files, hand, op, next_uuid, failures, interrupted>>

(* The entry that is overwritten leaves its dirnode and nothing else       *)
(* happens to it: tmp_type stays 0.                                        *)
RenameAcross(c) ==
    LET o == op[c]
        r == dirnode_rename(o.work, Copy(c, o.dir2), o.name, o.name2)
    IN
    /\ o.pc = "lock2"
    /\ \/ /\ Acquire(c, o.dir2)
          /\ op' = [op EXCEPT ![c] = [o EXCEPT !.pc = "store", !.work = r.from, !.work2 = r.to,
                                               !.name = "none", !.name2 = "none",
                                               !.overwritten = Copy(c, o.dir2).entries[o.name2]]]
          /\ left' = Counted(c, o.dir2) /\ UNCHANGED failures
       \/ \* to_metadata is NULL
          /\ Fail /\ op' = [op EXCEPT ![c] = NoOp] /\ lock' = Released(c)
          /\ hand' = [hand EXCEPT ![c] = NoHand] /\ UNCHANGED <<left, interrupted>>
    /\ UNCHANGED <<disk, unsaved, tables, files, next_uuid>>
-----------------------------------------------------------------------------
(* nexus_metadata_store of the dirnode dn of d: the caches of the other    *)
(* clients are stale from now on.                                          *)
\* Mutant: the other clients go on with their copies.
Publish_unnoticed(c, d, dn) ==
    /\ disk' = [disk EXCEPT ![d] = dn]
    /\ unsaved' = [unsaved EXCEPT ![c][d] = NoDirnode]

Publish(c, d, dn) ==
    /\ disk' = [disk EXCEPT ![d] = dn]
    /\ unsaved' = [k \in Clients |-> [unsaved[k] EXCEPT ![d] = NoDirnode]]

(* The copy of d that a hardlink of another client works on is stale, too. *)
Stale(k, d) == [op[k] EXCEPT !.fresh = @ /\ ~(op[k].kind = "hardlink" /\ op[k].dir = d)]

(* The store of a dirnode whose lock was left behind is put off: another   *)
(* writer is still counted (buffer_layer_put).                             *)
Defer(c, d, dn) ==
    /\ unsaved' = [unsaved EXCEPT ![c][d] = dn]
    /\ interrupted' = interrupted \union
          (IF op[c].kind \in {"remove", "rename"} THEN {op[c].uuid, op[c].overwritten.uuid} \ {0} ELSE {})
    /\ UNCHANGED disk

(* The dirnode d is stored and unlocked, and the operation is then at o.   *)
Store(c, d, dn, o) ==
    \/ /\ left[d] = "no"
       /\ Publish(c, d, dn) /\ UNCHANGED interrupted
       /\ op' = [k \in Clients |-> IF k = c THEN o ELSE Stale(k, d)]
       /\ lock' = IF o = NoOp THEN Released(c) ELSE [lock EXCEPT ![d] = "free"]
    \/ /\ left[d] # "no"
       /\ Defer(c, d, dn)
       /\ op' = [op EXCEPT ![c] = o]
       /\ lock' = IF o = NoOp THEN Released(c) ELSE lock

StoreFirst(c) ==
    LET o == op[c] IN
    /\ o.pc = "store"
    /\ Store(c, o.dir, o.work, IF o.dir2 = "none" THEN NoOp
                               ELSE [o EXCEPT !.pc = "store2", !.dir = "none", !.work = Empty])
    /\ UNCHANGED <<left, hand, tables, files, next_uuid, failures>>

\* Mutant: nobody puts back the destination of a rename.
StoreSecond_locked(c) ==
    LET o == op[c] IN
    /\ o.pc = "store2" /\ left[o.dir2] = "no"
    /\ Publish(c, o.dir2, o.work2)
    /\ op' = [k \in Clients |-> IF k = c THEN NoOp ELSE Stale(k, o.dir2)]
    /\ UNCHANGED <<locks, tables, files, next_uuid, failures, interrupted>>

StoreSecond(c) ==
    LET o == op[c] IN
    /\ o.pc = "store2"
    /\ Store(c, o.dir2, o.work2, NoOp)
    /\ UNCHANGED <<left, hand, tables, files, next_uuid, failures>>

(* A store fails, before or after the file was written.  The dirnode is    *)
(* reloaded before its next use; the destination of a rename, which was    *)
(* not stored, keeps its change in memory.                                 *)
StoreFails(c) ==
    LET o    == op[c]
        d    == IF o.pc = "store" THEN o.dir ELSE o.dir2
        dn   == IF o.pc = "store" THEN o.work ELSE o.work2
        rest == o.pc = "store" /\ o.dir2 # "none"
        kept == [unsaved EXCEPT ![c] = [x \in Dirs |-> IF x = d THEN NoDirnode
                                                       ELSE IF rest /\ x = o.dir2 THEN o.work2 ELSE @[x]]]
    IN
    /\ o.pc \in {"store", "store2"} /\ left[d] = "no" /\ Fail
    /\ \/ UNCHANGED disk /\ unsaved' = kept /\ op' = [op EXCEPT ![c] = NoOp]
       \/ /\ disk' = [disk EXCEPT ![d] = dn]
          /\ unsaved' = [k \in Clients |-> IF k = c THEN kept[c] ELSE [kept[k] EXCEPT ![d] = NoDirnode]]
          /\ op' = [k \in Clients |-> IF k = c THEN NoOp ELSE Stale(k, d)]
    /\ lock' = Released(c)
    /\ interrupted' = interrupted \union (IF o.kind = "remove" \/ rest THEN {o.uuid} ELSE {})
                                   \union (IF rest THEN {o.overwritten.uuid} \ {0} ELSE {})
    /\ UNCHANGED <<left, hand, tables, files, next_uuid>>

(* The client dies: its memory is lost and the kernel drops its locks.     *)
Crash(c) ==
    /\ Fail
    /\ op' = [op EXCEPT ![c] = NoOp] /\ hand' = [hand EXCEPT ![c] = NoHand]
    /\ lock' = [d \in Dirs |-> IF lock[d] = c THEN "free" ELSE lock[d]]
    /\ left' = [d \in Dirs |-> IF lock[d] = c THEN "no" ELSE left[d]]
    /\ unsaved' = [unsaved EXCEPT ![c] = [d \in Dirs |-> NoDirnode]]
    /\ deferred' = [deferred EXCEPT ![c] = NoTable] /\ leaked' = leaked \ {c}
    /\ table_lock' = IF table_lock = c THEN "free" ELSE table_lock
    /\ interrupted' = interrupted \union (IF op[c].kind = "remove" THEN {op[c].uuid} ELSE {})
                                   \union {u \in Uuids : Table(c)[u] # table[u]}
    /\ UNCHANGED <<disk, table, files, next_uuid>>

(* The LRU list of metadata objects drops a dirnode, stored or not.  When  *)
(* it is locked, the client cannot get it any more: it would wait for its  *)
(* own file.                                                               *)
Evict(c, d) ==
    /\ Idle(c) /\ hand[c] = NoHand /\ (unsaved[c][d] # NoDirnode \/ lock[d] = c)
    /\ unsaved' = [unsaved EXCEPT ![c][d] = NoDirnode]
    /\ left' = [left EXCEPT ![d] = IF lock[d] = c THEN "lost" ELSE @]
    /\ UNCHANGED <<disk, tables, files, lock, hand, op, next_uuid, failures, interrupted>>

Step(c) == remove_filenode(c) \/ nxs_fs_hardlink(c) \/ RenameAcross(c)
           \/ StoreFirst(c) \/ StoreSecond(c) \/ StoreFails(c)

Next == \E c \in Clients :
            \/ Step(c)
            \/ Crash(c)
            \/ WaitForTable(c)
            \/ Refused(c)
            \/ \E d \in Dirs : Evict(c, d) \/ Wait(c, d) \/ RenameFails(c, d) \/ Lookup(c, d)
            \/ \E d \in Dirs, n \in Names :
                  \/ ecall_fs_create(c, d, n)
                  \/ ecall_fs_symlink(c, d, n)
                  \/ ecall_fs_remove(c, d, n)
                  \/ \E e \in Dirs, m \in Names :
                        ecall_fs_hardlink(c, d, n, e, m) \/ ecall_fs_rename(c, d, n, e, m)

Spec == Init /\ [][Next]_vars

(* A client that began an operation goes on with it, and the kernel hands  *)
(* a file lock to the waiting clients in turn; nothing makes a client      *)
(* begin another operation, or die.                                        *)
FairSpec == Spec /\ \A c \in Clients : WF_vars(Step(c)) /\ SF_vars(RenameAcross(c))
-----------------------------------------------------------------------------
Entry   == [uuid : Uuids \union {0}, type : {"REG", "DIR", "LNK", "none"}]
Dirnode == [entries : [Names -> Entry], symlinks : [Uuids -> Nat]]

(* Types of the dirnodes, the table and the operations; a link count, once *)
(* in the table, is at least two.                                          *)
TypeOK ==
    /\ disk \in [Dirs -> Dirnode]
    /\ unsaved \in [Clients -> [Dirs -> Dirnode \union {NoDirnode}]]
    /\ table \in [Uuids -> Nat \ {1}]
    /\ deferred \in [Clients -> [Uuids -> Nat \ {1}] \union {NoTable}]
    /\ leaked \subseteq Clients /\ table_lock \in leaked \union {"free"}
    /\ files \subseteq Uuids /\ interrupted \subseteq Uuids
    /\ lock \in [Dirs -> Clients \union {"free"}]
    /\ left \in [Dirs -> {"no", "held", "counted", "lost"}]
    /\ hand \in [Clients -> [dir : Dirs \union {"none"}, copy : Dirnode, dirty : BOOLEAN]]
    /\ \A c \in Clients : /\ op[c].pc \in {"idle", "table", "lock2", "store", "store2"}
                          /\ op[c].work \in Dirnode /\ op[c].work2 \in Dirnode
    /\ next_uuid \in 0 .. MaxUuid /\ failures \in 0 .. MaxFailures

StoredEntries(dsk) == {dsk[d].entries[n] : d \in Dirs, n \in Names} \ {NoEntry}

BeingRemoved == {op[c].uuid : c \in {c \in Clients : op[c].kind = "remove"}}

(* The link counts of the table, the deletions and the entries in all the  *)
(* directories fit together, whatever hardlinks, renames, removals and     *)
(* failures of two clients came in which order: a stored entry of a file   *)
(* or directory has its file.  The exceptions are a file whose removal is  *)
(* under way or was interrupted (the file goes first, the entry later),    *)
(* one whose rename failed at its first store (the entry may end up in     *)
(* both directories), one whose count a client took to its grave after a   *)
(* flush of the table had failed, one whose entry or count was changed by  *)
(* another client while this one waited for the lock with a copy, and one  *)
(* whose removal or rename was put off because the lock of its directory   *)
(* was left behind.                                                        *)
EntriesHaveFiles ==
    \A e \in StoredEntries(disk) :
        e.type \in {"REG", "DIR"} => e.uuid \in files \union interrupted \union BeingRemoved

(* Every stored entry of a symbolic link can be read: its target is in the *)
(* same stored dirnode, also after renames between directories that were   *)
(* cut short.                                                              *)
SymlinksHaveTargets ==
    \A d \in Dirs, n \in Names :
        disk[d].entries[n].type = "LNK" => disk[d].symlinks[disk[d].entries[n].uuid] > 0

(* No operation of one client undoes what another one stored: an entry     *)
(* disappears from the directories only when a running operation removes   *)
(* or overwrites it, or is moving it, when a rename of or over it has      *)
(* failed or was put off before, or when it was stored while a client      *)
(* waited for the lock with its copy from before (metadata.c:363-370).     *)
EntriesSurvive ==
    [][\A e \in StoredEntries(disk) :
          \/ \E f \in StoredEntries(disk') : f.uuid = e.uuid
          \/ e.uuid \in interrupted
          \/ \E c \in Clients : \/ op[c].kind \in {"remove", "rename"} /\ op[c].uuid = e.uuid
                                \/ op[c].kind = "rename" /\ op[c].overwritten = e]_vars

(* Renames between directories that wait for each other in a ring: each    *)
(* client holds the directory that the next one wants.                     *)
RingOfRenames ==
    \E ring \in SUBSET Clients \ {{}} :
        \A c \in ring : op[c].pc = "lock2" /\ lock[op[c].dir2] \in ring

(* Operations end: no order in which the others take dirnodes and table    *)
(* makes clients wait for each other, except for renames in a ring, for a  *)
(* client that keeps the hardlink table after a flush has failed, and for  *)
(* a dirnode that a failed rename left locked.                             *)
OperationsEnd ==
    \A c \in Clients : ~Idle(c) ~> \/ Idle(c) \/ RingOfRenames \/ table_lock # "free"
                                   \/ \E d \in Dirs : left[d] # "no"
=============================================================================

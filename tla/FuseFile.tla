------------------------------ MODULE FuseFile ------------------------------
(***************************************************************************)
(* A regular file under the FUSE frontend: its inode and the chunks cached *)
(* in it (frontend_fuse/vfs.c, io.c), the handles it is open under, and    *)
(* the requests of the kernel that the threads of fuse_session_loop_mt     *)
(* serve (fuse_interface.c, frontend_handler.c).  Data is written into     *)
(* cached chunks; a flush or a release encrypts every cached chunk into    *)
(* the file of the volume, unless the file is open under another handle.   *)
(*                                                                         *)
(* The content is a byte per position; a byte is the number of the write   *)
(* it comes from.  A write is of one byte.  Handles are open O_RDWR and    *)
(* without O_APPEND.  The kernel serialises the writes, truncations, links *)
(* and unlinks of one inode; nothing else.  The inode stays in the cache:  *)
(* an open adds to lookup_count what no forget takes back.  An unlink      *)
(* takes the dentry from its inode, and whoever goes on with that dentry   *)
(* kills the daemon.  The file of the volume is what FileCrypto promises:  *)
(* a chunk that was encrypted and finished reads back.                     *)
(***************************************************************************)
EXTENDS Integers, Sequences, FiniteSets

CONSTANTS Threads,      \* threads of fuse_session_loop_mt
          Files,        \* struct my_file: the handles
          Names,        \* the names the file may have
          NoThread,     \* nobody holds a mutex
          ChunkSize,    \* NEXUS_CHUNK_SIZE
          MaxSize,      \* bound on the file size
          Sizes,        \* sizes of the file in the beginning and of truncations
          WriteOffsets, \* positions that are written
          ReadOffsets,  \* positions that are read
          MaxWrites,    \* bound on the writes
          MaxEvents     \* bound on the failures, truncations, links and unlinks

ASSUME ThreadsAssumption == IsFiniteSet(Threads) /\ NoThread \notin Threads
ASSUME FilesAssumption   == IsFiniteSet(Files) /\ IsFiniteSet(Names) /\ "closed" \notin Names
ASSUME SizesAssumption   == /\ ChunkSize \in Nat \ {0} /\ MaxSize \in Nat
                            /\ Sizes \subseteq 0 .. MaxSize
                            /\ WriteOffsets \union ReadOffsets \subseteq 0 .. MaxSize - 1
ASSUME BoundsAssumption  == MaxWrites \in Nat /\ MaxEvents \in Nat

VARIABLES inode,        \* struct my_inode
          file_chunks,  \* inode->file_chunks: the list of the cached chunks
          lock,         \* the holder of inode->lock
          leaked,       \* was __file_crypto_buffer_mutex__ left locked?
          files,        \* the name each handle was opened under; "closed"
          thread,       \* the request each thread serves
          disk,         \* the file of the volume: its size and its bytes
          names,        \* inode->dentry_list: the names of the file, oldest first
          detached,     \* the handles and threads whose dentry has no inode any more
          alive,        \* has the daemon not dereferenced such a dentry's inode?
          writes, events,
          latest,       \* history: the byte the last write put at each position
          spoiled,      \* history: positions that met a case in which a write gets lost
          outcome       \* history: how the last attempt to store the file ended

cache   == <<inode, file_chunks>>
mutexes == <<lock, leaked>>
volume  == <<disk, names>>
dentry  == <<detached, alive>>
bounds  == <<writes, events>>
history == <<latest, spoiled, outcome>>
vars    == <<cache, mutexes, files, thread, volume, dentry, bounds, history>>

Positions == 0 .. MaxSize - 1
Junk      == -1    \* a byte nobody wrote: a hole, uninitialised memory
Original  == 0     \* what the file held in the beginning
Closed    == "closed"

Idle == [op |-> "idle", at |-> "idle", file |-> "none", pos |-> 0, write |-> 0,
         chunk |-> 0, data |-> <<>>, size |-> 0]

NewInode == [filesize |-> 0, on_disk_size |-> 0, is_dirty |-> FALSE, is_deleted |-> FALSE,
             last_accessed |-> FALSE, link_count |-> 0, openers |-> 0]

Content(size) == [p \in Positions |-> IF p < size THEN Original ELSE Junk]

(* The inode of a lookup, or the one nxs_fuse_create leaves: the file is   *)
(* empty and open, and its attributes were not read.                       *)
Init ==
    /\ \E size \in Sizes, created \in SUBSET Files, n, m \in Names :
          /\ created # {} => Cardinality(created) = 1 /\ size = 0 /\ m = n
          /\ names = IF m = n THEN <<n>> ELSE <<n, m>>
          /\ inode = [NewInode EXCEPT !.openers = Cardinality(created)]
          /\ files = [f \in Files |-> IF f \in created THEN n ELSE Closed]
          /\ disk = [size |-> size, data |-> Content(size)] /\ latest = Content(size)
    /\ file_chunks = <<>> /\ detached = {} /\ alive = TRUE
    /\ lock = NoThread /\ leaked = FALSE
    /\ thread = [t \in Threads |-> Idle]
    /\ writes = 0 /\ events = 0
    /\ spoiled = {} /\ outcome = "none"

Event == events < MaxEvents /\ events' = events + 1 /\ UNCHANGED writes

Serves(t, ops, at) == thread[t].op \in ops /\ thread[t].at = at
Busy(f, ops)       == \E t \in Threads : thread[t].op \in ops /\ thread[t].file = f
IsOpen(f)          == files[f] # Closed
Writers            == {t \in Threads : thread[t].op = "write"}

Takes(t, request) == thread' = [thread EXCEPT ![t] = request]
Goes(t, at)       == thread' = [thread EXCEPT ![t].at = at]
Replies(t)        == thread' = [thread EXCEPT ![t] = Idle]
-----------------------------------------------------------------------------
(* Attributes: getattr, and the first part of open.                        *)

Paths == {names[i] : i \in DOMAIN names}

(* What the hardlink table says: only a file with several names is in it.  *)
LinkCount == IF Len(names) > 1 THEN Len(names) ELSE 0

(* nexus_fuse_getattr: attributes that were read before serve again when   *)
(* the inode is dirty or the file in the datastore is not newer; otherwise *)
(* a stat fills inode->attrs.                                              *)
nexus_fuse_getattr(t, op, f) ==
    /\ thread[t] = Idle /\ names # <<>>
    /\ \/ /\ inode.last_accessed
          /\ op = "open" /\ Takes(t, [Idle EXCEPT !.op = op, !.at = "alloc", !.file = f])
          /\ UNCHANGED inode
       \/ /\ ~(inode.last_accessed /\ inode.is_dirty)
          /\ inode' = [inode EXCEPT !.link_count = LinkCount]
          /\ Takes(t, [Idle EXCEPT !.op = op, !.at = "attr", !.file = f, !.size = disk.size])
    /\ UNCHANGED <<file_chunks, mutexes, files, volume, dentry, bounds, history>>

nxs_fuse_open(t, f) == ~IsOpen(f) /\ ~Busy(f, {"open"}) /\ nexus_fuse_getattr(t, "open", f)

nxs_fuse_getattr(t) == nexus_fuse_getattr(t, "getattr", "none")

(* The size is taken over when these are the first attributes of an inode  *)
(* without unstored writes.  It may be older than a store that has ended   *)
(* since: what lies behind it is then lost.                                *)
SetAttr(t) ==
    LET size   == thread[t].size
        adopts == ~inode.last_accessed /\ ~inode.is_dirty
    IN
    /\ Serves(t, {"open", "getattr"}, "attr")
    /\ inode' = [inode EXCEPT !.filesize = IF adopts THEN size ELSE @,
                              !.on_disk_size = size, !.last_accessed = TRUE]
    /\ spoiled' = spoiled \union
                     {p \in Positions : adopts /\ p >= size /\ latest[p] # Junk}
    /\ IF thread[t].op = "open" THEN Goes(t, "alloc") /\ UNCHANGED detached
       ELSE Replies(t) /\ detached' = detached \ {t}
    /\ UNCHANGED <<file_chunks, mutexes, files, volume, alive, bounds, latest, outcome>>

(* vfs_file_alloc and file_open: the handle takes the first dentry of the  *)
(* inode, which the request found before its getattr, and its path.        *)
file_open(t) ==
    /\ Serves(t, {"open"}, "alloc") /\ t \notin detached
    /\ lock = NoThread
    /\ names # <<>> /\ files' = [files EXCEPT ![thread[t].file] = Head(names)]
    /\ inode' = [inode EXCEPT !.openers = @ + 1]
    /\ Replies(t)
    /\ UNCHANGED <<file_chunks, mutexes, volume, dentry, bounds, history>>
-----------------------------------------------------------------------------
(* Chunks.                                                                 *)

get_base_offset(pos) == (pos \div ChunkSize) * ChunkSize
InChunk(base)        == {p \in Positions : get_base_offset(p) = base}

(* __file_find_chunk: the first chunk of the list with this base.          *)
Holding(base)     == {i \in DOMAIN file_chunks : file_chunks[i].base = base}
find_chunk(pos)   == LET found == Holding(get_base_offset(pos))
                     IN  IF found = {} THEN 0 ELSE CHOOSE i \in found : \A j \in found : i <= j
Doubled(pos)      == \E i, j \in Holding(get_base_offset(pos)) : i # j

min(a, b) == IF a <= b THEN a ELSE b

(* min(NEXUS_CHUNK_SIZE, filesize - base): the difference is unsigned.     *)
ChunkBytes(base) == IF inode.filesize < base THEN ChunkSize
                    ELSE min(ChunkSize, inode.filesize - base)

NeedsFetch(base) == base < inode.on_disk_size

\* Mutant: the last byte is left out.
Fetched_short(base) ==
    [p \in InChunk(base) |-> IF p + 1 < min(base + ChunkBytes(base), disk.size) THEN disk.data[p]
                             ELSE Junk]

(* nexus_fuse_fetch_chunk: the bytes of the file that the size covers; the *)
(* rest of the buffer is not initialised.                                  *)
Fetched(base) ==
    [p \in InChunk(base) |-> IF p < min(base + ChunkBytes(base), disk.size) THEN disk.data[p]
                             ELSE Junk]

CanFetch(f, base) == files[f] \in Paths /\ base <= disk.size

(* The first part of __file_try_add_chunk, without a lock: the chunk is    *)
(* found, or a new one is made.  A fetch that fails ends the request.      *)
Loadable(f, pos) == LET base == get_base_offset(pos)
                    IN  find_chunk(pos) # 0 \/ ~NeedsFetch(base) \/ CanFetch(f, base)

LoadChunk(request) ==
    LET base == get_base_offset(request.pos)
        i    == find_chunk(request.pos)
    IN  IF i # 0 THEN [request EXCEPT !.at = "update", !.chunk = i]
        ELSE [request EXCEPT !.at = "add",
                             !.data = IF NeedsFetch(base) THEN Fetched(base)
                                      ELSE [p \in InChunk(base) |-> Junk]]

nxs_fuse_write(t, f, pos) ==
    /\ thread[t] = Idle /\ IsOpen(f) /\ ~Busy(f, {"read", "release"}) /\ Writers = {}
    /\ f \notin detached /\ Loadable(f, pos)
    /\ writes < MaxWrites /\ writes' = writes + 1
    /\ Takes(t, LoadChunk([Idle EXCEPT !.op = "write", !.file = f, !.pos = pos,
                                       !.write = writes + 1]))
    /\ UNCHANGED <<cache, mutexes, files, volume, dentry, events, history>>

(* A read of a cached chunk changes nothing; its answer is CacheIsCurrent. *)
nxs_fuse_read(t, f, pos) ==
    /\ thread[t] = Idle /\ IsOpen(f) /\ ~Busy(f, {"write", "release"})
    /\ f \notin detached
    /\ inode.filesize # 0 /\ find_chunk(pos) = 0 /\ Loadable(f, pos)
    /\ Takes(t, LoadChunk([Idle EXCEPT !.op = "read", !.file = f, !.pos = pos]))
    /\ UNCHANGED <<cache, mutexes, files, volume, dentry, bounds, history>>

(* The rest of it adds the chunk, although another thread may have added   *)
(* one meanwhile.                                                          *)
file_try_add_chunk(t) ==
    /\ Serves(t, {"read", "write"}, "add") /\ lock = NoThread
    /\ file_chunks' = Append(file_chunks, [base |-> get_base_offset(thread[t].pos),
                                           data |-> thread[t].data])
    /\ IF thread[t].op = "read" THEN Replies(t)
       ELSE thread' = [thread EXCEPT ![t].at = "update", ![t].chunk = Len(file_chunks'),
                                     ![t].data = <<>>]
    /\ UNCHANGED <<inode, mutexes, files, volume, dentry, bounds, history>>

Storing == \E t \in Threads : thread[t].at = "encrypt"

\* Mutant: only a write that makes the file larger marks the inode dirty.
update_file_chunk_growing(t) ==
    /\ Serves(t, {"write"}, "update")
    /\ file_chunks' = [file_chunks EXCEPT ![thread[t].chunk].data[thread[t].pos] = thread[t].write]
    /\ inode' = [inode EXCEPT !.is_dirty = @ \/ thread[t].pos >= inode.filesize]
    /\ spoiled' = IF Storing THEN spoiled \union {thread[t].pos} ELSE spoiled
    /\ Goes(t, "size")
    /\ UNCHANGED <<mutexes, files, volume, dentry, bounds, latest, outcome>>

(* __update_file_chunk, without the lock of the inode.  A write that meets *)
(* a store may miss it and be taken for stored.                            *)
update_file_chunk(t) ==
    /\ Serves(t, {"write"}, "update")
    /\ file_chunks' = [file_chunks EXCEPT ![thread[t].chunk].data[thread[t].pos] = thread[t].write]
    /\ inode' = [inode EXCEPT !.is_dirty = TRUE]
    /\ spoiled' = IF Storing THEN spoiled \union {thread[t].pos} ELSE spoiled
    /\ Goes(t, "size")
    /\ UNCHANGED <<mutexes, files, volume, dentry, bounds, latest, outcome>>

(* The end of file_write: the size follows the data.                       *)
file_write(t) ==
    LET pos == thread[t].pos IN
    /\ Serves(t, {"write"}, "size")
    /\ inode' = [inode EXCEPT !.filesize = IF pos + 1 > @ THEN pos + 1 ELSE @]
    /\ latest' = [latest EXCEPT ![pos] = thread[t].write]
    /\ Replies(t)
    /\ UNCHANGED <<file_chunks, mutexes, files, volume, dentry, bounds, spoiled, outcome>>
-----------------------------------------------------------------------------
(* nexus_fuse_store, called by flush and by release.                       *)

(* Where the caller goes on: release closes the handle.                    *)
AfterStore(t, op, f) ==
    IF op = "release" THEN Takes(t, [Idle EXCEPT !.op = op, !.at = "close", !.file = f])
    ELSE Replies(t)

StoreEnds(t) == AfterStore(t, thread[t].op, thread[t].file)

NothingToStore == ~inode.is_dirty \/ inode.is_deleted

\* Mutant: the caller's own handle counts as another opener.
HasOtherOpeners_self == inode.openers > 0

HasOtherOpeners == inode.openers > 1

StoreClean(t, op, f) ==
    /\ NothingToStore
    /\ inode' = [inode EXCEPT !.is_dirty = FALSE]
    /\ AfterStore(t, op, f)
    /\ UNCHANGED <<file_chunks, mutexes, volume, dentry, bounds, history>>

(* Another handle will store the file: unless its release has already been *)
(* here and is about to close.                                             *)
StoreSkips(t, op, f) ==
    /\ ~NothingToStore /\ HasOtherOpeners
    /\ outcome' = IF op = "release" /\ \E u \in Threads : thread[u].at = "close" THEN "crossed"
                  ELSE outcome
    /\ AfterStore(t, op, f)
    /\ UNCHANGED <<cache, mutexes, volume, dentry, bounds, latest, spoiled>>

(* nexus_fs_file_encrypt_start: the file gets the size of the inode.       *)
Resize(size) == [size |-> size,
                 data |-> [p \in Positions |-> IF p < min(size, disk.size) THEN disk.data[p] ELSE Junk]]

\* positions whose data is in a chunk, but not yet under the size of the inode
Unsized == {thread[t].pos : t \in {u \in Writers : thread[u].at = "size"}}

StoreStart(t, op, f) ==
    /\ ~NothingToStore /\ ~HasOtherOpeners
    /\ files[f] \in Paths
    /\ disk' = Resize(inode.filesize)
    /\ lock' = t
    /\ Takes(t, [Idle EXCEPT !.op = op, !.at = "encrypt", !.file = f, !.chunk = 1, !.size = disk.size])
    /\ spoiled' = {p \in spoiled : p >= inode.filesize} \union Unsized
    /\ UNCHANGED <<cache, leaked, names, dentry, bounds, latest, outcome>>

(* The path of the handle is gone, or the backend fails.                   *)
StoreStartFails(t, op, f) ==
    /\ ~NothingToStore /\ ~HasOtherOpeners
    /\ IF files[f] \in Paths THEN Event ELSE UNCHANGED bounds
    /\ outcome' = "failed"
    /\ AfterStore(t, op, f)
    /\ UNCHANGED <<cache, mutexes, volume, dentry, latest, spoiled>>

nexus_fuse_store(t, op, f) ==
    /\ thread[t] = Idle /\ IsOpen(f) /\ lock = NoThread
    /\ \/ StoreClean(t, op, f) \/ StoreSkips(t, op, f)
       \/ StoreStart(t, op, f) \/ StoreStartFails(t, op, f)
    /\ UNCHANGED files

nxs_fuse_flush(t, f) ==
    ~Busy(f, {"release"}) /\ nexus_fuse_store(t, "flush", f)

nxs_fuse_release(t, f) ==
    ~Busy(f, {"read", "write", "flush", "release"}) /\ nexus_fuse_store(t, "release", f)

(* One chunk of the list: sought, and encrypted under the mutex of the     *)
(* buffer.                                                                 *)
Current(t)   == file_chunks[thread[t].chunk]
Encrypted(c) == [disk EXCEPT !.data = [p \in Positions |->
                    IF p \in InChunk(c.base) /\ p < min(c.base + ChunkBytes(c.base), disk.size)
                    THEN c.data[p] ELSE disk.data[p]]]

StoreChunk(t) ==
    /\ Serves(t, {"flush", "release"}, "encrypt")
    /\ thread[t].chunk <= Len(file_chunks)
    /\ Current(t).base <= disk.size
    /\ ~leaked
    /\ disk' = Encrypted(Current(t))
    /\ thread' = [thread EXCEPT ![t].chunk = @ + 1]
    /\ UNCHANGED <<cache, mutexes, files, names, dentry, bounds, history>>

(* out_err: the transfer is finished, too.                                 *)
\* Mutant: a failed store leaves the lock of the inode, too.
StoreFails_locked(t) == outcome' = "failed" /\ StoreEnds(t) /\ UNCHANGED lock

StoreFails(t) == outcome' = "failed" /\ StoreEnds(t) /\ lock' = NoThread

SeekFails(t) ==
    /\ Serves(t, {"flush", "release"}, "encrypt")
    /\ thread[t].chunk <= Len(file_chunks)
    /\ Current(t).base > disk.size
    /\ StoreFails(t)
    /\ UNCHANGED <<cache, leaked, files, volume, dentry, bounds, latest, spoiled>>

(* The seek has replaced the key of the chunk, and the filenode is stored. *)
EncryptFails(t) ==
    /\ Serves(t, {"flush", "release"}, "encrypt")
    /\ thread[t].chunk <= Len(file_chunks)
    /\ Current(t).base <= disk.size
    /\ ~leaked /\ leaked' = TRUE
    /\ Event
    /\ disk' = [disk EXCEPT !.data = [p \in Positions |-> IF p \in InChunk(Current(t).base) THEN Junk
                                                         ELSE disk.data[p]]]
    /\ StoreFails(t)
    /\ UNCHANGED <<cache, files, names, dentry, latest, spoiled>>

StoreFinish(t) ==
    /\ Serves(t, {"flush", "release"}, "encrypt")
    /\ thread[t].chunk > Len(file_chunks)
    /\ inode' = [inode EXCEPT !.on_disk_size = inode.filesize, !.is_dirty = FALSE]
    /\ lock' = NoThread
    /\ outcome' = "none"
    /\ StoreEnds(t)
    /\ UNCHANGED <<file_chunks, leaked, files, volume, dentry, bounds, latest, spoiled>>

(* The filenode is not stored: the old one does not fit what was encrypted. *)
FinishFails(t) ==
    /\ Serves(t, {"flush", "release"}, "encrypt")
    /\ thread[t].chunk > Len(file_chunks)
    /\ Event
    /\ disk' = [size |-> thread[t].size,
                data |-> [p \in Positions |->
                             IF p >= thread[t].size \/ Holding(get_base_offset(p)) # {} THEN Junk
                             ELSE disk.data[p]]]
    /\ StoreFails(t)
    /\ UNCHANGED <<cache, leaked, files, names, dentry, latest, spoiled>>

\* Mutant: the handle goes without being counted.
file_close_uncounted(t) ==
    /\ Serves(t, {"release"}, "close") /\ lock = NoThread
    /\ files' = [files EXCEPT ![thread[t].file] = Closed]
    /\ detached' = detached \ {thread[t].file}
    /\ Replies(t)
    /\ UNCHANGED <<inode, file_chunks, mutexes, volume, alive, bounds, history>>

file_close(t) ==
    /\ Serves(t, {"release"}, "close") /\ lock = NoThread
    /\ inode' = [inode EXCEPT !.openers = @ - 1]
    /\ files' = [files EXCEPT ![thread[t].file] = Closed]
    /\ detached' = detached \ {thread[t].file}
    /\ Replies(t)
    /\ UNCHANGED <<file_chunks, mutexes, volume, alive, bounds, history>>
-----------------------------------------------------------------------------
(* Requests that change the file in the backend, one call each.            *)

Changes ==
    /\ names # <<>> /\ Writers = {} /\ \E t \in Threads : thread[t] = Idle
    /\ Event
    /\ UNCHANGED <<file_chunks, mutexes, files, thread, alive, spoiled, outcome>>

(* nxs_fuse_setattr with FUSE_SET_ATTR_SIZE: neither the size of the inode *)
(* nor its chunks follow.                                                  *)
nxs_fuse_truncate(size) ==
    /\ Changes
    /\ disk' = Resize(size)
    /\ latest' = [p \in Positions |-> IF p < size THEN latest[p] ELSE Junk]
    /\ UNCHANGED <<inode, names, detached>>

nxs_fuse_hardlink(n) ==
    /\ Changes
    /\ n \notin Paths /\ names' = Append(names, n)
    /\ UNCHANGED <<inode, disk, detached, latest>>

(* The dentry leaves the list; those behind it move up.                    *)
Without(n) ==
    LET gone == CHOOSE i \in DOMAIN names : names[i] = n
    IN  [i \in 1 .. Len(names) - 1 |-> IF i < gone THEN names[i] ELSE names[i + 1]]

(* dentry_invalidate takes the inode from the dentry: that of the handles  *)
(* opened under the name, and that of an open or a getattr which found it  *)
(* first in the list.                                                      *)
Detaches(n) == {f \in Files : files[f] = n}
               \union {t \in Threads : thread[t].op \in {"open", "getattr"} /\ n = Head(names)}

(* The inode is taken for deleted by the link count it was last given.     *)
nxs_fuse_remove(n) ==
    /\ Changes
    /\ n \in Paths /\ names' = Without(n)
    /\ detached' = detached \union Detaches(n)
    /\ inode' = [inode EXCEPT !.is_deleted = @ \/ inode.link_count <= 1]
    /\ UNCHANGED <<disk, latest>>
-----------------------------------------------------------------------------
(* The daemon goes through dentry->inode of such a dentry, which is NULL,  *)
(* and dies; its state is left as it was.                                  *)
Dies == alive' = FALSE /\ UNCHANGED <<cache, mutexes, files, thread, volume, detached, bounds, history>>

(* __derive_stat_info in a getattr, or file_open.                          *)
OpenDies(t) == Serves(t, {"open", "getattr"}, thread[t].at) /\ t \in detached /\ Dies

(* __file_find_chunk in a read or a write through the handle; a getattr    *)
(* through it, when the name is there again.                               *)
HandleDies(t, f) ==
    /\ thread[t] = Idle /\ IsOpen(f) /\ f \in detached /\ ~Busy(f, {"release"})
    /\ Dies
-----------------------------------------------------------------------------
(* The steps of a request that has begun.                                  *)
Step(t) ==
    \/ SetAttr(t) \/ file_open(t) \/ OpenDies(t)
    \/ file_try_add_chunk(t) \/ update_file_chunk(t) \/ file_write(t)
    \/ StoreChunk(t) \/ SeekFails(t) \/ EncryptFails(t)
    \/ StoreFinish(t) \/ FinishFails(t)
    \/ file_close(t)

Request(t) ==
    \/ nxs_fuse_getattr(t)
    \/ \E f \in Files : nxs_fuse_open(t, f) \/ nxs_fuse_flush(t, f) \/ nxs_fuse_release(t, f)
    \/ \E f \in Files, pos \in WriteOffsets : nxs_fuse_write(t, f, pos)
    \/ \E f \in Files, pos \in ReadOffsets : nxs_fuse_read(t, f, pos)
    \/ \E f \in Files : HandleDies(t, f)

Next ==
    /\ alive
    /\ \/ \E t \in Threads : Step(t) \/ Request(t)
       \/ \E size \in Sizes : nxs_fuse_truncate(size)
       \/ \E n \in Names : nxs_fuse_hardlink(n) \/ nxs_fuse_remove(n)

Spec == Init /\ [][Next]_vars
-----------------------------------------------------------------------------
Byte == Junk .. MaxWrites

(* Types, and inode->openers counts the handles that are open.             *)
TypeOK ==
    /\ inode \in [filesize : 0 .. MaxSize, on_disk_size : 0 .. MaxSize, is_dirty : BOOLEAN,
                  is_deleted : BOOLEAN, last_accessed : BOOLEAN,
                  link_count : 0 .. Cardinality(Names), openers : Nat]
    /\ inode.openers = Cardinality({f \in Files : IsOpen(f)})
    /\ \A i \in DOMAIN file_chunks : file_chunks[i].data \in [InChunk(file_chunks[i].base) -> Byte]
    /\ lock \in Threads \union {NoThread} /\ leaked \in BOOLEAN
    /\ files \in [Files -> Names \union {Closed}]
    /\ disk \in [size : 0 .. MaxSize, data : [Positions -> Byte]]
    /\ names \in Seq(Names) /\ detached \subseteq Files \union Threads /\ alive \in BOOLEAN
    /\ latest \in [Positions -> Byte] /\ spoiled \subseteq Positions
    /\ outcome \in {"none", "failed", "crossed"}

(* As long as the daemon lives, a completed write that the volume does not *)
(* have is in a cached chunk of an inode that is still dirty, so that a    *)
(* later flush stores it: unless the write met a store or a late stat      *)
(* (spoiled), its chunk was added twice, or the inode was taken for        *)
(* deleted.  The daemon dies, and the unstored writes with it, when a      *)
(* handle is used whose name was unlinked (io.c:97) or an unlink overtakes *)
(* an open or a getattr.                                                   *)
UnstoredStaysDirty ==
    alive => \A p \in Positions :
       (latest[p] # Junk /\ (p >= disk.size \/ disk.data[p] # latest[p]))
       => inode.is_dirty \/ inode.is_deleted \/ p \in spoiled \/ Doubled(p)

(* When nobody has the file open, its writes are in the volume, although   *)
(* every close but the last skips the store: unless the last attempt to    *)
(* store failed (and its close returned the error) or two closes crossed.  *)
ClosedIsStored ==
    (inode.openers = 0 /\ inode.is_dirty) => outcome \in {"failed", "crossed"}

(* The chunk a read finds has the bytes of the last completed writes and,  *)
(* elsewhere, those of the file, or a write that is just being made.       *)
CacheIsCurrent ==
    \A p \in Positions :
       (latest[p] # Junk /\ find_chunk(p) # 0)
       => \/ file_chunks[find_chunk(p)].data[p] = latest[p]
          \/ p \in Unsized \/ Doubled(p)

(* No request waits for ever: one that cannot go on waits for the lock of  *)
(* the inode, whose holder can go on, whatever failed before; unless a     *)
(* failed encryption left the mutex of the encryption buffer locked, or    *)
(* the daemon has died.                                                    *)
NobodyStuck ==
    alive => \A t \in Threads :
       \/ thread[t] = Idle \/ ENABLED Step(t)
       \/ lock \in Threads \ {t} /\ ENABLED Step(lock)
       \/ leaked
=============================================================================

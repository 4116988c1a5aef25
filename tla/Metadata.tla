------------------------------ MODULE Metadata ------------------------------
(***************************************************************************)
(* One metadata object (a dirnode or a filenode) through the three caches  *)
(* it lives in:                                                            *)
(*   meta    the object in the enclave          (enclave/metadata.c, vfs.c) *)
(*   mbuf    the enclave's buffer layer         (enclave/buffer_layer.c)    *)
(*   bbuf    the buffer of the untrusted backend (io.c, not in batch mode)  *)
(*   store   the datastore file, shared with other clients                 *)
(*                                                                         *)
(* An operation of a frontend thread is a sequence of steps separated by   *)
(* the ocalls at which another thread or another client may come between:  *)
(* revalidate (stat) - [stat - open and lock - read | lock] - run - put.   *)
(* The ecalls hold vfs_ops_lock from revalidate to run; a transfer is open *)
(* after its start ecall has returned, and its finish takes no lock.       *)
(*                                                                         *)
(* The content of the object is abstracted to the identity of the write    *)
(* that produced it, and its version number.                               *)
(***************************************************************************)
EXTENDS Integers, FiniteSets

CONSTANTS Ops,       \* the frontend's threads
          Kinds,     \* the kinds of operations they start
          MaxTime,   \* bound on the clock, in seconds
          MaxWrites, \* bound on the number of contents written
          MaxWriters \* bound on the writers the buffer layer counts when an operation starts

ASSUME OpsAssumption    == IsFiniteSet(Ops) /\ "none" \notin Ops
ASSUME KindsAssumption  == Kinds \subseteq {"read", "update", "encrypt", "decrypt"}
ASSUME BoundsAssumption == MaxTime \in Nat /\ MaxWrites \in Nat \ {0} /\ MaxWriters \in Nat

VARIABLES store,     \* datastore file: content and mtime
          flock,     \* does this client hold the file lock (LOCK_EX)?
          now,       \* time(NULL), the same for all clients
          bbuf,      \* struct metadata_buf of the backend: content, buffer_time
          handle,    \* metadata_buf->file_handle: the kind that opened it, or "none"
          mutex,     \* metadata_buf->file_mutex is held
          mbuf,      \* struct metadata_buffer of the buffer layer
          meta,      \* struct nexus_metadata
          op,        \* what each thread is doing
          ops_lock,  \* the thread that holds vfs_ops_lock, or "none"
          writes,    \* contents written so far
          failed,    \* history: "parse" a read failed in the enclave, "backend" outside it;
                     \* "locked" it failed under the lock, or an open transfer was evicted
          overlaps   \* history: the ways in which the operations of two threads lost the lock

vars == <<store, flock, now, bbuf, handle, mutex, mbuf, meta, op, ops_lock, writes, failed, overlaps>>

NoContent == [id |-> 0, version |-> 0]
NoMeta    == [loaded |-> FALSE, content |-> NoContent, is_dirty |-> FALSE,
              is_locked |-> FALSE, is_invalid |-> FALSE]
NoMbuf    == [exists |-> FALSE, timestamp |-> 0, writers |-> 0, write_mode |-> FALSE,
              is_dirty |-> FALSE, tmp_buffer |-> NoContent]
NoBbuf    == [exists |-> FALSE, content |-> NoContent, buffer_time |-> 0]
IdleOp    == [pc |-> "idle", kind |-> "read", stat |-> 0, raced |-> FALSE]

(* The flags of the kinds of operations: "read" FREAD (a lookup), "update" *)
(* FRDWR (a directory operation, a truncation), "encrypt" FRDWR|IO_FCRYPTO *)
(* and "decrypt" FREAD|IO_FCRYPTO.                                         *)
nexus_io_in_lock_mode(kind) == kind # "read"
TakesFlock(kind)            == kind \in {"update", "encrypt"}
IsTransfer(kind)            == kind \in {"encrypt", "decrypt"}
-----------------------------------------------------------------------------
Init ==
    /\ store = [content |-> [id |-> 1, version |-> 1], mtime |-> 0]
    /\ flock = FALSE /\ now = 0
    /\ bbuf = NoBbuf /\ handle = "none" /\ mutex = FALSE
    /\ mbuf = NoMbuf /\ meta = NoMeta
    /\ op = [o \in Ops |-> IdleOp] /\ ops_lock = "none"
    /\ writes = 1
    /\ failed = {} /\ overlaps = {}

(* nexus_metadata_revalidate: does the cached object have to be reloaded?  *)
(* When the stat of the file fails it is taken to be unchanged.            *)
\* Mutant: a file that changed is not reloaded once the object is cached.
has_changed_never(stat_ok) == ~meta.loaded \/ meta.is_invalid \/ ~mbuf.exists

has_changed(stat_ok) == \/ ~meta.loaded \/ meta.is_invalid \/ ~mbuf.exists
                        \/ stat_ok /\ store.mtime > mbuf.timestamp

(* History: a copy taken at the given time is stale, and the file changed  *)
(* in the very second the copy was taken, so that no timestamp tells.      *)
SameSecond(content, time) == content # store.content /\ store.mtime = time

(* The ecall takes vfs_ops_lock, finds the metadata object and stats its file. *)
Start(o, kind) ==
    /\ op[o].pc = "idle" /\ ops_lock = "none" /\ mbuf.writers < MaxWriters
    /\ ops_lock' = o
    /\ \E stat_ok \in BOOLEAN :
          op' = [op EXCEPT ![o] =
                    [pc    |-> IF has_changed(stat_ok) THEN "stat"
                               ELSE IF nexus_io_in_lock_mode(kind) THEN "lock" ELSE "run",
                     kind  |-> kind, stat |-> 0,
                     raced |-> /\ ~has_changed(stat_ok)
                               /\ \/ SameSecond(meta.content, mbuf.timestamp)
                                  \/ ~stat_ok /\ meta.content # store.content]]
    /\ UNCHANGED <<store, flock, now, bbuf, handle, mutex, mbuf, meta, writes, failed, overlaps>>

(* __open_metadata_file in a lock mode on a file that is not open: flock   *)
(* blocks until no other client holds it (another client holds it only     *)
(* within its own step), then the mutex.                                   *)
OpenFile(kind) ==
    /\ handle = "none" /\ ~mutex
    /\ handle' = kind /\ mutex' = TRUE /\ flock' = TakesFlock(kind)

(* History: a plain read clears is_locked, or the write mode of the buffer *)
(* layer, while the file is open for another operation.                    *)
Reset(kind) ==
    overlaps' = IF ~nexus_io_in_lock_mode(kind) /\ handle # "none" THEN overlaps \union {"reset"}
                ELSE overlaps

(* History: the file whose mutex was waited for has been closed.           *)
FileClosed == overlaps' = IF handle = "none" THEN overlaps \union {"closed"} ELSE overlaps

(* nexus_metadata_lock, when the cached object is current.                 *)
LockCounted(o) ==
    /\ mbuf' = [mbuf EXCEPT !.writers = @ + 1, !.write_mode = TRUE]
    /\ meta' = [meta EXCEPT !.is_locked = TRUE]
    /\ op' = [op EXCEPT ![o].pc = "run"]
    /\ UNCHANGED <<store, now, bbuf, ops_lock, writes, failed>>

buffer_layer_lock(o) ==
    /\ op[o].pc = "lock"
    /\ IF mbuf.write_mode THEN UNCHANGED <<handle, mutex, flock>> ELSE OpenFile(op[o].kind)
    /\ LockCounted(o) /\ UNCHANGED overlaps

(* The object read becomes the one that is cached.                         *)
Loaded(content, kind) ==
    [loaded |-> TRUE, content |-> content, is_dirty |-> FALSE,
     is_locked |-> nexus_io_in_lock_mode(kind), is_invalid |-> FALSE]

(* nexus_metadata_reload and nexus_metadata_load begin in buffer_layer_get: *)
(* a dirty buffer is used as it is, otherwise io_buffer_get stats the file. *)
buffer_layer_get_dirty(o) ==
    /\ op[o].pc = "stat" /\ mbuf.is_dirty /\ mbuf.tmp_buffer # NoContent
    /\ meta' = Loaded(mbuf.tmp_buffer, op[o].kind)
    /\ Reset(op[o].kind)
    /\ op' = [op EXCEPT ![o].pc = "run"]
    /\ UNCHANGED <<store, flock, now, bbuf, handle, mutex, mbuf, ops_lock, writes, failed>>

\* the dirty flag outlives the buffer it was set for
buffer_layer_get_lost(o) ==
    /\ op[o].pc = "stat" /\ mbuf.is_dirty /\ mbuf.tmp_buffer = NoContent
    /\ op' = [op EXCEPT ![o] = IdleOp] /\ ops_lock' = "none"
    /\ UNCHANGED <<store, flock, now, bbuf, handle, mutex, mbuf, meta, writes, failed, overlaps>>

buffer_layer_get_stat(o) ==
    /\ op[o].pc = "stat" /\ ~mbuf.is_dirty
    /\ op' = [op EXCEPT ![o].pc = IF nexus_io_in_lock_mode(op[o].kind) THEN "open" ELSE "read",
                        ![o].stat = store.mtime,
                        ![o].raced = bbuf.exists /\ SameSecond(bbuf.content, bbuf.buffer_time)]
    /\ UNCHANGED <<store, flock, now, bbuf, handle, mutex, mbuf, meta, ops_lock, writes, failed, overlaps>>

(* io_buffer_lock inside io_buffer_get.                                    *)
io_buffer_lock(o) ==
    /\ op[o].pc = "open"
    /\ OpenFile(op[o].kind)
    /\ op' = [op EXCEPT ![o].pc = "read"]
    /\ UNCHANGED <<store, now, bbuf, mbuf, meta, ops_lock, writes, failed, overlaps>>

(* The file is open already, here or in buffer_layer_lock: the flags are   *)
(* incompatible, or the thread waits for the mutex and goes on without     *)
(* looking whether the file is still open.  In buffer_layer_lock it waits  *)
(* for good: write_mode, by which alone the file's user would unlock it    *)
(* (buffer_layer.c:241), is cleared, and whoever could set it again needs  *)
(* the vfs_ops_lock that the waiting thread holds.                         *)
FileIsOpen(o) ==
    /\ op[o].pc = "open" \/ (op[o].pc = "lock" /\ ~mbuf.write_mode)
    /\ handle # "none"
    /\ IF TakesFlock(op[o].kind) /\ ~TakesFlock(handle)
       THEN op' = [op EXCEPT ![o] = IdleOp] /\ ops_lock' = "none"
       ELSE /\ op' = [op EXCEPT ![o].pc = IF @ = "open" THEN "wait" ELSE "wait_lock"]
            /\ UNCHANGED ops_lock
    /\ UNCHANGED <<store, flock, now, bbuf, handle, mutex, mbuf, meta, writes, failed, overlaps>>

WaitedForMutex(o) ==
    /\ op[o].pc = "wait" /\ ~mutex
    /\ mutex' = TRUE
    /\ op' = [op EXCEPT ![o].pc = "read"]
    /\ FileClosed
    /\ UNCHANGED <<store, flock, now, bbuf, handle, mbuf, meta, ops_lock, writes, failed>>

(* io_buffer_read: the backend's buffer serves unless the file has a later *)
(* mtime than the buffer's time.  A plain read opens and closes the file   *)
(* itself; in a lock mode it must have been opened before.                 *)
\* Mutant: a buffer that served is taken to be as new as the moment it was used.
io_buffer_read_touch(o) ==
    IF bbuf.exists /\ bbuf.buffer_time >= op[o].stat THEN [bbuf EXCEPT !.buffer_time = now]
    ELSE [exists |-> TRUE, content |-> store.content, buffer_time |-> now]

io_buffer_read(o) ==
    IF bbuf.exists /\ bbuf.buffer_time >= op[o].stat THEN bbuf
    ELSE [exists |-> TRUE, content |-> store.content, buffer_time |-> now]

CanRead(o) == \/ ~nexus_io_in_lock_mode(op[o].kind) \/ handle # "none"
              \/ bbuf.exists /\ bbuf.buffer_time >= op[o].stat

(* __bcache_update after the ocall: the flags are those of the last get.   *)
BcacheUpdate(timestamp, kind) ==
    [mbuf EXCEPT !.exists = TRUE, !.timestamp = timestamp,
                 !.write_mode = nexus_io_in_lock_mode(kind),
                 !.writers = IF nexus_io_in_lock_mode(kind) THEN @ + 1 ELSE @]

buffer_layer_get(o) ==
    /\ op[o].pc = "read" /\ CanRead(o)
    /\ bbuf' = io_buffer_read(o)
    /\ mbuf' = BcacheUpdate(bbuf'.buffer_time, op[o].kind)
    /\ meta' = Loaded(bbuf'.content, op[o].kind)
    /\ Reset(op[o].kind)
    /\ op' = [op EXCEPT ![o].pc = "run"]
    /\ UNCHANGED <<store, flock, now, handle, mutex, ops_lock, writes, failed>>

(* The read fails in the backend, or the object does not decrypt or parse  *)
(* in the enclave: the operation ends, and nobody gives the lock back.     *)
ReadFails(o) ==
    /\ op[o].pc = "read" /\ CanRead(o)
    /\ \E why \in {"backend", "parse"} :
          /\ IF why = "backend" THEN UNCHANGED <<bbuf, mbuf>>
             ELSE bbuf' = io_buffer_read(o) /\ mbuf' = BcacheUpdate(bbuf'.buffer_time, op[o].kind)
          /\ failed' = failed \union {why}
                               \union (IF nexus_io_in_lock_mode(op[o].kind) THEN {"locked"} ELSE {})
    /\ Reset(op[o].kind)
    /\ op' = [op EXCEPT ![o] = IdleOp] /\ ops_lock' = "none"
    /\ UNCHANGED <<store, flock, now, handle, mutex, meta, writes>>
-----------------------------------------------------------------------------
(* __release_metadata_buf: closes the file, which drops the flock.         *)
\* Mutant: the mutex is not unlocked.
ReleaseFile_keeps_mutex == handle' = "none" /\ mutex' = mutex /\ flock' = FALSE

ReleaseFile == handle' = "none" /\ mutex' = (mutex /\ handle = "none") /\ flock' = FALSE

(* History: is_locked is cleared while another writer is counted.          *)
Shared == overlaps' = IF mbuf.write_mode /\ mbuf.writers > 1 THEN overlaps \union {"shared"}
                      ELSE overlaps

(* nexus_vfs_put on a metadata object m and a buffer b.                    *)
\* Mutant: the lock is returned whether or not it was taken.
nexus_vfs_put_always(m, b) ==
    /\ meta' = [m EXCEPT !.is_locked = FALSE] /\ Shared
    /\ mbuf' = [b EXCEPT !.writers = @ - 1, !.write_mode = b.writers > 1]
    /\ IF b.writers > 1 THEN UNCHANGED <<handle, mutex, flock>> ELSE ReleaseFile

nexus_vfs_put(m, b) ==
    /\ meta' = [m EXCEPT !.is_locked = FALSE] /\ Shared
    /\ IF m.is_locked /\ b.write_mode
       THEN /\ mbuf' = [b EXCEPT !.writers = @ - 1, !.write_mode = b.writers > 1]
            /\ IF b.writers > 1 THEN UNCHANGED <<handle, mutex, flock>> ELSE ReleaseFile
       ELSE mbuf' = b /\ UNCHANGED <<handle, mutex, flock>>

(* nexus_metadata_store of a dirty object, then nexus_vfs_put.  The buffer *)
(* layer keeps the buffer for the next writer while there is one.          *)
NewContentOf(m) == [id |-> writes + 1, version |-> m.content.version + 1]
Stored(m)       == [m EXCEPT !.content = NewContentOf(m), !.is_dirty = FALSE, !.is_locked = FALSE]

StoreDeferred ==
    /\ mbuf.write_mode /\ mbuf.writers > 1 /\ writes < MaxWrites
    /\ writes' = writes + 1
    /\ meta' = Stored(meta)
    /\ mbuf' = [mbuf EXCEPT !.is_dirty = TRUE, !.writers = @ - 1, !.tmp_buffer = NewContentOf(meta)]
    /\ Shared
    /\ UNCHANGED <<store, bbuf, handle, mutex, flock>>

StoreFlushed ==
    /\ mbuf.write_mode /\ mbuf.writers <= 1 /\ TakesFlock(handle) /\ writes < MaxWrites
    /\ writes' = writes + 1
    /\ store' = [content |-> NewContentOf(meta), mtime |-> now]
    /\ bbuf' = [exists |-> TRUE, content |-> NewContentOf(meta), buffer_time |-> now]
    /\ ReleaseFile
    /\ meta' = Stored(meta)
    /\ mbuf' = [mbuf EXCEPT !.writers = 0, !.write_mode = FALSE, !.timestamp = now, !.tmp_buffer = NoContent]
    /\ UNCHANGED overlaps

\* Mutant: the failure of a store does not ask the buffer layer for the state of the lock.
StoreFails_unlocked ==
    /\ IF mbuf.write_mode /\ mbuf.writers <= 1 THEN ReleaseFile ELSE UNCHANGED <<handle, mutex, flock>>
    /\ meta' = [meta EXCEPT !.is_invalid = TRUE, !.is_locked = FALSE]
    /\ UNCHANGED <<mbuf, store, bbuf, writes, overlaps>>

(* An allocation, the write or the close of the file fails, the last one   *)
(* after the content has reached the file: the object becomes invalid and  *)
(* nexus_vfs_put returns the lock if the buffer layer still has it.        *)
StoreFails ==
    /\ nexus_vfs_put([meta EXCEPT !.is_invalid = TRUE, !.is_locked = mbuf.write_mode],
                     IF mbuf.write_mode THEN [mbuf EXCEPT !.tmp_buffer = NoContent] ELSE mbuf)
    /\ \/ UNCHANGED <<store, writes>>
       \/ /\ mbuf.write_mode /\ mbuf.writers <= 1 /\ TakesFlock(handle) /\ writes < MaxWrites
          /\ writes' = writes + 1
          /\ store' = [content |-> NewContentOf(meta), mtime |-> now]
    /\ UNCHANGED bbuf

nexus_metadata_store == StoreDeferred \/ StoreFlushed \/ StoreFails

(* History: the operations past their stat are overtaken by a write of the *)
(* file.                                                                   *)
Overtaken(o) == [op[o] EXCEPT !.raced = @ \/ op[o].pc \notin {"idle", "stat"}]

EndOp(o) == op' = [p \in Ops |-> IF p = o THEN IdleOp
                                 ELSE IF store' = store THEN op[p] ELSE Overtaken(p)]

(* A lookup, or an operation that is denied: nothing is modified.          *)
Lookup(o) ==
    /\ op[o].pc = "run"
    /\ nexus_vfs_put(meta, mbuf)
    /\ UNCHANGED <<store, now, bbuf, writes, failed>>
    /\ EndOp(o) /\ ops_lock' = "none"

(* An operation that modifies the object and stores it within one ecall.   *)
Update(o) ==
    /\ op[o].pc = "run" /\ op[o].kind = "update"
    /\ nexus_metadata_store
    /\ EndOp(o) /\ ops_lock' = "none"
    /\ UNCHANGED <<now, failed>>

(* The start of a transfer returns with the object locked.  An encryption  *)
(* has set the file size; without an open file the frontend gets an error  *)
(* and never finishes the transfer.                                        *)
StartTransfer(o) ==
    /\ op[o].pc = "run" /\ IsTransfer(op[o].kind)
    /\ meta' = [meta EXCEPT !.is_dirty = @ \/ op[o].kind = "encrypt"]
    /\ op' = [op EXCEPT ![o] = IF handle = "none" THEN IdleOp ELSE [@ EXCEPT !.pc = "transfer"]]
    /\ ops_lock' = "none"
    /\ UNCHANGED <<store, flock, now, bbuf, handle, mutex, mbuf, writes, failed, overlaps>>

(* An encryption writes its chunks into the datastore file.                *)
TransferData(o) ==
    /\ op[o].pc = "transfer" /\ op[o].kind = "encrypt" /\ handle = "encrypt"
    /\ store' = [store EXCEPT !.mtime = now]
    /\ meta' = [meta EXCEPT !.is_dirty = TRUE]
    /\ UNCHANGED <<flock, now, bbuf, handle, mutex, mbuf, op, ops_lock, writes, failed, overlaps>>

FinishTransfer(o) ==
    /\ op[o].pc = "transfer"
    /\ IF meta.is_dirty THEN nexus_metadata_store
       ELSE nexus_vfs_put(meta, mbuf) /\ UNCHANGED <<store, bbuf, writes>>
    /\ EndOp(o)
    /\ UNCHANGED <<now, ops_lock, failed>>
-----------------------------------------------------------------------------
(* Another client updates the object: it reads and writes it under its own *)
(* flock.                                                                  *)
RemoteUpdate ==
    /\ ~flock /\ writes < MaxWrites
    /\ writes' = writes + 1
    /\ store' = [content |-> [id |-> writes + 1, version |-> store.content.version + 1], mtime |-> now]
    /\ op' = [o \in Ops |-> Overtaken(o)]
    /\ UNCHANGED <<flock, now, bbuf, handle, mutex, mbuf, meta, ops_lock, failed, overlaps>>

Tick == now < MaxTime /\ now' = now + 1
        /\ UNCHANGED <<store, flock, bbuf, handle, mutex, mbuf, meta, op, ops_lock, writes, failed, overlaps>>

(* The LRU list of metadata objects drops the object in an ecall for       *)
(* another one, in use or not.  A transfer that was open on it finishes on *)
(* freed memory: it finds no buffer to store or to unlock, and leaves the  *)
(* file open and locked (or the client dies, which is Crash).              *)
Evict ==
    /\ ops_lock = "none"
    /\ meta' = NoMeta /\ mbuf' = NoMbuf
    /\ op' = [o \in Ops |-> IdleOp]
    /\ failed' = IF \E o \in Ops : op[o].pc = "transfer" THEN failed \union {"locked"} ELSE failed
    /\ UNCHANGED <<store, flock, now, bbuf, handle, mutex, ops_lock, writes, overlaps>>

(* The client dies and starts again; the kernel drops its file lock.       *)
Crash ==
    /\ meta' = NoMeta /\ mbuf' = NoMbuf /\ bbuf' = NoBbuf
    /\ handle' = "none" /\ mutex' = FALSE /\ flock' = FALSE
    /\ op' = [o \in Ops |-> IdleOp] /\ ops_lock' = "none"
    /\ failed' = {} /\ overlaps' = {}
    /\ UNCHANGED <<store, now, writes>>

Step(o) ==
    \/ buffer_layer_lock(o)
    \/ buffer_layer_get_dirty(o)
    \/ buffer_layer_get_lost(o)
    \/ buffer_layer_get_stat(o)
    \/ io_buffer_lock(o)
    \/ FileIsOpen(o)
    \/ WaitedForMutex(o)
    \/ buffer_layer_get(o)
    \/ ReadFails(o)
    \/ Lookup(o)
    \/ Update(o)
    \/ StartTransfer(o)
    \/ TransferData(o)
    \/ FinishTransfer(o)

Next ==
    \/ \E o \in Ops : Step(o) \/ \E kind \in Kinds : Start(o, kind)
    \/ RemoteUpdate
    \/ Tick
    \/ Evict
    \/ Crash

Spec == Init /\ [][Next]_vars

(* The threads of the frontend run, and whoever starts a transfer finishes *)
(* it; nothing makes the other clients, the clock or the LRU list move.    *)
Fairness == \A o \in Ops : WF_vars(Step(o)) /\ WF_vars(FinishTransfer(o))

FairSpec == Spec /\ Fairness
-----------------------------------------------------------------------------
Content == [id : 0 .. MaxWrites, version : 0 .. MaxWrites]

(* Types of the three caches, the datastore file and the operations.       *)
TypeOK ==
    /\ store \in [content : Content, mtime : 0 .. MaxTime]
    /\ flock \in BOOLEAN /\ mutex \in BOOLEAN
    /\ now \in 0 .. MaxTime /\ writes \in 0 .. MaxWrites
    /\ bbuf \in [exists : BOOLEAN, content : Content, buffer_time : 0 .. MaxTime]
    /\ handle \in Kinds \union {"none"}
    /\ mbuf \in [exists : BOOLEAN, timestamp : 0 .. MaxTime, writers : Nat, write_mode : BOOLEAN,
                 is_dirty : BOOLEAN, tmp_buffer : Content]
    /\ meta \in [loaded : BOOLEAN, content : Content, is_dirty : BOOLEAN,
                 is_locked : BOOLEAN, is_invalid : BOOLEAN]
    /\ op \in [Ops -> [pc : {"idle", "lock", "stat", "open", "wait", "wait_lock", "read", "run", "transfer"},
                       kind : Kinds \union {"read"}, stat : 0 .. MaxTime, raced : BOOLEAN]]
    /\ ops_lock \in Ops \union {"none"}
    /\ failed \subseteq {"backend", "parse", "locked"} /\ overlaps \subseteq {"reset", "closed", "shared"}

(* When the client is idle it holds nothing: whatever mixture of denied    *)
(* operations, failed stores and crashes came before, no writer is counted *)
(* and neither the mutex nor the file lock, which would shut out the other *)
(* clients, is left behind.  The ways to leak them are a read that fails   *)
(* once the file is locked (io.c:484-490) and the eviction of an object    *)
(* with an open transfer (vfs.c:22-30).                                    *)
LocksReleased ==
    ((\A o \in Ops : op[o].pc = "idle") /\ "locked" \notin failed) =>
        /\ mbuf.writers = 0 /\ ~mbuf.write_mode /\ ~meta.is_locked
        /\ handle = "none" /\ ~mutex /\ ~flock

(* An operation stores an object that was built on the content it          *)
(* replaces, so that no update of another client is lost, unless the other *)
(* client wrote between the stat and the lock of this operation, or in the *)
(* second in which this client took its copy, or the stat failed, or a     *)
(* copy that did not parse was taken for a new one.                        *)
StoresBuildOnTheLatest ==
    [][\A o \in Ops :
          (/\ store'.content # store.content
           /\ op[o].pc \in {"run", "transfer"} /\ op'[o].pc = "idle"
           /\ ~op[o].raced /\ "parse" \notin failed)
          => meta.content = store.content]_vars

(* However the operations of two threads share the lock, the flags, the    *)
(* deferred buffer and the open file of the object, a store of this client *)
(* moves the version of the object forward, with the exceptions above.     *)
VersionsGrow ==
    [][(/\ store'.content # store.content
        /\ "parse" \notin failed
        /\ \E o \in Ops : op[o].pc \in {"run", "transfer"} /\ op'[o].pc = "idle" /\ ~op[o].raced)
       => store'.content.version > store.content.version]_vars

(* Every operation of two threads comes to its end, however their stats,   *)
(* locks, reads and transfers interleave.  The exceptions leave the mutex  *)
(* of the file behind, which blocks the next operation for good: a read    *)
(* that failed under the lock (io.c:484-490), an eviction during a         *)
(* transfer (vfs.c:22-30), and three overlaps: a plain read that reloads   *)
(* during a transfer and clears write_mode and is_locked                   *)
(* (buffer_layer.c:308, metadata.c:394), a thread that gets the mutex of a *)
(* file that was closed meanwhile (io.c:171), and two counted writers, of  *)
(* which the first clears the is_locked of both (vfs.c:183).               *)
OperationsEnd ==
    \A o \in Ops : (op[o].pc # "idle")
                     ~> (op[o].pc = "idle" \/ "locked" \in failed \/ overlaps # {})

(* buffer_layer.c: a store may skip the flush "as there will be another on *)
(* the way", so a buffer is not left behind when all operations are over.  *)
DeferredFlushIsOnTheWay ==
    (\A o \in Ops : op[o].pc = "idle") => mbuf.tmp_buffer = NoContent
=============================================================================

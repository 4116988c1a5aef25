----------------------------- MODULE BatchMode -----------------------------
(***************************************************************************)
(* Batch mode of the untrusted backend (io.c, main.c).  While it is on,    *)
(* changed dirnodes stay in memory and changed filenodes go into copies in *)
(* a batch datastore; a commit carries both to the datastore, object by    *)
(* object.  A commander (the socket thread of frontend_fuse/commander.c)   *)
(* turns the mode on, commits and turns it off; the operations of the      *)
(* filesystem, one at a time, do not know of it: which file and which      *)
(* handle each of their calls uses follows from two flags the commander    *)
(* changes.                                                                *)
(*                                                                         *)
(* A content is the set of the updates it holds, or Torn; a file has those *)
(* of its filenode and those of its data, which are written separately.    *)
(* An update whose put fails after the file was written is tried: later    *)
(* readers may find it or not.  The enclave has no copy of its own here:   *)
(* it gets the object anew for each operation (Metadata has its cache).  A *)
(* commit walks the buffers that the table had when it began, and none is  *)
(* deleted meanwhile.  Of the times in seconds, only the comparison of a   *)
(* file's mtime with buffer_time is kept: a file written after the buffer  *)
(* was, within the same second or later.                                   *)
(***************************************************************************)
EXTENDS Integers, FiniteSets

CONSTANTS Objects,     \* the metadata objects, each a dirnode or a filenode
          MaxWrites,   \* bound on the updates
          MaxFailures  \* bound on the failures and crashes

ASSUME ObjectsAssumption == IsFiniteSet(Objects)
ASSUME BoundsAssumption  == MaxWrites \in Nat /\ MaxFailures \in Nat

VARIABLES dirs,        \* the objects that are dirnodes; the others are filenodes
          batch_mode,  \* backend->batch_mode
          store,       \* the files of volume->metadata_store
          batch,       \* the files of backend->batch_datastore
          buf,         \* struct metadata_buf of each object
          handle,      \* which of metadata_buf->file_handle and ->batch_handle are open
          mutex,       \* the objects whose file_mutex is held
          deleted,     \* backend->batch_deleted_uuids
          op,          \* the operation of the filesystem
          sync,        \* the commander
          writes, failures,
          live,        \* history: the objects the filesystem has
          latest,      \* history: the updates of each object that were acknowledged
          tried,       \* history: those whose put failed, which may be in its file
          excused,     \* history: the objects that met a case in which updates get lost
          stranded,    \* history: the objects left locked by a get of a torn node
          overlap      \* history: a command met an operation that had a file open

files   == <<store, batch>>
handles == <<handle, mutex>>
bounds  == <<writes, failures>>
history == <<live, latest, tried, excused, stranded, overlap>>
vars    == <<dirs, batch_mode, files, buf, handles, deleted, op, sync, bounds, history>>

NoFile  == [exists |-> FALSE, node |-> {}, data |-> {}]
NoBuf   == [exists |-> FALSE, node |-> {}, newer |-> {"store", "batch"}, is_dirty |-> FALSE,
            is_syncing |-> FALSE, sync_file_exists |-> FALSE, batch_file_exists |-> FALSE,
            batch_mode_created |-> FALSE, batch_mode_modified |-> FALSE]
NoOp    == [pc |-> "idle", obj |-> "none", node |-> {}]
NoSync  == [pc |-> "idle", todo |-> {}, obj |-> "none", finish |-> FALSE]

NewFile == [NoFile EXCEPT !.exists = TRUE]

(* The node of a file that was cut or written in part: it does not decrypt. *)
Torn == {0}

Init ==
    /\ dirs \in SUBSET Objects /\ batch_mode = FALSE
    /\ writes = 0 /\ failures = 0
    /\ live \in SUBSET Objects
    /\ store = [o \in Objects |-> IF o \in live THEN NewFile ELSE NoFile]
    /\ batch = [o \in Objects |-> NoFile]
    /\ buf = [o \in Objects |-> NoBuf]
    /\ handle = [o \in Objects |-> {}] /\ mutex = {}
    /\ deleted = {} /\ op = NoOp /\ sync = NoSync
    /\ latest = [o \in Objects |-> {}] /\ tried = [o \in Objects |-> {}]
    /\ excused = {} /\ stranded = {} /\ overlap = FALSE

Fail == failures < MaxFailures /\ failures' = failures + 1 /\ UNCHANGED writes
-----------------------------------------------------------------------------
(* __metadata_buf_get_datastore and __metadata_buf_get_handle.             *)
Where(o)     == IF batch_mode /\ ~buf[o].is_syncing THEN "batch" ELSE "store"
HasHandle(o) == Where(o) \in handle[o]

(* io_backend_get_datastore: the file that is asked for its mtime.         *)
StatIn(o)   == IF batch_mode /\ buf[o].batch_file_exists THEN "batch" ELSE "store"
StatFile(o) == IF StatIn(o) = "batch" THEN batch[o] ELSE store[o]

(* io_buffer_read answers from memory.                                     *)
\* Mutant: only a dirty buffer is used, the others are read again.
Serves_dirty(o) == buf[o].exists /\ buf[o].is_dirty

Serves(o) == buf[o].exists /\ (buf[o].is_dirty \/ StatIn(o) \notin buf[o].newer)

(* __open_metadata_file in batch mode: the datastore's file is copied      *)
(* first, unless the batch datastore has the object.                       *)
Copies(o) == Where(o) = "batch" /\ ~buf[o].batch_mode_created /\ ~buf[o].batch_file_exists

OpensFile(o) == IF Copies(o) \/ Where(o) = "store" THEN store[o] ELSE batch[o]

copy_metadata_file_to_batch_directory(o) ==
    batch' = IF Copies(o) THEN [batch EXCEPT ![o] = store[o]] ELSE batch

Opened(o, late) ==
    [buf[o] EXCEPT !.exists = TRUE,
                   !.newer = IF Copies(o) /\ (late \/ "store" \in @) THEN @ \union {"batch"} ELSE @,
                   !.batch_file_exists = @ \/ Copies(o),
                   !.sync_file_exists  = @ \/ Copies(o) \/ Where(o) = "store"]

(* A copy from an earlier batch that the datastore has left behind.        *)
OldCopy(o) == /\ Where(o) = "batch" /\ buf[o].batch_file_exists /\ ~buf[o].batch_mode_modified
              /\ <<batch[o].node, batch[o].data>> # <<store[o].node, store[o].data>>

(* What io_buffer_get gives the enclave, and the buffer it leaves; a file  *)
(* of no bytes is not opened.                                              *)
IsEmpty(file) == file.node = {} /\ file.data = {}

Got(o) == IF Serves(o) THEN buf[o].node
          ELSE IF IsEmpty(StatFile(o)) THEN {} ELSE OpensFile(o).node

io_buffer_read(b, o) ==
    IF Serves(o) THEN b ELSE [b EXCEPT !.exists = TRUE, !.node = Got(o), !.newer = {}]

(* io_buffer_get of a lookup: the file is opened, read and closed at once, *)
(* and the close resets is_dirty.                                          *)
Lookup(o) ==
    LET opens == ~Serves(o) /\ ~IsEmpty(StatFile(o)) /\ ~HasHandle(o) IN
    /\ op.pc = "idle" /\ o \in live /\ StatFile(o).exists
    /\ opens => OpensFile(o).exists
    /\ IF opens THEN copy_metadata_file_to_batch_directory(o) ELSE batch' = batch
    /\ buf' = [buf EXCEPT ![o] = IF opens THEN [io_buffer_read(Opened(o, FALSE), o) EXCEPT !.is_dirty = FALSE]
                                 ELSE io_buffer_read(@, o)]
    /\ UNCHANGED <<dirs, batch_mode, store, handles, deleted, op, sync, bounds, history>>
-----------------------------------------------------------------------------
(* An operation that may change an object.                                 *)
Begin(o) ==
    /\ op.pc = "idle" /\ o \in live /\ StatFile(o).exists
    /\ op' = [NoOp EXCEPT !.pc = "get", !.obj = o]
    /\ UNCHANGED <<dirs, batch_mode, files, buf, handles, deleted, sync, bounds, history>>

(* io_buffer_lock and io_buffer_read inside io_buffer_get.  When the file  *)
(* is open already, the thread waits for the mutex of its owner.  The      *)
(* enclave gives up on a torn node, and nobody unlocks the object.         *)
io_buffer_get ==
    LET o == op.obj IN
    /\ op.pc = "get" /\ ~HasHandle(o) /\ o \notin mutex /\ OpensFile(o).exists
    /\ copy_metadata_file_to_batch_directory(o)
    /\ handle' = [handle EXCEPT ![o] = @ \union {Where(o)}]
    /\ mutex' = mutex \union {o}
    /\ \E late \in BOOLEAN : buf' = [buf EXCEPT ![o] = io_buffer_read(Opened(o, late), o)]
    /\ op' = IF Got(o) = Torn THEN NoOp ELSE [op EXCEPT !.pc = "run", !.node = Got(o)]
    /\ stranded' = IF Got(o) = Torn THEN stranded \union {o} ELSE stranded
    /\ excused' = IF OldCopy(o) THEN excused \union {o} ELSE excused
    /\ overlap' = (overlap \/ buf[o].is_syncing)
    /\ UNCHANGED <<dirs, batch_mode, store, deleted, sync, bounds, live, latest, tried>>

(* The commander has the file open for writing only, or there is no file.  *)
GetFails ==
    /\ op.pc = "get"
    /\ \/ HasHandle(op.obj) /\ sync.pc = "write" /\ sync.obj = op.obj
       \/ ~HasHandle(op.obj) /\ ~OpensFile(op.obj).exists
    /\ op' = NoOp
    /\ UNCHANGED <<dirs, batch_mode, files, buf, handles, deleted, sync, bounds, history>>

(* __release_metadata_buf closes the handle the flags say, forgets both,   *)
(* unlocks the mutex and resets is_dirty.                                  *)
\* Mutant: the mutex is not unlocked.
Release_keeps_mutex(o) == handle' = [handle EXCEPT ![o] = {}] /\ mutex' = mutex

Release(o) == handle' = [handle EXCEPT ![o] = {}] /\ mutex' = mutex \ {o}

(* The metadata stays dirty: a dirnode is not written in batch mode.       *)
Kept(o) == batch_mode /\ o \in dirs

Written(file, o, node) ==
    [file EXCEPT !.node = node,
                 !.data = IF o \notin dirs THEN @ \union {writes + 1} ELSE @]

\* Mutant: a dirnode that stays in memory is not marked dirty.
PutInto_clean(b, o, node) ==
    [b EXCEPT !.node = node, !.newer = {}, !.is_dirty = FALSE, !.batch_mode_modified = @ \/ batch_mode]

PutInto(b, o, node) ==
    [b EXCEPT !.node = node, !.newer = {}, !.is_dirty = Kept(o), !.batch_mode_modified = @ \/ batch_mode]

(* io_buffer_put.                                                          *)
io_buffer_put ==
    LET o    == op.obj
        node == op.node \union {writes + 1}
    IN
    /\ op.pc = "run" /\ HasHandle(o) /\ writes < MaxWrites
    /\ writes' = writes + 1
    /\ IF Kept(o) THEN UNCHANGED files
       ELSE IF Where(o) = "batch"
       THEN batch' = [batch EXCEPT ![o] = Written(@, o, node)] /\ UNCHANGED store
       ELSE store' = [store EXCEPT ![o] = Written(@, o, node)] /\ UNCHANGED batch
    /\ buf' = [buf EXCEPT ![o] = PutInto(@, o, node)]
    /\ Release(o)
    /\ latest' = [latest EXCEPT ![o] = @ \union {writes + 1}]
    /\ op' = NoOp
    /\ UNCHANGED <<dirs, batch_mode, deleted, sync, failures, live, tried, excused, stranded, overlap>>

(* The file cannot be written, flushed or closed: it is as it was, torn,   *)
(* or has the new node, and the data of a filenode came before.  A dirnode *)
(* that stays in memory is only closed.                                    *)
NotPut(b, o, whole, late) ==
    [b EXCEPT !.is_dirty = FALSE, !.batch_mode_modified = @ \/ (batch_mode /\ whole),
              !.newer = IF late THEN @ \union {Where(o)} ELSE @]

PutLeaves(file, o, node) ==
    [file EXCEPT !.node = node,
                 !.data = IF o \notin dirs THEN @ \union {writes + 1} ELSE @]

CloseFails ==
    LET o == op.obj IN
    /\ op.pc = "run" /\ HasHandle(o) /\ Kept(o) /\ Fail
    /\ buf' = [buf EXCEPT ![o] = NotPut(@, o, TRUE, FALSE)]
    /\ Release(o)
    /\ excused' = IF buf[o].is_dirty THEN excused \union {o} ELSE excused
    /\ op' = NoOp
    /\ UNCHANGED <<dirs, batch_mode, files, deleted, sync, live, latest, tried, stranded, overlap>>

PutFails ==
    LET o    == op.obj
        file == IF Where(o) = "batch" THEN batch[o] ELSE store[o]
        new  == op.node \union {writes + 1}
    IN
    /\ op.pc = "run" /\ HasHandle(o) /\ ~Kept(o) /\ writes < MaxWrites
    /\ failures < MaxFailures /\ failures' = failures + 1
    /\ writes' = writes + 1
    /\ \E node \in {file.node, Torn, new}, late \in BOOLEAN :
          /\ IF Where(o) = "batch"
             THEN batch' = [batch EXCEPT ![o] = PutLeaves(@, o, node)] /\ UNCHANGED store
             ELSE store' = [store EXCEPT ![o] = PutLeaves(@, o, node)] /\ UNCHANGED batch
          /\ buf' = [buf EXCEPT ![o] = NotPut(@, o, node = new, late)]
          /\ excused' = IF buf[o].is_dirty \/ o \notin dirs \/ node = Torn THEN excused \union {o} ELSE excused
    /\ Release(o)
    /\ tried' = IF o \in dirs THEN [tried EXCEPT ![o] = @ \union {writes + 1}] ELSE tried
    /\ op' = NoOp
    /\ UNCHANGED <<dirs, batch_mode, deleted, sync, live, latest, stranded, overlap>>

(* io_buffer_put does not find the handle that was opened: the store fails *)
(* and the object is unlocked.                                             *)
PutWithoutFile ==
    /\ op.pc = "run" /\ ~HasHandle(op.obj)
    /\ op' = [op EXCEPT !.pc = "unlock"]
    /\ UNCHANGED <<dirs, batch_mode, files, buf, handles, deleted, sync, bounds, history>>

(* io_buffer_unlock: the operation was denied, or its store failed.        *)
io_buffer_unlock ==
    LET o == op.obj IN
    /\ op.pc \in {"run", "unlock"}
    /\ IF HasHandle(o)
       THEN /\ Release(o)
            /\ buf' = [buf EXCEPT ![o].is_dirty = FALSE]
            /\ excused' = IF buf[o].is_dirty THEN excused \union {o} ELSE excused
       ELSE UNCHANGED <<handles, buf, excused>>
    /\ op' = NoOp
    /\ UNCHANGED <<dirs, batch_mode, files, deleted, sync, bounds, live, latest, tried, stranded, overlap>>

io_buffer_new(o) ==
    /\ op.pc = "idle" /\ o \notin live
    /\ ~store[o].exists /\ ~batch[o].exists /\ latest[o] = {}
    /\ IF batch_mode
       THEN /\ batch' = [batch EXCEPT ![o] = NewFile] /\ UNCHANGED store
            /\ buf' = [buf EXCEPT ![o] = [NoBuf EXCEPT !.exists = TRUE, !.batch_mode_created = TRUE,
                                             !.batch_mode_modified = TRUE, !.batch_file_exists = TRUE]]
       ELSE store' = [store EXCEPT ![o] = NewFile] /\ UNCHANGED <<batch, buf>>
    /\ live' = live \union {o}
    /\ UNCHANGED <<dirs, batch_mode, handles, deleted, op, sync, bounds, latest, tried, excused, stranded, overlap>>

io_buffer_del(o) ==
    /\ op.pc = "idle" /\ sync.pc = "idle" /\ o \in live
    /\ deleted' = IF batch_mode /\ buf[o].sync_file_exists THEN deleted \union {o} ELSE deleted
    /\ buf' = [buf EXCEPT ![o] = NoBuf]
    /\ Release(o)
    /\ \/ UNCHANGED files
       \/ IF batch_mode THEN batch' = [batch EXCEPT ![o] = NoFile] /\ UNCHANGED store
          ELSE store' = [store EXCEPT ![o] = NoFile] /\ UNCHANGED batch
    /\ live' = live \ {o} /\ stranded' = stranded \ {o}
    /\ UNCHANGED <<dirs, batch_mode, op, sync, bounds, latest, tried, excused, overlap>>
-----------------------------------------------------------------------------
(* The commander.                                                          *)

OpHasFile == op.pc \in {"run", "unlock"}

batch_mode_start ==
    /\ sync.pc = "idle" /\ ~batch_mode
    /\ batch_mode' = TRUE
    /\ overlap' = (overlap \/ OpHasFile)
    /\ UNCHANGED <<dirs, files, buf, handles, deleted, op, sync, bounds, live, latest, tried, excused, stranded>>

(* sgx_backend_batch_mode_commit, and _finish.                             *)
batch_mode_commit(finish) ==
    /\ sync.pc = "idle" /\ batch_mode /\ \E o \in Objects : buf[o].exists
    /\ sync' = [pc |-> "next", todo |-> {o \in Objects : buf[o].exists}, obj |-> "none", finish |-> finish]
    /\ UNCHANGED <<dirs, batch_mode, files, buf, handles, deleted, op, bounds, history>>

(* Without any buffer the commit returns at once, before the deletions.    *)
NothingToCommit(finish) ==
    /\ sync.pc = "idle" /\ batch_mode /\ \A o \in Objects : ~buf[o].exists
    /\ batch_mode' = ~finish
    /\ UNCHANGED <<dirs, files, buf, handles, deleted, op, sync, bounds, history>>

(* The next buffer of the table, in an order nobody chose.                 *)
SyncNext(o) ==
    /\ sync.pc = "next" /\ o \in sync.todo
    /\ IF buf[o].batch_mode_modified
       THEN /\ buf' = [buf EXCEPT ![o].is_syncing = TRUE]
            /\ sync' = [sync EXCEPT !.obj = o, !.pc = IF buf[o].is_dirty THEN "open" ELSE "copy"]
            /\ overlap' = (overlap \/ (OpHasFile /\ op.obj = o))
       ELSE sync' = [sync EXCEPT !.todo = @ \ {o}] /\ UNCHANGED <<buf, overlap>>
    /\ UNCHANGED <<dirs, batch_mode, files, handles, deleted, op, bounds, live, latest, tried, excused, stranded>>

(* The flags are reset whether or not the sync succeeded.                  *)
\* Mutant: the object goes on being synced.
Synced_still(b) == [b EXCEPT !.batch_mode_created = FALSE, !.batch_file_exists = FALSE,
                             !.batch_mode_modified = FALSE]

Synced(b) == [b EXCEPT !.is_syncing = FALSE, !.batch_mode_created = FALSE,
                       !.batch_file_exists = FALSE, !.batch_mode_modified = FALSE]

SyncGoesOn    == sync' = [sync EXCEPT !.pc = "next", !.obj = "none", !.todo = @ \ {sync.obj}]
SyncBreaksOff == sync' = NoSync /\ Fail /\ excused' = excused \union {sync.obj}

(* __sync_in_memory_metadata.                                              *)
SyncOpen ==
    LET o == sync.obj IN
    /\ sync.pc = "open"
    /\ \/ /\ HasHandle(o) \/ store[o].exists \/ buf[o].batch_mode_created
          /\ store' = IF store[o].exists THEN store ELSE [store EXCEPT ![o] = NewFile]
          /\ handle' = [handle EXCEPT ![o] = @ \union {"store"}]
          /\ buf' = [buf EXCEPT ![o].sync_file_exists = TRUE]
          /\ IF o \in mutex THEN sync' = [sync EXCEPT !.pc = "wait"] /\ UNCHANGED mutex
             ELSE sync' = [sync EXCEPT !.pc = "write"] /\ mutex' = mutex \union {o}
          /\ UNCHANGED <<bounds, excused>>
       \/ /\ buf' = [buf EXCEPT ![o] = Synced(@)]
          /\ SyncBreaksOff
          /\ UNCHANGED <<store, handles>>
    /\ UNCHANGED <<dirs, batch_mode, batch, deleted, op, live, latest, tried, stranded, overlap>>

SyncGetsMutex ==
    /\ sync.pc = "wait" /\ sync.obj \notin mutex
    /\ mutex' = mutex \union {sync.obj}
    /\ sync' = [sync EXCEPT !.pc = "write"]
    /\ UNCHANGED <<dirs, batch_mode, files, buf, handle, deleted, op, bounds, history>>

WrittenBack(b, late) ==
    [Synced(b) EXCEPT !.is_dirty = FALSE, !.newer = IF late THEN @ \union {"store"} ELSE @]

SyncWrite ==
    LET o == sync.obj IN
    /\ sync.pc = "write" /\ HasHandle(o)
    /\ \/ store' = [store EXCEPT ![o].node = buf[o].node]
       \/ store' = [store EXCEPT ![o].node = Torn]
       \/ store' = store
    /\ \E late \in BOOLEAN : buf' = [buf EXCEPT ![o] = WrittenBack(@, late)]
    /\ Release(o)
    /\ \/ store'[o].node = buf[o].node /\ SyncGoesOn /\ UNCHANGED <<bounds, excused>>
       \/ SyncBreaksOff
    /\ UNCHANGED <<dirs, batch_mode, batch, deleted, op, live, latest, tried, stranded, overlap>>

(* __sync_on_disk_metadata.                                                *)
CopiedBack(b, late) ==
    [Synced(b) EXCEPT !.newer = IF late \/ "batch" \in @ THEN @ \union {"store"} ELSE @]

SyncCopy ==
    LET o == sync.obj IN
    /\ sync.pc = "copy"
    /\ \/ /\ batch[o].exists
          /\ store' = [store EXCEPT ![o] = batch[o]]
          /\ \E late \in BOOLEAN : buf' = [buf EXCEPT ![o] = CopiedBack(@, late)]
          /\ SyncGoesOn /\ UNCHANGED <<bounds, excused>>
       \/ /\ SyncBreaksOff /\ buf' = [buf EXCEPT ![o] = Synced(@)]
          /\ store' = store \/ store' = [store EXCEPT ![o].exists = TRUE, ![o].node = Torn]
    /\ UNCHANGED <<dirs, batch_mode, batch, handles, deleted, op, live, latest, tried, stranded, overlap>>

(* __sync_deleted_uuids, where a failure is ignored, and the end.          *)
SyncEnd ==
    /\ sync.pc = "next" /\ sync.todo = {}
    /\ \E gone \in SUBSET deleted :
          store' = [o \in Objects |-> IF o \in gone THEN NoFile ELSE store[o]]
    /\ deleted' = {}
    /\ batch_mode' = (batch_mode /\ ~sync.finish)
    /\ overlap' = (overlap \/ (sync.finish /\ OpHasFile))
    /\ excused' = IF sync.finish THEN excused \union {o \in Objects : buf[o].batch_mode_modified} ELSE excused
    /\ sync' = NoSync
    /\ UNCHANGED <<dirs, batch, buf, handles, op, bounds, live, latest, tried, stranded>>
-----------------------------------------------------------------------------
(* The client dies; nobody looks at the batch datastore of the past again. *)
Restart ==
    /\ batch_mode' = FALSE
    /\ batch' = [o \in Objects |-> NoFile] /\ buf' = [o \in Objects |-> NoBuf]
    /\ handle' = [o \in Objects |-> {}] /\ mutex' = {}
    /\ deleted' = {} /\ op' = NoOp /\ sync' = NoSync
    /\ live' = {o \in Objects : store[o].exists}
    /\ latest' = [o \in Objects |-> store[o].node] /\ tried' = [o \in Objects |-> {}]
    /\ excused' = {o \in Objects : store[o].node = Torn \/ (o \notin dirs /\ store[o].node # store[o].data)}
    /\ stranded' = {} /\ overlap' = FALSE
    /\ UNCHANGED <<dirs, store, writes>>

Crash == failures < MaxFailures /\ failures' = failures + 1 /\ Restart

(* The commander writes through the NULL that another thread left.         *)
SyncWithoutFile == sync.pc = "write" /\ ~HasHandle(sync.obj) /\ Restart /\ UNCHANGED failures

OpStep   == io_buffer_get \/ GetFails \/ io_buffer_put \/ CloseFails \/ PutFails \/ PutWithoutFile \/ io_buffer_unlock
SyncStep == \/ \E o \in Objects : SyncNext(o)
            \/ SyncOpen \/ SyncGetsMutex \/ SyncWrite \/ SyncCopy \/ SyncEnd \/ SyncWithoutFile

Next ==
    \/ \E o \in Objects : Lookup(o) \/ Begin(o) \/ io_buffer_new(o) \/ io_buffer_del(o)
    \/ OpStep
    \/ batch_mode_start
    \/ \E finish \in BOOLEAN : batch_mode_commit(finish) \/ NothingToCommit(finish)
    \/ SyncStep
    \/ Crash

Spec == Init /\ [][Next]_vars

(* Both threads run; nothing makes an operation or a command begin.        *)
FairSpec == Spec /\ WF_vars(OpStep) /\ WF_vars(SyncStep)
-----------------------------------------------------------------------------
Updates == SUBSET (0 .. MaxWrites)
File    == [exists : BOOLEAN, node : Updates, data : Updates]

(* Types of the files, buffers and threads; a buffer being synced is the   *)
(* commander's.                                                            *)
TypeOK ==
    /\ dirs \subseteq Objects /\ batch_mode \in BOOLEAN
    /\ store \in [Objects -> File] /\ batch \in [Objects -> File]
    /\ buf \in [Objects -> [exists : BOOLEAN, node : Updates, newer : SUBSET {"store", "batch"},
                            is_dirty : BOOLEAN, is_syncing : BOOLEAN, sync_file_exists : BOOLEAN,
                            batch_file_exists : BOOLEAN, batch_mode_created : BOOLEAN,
                            batch_mode_modified : BOOLEAN]]
    /\ \A o \in Objects : buf[o].is_syncing => sync.obj = o
    /\ handle \in [Objects -> SUBSET {"store", "batch"}] /\ mutex \subseteq Objects
    /\ deleted \subseteq Objects
    /\ op.pc \in {"idle", "get", "run", "unlock"} /\ op.node \in Updates
    /\ sync.pc \in {"idle", "next", "open", "wait", "write", "copy"} /\ sync.todo \subseteq Objects
    /\ latest \in [Objects -> Updates] /\ tried \in [Objects -> Updates]
    /\ live \subseteq Objects /\ excused \subseteq Objects /\ stranded \subseteq Objects /\ overlap \in BOOLEAN

(* A node with every update that was acknowledged, and no other but tried  *)
(* ones.                                                                   *)
Fits(node, o) == latest[o] \subseteq node /\ node \subseteq latest[o] \union tried[o]

Holds(file, o) == /\ file.exists /\ Fits(file.node, o)
                  /\ o \notin dirs => file.data = file.node

InOrder == IF overlap THEN {} ELSE live \ excused

(* Nothing is forgotten: the datastore has every update of an object, or   *)
(* the next commit will carry them there, through any order of operations, *)
(* commits, batches, and puts that fail before or after their file was     *)
(* written.  The cases in which an object is not safe: its file was torn,  *)
(* or the put of its filenode failed after the data (io.c:543-563), a sync *)
(* of it failed (io.c:1018 resets its flags all the same), a lock and      *)
(* unlock reset is_dirty of its buffer (io.c:213), a copy left from an     *)
(* earlier batch was opened (io.c:235), batch mode ended after the commit  *)
(* had passed the object and before its next update, or a command came     *)
(* while an operation had a file open.                                     *)
NothingForgotten ==
    \A o \in InOrder :
        \/ Holds(store[o], o)
        \/ /\ batch_mode /\ buf[o].batch_mode_modified
           /\ IF buf[o].is_dirty THEN Fits(buf[o].node, o) ELSE Holds(batch[o], o)

(* An operation finds all the updates acknowledged before it, with the     *)
(* same exceptions: whatever the flags and the mtimes of the two copies    *)
(* are, the content that io_buffer_get would give out now has them.        *)
ReadsLatest == \A o \in InOrder : StatFile(o).exists /\ Fits(Got(o), o)

(* Operations and commits end; the commander and the filesystem wait for   *)
(* each other only when a command came while an operation had a file open, *)
(* or a torn node was read, which leaves the object locked.                *)
Blocked    == overlap \/ stranded # {}
ThreadsEnd == /\ (op.pc # "idle") ~> (op.pc = "idle" \/ Blocked)
              /\ (sync.pc # "idle") ~> (sync.pc = "idle" \/ Blocked)
=============================================================================

--------------------------- MODULE Metadata_proofs ---------------------------
(***************************************************************************)
(* Proofs about Metadata: types for any number of threads; for one thread, *)
(* and any number of seconds, writes and failures beside other clients,    *)
(* that the locks are given back and that no update of another client is   *)
(* lost.                                                                   *)
(***************************************************************************)
EXTENDS Metadata, TLAPS

(* The types, with the contents written so far.                            *)
Upto(w)   == [id : 0 .. w, version : 0 .. w]
Stores(w) == [content : Upto(w), mtime : 0 .. MaxTime]
Bbufs(w)  == [exists : BOOLEAN, content : Upto(w), buffer_time : 0 .. MaxTime]
Mbufs(w)  == [exists : BOOLEAN, timestamp : 0 .. MaxTime, writers : Nat, write_mode : BOOLEAN,
              is_dirty : BOOLEAN, tmp_buffer : Upto(w)]
Metas(w)  == [loaded : BOOLEAN, content : Upto(w), is_dirty : BOOLEAN,
              is_locked : BOOLEAN, is_invalid : BOOLEAN]
Op        == [pc : {"idle", "lock", "stat", "open", "wait", "wait_lock", "read", "run", "transfer"},
              kind : Kinds \union {"read"}, stat : 0 .. MaxTime, raced : BOOLEAN]

Typed ==
    /\ store \in Stores(writes) /\ bbuf \in Bbufs(writes)
    /\ mbuf \in Mbufs(writes) /\ (mbuf.write_mode => mbuf.writers >= 1)
    /\ meta \in Metas(writes)
    /\ flock \in BOOLEAN /\ mutex \in BOOLEAN
    /\ now \in 0 .. MaxTime /\ writes \in 0 .. MaxWrites
    /\ handle \in Kinds \union {"none"}
    /\ op \in [Ops -> Op] /\ (\A o \in Ops : op[o].pc # "idle" => op[o].kind \in Kinds)
    /\ ops_lock \in Ops \union {"none"}
    /\ failed \subseteq {"backend", "parse", "locked"}

(* The states of the lock: nobody counted, or one writer; the file closed, *)
(* or open for an operation of kind k.                                     *)
Clean   == ~mbuf.is_dirty /\ mbuf.tmp_buffer = NoContent
Clear   == mbuf.writers = 0 /\ ~mbuf.write_mode /\ ~meta.is_locked
Taken   == mbuf.writers = 1 /\ mbuf.write_mode /\ meta.is_locked
Closed  == handle = "none" /\ ~mutex /\ ~flock
Open(k) == handle = k /\ mutex /\ (flock <=> TakesFlock(k))

Locks(o) == nexus_io_in_lock_mode(op[o].kind)

(* Only an operation that locks waits; only a transfer lets go of          *)
(* vfs_ops_lock before it has ended.                                       *)
Waits(o) == /\ op[o].pc \in {"lock", "open", "wait", "wait_lock", "transfer"} => Locks(o)
            /\ op[o].pc \notin {"idle", "transfer"} => ops_lock # "none"

(* Where the operation has which lock.                                     *)
Locking(o) ==
    "locked" \notin failed =>
        /\ Clean /\ op[o].pc \notin {"wait", "wait_lock"}
        /\ op[o].pc \in {"idle", "stat", "lock", "open"} => Clear /\ Closed
        /\ op[o].pc = "read" => Clear /\ (IF Locks(o) THEN Open(op[o].kind) ELSE Closed)
        /\ op[o].pc \in {"run", "transfer"} => IF Locks(o) THEN Taken /\ Open(op[o].kind)
                                               ELSE Clear /\ Closed

(* After a read has failed in the backend under the lock, or an open       *)
(* transfer was evicted, the mutex stops every operation but lookups.      *)
Stuck(o) ==
    "locked" \in failed /\ "parse" \notin failed =>
        /\ Clean /\ Clear /\ handle # "none" /\ mutex
        /\ op[o].pc \in {"read", "run"} => op[o].kind = "read"
        /\ op[o].pc # "transfer"

(* A copy that differs from the file is older than the file, or as old.    *)
Clocks == bbuf.buffer_time <= now /\ mbuf.timestamp <= now /\ store.mtime <= now

Fresh ==
    /\ bbuf.exists /\ bbuf.content # store.content => store.mtime >= bbuf.buffer_time
    /\ "parse" \notin failed =>
          (meta.loaded /\ ~meta.is_invalid /\ mbuf.exists /\ meta.content # store.content
             => store.mtime >= mbuf.timestamp)

(* An operation that nothing has overtaken works on the latest content.    *)
Latest(o) ==
    "parse" \notin failed /\ ~op[o].raced =>
        /\ op[o].pc \in {"open", "wait", "read"} =>
              /\ op[o].stat = store.mtime
              /\ bbuf.exists /\ bbuf.content # store.content => store.mtime # bbuf.buffer_time
        /\ op[o].pc \in {"lock", "wait_lock", "run", "transfer"} => meta.content = store.content

OneInv == Clocks /\ Fresh /\ \A o \in Ops : Waits(o) /\ Locking(o) /\ Stuck(o) /\ Latest(o)

OneThread == \E t : Ops = {t}
-----------------------------------------------------------------------------
(* Types.                                                                  *)

LEMMA UptoGrows ==
    ASSUME NEW w \in Nat, NEW w2 \in Nat, w <= w2
    PROVE  /\ Upto(w) \subseteq Upto(w2) /\ Stores(w) \subseteq Stores(w2) /\ Bbufs(w) \subseteq Bbufs(w2)
           /\ Mbufs(w) \subseteq Mbufs(w2) /\ Metas(w) \subseteq Metas(w2)
<1>1. Upto(w) \subseteq Upto(w2)
  BY DEF Upto
<1>2. Stores(w) \subseteq Stores(w2) /\ Bbufs(w) \subseteq Bbufs(w2)
  BY <1>1 DEF Stores, Bbufs
<1>3. Mbufs(w) \subseteq Mbufs(w2)
  BY <1>1 DEF Mbufs
<1>4. Metas(w) \subseteq Metas(w2)
  BY <1>1 DEF Metas
<1> QED
  BY <1>1, <1>2, <1>3, <1>4

LEMMA Constants ==
    /\ MaxTime \in Nat /\ MaxWrites \in Nat /\ MaxWrites >= 1 /\ 0 \in 0 .. MaxTime
    /\ Kinds \subseteq {"read", "update", "encrypt", "decrypt"} /\ "none" \notin Kinds
    /\ IdleOp \in Op /\ IdleOp.pc = "idle" /\ IdleOp.raced = FALSE /\ IdleOp.kind = "read"
    /\ \A w \in Nat : NoContent \in Upto(w) /\ NoMeta \in Metas(w) /\ NoMbuf \in Mbufs(w) /\ NoBbuf \in Bbufs(w)
<1>1. MaxTime \in Nat /\ MaxWrites \in Nat /\ MaxWrites >= 1 /\ 0 \in 0 .. MaxTime
  BY BoundsAssumption
<1>2. Kinds \subseteq {"read", "update", "encrypt", "decrypt"} /\ "none" \notin Kinds
  BY KindsAssumption
<1>3. IdleOp \in Op /\ IdleOp.pc = "idle" /\ IdleOp.raced = FALSE /\ IdleOp.kind = "read"
  BY <1>1 DEF IdleOp, Op
<1>4. ASSUME NEW w \in Nat
      PROVE  NoContent \in Upto(w) /\ NoMeta \in Metas(w) /\ NoMbuf \in Mbufs(w) /\ NoBbuf \in Bbufs(w)
  <2>1. NoContent \in Upto(w)
    BY DEF NoContent, Upto
  <2>2. NoMeta \in Metas(w)
    BY <2>1 DEF NoMeta, Metas
  <2>3. NoMbuf \in Mbufs(w)
    BY <1>1, <2>1 DEF NoMbuf, Mbufs
  <2>4. NoBbuf \in Bbufs(w)
    BY <1>1, <2>1 DEF NoBbuf, Bbufs
  <2> QED
    BY <2>1, <2>2, <2>3, <2>4
<1> QED
  BY <1>1, <1>2, <1>3, <1>4

LEMMA Fields ==
    ASSUME Typed
    PROVE  /\ writes \in Nat /\ now \in Nat
           /\ store.content \in Upto(writes) /\ store.mtime \in 0 .. MaxTime /\ store.mtime \in Nat
           /\ bbuf.exists \in BOOLEAN /\ bbuf.content \in Upto(writes)
           /\ bbuf.buffer_time \in 0 .. MaxTime /\ bbuf.buffer_time \in Nat
           /\ mbuf.exists \in BOOLEAN /\ mbuf.timestamp \in 0 .. MaxTime /\ mbuf.timestamp \in Nat
           /\ mbuf.writers \in Nat /\ mbuf.write_mode \in BOOLEAN /\ mbuf.is_dirty \in BOOLEAN
           /\ mbuf.tmp_buffer \in Upto(writes)
           /\ meta.loaded \in BOOLEAN /\ meta.content \in Upto(writes) /\ meta.is_dirty \in BOOLEAN
           /\ meta.is_locked \in BOOLEAN /\ meta.is_invalid \in BOOLEAN
<1>1. writes \in Nat /\ now \in Nat
  BY Constants DEF Typed
<1>2. store.content \in Upto(writes) /\ store.mtime \in 0 .. MaxTime
  BY DEF Typed, Stores
<1>3. bbuf.exists \in BOOLEAN /\ bbuf.content \in Upto(writes) /\ bbuf.buffer_time \in 0 .. MaxTime
  BY DEF Typed, Bbufs
<1>4. /\ mbuf.exists \in BOOLEAN /\ mbuf.timestamp \in 0 .. MaxTime /\ mbuf.writers \in Nat
      /\ mbuf.write_mode \in BOOLEAN /\ mbuf.is_dirty \in BOOLEAN /\ mbuf.tmp_buffer \in Upto(writes)
  BY DEF Typed, Mbufs
<1>5. /\ meta.loaded \in BOOLEAN /\ meta.content \in Upto(writes) /\ meta.is_dirty \in BOOLEAN
      /\ meta.is_locked \in BOOLEAN /\ meta.is_invalid \in BOOLEAN
  BY DEF Typed, Metas
<1> QED
  BY <1>1, <1>2, <1>3, <1>4, <1>5, Constants

LEMMA OpFields ==
    ASSUME Typed, NEW o \in Ops
    PROVE  /\ op[o] \in Op /\ op[o].kind \in Kinds \union {"read"} /\ op[o].stat \in 0 .. MaxTime
           /\ op[o].pc \in {"idle", "lock", "stat", "open", "wait", "wait_lock", "read", "run", "transfer"}
           /\ op[o].raced \in BOOLEAN /\ (op[o].pc # "idle" => op[o].kind \in Kinds)
<1>1. op[o] \in Op
  BY DEF Typed
<1> QED
  BY <1>1 DEF Typed, Op

LEMMA NewContent ==
    ASSUME Typed, writes < MaxWrites, writes' = writes + 1, NEW m \in Metas(writes)
    PROVE  /\ NewContentOf(m) \in Upto(writes') /\ NewContentOf(m).version = m.content.version + 1
           /\ NewContentOf(m).id = writes + 1 /\ writes' \in 0 .. MaxWrites /\ writes' \in Nat /\ writes <= writes'
<1>1. writes \in Nat /\ m.content \in Upto(writes)
  BY Fields DEF Metas
<1>2. m.content.version \in 0 .. writes
  BY <1>1 DEF Upto
<1> QED
  BY <1>1, <1>2, Constants DEF NewContentOf, Upto

(* Operations: one changes, the others at most learn that they were        *)
(* overtaken.                                                              *)
LEMMA OverFields ==
    ASSUME Typed, NEW o \in Ops
    PROVE  /\ Overtaken(o) \in Op /\ Overtaken(o).pc = op[o].pc /\ Overtaken(o).kind = op[o].kind
           /\ Overtaken(o).stat = op[o].stat
           /\ Overtaken(o).raced <=> op[o].raced \/ op[o].pc \notin {"idle", "stat"}
<1>1. op[o] \in Op /\ op[o].raced \in BOOLEAN
  BY OpFields
<1>2. PICK b \in BOOLEAN : b <=> op[o].raced \/ op[o].pc \notin {"idle", "stat"}
  OBVIOUS
<1>3. Overtaken(o) = [op[o] EXCEPT !.raced = b]
  BY <1>1, <1>2 DEF Overtaken
<1> QED
  BY <1>1, <1>2, <1>3 DEF Op

LEMMA EndTyped ==
    ASSUME Typed, NEW o \in Ops, EndOp(o)
    PROVE  /\ op' \in [Ops -> Op] /\ \A p \in Ops : op'[p].pc # "idle" => op'[p].kind \in Kinds
           /\ op'[o] = IdleOp
<1>1. \A p \in Ops : /\ Overtaken(p) \in Op /\ op[p] \in Op /\ Overtaken(p).pc = op[p].pc
                     /\ Overtaken(p).kind = op[p].kind /\ (op[p].pc # "idle" => op[p].kind \in Kinds)
  BY OverFields, OpFields
<1>2. op' = [p \in Ops |-> IF p = o THEN IdleOp ELSE IF store' = store THEN op[p] ELSE Overtaken(p)]
  BY DEF EndOp
<1>3. op' \in [Ops -> Op]
  BY <1>1, <1>2, Constants
<1>4. \A p \in Ops : op'[p] = IF p = o THEN IdleOp ELSE IF store' = store THEN op[p] ELSE Overtaken(p)
  BY <1>2
<1> QED
  BY <1>1, <1>3, <1>4, Constants

LEMMA OneOpTyped ==
    ASSUME Typed, NEW o \in Ops, NEW r \in Op, r.pc # "idle" => r.kind \in Kinds, op' = [op EXCEPT ![o] = r]
    PROVE  /\ op' \in [Ops -> Op] /\ \A p \in Ops : op'[p].pc # "idle" => op'[p].kind \in Kinds
           /\ op'[o] = r
BY DEF Typed

(* What a put does to the buffer layer and the file.                       *)
LEMMA PutTyped ==
    ASSUME Typed, NEW m \in Metas(writes), NEW b \in Mbufs(writes), b.write_mode => b.writers >= 1,
           nexus_vfs_put(m, b)
    PROVE  /\ mbuf' \in Mbufs(writes) /\ (mbuf'.write_mode => mbuf'.writers >= 1)
           /\ meta' \in Metas(writes) /\ handle' \in Kinds \union {"none"}
           /\ flock' \in BOOLEAN /\ mutex' \in BOOLEAN
<1>1. meta' \in Metas(writes)
  BY DEF nexus_vfs_put, Metas
<1>2. handle' \in Kinds \union {"none"} /\ flock' \in BOOLEAN /\ mutex' \in BOOLEAN
  BY DEF nexus_vfs_put, ReleaseFile, Typed
<1>3. CASE m.is_locked /\ b.write_mode
  <2>1. b.writers \in Nat /\ b.writers >= 1
    BY <1>3 DEF Mbufs
  <2>2. PICK w \in Nat : w = b.writers - 1
    BY <2>1
  <2>3. PICK f \in BOOLEAN : f <=> b.writers > 1
    OBVIOUS
  <2>4. mbuf' = [b EXCEPT !.writers = w, !.write_mode = f]
    <3>1. mbuf' = [b EXCEPT !.writers = b.writers - 1, !.write_mode = b.writers > 1]
      BY <1>3 DEF nexus_vfs_put
    <3>2. f = (b.writers > 1)
      BY <2>1, <2>3
    <3> QED
      BY <2>2, <3>1, <3>2
  <2>5. mbuf' \in Mbufs(writes) /\ mbuf'.writers = w /\ mbuf'.write_mode = f
    BY <2>4 DEF Mbufs
  <2> QED
    BY <1>1, <1>2, <2>1, <2>2, <2>3, <2>5
<1>4. CASE ~(m.is_locked /\ b.write_mode)
  BY <1>1, <1>2, <1>4 DEF nexus_vfs_put
<1> QED
  BY <1>3, <1>4

(* The variables a store changes have their types, with the new content.   *)
StorageTyped ==
    /\ store \in Stores(writes) /\ bbuf \in Bbufs(writes)
    /\ mbuf \in Mbufs(writes) /\ (mbuf.write_mode => mbuf.writers >= 1)
    /\ meta \in Metas(writes)
    /\ flock \in BOOLEAN /\ mutex \in BOOLEAN
    /\ writes \in 0 .. MaxWrites
    /\ handle \in Kinds \union {"none"}

LEMMA DeferredTyped ==
    ASSUME Typed, StoreDeferred
    PROVE  StorageTyped'
<1>1. /\ store \in Stores(writes) /\ bbuf \in Bbufs(writes) /\ mbuf \in Mbufs(writes) /\ meta \in Metas(writes)
  BY DEF Typed
<1>2. PICK n : n = NewContentOf(meta)
  OBVIOUS
<1>3. /\ n \in Upto(writes') /\ writes' \in 0 .. MaxWrites /\ writes' \in Nat /\ writes \in Nat /\ writes <= writes'
  BY <1>1, <1>2, NewContent, Fields DEF StoreDeferred
<1>4. /\ store' \in Stores(writes') /\ bbuf' \in Bbufs(writes') /\ mbuf \in Mbufs(writes') /\ meta \in Metas(writes')
  BY <1>1, <1>3, UptoGrows DEF StoreDeferred
<1>5. meta' \in Metas(writes')
  <2>1. meta' = [meta EXCEPT !.content = n, !.is_dirty = FALSE, !.is_locked = FALSE]
    BY <1>2 DEF StoreDeferred, Stored
  <2> QED
    BY <1>3, <1>4, <2>1 DEF Metas
<1>6. PICK w \in Nat : w = mbuf.writers - 1 /\ w >= 1
  BY Fields DEF StoreDeferred
<1>7. mbuf' = [mbuf EXCEPT !.is_dirty = TRUE, !.writers = w, !.tmp_buffer = n]
  BY <1>2, <1>6 DEF StoreDeferred
<1>8. mbuf' \in Mbufs(writes') /\ mbuf'.writers = w
  BY <1>3, <1>4, <1>7 DEF Mbufs
<1>9. handle' \in Kinds \union {"none"} /\ flock' \in BOOLEAN /\ mutex' \in BOOLEAN
  BY DEF StoreDeferred, Typed
<1> QED
  BY <1>3, <1>4, <1>5, <1>6, <1>8, <1>9 DEF StorageTyped

LEMMA FlushedTyped ==
    ASSUME Typed, StoreFlushed
    PROVE  StorageTyped'
<1>1. /\ mbuf \in Mbufs(writes) /\ meta \in Metas(writes) /\ now \in 0 .. MaxTime
  BY DEF Typed
<1>2. PICK n : n = NewContentOf(meta)
  OBVIOUS
<1>3. /\ n \in Upto(writes') /\ writes' \in 0 .. MaxWrites /\ writes' \in Nat /\ writes \in Nat /\ writes <= writes'
  BY <1>1, <1>2, NewContent, Fields DEF StoreFlushed
<1>4. mbuf \in Mbufs(writes') /\ meta \in Metas(writes')
  BY <1>1, <1>3, UptoGrows
<1>5. meta' \in Metas(writes')
  <2>1. meta' = [meta EXCEPT !.content = n, !.is_dirty = FALSE, !.is_locked = FALSE]
    BY <1>2 DEF StoreFlushed, Stored
  <2> QED
    BY <1>3, <1>4, <2>1 DEF Metas
<1>6. NoContent \in Upto(writes')
  BY <1>3, Constants
<1>7. mbuf' \in Mbufs(writes') /\ ~mbuf'.write_mode
  <2>1. mbuf' = [mbuf EXCEPT !.writers = 0, !.write_mode = FALSE, !.timestamp = now, !.tmp_buffer = NoContent]
    BY DEF StoreFlushed
  <2> QED
    BY <1>1, <1>4, <1>6, <2>1 DEF Mbufs
<1>8. store' \in Stores(writes') /\ bbuf' \in Bbufs(writes')
  BY <1>1, <1>2, <1>3 DEF StoreFlushed, Stores, Bbufs
<1>9. handle' \in Kinds \union {"none"} /\ flock' \in BOOLEAN /\ mutex' \in BOOLEAN
  BY DEF StoreFlushed, ReleaseFile, Typed
<1> QED
  BY <1>3, <1>5, <1>7, <1>8, <1>9 DEF StorageTyped

(* The object and the buffer that nexus_vfs_put gets after a failed store. *)
FailedMeta == [meta EXCEPT !.is_invalid = TRUE, !.is_locked = mbuf.write_mode]
FailedMbuf == IF mbuf.write_mode THEN [mbuf EXCEPT !.tmp_buffer = NoContent] ELSE mbuf

LEMMA FailedFields ==
    ASSUME Typed
    PROVE  /\ FailedMeta \in Metas(writes) /\ FailedMeta.loaded = meta.loaded
           /\ FailedMeta.content = meta.content /\ FailedMeta.is_invalid = TRUE
           /\ FailedMeta.is_locked = mbuf.write_mode
           /\ FailedMbuf \in Mbufs(writes) /\ FailedMbuf.write_mode = mbuf.write_mode
           /\ FailedMbuf.writers = mbuf.writers /\ FailedMbuf.is_dirty = mbuf.is_dirty
           /\ FailedMbuf.timestamp = mbuf.timestamp /\ FailedMbuf.exists = mbuf.exists
           /\ FailedMbuf.tmp_buffer = IF mbuf.write_mode THEN NoContent ELSE mbuf.tmp_buffer
<1>1. mbuf \in Mbufs(writes) /\ meta \in Metas(writes) /\ mbuf.write_mode \in BOOLEAN /\ writes \in Nat
  BY Fields DEF Typed
<1>2. NoContent \in Upto(writes)
  BY <1>1, Constants
<1>3. /\ FailedMeta \in Metas(writes) /\ FailedMeta.loaded = meta.loaded
      /\ FailedMeta.content = meta.content /\ FailedMeta.is_invalid = TRUE
      /\ FailedMeta.is_locked = mbuf.write_mode
  BY <1>1 DEF FailedMeta, Metas
<1>4. CASE mbuf.write_mode
  BY <1>1, <1>2, <1>3, <1>4 DEF FailedMbuf, Mbufs
<1>5. CASE ~mbuf.write_mode
  BY <1>1, <1>3, <1>5 DEF FailedMbuf
<1> QED
  BY <1>4, <1>5

LEMMA StoreFailsTyped ==
    ASSUME Typed, StoreFails
    PROVE  StorageTyped'
<1>1. nexus_vfs_put(FailedMeta, FailedMbuf)
  BY DEF StoreFails, FailedMeta, FailedMbuf
<1>2. /\ FailedMeta \in Metas(writes) /\ FailedMbuf \in Mbufs(writes)
      /\ (FailedMbuf.write_mode => FailedMbuf.writers >= 1)
  BY FailedFields DEF Typed
<1>3. /\ mbuf' \in Mbufs(writes) /\ (mbuf'.write_mode => mbuf'.writers >= 1)
      /\ meta' \in Metas(writes) /\ handle' \in Kinds \union {"none"}
      /\ flock' \in BOOLEAN /\ mutex' \in BOOLEAN
  BY <1>1, <1>2, PutTyped
<1>4. UNCHANGED bbuf /\ writes \in Nat
  BY Fields DEF StoreFails
<1>5. CASE UNCHANGED <<store, writes>>
  BY <1>3, <1>4, <1>5 DEF StorageTyped, Typed
<1>6. CASE /\ mbuf.write_mode /\ mbuf.writers <= 1 /\ TakesFlock(handle) /\ writes < MaxWrites
           /\ writes' = writes + 1
           /\ store' = [content |-> NewContentOf(meta), mtime |-> now]
  <2>1. meta \in Metas(writes) /\ bbuf \in Bbufs(writes) /\ now \in 0 .. MaxTime
    BY DEF Typed
  <2>2. PICK n : n = NewContentOf(meta)
    OBVIOUS
  <2>3. /\ n \in Upto(writes') /\ writes' \in 0 .. MaxWrites /\ writes' \in Nat /\ writes <= writes'
    BY <1>6, <2>1, <2>2, NewContent
  <2>4. store' \in Stores(writes')
    BY <1>6, <2>1, <2>2, <2>3 DEF Stores
  <2>5. mbuf' \in Mbufs(writes') /\ meta' \in Metas(writes') /\ bbuf' \in Bbufs(writes')
    BY <1>3, <1>4, <2>1, <2>3, UptoGrows
  <2> QED
    BY <1>3, <2>3, <2>4, <2>5 DEF StorageTyped
<1> QED
  BY <1>5, <1>6 DEF StoreFails

LEMMA StoreTyped ==
    ASSUME Typed, nexus_metadata_store
    PROVE  StorageTyped'
BY DeferredTyped, FlushedTyped, StoreFailsTyped DEF nexus_metadata_store

(* The object is read into the three caches.                               *)
LEMMA ReadFields ==
    ASSUME Typed, NEW o \in Ops, NEW b, b = io_buffer_read(o), NEW k
    PROVE  /\ b \in Bbufs(writes) /\ b.exists = TRUE
           /\ IF bbuf.exists /\ bbuf.buffer_time >= op[o].stat THEN b = bbuf
              ELSE b.content = store.content /\ b.buffer_time = now
           /\ Loaded(b.content, k) \in Metas(writes) /\ Loaded(b.content, k).content = b.content
           /\ Loaded(b.content, k).loaded = TRUE /\ Loaded(b.content, k).is_invalid = FALSE
           /\ Loaded(b.content, k).is_locked <=> nexus_io_in_lock_mode(k)
<1>1. store.content \in Upto(writes) /\ now \in 0 .. MaxTime /\ bbuf \in Bbufs(writes) /\ bbuf.exists \in BOOLEAN
  BY Fields DEF Typed
<1>2. /\ b \in Bbufs(writes) /\ b.exists = TRUE
      /\ IF bbuf.exists /\ bbuf.buffer_time >= op[o].stat THEN b = bbuf
         ELSE b.content = store.content /\ b.buffer_time = now
  BY <1>1 DEF io_buffer_read, Bbufs
<1>3. b.content \in Upto(writes)
  BY <1>2 DEF Bbufs
<1>4. PICK l \in BOOLEAN : l = nexus_io_in_lock_mode(k)
  BY DEF nexus_io_in_lock_mode
<1>5. Loaded(b.content, k) = [loaded |-> TRUE, content |-> b.content, is_dirty |-> FALSE,
                              is_locked |-> l, is_invalid |-> FALSE]
  BY <1>4 DEF Loaded
<1> QED
  BY <1>2, <1>3, <1>4, <1>5 DEF Metas

LEMMA BcacheFields ==
    ASSUME Typed, NEW t \in 0 .. MaxTime, NEW k
    PROVE  LET m == BcacheUpdate(t, k) IN
           /\ m \in Mbufs(writes) /\ m.exists = TRUE /\ m.timestamp = t
           /\ m.write_mode <=> nexus_io_in_lock_mode(k)
           /\ m.writers = IF nexus_io_in_lock_mode(k) THEN mbuf.writers + 1 ELSE mbuf.writers
           /\ m.is_dirty = mbuf.is_dirty /\ m.tmp_buffer = mbuf.tmp_buffer
           /\ m.write_mode => m.writers >= 1
<1>1. mbuf \in Mbufs(writes) /\ mbuf.writers \in Nat
  BY Fields DEF Typed
<1>2. PICK l \in BOOLEAN : l = nexus_io_in_lock_mode(k)
  BY DEF nexus_io_in_lock_mode
<1>3. PICK w \in Nat : w = IF l THEN mbuf.writers + 1 ELSE mbuf.writers
  BY <1>1
<1>4. BcacheUpdate(t, k) = [mbuf EXCEPT !.exists = TRUE, !.timestamp = t, !.write_mode = l, !.writers = w]
  BY <1>2, <1>3 DEF BcacheUpdate
<1>5. PICK m : m = BcacheUpdate(t, k)
  OBVIOUS
<1>6. /\ m \in Mbufs(writes) /\ m.exists = TRUE /\ m.timestamp = t /\ m.write_mode = l /\ m.writers = w
      /\ m.is_dirty = mbuf.is_dirty /\ m.tmp_buffer = mbuf.tmp_buffer
  BY <1>1, <1>4, <1>5 DEF Mbufs
<1> QED
  BY <1>1, <1>2, <1>3, <1>5, <1>6

(* The operation of o goes on at pc.                                       *)
LEMMA PcTyped ==
    ASSUME Typed, NEW o \in Ops, op[o].pc # "idle", op' = [op EXCEPT ![o].pc = "run"] \/
           op' = [op EXCEPT ![o].pc = "read"] \/ op' = [op EXCEPT ![o].pc = "wait"] \/
           op' = [op EXCEPT ![o].pc = "wait_lock"]
    PROVE  /\ op' \in [Ops -> Op] /\ \A p \in Ops : op'[p].pc # "idle" => op'[p].kind \in Kinds
           /\ op'[o].pc \in {"run", "read", "wait", "wait_lock"} /\ op'[o].kind = op[o].kind
           /\ op'[o].stat = op[o].stat /\ op'[o].raced = op[o].raced
           /\ op' = [op EXCEPT ![o].pc = "run"] => op'[o].pc = "run"
           /\ op' = [op EXCEPT ![o].pc = "read"] => op'[o].pc = "read"
           /\ op' = [op EXCEPT ![o].pc = "wait"] => op'[o].pc = "wait"
           /\ op' = [op EXCEPT ![o].pc = "wait_lock"] => op'[o].pc = "wait_lock"
<1>1. op[o] \in Op /\ op[o].kind \in Kinds /\ op \in [Ops -> Op]
  BY OpFields DEF Typed
<1>2. ASSUME NEW c \in {"run", "read", "wait", "wait_lock"}, op' = [op EXCEPT ![o].pc = c]
      PROVE  /\ op' \in [Ops -> Op] /\ \A p \in Ops : op'[p].pc # "idle" => op'[p].kind \in Kinds
             /\ op'[o].pc = c /\ op'[o].kind = op[o].kind
             /\ op'[o].stat = op[o].stat /\ op'[o].raced = op[o].raced
  <2>1. PICK r : r = [op[o] EXCEPT !.pc = c]
    OBVIOUS
  <2>2. op' = [op EXCEPT ![o] = r]
    BY <1>1, <1>2, <2>1
  <2>3. /\ r \in Op /\ r.pc = c /\ r.kind = op[o].kind /\ r.stat = op[o].stat /\ r.raced = op[o].raced
    BY <1>1, <2>1 DEF Op
  <2>4. /\ op' \in [Ops -> Op] /\ \A p \in Ops : op'[p].pc # "idle" => op'[p].kind \in Kinds
        /\ op'[o] = r
    BY <1>1, <2>2, <2>3, OneOpTyped
  <2> QED
    BY <2>3, <2>4
<1> QED
  BY <1>2

LEMMA IdleTyped ==
    ASSUME Typed, NEW o \in Ops, op' = [op EXCEPT ![o] = IdleOp]
    PROVE  /\ op' \in [Ops -> Op] /\ \A p \in Ops : op'[p].pc # "idle" => op'[p].kind \in Kinds
           /\ op'[o] = IdleOp
BY Constants, OneOpTyped

LEMMA StartTyped ==
    ASSUME Typed, NEW o \in Ops, NEW kind \in Kinds, Start(o, kind)
    PROVE  /\ Typed' /\ op'[o].kind = kind
           /\ \E s \in BOOLEAN :
                 /\ op'[o].pc = IF has_changed(s) THEN "stat"
                                ELSE IF nexus_io_in_lock_mode(kind) THEN "lock" ELSE "run"
                 /\ op'[o].raced <=> /\ ~has_changed(s)
                                     /\ \/ SameSecond(meta.content, mbuf.timestamp)
                                        \/ ~s /\ meta.content # store.content
<1>1. PICK s \in BOOLEAN :
         op' = [op EXCEPT ![o] =
                    [pc    |-> IF has_changed(s) THEN "stat"
                               ELSE IF nexus_io_in_lock_mode(kind) THEN "lock" ELSE "run",
                     kind  |-> kind, stat |-> 0,
                     raced |-> /\ ~has_changed(s)
                               /\ \/ SameSecond(meta.content, mbuf.timestamp)
                                  \/ ~s /\ meta.content # store.content]]
  BY DEF Start
<1>2. PICK pc \in {"stat", "lock", "run"} : pc = IF has_changed(s) THEN "stat"
                               ELSE IF nexus_io_in_lock_mode(kind) THEN "lock" ELSE "run"
  OBVIOUS
<1>3. PICK raced \in BOOLEAN : raced = (/\ ~has_changed(s)
                               /\ \/ SameSecond(meta.content, mbuf.timestamp)
                                  \/ ~s /\ meta.content # store.content)
  OBVIOUS
<1>4. PICK r : r = [pc |-> pc, kind |-> kind, stat |-> 0, raced |-> raced]
  OBVIOUS
<1>5. op' = [op EXCEPT ![o] = r]
  BY <1>1, <1>2, <1>3, <1>4
<1>6. r \in Op /\ r.kind = kind /\ r.pc = pc /\ r.raced = raced
  BY <1>4, Constants DEF Op
<1>7. op' \in [Ops -> Op] /\ (\A p \in Ops : op'[p].pc # "idle" => op'[p].kind \in Kinds) /\ op'[o] = r
  BY <1>5, <1>6, OneOpTyped
<1>8. UNCHANGED <<store, flock, now, bbuf, handle, mutex, mbuf, meta, writes, failed>> /\ ops_lock' = o
  BY DEF Start
<1>9. Typed'
  BY <1>7, <1>8 DEF Typed
<1> QED
  BY <1>2, <1>3, <1>6, <1>7, <1>9

LEMMA LockTyped ==
    ASSUME Typed, NEW o \in Ops, buffer_layer_lock(o)
    PROVE  Typed'
<1>1. op[o].pc # "idle" /\ op[o].kind \in Kinds /\ LockCounted(o)
  BY OpFields DEF buffer_layer_lock
<1>2. op' \in [Ops -> Op] /\ \A p \in Ops : op'[p].pc # "idle" => op'[p].kind \in Kinds
  BY <1>1, PcTyped DEF LockCounted
<1>3. PICK w \in Nat : w = mbuf.writers + 1
  BY Fields
<1>4. mbuf' = [mbuf EXCEPT !.writers = w, !.write_mode = TRUE]
  BY <1>1, <1>3 DEF LockCounted
<1>5. mbuf' \in Mbufs(writes) /\ mbuf'.writers = w /\ w >= 1
  <2>1. mbuf \in Mbufs(writes) /\ w >= 1
    BY <1>3, Fields DEF Typed
  <2> QED
    BY <1>4, <2>1 DEF Mbufs
<1>6. meta' \in Metas(writes)
  BY <1>1 DEF LockCounted, Metas, Typed
<1>7. handle' \in Kinds \union {"none"} /\ flock' \in BOOLEAN /\ mutex' \in BOOLEAN
  <2>1. handle \in Kinds \union {"none"} /\ flock \in BOOLEAN /\ mutex \in BOOLEAN
    BY DEF Typed
  <2>2. CASE UNCHANGED <<handle, mutex, flock>>
    BY <2>1, <2>2
  <2>3. CASE OpenFile(op[o].kind)
    BY <1>1, <2>3 DEF OpenFile, TakesFlock
  <2> QED
    BY <2>2, <2>3 DEF buffer_layer_lock
<1>8. UNCHANGED <<store, now, bbuf, ops_lock, writes, failed>>
  BY <1>1 DEF LockCounted
<1> QED
  BY <1>2, <1>5, <1>6, <1>7, <1>8 DEF Typed

LEMMA GetDirtyTyped ==
    ASSUME Typed, NEW o \in Ops, buffer_layer_get_dirty(o)
    PROVE  Typed'
<1>1. op' \in [Ops -> Op] /\ \A p \in Ops : op'[p].pc # "idle" => op'[p].kind \in Kinds
  BY PcTyped DEF buffer_layer_get_dirty
<1>2. PICK l \in BOOLEAN : l = nexus_io_in_lock_mode(op[o].kind)
  BY DEF nexus_io_in_lock_mode
<1>3. meta' = [loaded |-> TRUE, content |-> mbuf.tmp_buffer, is_dirty |-> FALSE, is_locked |-> l, is_invalid |-> FALSE]
  BY <1>2 DEF buffer_layer_get_dirty, Loaded
<1>4. meta' \in Metas(writes)
  BY <1>3, Fields DEF Metas
<1>5. UNCHANGED <<store, flock, now, bbuf, handle, mutex, mbuf, ops_lock, writes, failed>>
  BY DEF buffer_layer_get_dirty
<1> QED
  BY <1>1, <1>4, <1>5 DEF Typed

LEMMA GetStatTyped ==
    ASSUME Typed, NEW o \in Ops, buffer_layer_get_stat(o)
    PROVE  /\ Typed' /\ op'[o].stat = store.mtime /\ op'[o].kind = op[o].kind
           /\ op'[o].pc = IF Locks(o) THEN "open" ELSE "read"
           /\ op'[o].raced <=> bbuf.exists /\ SameSecond(bbuf.content, bbuf.buffer_time)
<1>1. op[o] \in Op /\ op \in [Ops -> Op] /\ op[o].pc = "stat" /\ op[o].kind \in Kinds
  BY OpFields DEF Typed, buffer_layer_get_stat
<1>2. PICK pc \in {"open", "read"} : pc = IF nexus_io_in_lock_mode(op[o].kind) THEN "open" ELSE "read"
  OBVIOUS
<1>3. PICK raced \in BOOLEAN : raced = (bbuf.exists /\ SameSecond(bbuf.content, bbuf.buffer_time))
  BY Fields
<1>4. PICK r : r = [op[o] EXCEPT !.pc = pc, !.stat = store.mtime, !.raced = raced]
  OBVIOUS
<1>5. op' = [op EXCEPT ![o] = r]
  BY <1>1, <1>2, <1>3, <1>4 DEF buffer_layer_get_stat
<1>6. r \in Op /\ r.kind = op[o].kind /\ r.pc = pc /\ r.stat = store.mtime /\ r.raced = raced
  BY <1>1, <1>4, Fields DEF Op
<1>7. op' \in [Ops -> Op] /\ (\A p \in Ops : op'[p].pc # "idle" => op'[p].kind \in Kinds) /\ op'[o] = r
  BY <1>1, <1>5, <1>6, OneOpTyped
<1>8. UNCHANGED <<store, flock, now, bbuf, handle, mutex, mbuf, meta, ops_lock, writes, failed>>
  BY DEF buffer_layer_get_stat
<1>9. Typed'
  BY <1>7, <1>8 DEF Typed
<1> QED
  BY <1>2, <1>3, <1>6, <1>7, <1>9 DEF Locks

LEMMA FileTyped ==
    ASSUME Typed, NEW o \in Ops,
           buffer_layer_get_lost(o) \/ io_buffer_lock(o) \/ FileIsOpen(o) \/ WaitedForMutex(o)
    PROVE  Typed'
<1>1. CASE buffer_layer_get_lost(o)
  <2>1. op' \in [Ops -> Op] /\ \A p \in Ops : op'[p].pc # "idle" => op'[p].kind \in Kinds
    BY <1>1, IdleTyped DEF buffer_layer_get_lost
  <2>2. UNCHANGED <<store, flock, now, bbuf, handle, mutex, mbuf, meta, writes, failed>> /\ ops_lock' = "none"
    BY <1>1 DEF buffer_layer_get_lost
  <2> QED
    BY <2>1, <2>2 DEF Typed
<1>2. CASE io_buffer_lock(o)
  <2>1. op[o].pc = "open" /\ op[o].kind \in Kinds
    BY <1>2, OpFields DEF io_buffer_lock
  <2>2. op' \in [Ops -> Op] /\ \A p \in Ops : op'[p].pc # "idle" => op'[p].kind \in Kinds
    BY <1>2, <2>1, PcTyped DEF io_buffer_lock
  <2>3. handle' \in Kinds \union {"none"} /\ flock' \in BOOLEAN /\ mutex' \in BOOLEAN
    BY <1>2, <2>1 DEF io_buffer_lock, OpenFile, TakesFlock
  <2>4. UNCHANGED <<store, now, bbuf, mbuf, meta, ops_lock, writes, failed>>
    BY <1>2 DEF io_buffer_lock
  <2> QED
    BY <2>2, <2>3, <2>4 DEF Typed
<1>3. CASE FileIsOpen(o)
  <2>1. /\ op[o].pc # "idle"
        /\ \/ op' = [op EXCEPT ![o] = IdleOp] \/ op' = [op EXCEPT ![o].pc = "wait"]
           \/ op' = [op EXCEPT ![o].pc = "wait_lock"]
    BY <1>3 DEF FileIsOpen
  <2>2. op' \in [Ops -> Op] /\ \A p \in Ops : op'[p].pc # "idle" => op'[p].kind \in Kinds
    BY <2>1, PcTyped, IdleTyped
  <2>3. ops_lock' \in Ops \union {"none"}
    BY <1>3 DEF FileIsOpen, Typed
  <2>4. UNCHANGED <<store, flock, now, bbuf, handle, mutex, mbuf, meta, writes, failed>>
    BY <1>3 DEF FileIsOpen
  <2> QED
    BY <2>2, <2>3, <2>4 DEF Typed
<1>4. CASE WaitedForMutex(o)
  <2>1. op' \in [Ops -> Op] /\ \A p \in Ops : op'[p].pc # "idle" => op'[p].kind \in Kinds
    BY <1>4, PcTyped DEF WaitedForMutex
  <2>2. UNCHANGED <<store, flock, now, bbuf, handle, mbuf, meta, ops_lock, writes, failed>> /\ mutex' = TRUE
    BY <1>4 DEF WaitedForMutex
  <2> QED
    BY <2>1, <2>2 DEF Typed
<1> QED
  BY <1>1, <1>2, <1>3, <1>4

LEMMA GetTyped ==
    ASSUME Typed, NEW o \in Ops, buffer_layer_get(o)
    PROVE  Typed'
<1>1. op' \in [Ops -> Op] /\ \A p \in Ops : op'[p].pc # "idle" => op'[p].kind \in Kinds
  BY PcTyped DEF buffer_layer_get
<1>2. PICK b : b = io_buffer_read(o)
  OBVIOUS
<1>3. b \in Bbufs(writes) /\ Loaded(b.content, op[o].kind) \in Metas(writes)
  BY <1>2, ReadFields
<1>4. b.buffer_time \in 0 .. MaxTime
  BY <1>3 DEF Bbufs
<1>5. bbuf' = b /\ mbuf' = BcacheUpdate(b.buffer_time, op[o].kind) /\ meta' = Loaded(b.content, op[o].kind)
  BY <1>2 DEF buffer_layer_get
<1>6. mbuf' \in Mbufs(writes) /\ (mbuf'.write_mode => mbuf'.writers >= 1)
  BY <1>4, <1>5, BcacheFields
<1>7. UNCHANGED <<store, flock, now, handle, mutex, ops_lock, writes, failed>>
  BY DEF buffer_layer_get
<1> QED
  BY <1>1, <1>3, <1>5, <1>6, <1>7 DEF Typed

LEMMA ReadFailsTyped ==
    ASSUME Typed, NEW o \in Ops, ReadFails(o)
    PROVE  Typed'
<1>1. op' \in [Ops -> Op] /\ \A p \in Ops : op'[p].pc # "idle" => op'[p].kind \in Kinds
  BY IdleTyped DEF ReadFails
<1>2. PICK b : b = io_buffer_read(o)
  OBVIOUS
<1>3. b \in Bbufs(writes)
  BY <1>2, ReadFields
<1>4. b.buffer_time \in 0 .. MaxTime
  BY <1>3 DEF Bbufs
<1>5. \/ UNCHANGED <<bbuf, mbuf>>
      \/ bbuf' = b /\ mbuf' = BcacheUpdate(b.buffer_time, op[o].kind)
  BY <1>2 DEF ReadFails
<1>6. bbuf' \in Bbufs(writes) /\ mbuf' \in Mbufs(writes) /\ (mbuf'.write_mode => mbuf'.writers >= 1)
  <2>1. CASE UNCHANGED <<bbuf, mbuf>>
    BY <2>1 DEF Typed
  <2>2. CASE bbuf' = b /\ mbuf' = BcacheUpdate(b.buffer_time, op[o].kind)
    BY <1>3, <1>4, <2>2, BcacheFields
  <2> QED
    BY <1>5, <2>1, <2>2
<1>7. failed' \subseteq {"backend", "parse", "locked"}
  <2>1. PICK why \in {"backend", "parse"} :
           failed' = failed \union {why}
                             \union (IF nexus_io_in_lock_mode(op[o].kind) THEN {"locked"} ELSE {})
    BY DEF ReadFails
  <2> QED
    BY <2>1 DEF Typed
<1>8. UNCHANGED <<store, flock, now, handle, mutex, meta, writes>> /\ ops_lock' = "none"
  BY DEF ReadFails
<1> QED
  BY <1>1, <1>6, <1>7, <1>8 DEF Typed

LEMMA EndsTyped ==
    ASSUME Typed, NEW o \in Ops, Lookup(o) \/ Update(o) \/ FinishTransfer(o)
    PROVE  Typed'
<1>1. op' \in [Ops -> Op] /\ \A p \in Ops : op'[p].pc # "idle" => op'[p].kind \in Kinds
  BY EndTyped DEF Lookup, Update, FinishTransfer
<1>2. /\ now' \in 0 .. MaxTime /\ ops_lock' \in Ops \union {"none"}
      /\ failed' \subseteq {"backend", "parse", "locked"}
  BY DEF Lookup, Update, FinishTransfer, Typed
<1>3. CASE nexus_metadata_store
  BY <1>1, <1>2, <1>3, StoreTyped DEF StorageTyped, Typed
<1>4. CASE nexus_vfs_put(meta, mbuf) /\ UNCHANGED <<store, bbuf, writes>>
  <2>1. meta \in Metas(writes) /\ mbuf \in Mbufs(writes) /\ (mbuf.write_mode => mbuf.writers >= 1)
    BY DEF Typed
  <2>2. /\ mbuf' \in Mbufs(writes) /\ (mbuf'.write_mode => mbuf'.writers >= 1)
        /\ meta' \in Metas(writes) /\ handle' \in Kinds \union {"none"}
        /\ flock' \in BOOLEAN /\ mutex' \in BOOLEAN
    BY <1>4, <2>1, PutTyped
  <2> QED
    BY <1>1, <1>2, <1>4, <2>2 DEF Typed
<1> QED
  BY <1>3, <1>4 DEF Lookup, Update, FinishTransfer

LEMMA TransferTyped ==
    ASSUME Typed, NEW o \in Ops, StartTransfer(o) \/ TransferData(o)
    PROVE  Typed'
<1>1. CASE StartTransfer(o)
  <2>1. op[o] \in Op /\ op[o].kind \in Kinds /\ op \in [Ops -> Op]
    BY <1>1, OpFields DEF StartTransfer, Typed
  <2>2. PICK r : r = IF handle = "none" THEN IdleOp ELSE [op[o] EXCEPT !.pc = "transfer"]
    OBVIOUS
  <2>3. op' = [op EXCEPT ![o] = r]
    BY <1>1, <2>1, <2>2 DEF StartTransfer
  <2>4. r \in Op /\ (r.pc # "idle" => r.kind \in Kinds)
    BY <2>1, <2>2, Constants DEF Op
  <2>5. op' \in [Ops -> Op] /\ \A p \in Ops : op'[p].pc # "idle" => op'[p].kind \in Kinds
    BY <2>3, <2>4, OneOpTyped
  <2>6. PICK d \in BOOLEAN : d = (meta.is_dirty \/ op[o].kind = "encrypt")
    BY Fields
  <2>7. meta' = [meta EXCEPT !.is_dirty = d]
    BY <1>1, <2>6 DEF StartTransfer
  <2>8. meta' \in Metas(writes)
    BY <2>7 DEF Metas, Typed
  <2>9. UNCHANGED <<store, flock, now, bbuf, handle, mutex, mbuf, writes, failed>> /\ ops_lock' = "none"
    BY <1>1 DEF StartTransfer
  <2> QED
    BY <2>5, <2>8, <2>9 DEF Typed
<1>2. CASE TransferData(o)
  <2>1. store' \in Stores(writes)
    BY <1>2 DEF TransferData, Typed, Stores
  <2>2. meta' \in Metas(writes)
    BY <1>2 DEF TransferData, Typed, Metas
  <2>3. UNCHANGED <<flock, now, bbuf, handle, mutex, mbuf, op, ops_lock, writes, failed>>
    BY <1>2 DEF TransferData
  <2> QED
    BY <2>1, <2>2, <2>3 DEF Typed
<1> QED
  BY <1>1, <1>2

LEMMA OutsideTyped ==
    ASSUME Typed, RemoteUpdate \/ Tick \/ Evict \/ Crash
    PROVE  Typed'
<1>1. CASE RemoteUpdate
  <2>1. writes \in Nat /\ store.content \in Upto(writes) /\ now \in 0 .. MaxTime
    BY Fields DEF Typed
  <2>2. store.content.version \in 0 .. writes
    BY <2>1 DEF Upto
  <2>3. writes' = writes + 1 /\ writes' \in 0 .. MaxWrites /\ writes' \in Nat /\ writes <= writes'
    BY <1>1, <2>1, Constants DEF RemoteUpdate
  <2>4. PICK n : n = [id |-> writes + 1, version |-> store.content.version + 1]
    OBVIOUS
  <2>5. n \in Upto(writes')
    BY <2>1, <2>2, <2>3, <2>4 DEF Upto
  <2>6. store' \in Stores(writes')
    BY <1>1, <2>1, <2>4, <2>5 DEF RemoteUpdate, Stores
  <2>7. bbuf \in Bbufs(writes') /\ mbuf \in Mbufs(writes') /\ meta \in Metas(writes')
    BY <2>1, <2>3, UptoGrows DEF Typed
  <2>8. \A o \in Ops : /\ Overtaken(o) \in Op /\ Overtaken(o).pc = op[o].pc /\ Overtaken(o).kind = op[o].kind
                       /\ (op[o].pc # "idle" => op[o].kind \in Kinds)
    BY OverFields, OpFields
  <2>9. op' = [o \in Ops |-> Overtaken(o)]
    BY <1>1 DEF RemoteUpdate
  <2>10. op' \in [Ops -> Op] /\ \A p \in Ops : op'[p].pc # "idle" => op'[p].kind \in Kinds
    BY <2>8, <2>9
  <2>11. UNCHANGED <<flock, now, bbuf, handle, mutex, mbuf, meta, ops_lock, failed>>
    BY <1>1 DEF RemoteUpdate
  <2> QED
    BY <2>3, <2>6, <2>7, <2>10, <2>11 DEF Typed
<1>2. CASE Tick
  BY <1>2, Constants DEF Tick, Typed
<1>3. CASE Evict
  <2>1. meta' \in Metas(writes) /\ mbuf' \in Mbufs(writes) /\ ~mbuf'.write_mode
    BY <1>3, Constants, Fields DEF Evict, NoMbuf
  <2>2. op' \in [Ops -> Op] /\ \A p \in Ops : op'[p].pc # "idle" => op'[p].kind \in Kinds
    BY <1>3, Constants DEF Evict
  <2>3. UNCHANGED <<store, flock, now, bbuf, handle, mutex, ops_lock, writes>>
    BY <1>3 DEF Evict
  <2>4. failed' \subseteq {"backend", "parse", "locked"}
    BY <1>3 DEF Evict, Typed
  <2> QED
    BY <2>1, <2>2, <2>3, <2>4 DEF Typed
<1>4. CASE Crash
  <2>1. meta' \in Metas(writes) /\ mbuf' \in Mbufs(writes) /\ ~mbuf'.write_mode /\ bbuf' \in Bbufs(writes)
    BY <1>4, Constants, Fields DEF Crash, NoMbuf
  <2>2. op' \in [Ops -> Op] /\ \A p \in Ops : op'[p].pc # "idle" => op'[p].kind \in Kinds
    BY <1>4, Constants DEF Crash
  <2>3. UNCHANGED <<store, now, writes>> /\ handle' = "none" /\ mutex' = FALSE /\ flock' = FALSE
        /\ ops_lock' = "none" /\ failed' = {}
    BY <1>4 DEF Crash
  <2> QED
    BY <2>1, <2>2, <2>3 DEF Typed
<1> QED
  BY <1>1, <1>2, <1>3, <1>4

LEMMA NextTyped ==
    ASSUME Typed, [Next]_vars
    PROVE  Typed'
<1>1. CASE UNCHANGED vars
  BY <1>1 DEF vars, Typed
<1>2. ASSUME NEW o \in Ops, Step(o) PROVE Typed'
  BY <1>2, LockTyped, GetDirtyTyped, GetStatTyped, FileTyped, GetTyped, ReadFailsTyped, EndsTyped,
     TransferTyped DEF Step
<1>3. ASSUME NEW o \in Ops, NEW kind \in Kinds, Start(o, kind) PROVE Typed'
  BY <1>3, StartTyped
<1> QED
  BY <1>1, <1>2, <1>3, OutsideTyped DEF Next

LEMMA InitTyped ==
    ASSUME Init
    PROVE  Typed
<1>1. writes = 1 /\ 1 \in Nat /\ writes \in 0 .. MaxWrites
  BY Constants DEF Init
<1>2. store \in Stores(writes)
  BY <1>1, Constants DEF Init, Stores, Upto
<1>3. meta \in Metas(writes) /\ mbuf \in Mbufs(writes) /\ ~mbuf.write_mode /\ bbuf \in Bbufs(writes)
  BY <1>1, Constants DEF Init, NoMbuf
<1>4. op \in [Ops -> Op] /\ \A o \in Ops : op[o].pc = "idle"
  BY Constants DEF Init
<1> QED
  BY <1>1, <1>2, <1>3, <1>4, Constants DEF Init, Typed

LEMMA TypedHolds == Spec => []Typed
<1>1. Init => Typed
  BY InitTyped
<1>2. Typed /\ [Next]_vars => Typed'
  BY NextTyped
<1> QED
  BY <1>1, <1>2, PTL DEF Spec

LEMMA OverlapsTyped == Spec => [](overlaps \subseteq {"reset", "closed", "shared"})
<1> DEFINE O == overlaps \subseteq {"reset", "closed", "shared"}
<1>1. Init => O
  BY DEF Init
<1>2. O /\ [Next]_vars => O'
  <2> SUFFICES ASSUME O, [Next]_vars PROVE O'
    OBVIOUS
  <2>1. CASE UNCHANGED vars
    BY <2>1 DEF vars
  <2>2. CASE RemoteUpdate \/ Tick \/ Evict \/ Crash \/ \E o \in Ops, kind \in Kinds : Start(o, kind)
    BY <2>2 DEF RemoteUpdate, Tick, Evict, Crash, Start
  <2>3. ASSUME NEW o \in Ops, Step(o) PROVE O'
    <3>1. \A m, b : nexus_vfs_put(m, b) => O'
      BY DEF nexus_vfs_put, Shared
    <3>2. nexus_metadata_store => O'
      BY <3>1 DEF nexus_metadata_store, StoreDeferred, StoreFlushed, StoreFails, Shared
    <3>3. CASE Lookup(o) \/ Update(o) \/ FinishTransfer(o)
      BY <3>1, <3>2, <3>3 DEF Lookup, Update, FinishTransfer
    <3>4. \A k : Reset(k) => O'
      BY DEF Reset
    <3>5. CASE buffer_layer_get_dirty(o) \/ buffer_layer_get(o) \/ ReadFails(o)
      BY <3>4, <3>5 DEF buffer_layer_get_dirty, buffer_layer_get, ReadFails
    <3>6. FileClosed => O'
      BY DEF FileClosed
    <3>7. CASE WaitedForMutex(o)
      BY <3>6, <3>7 DEF WaitedForMutex
    <3>8. CASE \/ buffer_layer_lock(o) \/ buffer_layer_get_lost(o) \/ buffer_layer_get_stat(o) \/ io_buffer_lock(o)
               \/ FileIsOpen(o) \/ StartTransfer(o) \/ TransferData(o)
      BY <3>8 DEF buffer_layer_lock, buffer_layer_get_lost, buffer_layer_get_stat, io_buffer_lock, FileIsOpen,
            StartTransfer, TransferData
    <3> QED
      BY <2>3, <3>3, <3>5, <3>7, <3>8 DEF Step
  <2> QED
    BY <2>1, <2>2, <2>3 DEF Next
<1> QED
  BY <1>1, <1>2, PTL DEF Spec

(* The object in the enclave, the two buffers, the file and the operations *)
(* have their types for any number of threads; in particular a put or a    *)
(* store never takes the count of writers of the buffer layer below zero.  *)
THEOREM TypeCorrect == Spec => []TypeOK
<1>1. Typed /\ overlaps \subseteq {"reset", "closed", "shared"} => TypeOK
  <2> SUFFICES ASSUME Typed, overlaps \subseteq {"reset", "closed", "shared"} PROVE TypeOK
    OBVIOUS
  <2>1. writes \in Nat /\ MaxWrites \in Nat /\ writes <= MaxWrites
    BY Constants, Fields DEF Typed
  <2>2. /\ Upto(MaxWrites) = Content
        /\ store \in Stores(MaxWrites) /\ bbuf \in Bbufs(MaxWrites)
        /\ mbuf \in Mbufs(MaxWrites) /\ meta \in Metas(MaxWrites)
    BY <2>1, UptoGrows DEF Typed, Upto, Content
  <2> QED
    BY <2>2 DEF Typed, TypeOK, Stores, Bbufs, Mbufs, Metas, Op
<1> QED
  BY <1>1, TypedHolds, OverlapsTyped, PTL
-----------------------------------------------------------------------------
(* One thread.                                                             *)

LEMMA OneConcludes ==
    ASSUME OneThread, NEW o \in Ops, Clocks', Fresh', Waits(o)', Locking(o)', Stuck(o)', Latest(o)'
    PROVE  OneInv'
<1>1. \A p \in Ops : p = o
  BY DEF OneThread
<1> QED
  BY <1>1 DEF OneInv

LEMMA StartOne ==
    ASSUME OneThread, Typed, OneInv, NEW o \in Ops, NEW kind \in Kinds, Start(o, kind)
    PROVE  OneInv'
<1>1. /\ Clocks /\ Fresh /\ Locking(o) /\ Stuck(o) /\ op[o].pc = "idle"
      /\ UNCHANGED <<store, flock, now, bbuf, handle, mutex, mbuf, meta, writes, failed>>
  BY DEF OneInv, Start
<1>2. op'[o].kind = kind
  BY StartTyped
<1>3. PICK s \in BOOLEAN :
         /\ op'[o].pc = IF has_changed(s) THEN "stat"
                        ELSE IF nexus_io_in_lock_mode(kind) THEN "lock" ELSE "run"
         /\ op'[o].raced <=> /\ ~has_changed(s)
                             /\ \/ SameSecond(meta.content, mbuf.timestamp)
                                \/ ~s /\ meta.content # store.content
  BY StartTyped
<1>4. Clocks' /\ Fresh'
  BY <1>1 DEF Clocks, Fresh
<1>5. Waits(o)'
  <2>1. ops_lock' = o /\ o # "none"
    BY OpsAssumption DEF Start
  <2> QED
    BY <1>2, <1>3, <2>1 DEF Waits, Locks
<1>6. Locking(o)'
  BY <1>1, <1>2, <1>3 DEF Locking, Clean, Clear, Closed, Locks
<1>7. Stuck(o)'
  BY <1>1, <1>2, <1>3 DEF Stuck, Clean, Clear, nexus_io_in_lock_mode
<1>8. Latest(o)'
  <2> SUFFICES ASSUME "parse" \notin failed, ~op'[o].raced, op'[o].pc \in {"lock", "run"}
               PROVE  meta.content = store.content
    BY <1>1, <1>3 DEF Latest
  <2>1. ~has_changed(s)
    BY <1>3
  <2>2. meta.loaded /\ ~meta.is_invalid /\ mbuf.exists /\ ~(s /\ store.mtime > mbuf.timestamp)
    BY <2>1, Fields DEF has_changed
  <2>3. CASE ~s
    BY <1>3, <2>1, <2>3
  <2>4. CASE s
    <3>1. store.mtime <= mbuf.timestamp
      BY <2>2, <2>4, Fields
    <3>2. meta.content # store.content => store.mtime >= mbuf.timestamp
      BY <1>1, <2>2 DEF Fresh
    <3>3. meta.content # store.content => store.mtime = mbuf.timestamp
      BY <3>1, <3>2, Fields
    <3> QED
      BY <1>3, <2>1, <3>3 DEF SameSecond
  <2> QED
    BY <2>3, <2>4
<1> QED
  BY <1>4, <1>5, <1>6, <1>7, <1>8, OneConcludes

LEMMA LockOne ==
    ASSUME OneThread, Typed, OneInv, NEW o \in Ops, buffer_layer_lock(o)
    PROVE  OneInv'
<1>1. /\ Clocks /\ Fresh /\ Waits(o) /\ Locking(o) /\ Stuck(o) /\ Latest(o) /\ op[o].pc = "lock"
      /\ UNCHANGED <<store, now, bbuf, ops_lock, writes, failed>>
  BY DEF OneInv, buffer_layer_lock, LockCounted
<1>2. op'[o].pc = "run" /\ op'[o].kind = op[o].kind /\ op'[o].raced = op[o].raced
  BY <1>1, PcTyped DEF buffer_layer_lock, LockCounted
<1>3. /\ mbuf'.writers = mbuf.writers + 1 /\ mbuf'.write_mode = TRUE /\ mbuf'.exists = mbuf.exists
      /\ mbuf'.timestamp = mbuf.timestamp /\ mbuf'.is_dirty = mbuf.is_dirty
      /\ mbuf'.tmp_buffer = mbuf.tmp_buffer
  <2>1. PICK w : w = mbuf.writers + 1
    OBVIOUS
  <2>2. mbuf' = [mbuf EXCEPT !.writers = w, !.write_mode = TRUE] /\ mbuf \in Mbufs(writes)
    BY <2>1 DEF buffer_layer_lock, LockCounted, Typed
  <2> QED
    BY <2>1, <2>2 DEF Mbufs
<1>4. /\ meta'.is_locked = TRUE /\ meta'.loaded = meta.loaded /\ meta'.content = meta.content
      /\ meta'.is_invalid = meta.is_invalid
  BY DEF buffer_layer_lock, LockCounted, Typed, Metas
<1>5. IF mbuf.write_mode THEN UNCHANGED <<handle, mutex, flock>> ELSE OpenFile(op[o].kind)
  BY DEF buffer_layer_lock
<1>6. Locks(o)
  BY <1>1 DEF Waits
<1>7. Clocks' /\ Fresh'
  BY <1>1, <1>3, <1>4 DEF Clocks, Fresh
<1>8. Waits(o)' /\ Latest(o)'
  BY <1>1, <1>2, <1>4 DEF Waits, Latest
<1>9. Locking(o)'
  <2> SUFFICES ASSUME "locked" \notin failed
               PROVE  Clean' /\ Taken' /\ Open(op[o].kind)'
    BY <1>1, <1>2, <1>6 DEF Locking, Locks
  <2>1. Clean /\ Clear /\ Closed
    BY <1>1 DEF Locking
  <2>2. OpenFile(op[o].kind)
    BY <1>5, <2>1 DEF Clear
  <2> QED
    BY <1>3, <1>4, <1>2, <2>1, <2>2 DEF Clean, Clear, Taken, Open, OpenFile
<1>10. Stuck(o)'
  BY <1>1, <1>5 DEF Stuck, Clear, OpenFile
<1> QED
  BY <1>7, <1>8, <1>9, <1>10, OneConcludes

LEMMA GetDirtyOne ==
    ASSUME OneThread, Typed, OneInv, NEW o \in Ops, buffer_layer_get_dirty(o)
    PROVE  OneInv'
<1>1. /\ Clocks /\ Fresh /\ Waits(o) /\ Locking(o) /\ Stuck(o) /\ op[o].pc = "stat" /\ mbuf.is_dirty
      /\ UNCHANGED <<store, flock, now, bbuf, handle, mutex, mbuf, ops_lock, writes, failed>>
  BY DEF OneInv, buffer_layer_get_dirty
<1>2. op'[o].pc = "run"
  BY <1>1, PcTyped DEF buffer_layer_get_dirty
<1>3. "locked" \in failed /\ "parse" \in failed
  BY <1>1 DEF Locking, Stuck, Clean
<1> QED
  BY <1>1, <1>2, <1>3, OneConcludes DEF Clocks, Fresh, Waits, Locking, Stuck, Latest

LEMMA GetLostOne ==
    ASSUME OneThread, Typed, OneInv, NEW o \in Ops, buffer_layer_get_lost(o)
    PROVE  OneInv'
<1>1. /\ Clocks /\ Fresh /\ Locking(o) /\ Stuck(o) /\ mbuf.is_dirty
      /\ UNCHANGED <<store, flock, now, bbuf, handle, mutex, mbuf, meta, writes, failed>>
  BY DEF OneInv, buffer_layer_get_lost
<1>2. op'[o].pc = "idle"
  BY IdleTyped, Constants DEF buffer_layer_get_lost
<1>3. "locked" \in failed /\ "parse" \in failed
  BY <1>1 DEF Locking, Stuck, Clean
<1> QED
  BY <1>1, <1>2, <1>3, OneConcludes DEF Clocks, Fresh, Waits, Locking, Stuck, Latest

LEMMA GetStatOne ==
    ASSUME OneThread, Typed, OneInv, NEW o \in Ops, buffer_layer_get_stat(o)
    PROVE  OneInv'
<1>1. /\ Clocks /\ Fresh /\ Waits(o) /\ Locking(o) /\ Stuck(o) /\ op[o].pc = "stat"
      /\ UNCHANGED <<store, flock, now, bbuf, handle, mutex, mbuf, meta, ops_lock, writes, failed>>
  BY DEF OneInv, buffer_layer_get_stat
<1>2. /\ op'[o].stat = store.mtime /\ op'[o].kind = op[o].kind
      /\ op'[o].pc = IF Locks(o) THEN "open" ELSE "read"
      /\ op'[o].raced <=> bbuf.exists /\ SameSecond(bbuf.content, bbuf.buffer_time)
  BY GetStatTyped
<1>3. Clocks' /\ Fresh'
  BY <1>1 DEF Clocks, Fresh
<1>4. Waits(o)' /\ Latest(o)'
  BY <1>1, <1>2 DEF Waits, Latest, Locks, SameSecond
<1>5. Locking(o)'
  BY <1>1, <1>2 DEF Locking, Locks, Clean, Clear, Closed
<1>6. Stuck(o)'
  BY <1>1, <1>2 DEF Stuck, Locks, nexus_io_in_lock_mode, Clean, Clear
<1> QED
  BY <1>3, <1>4, <1>5, <1>6, OneConcludes

LEMMA OpenOne ==
    ASSUME OneThread, Typed, OneInv, NEW o \in Ops, io_buffer_lock(o)
    PROVE  OneInv'
<1>1. /\ Clocks /\ Fresh /\ Waits(o) /\ Locking(o) /\ Stuck(o) /\ Latest(o) /\ op[o].pc = "open"
      /\ UNCHANGED <<store, now, bbuf, mbuf, meta, ops_lock, writes, failed>>
  BY DEF OneInv, io_buffer_lock
<1>2. /\ op'[o].pc = "read" /\ op'[o].kind = op[o].kind /\ op'[o].raced = op[o].raced
      /\ op'[o].stat = op[o].stat
  BY <1>1, PcTyped DEF io_buffer_lock
<1>3. OpenFile(op[o].kind)
  BY DEF io_buffer_lock
<1>4. Clocks' /\ Fresh'
  BY <1>1 DEF Clocks, Fresh
<1>5. Waits(o)' /\ Latest(o)'
  BY <1>1, <1>2 DEF Waits, Latest
<1>6. Locking(o)'
  BY <1>1, <1>2, <1>3 DEF Locking, Waits, Locks, Clean, Clear, Open, OpenFile
<1>7. Stuck(o)'
  BY <1>1, <1>3 DEF Stuck, OpenFile
<1> QED
  BY <1>4, <1>5, <1>6, <1>7, OneConcludes

LEMMA FileIsOpenOne ==
    ASSUME OneThread, Typed, OneInv, NEW o \in Ops, FileIsOpen(o)
    PROVE  OneInv'
<1>1. /\ Clocks /\ Fresh /\ Waits(o) /\ Locking(o) /\ Stuck(o) /\ Latest(o) /\ op[o].pc \in {"open", "lock"}
      /\ handle # "none"
      /\ UNCHANGED <<store, flock, now, bbuf, handle, mutex, mbuf, meta, writes, failed>>
  BY DEF OneInv, FileIsOpen
<1>2. \/ op'[o].pc = "idle"
      \/ /\ op'[o].pc = (IF op[o].pc = "open" THEN "wait" ELSE "wait_lock") /\ ops_lock' = ops_lock
         /\ op'[o].kind = op[o].kind /\ op'[o].raced = op[o].raced
         /\ op'[o].stat = op[o].stat
  <2>1. CASE op' = [op EXCEPT ![o] = IdleOp]
    BY <2>1, IdleTyped, Constants
  <2>2. CASE op' # [op EXCEPT ![o] = IdleOp]
    <3>1. UNCHANGED ops_lock /\ op' = [op EXCEPT ![o].pc = IF @ = "open" THEN "wait" ELSE "wait_lock"]
      BY <2>2 DEF FileIsOpen
    <3>2. CASE op[o].pc = "open"
      <4>1. op' = [op EXCEPT ![o].pc = "wait"]
        BY <3>1, <3>2
      <4> QED
        BY <1>1, <3>1, <3>2, <4>1, PcTyped
    <3>3. CASE op[o].pc = "lock"
      <4>1. op' = [op EXCEPT ![o].pc = "wait_lock"]
        BY <3>1, <3>3
      <4> QED
        BY <1>1, <3>1, <3>3, <4>1, PcTyped
    <3> QED
      BY <1>1, <3>2, <3>3
  <2> QED
    BY <2>1, <2>2
<1>3. "locked" \in failed
  BY <1>1 DEF Locking, Closed
<1>4. Clocks' /\ Fresh'
  BY <1>1 DEF Clocks, Fresh
<1>5. Waits(o)' /\ Latest(o)'
  BY <1>1, <1>2 DEF Waits, Latest, Locks
<1>6. Locking(o)' /\ Stuck(o)'
  BY <1>1, <1>2, <1>3 DEF Locking, Stuck, Clean, Clear
<1> QED
  BY <1>4, <1>5, <1>6, OneConcludes

LEMMA WaitedOne ==
    ASSUME OneThread, Typed, OneInv, NEW o \in Ops, WaitedForMutex(o)
    PROVE  OneInv'
<1>1. /\ Clocks /\ Fresh /\ Waits(o) /\ Locking(o) /\ Stuck(o) /\ op[o].pc = "wait" /\ ~mutex
      /\ UNCHANGED <<store, flock, now, bbuf, handle, mbuf, meta, ops_lock, writes, failed>>
  BY DEF OneInv, WaitedForMutex
<1>2. op'[o].pc = "read"
  BY <1>1, PcTyped DEF WaitedForMutex
<1>3. "locked" \in failed /\ "parse" \in failed
  BY <1>1 DEF Locking, Stuck
<1> QED
  BY <1>1, <1>2, <1>3, OneConcludes DEF Clocks, Fresh, Waits, Locking, Stuck, Latest

LEMMA GetOne ==
    ASSUME OneThread, Typed, OneInv, NEW o \in Ops, buffer_layer_get(o)
    PROVE  OneInv'
<1>1. /\ Clocks /\ Fresh /\ Waits(o) /\ Locking(o) /\ Stuck(o) /\ Latest(o) /\ op[o].pc = "read"
      /\ UNCHANGED <<store, flock, now, handle, mutex, ops_lock, writes, failed>>
  BY DEF OneInv, buffer_layer_get
<1>2. op'[o].pc = "run" /\ op'[o].kind = op[o].kind /\ op'[o].raced = op[o].raced
  BY <1>1, PcTyped DEF buffer_layer_get
<1>3. PICK b : b = io_buffer_read(o)
  OBVIOUS
<1>4. bbuf' = b /\ mbuf' = BcacheUpdate(b.buffer_time, op[o].kind) /\ meta' = Loaded(b.content, op[o].kind)
  BY <1>3 DEF buffer_layer_get
<1>5. /\ b \in Bbufs(writes)
      /\ IF bbuf.exists /\ bbuf.buffer_time >= op[o].stat THEN b = bbuf
         ELSE b.content = store.content /\ b.buffer_time = now
      /\ meta'.content = b.content /\ (meta'.is_locked <=> Locks(o))
  <2>1. PICK k : k = op[o].kind
    OBVIOUS
  <2>2. meta' = Loaded(b.content, k) /\ Locks(o) = nexus_io_in_lock_mode(k)
    BY <1>4, <2>1 DEF Locks
  <2>3. /\ b \in Bbufs(writes)
        /\ IF bbuf.exists /\ bbuf.buffer_time >= op[o].stat THEN b = bbuf
           ELSE b.content = store.content /\ b.buffer_time = now
    BY <1>3, ReadFields
  <2>4. Loaded(b.content, k).content = b.content
    BY DEF Loaded
  <2>5. Loaded(b.content, k).is_locked = nexus_io_in_lock_mode(k)
    BY DEF Loaded
  <2> QED
    BY <2>2, <2>3, <2>4, <2>5
<1>6. /\ mbuf'.timestamp = b.buffer_time /\ (mbuf'.write_mode <=> Locks(o))
      /\ mbuf'.writers = (IF Locks(o) THEN mbuf.writers + 1 ELSE mbuf.writers)
      /\ mbuf'.is_dirty = mbuf.is_dirty /\ mbuf'.tmp_buffer = mbuf.tmp_buffer
  <2>1. b.buffer_time \in 0 .. MaxTime
    BY <1>5 DEF Bbufs
  <2> QED
    BY <1>4, <2>1, BcacheFields DEF Locks
<1>7. b.buffer_time <= now /\ (b.content # store.content => store.mtime >= b.buffer_time)
  <2>1. CASE bbuf.exists /\ bbuf.buffer_time >= op[o].stat
    BY <1>1, <1>5, <2>1 DEF Clocks, Fresh
  <2>2. CASE ~(bbuf.exists /\ bbuf.buffer_time >= op[o].stat)
    BY <1>5, <2>2, Fields
  <2> QED
    BY <2>1, <2>2
<1>8. Clocks' /\ Fresh'
  BY <1>1, <1>4, <1>5, <1>6, <1>7 DEF Clocks, Fresh
<1>9. Waits(o)'
  BY <1>1, <1>2 DEF Waits
<1>10. Locking(o)'
  <2> SUFFICES ASSUME "locked" \notin failed
               PROVE  Clean' /\ IF Locks(o) THEN Taken' /\ Open(op[o].kind)' ELSE Clear' /\ Closed'
    BY <1>1, <1>2 DEF Locking, Locks
  <2>1. Clean /\ Clear /\ IF Locks(o) THEN Open(op[o].kind) ELSE Closed
    BY <1>1 DEF Locking
  <2>2. Clean'
    BY <1>6, <2>1 DEF Clean
  <2>3. CASE Locks(o)
    BY <1>1, <1>2, <1>5, <1>6, <2>1, <2>2, <2>3 DEF Clear, Taken, Open
  <2>4. CASE ~Locks(o)
    BY <1>1, <1>5, <1>6, <2>1, <2>2, <2>4 DEF Clear, Closed
  <2> QED
    BY <2>3, <2>4
<1>11. Stuck(o)'
  <2> SUFFICES ASSUME "locked" \in failed, "parse" \notin failed
               PROVE  Clean' /\ Clear' /\ handle # "none" /\ mutex /\ op[o].kind = "read"
    BY <1>1, <1>2 DEF Stuck
  <2>1. Clean /\ Clear /\ handle # "none" /\ mutex /\ op[o].kind = "read"
    BY <1>1 DEF Stuck
  <2>2. ~Locks(o)
    BY <2>1 DEF Locks, nexus_io_in_lock_mode
  <2> QED
    BY <1>5, <1>6, <2>1, <2>2 DEF Clean, Clear
<1>12. Latest(o)'
  <2> SUFFICES ASSUME "parse" \notin failed, ~op[o].raced
               PROVE  b.content = store.content
    BY <1>1, <1>2, <1>5 DEF Latest
  <2>1. /\ op[o].stat = store.mtime
        /\ bbuf.exists /\ bbuf.content # store.content => store.mtime # bbuf.buffer_time
    BY <1>1 DEF Latest
  <2>2. bbuf.exists /\ bbuf.content # store.content => store.mtime >= bbuf.buffer_time
    BY <1>1 DEF Fresh
  <2> QED
    BY <1>5, <2>1, <2>2, Fields
<1> QED
  BY <1>8, <1>9, <1>10, <1>11, <1>12, OneConcludes

LEMMA BackendFailsOne ==
    ASSUME OneThread, Typed, OneInv, NEW o \in Ops, op[o].pc = "read", op'[o].pc = "idle",
           UNCHANGED <<store, flock, now, bbuf, handle, mutex, mbuf, meta>>,
           failed' = failed \union {"backend"} \union (IF Locks(o) THEN {"locked"} ELSE {})
    PROVE  OneInv'
<1>1. Clocks /\ Fresh /\ Locking(o) /\ Stuck(o)
  BY DEF OneInv
<1>2. /\ "parse" \in failed' <=> "parse" \in failed
      /\ "locked" \in failed' <=> "locked" \in failed \/ Locks(o)
  OBVIOUS
<1>3. Clocks' /\ Fresh'
  BY <1>1, <1>2 DEF Clocks, Fresh
<1>4. Waits(o)' /\ Latest(o)'
  BY DEF Waits, Latest
<1>5. Locking(o)'
  BY <1>1, <1>2 DEF Locking, Clean, Clear, Closed
<1>6. Stuck(o)'
  <2> SUFFICES ASSUME "locked" \in failed \/ Locks(o), "parse" \notin failed
               PROVE  Clean' /\ Clear' /\ handle # "none" /\ mutex
    BY <1>2 DEF Stuck
  <2>1. CASE "locked" \in failed
    BY <1>1, <2>1 DEF Stuck, Clean, Clear
  <2>2. CASE "locked" \notin failed
    <3>1. Clean /\ Clear /\ Open(op[o].kind)
      BY <1>1, <2>2 DEF Locking
    <3>2. op[o].kind # "none"
      BY OpFields, Constants
    <3> QED
      BY <3>1, <3>2 DEF Clean, Clear, Open
  <2> QED
    BY <2>1, <2>2
<1> QED
  BY <1>3, <1>4, <1>5, <1>6, OneConcludes

LEMMA ParseFailsOne ==
    ASSUME OneThread, Typed, OneInv, NEW o \in Ops, op[o].pc = "read", op'[o].pc = "idle",
           UNCHANGED <<store, flock, now, handle, mutex, meta>>,
           NEW b, b = io_buffer_read(o), bbuf' = b, mbuf' = BcacheUpdate(b.buffer_time, op[o].kind),
           failed' = failed \union {"parse"} \union (IF Locks(o) THEN {"locked"} ELSE {})
    PROVE  OneInv'
<1>1. Clocks /\ Fresh /\ Locking(o)
  BY DEF OneInv
<1>2. /\ "parse" \in failed'
      /\ "locked" \in failed' <=> "locked" \in failed \/ Locks(o)
  OBVIOUS
<1>3. /\ b \in Bbufs(writes)
      /\ IF bbuf.exists /\ bbuf.buffer_time >= op[o].stat THEN b = bbuf
         ELSE b.content = store.content /\ b.buffer_time = now
  BY ReadFields
<1>4. /\ mbuf'.timestamp = b.buffer_time /\ (mbuf'.write_mode <=> Locks(o))
      /\ mbuf'.writers = (IF Locks(o) THEN mbuf.writers + 1 ELSE mbuf.writers)
      /\ mbuf'.is_dirty = mbuf.is_dirty /\ mbuf'.tmp_buffer = mbuf.tmp_buffer
  <2>1. b.buffer_time \in 0 .. MaxTime
    BY <1>3 DEF Bbufs
  <2> QED
    BY <2>1, BcacheFields DEF Locks
<1>5. b.buffer_time <= now /\ (b.content # store.content => store.mtime >= b.buffer_time)
  <2>1. CASE bbuf.exists /\ bbuf.buffer_time >= op[o].stat
    BY <1>1, <1>3, <2>1 DEF Clocks, Fresh
  <2>2. CASE ~(bbuf.exists /\ bbuf.buffer_time >= op[o].stat)
    BY <1>3, <2>2, Fields
  <2> QED
    BY <2>1, <2>2
<1>6. Clocks' /\ Fresh'
  BY <1>1, <1>2, <1>4, <1>5 DEF Clocks, Fresh
<1>7. Waits(o)' /\ Latest(o)' /\ Stuck(o)'
  BY <1>2 DEF Waits, Latest, Stuck
<1>8. Locking(o)'
  BY <1>1, <1>2, <1>4 DEF Locking, Clean, Clear, Closed
<1> QED
  BY <1>6, <1>7, <1>8, OneConcludes

LEMMA ReadFailsOne ==
    ASSUME OneThread, Typed, OneInv, NEW o \in Ops, ReadFails(o)
    PROVE  OneInv'
<1>1. op'[o].pc = "idle"
  BY IdleTyped, Constants DEF ReadFails
<1>2. op[o].pc = "read" /\ UNCHANGED <<store, flock, now, handle, mutex, meta>>
  BY DEF ReadFails
<1>3. PICK b : b = io_buffer_read(o)
  OBVIOUS
<1>4. PICK why \in {"backend", "parse"} :
         /\ IF why = "backend" THEN UNCHANGED <<bbuf, mbuf>>
            ELSE bbuf' = b /\ mbuf' = BcacheUpdate(b.buffer_time, op[o].kind)
         /\ failed' = failed \union {why} \union (IF Locks(o) THEN {"locked"} ELSE {})
  BY <1>3 DEF ReadFails, Locks
<1>5. CASE why = "backend"
  BY <1>1, <1>2, <1>4, <1>5, BackendFailsOne
<1>6. CASE why = "parse"
  BY <1>1, <1>2, <1>3, <1>4, <1>6, ParseFailsOne
<1> QED
  BY <1>5, <1>6

(* What nexus_vfs_put leaves: one writer less, and the last one closes.    *)
LEMMA PutFields ==
    ASSUME NEW w, NEW m \in Metas(w), NEW b \in Mbufs(w), nexus_vfs_put(m, b)
    PROVE  /\ meta'.is_locked = FALSE /\ meta'.loaded = m.loaded /\ meta'.content = m.content
           /\ meta'.is_invalid = m.is_invalid
           /\ mbuf'.exists = b.exists /\ mbuf'.timestamp = b.timestamp /\ mbuf'.is_dirty = b.is_dirty
           /\ mbuf'.tmp_buffer = b.tmp_buffer
           /\ IF m.is_locked /\ b.write_mode
              THEN /\ mbuf'.writers = b.writers - 1 /\ (mbuf'.write_mode <=> b.writers > 1)
                   /\ b.writers > 1 \/ ReleaseFile
              ELSE mbuf' = b /\ UNCHANGED <<handle, mutex, flock>>
<1>1. /\ meta'.is_locked = FALSE /\ meta'.loaded = m.loaded /\ meta'.content = m.content
      /\ meta'.is_invalid = m.is_invalid
  BY DEF nexus_vfs_put, Metas
<1>2. CASE m.is_locked /\ b.write_mode
  <2>1. PICK n : n = b.writers - 1
    OBVIOUS
  <2>2. PICK f : f = (b.writers > 1)
    OBVIOUS
  <2>3. mbuf' = [b EXCEPT !.writers = n, !.write_mode = f]
    BY <1>2, <2>1, <2>2 DEF nexus_vfs_put
  <2>4. /\ mbuf'.exists = b.exists /\ mbuf'.timestamp = b.timestamp /\ mbuf'.is_dirty = b.is_dirty
        /\ mbuf'.tmp_buffer = b.tmp_buffer /\ mbuf'.writers = n /\ mbuf'.write_mode = f
    BY <2>3 DEF Mbufs
  <2>5. b.writers > 1 \/ ReleaseFile
    BY <1>2 DEF nexus_vfs_put
  <2> QED
    BY <1>1, <1>2, <2>1, <2>2, <2>4, <2>5
<1>3. CASE ~(m.is_locked /\ b.write_mode)
  BY <1>1, <1>3 DEF nexus_vfs_put
<1> QED
  BY <1>2, <1>3

LEMMA Releases ==
    ASSUME handle # "none", ReleaseFile
    PROVE  Closed'
BY DEF ReleaseFile, Closed

LEMMA PutOne ==
    ASSUME OneThread, Typed, OneInv, NEW o \in Ops, op[o].pc \in {"run", "transfer"}, op'[o].pc = "idle",
           nexus_vfs_put(meta, mbuf), UNCHANGED <<store, now, bbuf, failed>>
    PROVE  OneInv'
<1>1. Clocks /\ Fresh /\ Locking(o) /\ Stuck(o)
  BY DEF OneInv
<1>2. /\ meta'.is_locked = FALSE /\ meta'.loaded = meta.loaded /\ meta'.content = meta.content
      /\ meta'.is_invalid = meta.is_invalid
      /\ mbuf'.exists = mbuf.exists /\ mbuf'.timestamp = mbuf.timestamp /\ mbuf'.is_dirty = mbuf.is_dirty
      /\ mbuf'.tmp_buffer = mbuf.tmp_buffer
      /\ IF meta.is_locked /\ mbuf.write_mode
         THEN /\ mbuf'.writers = mbuf.writers - 1 /\ (mbuf'.write_mode <=> mbuf.writers > 1)
              /\ mbuf.writers > 1 \/ ReleaseFile
         ELSE mbuf' = mbuf /\ UNCHANGED <<handle, mutex, flock>>
  BY PutFields DEF Typed
<1>3. Clocks' /\ Fresh'
  BY <1>1, <1>2 DEF Clocks, Fresh
<1>4. Waits(o)' /\ Latest(o)'
  BY DEF Waits, Latest
<1>5. Locking(o)'
  <2> SUFFICES ASSUME "locked" \notin failed
               PROVE  Clean' /\ Clear' /\ Closed'
    BY DEF Locking
  <2>1. Clean /\ IF Locks(o) THEN Taken /\ Open(op[o].kind) ELSE Clear /\ Closed
    BY <1>1 DEF Locking
  <2>2. Clean'
    BY <1>2, <2>1 DEF Clean
  <2>3. CASE Locks(o)
    <3>1. handle # "none"
      BY <2>1, <2>3, OpFields, Constants DEF Open
    <3>2. mbuf.writers = 1 /\ mbuf.write_mode /\ meta.is_locked
      BY <2>1, <2>3 DEF Taken
    <3>3. ReleaseFile /\ mbuf'.writers = 0 /\ ~mbuf'.write_mode
      BY <1>2, <3>2
    <3> QED
      BY <1>2, <2>2, <3>1, <3>3, Releases DEF Clear
  <2>4. CASE ~Locks(o)
    BY <1>2, <2>1, <2>2, <2>4 DEF Clear, Closed
  <2> QED
    BY <2>3, <2>4
<1>6. Stuck(o)'
  BY <1>1, <1>2 DEF Stuck, Clean, Clear
<1> QED
  BY <1>3, <1>4, <1>5, <1>6, OneConcludes

(* A store happens only under the lock, as long as the reads that failed   *)
(* are told apart from those that parsed.                                  *)
LEMMA StoreLocking ==
    ASSUME OneInv, NEW o \in Ops, op[o].pc = "transfer" \/ (op[o].pc = "run" /\ op[o].kind = "update")
    PROVE  \/ "locked" \in failed /\ "parse" \in failed
           \/ /\ "locked" \notin failed /\ Clean
              /\ IF Locks(o) THEN Taken /\ Open(op[o].kind) ELSE Clear /\ Closed
BY DEF OneInv, Locking, Stuck

LEMMA DeferredOne ==
    ASSUME OneThread, Typed, OneInv, NEW o \in Ops,
           op[o].pc = "transfer" \/ (op[o].pc = "run" /\ op[o].kind = "update"), op'[o].pc = "idle",
           StoreDeferred, UNCHANGED <<now, failed>>
    PROVE  OneInv'
<1>1. Clocks /\ Fresh /\ UNCHANGED <<store, bbuf>>
  BY DEF OneInv, StoreDeferred
<1>2. "locked" \in failed /\ "parse" \in failed
  BY StoreLocking, Fields DEF StoreDeferred, Taken, Clear
<1>3. mbuf'.timestamp = mbuf.timestamp
  <2>1. PICK w : w = mbuf.writers - 1
    OBVIOUS
  <2>2. mbuf' = [mbuf EXCEPT !.is_dirty = TRUE, !.writers = w, !.tmp_buffer = NewContentOf(meta)]
    BY <2>1 DEF StoreDeferred
  <2> QED
    BY <2>2 DEF Typed, Mbufs
<1> QED
  BY <1>1, <1>2, <1>3, OneConcludes DEF Clocks, Fresh, Waits, Locking, Stuck, Latest

LEMMA FlushedOne ==
    ASSUME OneThread, Typed, OneInv, NEW o \in Ops,
           op[o].pc = "transfer" \/ (op[o].pc = "run" /\ op[o].kind = "update"), op'[o].pc = "idle",
           StoreFlushed, UNCHANGED <<now, failed>>
    PROVE  OneInv'
<1>1. Clocks
  BY DEF OneInv
<1>2. PICK n : n = NewContentOf(meta)
  OBVIOUS
<1>3. /\ store'.content = n /\ store'.mtime = now /\ bbuf'.content = n /\ bbuf'.buffer_time = now
  BY <1>2 DEF StoreFlushed
<1>4. meta'.content = n /\ meta'.is_locked = FALSE
  BY <1>2 DEF StoreFlushed, Stored, Typed, Metas
<1>5. /\ mbuf'.timestamp = now /\ mbuf'.writers = 0 /\ mbuf'.write_mode = FALSE
      /\ mbuf'.tmp_buffer = NoContent /\ mbuf'.is_dirty = mbuf.is_dirty
  BY DEF StoreFlushed, Typed, Mbufs
<1>6. Clocks' /\ Fresh'
  BY <1>1, <1>3, <1>4, <1>5, Fields DEF Clocks, Fresh
<1>7. Waits(o)' /\ Latest(o)'
  BY DEF Waits, Latest
<1>8. Clear' /\ Closed'
  <2>1. handle # "none"
    BY DEF StoreFlushed, TakesFlock
  <2> QED
    BY <1>4, <1>5, <2>1 DEF StoreFlushed, ReleaseFile, Clear, Closed
<1>9. Locking(o)' /\ Stuck(o)'
  <2>1. CASE "locked" \in failed /\ "parse" \in failed
    BY <2>1 DEF Locking, Stuck
  <2>2. CASE "locked" \notin failed /\ Clean
    BY <1>5, <1>8, <2>2 DEF Locking, Stuck, Clean
  <2> QED
    BY <2>1, <2>2, StoreLocking
<1> QED
  BY <1>6, <1>7, <1>9, OneConcludes

LEMMA FailedOne ==
    ASSUME OneThread, Typed, OneInv, NEW o \in Ops,
           op[o].pc = "transfer" \/ (op[o].pc = "run" /\ op[o].kind = "update"), op'[o].pc = "idle",
           StoreFails, UNCHANGED <<now, failed>>
    PROVE  OneInv'
<1>1. Clocks /\ Fresh /\ UNCHANGED bbuf
  BY DEF OneInv, StoreFails
<1>2. store' = store \/ store' = [content |-> NewContentOf(meta), mtime |-> now]
  BY DEF StoreFails
<1>3. PICK m : m = FailedMeta
  OBVIOUS
<1>4. PICK b : b = FailedMbuf
  OBVIOUS
<1>5. nexus_vfs_put(m, b)
  BY <1>3, <1>4 DEF StoreFails, FailedMeta, FailedMbuf
<1>6. /\ m \in Metas(writes) /\ m.is_invalid = TRUE /\ m.is_locked = mbuf.write_mode
      /\ b \in Mbufs(writes) /\ b.write_mode = mbuf.write_mode
      /\ b.writers = mbuf.writers /\ b.is_dirty = mbuf.is_dirty /\ b.timestamp = mbuf.timestamp
      /\ b.tmp_buffer = IF mbuf.write_mode THEN NoContent ELSE mbuf.tmp_buffer
  BY <1>3, <1>4, FailedFields
<1>7. /\ meta'.is_locked = FALSE /\ meta'.is_invalid = TRUE
      /\ mbuf'.timestamp = mbuf.timestamp /\ mbuf'.is_dirty = mbuf.is_dirty
      /\ mbuf'.tmp_buffer = b.tmp_buffer
      /\ IF mbuf.write_mode
         THEN /\ mbuf'.writers = mbuf.writers - 1 /\ (mbuf'.write_mode <=> mbuf.writers > 1)
              /\ mbuf.writers > 1 \/ ReleaseFile
         ELSE mbuf' = b /\ UNCHANGED <<handle, mutex, flock>>
  BY <1>5, <1>6, PutFields
<1>8. Clocks' /\ Fresh'
  BY <1>1, <1>2, <1>7, Fields DEF Clocks, Fresh
<1>9. Waits(o)' /\ Latest(o)'
  BY DEF Waits, Latest
<1>10. Locking(o)' /\ Stuck(o)'
  <2>1. CASE "locked" \in failed /\ "parse" \in failed
    BY <2>1 DEF Locking, Stuck
  <2>2. CASE /\ "locked" \notin failed /\ Clean
             /\ IF Locks(o) THEN Taken /\ Open(op[o].kind) ELSE Clear /\ Closed
    <3>1. Clean'
      BY <1>6, <1>7, <2>2 DEF Clean
    <3>2. Clear' /\ Closed'
      <4>1. CASE Locks(o)
        <5>1. handle # "none"
          BY <2>2, <4>1, OpFields, Constants DEF Open
        <5>2. mbuf.writers = 1 /\ mbuf.write_mode
          BY <2>2, <4>1 DEF Taken
        <5>3. ReleaseFile /\ mbuf'.writers = 0 /\ ~mbuf'.write_mode
          BY <1>7, <5>2
        <5> QED
          BY <1>7, <5>1, <5>3, Releases DEF Clear
      <4>2. CASE ~Locks(o)
        BY <1>6, <1>7, <2>2, <4>2 DEF Clear, Closed
      <4> QED
        BY <4>1, <4>2
    <3> QED
      BY <2>2, <3>1, <3>2 DEF Locking, Stuck
  <2> QED
    BY <2>1, <2>2, StoreLocking
<1> QED
  BY <1>8, <1>9, <1>10, OneConcludes

LEMMA EndsOne ==
    ASSUME OneThread, Typed, OneInv, NEW o \in Ops, Lookup(o) \/ Update(o) \/ FinishTransfer(o)
    PROVE  OneInv'
<1>1. op'[o].pc = "idle"
  BY EndTyped, Constants DEF Lookup, Update, FinishTransfer
<1>2. UNCHANGED <<now, failed>> /\ op[o].pc \in {"run", "transfer"}
  BY DEF Lookup, Update, FinishTransfer
<1>3. CASE nexus_vfs_put(meta, mbuf) /\ UNCHANGED <<store, bbuf>>
  BY <1>1, <1>2, <1>3, PutOne
<1>4. CASE nexus_metadata_store /\ (op[o].pc = "transfer" \/ (op[o].pc = "run" /\ op[o].kind = "update"))
  BY <1>1, <1>2, <1>4, DeferredOne, FlushedOne, FailedOne DEF nexus_metadata_store
<1> QED
  BY <1>3, <1>4 DEF Lookup, Update, FinishTransfer

LEMMA StartTransferOne ==
    ASSUME OneThread, Typed, OneInv, NEW o \in Ops, StartTransfer(o)
    PROVE  OneInv'
<1>1. /\ Clocks /\ Fresh /\ Locking(o) /\ Stuck(o) /\ Latest(o) /\ op[o].pc = "run" /\ IsTransfer(op[o].kind)
      /\ UNCHANGED <<store, flock, now, bbuf, handle, mutex, mbuf, writes, failed>>
  BY DEF OneInv, StartTransfer
<1>2. /\ op'[o].pc = IF handle = "none" THEN "idle" ELSE "transfer"
      /\ handle # "none" => op'[o].kind = op[o].kind /\ op'[o].raced = op[o].raced
  <2>1. op[o] \in Op /\ op \in [Ops -> Op]
    BY OpFields DEF Typed
  <2>2. PICK r : r = IF handle = "none" THEN IdleOp ELSE [op[o] EXCEPT !.pc = "transfer"]
    OBVIOUS
  <2>3. op' = [op EXCEPT ![o] = r]
    BY <2>1, <2>2 DEF StartTransfer
  <2>4. op'[o] = r
    BY <2>1, <2>3
  <2>5. r.pc = IF handle = "none" THEN "idle" ELSE "transfer"
    BY <2>1, <2>2, Constants DEF Op
  <2>6. handle # "none" => r.kind = op[o].kind /\ r.raced = op[o].raced
    BY <2>1, <2>2 DEF Op
  <2> QED
    BY <2>4, <2>5, <2>6
<1>3. /\ meta'.content = meta.content /\ meta'.is_locked = meta.is_locked /\ meta'.loaded = meta.loaded
      /\ meta'.is_invalid = meta.is_invalid
  <2>1. PICK d : d = (meta.is_dirty \/ op[o].kind = "encrypt")
    OBVIOUS
  <2>2. meta' = [meta EXCEPT !.is_dirty = d]
    BY <2>1 DEF StartTransfer
  <2> QED
    BY <2>2 DEF Typed, Metas
<1>4. Locks(o) /\ op[o].kind # "read"
  BY <1>1 DEF IsTransfer, Locks, nexus_io_in_lock_mode
<1>5. Clocks' /\ Fresh'
  BY <1>1, <1>3 DEF Clocks, Fresh
<1>6. Waits(o)' /\ Latest(o)'
  BY <1>1, <1>2, <1>3, <1>4 DEF Waits, Latest, Locks
<1>7. Locking(o)'
  <2> SUFFICES ASSUME "locked" \notin failed PROVE Locking(o)'
    BY <1>1 DEF Locking
  <2>1. Clean /\ Taken /\ Open(op[o].kind)
    BY <1>1, <1>4 DEF Locking
  <2>2. handle # "none"
    BY <2>1, OpFields, Constants DEF Open
  <2>3. op'[o].pc = "transfer" /\ op'[o].kind = op[o].kind
    BY <1>2, <2>2
  <2>4. Clean' /\ Taken' /\ Open(op[o].kind)'
    BY <1>1, <1>3, <2>1, <2>3 DEF Clean, Taken, Open
  <2> QED
    BY <1>4, <2>3, <2>4 DEF Locking, Locks
<1>8. Stuck(o)'
  BY <1>1, <1>4 DEF Stuck
<1> QED
  BY <1>5, <1>6, <1>7, <1>8, OneConcludes

LEMMA TransferDataOne ==
    ASSUME OneThread, Typed, OneInv, NEW o \in Ops, TransferData(o)
    PROVE  OneInv'
<1>1. /\ Clocks /\ Fresh /\ Waits(o) /\ Locking(o) /\ Stuck(o) /\ Latest(o) /\ op[o].pc = "transfer"
      /\ UNCHANGED <<flock, now, bbuf, handle, mutex, mbuf, op, ops_lock, writes, failed>>
  BY DEF OneInv, TransferData
<1>2. store'.content = store.content /\ store'.mtime = now
  BY DEF TransferData, Typed, Stores
<1>3. /\ meta'.content = meta.content /\ meta'.is_locked = meta.is_locked /\ meta'.loaded = meta.loaded
      /\ meta'.is_invalid = meta.is_invalid
  BY DEF TransferData, Typed, Metas
<1>4. Clocks' /\ Fresh'
  BY <1>1, <1>2, <1>3, Fields DEF Clocks, Fresh
<1>5. Waits(o)' /\ Latest(o)'
  BY <1>1, <1>2, <1>3 DEF Waits, Locks, Latest
<1>6. Stuck(o)'
  BY <1>1 DEF Stuck
<1>7. Locking(o)'
  BY <1>1, <1>3 DEF Locking, Locks, Clean, Taken, Clear, Open, Closed
<1> QED
  BY <1>4, <1>5, <1>6, <1>7, OneConcludes

LEMMA RemoteOne ==
    ASSUME OneThread, Typed, OneInv, NEW o \in Ops, RemoteUpdate
    PROVE  OneInv'
<1>1. /\ Clocks /\ Fresh /\ Waits(o) /\ Locking(o) /\ Stuck(o) /\ store'.mtime = now
      /\ UNCHANGED <<flock, now, bbuf, handle, mutex, mbuf, meta, ops_lock, failed>>
  BY DEF OneInv, RemoteUpdate
<1>2. op'[o] = Overtaken(o)
  BY DEF RemoteUpdate
<1>3. /\ op'[o].pc = op[o].pc /\ op'[o].kind = op[o].kind
      /\ op[o].pc \notin {"idle", "stat"} => op'[o].raced
  BY <1>2, OverFields
<1>4. Clocks' /\ Fresh'
  BY <1>1, Fields DEF Clocks, Fresh
<1>5. Waits(o)' /\ Latest(o)'
  BY <1>1, <1>3 DEF Waits, Latest, Locks
<1>6. Locking(o)'
  BY <1>1, <1>3 DEF Locking, Locks, Clean, Taken, Clear, Open, Closed
<1>7. Stuck(o)'
  BY <1>1, <1>3 DEF Stuck, Clean, Clear
<1> QED
  BY <1>4, <1>5, <1>6, <1>7, OneConcludes

LEMMA TickOne ==
    ASSUME OneThread, Typed, OneInv, NEW o \in Ops, Tick
    PROVE  OneInv'
<1>1. /\ Clocks /\ Fresh /\ Waits(o) /\ Locking(o) /\ Stuck(o) /\ Latest(o) /\ now' = now + 1
      /\ UNCHANGED <<store, flock, bbuf, handle, mutex, mbuf, meta, op, ops_lock, writes, failed>>
  BY DEF OneInv, Tick
<1>2. Clocks' /\ Fresh'
  BY <1>1, Fields DEF Clocks, Fresh
<1>3. Waits(o)' /\ Latest(o)' /\ Locking(o)' /\ Stuck(o)'
  BY <1>1 DEF Waits, Latest, Locking, Stuck, Locks, Clean, Taken, Clear, Open, Closed
<1> QED
  BY <1>2, <1>3, OneConcludes

LEMMA Nothing == /\ NoMeta.is_locked = FALSE /\ NoMeta.loaded = FALSE /\ NoBbuf.exists = FALSE
                 /\ NoBbuf.buffer_time = 0 /\ NoMbuf.timestamp = 0 /\ NoMbuf.writers = 0
                 /\ NoMbuf.write_mode = FALSE /\ NoMbuf.is_dirty = FALSE /\ NoMbuf.tmp_buffer = NoContent
BY DEF NoMeta, NoBbuf, NoMbuf

LEMMA EvictOne ==
    ASSUME OneThread, Typed, OneInv, NEW o \in Ops, Evict
    PROVE  OneInv'
<1>1. /\ Clocks /\ Fresh /\ Waits(o) /\ Locking(o) /\ Stuck(o) /\ meta' = NoMeta /\ mbuf' = NoMbuf
      /\ ops_lock = "none" /\ failed \subseteq failed'
      /\ UNCHANGED <<store, flock, now, bbuf, handle, mutex, ops_lock, writes>>
  BY DEF OneInv, Evict
<1>2. op'[o] = IdleOp /\ op'[o].pc = "idle"
  BY Constants DEF Evict
<1>3. Clean' /\ Clear'
  BY <1>1, Nothing DEF Clean, Clear
<1>4. Clocks' /\ Fresh'
  BY <1>1, Nothing, Fields DEF Clocks, Fresh
<1>5. Waits(o)' /\ Latest(o)'
  BY <1>2 DEF Waits, Latest
<1>6. op[o].pc \in {"idle", "transfer"}
  BY <1>1 DEF Waits
<1>7. CASE op[o].pc = "idle"
  <2>1. failed' = failed
    BY <1>7 DEF Evict, OneThread
  <2> QED
    BY <1>1, <1>2, <1>3, <1>4, <1>5, <1>7, <2>1, OneConcludes DEF Locking, Stuck, Closed
<1>8. CASE op[o].pc = "transfer"
  <2>1. failed' = failed \union {"locked"} /\ Locks(o)
    BY <1>1, <1>8 DEF Evict, Waits
  <2>2. Locking(o)'
    BY <2>1 DEF Locking
  <2>3. Stuck(o)'
    <3> SUFFICES ASSUME "parse" \notin failed
                 PROVE  handle # "none" /\ mutex
      BY <1>1, <1>2, <1>3, <2>1 DEF Stuck
    <3>1. "locked" \notin failed
      BY <1>1, <1>8 DEF Stuck
    <3>2. Open(op[o].kind) /\ op[o].kind \in Kinds
      BY <1>1, <1>8, <2>1, <3>1, OpFields DEF Locking
    <3> QED
      BY <3>2, Constants DEF Open
  <2> QED
    BY <1>4, <1>5, <2>2, <2>3, OneConcludes
<1> QED
  BY <1>6, <1>7, <1>8

LEMMA CrashOne ==
    ASSUME OneThread, Typed, OneInv, NEW o \in Ops, Crash
    PROVE  OneInv'
<1>1. /\ Clocks /\ meta' = NoMeta /\ mbuf' = NoMbuf /\ bbuf' = NoBbuf
      /\ handle' = "none" /\ mutex' = FALSE /\ flock' = FALSE /\ failed' = {} /\ UNCHANGED <<store, now>>
  BY DEF OneInv, Crash
<1>2. op'[o].pc = "idle"
  BY Constants DEF Crash
<1>3. Clean' /\ Clear' /\ Closed'
  BY <1>1, Nothing DEF Clean, Clear, Closed
<1>4. Clocks' /\ Fresh'
  BY <1>1, Nothing, Fields DEF Clocks, Fresh
<1>5. Waits(o)' /\ Latest(o)'
  BY <1>2 DEF Waits, Latest
<1>6. Locking(o)' /\ Stuck(o)'
  BY <1>1, <1>2, <1>3 DEF Locking, Stuck
<1> QED
  BY <1>4, <1>5, <1>6, OneConcludes

LEMMA InitOne ==
    ASSUME Init
    PROVE  OneInv
<1>1. /\ meta = NoMeta /\ mbuf = NoMbuf /\ bbuf = NoBbuf /\ handle = "none" /\ mutex = FALSE /\ flock = FALSE
      /\ failed = {} /\ store.mtime = 0 /\ now = 0
  BY DEF Init
<1>2. \A o \in Ops : op[o].pc = "idle"
  BY Constants DEF Init
<1>3. Clean /\ Clear /\ Closed
  BY <1>1, Nothing DEF Clean, Clear, Closed
<1>4. Clocks /\ Fresh
  BY <1>1, Nothing DEF Clocks, Fresh
<1>5. \A o \in Ops : Waits(o) /\ Locking(o) /\ Stuck(o) /\ Latest(o)
  BY <1>1, <1>2, <1>3 DEF Waits, Locking, Stuck, Latest
<1> QED
  BY <1>4, <1>5 DEF OneInv

LEMMA NextOne ==
    ASSUME OneThread, Typed, OneInv, [Next]_vars
    PROVE  OneInv'
<1>1. CASE UNCHANGED vars
  <2>1. Clocks' /\ Fresh'
    BY <1>1 DEF vars, OneInv, Clocks, Fresh
  <2>2. ASSUME NEW o \in Ops PROVE Waits(o)' /\ Locking(o)' /\ Stuck(o)' /\ Latest(o)'
    BY <1>1 DEF vars, OneInv, Waits, Latest, Locking, Stuck, Locks, Clean, Taken, Clear, Open, Closed
  <2> QED
    BY <2>1, <2>2 DEF OneInv
<1>2. ASSUME NEW o \in Ops, Step(o) PROVE OneInv'
  BY <1>2, LockOne, GetDirtyOne, GetLostOne, GetStatOne, OpenOne, FileIsOpenOne, WaitedOne, GetOne,
     ReadFailsOne, EndsOne, StartTransferOne, TransferDataOne DEF Step
<1>3. ASSUME NEW o \in Ops, NEW kind \in Kinds, Start(o, kind) PROVE OneInv'
  BY <1>3, StartOne
<1>4. PICK o : o \in Ops
  BY DEF OneThread
<1>5. CASE RemoteUpdate \/ Tick \/ Evict \/ Crash
  BY <1>4, <1>5, RemoteOne, TickOne, EvictOne, CrashOne
<1> QED
  BY <1>1, <1>2, <1>3, <1>5 DEF Next

LEMMA OneInvHolds ==
    ASSUME OneThread
    PROVE  Spec => []OneInv
<1>1. Init => OneInv
  BY InitOne
<1>2. Typed /\ OneInv /\ [Next]_vars => OneInv'
  BY NextOne
<1> QED
  BY <1>1, <1>2, TypedHolds, PTL DEF Spec

(* With one thread, a client that is idle holds nothing, however many      *)
(* operations were denied, failed to store or were cut by a crash before,  *)
(* and however the other clients wrote between its steps: the writers of   *)
(* buffer_layer.c, the mutex and the flock of io.c are all given back,     *)
(* unless a read failed under the lock or an object with an open transfer  *)
(* was evicted.                                                            *)
THEOREM LocksAreReleased ==
    ASSUME OneThread
    PROVE  Spec => []LocksReleased
<1>1. OneInv => LocksReleased
  <2> SUFFICES ASSUME OneInv, \A o \in Ops : op[o].pc = "idle", "locked" \notin failed
               PROVE  Clear /\ Closed
    BY DEF LocksReleased, Clear, Closed
  <2>1. PICK o : o \in Ops
    BY DEF OneThread
  <2> QED
    BY <2>1 DEF OneInv, Locking
<1> QED
  BY <1>1, OneInvHolds, PTL

(* With one thread, a store replaces the content the object was built on:  *)
(* no update of another client is lost, but for the races the property     *)
(* names, for any number of clients' writes, seconds and failures.         *)
THEOREM StoresBuildOnLatest ==
    ASSUME OneThread
    PROVE  Spec => StoresBuildOnTheLatest
<1>1. OneInv => [\A o \in Ops :
          (/\ store'.content # store.content
           /\ op[o].pc \in {"run", "transfer"} /\ op'[o].pc = "idle"
           /\ ~op[o].raced /\ "parse" \notin failed)
          => meta.content = store.content]_vars
  BY DEF OneInv, Latest
<1> QED
  BY <1>1, OneInvHolds, PTL DEF StoresBuildOnTheLatest
=============================================================================

-------------------------- MODULE BatchMode_proofs --------------------------
(***************************************************************************)
(* Proofs about BatchMode for any number of objects, updates and failures: *)
(* no update is forgotten and every operation reads the latest one,        *)
(* whatever the order of the operations, commands and failures.  The       *)
(* invariant says what the flags of a metadata_buf promise about the two   *)
(* copies of the object, for objects that met none of the cases in which   *)
(* updates are known to get lost.                                          *)
(***************************************************************************)
EXTENDS BatchMode, TLAPS

Buffer == [exists : BOOLEAN, node : Updates, newer : SUBSET {"store", "batch"},
           is_dirty : BOOLEAN, is_syncing : BOOLEAN, sync_file_exists : BOOLEAN,
           batch_file_exists : BOOLEAN, batch_mode_created : BOOLEAN,
           batch_mode_modified : BOOLEAN]

(* The types of the variables, the bounds included.                        *)
Types ==
    /\ dirs \in SUBSET Objects /\ batch_mode \in BOOLEAN
    /\ store \in [Objects -> File] /\ batch \in [Objects -> File]
    /\ buf \in [Objects -> Buffer]
    /\ handle \in [Objects -> SUBSET {"store", "batch"}] /\ mutex \in SUBSET Objects
    /\ deleted \in SUBSET Objects
    /\ writes \in 0 .. MaxWrites
    /\ latest \in [Objects -> Updates] /\ tried \in [Objects -> Updates]
    /\ live \in SUBSET Objects /\ excused \in SUBSET Objects /\ overlap \in BOOLEAN

(* The operation and the commander work on objects that are there.         *)
Busy == {"open", "wait", "write", "copy"}

Threads ==
    /\ op.pc \in {"idle", "get", "run", "unlock"} /\ op.node \in Updates
    /\ op = [pc |-> op.pc, obj |-> op.obj, node |-> op.node]
    /\ op.pc # "idle" => op.obj \in live
    /\ OpHasFile => buf[op.obj].exists
    /\ sync.pc \in {"idle", "next"} \union Busy /\ sync.todo \in SUBSET live
    /\ sync = [pc |-> sync.pc, todo |-> sync.todo, obj |-> sync.obj, finish |-> sync.finish]
    /\ sync.finish \in BOOLEAN
    /\ sync.pc = "idle" => sync.todo = {}
    /\ sync.pc \in Busy => sync.obj \in live
    /\ \A o \in Objects : buf[o].is_syncing => sync.pc \in Busy /\ sync.obj = o

(* Objects that were deleted, the data of dirnodes, and failed puts, which *)
(* excuse a filenode.                                                      *)
Whole(o) ==
    /\ o \notin live => buf[o] = NoBuf
    /\ buf[o].sync_file_exists => store[o].exists
    /\ o \in deleted => o \notin live /\ store[o].exists
    /\ IF o \in dirs THEN store[o].data = {} /\ batch[o].data = {} ELSE tried[o] = {}

Deletions == \A o \in Objects : Whole(o)

(* What the flags of an object's buffer promise about its two files.       *)
Flags(o, b) ==
    /\ b.exists => Fits(b.node, o)
    /\ b.is_dirty => o \in dirs /\ b.exists /\ b.batch_mode_modified
    /\ b.batch_mode_created => b.batch_file_exists
    /\ b.batch_file_exists => batch[o].exists
    /\ b.batch_mode_modified => /\ batch_mode /\ b.exists /\ b.batch_file_exists
                                /\ ~b.is_dirty => Holds(batch[o], o)
    /\ ~b.batch_mode_modified => Holds(store[o], o)
    /\ b.batch_mode_modified /\ ~b.is_dirty /\ "batch" \in b.newer
          => Holds(store[o], o) \/ IsEmpty(batch[o])
    /\ b.batch_file_exists /\ ~b.batch_mode_modified
          => Holds(batch[o], o) \/ (b.exists /\ "batch" \notin b.newer)

Sound == \A o \in InOrder : Flags(o, buf[o])

(* The object of the operation that has its file open, and the one that    *)
(* the commander is at.                                                    *)
Running ==
    op.pc = "run" /\ op.obj \in InOrder =>
        LET o == op.obj IN
        /\ Fits(op.node, o) /\ ~buf[o].is_syncing
        /\ batch_mode => /\ buf[o].batch_file_exists
                         /\ ~buf[o].is_dirty => Holds(batch[o], o)

Syncing ==
    sync.pc \in Busy /\ sync.obj \in InOrder =>
        LET o == sync.obj IN
        /\ buf[o].batch_mode_modified /\ buf[o].is_syncing
        /\ buf[o].is_dirty <=> sync.pc # "copy"
        /\ sync.pc \in {"wait", "write"} => store[o].exists

IInv == Types /\ Threads /\ Deletions /\ Sound /\ Running /\ Syncing
-----------------------------------------------------------------------------
(* The operators of the model.                                             *)

LEMMA NothingTypes ==
    /\ NoFile \in File /\ NewFile \in File /\ NoBuf \in Buffer
    /\ ~NoFile.exists /\ NoFile.node = {} /\ NoFile.data = {}
    /\ NewFile.exists /\ NewFile.node = {} /\ NewFile.data = {}
<1>1. {} \in Updates
  BY DEF Updates
<1>2. NoFile \in File /\ ~NoFile.exists /\ NoFile.node = {} /\ NoFile.data = {}
  BY <1>1 DEF NoFile, File
<1>3. NewFile \in File /\ NewFile.exists /\ NewFile.node = {} /\ NewFile.data = {}
  BY <1>1 DEF NewFile, NoFile, File
<1>4. NoBuf \in Buffer
  BY <1>1 DEF NoBuf, Buffer
<1> QED
  BY <1>2, <1>3, <1>4

LEMMA NoBufFields ==
    /\ NoBuf.exists = FALSE /\ NoBuf.node = {} /\ NoBuf.is_dirty = FALSE /\ NoBuf.is_syncing = FALSE
    /\ NoBuf.sync_file_exists = FALSE /\ NoBuf.batch_file_exists = FALSE
    /\ NoBuf.batch_mode_created = FALSE /\ NoBuf.batch_mode_modified = FALSE
BY DEF NoBuf

LEMMA NoOpFields ==
    /\ NoOp = [pc |-> NoOp.pc, obj |-> NoOp.obj, node |-> NoOp.node]
    /\ NoOp.pc = "idle" /\ NoOp.node = {} /\ NoOp.node \in Updates
BY DEF NoOp, Updates

LEMMA FileFields ==
    ASSUME NEW f \in File
    PROVE  f.exists \in BOOLEAN /\ f.node \in Updates /\ f.data \in Updates
BY DEF File

LEMMA BufferFields ==
    ASSUME NEW b \in Buffer
    PROVE  /\ b.exists \in BOOLEAN /\ b.node \in Updates /\ b.newer \in SUBSET {"store", "batch"}
           /\ b.is_dirty \in BOOLEAN /\ b.is_syncing \in BOOLEAN /\ b.sync_file_exists \in BOOLEAN
           /\ b.batch_file_exists \in BOOLEAN /\ b.batch_mode_created \in BOOLEAN
           /\ b.batch_mode_modified \in BOOLEAN
BY DEF Buffer

LEMMA GotType ==
    ASSUME Types, NEW o \in Objects
    PROVE  /\ Got(o) \in Updates /\ OpensFile(o) \in File /\ StatFile(o) \in File
           /\ Where(o) \in {"store", "batch"} /\ StatIn(o) \in {"store", "batch"}
           /\ Copies(o) \in BOOLEAN
<1>1. store[o] \in File /\ batch[o] \in File /\ buf[o] \in Buffer
  BY DEF Types
<1>2. OpensFile(o) \in File /\ StatFile(o) \in File
  BY <1>1 DEF OpensFile, StatFile
<1>3. {} \in Updates
  BY DEF Updates
<1> QED
  BY <1>1, <1>2, <1>3, FileFields, BufferFields DEF Got, Where, StatIn, Copies

(* ReadsLatest, of one object.                                             *)
LEMMA GotIsLatest ==
    ASSUME Types, Threads, Deletions, Sound, Syncing, NEW o \in InOrder
    PROVE  StatFile(o).exists /\ Fits(Got(o), o)
<1> DEFINE b == buf[o]
<1>1. o \in Objects /\ Flags(o, b)
  BY DEF InOrder, Types, Sound
<1>2. store[o] \in File /\ batch[o] \in File /\ b \in Buffer
  BY <1>1 DEF Types
<1>3. /\ b.exists \in BOOLEAN /\ b.is_dirty \in BOOLEAN /\ b.is_syncing \in BOOLEAN
      /\ b.batch_file_exists \in BOOLEAN /\ b.batch_mode_created \in BOOLEAN
      /\ b.batch_mode_modified \in BOOLEAN /\ batch_mode \in BOOLEAN
  BY <1>2, BufferFields DEF Types
<1>4. b.is_syncing => b.batch_mode_modified
  BY <1>1 DEF Threads, Syncing
<1> HIDE DEF b
<1>6. StatFile(o).exists
  BY <1>1, <1>3 DEF b, StatFile, StatIn, Flags, Holds, Fits
<1>7. CASE Serves(o)
  BY <1>1, <1>6, <1>7 DEF b, Serves, Got, Flags
<1>8. CASE ~Serves(o) /\ StatIn(o) = "store"
  <2>1. Holds(store[o], o)
    BY <1>1, <1>3, <1>8 DEF b, StatIn, Flags
  <2>2. OpensFile(o) = store[o] /\ StatFile(o) = store[o]
    BY <1>1, <1>3, <1>8 DEF b, OpensFile, StatFile, StatIn, Copies, Where, Flags
  <2> QED
    BY <1>6, <1>8, <2>1, <2>2 DEF Got, Holds, Fits, IsEmpty
<1>9. CASE ~Serves(o) /\ StatIn(o) = "batch"
  <2>1. /\ batch_mode /\ b.batch_file_exists /\ StatFile(o) = batch[o]
        /\ ~Copies(o) /\ (Where(o) = "store" <=> b.is_syncing)
    BY <1>3, <1>9 DEF b, StatIn, StatFile, Copies, Where
  <2>2. b.exists => ~b.is_dirty /\ "batch" \in b.newer
    BY <1>3, <1>9 DEF b, Serves
  <2>3. ~b.is_dirty
    BY <1>1, <2>2 DEF Flags
  <2>4. Holds(batch[o], o)
    BY <1>1, <1>3, <2>1, <2>2, <2>3 DEF Flags
  <2>5. CASE ~b.is_syncing
    BY <1>6, <1>9, <2>1, <2>4, <2>5 DEF Got, OpensFile, Holds, Fits, IsEmpty
  <2>6. CASE b.is_syncing
    <3>1. Holds(store[o], o) \/ IsEmpty(batch[o])
      BY <1>1, <1>4, <2>2, <2>3, <2>6 DEF Flags
    <3>2. OpensFile(o) = store[o]
      BY <2>1, <2>6 DEF OpensFile
    <3> QED
      BY <1>6, <1>9, <2>1, <2>4, <3>1, <3>2 DEF Got, Holds, Fits, IsEmpty
  <2> QED
    BY <1>3, <2>5, <2>6
<1> QED
  BY <1>1, <1>7, <1>8, <1>9 DEF StatIn

LEMMA OpenedFields ==
    ASSUME Types, NEW o \in Objects, NEW e, \E late \in BOOLEAN : e = Opened(o, late)
    PROVE  /\ e \in Buffer /\ e.exists = TRUE /\ e.node = buf[o].node /\ e.is_dirty = buf[o].is_dirty
           /\ e.is_syncing = buf[o].is_syncing /\ e.batch_mode_created = buf[o].batch_mode_created
           /\ e.batch_mode_modified = buf[o].batch_mode_modified
           /\ e.newer = buf[o].newer \/ Copies(o)
           /\ e.batch_file_exists <=> buf[o].batch_file_exists \/ Copies(o)
           /\ e.sync_file_exists <=> buf[o].sync_file_exists \/ Copies(o) \/ Where(o) = "store"
<1>0. PICK late \in BOOLEAN : e = Opened(o, late)
  OBVIOUS
<1> DEFINE n == IF Copies(o) /\ (late \/ "store" \in buf[o].newer) THEN buf[o].newer \union {"batch"}
                ELSE buf[o].newer
           f == buf[o].batch_file_exists \/ Copies(o)
           s == buf[o].sync_file_exists \/ Copies(o) \/ Where(o) = "store"
<1>1. buf[o] \in Buffer
  BY DEF Types
<1>2. n \in SUBSET {"store", "batch"} /\ f \in BOOLEAN /\ s \in BOOLEAN
  BY <1>1, BufferFields, GotType
<1>3. n = buf[o].newer \/ Copies(o)
  BY GotType
<1>4. e = [buf[o] EXCEPT !.exists = TRUE, !.newer = n, !.batch_file_exists = f, !.sync_file_exists = s]
  BY <1>0 DEF Opened
<1> HIDE DEF n, f, s
<1>5. /\ e \in Buffer /\ e.exists = TRUE /\ e.node = buf[o].node /\ e.is_dirty = buf[o].is_dirty
      /\ e.is_syncing = buf[o].is_syncing /\ e.batch_mode_created = buf[o].batch_mode_created
      /\ e.batch_mode_modified = buf[o].batch_mode_modified
      /\ e.newer = n /\ e.batch_file_exists = f /\ e.sync_file_exists = s
  BY <1>1, <1>2, <1>4 DEF Buffer
<1> QED
  BY <1>2, <1>3, <1>5 DEF f, s

LEMMA ReadFields ==
    ASSUME Types, NEW o \in Objects, NEW b \in Buffer, NEW e, e = io_buffer_read(b, o)
    PROVE  /\ e \in Buffer /\ e.is_dirty = b.is_dirty /\ e.is_syncing = b.is_syncing
           /\ e.sync_file_exists = b.sync_file_exists /\ e.batch_file_exists = b.batch_file_exists
           /\ e.batch_mode_created = b.batch_mode_created
           /\ e.batch_mode_modified = b.batch_mode_modified
           /\ Serves(o) => e = b
           /\ ~Serves(o) => e.exists = TRUE /\ e.node = Got(o) /\ e.newer = {}
<1> DEFINE g == Got(o)
<1>1. g \in Updates
  BY GotType
<1>2. ~Serves(o) => e = [b EXCEPT !.exists = TRUE, !.node = g, !.newer = {}]
  BY DEF io_buffer_read
<1>3. Serves(o) => e = b
  BY DEF io_buffer_read
<1> HIDE DEF g
<1>4. ~Serves(o) => /\ e \in Buffer /\ e.is_dirty = b.is_dirty /\ e.is_syncing = b.is_syncing
                    /\ e.sync_file_exists = b.sync_file_exists
                    /\ e.batch_file_exists = b.batch_file_exists
                    /\ e.batch_mode_created = b.batch_mode_created
                    /\ e.batch_mode_modified = b.batch_mode_modified
                    /\ e.exists = TRUE /\ e.node = g /\ e.newer = {}
  BY <1>1, <1>2 DEF Buffer
<1> QED
  BY <1>3, <1>4 DEF g

LEMMA InOrderMember ==
    ASSUME NEW o
    PROVE  /\ o \in InOrder <=> ~overlap /\ o \in live /\ o \notin excused
           /\ o \in InOrder' <=> ~overlap' /\ o \in live' /\ o \notin excused'
BY DEF InOrder
-----------------------------------------------------------------------------
(* What a step does not touch stays as it is.                              *)

OthersSame(o) ==
    \A p \in Objects \ {o} : /\ buf'[p] = buf[p] /\ store'[p] = store[p]
                             /\ batch'[p] = batch[p] /\ latest'[p] = latest[p] /\ tried'[p] = tried[p]

LEMMA SoundStep ==
    ASSUME Types, Sound, NEW o \in Objects, OthersSame(o), dirs' = dirs, batch_mode' = batch_mode,
           InOrder' \subseteq InOrder \union {o}, o \in InOrder' => Flags(o, buf[o])'
    PROVE  Sound'
<1> SUFFICES ASSUME NEW p \in InOrder', p # o
             PROVE  Flags(p, buf[p])'
  BY DEF Sound
<1>1. p \in Objects \ {o} /\ Flags(p, buf[p])
  BY DEF Sound, InOrder, Types
<1>2. /\ buf'[p] = buf[p] /\ store'[p] = store[p] /\ batch'[p] = batch[p] /\ latest'[p] = latest[p] /\ tried'[p] = tried[p]
  BY <1>1 DEF OthersSame
<1> QED
  BY <1>1, <1>2 DEF Flags, Holds, Fits

LEMMA WholeStep ==
    ASSUME Types, Deletions, NEW o \in Objects, OthersSame(o), dirs' = dirs,
           \A p \in Objects \ {o} : /\ p \in live' <=> p \in live
                                    /\ p \in deleted' => p \in deleted,
           Whole(o)'
    PROVE  Deletions'
<1> SUFFICES ASSUME NEW p \in Objects, p # o
             PROVE  Whole(p)'
  BY DEF Deletions
<1>1. Whole(p) /\ p \in Objects \ {o}
  BY DEF Deletions
<1>2. /\ buf'[p] = buf[p] /\ store'[p] = store[p] /\ batch'[p] = batch[p] /\ tried'[p] = tried[p]
  BY <1>1 DEF OthersSame
<1> QED
  BY <1>1, <1>2 DEF Whole

(* Only the operation or the commander goes on; the files, the buffers and *)
(* the history stay.                                                       *)
Quiet == /\ dirs' = dirs /\ batch_mode' = batch_mode /\ store' = store /\ batch' = batch
         /\ buf' = buf /\ deleted' = deleted /\ writes' = writes /\ live' = live
         /\ latest' = latest /\ tried' = tried /\ excused' = excused /\ overlap' = overlap

LEMMA QuietStep ==
    ASSUME IInv, Quiet, handle' \in [Objects -> SUBSET {"store", "batch"}], mutex' \in SUBSET Objects
    PROVE  Types' /\ Deletions' /\ Sound'
<1>1. Types'
  BY DEF IInv, Types, Quiet
<1>2. Deletions'
  BY DEF IInv, Deletions, Whole, Quiet
<1>3. Sound'
  BY DEF IInv, Sound, Flags, Holds, Fits, InOrder, Quiet
<1> QED
  BY <1>1, <1>2, <1>3
-----------------------------------------------------------------------------
(* The steps.                                                              *)

(* Reading an object, and copying it to the batch datastore first if it is *)
(* opened there.                                                           *)
LEMMA ReadFlags ==
    ASSUME IInv, NEW o \in InOrder, dirs' = dirs, batch_mode' = batch_mode, store' = store,
           latest' = latest /\ tried' = tried, NEW e \in Buffer,
           e.is_dirty = buf[o].is_dirty, e.batch_mode_created = buf[o].batch_mode_created,
           e.batch_mode_modified = buf[o].batch_mode_modified, e.exists = TRUE,
           Serves(o) => e.node = buf[o].node /\ (e.newer = buf[o].newer \/ Copies(o)),
           ~Serves(o) => e.node = Got(o) /\ e.newer = {},
           \/ batch'[o] = batch[o] /\ e.batch_file_exists = buf[o].batch_file_exists
           \/ Copies(o) /\ store[o].exists /\ batch'[o] = store[o] /\ e.batch_file_exists = TRUE,
           buf'[o] = e
    PROVE  Flags(o, buf[o])'
<1> DEFINE b == buf[o]
<1>1. o \in Objects /\ Flags(o, b) /\ Fits(Got(o), o)
  BY GotIsLatest DEF IInv, InOrder, Types, Sound
<1>2. b \in Buffer
  BY <1>1 DEF IInv, Types
<1>3. Fits(e.node, o)
  <2>1. Serves(o) => Got(o) = b.node
    BY DEF Got
  <2> QED
    BY <1>1, <2>1
<1> HIDE DEF b
<1>4. CASE batch'[o] = batch[o] /\ e.batch_file_exists = buf[o].batch_file_exists /\ ~Copies(o)
  <2>1. e.newer = b.newer \/ e.newer = {}
    BY <1>4 DEF b
  <2> QED
    BY <1>1, <1>2, <1>3, <1>4, <2>1 DEF b, Flags, Holds, Fits
<1>5. CASE batch'[o] = batch[o] /\ e.batch_file_exists = buf[o].batch_file_exists /\ Copies(o)
  <2>1. ~b.batch_file_exists
    BY <1>5 DEF b, Copies
  <2> QED
    BY <1>1, <1>2, <1>3, <1>5, <2>1 DEF b, Flags, Holds, Fits
<1>6. CASE Copies(o) /\ store[o].exists /\ batch'[o] = store[o] /\ e.batch_file_exists = TRUE
  <2>1. ~b.batch_file_exists
    BY <1>6 DEF b, Copies
  <2> QED
    BY <1>1, <1>2, <1>3, <1>6, <2>1 DEF b, Flags, Holds, Fits
<1> QED
  BY <1>4, <1>5, <1>6

LEMMA LookupStep ==
    ASSUME IInv, NEW o \in Objects, Lookup(o)
    PROVE  IInv'
<1> DEFINE opens == ~Serves(o) /\ ~IsEmpty(StatFile(o)) /\ ~HasHandle(o)
           b == buf[o]
           e == buf'[o]
<1>1. /\ o \in live /\ op.pc = "idle"
      /\ opens => OpensFile(o).exists
      /\ IF opens THEN copy_metadata_file_to_batch_directory(o) ELSE batch' = batch
      /\ buf' = [buf EXCEPT ![o] = IF opens
                   THEN [io_buffer_read(Opened(o, FALSE), o) EXCEPT !.is_dirty = FALSE]
                   ELSE io_buffer_read(b, o)]
  BY DEF Lookup
<1>2. /\ dirs' = dirs /\ batch_mode' = batch_mode /\ store' = store /\ handle' = handle
      /\ mutex' = mutex /\ deleted' = deleted /\ op' = op /\ sync' = sync /\ writes' = writes
      /\ live' = live /\ latest' = latest /\ tried' = tried /\ excused' = excused /\ overlap' = overlap
  BY DEF Lookup, handles, bounds, history
<1>3. /\ Types /\ b \in Buffer /\ store[o] \in File /\ batch \in [Objects -> File]
      /\ buf \in [Objects -> Buffer]
  BY DEF IInv, Types
<1>4. opens \in BOOLEAN
  OBVIOUS
<1> HIDE DEF opens
<1>5. CASE opens
  <2> DEFINE r == io_buffer_read(Opened(o, FALSE), o)
             u == Opened(o, FALSE)
  <2>1. /\ u \in Buffer /\ u.is_syncing = b.is_syncing /\ u.is_dirty = b.is_dirty
        /\ u.batch_mode_created = b.batch_mode_created
        /\ u.batch_mode_modified = b.batch_mode_modified
        /\ u.batch_file_exists <=> b.batch_file_exists \/ Copies(o)
        /\ u.sync_file_exists <=> b.sync_file_exists \/ Copies(o) \/ Where(o) = "store"
    BY <1>3, OpenedFields
  <2>2. r = io_buffer_read(u, o)
    OBVIOUS
  <2>3. ~Serves(o) /\ OpensFile(o).exists
    BY <1>1, <1>5 DEF opens
  <2> HIDE DEF u
  <2>4. /\ r \in Buffer /\ r.is_syncing = u.is_syncing
        /\ r.sync_file_exists = u.sync_file_exists /\ r.batch_file_exists = u.batch_file_exists
        /\ r.batch_mode_created = u.batch_mode_created
        /\ r.batch_mode_modified = u.batch_mode_modified
        /\ r.exists = TRUE /\ r.node = Got(o) /\ r.newer = {}
    BY <1>3, <2>1, <2>2, <2>3, ReadFields
  <2>5. buf' = [buf EXCEPT ![o] = [r EXCEPT !.is_dirty = FALSE]]
    BY <1>1, <1>5
  <2> HIDE DEF r
  <2>6. e = [r EXCEPT !.is_dirty = FALSE]
    BY <1>3, <2>5
  <2>7. /\ e \in Buffer /\ e.is_syncing = r.is_syncing /\ e.is_dirty = FALSE
        /\ e.sync_file_exists = r.sync_file_exists /\ e.batch_file_exists = r.batch_file_exists
        /\ e.batch_mode_created = r.batch_mode_created
        /\ e.batch_mode_modified = r.batch_mode_modified
        /\ e.exists = TRUE /\ e.node = Got(o) /\ e.newer = {}
    BY <2>4, <2>6 DEF Buffer
  <2>8. buf' \in [Objects -> Buffer] /\ \A p \in Objects \ {o} : buf'[p] = buf[p]
    BY <1>3, <2>4, <2>5, <2>6, <2>7
  <2>9. batch' = IF Copies(o) THEN [batch EXCEPT ![o] = store[o]] ELSE batch
    BY <1>1, <1>5 DEF copy_metadata_file_to_batch_directory
  <2>10. /\ batch' \in [Objects -> File] /\ \A p \in Objects \ {o} : batch'[p] = batch[p]
         /\ Copies(o) => batch'[o] = store[o]
         /\ ~Copies(o) => batch'[o] = batch[o]
    BY <1>3, <2>9
  <2>11. (Copies(o) \/ Where(o) = "store") => store[o].exists
    BY <2>3 DEF OpensFile
  <2>12. OthersSame(o)
    BY <1>2, <2>8, <2>10 DEF OthersSame
  <2>13. Types'
    BY <1>2, <2>8, <2>10 DEF IInv, Types
  <2>14. Deletions'
    <3>1. Whole(o)'
      <4>1. Whole(o)
        BY DEF IInv, Deletions
      <4>2. e.sync_file_exists => store[o].exists
        BY <2>1, <2>4, <2>7, <2>11, <4>1 DEF Whole
      <4>3. o \in dirs => store[o].data = {} /\ batch'[o].data = {}
        BY <2>10, <4>1 DEF Whole
      <4> QED
        BY <1>1, <1>2, <4>1, <4>2, <4>3 DEF Whole
    <3> QED
      BY <1>2, <1>3, <2>12, <3>1, WholeStep DEF IInv
  <2>15. Sound'
    <3>1. ASSUME o \in InOrder
          PROVE  Flags(o, buf[o])'
      <4>1. b.is_dirty = FALSE
        <5>1. Flags(o, b)
          BY <3>1 DEF IInv, Sound
        <5> QED
          BY <1>3, <2>3, <5>1, BufferFields DEF Flags, Serves
      <4>2. \/ batch'[o] = batch[o] /\ e.batch_file_exists = b.batch_file_exists
            \/ Copies(o) /\ store[o].exists /\ batch'[o] = store[o] /\ e.batch_file_exists = TRUE
        BY <1>3, <2>1, <2>4, <2>7, <2>10, <2>11, BufferFields
      <4>3. /\ e.is_dirty = b.is_dirty /\ e.batch_mode_created = b.batch_mode_created
            /\ e.batch_mode_modified = b.batch_mode_modified
        BY <2>1, <2>4, <2>7, <4>1
      <4> HIDE DEF e
      <4>4. buf'[o] = e
        BY DEF e
      <4> QED
        BY <1>2, <2>3, <2>7, <3>1, <4>2, <4>3, <4>4, ReadFlags
    <3> QED
      BY <1>2, <1>3, <2>12, <3>1, SoundStep DEF IInv, InOrder
  <2>16. Threads'
    <3>1. \A p \in Objects : buf'[p].is_syncing = buf[p].is_syncing
      BY <2>1, <2>4, <2>7, <2>8
    <3>2. OpHasFile' => buf'[op.obj].exists
      BY <1>1, <1>2 DEF OpHasFile
    <3> QED
      BY <1>2, <3>1, <3>2 DEF IInv, Threads
  <2>17. Running'
    BY <1>1, <1>2 DEF Running
  <2>18. Syncing'
    <3> SUFFICES ASSUME sync.pc \in Busy, sync.obj \in InOrder
                 PROVE  /\ buf'[sync.obj].batch_mode_modified /\ buf'[sync.obj].is_syncing
                        /\ buf'[sync.obj].is_dirty <=> sync.pc # "copy"
                        /\ sync.pc \in {"wait", "write"} => store[sync.obj].exists
      BY <1>2 DEF Syncing, InOrder
    <3>1. CASE sync.obj = o
      <4>1. Flags(o, b)
        BY <3>1 DEF IInv, Sound
      <4>2. b.is_dirty = FALSE
        BY <1>3, <2>3, <4>1, BufferFields DEF Flags, Serves
      <4> QED
        BY <2>1, <2>4, <2>7, <3>1, <4>2 DEF IInv, Syncing
    <3>2. CASE sync.obj # o
      <4>1. sync.obj \in Objects \ {o}
        BY <1>3, <3>2 DEF InOrder, Types
      <4> QED
        BY <2>8, <4>1 DEF IInv, Syncing
    <3> QED
      BY <3>1, <3>2
  <2> QED
    BY <2>13, <2>14, <2>15, <2>16, <2>17, <2>18 DEF IInv
<1>6. CASE ~opens
  <2>1. batch' = batch /\ buf' = [buf EXCEPT ![o] = io_buffer_read(b, o)]
    BY <1>1, <1>6
  <2>2. /\ e = io_buffer_read(b, o) /\ \A p \in Objects \ {o} : buf'[p] = buf[p]
    BY <1>3, <2>1
  <2>3. /\ e \in Buffer /\ e.is_dirty = b.is_dirty /\ e.is_syncing = b.is_syncing
        /\ e.sync_file_exists = b.sync_file_exists /\ e.batch_file_exists = b.batch_file_exists
        /\ e.batch_mode_created = b.batch_mode_created
        /\ e.batch_mode_modified = b.batch_mode_modified
        /\ Serves(o) => e = b
        /\ ~Serves(o) => e.exists = TRUE /\ e.node = Got(o) /\ e.newer = {}
    BY <1>3, <2>2, ReadFields
  <2>4. buf' \in [Objects -> Buffer]
    BY <1>3, <2>1, <2>2, <2>3
  <2>5. OthersSame(o)
    BY <1>2, <2>1, <2>2 DEF OthersSame
  <2>6. Types'
    BY <1>2, <2>1, <2>4 DEF IInv, Types
  <2>7. Deletions'
    <3>1. Whole(o)
      BY DEF IInv, Deletions
    <3>2. Whole(o)'
      BY <1>1, <1>2, <2>1, <2>3, <3>1 DEF Whole
    <3> QED
      BY <1>2, <1>3, <2>5, <3>2, WholeStep DEF IInv
  <2>8. Sound'
    <3>1. ASSUME o \in InOrder
          PROVE  Flags(o, buf[o])'
      <4>1. e.exists = TRUE
        BY <1>3, <2>3, BufferFields DEF Serves
      <4>2. Serves(o) => e.node = b.node /\ (e.newer = b.newer \/ Copies(o))
        BY <2>3
      <4>3. batch'[o] = batch[o]
        BY <2>1
      <4> HIDE DEF e
      <4>4. buf'[o] = e
        BY DEF e
      <4> QED
        BY <1>2, <2>3, <3>1, <4>1, <4>2, <4>3, <4>4, ReadFlags
    <3> QED
      BY <1>2, <1>3, <2>5, <3>1, SoundStep DEF IInv, InOrder
  <2>9. Threads'
    <3>1. \A p \in Objects : buf'[p].is_syncing = buf[p].is_syncing
      BY <2>2, <2>3
    <3>2. OpHasFile' => buf'[op.obj].exists
      BY <1>1, <1>2 DEF OpHasFile
    <3> QED
      BY <1>2, <3>1, <3>2 DEF IInv, Threads
  <2>10. Running'
    BY <1>1, <1>2 DEF Running
  <2>11. Syncing'
    <3>1. \A p \in Objects : /\ buf'[p].batch_mode_modified = buf[p].batch_mode_modified
                             /\ buf'[p].is_dirty = buf[p].is_dirty
                             /\ buf'[p].is_syncing = buf[p].is_syncing
      BY <2>2, <2>3
    <3>2. InOrder' = InOrder /\ InOrder \subseteq Objects
      BY <1>2, <1>3 DEF InOrder, Types
    <3> QED
      BY <1>2, <3>1, <3>2 DEF IInv, Syncing
  <2> QED
    BY <2>6, <2>7, <2>8, <2>9, <2>10, <2>11 DEF IInv
<1> QED
  BY <1>5, <1>6

LEMMA QuietSteps ==
    ASSUME IInv, \/ \E o \in Objects : Begin(o)
                 \/ GetFails
                 \/ PutWithoutFile
                 \/ \E finish \in BOOLEAN : batch_mode_commit(finish)
                 \/ SyncGetsMutex
    PROVE  IInv'
<1>1. Quiet
  BY DEF Begin, GetFails, PutWithoutFile, batch_mode_commit, SyncGetsMutex, Quiet, files, handles,
         bounds, history
<1>2. /\ handle \in [Objects -> SUBSET {"store", "batch"}] /\ mutex \in SUBSET Objects
      /\ live \in SUBSET Objects
  BY DEF IInv, Types
<1>3. InOrder' = InOrder
  BY <1>1 DEF Quiet, InOrder
<1>4. {} \in Updates
  BY DEF Updates
<1>5. CASE sync' = sync /\ handle' = handle /\ mutex' = mutex /\ op'.pc # "run" /\ Threads'
  <2>1. Types' /\ Deletions' /\ Sound'
    BY <1>1, <1>2, <1>5, QuietStep
  <2>2. Running'
    BY <1>5 DEF Running
  <2>3. Syncing'
    BY <1>1, <1>3, <1>5 DEF IInv, Syncing, Quiet
  <2> QED
    BY <1>5, <2>1, <2>2, <2>3 DEF IInv
<1>6. ASSUME NEW o \in Objects, Begin(o)
      PROVE  IInv'
  <2>1. /\ op' = [pc |-> "get", obj |-> o, node |-> {}] /\ o \in live
        /\ sync' = sync /\ handle' = handle /\ mutex' = mutex
    BY <1>6 DEF Begin, NoOp, handles
  <2>2. op'.pc = "get" /\ op'.obj = o /\ op'.node = {}
    BY <2>1
  <2>3. Threads'
    BY <1>1, <1>4, <2>1, <2>2 DEF IInv, Threads, OpHasFile, Quiet
  <2> QED
    BY <1>5, <2>1, <2>2, <2>3
<1>7. CASE GetFails
  <2>1. /\ op' = [pc |-> "idle", obj |-> "none", node |-> {}]
        /\ sync' = sync /\ handle' = handle /\ mutex' = mutex
    BY <1>7 DEF GetFails, NoOp, handles
  <2>2. op'.pc = "idle" /\ op'.obj = "none" /\ op'.node = {}
    BY <2>1
  <2>3. Threads'
    BY <1>1, <1>4, <2>1, <2>2 DEF IInv, Threads, OpHasFile, Quiet
  <2> QED
    BY <1>5, <2>1, <2>2, <2>3
<1>8. CASE PutWithoutFile
  <2>1. /\ op' = [op EXCEPT !.pc = "unlock"] /\ op.pc = "run"
        /\ sync' = sync /\ handle' = handle /\ mutex' = mutex
    BY <1>8 DEF PutWithoutFile, handles
  <2>2. op = [pc |-> op.pc, obj |-> op.obj, node |-> op.node]
    BY DEF IInv, Threads
  <2>3. op'.pc = "unlock" /\ op'.obj = op.obj /\ op'.node = op.node
        /\ op' = [pc |-> op'.pc, obj |-> op'.obj, node |-> op'.node]
    BY <2>1, <2>2
  <2>4. op.node \in Updates /\ op.obj \in live /\ buf[op.obj].exists
    BY <2>1 DEF IInv, Threads, OpHasFile
  <2>5. Threads'
    BY <1>1, <2>1, <2>3, <2>4 DEF IInv, Threads, OpHasFile, Quiet
  <2> QED
    BY <1>5, <2>1, <2>3, <2>5
<1>9. ASSUME NEW finish \in BOOLEAN, batch_mode_commit(finish)
      PROVE  IInv'
  <2> DEFINE T == {o \in Objects : buf[o].exists}
  <2>1. /\ sync' = [pc |-> "next", todo |-> T, obj |-> "none", finish |-> finish]
        /\ sync.pc = "idle" /\ op' = op /\ handle' = handle /\ mutex' = mutex
    BY <1>9 DEF batch_mode_commit, handles
  <2>2. T \in SUBSET live
    BY NoBufFields DEF IInv, Deletions, Whole
  <2> HIDE DEF T
  <2>3. sync'.pc = "next" /\ sync'.todo = T /\ sync'.obj = "none" /\ sync'.finish = finish
    BY <2>1
  <2>4. \A o \in Objects : ~buf[o].is_syncing
    BY <2>1 DEF IInv, Threads, Busy
  <2>5. Threads'
    BY <1>1, <2>1, <2>2, <2>3, <2>4 DEF IInv, Threads, OpHasFile, Quiet, Busy
  <2>6. Types' /\ Deletions' /\ Sound'
    BY <1>1, <1>2, <2>1, QuietStep
  <2>7. Running'
    BY <1>1, <1>3, <2>1 DEF IInv, Running, Holds, Fits, Quiet
  <2>8. Syncing'
    BY <2>3 DEF Syncing, Busy
  <2> QED
    BY <2>5, <2>6, <2>7, <2>8 DEF IInv
<1>10. CASE SyncGetsMutex
  <2>1. /\ sync.pc = "wait" /\ mutex' = mutex \union {sync.obj} /\ handle' = handle
        /\ sync' = [sync EXCEPT !.pc = "write"] /\ op' = op
    BY <1>10 DEF SyncGetsMutex
  <2>2. sync = [pc |-> sync.pc, todo |-> sync.todo, obj |-> sync.obj, finish |-> sync.finish]
    BY DEF IInv, Threads
  <2>3. /\ sync'.pc = "write" /\ sync'.todo = sync.todo /\ sync'.obj = sync.obj
        /\ sync'.finish = sync.finish
        /\ sync' = [pc |-> sync'.pc, todo |-> sync'.todo, obj |-> sync'.obj, finish |-> sync'.finish]
    BY <2>1, <2>2
  <2>4. sync.todo \in SUBSET live /\ sync.finish \in BOOLEAN /\ sync.obj \in live
    BY <2>1 DEF IInv, Threads, Busy
  <2>5. Threads'
    BY <1>1, <2>1, <2>3, <2>4 DEF IInv, Threads, OpHasFile, Quiet, Busy
  <2>6. Types' /\ Deletions' /\ Sound'
    BY <1>1, <1>2, <2>1, <2>4, QuietStep
  <2>7. Running'
    BY <1>1, <1>3, <2>1 DEF IInv, Running, Holds, Fits, Quiet
  <2>8. Syncing'
    BY <1>1, <1>3, <2>1, <2>3 DEF IInv, Syncing, Quiet, Busy
  <2> QED
    BY <2>5, <2>6, <2>7, <2>8 DEF IInv
<1> QED
  BY <1>6, <1>7, <1>8, <1>9, <1>10

LEMMA GetStep ==
    ASSUME IInv, io_buffer_get, NEW o, o = op.obj
    PROVE  IInv'
<1> DEFINE b == buf[o]
           e == buf'[o]
<1>1. /\ op.pc = "get" /\ OpensFile(o).exists
      /\ batch' = (IF Copies(o) THEN [batch EXCEPT ![o] = store[o]] ELSE batch)
      /\ handle' = [handle EXCEPT ![o] = @ \union {Where(o)}]
      /\ mutex' = mutex \union {o}
      /\ op' = NoOp \/ op' = [op EXCEPT !.pc = "run", !.node = Got(o)]
      /\ excused' = IF OldCopy(o) THEN excused \union {o} ELSE excused
      /\ overlap' = (overlap \/ b.is_syncing)
  BY DEF io_buffer_get, copy_metadata_file_to_batch_directory
<1>2. /\ dirs' = dirs /\ batch_mode' = batch_mode /\ store' = store /\ deleted' = deleted
      /\ sync' = sync /\ writes' = writes /\ live' = live /\ latest' = latest /\ tried' = tried
  BY DEF io_buffer_get, bounds
<1>3. PICK late \in BOOLEAN : buf' = [buf EXCEPT ![o] = io_buffer_read(Opened(o, late), o)]
  BY DEF io_buffer_get
<1>4. /\ Types /\ o \in Objects /\ o \in live
      /\ buf \in [Objects -> Buffer] /\ batch \in [Objects -> File] /\ store \in [Objects -> File]
      /\ handle \in [Objects -> SUBSET {"store", "batch"}] /\ mutex \in SUBSET Objects
  BY <1>1 DEF IInv, Types, Threads
<1>5. /\ Got(o) \in Updates /\ Where(o) \in {"store", "batch"} /\ b \in Buffer /\ store[o] \in File
      /\ batch[o] \in File
  BY <1>4, GotType
<1> DEFINE u == Opened(o, late)
<1>6. /\ u \in Buffer /\ u.exists = TRUE /\ u.node = b.node /\ u.is_dirty = b.is_dirty
      /\ u.is_syncing = b.is_syncing /\ u.batch_mode_created = b.batch_mode_created
      /\ u.batch_mode_modified = b.batch_mode_modified
      /\ u.newer = b.newer \/ Copies(o)
      /\ u.batch_file_exists <=> b.batch_file_exists \/ Copies(o)
      /\ u.sync_file_exists <=> b.sync_file_exists \/ Copies(o) \/ Where(o) = "store"
  <2>1. \E l \in BOOLEAN : u = Opened(o, l)
    OBVIOUS
  <2> HIDE DEF u
  <2> QED
    BY <1>4, <2>1, OpenedFields
<1>7. e = io_buffer_read(u, o) /\ \A p \in Objects \ {o} : buf'[p] = buf[p]
  BY <1>3, <1>4
<1> HIDE DEF u
<1>8. /\ e \in Buffer /\ e.is_dirty = b.is_dirty /\ e.is_syncing = b.is_syncing
      /\ e.batch_mode_created = b.batch_mode_created /\ e.batch_mode_modified = b.batch_mode_modified
      /\ e.exists = TRUE /\ e.sync_file_exists = u.sync_file_exists
      /\ e.batch_file_exists = u.batch_file_exists
      /\ Serves(o) => e.node = b.node /\ (e.newer = b.newer \/ Copies(o))
      /\ ~Serves(o) => e.node = Got(o) /\ e.newer = {}
  <2>1. /\ e \in Buffer /\ e.is_dirty = u.is_dirty /\ e.is_syncing = u.is_syncing
        /\ e.sync_file_exists = u.sync_file_exists /\ e.batch_file_exists = u.batch_file_exists
        /\ e.batch_mode_created = u.batch_mode_created
        /\ e.batch_mode_modified = u.batch_mode_modified
        /\ Serves(o) => e = u
        /\ ~Serves(o) => e.exists = TRUE /\ e.node = Got(o) /\ e.newer = {}
    BY <1>4, <1>6, <1>7, ReadFields
  <2> QED
    BY <1>6, <2>1
<1>9. buf' \in [Objects -> Buffer]
  BY <1>3, <1>4, <1>7, <1>8
<1>10. /\ batch' \in [Objects -> File] /\ \A p \in Objects \ {o} : batch'[p] = batch[p]
       /\ Copies(o) => batch'[o] = store[o]
       /\ ~Copies(o) => batch'[o] = batch[o]
  BY <1>1, <1>4
<1>11. (Copies(o) \/ Where(o) = "store") => store[o].exists
  BY <1>1 DEF OpensFile
<1>12. OthersSame(o)
  BY <1>2, <1>7, <1>10 DEF OthersSame
<1>13. InOrder' \subseteq InOrder /\ overlap' \in BOOLEAN /\ excused' \in SUBSET Objects
  BY <1>1, <1>2, <1>4 DEF InOrder, IInv, Types
<1>14. /\ op' = [pc |-> op'.pc, obj |-> op'.obj, node |-> op'.node]
       /\ \/ op'.pc = "idle" /\ op'.node = {}
          \/ op'.pc = "run" /\ op'.obj = o /\ op'.node = Got(o)
  <2>1. op = [pc |-> op.pc, obj |-> op.obj, node |-> op.node]
    BY DEF IInv, Threads
  <2>2. CASE op' = NoOp
    BY <2>2, NoOpFields
  <2>3. CASE op' = [op EXCEPT !.pc = "run", !.node = Got(o)]
    BY <2>1, <2>3
  <2> QED
    BY <1>1, <2>2, <2>3
<1> HIDE DEF e
<1>15. Types'
  <2>1. handle' \in [Objects -> SUBSET {"store", "batch"}] /\ mutex' \in SUBSET Objects
    BY <1>1, <1>4, <1>5
  <2> QED
    BY <1>2, <1>9, <1>10, <1>13, <2>1 DEF IInv, Types
<1>16. Deletions'
  <2>1. Whole(o)
    BY <1>4 DEF IInv, Deletions
  <2>2. Whole(o)'
    <3>1. e.sync_file_exists => store[o].exists
      BY <1>6, <1>8, <1>11, <2>1 DEF Whole
    <3>2. o \in dirs => store[o].data = {} /\ batch'[o].data = {}
      BY <1>10, <2>1 DEF Whole
    <3> QED
      BY <1>2, <1>4, <2>1, <3>1, <3>2 DEF Whole, e
  <2> QED
    BY <1>2, <1>4, <1>12, <2>2, WholeStep DEF IInv
<1>17. ASSUME o \in InOrder
       PROVE  Flags(o, buf[o])'
  <2>1. \/ batch'[o] = batch[o] /\ e.batch_file_exists = b.batch_file_exists
        \/ Copies(o) /\ store[o].exists /\ batch'[o] = store[o] /\ e.batch_file_exists = TRUE
    BY <1>5, <1>6, <1>8, <1>10, <1>11, BufferFields
  <2>2. buf'[o] = e
    BY DEF e
  <2> QED
    BY <1>2, <1>8, <1>17, <2>1, <2>2, ReadFlags
<1>18. Sound'
  <2>1. o \in InOrder' => Flags(o, buf[o])'
    BY <1>13, <1>17
  <2>2. InOrder' \subseteq InOrder \union {o}
    BY <1>13
  <2> QED
    BY <1>2, <1>4, <1>12, <2>1, <2>2, SoundStep DEF IInv
<1>19. Threads'
  <2>1. \A p \in Objects : buf'[p].is_syncing = buf[p].is_syncing
    BY <1>7, <1>8 DEF e
  <2> QED
    BY <1>2, <1>4, <1>5, <1>8, <1>14, <2>1 DEF IInv, Threads, OpHasFile, Updates, e
<1>20. Running'
  <2> SUFFICES ASSUME o \in InOrder'
               PROVE  /\ op'.pc = "run" => Fits(op.node, o)'
                      /\ ~e.is_syncing
                      /\ batch_mode => /\ e.batch_file_exists
                                       /\ ~e.is_dirty => Holds(batch[o], o)'
    BY <1>2, <1>14 DEF Running, Fits, e
  <2>1. o \in InOrder /\ Flags(o, b)
    BY <1>13 DEF IInv, Sound
  <2>2. op'.pc = "run" => Fits(op.node, o)'
    <3>1. Fits(Got(o), o)
      BY <2>1, GotIsLatest DEF IInv
    <3> QED
      BY <1>2, <1>14, <3>1 DEF Fits
  <2>3. ~b.is_syncing /\ ~OldCopy(o)
    <3>1. ~overlap' /\ o \notin excused'
      BY InOrderMember
    <3> QED
      BY <1>1, <3>1
  <2>4. ASSUME batch_mode
        PROVE  e.batch_file_exists /\ (~e.is_dirty => Holds(batch[o], o)')
    <3>1. Where(o) = "batch"
      BY <2>3, <2>4 DEF Where
    <3>2. CASE Copies(o)
      <4>1. ~b.batch_file_exists
        BY <3>2 DEF Copies
      <4>2. Holds(store[o], o)
        BY <2>1, <4>1 DEF Flags
      <4> QED
        BY <1>2, <1>6, <1>8, <1>10, <3>2, <4>2 DEF Holds, Fits
    <3>3. CASE ~Copies(o)
      <4>1. b.batch_file_exists /\ batch'[o] = batch[o]
        BY <1>10, <2>1, <3>1, <3>3 DEF Copies, Flags
      <4>2. ~b.is_dirty => Holds(batch[o], o)
        <5>1. CASE b.batch_mode_modified
          BY <2>1, <5>1 DEF Flags
        <5>2. CASE ~b.batch_mode_modified
          <6>1. batch[o].node = store[o].node /\ batch[o].data = store[o].data
            BY <2>3, <3>1, <4>1, <5>2 DEF OldCopy
          <6>2. Holds(store[o], o) /\ batch[o].exists
            BY <2>1, <4>1, <5>2 DEF Flags
          <6> QED
            BY <6>1, <6>2 DEF Holds, Fits
        <5> QED
          BY <5>1, <5>2
      <4> QED
        BY <1>2, <1>6, <1>8, <4>1, <4>2 DEF Holds, Fits
    <3> QED
      BY <3>2, <3>3
  <2> QED
    BY <1>8, <2>2, <2>3, <2>4
<1>21. Syncing'
  <2> SUFFICES ASSUME sync.pc \in Busy, sync.obj \in InOrder
               PROVE  /\ buf'[sync.obj].batch_mode_modified /\ buf'[sync.obj].is_syncing
                      /\ buf'[sync.obj].is_dirty <=> sync.pc # "copy"
                      /\ sync.pc \in {"wait", "write"} => store[sync.obj].exists
    BY <1>2, <1>13 DEF Syncing
  <2>1. sync.obj \in Objects
    BY <1>4 DEF InOrder, Types
  <2>2. /\ buf'[sync.obj].batch_mode_modified = buf[sync.obj].batch_mode_modified
        /\ buf'[sync.obj].is_dirty = buf[sync.obj].is_dirty
        /\ buf'[sync.obj].is_syncing = buf[sync.obj].is_syncing
    BY <1>7, <1>8, <2>1 DEF e
  <2> QED
    BY <2>2 DEF IInv, Syncing
<1> QED
  BY <1>15, <1>16, <1>18, <1>19, <1>20, <1>21 DEF IInv

LEMMA ReleaseTypes ==
    ASSUME Types, NEW o \in Objects, Release(o)
    PROVE  handle' \in [Objects -> SUBSET {"store", "batch"}] /\ mutex' \in SUBSET Objects
BY DEF Types, Release

LEMMA NoSyncFields ==
    /\ NoSync = [pc |-> NoSync.pc, todo |-> NoSync.todo, obj |-> NoSync.obj, finish |-> NoSync.finish]
    /\ NoSync.pc = "idle" /\ NoSync.todo = {} /\ NoSync.finish = FALSE
BY DEF NoSync

(* The operation on o ends.  Its buffer keeps its is_syncing.              *)
LEMMA OperationEnds ==
    ASSUME IInv, NEW o \in Objects, OthersSame(o), op' = NoOp, sync' = sync, live' = live,
           buf'[o].is_syncing = buf[o].is_syncing
    PROVE  Threads' /\ Running'
<1>1. \A p \in Objects : buf'[p].is_syncing = buf[p].is_syncing
  BY DEF OthersSame
<1>2. op'.pc = "idle" /\ op'.node \in Updates /\ op' = [pc |-> op'.pc, obj |-> op'.obj, node |-> op'.node]
  BY NoOpFields
<1>3. Threads'
  BY <1>1, <1>2 DEF IInv, Threads, OpHasFile
<1> QED
  BY <1>2, <1>3 DEF Running

(* The commander stays where it is.                                        *)
LEMMA CommanderStays ==
    ASSUME IInv, NEW o \in Objects, OthersSame(o), sync' = sync, InOrder' \subseteq InOrder,
           sync.pc \in Busy /\ sync.obj = o /\ o \in InOrder' =>
              /\ buf'[o].batch_mode_modified /\ buf'[o].is_syncing
              /\ buf'[o].is_dirty = buf[o].is_dirty
              /\ store'[o].exists = store[o].exists
    PROVE  Syncing'
<1> SUFFICES ASSUME sync.pc \in Busy, sync.obj \in InOrder'
             PROVE  /\ buf'[sync.obj].batch_mode_modified /\ buf'[sync.obj].is_syncing
                    /\ buf'[sync.obj].is_dirty <=> sync.pc # "copy"
                    /\ sync.pc \in {"wait", "write"} => store'[sync.obj].exists
  BY DEF Syncing
<1>1. /\ buf[sync.obj].batch_mode_modified /\ buf[sync.obj].is_syncing
      /\ buf[sync.obj].is_dirty <=> sync.pc # "copy"
      /\ sync.pc \in {"wait", "write"} => store[sync.obj].exists
      /\ sync.obj \in Objects
  BY DEF IInv, Syncing, InOrder, Types
<1>2. CASE sync.obj = o
  BY <1>1, <1>2
<1>3. CASE sync.obj # o
  <2>1. buf'[sync.obj] = buf[sync.obj] /\ store'[sync.obj] = store[sync.obj]
    BY <1>1, <1>3 DEF OthersSame
  <2> QED
    BY <1>1, <2>1
<1> QED
  BY <1>2, <1>3

LEMMA PutFields ==
    ASSUME Types, NEW o \in Objects, NEW b \in Buffer, NEW n \in Updates, NEW e, e = PutInto(b, o, n)
    PROVE  /\ e \in Buffer /\ e.exists = b.exists /\ e.node = n /\ e.newer = {}
           /\ e.is_dirty <=> Kept(o)
           /\ e.is_syncing = b.is_syncing /\ e.sync_file_exists = b.sync_file_exists
           /\ e.batch_file_exists = b.batch_file_exists /\ e.batch_mode_created = b.batch_mode_created
           /\ e.batch_mode_modified <=> b.batch_mode_modified \/ batch_mode
<1> DEFINE k == Kept(o)
           m == b.batch_mode_modified \/ batch_mode
<1>1. k \in BOOLEAN /\ m \in BOOLEAN
  BY BufferFields DEF Kept, Types
<1>2. e = [b EXCEPT !.node = n, !.newer = {}, !.is_dirty = k, !.batch_mode_modified = m]
  BY DEF PutInto
<1> HIDE DEF k, m
<1>3. /\ e \in Buffer /\ e.exists = b.exists /\ e.node = n /\ e.newer = {}
      /\ e.is_syncing = b.is_syncing /\ e.sync_file_exists = b.sync_file_exists
      /\ e.batch_file_exists = b.batch_file_exists /\ e.batch_mode_created = b.batch_mode_created
      /\ e.is_dirty = k /\ e.batch_mode_modified = m
  BY <1>1, <1>2 DEF Buffer
<1> QED
  BY <1>1, <1>3 DEF k, m

(* What is written is the file with one more update.                       *)
OneMore(e, f, o, n) ==
    /\ e \in File /\ e.exists = f.exists /\ e.node = n
    /\ o \in dirs => e.data = f.data
    /\ o \notin dirs => e.data = f.data \union {writes + 1}

LEMMA WrittenFields ==
    ASSUME NEW o, NEW f \in File, NEW n \in Updates, {writes + 1} \in Updates
    PROVE  OneMore(Written(f, o, n), f, o, n)
<1> DEFINE d == IF o \notin dirs THEN f.data \union {writes + 1} ELSE f.data
           e == Written(f, o, n)
<1>1. d \in Updates
  BY FileFields DEF Updates
<1>2. e = [f EXCEPT !.node = n, !.data = d]
  BY DEF Written
<1> HIDE DEF d, e
<1>3. e \in File /\ e.exists = f.exists /\ e.node = n /\ e.data = d
  BY <1>1, <1>2 DEF File
<1>4. OneMore(e, f, o, n)
  BY <1>3 DEF d, OneMore
<1> QED
  BY <1>4 DEF e

LEMMA PutStep ==
    ASSUME IInv, io_buffer_put, NEW o, o = op.obj
    PROVE  IInv'
<1> DEFINE n == op.node \union {writes + 1}
           b == buf[o]
           e == buf'[o]
<1>1. /\ op.pc = "run" /\ writes < MaxWrites /\ writes' = writes + 1
      /\ IF Kept(o) THEN store' = store /\ batch' = batch
         ELSE IF Where(o) = "batch"
         THEN batch' = [batch EXCEPT ![o] = Written(batch[o], o, n)] /\ store' = store
         ELSE store' = [store EXCEPT ![o] = Written(store[o], o, n)] /\ batch' = batch
      /\ buf' = [buf EXCEPT ![o] = PutInto(b, o, n)]
      /\ Release(o)
      /\ latest' = [latest EXCEPT ![o] = latest[o] \union {writes + 1}]
      /\ op' = NoOp
  BY DEF io_buffer_put, files
<1>2. /\ dirs' = dirs /\ batch_mode' = batch_mode /\ deleted' = deleted
      /\ sync' = sync /\ live' = live /\ excused' = excused /\ overlap' = overlap
      /\ tried' = tried
  BY DEF io_buffer_put
<1>3. /\ Types /\ o \in Objects /\ o \in live /\ b \in Buffer /\ b.exists
      /\ buf \in [Objects -> Buffer] /\ batch \in [Objects -> File] /\ store \in [Objects -> File]
      /\ latest \in [Objects -> Updates] /\ writes \in 0 .. MaxWrites
  BY <1>1 DEF IInv, Types, Threads, OpHasFile
<1>4. writes + 1 \in 1 .. MaxWrites /\ n \in Updates /\ latest[o] \union {writes + 1} \in Updates
  BY <1>1, <1>3, BoundsAssumption DEF IInv, Threads, Updates
<1>5. n = op.node \union {writes + 1}
  OBVIOUS
<1> HIDE DEF n
<1>6. e = PutInto(b, o, n) /\ \A p \in Objects \ {o} : buf'[p] = buf[p]
  BY <1>1, <1>3
<1>7. /\ e \in Buffer /\ e.exists = b.exists /\ e.node = n /\ e.newer = {}
      /\ e.is_dirty <=> Kept(o)
      /\ e.is_syncing = b.is_syncing /\ e.sync_file_exists = b.sync_file_exists
      /\ e.batch_file_exists = b.batch_file_exists /\ e.batch_mode_created = b.batch_mode_created
      /\ e.batch_mode_modified <=> b.batch_mode_modified \/ batch_mode
  BY <1>3, <1>4, <1>6, PutFields
<1>8. buf' \in [Objects -> Buffer]
  BY <1>1, <1>3, <1>6, <1>7
<1>9. /\ latest' \in [Objects -> Updates] /\ latest'[o] = latest[o] \union {writes + 1}
      /\ \A p \in Objects \ {o} : latest'[p] = latest[p] /\ tried'[p] = tried[p]
  BY <1>1, <1>2, <1>3, <1>4
<1> DEFINE wb == Written(batch[o], o, n)
           ws == Written(store[o], o, n)
<1>10. OneMore(wb, batch[o], o, n) /\ OneMore(ws, store[o], o, n)
  <2>1. batch[o] \in File /\ store[o] \in File
    BY <1>3
  <2>2. {writes + 1} \in Updates
    BY <1>4 DEF Updates
  <2> QED
    BY <1>4, <2>1, <2>2, WrittenFields
<1> HIDE DEF wb, ws
<1>12. /\ store' \in [Objects -> File] /\ batch' \in [Objects -> File]
       /\ \A p \in Objects \ {o} : store'[p] = store[p] /\ batch'[p] = batch[p]
       /\ store'[o].exists = store[o].exists
       /\ o \in dirs => store'[o].data = store[o].data /\ batch'[o].data = batch[o].data
       /\ Kept(o) => store'[o] = store[o] /\ batch'[o] = batch[o]
       /\ ~Kept(o) /\ Where(o) = "batch" => store'[o] = store[o] /\ batch'[o] = wb
       /\ ~Kept(o) /\ Where(o) # "batch" => store'[o] = ws /\ batch'[o] = batch[o]
  <2>1. CASE Kept(o)
    BY <1>1, <1>3, <2>1
  <2>2. CASE ~Kept(o) /\ Where(o) = "batch"
    <3>1. batch' = [batch EXCEPT ![o] = wb] /\ store' = store
      BY <1>1, <2>2 DEF wb
    <3> QED
      BY <1>3, <1>10, <2>2, <3>1 DEF OneMore
  <2>3. CASE ~Kept(o) /\ Where(o) # "batch"
    <3>1. store' = [store EXCEPT ![o] = ws] /\ batch' = batch
      BY <1>1, <2>3 DEF ws
    <3> QED
      BY <1>3, <1>10, <2>3, <3>1 DEF OneMore
  <2> QED
    BY <2>1, <2>2, <2>3
<1>13. OthersSame(o)
  BY <1>6, <1>9, <1>12 DEF OthersSame
<1>14. Types'
  <2>1. writes' \in 0 .. MaxWrites
    BY <1>1, <1>4
  <2> QED
    BY <1>1, <1>2, <1>3, <1>8, <1>9, <1>12, <2>1, ReleaseTypes DEF IInv, Types
<1>15. Deletions'
  <2>1. Whole(o)
    BY <1>3 DEF IInv, Deletions
  <2>2. Whole(o)'
    BY <1>2, <1>3, <1>7, <1>12, <2>1 DEF Whole
  <2> QED
    BY <1>2, <1>3, <1>13, <2>2, WholeStep DEF IInv
<1>16. InOrder' = InOrder
  BY <1>2 DEF InOrder
<1> HIDE DEF e
<1>17. ASSUME o \in InOrder
       PROVE  Flags(o, buf[o])'
  <2>1. Flags(o, b)
    BY <1>17 DEF IInv, Sound
  <2>2. /\ Fits(op.node, o) /\ ~b.is_syncing
        /\ batch_mode => b.batch_file_exists /\ (~b.is_dirty => Holds(batch[o], o))
    BY <1>1, <1>17 DEF IInv, Running
  <2>3. latest'[o] \subseteq n /\ n \subseteq latest'[o] \union tried'[o] /\ e.node = n /\ (o \notin dirs => tried[o] = {} /\ n = latest'[o])
    <3>1. o \notin dirs => tried[o] = {}
      BY <1>3 DEF IInv, Deletions, Whole
    <3> QED
      BY <1>2, <1>5, <1>7, <1>9, <2>2, <3>1 DEF Fits
  <2>4. CASE Kept(o)
    <3>1. batch_mode /\ o \in dirs /\ e.is_dirty /\ e.batch_mode_modified
      BY <1>7, <2>4 DEF Kept
    <3>2. Fits(buf[o].node, o)'
      BY <2>3 DEF Fits, e
    <3> QED
      BY <1>2, <1>3, <1>7, <1>12, <2>1, <2>2, <2>3, <2>4, <3>1, <3>2 DEF Flags, e
  <2>5. CASE ~Kept(o) /\ batch_mode
    <3>1. o \notin dirs /\ Where(o) = "batch" /\ ~e.is_dirty /\ e.batch_mode_modified
      BY <1>7, <2>2, <2>5 DEF Kept, Where
    <3>2. Holds(batch[o], o)
      BY <2>1, <2>2, <2>5, <3>1 DEF Flags
    <3>3. Holds(batch[o], o)'
      <4>1. batch[o].data = latest[o] /\ batch[o].exists
        BY <2>3, <3>1, <3>2 DEF Holds, Fits
      <4>2. batch'[o].data = latest'[o] /\ batch'[o].node = n /\ batch'[o].exists
        BY <1>9, <1>10, <1>12, <2>5, <3>1, <4>1 DEF OneMore
      <4> QED
        BY <1>2, <2>3, <3>1, <4>2 DEF Holds, Fits
    <3> QED
      BY <1>2, <1>3, <1>7, <1>12, <2>1, <2>2, <2>3, <2>5, <3>1, <3>3 DEF Flags, Holds, Fits, e
  <2>6. CASE ~batch_mode
    <3>1. Where(o) = "store" /\ ~Kept(o) /\ ~e.is_dirty /\ ~b.batch_mode_modified
          /\ ~e.batch_mode_modified
      BY <1>7, <2>1, <2>6 DEF Kept, Where, Flags
    <3>2. Holds(store[o], o)
      BY <2>1, <3>1 DEF Flags
    <3>3. Holds(store[o], o)'
      <4>1. store[o].exists /\ (o \notin dirs => store[o].data = latest[o])
        BY <2>3, <3>2 DEF Holds, Fits
      <4>2. store'[o].node = n /\ store'[o].exists /\ (o \notin dirs => store'[o].data = latest'[o])
        BY <1>9, <1>10, <1>12, <3>1, <4>1 DEF OneMore
      <4> QED
        BY <1>2, <2>3, <4>2 DEF Holds, Fits
    <3>4. Fits(buf[o].node, o)'
      BY <2>3 DEF Fits, e
    <3>5. e.newer = {} /\ (e.batch_file_exists => batch'[o].exists)
      BY <1>7, <1>12, <2>1, <3>1 DEF Flags
    <3> QED
      BY <1>2, <1>3, <1>7, <1>12, <2>1, <3>1, <3>3, <3>4, <3>5 DEF Flags, e
  <2> QED
    BY <2>4, <2>5, <2>6
<1>18. Sound'
  BY <1>2, <1>3, <1>13, <1>16, <1>17, SoundStep DEF IInv
<1>19. Threads' /\ Running'
  BY <1>1, <1>2, <1>3, <1>7, <1>13, OperationEnds DEF e
<1>20. Syncing'
  <2>1. o \in InOrder => ~(sync.pc \in Busy /\ sync.obj = o)
    BY <1>1 DEF IInv, Running, Syncing
  <2> QED
    BY <1>2, <1>3, <1>13, <1>16, <2>1, CommanderStays
<1> QED
  BY <1>14, <1>15, <1>18, <1>19, <1>20 DEF IInv

(* io_buffer_put that fails, and io_buffer_unlock: the buffer is no longer *)
(* dirty.                                                                  *)
LEMMA ReleaseStep ==
    ASSUME IInv, NEW o, o = op.obj, op.pc \in {"run", "unlock"}, Release(o), NEW e \in Buffer,
           NEW m \in BOOLEAN, m => op.pc = "run" /\ Kept(o),
           buf' = [buf EXCEPT ![o] = e],
           e = [buf[o] EXCEPT !.is_dirty = FALSE, !.batch_mode_modified = buf[o].batch_mode_modified \/ m],
           excused' = IF buf[o].is_dirty THEN excused \union {o} ELSE excused,
           op' = NoOp, dirs' = dirs, batch_mode' = batch_mode, store' = store, batch' = batch,
           deleted' = deleted, sync' = sync, writes' = writes, live' = live, latest' = latest /\ tried' = tried,
           overlap' = overlap
    PROVE  IInv'
<1> DEFINE b == buf[o]
<1>1. /\ Types /\ o \in Objects /\ o \in live /\ b \in Buffer /\ b.exists /\ buf \in [Objects -> Buffer]
  BY DEF IInv, Types, Threads, OpHasFile
<1>2. /\ e.exists = b.exists /\ e.node = b.node /\ e.newer = b.newer /\ e.is_dirty = FALSE
      /\ e.is_syncing = b.is_syncing /\ e.sync_file_exists = b.sync_file_exists
      /\ e.batch_file_exists = b.batch_file_exists /\ e.batch_mode_created = b.batch_mode_created
      /\ e.batch_mode_modified <=> b.batch_mode_modified \/ m
  BY <1>1 DEF Buffer
<1>3. /\ buf'[o] = e /\ buf' \in [Objects -> Buffer] /\ \A p \in Objects \ {o} : buf'[p] = buf[p]
  BY <1>1
<1> HIDE DEF b
<1>4. OthersSame(o)
  BY <1>3 DEF OthersSame
<1>5. Types'
  <2>1. excused' \in SUBSET Objects
    BY <1>1 DEF Types
  <2> QED
    BY <1>1, <1>3, <2>1, ReleaseTypes DEF Types
<1>6. Deletions'
  <2>1. Whole(o)
    BY <1>1 DEF IInv, Deletions
  <2>2. Whole(o)'
    BY <1>1, <1>2, <1>3, <2>1 DEF Whole, b
  <2> QED
    BY <1>1, <1>4, <2>2, WholeStep DEF IInv
<1>7. InOrder' \subseteq InOrder /\ (o \in InOrder' => ~b.is_dirty)
  <2>1. InOrder' \subseteq InOrder
    BY DEF InOrder
  <2>2. o \in InOrder' => o \notin excused'
    BY InOrderMember
  <2> QED
    BY <2>1, <2>2 DEF b
<1>8. ASSUME o \in InOrder'
      PROVE  Flags(o, buf[o])'
  <2>1. Flags(o, b) /\ ~b.is_dirty /\ o \in InOrder
    BY <1>7, <1>8 DEF IInv, Sound, b
  <2>2. CASE ~m
    BY <1>2, <1>3, <2>1, <2>2 DEF Flags, Holds, Fits, b
  <2>3. CASE m
    <3>1. batch_mode /\ b.batch_file_exists /\ Holds(batch[o], o)
      BY <2>1, <2>3 DEF IInv, Running, Kept, b
    <3> QED
      BY <1>1, <1>2, <1>3, <2>1, <3>1 DEF Flags, Holds, Fits, b
  <2> QED
    BY <2>2, <2>3
<1>9. Sound'
  BY <1>1, <1>4, <1>7, <1>8, SoundStep DEF IInv
<1>10. Threads' /\ Running'
  BY <1>1, <1>2, <1>3, <1>4, OperationEnds DEF b
<1>11. Syncing'
  <2>1. ASSUME sync.pc \in Busy, sync.obj = o, o \in InOrder'
        PROVE  /\ buf'[o].batch_mode_modified /\ buf'[o].is_syncing
               /\ buf'[o].is_dirty = buf[o].is_dirty /\ store'[o].exists = store[o].exists
    <3>1. b.batch_mode_modified /\ b.is_syncing /\ b.is_dirty = FALSE
      BY <1>1, <1>7, <2>1, BufferFields DEF IInv, Syncing, b
    <3> QED
      BY <1>2, <1>3, <3>1 DEF b
  <2> QED
    BY <1>1, <1>4, <1>7, <2>1, CommanderStays
<1> QED
  BY <1>5, <1>6, <1>9, <1>10, <1>11 DEF IInv

LEMMA CloseFailsStep ==
    ASSUME IInv, CloseFails, NEW o, o = op.obj
    PROVE  IInv'
<1> DEFINE m == Kept(o)
           e == [buf[o] EXCEPT !.is_dirty = FALSE, !.batch_mode_modified = buf[o].batch_mode_modified \/ m]
<1>1. /\ op.pc = "run" /\ Release(o) /\ buf' = [buf EXCEPT ![o] = e]
      /\ excused' = IF buf[o].is_dirty THEN excused \union {o} ELSE excused
      /\ op' = NoOp /\ dirs' = dirs /\ batch_mode' = batch_mode /\ store' = store /\ batch' = batch
      /\ deleted' = deleted /\ sync' = sync /\ writes' = writes /\ live' = live /\ latest' = latest /\ tried' = tried
      /\ overlap' = overlap
  <2>1. NotPut(buf[o], o, TRUE, FALSE) = [buf[o] EXCEPT !.is_dirty = FALSE,
              !.batch_mode_modified = buf[o].batch_mode_modified \/ batch_mode, !.newer = buf[o].newer]
    BY DEF NotPut
  <2>2. buf[o] \in Buffer /\ batch_mode = m /\ m = TRUE
    BY DEF CloseFails, Kept, IInv, Threads, Types
  <2>3. NotPut(buf[o], o, TRUE, FALSE) = e
    BY <2>1, <2>2 DEF Buffer
  <2> QED
    BY <2>3 DEF CloseFails, Fail, files
<1>2. m \in BOOLEAN /\ (m => Kept(o)) /\ buf[o] \in Buffer
  BY <1>1 DEF IInv, Threads, Types, Kept
<1> HIDE DEF m
<1>3. e \in Buffer
  <2>1. (buf[o].batch_mode_modified \/ m) \in BOOLEAN
    BY <1>2, BufferFields
  <2> QED
    BY <1>2, <2>1 DEF Buffer
<1>4. e = [buf[o] EXCEPT !.is_dirty = FALSE, !.batch_mode_modified = buf[o].batch_mode_modified \/ m]
  OBVIOUS
<1> HIDE DEF e
<1> QED
  BY <1>1, <1>2, <1>3, <1>4, ReleaseStep

(* A put that fails may leave the old node, the new one, or a torn file;   *)
(* an object that is still in order is a dirnode outside batch mode.       *)
LEMMA PutFailsStep ==
    ASSUME IInv, PutFails, NEW o, o = op.obj
    PROVE  IInv'
<1> DEFINE n    == op.node \union {writes + 1}
           b    == buf[o]
           file == IF Where(o) = "batch" THEN batch[o] ELSE store[o]
<1>1. /\ op.pc = "run" /\ ~Kept(o) /\ writes < MaxWrites /\ writes' = writes + 1 /\ Release(o)
      /\ tried' = IF o \in dirs THEN [tried EXCEPT ![o] = tried[o] \union {writes + 1}] ELSE tried
      /\ op' = NoOp /\ dirs' = dirs /\ batch_mode' = batch_mode /\ deleted' = deleted
      /\ sync' = sync /\ live' = live /\ latest' = latest /\ overlap' = overlap
  BY DEF PutFails
<1>2. PICK node \in {file.node, Torn, n}, late \in BOOLEAN :
          /\ IF Where(o) = "batch"
             THEN batch' = [batch EXCEPT ![o] = PutLeaves(batch[o], o, node)] /\ store' = store
             ELSE store' = [store EXCEPT ![o] = PutLeaves(store[o], o, node)] /\ batch' = batch
          /\ buf' = [buf EXCEPT ![o] = NotPut(b, o, node = n, late)]
          /\ excused' = IF b.is_dirty \/ o \notin dirs \/ node = Torn THEN excused \union {o} ELSE excused
  BY DEF PutFails
<1>3. /\ Types /\ o \in Objects /\ o \in live /\ b \in Buffer /\ b.exists
      /\ buf \in [Objects -> Buffer] /\ batch \in [Objects -> File] /\ store \in [Objects -> File]
      /\ latest \in [Objects -> Updates] /\ tried \in [Objects -> Updates] /\ writes \in 0 .. MaxWrites
      /\ batch_mode \in BOOLEAN
  BY <1>1 DEF IInv, Types, Threads, OpHasFile
<1>4. /\ writes + 1 \in 0 .. MaxWrites /\ n \in Updates /\ tried[o] \union {writes + 1} \in Updates
      /\ {writes + 1} \in Updates /\ Torn \in Updates
  BY <1>1, <1>3, BoundsAssumption DEF IInv, Threads, Updates, Torn
<1>5. node \in Updates
  <2>1. file.node \in Updates
    BY <1>3, FileFields
  <2> QED
    BY <1>4, <2>1
<1>6. n = op.node \union {writes + 1} /\ file = IF Where(o) = "batch" THEN batch[o] ELSE store[o]
  OBVIOUS
<1> HIDE DEF n, file
<1> DEFINE m == b.batch_mode_modified \/ (batch_mode /\ node = n)
           w == IF late THEN b.newer \union {Where(o)} ELSE b.newer
           e == [b EXCEPT !.is_dirty = FALSE, !.batch_mode_modified = m, !.newer = w]
<1>7. /\ e \in Buffer /\ e.exists = b.exists /\ e.node = b.node /\ e.newer = w /\ e.is_dirty = FALSE
      /\ e.is_syncing = b.is_syncing /\ e.sync_file_exists = b.sync_file_exists
      /\ e.batch_file_exists = b.batch_file_exists /\ e.batch_mode_created = b.batch_mode_created
      /\ e.batch_mode_modified = m
  <2>1. w \in SUBSET {"store", "batch"} /\ m \in BOOLEAN
    BY <1>3, BufferFields, GotType
  <2> HIDE DEF w, m
  <2> QED
    BY <1>3, <2>1 DEF Buffer
<1>8. buf' = [buf EXCEPT ![o] = e]
  BY <1>2 DEF NotPut
<1>9. m <=> b.batch_mode_modified \/ (batch_mode /\ node = n)
  OBVIOUS
<1>10. w = IF late THEN b.newer \union {Where(o)} ELSE b.newer
  OBVIOUS
<1> HIDE DEF e, m, w
<1>11. /\ buf'[o] = e /\ buf' \in [Objects -> Buffer] /\ \A p \in Objects \ {o} : buf'[p] = buf[p]
  BY <1>3, <1>7, <1>8
<1>12. /\ tried' \in [Objects -> Updates] /\ (o \in dirs => tried'[o] = tried[o] \union {writes + 1})
       /\ (o \notin dirs => tried'[o] = tried[o]) /\ \A p \in Objects \ {o} : tried'[p] = tried[p]
  BY <1>1, <1>3, <1>4
<1> DEFINE wb == PutLeaves(batch[o], o, node)
           ws == PutLeaves(store[o], o, node)
<1>13. /\ wb \in File /\ wb.exists = batch[o].exists /\ wb.node = node /\ (o \in dirs => wb.data = batch[o].data)
       /\ ws \in File /\ ws.exists = store[o].exists /\ ws.node = node /\ (o \in dirs => ws.data = store[o].data)
  <2>1. ASSUME NEW f \in File, NEW g, g = PutLeaves(f, o, node)
        PROVE  g \in File /\ g.exists = f.exists /\ g.node = node /\ (o \in dirs => g.data = f.data)
    <3> DEFINE d == IF o \notin dirs THEN f.data \union {writes + 1} ELSE f.data
    <3>1. d \in Updates
      BY <1>4, FileFields DEF Updates
    <3>2. g = [f EXCEPT !.node = node, !.data = d]
      BY <2>1 DEF PutLeaves
    <3>3. o \in dirs => d = f.data
      OBVIOUS
    <3> HIDE DEF d
    <3> QED
      BY <1>5, <3>1, <3>2, <3>3 DEF File
  <2> QED
    BY <1>3, <2>1
<1> HIDE DEF wb, ws
<1>14. /\ store' \in [Objects -> File] /\ batch' \in [Objects -> File]
       /\ \A p \in Objects \ {o} : store'[p] = store[p] /\ batch'[p] = batch[p]
       /\ Where(o) = "batch" => store'[o] = store[o] /\ batch'[o] = wb
       /\ Where(o) # "batch" => store'[o] = ws /\ batch'[o] = batch[o]
  <2>1. CASE Where(o) = "batch"
    <3>1. batch' = [batch EXCEPT ![o] = wb] /\ store' = store
      BY <1>2, <2>1 DEF wb
    <3> QED
      BY <1>3, <1>13, <2>1, <3>1
  <2>2. CASE Where(o) # "batch"
    <3>1. store' = [store EXCEPT ![o] = ws] /\ batch' = batch
      BY <1>2, <2>2 DEF ws
    <3> QED
      BY <1>3, <1>13, <2>2, <3>1
  <2> QED
    BY <2>1, <2>2
<1>15. OthersSame(o)
  BY <1>1, <1>11, <1>12, <1>14 DEF OthersSame
<1>16. Types'
  <2>1. writes' \in 0 .. MaxWrites /\ excused' \in SUBSET Objects
    BY <1>1, <1>2, <1>3, <1>4 DEF Types
  <2> QED
    BY <1>1, <1>3, <1>11, <1>12, <1>14, <2>1, ReleaseTypes DEF Types
<1>17. Deletions'
  <2>1. Whole(o)
    BY <1>3 DEF IInv, Deletions
  <2>2. store'[o].exists = store[o].exists
        /\ (o \in dirs => store'[o].data = store[o].data /\ batch'[o].data = batch[o].data)
    BY <1>13, <1>14
  <2>3. Whole(o)'
    BY <1>1, <1>3, <1>7, <1>11, <1>12, <2>1, <2>2 DEF Whole
  <2> QED
    BY <1>1, <1>3, <1>15, <2>3, WholeStep DEF IInv
<1>18. /\ InOrder' \subseteq InOrder
       /\ o \in InOrder' => o \in dirs /\ ~b.is_dirty /\ node # Torn /\ o \in InOrder
  <2>1. excused \subseteq excused'
    BY <1>2
  <2>2. InOrder' \subseteq InOrder
    BY <1>1, <2>1 DEF InOrder
  <2>3. o \in InOrder' => o \notin excused'
    BY InOrderMember
  <2> QED
    BY <1>2, <2>2, <2>3
<1>19. ASSUME o \in InOrder'
       PROVE  Flags(o, buf[o])'
  <2>1. Flags(o, b) /\ o \in dirs /\ o \in InOrder /\ ~b.is_dirty /\ ~batch_mode
    BY <1>1, <1>18, <1>19 DEF IInv, Sound, Kept
  <2>2. Where(o) = "store" /\ ~b.batch_mode_modified /\ ~m /\ Holds(store[o], o)
    BY <1>9, <2>1 DEF Where, Flags
  <2>3. node \in {store[o].node, n} /\ Fits(store[o].node, o) /\ Fits(op.node, o) /\ Fits(b.node, o)
    BY <1>1, <1>3, <1>6, <1>18, <1>19, <2>1, <2>2 DEF IInv, Running, Flags, Holds
  <2>4. /\ latest'[o] \subseteq node /\ node \subseteq latest'[o] \union tried'[o]
        /\ latest'[o] \subseteq b.node /\ b.node \subseteq latest'[o] \union tried'[o]
    BY <1>1, <1>6, <1>12, <2>1, <2>3 DEF Fits
  <2>5. Holds(store[o], o)'
    BY <1>1, <1>13, <1>14, <2>1, <2>2, <2>4 DEF Holds, Fits
  <2>6. Holds(batch[o], o) => Holds(batch[o], o)'
    BY <1>1, <1>12, <1>14, <2>1, <2>2 DEF Holds, Fits
  <2>7. "batch" \in w <=> "batch" \in b.newer
    BY <1>10, <2>2
  <2>8. e.node = b.node /\ e.exists = b.exists /\ batch'[o] = batch[o]
    BY <1>7, <1>14, <2>2
  <2>9. Fits(buf[o].node, o)'
    BY <1>11, <2>4, <2>8 DEF Fits
  <2> HIDE DEF b
  <2> QED
    BY <1>1, <1>7, <1>11, <2>1, <2>2, <2>5, <2>6, <2>7, <2>8, <2>9 DEF Flags
<1>20. Sound'
  BY <1>1, <1>3, <1>15, <1>18, <1>19, SoundStep DEF IInv
<1>21. Threads' /\ Running'
  BY <1>1, <1>3, <1>7, <1>11, <1>15, OperationEnds
<1>22. Syncing'
  <2>1. o \in InOrder => ~(sync.pc \in Busy /\ sync.obj = o)
    BY <1>1 DEF IInv, Running, Syncing
  <2> QED
    BY <1>1, <1>3, <1>15, <1>18, <2>1, CommanderStays
<1> QED
  BY <1>16, <1>17, <1>20, <1>21, <1>22 DEF IInv

LEMMA UnlockStep ==
    ASSUME IInv, io_buffer_unlock, NEW o, o = op.obj
    PROVE  IInv'
<1>1. /\ op.pc \in {"run", "unlock"} /\ op' = NoOp /\ dirs' = dirs /\ batch_mode' = batch_mode
      /\ store' = store /\ batch' = batch /\ deleted' = deleted /\ sync' = sync /\ writes' = writes
      /\ live' = live /\ latest' = latest /\ tried' = tried /\ overlap' = overlap
  BY DEF io_buffer_unlock, files, bounds
<1>2. buf[o] \in Buffer /\ o \in Objects /\ Types /\ buf \in [Objects -> Buffer]
  BY <1>1 DEF IInv, Threads, Types
<1>3. CASE HasHandle(o)
  <2> DEFINE m == FALSE
             e == [buf[o] EXCEPT !.is_dirty = FALSE, !.batch_mode_modified = buf[o].batch_mode_modified \/ m]
  <2>1. /\ Release(o) /\ buf' = [buf EXCEPT ![o].is_dirty = FALSE]
        /\ excused' = IF buf[o].is_dirty THEN excused \union {o} ELSE excused
    BY <1>3 DEF io_buffer_unlock
  <2>2. [buf[o] EXCEPT !.is_dirty = FALSE] = e /\ e \in Buffer
    BY <1>2 DEF Buffer
  <2>3. buf' = [buf EXCEPT ![o] = e]
    BY <1>2, <2>1, <2>2
  <2>4. e = [buf[o] EXCEPT !.is_dirty = FALSE, !.batch_mode_modified = buf[o].batch_mode_modified \/ m]
    OBVIOUS
  <2>5. m \in BOOLEAN /\ ~m
    OBVIOUS
  <2> HIDE DEF e, m
  <2> QED
    BY <1>1, <2>1, <2>2, <2>3, <2>4, <2>5, ReleaseStep
<1>4. CASE ~HasHandle(o)
  <2>1. handle' = handle /\ mutex' = mutex /\ buf' = buf /\ excused' = excused
    BY <1>4 DEF io_buffer_unlock, handles
  <2>2. Quiet
    BY <1>1, <2>1 DEF Quiet
  <2>3. Types' /\ Deletions' /\ Sound'
    BY <1>2, <2>1, <2>2, QuietStep DEF Types
  <2>4. OthersSame(o) /\ InOrder' = InOrder
    BY <1>1, <2>1 DEF OthersSame, InOrder
  <2>5. Threads' /\ Running'
    BY <1>1, <1>2, <2>1, <2>4, OperationEnds
  <2>6. Syncing'
    BY <1>1, <2>1, <2>4 DEF IInv, Syncing
  <2> QED
    BY <2>3, <2>5, <2>6 DEF IInv
<1> QED
  BY <1>3, <1>4

LEMMA NewStep ==
    ASSUME IInv, NEW o \in Objects, io_buffer_new(o)
    PROVE  IInv'
<1> DEFINE e == buf'[o]
           c == [NoBuf EXCEPT !.exists = TRUE, !.batch_mode_created = TRUE,
                              !.batch_mode_modified = TRUE, !.batch_file_exists = TRUE]
<1>1. /\ op.pc = "idle" /\ o \notin live /\ ~store[o].exists /\ latest[o] = {}
      /\ IF batch_mode
         THEN batch' = [batch EXCEPT ![o] = NewFile] /\ store' = store /\ buf' = [buf EXCEPT ![o] = c]
         ELSE store' = [store EXCEPT ![o] = NewFile] /\ batch' = batch /\ buf' = buf
      /\ live' = live \union {o}
  BY DEF io_buffer_new
<1>2. /\ dirs' = dirs /\ batch_mode' = batch_mode /\ handle' = handle /\ mutex' = mutex
      /\ deleted' = deleted /\ op' = op /\ sync' = sync /\ writes' = writes /\ latest' = latest /\ tried' = tried
      /\ excused' = excused /\ overlap' = overlap
  BY DEF io_buffer_new, handles, bounds
<1>3. /\ Types /\ buf \in [Objects -> Buffer] /\ batch \in [Objects -> File] /\ store \in [Objects -> File]
      /\ buf[o] = NoBuf /\ o \notin deleted /\ Whole(o)
  BY <1>1 DEF IInv, Types, Deletions, Whole
<1>4. /\ c \in Buffer /\ c.exists = TRUE /\ c.batch_mode_created = TRUE /\ c.batch_mode_modified = TRUE
      /\ c.batch_file_exists = TRUE /\ c.node = {} /\ c.is_dirty = FALSE /\ c.is_syncing = FALSE
      /\ c.sync_file_exists = FALSE
  BY NothingTypes DEF NoBuf, Buffer
<1> HIDE DEF c
<1>5. /\ buf' \in [Objects -> Buffer] /\ batch' \in [Objects -> File] /\ store' \in [Objects -> File]
      /\ \A p \in Objects \ {o} : buf'[p] = buf[p] /\ batch'[p] = batch[p] /\ store'[p] = store[p]
      /\ batch_mode => e = c /\ batch'[o] = NewFile /\ store'[o] = store[o]
      /\ ~batch_mode => e = NoBuf /\ batch'[o] = batch[o] /\ store'[o] = NewFile
  BY <1>1, <1>3, <1>4, NothingTypes
<1>6. OthersSame(o)
  BY <1>2, <1>5 DEF OthersSame
<1>7. Types'
  BY <1>1, <1>2, <1>5 DEF IInv, Types
<1> HIDE DEF e
<1>8. Deletions'
  <2>1. o \in dirs => store'[o].data = {} /\ batch'[o].data = {}
    BY <1>3, <1>5, NothingTypes DEF Whole
  <2>2. ~e.sync_file_exists
    BY <1>4, <1>5, NoBufFields
  <2>3. Whole(o)'
    BY <1>1, <1>2, <1>3, <2>1, <2>2 DEF Whole, e
  <2> QED
    BY <1>1, <1>2, <1>3, <1>6, <2>3, WholeStep DEF IInv
<1>9. Flags(o, buf[o])'
  <2>1. Holds(NewFile, o)'
    BY <1>1, <1>2, NothingTypes DEF Holds, Fits
  <2>2. CASE batch_mode
    <3>1. Fits(buf[o].node, o)' /\ IsEmpty(batch[o])' /\ Holds(batch[o], o)'
      BY <1>1, <1>2, <1>4, <1>5, <2>1, <2>2, NothingTypes DEF Fits, IsEmpty, Holds, e
    <3> QED
      BY <1>1, <1>2, <1>4, <1>5, <2>2, <3>1, NothingTypes DEF Flags, e
  <2>3. CASE ~batch_mode
    BY <1>2, <1>5, <2>1, <2>3, NoBufFields DEF Flags, e
  <2> QED
    BY <2>2, <2>3
<1>10. InOrder' \subseteq InOrder \union {o}
  BY <1>1, <1>2 DEF InOrder
<1>11. Sound'
  BY <1>2, <1>3, <1>6, <1>9, <1>10, SoundStep DEF IInv
<1>12. Threads'
  <2>1. \A p \in Objects : buf'[p].is_syncing => buf[p].is_syncing
    BY <1>4, <1>5, NoBufFields DEF e
  <2> QED
    BY <1>1, <1>2, <2>1 DEF IInv, Threads, OpHasFile
<1>13. Running'
  BY <1>1, <1>2 DEF Running
<1>14. Syncing'
  <2> SUFFICES ASSUME sync.pc \in Busy, sync.obj \in InOrder'
               PROVE  /\ buf'[sync.obj].batch_mode_modified /\ buf'[sync.obj].is_syncing
                      /\ buf'[sync.obj].is_dirty <=> sync.pc # "copy"
                      /\ sync.pc \in {"wait", "write"} => store'[sync.obj].exists
    BY <1>2 DEF Syncing
  <2>1. sync.obj \in live /\ sync.obj \in Objects \ {o} /\ sync.obj \in InOrder
    BY <1>1, <1>10 DEF IInv, Threads, Types
  <2>2. buf'[sync.obj] = buf[sync.obj] /\ store'[sync.obj] = store[sync.obj]
    BY <1>5, <2>1
  <2> QED
    BY <2>1, <2>2 DEF IInv, Syncing
<1> QED
  BY <1>7, <1>8, <1>11, <1>12, <1>13, <1>14 DEF IInv

LEMMA DelStep ==
    ASSUME IInv, NEW o \in Objects, io_buffer_del(o)
    PROVE  IInv'
<1>1. /\ op.pc = "idle" /\ sync.pc = "idle" /\ o \in live
      /\ deleted' = (IF batch_mode /\ buf[o].sync_file_exists THEN deleted \union {o} ELSE deleted)
      /\ buf' = [buf EXCEPT ![o] = NoBuf]
      /\ Release(o)
      /\ \/ store' = store /\ batch' = batch
         \/ IF batch_mode THEN batch' = [batch EXCEPT ![o] = NoFile] /\ store' = store
            ELSE store' = [store EXCEPT ![o] = NoFile] /\ batch' = batch
      /\ live' = live \ {o}
  BY DEF io_buffer_del, files
<1>2. /\ dirs' = dirs /\ batch_mode' = batch_mode /\ op' = op /\ sync' = sync /\ writes' = writes
      /\ latest' = latest /\ tried' = tried /\ excused' = excused /\ overlap' = overlap
  BY DEF io_buffer_del, bounds
<1>3. /\ Types /\ buf \in [Objects -> Buffer] /\ batch \in [Objects -> File] /\ store \in [Objects -> File]
      /\ Whole(o)
  BY DEF IInv, Types, Deletions
<1>4. /\ buf' \in [Objects -> Buffer] /\ batch' \in [Objects -> File] /\ store' \in [Objects -> File]
      /\ \A p \in Objects \ {o} : buf'[p] = buf[p] /\ batch'[p] = batch[p] /\ store'[p] = store[p]
      /\ buf'[o] = NoBuf
      /\ batch'[o] \in {batch[o], NoFile} /\ store'[o] \in {store[o], NoFile}
      /\ batch_mode => store'[o] = store[o]
  BY <1>1, <1>3, NothingTypes
<1>5. OthersSame(o)
  BY <1>2, <1>4 DEF OthersSame
<1>6. Types'
  <2>1. deleted' \in SUBSET Objects /\ live' \in SUBSET Objects
    BY <1>1, <1>3 DEF Types
  <2> QED
    BY <1>1, <1>2, <1>3, <1>4, <2>1, ReleaseTypes DEF Types
<1>7. Deletions'
  <2>1. IF o \in dirs THEN store'[o].data = {} /\ batch'[o].data = {} ELSE tried[o] = {}
    BY <1>3, <1>4, NothingTypes DEF Whole
  <2>2. o \in deleted' => store'[o].exists
    BY <1>1, <1>3, <1>4 DEF Whole
  <2>3. Whole(o)'
    BY <1>1, <1>2, <1>4, <2>1, <2>2, NoBufFields DEF Whole
  <2> QED
    BY <1>1, <1>2, <1>3, <1>5, <2>3, WholeStep DEF IInv
<1>8. InOrder' \subseteq InOrder /\ o \notin InOrder'
  BY <1>1, <1>2 DEF InOrder
<1>9. Sound'
  BY <1>2, <1>3, <1>5, <1>8, SoundStep DEF IInv
<1>10. Threads'
  <2>1. \A p \in Objects : buf'[p].is_syncing => buf[p].is_syncing
    BY <1>4, NoBufFields
  <2>2. sync.todo \in SUBSET live'
    BY <1>1 DEF IInv, Threads
  <2> QED
    BY <1>1, <1>2, <2>1, <2>2 DEF IInv, Threads, OpHasFile, Busy
<1>11. Running' /\ Syncing'
  BY <1>1, <1>2 DEF Running, Syncing, Busy
<1> QED
  BY <1>6, <1>7, <1>9, <1>10, <1>11 DEF IInv

LEMMA ModeStep ==
    ASSUME IInv, \/ batch_mode_start
                 \/ \E finish \in BOOLEAN : NothingToCommit(finish)
    PROVE  IInv'
<1>1. /\ sync.pc = "idle" /\ dirs' = dirs /\ store' = store /\ batch' = batch /\ buf' = buf
      /\ handle' = handle /\ mutex' = mutex /\ deleted' = deleted /\ op' = op /\ sync' = sync
      /\ writes' = writes /\ live' = live /\ latest' = latest /\ tried' = tried /\ excused' = excused
  BY DEF batch_mode_start, NothingToCommit, files, handles, bounds, history
<1>2. /\ batch_mode' \in BOOLEAN /\ overlap' \in BOOLEAN /\ (overlap => overlap')
      /\ batch_mode' = TRUE \/ \A p \in Objects : ~buf[p].exists
      /\ OpHasFile => overlap' \/ \A p \in Objects : ~buf[p].exists
  BY DEF IInv, Types, batch_mode_start, NothingToCommit, history
<1>3. InOrder' \subseteq InOrder /\ InOrder \subseteq Objects
  BY <1>1, <1>2 DEF InOrder, IInv, Types
<1>4. Types'
  BY <1>1, <1>2 DEF IInv, Types
<1>5. Deletions'
  BY <1>1 DEF IInv, Deletions, Whole
<1>6. Sound'
  <2> SUFFICES ASSUME NEW o \in InOrder' PROVE Flags(o, buf[o])'
    BY DEF Sound
  <2>1. Flags(o, buf[o]) /\ o \in Objects
    BY <1>3 DEF IInv, Sound
  <2> QED
    BY <1>1, <1>2, <2>1 DEF Flags, Holds, Fits
<1>7. Threads'
  BY <1>1 DEF IInv, Threads, OpHasFile
<1>8. Running'
  <2> SUFFICES ASSUME op.pc = "run", op.obj \in InOrder' PROVE FALSE
    BY <1>1 DEF Running
  <2>1. ~overlap' /\ OpHasFile /\ op.obj \in Objects /\ buf[op.obj].exists
    BY <1>3, InOrderMember DEF OpHasFile, IInv, Threads
  <2> QED
    BY <1>2, <2>1
<1>9. Syncing'
  BY <1>1 DEF Syncing, Busy
<1> QED
  BY <1>4, <1>5, <1>6, <1>7, <1>8, <1>9 DEF IInv
-----------------------------------------------------------------------------
(* The commander.                                                          *)

LEMMA SyncedFields ==
    ASSUME NEW b \in Buffer, NEW e, e = Synced(b)
    PROVE  /\ e \in Buffer /\ e.exists = b.exists /\ e.node = b.node /\ e.newer = b.newer
           /\ e.is_dirty = b.is_dirty /\ e.sync_file_exists = b.sync_file_exists
           /\ e.is_syncing = FALSE /\ e.batch_mode_created = FALSE
           /\ e.batch_file_exists = FALSE /\ e.batch_mode_modified = FALSE
BY DEF Synced, Buffer

LEMMA WrittenBackFields ==
    ASSUME NEW b \in Buffer, NEW e, \E late \in BOOLEAN : e = WrittenBack(b, late)
    PROVE  /\ e \in Buffer /\ e.exists = b.exists /\ e.node = b.node
           /\ e.is_dirty = FALSE /\ e.sync_file_exists = b.sync_file_exists
           /\ e.is_syncing = FALSE /\ e.batch_mode_created = FALSE
           /\ e.batch_file_exists = FALSE /\ e.batch_mode_modified = FALSE
<1>1. PICK late \in BOOLEAN : e = WrittenBack(b, late)
  OBVIOUS
<1> DEFINE s == Synced(b)
           n == IF late THEN s.newer \union {"store"} ELSE s.newer
<1>2. /\ s \in Buffer /\ s.exists = b.exists /\ s.node = b.node /\ s.sync_file_exists = b.sync_file_exists
      /\ s.is_syncing = FALSE /\ s.batch_mode_created = FALSE
      /\ s.batch_file_exists = FALSE /\ s.batch_mode_modified = FALSE
  BY DEF Synced, Buffer
<1>3. e = [s EXCEPT !.is_dirty = FALSE, !.newer = n]
  BY <1>1 DEF WrittenBack
<1> HIDE DEF s
<1>4. n \in SUBSET {"store", "batch"}
  BY <1>2, BufferFields
<1> HIDE DEF n
<1> QED
  BY <1>2, <1>3, <1>4 DEF Buffer

LEMMA CopiedBackFields ==
    ASSUME NEW b \in Buffer, NEW e, \E late \in BOOLEAN : e = CopiedBack(b, late)
    PROVE  /\ e \in Buffer /\ e.exists = b.exists /\ e.node = b.node
           /\ e.is_dirty = b.is_dirty /\ e.sync_file_exists = b.sync_file_exists
           /\ e.is_syncing = FALSE /\ e.batch_mode_created = FALSE
           /\ e.batch_file_exists = FALSE /\ e.batch_mode_modified = FALSE
<1>1. PICK late \in BOOLEAN : e = CopiedBack(b, late)
  OBVIOUS
<1> DEFINE s == Synced(b)
           n == IF late \/ "batch" \in s.newer THEN s.newer \union {"store"} ELSE s.newer
<1>2. /\ s \in Buffer /\ s.exists = b.exists /\ s.node = b.node /\ s.sync_file_exists = b.sync_file_exists
      /\ s.is_dirty = b.is_dirty /\ s.is_syncing = FALSE /\ s.batch_mode_created = FALSE
      /\ s.batch_file_exists = FALSE /\ s.batch_mode_modified = FALSE
  BY DEF Synced, Buffer
<1>3. e = [s EXCEPT !.newer = n]
  BY <1>1 DEF CopiedBack
<1> HIDE DEF s
<1>4. n \in SUBSET {"store", "batch"}
  BY <1>2, BufferFields
<1> HIDE DEF n
<1> QED
  BY <1>2, <1>3, <1>4 DEF Buffer

(* The operation stays where it is: it has no file of the commander's      *)
(* object, or the object is not in order.                                  *)
LEMMA OperationStays ==
    ASSUME IInv, NEW o \in Objects, o = sync.obj, sync.pc \in Busy, OthersSame(o), op' = op,
           dirs' = dirs, batch_mode' = batch_mode, InOrder' \subseteq InOrder
    PROVE  Running'
<1> SUFFICES ASSUME NEW p, p = op.obj, op.pc = "run", p \in InOrder'
             PROVE  /\ Fits(op.node, p)' /\ ~buf'[p].is_syncing
                    /\ batch_mode' => /\ buf'[p].batch_file_exists
                                      /\ ~buf'[p].is_dirty => Holds(batch[p], p)'
  BY DEF Running, Holds, Fits
<1>1. p \in Objects
  BY DEF InOrder, IInv, Types
<1>2. p # o
  BY <1>1 DEF IInv, Running, Syncing
<1>3. /\ buf'[p] = buf[p] /\ store'[p] = store[p] /\ batch'[p] = batch[p] /\ latest'[p] = latest[p] /\ tried'[p] = tried[p]
  BY <1>1, <1>2 DEF OthersSame
<1>4. /\ Fits(op.node, p) /\ ~buf[p].is_syncing
      /\ batch_mode => buf[p].batch_file_exists /\ (~buf[p].is_dirty => Holds(batch[p], p))
  BY <1>1 DEF IInv, Running
<1>5. Holds(batch[p], p) => Holds(batch[p], p)'
  BY <1>3 DEF Holds, Fits
<1>6. Fits(op.node, p)'
  BY <1>3, <1>4 DEF Fits
<1> QED
  BY <1>3, <1>4, <1>5, <1>6

(* The commander leaves the object it was at.                              *)
LEMMA SyncLeaves ==
    ASSUME IInv, NEW o \in Objects, o = sync.obj, sync.pc \in Busy, OthersSame(o), op' = op, live' = live,
           ~buf'[o].is_syncing, buf'[o].exists = buf[o].exists,
           \/ sync' = NoSync
           \/ sync' = [sync EXCEPT !.pc = "next", !.obj = "none", !.todo = sync.todo \ {o}]
    PROVE  Threads' /\ Syncing'
<1>1. /\ sync' = [pc |-> sync'.pc, todo |-> sync'.todo, obj |-> sync'.obj, finish |-> sync'.finish]
      /\ sync'.pc \in {"idle", "next"} /\ sync'.todo \in SUBSET live /\ sync'.finish \in BOOLEAN
      /\ sync'.pc = "idle" => sync'.todo = {}
  <2>1. CASE sync' = NoSync
    BY <2>1, NoSyncFields
  <2>2. CASE sync' = [sync EXCEPT !.pc = "next", !.obj = "none", !.todo = sync.todo \ {o}]
    <3>1. sync = [pc |-> sync.pc, todo |-> sync.todo, obj |-> sync.obj, finish |-> sync.finish]
      BY DEF IInv, Threads
    <3>2. /\ sync'.pc = "next" /\ sync'.todo = sync.todo \ {o} /\ sync'.finish = sync.finish
          /\ sync' = [pc |-> sync'.pc, todo |-> sync'.todo, obj |-> sync'.obj, finish |-> sync'.finish]
      BY <2>2, <3>1
    <3>3. sync.todo \in SUBSET live /\ sync.finish \in BOOLEAN
      BY DEF IInv, Threads
    <3> QED
      BY <3>2, <3>3
  <2> QED
    BY <2>1, <2>2
<1>2. \A p \in Objects : buf'[p].exists = buf[p].exists
  BY DEF OthersSame
<1>3. \A p \in Objects : ~buf'[p].is_syncing
  <2>1. \A p \in Objects \ {o} : ~buf[p].is_syncing
    BY DEF IInv, Threads
  <2> QED
    BY <2>1 DEF OthersSame
<1>4. op.pc # "idle" => op.obj \in Objects
  BY DEF IInv, Threads, Types
<1>5. Threads'
  BY <1>1, <1>2, <1>3, <1>4 DEF IInv, Threads, OpHasFile, Busy
<1>6. Syncing'
  BY <1>1 DEF Syncing, Busy
<1> QED
  BY <1>5, <1>6

LEMMA SyncNextStep ==
    ASSUME IInv, NEW o \in Objects, SyncNext(o)
    PROVE  IInv'
<1> DEFINE b == buf[o]
           e == buf'[o]
<1>1. /\ sync.pc = "next" /\ o \in sync.todo /\ dirs' = dirs /\ batch_mode' = batch_mode
      /\ store' = store /\ batch' = batch /\ handle' = handle /\ mutex' = mutex
      /\ deleted' = deleted /\ op' = op /\ writes' = writes /\ live' = live /\ latest' = latest /\ tried' = tried
      /\ excused' = excused
  BY DEF SyncNext, files, handles, bounds
<1>2. /\ sync = [pc |-> sync.pc, todo |-> sync.todo, obj |-> sync.obj, finish |-> sync.finish]
      /\ sync.todo \in SUBSET live /\ sync.finish \in BOOLEAN /\ o \in live
      /\ \A p \in Objects : ~buf[p].is_syncing
  BY <1>1 DEF IInv, Threads, Busy
<1>3. Types /\ b \in Buffer /\ buf \in [Objects -> Buffer] /\ overlap \in BOOLEAN
  BY DEF IInv, Types
<1>4. CASE b.batch_mode_modified
  <2>1. /\ buf' = [buf EXCEPT ![o] = [b EXCEPT !.is_syncing = TRUE]]
        /\ sync' = [sync EXCEPT !.obj = o, !.pc = IF b.is_dirty THEN "open" ELSE "copy"]
        /\ overlap' = (overlap \/ (OpHasFile /\ op.obj = o))
    BY <1>4 DEF SyncNext
  <2>2. e = [b EXCEPT !.is_syncing = TRUE] /\ \A p \in Objects \ {o} : buf'[p] = buf[p]
    BY <1>3, <2>1
  <2>3. /\ e \in Buffer /\ e.exists = b.exists /\ e.node = b.node /\ e.newer = b.newer
        /\ e.is_dirty = b.is_dirty /\ e.sync_file_exists = b.sync_file_exists
        /\ e.is_syncing = TRUE /\ e.batch_mode_created = b.batch_mode_created
        /\ e.batch_file_exists = b.batch_file_exists
        /\ e.batch_mode_modified = b.batch_mode_modified
    BY <1>3, <2>2 DEF Buffer
  <2>4. buf' \in [Objects -> Buffer]
    BY <1>3, <2>1, <2>2, <2>3
  <2>5. /\ sync'.pc = (IF b.is_dirty THEN "open" ELSE "copy") /\ sync'.obj = o
        /\ sync'.todo = sync.todo /\ sync'.finish = sync.finish
        /\ sync' = [pc |-> sync'.pc, todo |-> sync'.todo, obj |-> sync'.obj, finish |-> sync'.finish]
    BY <1>2, <2>1
  <2> HIDE DEF e
  <2>6. OthersSame(o)
    BY <1>1, <2>2 DEF OthersSame
  <2>7. InOrder' \subseteq InOrder /\ overlap' \in BOOLEAN
    BY <1>1, <1>3, <2>1 DEF InOrder
  <2>8. Types'
    BY <1>1, <1>3, <2>4, <2>7 DEF Types
  <2>9. Deletions'
    <3>1. Whole(o)
      BY DEF IInv, Deletions
    <3>2. Whole(o)'
      BY <1>1, <1>2, <2>3, <3>1 DEF Whole, e
    <3> QED
      BY <1>1, <1>3, <2>6, <3>2, WholeStep DEF IInv
  <2>10. Sound'
    <3>1. ASSUME o \in InOrder'
          PROVE  Flags(o, buf[o])'
      <4>1. Flags(o, b)
        BY <2>7, <3>1 DEF IInv, Sound
      <4> QED
        BY <1>1, <2>3, <4>1 DEF Flags, Holds, Fits, e
    <3> QED
      BY <1>1, <1>3, <2>6, <2>7, <3>1, SoundStep DEF IInv
  <2>11. Threads'
    <3>1. \A p \in Objects : buf'[p].exists = buf[p].exists
      BY <2>2, <2>3 DEF e
    <3>2. \A p \in Objects : buf'[p].is_syncing => p = o
      BY <1>2, <2>2
    <3>3. op.pc # "idle" => op.obj \in Objects
      BY <1>3 DEF IInv, Threads, Types
    <3> QED
      BY <1>1, <1>2, <2>5, <3>1, <3>2, <3>3 DEF IInv, Threads, OpHasFile, Busy
  <2>12. Running'
    <3> SUFFICES ASSUME op.pc = "run", op.obj \in InOrder'
                 PROVE  /\ Fits(op.node, op.obj) /\ ~buf'[op.obj].is_syncing
                        /\ batch_mode => /\ buf'[op.obj].batch_file_exists
                                         /\ ~buf'[op.obj].is_dirty => Holds(batch[op.obj], op.obj)
      BY <1>1 DEF Running, Holds, Fits
    <3>1. op.obj \in Objects \ {o}
      <4>1. ~overlap'
        BY InOrderMember
      <4> QED
        BY <1>3, <2>1, <2>7, <4>1 DEF OpHasFile, InOrder, Types
    <3>2. buf'[op.obj] = buf[op.obj]
      BY <2>2, <3>1
    <3> QED
      BY <2>7, <3>2 DEF IInv, Running
  <2>13. Syncing'
    BY <1>3, <1>4, <2>3, <2>5, BufferFields DEF Syncing, e
  <2> QED
    BY <2>8, <2>9, <2>10, <2>11, <2>12, <2>13 DEF IInv
<1>5. CASE ~b.batch_mode_modified
  <2>1. buf' = buf /\ overlap' = overlap /\ sync' = [sync EXCEPT !.todo = sync.todo \ {o}]
    BY <1>5 DEF SyncNext
  <2>2. /\ sync'.pc = "next" /\ sync'.obj = sync.obj
        /\ sync'.todo = sync.todo \ {o} /\ sync'.finish = sync.finish
        /\ sync' = [pc |-> sync'.pc, todo |-> sync'.todo, obj |-> sync'.obj, finish |-> sync'.finish]
    BY <1>1, <1>2, <2>1
  <2>3. Quiet
    BY <1>1, <2>1 DEF Quiet
  <2>4. Types' /\ Deletions' /\ Sound'
    BY <1>1, <1>3, <2>3, QuietStep DEF Types
  <2>5. Threads'
    BY <1>1, <1>2, <2>1, <2>2 DEF IInv, Threads, OpHasFile, Busy
  <2>6. Running'
    BY <1>1, <2>1 DEF IInv, Running, Holds, Fits, InOrder
  <2>7. Syncing'
    BY <2>2 DEF Syncing, Busy
  <2> QED
    BY <2>4, <2>5, <2>6, <2>7 DEF IInv
<1> QED
  BY <1>4, <1>5

LEMMA SyncOpenStep ==
    ASSUME IInv, SyncOpen, NEW o, o = sync.obj
    PROVE  IInv'
<1> DEFINE b == buf[o]
           e == buf'[o]
<1>1. /\ sync.pc = "open" /\ dirs' = dirs /\ batch_mode' = batch_mode /\ batch' = batch
      /\ deleted' = deleted /\ op' = op /\ live' = live /\ latest' = latest /\ tried' = tried /\ overlap' = overlap
  BY DEF SyncOpen
<1>2. /\ Types /\ o \in Objects /\ o \in live /\ sync.pc \in Busy /\ b \in Buffer
      /\ buf \in [Objects -> Buffer] /\ store \in [Objects -> File]
      /\ handle \in [Objects -> SUBSET {"store", "batch"}] /\ mutex \in SUBSET Objects /\ Whole(o)
  BY <1>1 DEF IInv, Types, Threads, Deletions, Busy
<1>3. CASE /\ store' = (IF store[o].exists THEN store ELSE [store EXCEPT ![o] = NewFile])
           /\ handle' = [handle EXCEPT ![o] = @ \union {"store"}]
           /\ buf' = [buf EXCEPT ![o] = [b EXCEPT !.sync_file_exists = TRUE]]
           /\ IF o \in mutex THEN sync' = [sync EXCEPT !.pc = "wait"] /\ mutex' = mutex
              ELSE sync' = [sync EXCEPT !.pc = "write"] /\ mutex' = mutex \union {o}
           /\ writes' = writes /\ excused' = excused
  <2>1. e = [b EXCEPT !.sync_file_exists = TRUE] /\ \A p \in Objects \ {o} : buf'[p] = buf[p]
    BY <1>2, <1>3
  <2>2. /\ e \in Buffer /\ e.exists = b.exists /\ e.node = b.node /\ e.newer = b.newer
        /\ e.is_dirty = b.is_dirty /\ e.sync_file_exists = TRUE
        /\ e.is_syncing = b.is_syncing /\ e.batch_mode_created = b.batch_mode_created
        /\ e.batch_file_exists = b.batch_file_exists
        /\ e.batch_mode_modified = b.batch_mode_modified
    BY <1>2, <2>1 DEF Buffer
  <2>3. buf' \in [Objects -> Buffer]
    BY <1>2, <1>3, <2>1, <2>2
  <2>4. /\ store' \in [Objects -> File] /\ store'[o].exists
        /\ \A p \in Objects \ {o} : store'[p] = store[p]
        /\ store'[o] = store[o] \/ store'[o] = NewFile
    BY <1>2, <1>3, NothingTypes
  <2>5. /\ sync'.pc \in {"wait", "write"} /\ sync'.obj = o
        /\ sync'.todo = sync.todo /\ sync'.finish = sync.finish
        /\ sync' = [pc |-> sync'.pc, todo |-> sync'.todo, obj |-> sync'.obj, finish |-> sync'.finish]
    <3>1. sync = [pc |-> sync.pc, todo |-> sync.todo, obj |-> sync.obj, finish |-> sync.finish]
      BY DEF IInv, Threads
    <3>2. sync' = [sync EXCEPT !.pc = "wait"] \/ sync' = [sync EXCEPT !.pc = "write"]
      BY <1>3
    <3> QED
      BY <3>1, <3>2
  <2>6. handle' \in [Objects -> SUBSET {"store", "batch"}] /\ mutex' \in SUBSET Objects
    BY <1>2, <1>3
  <2> HIDE DEF e
  <2>7. OthersSame(o)
    BY <1>1, <2>1, <2>4 DEF OthersSame
  <2>8. InOrder' = InOrder
    BY <1>1, <1>3 DEF InOrder
  <2>9. Types'
    BY <1>1, <1>2, <1>3, <2>3, <2>4, <2>6 DEF Types
  <2>10. Deletions'
    <3>1. o \in dirs => store'[o].data = {}
      BY <1>2, <2>4, NothingTypes DEF Whole
    <3>2. Whole(o)'
      BY <1>1, <1>2, <2>4, <3>1 DEF Whole
    <3> QED
      BY <1>1, <1>2, <2>7, <3>2, WholeStep DEF IInv
  <2>11. Sound'
    <3>1. ASSUME o \in InOrder
          PROVE  Flags(o, buf[o])'
      <4>1. Flags(o, b) /\ b.is_dirty /\ b.batch_mode_modified
        BY <1>1, <1>2, <3>1 DEF IInv, Sound, Syncing
      <4>2. Fits(b.node, o) => Fits(buf[o].node, o)'
        BY <1>1, <2>2 DEF Fits, e
      <4> QED
        BY <1>1, <2>2, <4>1, <4>2 DEF Flags, e
    <3> QED
      BY <1>1, <1>2, <2>7, <2>8, <3>1, SoundStep DEF IInv
  <2>12. Threads'
    <3>1. \A p \in Objects : buf'[p].exists = buf[p].exists /\ buf'[p].is_syncing = buf[p].is_syncing
      BY <2>1, <2>2 DEF e
    <3>2. op.pc # "idle" => op.obj \in Objects
      BY <1>2 DEF IInv, Threads, Types
    <3> QED
      BY <1>1, <1>2, <2>5, <3>1, <3>2 DEF IInv, Threads, OpHasFile, Busy
  <2>13. Running'
    BY <1>1, <1>2, <2>7, <2>8, OperationStays
  <2>14. Syncing'
    <3>1. o \in InOrder => b.is_dirty /\ b.batch_mode_modified /\ b.is_syncing
      BY <1>1, <1>2 DEF IInv, Syncing
    <3> QED
      BY <2>2, <2>4, <2>5, <2>8, <3>1 DEF Syncing, e
  <2> QED
    BY <2>9, <2>10, <2>11, <2>12, <2>13, <2>14 DEF IInv
<1>4. CASE /\ buf' = [buf EXCEPT ![o] = Synced(b)] /\ SyncBreaksOff
           /\ store' = store /\ handle' = handle /\ mutex' = mutex
  <2>1. e = Synced(b) /\ \A p \in Objects \ {o} : buf'[p] = buf[p]
    BY <1>2, <1>4
  <2>2. /\ e \in Buffer /\ e.exists = b.exists /\ e.sync_file_exists = b.sync_file_exists
        /\ e.is_syncing = FALSE
    BY <1>2, <2>1, SyncedFields
  <2>3. buf' \in [Objects -> Buffer]
    BY <1>2, <1>4, <2>1, <2>2
  <2>4. sync' = NoSync /\ excused' = excused \union {o} /\ writes' = writes
    BY <1>4 DEF SyncBreaksOff, Fail
  <2> HIDE DEF e
  <2>5. OthersSame(o)
    BY <1>1, <1>4, <2>1 DEF OthersSame
  <2>6. InOrder' \subseteq InOrder /\ o \notin InOrder' /\ excused' \in SUBSET Objects
    BY <1>1, <1>2, <2>4 DEF InOrder, Types
  <2>7. Types'
    BY <1>1, <1>2, <1>4, <2>3, <2>4, <2>6 DEF Types
  <2>8. Deletions'
    <3>1. Whole(o)'
      BY <1>1, <1>2, <1>4, <2>2 DEF Whole, e
    <3> QED
      BY <1>1, <1>2, <2>5, <3>1, WholeStep DEF IInv
  <2>9. Sound'
    BY <1>1, <1>2, <2>5, <2>6, SoundStep DEF IInv
  <2>10. Threads' /\ Syncing'
    BY <1>1, <1>2, <2>2, <2>4, <2>5, SyncLeaves DEF e
  <2>11. Running'
    BY <1>1, <1>2, <2>5, <2>6, OperationStays
  <2> QED
    BY <2>7, <2>8, <2>9, <2>10, <2>11 DEF IInv
<1> QED
  BY <1>3, <1>4 DEF SyncOpen, handles, bounds

(* The end of a sync of one object, whether it succeeded or not.           *)
LEMMA SyncedStep ==
    ASSUME IInv, NEW o, o = sync.obj, sync.pc \in Busy, NEW e \in Buffer,
           buf' = [buf EXCEPT ![o] = e], e.exists = buf[o].exists, e.node = buf[o].node,
           e.sync_file_exists = buf[o].sync_file_exists, e.is_syncing = FALSE,
           e.batch_mode_created = FALSE, e.batch_file_exists = FALSE, e.batch_mode_modified = FALSE,
           store' \in [Objects -> File],
           \A p \in Objects \ {o} : store'[p] = store[p],
           store[o].exists => store'[o].exists,
           o \in dirs => store'[o].data = {},
           \/ /\ SyncGoesOn /\ excused' = excused
              /\ o \in InOrder => e.is_dirty = FALSE /\ Holds(store'[o], o)
           \/ sync' = NoSync /\ excused' = excused \union {o},
           handle' \in [Objects -> SUBSET {"store", "batch"}], mutex' \in SUBSET Objects,
           dirs' = dirs, batch_mode' = batch_mode, batch' = batch, deleted' = deleted, op' = op,
           writes' = writes, live' = live, latest' = latest /\ tried' = tried, overlap' = overlap
    PROVE  IInv'
<1> DEFINE b == buf[o]
<1>1. /\ Types /\ o \in Objects /\ o \in live /\ b \in Buffer /\ buf \in [Objects -> Buffer] /\ Whole(o)
  BY DEF IInv, Types, Threads, Deletions
<1>2. buf'[o] = e /\ buf' \in [Objects -> Buffer] /\ \A p \in Objects \ {o} : buf'[p] = buf[p]
  BY <1>1
<1>3. OthersSame(o)
  BY <1>2 DEF OthersSame
<1>4. /\ InOrder' \subseteq InOrder /\ excused' \in SUBSET Objects
      /\ o \in InOrder' => SyncGoesOn /\ o \in InOrder
  <2>1. excused \subseteq excused' /\ excused' \in SUBSET Objects
    BY <1>1 DEF Types
  <2>2. InOrder' \subseteq InOrder
    BY <2>1 DEF InOrder
  <2>3. o \in InOrder' => o \notin excused'
    BY InOrderMember
  <2> QED
    BY <2>1, <2>2, <2>3
<1>5. Types'
  BY <1>1, <1>2, <1>4 DEF Types
<1>6. Deletions'
  <2>1. Whole(o)'
    BY <1>1, <1>2 DEF Whole
  <2> QED
    BY <1>1, <1>3, <2>1, WholeStep DEF IInv
<1>7. Sound'
  <2>1. ASSUME o \in InOrder'
        PROVE  Flags(o, buf[o])'
    <3>1. o \in InOrder /\ Flags(o, b) /\ sync' # NoSync
      <4>1. o \in InOrder /\ SyncGoesOn
        BY <1>4, <2>1
      <4>2. sync'.pc = "next"
        BY <4>1 DEF SyncGoesOn, IInv, Threads
      <4> QED
        BY <4>1, <4>2, NoSyncFields DEF IInv, Sound
    <3>2. e.is_dirty = FALSE /\ Holds(store'[o], o)
      BY <3>1
    <3>3. Holds(store[o], o)'
      BY <3>2 DEF Holds, Fits
    <3>4. Fits(b.node, o) => Fits(buf[o].node, o)'
      BY <1>2 DEF Fits
    <3> QED
      BY <1>2, <3>1, <3>2, <3>3, <3>4 DEF Flags
  <2> QED
    BY <1>1, <1>3, <1>4, <2>1, SoundStep DEF IInv
<1>8. Threads' /\ Syncing'
  <2>1. \/ sync' = NoSync
        \/ sync' = [sync EXCEPT !.pc = "next", !.obj = "none", !.todo = sync.todo \ {o}]
    BY DEF SyncGoesOn
  <2> QED
    BY <1>1, <1>2, <1>3, <2>1, SyncLeaves
<1>9. Running'
  BY <1>1, <1>3, <1>4, OperationStays
<1> QED
  BY <1>5, <1>6, <1>7, <1>8, <1>9 DEF IInv

LEMMA SyncWriteStep ==
    ASSUME IInv, SyncWrite, NEW o, o = sync.obj
    PROVE  IInv'
<1> DEFINE b == buf[o]
<1>1. /\ sync.pc = "write" /\ Release(o) /\ dirs' = dirs /\ batch_mode' = batch_mode /\ batch' = batch
      /\ deleted' = deleted /\ op' = op /\ live' = live /\ latest' = latest /\ tried' = tried /\ overlap' = overlap
      /\ \/ store'[o].node = b.node /\ SyncGoesOn /\ writes' = writes /\ excused' = excused
         \/ sync' = NoSync /\ excused' = excused \union {o} /\ writes' = writes
  BY DEF SyncWrite, SyncBreaksOff, Fail, bounds
<1>2. /\ Types /\ o \in Objects /\ o \in live /\ sync.pc \in Busy /\ b \in Buffer
      /\ buf \in [Objects -> Buffer] /\ store \in [Objects -> File] /\ Whole(o)
  BY <1>1 DEF IInv, Types, Threads, Deletions, Busy
<1>3. PICK late \in BOOLEAN : buf' = [buf EXCEPT ![o] = WrittenBack(b, late)]
  BY DEF SyncWrite
<1> DEFINE e == WrittenBack(b, late)
<1>4. \E l \in BOOLEAN : e = WrittenBack(b, l)
  OBVIOUS
<1>5. buf' = [buf EXCEPT ![o] = e]
  BY <1>3
<1> HIDE DEF e
<1>6. /\ e \in Buffer /\ e.exists = b.exists /\ e.node = b.node
      /\ e.is_dirty = FALSE /\ e.sync_file_exists = b.sync_file_exists
      /\ e.is_syncing = FALSE /\ e.batch_mode_created = FALSE
      /\ e.batch_file_exists = FALSE /\ e.batch_mode_modified = FALSE
  BY <1>2, <1>4, WrittenBackFields
<1>7. /\ store' \in [Objects -> File]
      /\ \A p \in Objects \ {o} : store'[p] = store[p]
      /\ store'[o].exists = store[o].exists /\ store'[o].data = store[o].data
  <2> DEFINE f(n) == [store[o] EXCEPT !.node = n]
  <2>1. ASSUME NEW n \in Updates
        PROVE  f(n) \in File /\ f(n).exists = store[o].exists /\ f(n).data = store[o].data
    BY <1>2 DEF File
  <2>2. b.node \in Updates /\ Torn \in Updates
    BY <1>2, BufferFields, BoundsAssumption DEF Updates, Torn
  <2>3. store' = [store EXCEPT ![o] = f(b.node)] \/ store' = [store EXCEPT ![o] = f(Torn)] \/ store' = store
    BY DEF SyncWrite
  <2> HIDE DEF f
  <2> QED
    BY <1>2, <2>1, <2>2, <2>3
<1>8. handle' \in [Objects -> SUBSET {"store", "batch"}] /\ mutex' \in SUBSET Objects
  BY <1>1, <1>2, ReleaseTypes
<1>9. o \in InOrder /\ store'[o].node = b.node => Holds(store'[o], o)
  <2> SUFFICES ASSUME o \in InOrder, store'[o].node = b.node PROVE Holds(store'[o], o)
    OBVIOUS
  <2>1. b.is_dirty /\ store[o].exists
    BY <1>1, <1>2 DEF IInv, Syncing
  <2>2. o \in dirs /\ Fits(b.node, o)
    BY <2>1 DEF IInv, Sound, Flags
  <2> QED
    BY <1>7, <2>1, <2>2 DEF Holds, Fits
<1>10. o \in dirs => store'[o].data = {}
  BY <1>2, <1>7 DEF Whole
<1>11. \/ /\ SyncGoesOn /\ excused' = excused
          /\ o \in InOrder => e.is_dirty = FALSE /\ Holds(store'[o], o)
       \/ sync' = NoSync /\ excused' = excused \union {o}
  BY <1>1, <1>6, <1>9
<1> QED
  BY <1>1, <1>2, <1>5, <1>6, <1>7, <1>8, <1>10, <1>11, SyncedStep

LEMMA SyncCopyStep ==
    ASSUME IInv, SyncCopy, NEW o, o = sync.obj
    PROVE  IInv'
<1> DEFINE b == buf[o]
<1>1. /\ sync.pc = "copy" /\ handle' = handle /\ mutex' = mutex /\ dirs' = dirs
      /\ batch_mode' = batch_mode /\ batch' = batch
      /\ deleted' = deleted /\ op' = op /\ live' = live /\ latest' = latest /\ tried' = tried /\ overlap' = overlap
  BY DEF SyncCopy, handles
<1>2. /\ Types /\ o \in Objects /\ o \in live /\ sync.pc \in Busy /\ b \in Buffer
      /\ buf \in [Objects -> Buffer] /\ store \in [Objects -> File] /\ batch \in [Objects -> File]
      /\ Whole(o)
      /\ handle' \in [Objects -> SUBSET {"store", "batch"}] /\ mutex' \in SUBSET Objects
  BY <1>1 DEF IInv, Types, Threads, Deletions, Busy
<1>3. CASE /\ batch[o].exists /\ store' = [store EXCEPT ![o] = batch[o]]
           /\ \E late \in BOOLEAN : buf' = [buf EXCEPT ![o] = CopiedBack(b, late)]
           /\ SyncGoesOn /\ writes' = writes /\ excused' = excused
  <2>1. PICK late \in BOOLEAN : buf' = [buf EXCEPT ![o] = CopiedBack(b, late)]
    BY <1>3
  <2> DEFINE e == CopiedBack(b, late)
  <2>2. \E l \in BOOLEAN : e = CopiedBack(b, l)
    OBVIOUS
  <2>3. buf' = [buf EXCEPT ![o] = e]
    BY <2>1
  <2> HIDE DEF e
  <2>4. /\ e \in Buffer /\ e.exists = b.exists /\ e.node = b.node
        /\ e.is_dirty = b.is_dirty /\ e.sync_file_exists = b.sync_file_exists
        /\ e.is_syncing = FALSE /\ e.batch_mode_created = FALSE
        /\ e.batch_file_exists = FALSE /\ e.batch_mode_modified = FALSE
    BY <1>2, <2>2, CopiedBackFields
  <2>5. /\ store' \in [Objects -> File] /\ store'[o] = batch[o] /\ store'[o].exists
        /\ \A p \in Objects \ {o} : store'[p] = store[p]
    BY <1>2, <1>3
  <2>6. o \in InOrder => e.is_dirty = FALSE /\ Holds(store'[o], o)
    <3> SUFFICES ASSUME o \in InOrder PROVE e.is_dirty = FALSE /\ Holds(store'[o], o)
      OBVIOUS
    <3>1. ~b.is_dirty /\ b.batch_mode_modified
      BY <1>1, <1>2 DEF IInv, Syncing
    <3>2. Holds(batch[o], o)
      BY <3>1 DEF IInv, Sound, Flags
    <3> QED
      BY <1>2, <2>4, <2>5, <3>1, <3>2, BufferFields
  <2>7. o \in dirs => store'[o].data = {}
    BY <1>2, <2>5 DEF Whole
  <2>8. SyncGoesOn /\ writes' = writes /\ excused' = excused
    BY <1>3
  <2> QED
    BY <1>1, <1>2, <2>3, <2>4, <2>5, <2>6, <2>7, <2>8, SyncedStep
<1>4. CASE /\ SyncBreaksOff /\ buf' = [buf EXCEPT ![o] = Synced(b)]
           /\ store' = store \/ store' = [store EXCEPT ![o].exists = TRUE, ![o].node = Torn]
  <2> DEFINE e == Synced(b)
  <2>1. e = Synced(b) /\ buf' = [buf EXCEPT ![o] = e]
    BY <1>4
  <2> HIDE DEF e
  <2>2. /\ e \in Buffer /\ e.exists = b.exists /\ e.node = b.node
        /\ e.sync_file_exists = b.sync_file_exists
        /\ e.is_syncing = FALSE /\ e.batch_mode_created = FALSE
        /\ e.batch_file_exists = FALSE /\ e.batch_mode_modified = FALSE
    BY <1>2, <2>1, SyncedFields
  <2>3. sync' = NoSync /\ excused' = excused \union {o} /\ writes' = writes
    BY <1>4 DEF SyncBreaksOff, Fail
  <2>4. /\ store' \in [Objects -> File] /\ \A p \in Objects \ {o} : store'[p] = store[p]
        /\ store[o].exists => store'[o].exists
        /\ o \in dirs => store'[o].data = {}
    <3>1. CASE store' = store
      BY <1>2, <3>1 DEF Whole
    <3>2. CASE store' = [store EXCEPT ![o].exists = TRUE, ![o].node = Torn]
      <4>1. Torn \in Updates
        BY BoundsAssumption DEF Updates, Torn
      <4> DEFINE f == [store[o] EXCEPT !.exists = TRUE, !.node = Torn]
      <4>2. f \in File /\ f.exists = TRUE /\ f.data = store[o].data
        BY <1>2, <4>1 DEF File
      <4>3. store' = [store EXCEPT ![o] = f]
        BY <1>2, <3>2
      <4> HIDE DEF f
      <4> QED
        BY <1>2, <4>2, <4>3 DEF Whole
    <3> QED
      BY <1>4, <3>1, <3>2
  <2> QED
    BY <1>1, <1>2, <2>1, <2>2, <2>3, <2>4, SyncedStep
<1> QED
  BY <1>3, <1>4 DEF SyncCopy, bounds

LEMMA SyncEndStep ==
    ASSUME IInv, SyncEnd
    PROVE  IInv'
<1>1. /\ sync.pc = "next" /\ deleted' = {} /\ sync' = NoSync
      /\ batch_mode' = (batch_mode /\ ~sync.finish)
      /\ overlap' = (overlap \/ (sync.finish /\ OpHasFile))
      /\ excused' = IF sync.finish THEN excused \union {o \in Objects : buf[o].batch_mode_modified} ELSE excused
      /\ dirs' = dirs /\ batch' = batch /\ buf' = buf /\ handle' = handle /\ mutex' = mutex
      /\ op' = op /\ writes' = writes /\ live' = live /\ latest' = latest /\ tried' = tried
  BY DEF SyncEnd, handles, bounds
<1>2. PICK gone \in SUBSET deleted : store' = [o \in Objects |-> IF o \in gone THEN NoFile ELSE store[o]]
  BY DEF SyncEnd
<1>3. Types /\ store \in [Objects -> File] /\ sync.finish \in BOOLEAN
  BY DEF IInv, Types, Threads
<1>4. /\ store' \in [Objects -> File]
      /\ \A o \in Objects : /\ o \in live => store'[o] = store[o]
                            /\ store'[o].data = store[o].data \/ store'[o].data = {}
  <2>1. \A o \in Objects : o \in gone => o \notin live
    BY DEF IInv, Deletions, Whole
  <2> QED
    BY <1>2, <1>3, <2>1, NothingTypes
<1>5. /\ InOrder' \subseteq InOrder /\ InOrder \subseteq Objects
      /\ excused' \in SUBSET Objects /\ overlap' \in BOOLEAN /\ batch_mode' \in BOOLEAN
  BY <1>1, <1>3 DEF InOrder, Types
<1>6. Types'
  BY <1>1, <1>3, <1>4, <1>5 DEF Types
<1>7. Deletions'
  <2> SUFFICES ASSUME NEW o \in Objects PROVE Whole(o)'
    BY DEF Deletions
  <2>1. Whole(o)
    BY DEF IInv, Deletions
  <2>2. buf[o].sync_file_exists => store'[o].exists
    <3>1. CASE o \in live
      BY <1>4, <2>1, <3>1 DEF Whole
    <3>2. CASE o \notin live
      BY <2>1, <3>2, NoBufFields DEF Whole
    <3> QED
      BY <3>1, <3>2
  <2> QED
    BY <1>1, <1>4, <2>1, <2>2 DEF Whole
<1>8. Sound'
  <2> SUFFICES ASSUME NEW o \in InOrder' PROVE Flags(o, buf[o])'
    BY DEF Sound
  <2>1. Flags(o, buf[o]) /\ o \in Objects /\ o \in live
    BY <1>5 DEF IInv, Sound, InOrder
  <2>2. store'[o] = store[o]
    BY <1>4, <2>1
  <2>3. buf[o].batch_mode_modified => batch_mode' = batch_mode
    <3>1. o \notin excused'
      BY InOrderMember
    <3> QED
      BY <1>1, <1>3, <2>1, <3>1 DEF Types
  <2>4. Holds(store[o], o)' <=> Holds(store[o], o)
    BY <1>1, <2>2 DEF Holds, Fits
  <2>5. Holds(batch[o], o)' <=> Holds(batch[o], o)
    BY <1>1 DEF Holds, Fits
  <2>6. Fits(buf[o].node, o) => Fits(buf[o].node, o)'
    BY <1>1 DEF Fits
  <2> QED
    BY <1>1, <2>1, <2>3, <2>4, <2>5, <2>6 DEF Flags, IsEmpty
<1>9. Threads'
  BY <1>1, NoSyncFields DEF IInv, Threads, OpHasFile, Busy
<1>10. Running'
  <2> SUFFICES ASSUME op.pc = "run", op.obj \in InOrder'
               PROVE  /\ Fits(op.node, op.obj) /\ ~buf[op.obj].is_syncing
                      /\ batch_mode' => /\ buf[op.obj].batch_file_exists
                                        /\ ~buf[op.obj].is_dirty => Holds(batch[op.obj], op.obj)
    BY <1>1 DEF Running, Holds, Fits
  <2>1. batch_mode' => batch_mode
    BY <1>1
  <2> QED
    BY <1>5, <2>1 DEF IInv, Running
<1>11. Syncing'
  BY <1>1, NoSyncFields DEF Syncing, Busy
<1> QED
  BY <1>6, <1>7, <1>8, <1>9, <1>10, <1>11 DEF IInv

LEMMA RestartStep ==
    ASSUME IInv, Restart
    PROVE  IInv'
<1>1. /\ batch_mode' = FALSE
      /\ batch' = [o \in Objects |-> NoFile] /\ buf' = [o \in Objects |-> NoBuf]
      /\ handle' = [o \in Objects |-> {}] /\ mutex' = {}
      /\ deleted' = {} /\ op' = NoOp /\ sync' = NoSync
      /\ live' = {o \in Objects : store[o].exists}
      /\ latest' = [o \in Objects |-> store[o].node] /\ tried' = [o \in Objects |-> {}]
      /\ excused' = {o \in Objects : store[o].node = Torn \/ (o \notin dirs /\ store[o].node # store[o].data)}
      /\ overlap' = FALSE /\ dirs' = dirs /\ store' = store /\ writes' = writes
  BY DEF Restart
<1>2. /\ dirs \in SUBSET Objects /\ store \in [Objects -> File] /\ writes \in 0 .. MaxWrites
  BY DEF IInv, Types
<1>3. Types'
  <2>1. \A o \in Objects : store[o].node \in Updates
    BY <1>2, FileFields
  <2>2. batch' \in [Objects -> File] /\ buf' \in [Objects -> Buffer] /\ latest' \in [Objects -> Updates]
        /\ tried' \in [Objects -> Updates]
    BY <1>1, <2>1, NothingTypes DEF Updates
  <2> QED
    BY <1>1, <1>2, <2>2 DEF Types
<1>4. Deletions'
  <2> SUFFICES ASSUME NEW o \in Objects PROVE Whole(o)'
    BY DEF Deletions
  <2>1. Whole(o) /\ buf'[o] = NoBuf /\ batch'[o] = NoFile
    BY <1>1 DEF IInv, Deletions
  <2> QED
    BY <1>1, <2>1, NoBufFields, NothingTypes DEF Whole
<1>5. Sound'
  <2> SUFFICES ASSUME NEW o \in InOrder' PROVE Flags(o, buf[o])'
    BY DEF Sound
  <2>1. o \in live' /\ o \notin excused'
    BY InOrderMember
  <2>2. /\ o \in Objects /\ store[o].exists /\ buf'[o] = NoBuf /\ latest'[o] = store[o].node /\ tried'[o] = {}
        /\ o \notin dirs => store[o].data = store[o].node
    BY <1>1, <2>1
  <2>3. Holds(store[o], o)'
    BY <1>1, <2>2 DEF Holds, Fits
  <2> QED
    BY <2>2, <2>3, NoBufFields DEF Flags
<1>6. Threads'
  <2>1. \A o \in Objects : ~buf'[o].is_syncing
    BY <1>1, NoBufFields
  <2> QED
    BY <1>1, <2>1, NoOpFields, NoSyncFields DEF Threads, OpHasFile, Busy
<1>7. Running' /\ Syncing'
  BY <1>1, NoOpFields, NoSyncFields DEF Running, Syncing, Busy
<1> QED
  BY <1>3, <1>4, <1>5, <1>6, <1>7 DEF IInv

LEMMA InitIInv == Init => IInv
<1> SUFFICES ASSUME Init PROVE IInv
  OBVIOUS
<1>1. /\ dirs \in SUBSET Objects /\ batch_mode = FALSE /\ writes = 0 /\ live \in SUBSET Objects
      /\ store = [o \in Objects |-> IF o \in live THEN NewFile ELSE NoFile]
      /\ batch = [o \in Objects |-> NoFile] /\ buf = [o \in Objects |-> NoBuf]
      /\ handle = [o \in Objects |-> {}] /\ mutex = {}
      /\ deleted = {} /\ op = NoOp /\ sync = NoSync
      /\ latest = [o \in Objects |-> {}] /\ tried = [o \in Objects |-> {}] /\ excused = {} /\ overlap = FALSE
  BY DEF Init
<1>2. Types
  <2>1. {} \in Updates /\ 0 \in 0 .. MaxWrites
    BY BoundsAssumption DEF Updates
  <2> QED
    BY <1>1, <2>1, NothingTypes DEF Types
<1>3. \A o \in Objects : /\ buf[o] = NoBuf /\ batch[o] = NoFile /\ latest[o] = {} /\ tried[o] = {}
                         /\ store[o].data = {} /\ store[o].node = {} /\ (o \in live => store[o].exists)
  BY <1>1, NothingTypes
<1>4. Deletions
  BY <1>1, <1>3, NoBufFields, NothingTypes DEF Deletions, Whole
<1>5. Sound
  <2> SUFFICES ASSUME NEW o \in InOrder PROVE Flags(o, buf[o])
    BY DEF Sound
  <2>1. o \in live /\ o \in Objects
    BY <1>1 DEF InOrder
  <2>2. Holds(store[o], o)
    BY <1>3, <2>1 DEF Holds, Fits
  <2> QED
    BY <1>3, <2>1, <2>2, NoBufFields DEF Flags
<1>6. Threads
  BY <1>1, <1>3, NoBufFields, NoOpFields, NoSyncFields DEF Threads, OpHasFile, Busy
<1>7. Running /\ Syncing
  BY <1>1, NoOpFields, NoSyncFields DEF Running, Syncing, Busy
<1> QED
  BY <1>2, <1>4, <1>5, <1>6, <1>7 DEF IInv

LEMMA NextStep == IInv /\ [Next]_vars => IInv'
<1> SUFFICES ASSUME IInv, [Next]_vars PROVE IInv'
  OBVIOUS
<1>1. CASE UNCHANGED vars
  <2>1. Quiet /\ handle' = handle /\ mutex' = mutex /\ op' = op /\ sync' = sync
    BY <1>1 DEF vars, Quiet, files, handles, bounds, history
  <2>2. Types' /\ Deletions' /\ Sound'
    BY <2>1, QuietStep DEF IInv, Types
  <2>3. Threads'
    BY <2>1 DEF IInv, Threads, OpHasFile, Quiet
  <2>4. Running'
    BY <2>1 DEF IInv, Running, Holds, Fits, InOrder, Quiet
  <2>5. Syncing'
    BY <2>1 DEF IInv, Syncing, InOrder, Quiet
  <2> QED
    BY <2>2, <2>3, <2>4, <2>5 DEF IInv
<1>2. CASE \E o \in Objects : Lookup(o) \/ io_buffer_new(o) \/ io_buffer_del(o)
  BY <1>2, LookupStep, NewStep, DelStep
<1>3. CASE \E o \in Objects : Begin(o)
  BY <1>3, QuietSteps
<1>4. CASE OpStep
  BY <1>4, QuietSteps, GetStep, PutStep, CloseFailsStep, PutFailsStep, UnlockStep DEF OpStep
<1>5. CASE batch_mode_start
  BY <1>5, ModeStep
<1>6. CASE \E finish \in BOOLEAN : batch_mode_commit(finish) \/ NothingToCommit(finish)
  BY <1>6, QuietSteps, ModeStep
<1>7. CASE SyncStep
  BY <1>7, QuietSteps, SyncNextStep, SyncOpenStep, SyncWriteStep, SyncCopyStep, SyncEndStep, RestartStep
     DEF SyncStep, SyncWithoutFile
<1>8. CASE Crash
  BY <1>8, RestartStep DEF Crash
<1> QED
  BY <1>1, <1>2, <1>3, <1>4, <1>5, <1>6, <1>7, <1>8 DEF Next

LEMMA Invariance == Spec => []IInv
BY InitIInv, NextStep, PTL DEF Spec
-----------------------------------------------------------------------------
LEMMA StrandedTyped == Spec => [](stranded \subseteq Objects)
<1>1. Init => stranded \subseteq Objects
  BY DEF Init
<1>2. IInv /\ stranded \subseteq Objects /\ [Next]_vars => (stranded \subseteq Objects)'
  <2> SUFFICES ASSUME IInv, stranded \subseteq Objects, [Next]_vars PROVE stranded' \subseteq Objects
    OBVIOUS
  <2>1. CASE UNCHANGED vars
    BY <2>1 DEF vars, history
  <2>2. CASE io_buffer_get
    <3>1. op.obj \in Objects
      BY <2>2 DEF IInv, Threads, Types, io_buffer_get
    <3> QED
      BY <2>2, <3>1 DEF io_buffer_get
  <2>3. CASE GetFails \/ io_buffer_put \/ CloseFails \/ PutFails \/ PutWithoutFile \/ io_buffer_unlock
    BY <2>3 DEF GetFails, io_buffer_put, CloseFails, PutFails, PutWithoutFile, io_buffer_unlock, history
  <2>4. CASE SyncStep \/ Crash
    BY <2>4 DEF SyncStep, SyncNext, SyncOpen, SyncGetsMutex, SyncWrite, SyncCopy, SyncEnd, SyncWithoutFile,
          Crash, Restart, history
  <2>5. CASE \E o \in Objects : Lookup(o) \/ Begin(o) \/ io_buffer_new(o) \/ io_buffer_del(o)
    BY <2>5 DEF Lookup, Begin, io_buffer_new, io_buffer_del, history
  <2>6. CASE batch_mode_start \/ \E finish \in BOOLEAN : batch_mode_commit(finish) \/ NothingToCommit(finish)
    BY <2>6 DEF batch_mode_start, batch_mode_commit, NothingToCommit, history
  <2> QED
    BY <2>1, <2>2, <2>3, <2>4, <2>5, <2>6 DEF Next, OpStep
<1> QED
  BY <1>1, <1>2, Invariance, PTL DEF Spec

(* Types, for any number of objects, updates and failures; at most the     *)
(* object that the commander is at is being synced.                        *)
THEOREM TypeCorrect == Spec => []TypeOK
<1>1. IInv /\ stranded \subseteq Objects => TypeOK
  BY DEF IInv, Types, Threads, TypeOK, Buffer, Busy
<1> QED
  BY <1>1, Invariance, StrandedTyped, PTL

(* However operations, commands, failures and restarts follow each other:  *)
(* an acknowledged update of an object that met none of the cases of io.c  *)
(* in which updates get lost is in the datastore, or the next commit       *)
(* carries it there; a put of a dirnode may have failed before or after    *)
(* its file was written (io.c:543-563, 632-641).                           *)
THEOREM NothingIsForgotten == Spec => []NothingForgotten
<1>1. IInv => NothingForgotten
  <2> SUFFICES ASSUME IInv, NEW o \in InOrder
               PROVE  \/ Holds(store[o], o)
                      \/ /\ batch_mode /\ buf[o].batch_mode_modified
                         /\ IF buf[o].is_dirty THEN Fits(buf[o].node, o) ELSE Holds(batch[o], o)
    BY DEF NothingForgotten
  <2>1. Flags(o, buf[o])
    BY DEF IInv, Sound
  <2> QED
    BY <2>1 DEF Flags
<1> QED
  BY <1>1, Invariance, PTL

(* io_buffer_get gives out the acknowledged updates of such an object,     *)
(* from memory or from the right one of its two files, and besides them    *)
(* only updates whose put failed after the file was written.               *)
THEOREM LatestIsRead == Spec => []ReadsLatest
<1>1. IInv => ReadsLatest
  BY GotIsLatest DEF IInv, ReadsLatest
<1> QED
  BY <1>1, Invariance, PTL
=============================================================================

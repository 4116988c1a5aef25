-------------------------- MODULE FuseFile_proofs --------------------------
(***************************************************************************)
(* Proofs about FuseFile for any number of threads, handles, names, writes *)
(* and failures, and any chunk size: the writes that the volume does not   *)
(* have stay in a dirty inode, the last close has stored them, and cached  *)
(* chunks are current.                                                     *)
(***************************************************************************)
EXTENDS FuseFile, FiniteSetTheorems, WellFoundedInduction, TLAPS

Bases == {get_base_offset(p) : p \in Positions}
Datas == UNION {[InChunk(b) -> Byte] : b \in Bases}
Chunk == [base : Bases, data : Datas]

Inode == [filesize : 0 .. MaxSize, on_disk_size : 0 .. MaxSize, is_dirty : BOOLEAN,
          is_deleted : BOOLEAN, last_accessed : BOOLEAN,
          link_count : 0 .. Cardinality(Names), openers : Nat]

Record == [op : {"idle", "open", "getattr", "read", "write", "flush", "release"},
           at : {"idle", "attr", "alloc", "add", "update", "size", "encrypt", "close"},
           file : Files \union {"none"}, pos : Nat, write : 0 .. MaxWrites, chunk : Nat,
           data : Datas \union {<<>>}, size : 0 .. MaxSize]

(* The types of the variables.                                             *)
Types ==
    /\ inode \in Inode
    /\ file_chunks \in Seq(Chunk)
    /\ \A i \in DOMAIN file_chunks : file_chunks[i].data \in [InChunk(file_chunks[i].base) -> Byte]
    /\ lock \in Threads \union {NoThread} /\ leaked \in BOOLEAN
    /\ files \in [Files -> Names \union {Closed}]
    /\ thread \in [Threads -> Record]
    /\ disk \in [size : 0 .. MaxSize, data : [Positions -> Byte]]
    /\ names \in Seq(Names)
    /\ writes \in 0 .. MaxWrites /\ events \in Nat
    /\ latest \in [Positions -> Byte] /\ spoiled \subseteq Positions
    /\ outcome \in {"none", "failed", "crossed"}

(* The handles and the names are counted.                                  *)
OpenFiles == {f \in Files : IsOpen(f)}

Counting ==
    /\ inode.openers = Cardinality(OpenFiles)
    /\ \A i, j \in DOMAIN names : names[i] = names[j] => i = j
    /\ Cardinality(Paths) = Len(names)

(* Where a request may be, and what its record then holds.                 *)
Shape(t) ==
    LET r == thread[t] IN
    /\ r.op = "idle" => r.at = "idle"
    /\ r.op = "open" => r.at \in {"attr", "alloc"} /\ r.file \in Files /\ ~IsOpen(r.file)
    /\ r.op = "getattr" => r.at = "attr"
    /\ r.op = "read" => r.at = "add"
    /\ r.op = "write" => r.at \in {"add", "update", "size"} /\ r.write > 0
    /\ r.op = "flush" => r.at = "encrypt"
    /\ r.op = "release" => r.at \in {"encrypt", "close"}
    /\ r.op \in {"read", "write", "flush", "release"} => r.file \in Files /\ IsOpen(r.file)
    /\ r.op \in {"read", "write"} => r.pos \in Positions

(* A position in the list of chunks stays one, and the lock is held by the *)
(* thread that stores the file.                                            *)
AtWork(t) ==
    LET r == thread[t] IN
    /\ r.at = "alloc" => inode.last_accessed
    /\ r.at = "add" => r.data \in [InChunk(get_base_offset(r.pos)) -> Byte]
    /\ r.at \in {"update", "size"} => r.chunk \in Holding(get_base_offset(r.pos))
    /\ r.at = "size" => file_chunks[r.chunk].data[r.pos] = r.write
    /\ r.at = "encrypt" <=> lock = t
    /\ r.at = "encrypt" => inode.is_dirty /\ r.chunk > 0

Serving == \A t \in Threads : Shape(t) /\ AtWork(t)

(* What the kernel keeps apart.                                            *)
Apart(r, s) ==
    /\ ~(r.op = "write" /\ s.op = "write")
    /\ ~(r.op = "open" /\ s.op = "open" /\ r.file = s.file)
    /\ ~(r.op = "release" /\ s.op \in {"read", "write", "flush", "release"} /\ r.file = s.file)

Exclusive == \A t, u \in Threads : t # u => Apart(thread[t], thread[u])

(* The size of the inode means something once somebody used the inode.     *)
Used == inode.last_accessed \/ inode.is_dirty \/ \E f \in Files : IsOpen(f)

(* A byte the file held in the beginning is under every size that anybody  *)
(* has seen.                                                               *)
Untouched(p) ==
    latest[p] = Original =>
       /\ p < disk.size
       /\ \A t \in Threads : thread[t].at \in {"attr", "encrypt"} => p < thread[t].size
       /\ Used => p < inode.filesize /\ p < inode.on_disk_size

Chunks(p) == Holding(get_base_offset(p))

(* A byte without a chunk was never written, and is in the volume.         *)
Uncached(p) ==
    latest[p] # Junk /\ Chunks(p) = {} => latest[p] = Original /\ disk.data[p] = Original

(* A chunk that was fetched is current until another one is in the list.   *)
FetchedIsCurrent(p) ==
    \A t \in Threads :
       (/\ latest[p] # Junk /\ Chunks(p) = {}
        /\ thread[t].at = "add" /\ get_base_offset(thread[t].pos) = get_base_offset(p))
       => thread[t].data[p] = latest[p]

CachedIsCurrent(p) ==
    \A i \in Chunks(p) :
       latest[p] # Junk /\ ~Doubled(p) /\ p \notin Unsized => file_chunks[i].data[p] = latest[p]

Sized(p) == latest[p] # Junk /\ Used => p \in spoiled \/ p < inode.filesize

Safe(p) ==
    (latest[p] # Junk /\ (p >= disk.size \/ disk.data[p] # latest[p]))
    => inode.is_dirty \/ inode.is_deleted \/ p \in spoiled \/ Doubled(p)

(* A store in progress has put the chunks before its own into the volume.  *)
StoredSoFar(p) ==
    \A t \in Threads :
       thread[t].at = "encrypt" /\ latest[p] # Junk /\ p \notin spoiled /\ ~Doubled(p) =>
          /\ p < disk.size
          /\ \A i \in Chunks(p) : i < thread[t].chunk => disk.data[p] = latest[p]

Intact(p) == /\ Untouched(p) /\ Uncached(p) /\ FetchedIsCurrent(p) /\ CachedIsCurrent(p)
             /\ Sized(p) /\ Safe(p) /\ StoredSoFar(p)

Bytes == \A p \in Positions : Intact(p)

(* A write between its data and its size: the store to come has the data,  *)
(* or the write is known to be in danger.                                  *)
Writing ==
    \A t \in Threads : thread[t].at = "size" =>
       /\ inode.is_dirty \/ inode.is_deleted \/ thread[t].pos \in spoiled
       /\ Storing => thread[t].pos \in spoiled

(* Somebody who is not about to close has a dirty file open.               *)
StaysOpen(f) == IsOpen(f) /\ \A t \in Threads : thread[t].at = "close" => thread[t].file # f

Closing == inode.is_dirty /\ outcome = "none" => \E f \in Files : StaysOpen(f)

IInv == Types /\ Counting /\ Serving /\ Exclusive /\ Bytes /\ Writing /\ Closing
-----------------------------------------------------------------------------
(* Numbers and chunks.                                                     *)

LEMMA BaseFacts ==
    ASSUME NEW p \in Nat
    PROVE  /\ get_base_offset(p) \in Nat
           /\ get_base_offset(p) <= p /\ p < get_base_offset(p) + ChunkSize
<1> DEFINE q == p \div ChunkSize
<1>1. ChunkSize \in Nat /\ ChunkSize > 0
  BY SizesAssumption
<1>2. q \in Nat /\ ChunkSize * q <= p /\ p < ChunkSize * q + ChunkSize
  BY <1>1, SMTT(30)
<1>3. q * ChunkSize = ChunkSize * q /\ q * ChunkSize \in Nat
  BY <1>1, <1>2, SMTT(30)
<1>4. get_base_offset(p) = q * ChunkSize
  BY DEF get_base_offset
<1> HIDE DEF q
<1> QED
  BY <1>1, <1>2, <1>3, <1>4

LEMMA Least ==
    ASSUME NEW T, T \subseteq Nat, T # {}
    PROVE  \E i \in T : \A j \in T : i <= j
<1> DEFINE R == {ss \in Nat \X Nat : ss[1] < ss[2]}
<1>1. IsWellFoundedOn(R, Nat)
  BY NatLessThanWellFounded DEF OpToRel
<1>2. PICK i \in T : \A j \in T : ~ (<<j, i>> \in R)
  <2> HIDE DEF R
  <2> QED BY <1>1, WFMin, Zenon
<1>3. \A j \in T : ~ (j < i)
  BY <1>2 
<1> QED
  BY <1>2, <1>3

LEMMA SizeFacts ==
    /\ ChunkSize \in Nat /\ ChunkSize > 0 /\ MaxSize \in Nat
    /\ \A p \in Positions : p \in Nat /\ p \in Int /\ p < MaxSize
    /\ Sizes \subseteq 0 .. MaxSize
    /\ WriteOffsets \subseteq Positions /\ ReadOffsets \subseteq Positions
    /\ MaxWrites \in Nat /\ Junk \in Byte /\ Original \in Byte /\ Junk # Original
BY SizesAssumption, BoundsAssumption DEF Positions, Byte, Junk, Original

LEMMA InOwnChunk ==
    ASSUME NEW p \in Positions
    PROVE  /\ p \in InChunk(get_base_offset(p)) /\ get_base_offset(p) \in Bases
           /\ \A b : p \in InChunk(b) <=> b = get_base_offset(p)
BY DEF InChunk, Bases

LEMMA DataIsTyped ==
    ASSUME NEW b \in Bases, NEW d \in [InChunk(b) -> Byte]
    PROVE  d \in Datas
BY DEF Datas

LEMMA HoldingFacts ==
    ASSUME Types, NEW b
    PROVE  /\ Holding(b) \subseteq Nat /\ Holding(b) \subseteq 1 .. Len(file_chunks)
           /\ 0 \notin Holding(b)
           /\ DOMAIN file_chunks = 1 .. Len(file_chunks) /\ Len(file_chunks) \in Nat
           /\ \A i \in Holding(b) : /\ i \in DOMAIN file_chunks /\ file_chunks[i].base = b
                                    /\ file_chunks[i].data \in [InChunk(b) -> Byte]
BY DEF Types, Holding

LEMMA FindChunk ==
    ASSUME Types, NEW p \in Positions
    PROVE  /\ find_chunk(p) = 0 <=> Holding(get_base_offset(p)) = {}
           /\ find_chunk(p) # 0 => find_chunk(p) \in Holding(get_base_offset(p))
<1> DEFINE T == Holding(get_base_offset(p))
<1>1. T \subseteq Nat /\ 0 \notin T
  BY HoldingFacts
<1>2. CASE T = {}
  BY <1>2 DEF find_chunk
<1>3. CASE T # {}
  <2>1. \E i \in T : \A j \in T : i <= j
    <3> HIDE DEF T
    <3> QED BY <1>1, <1>3, Least
  <2>2. find_chunk(p) \in T
    BY <1>3, <2>1 DEF find_chunk
  <2> QED
    BY <1>1, <1>3, <2>2
<1> QED
  BY <1>2, <1>3
-----------------------------------------------------------------------------
(* The records.                                                            *)

LEMMA InodeFields ==
    ASSUME Types
    PROVE  /\ inode.filesize \in 0 .. MaxSize /\ inode.on_disk_size \in 0 .. MaxSize
           /\ inode.filesize \in Nat /\ inode.on_disk_size \in Nat
           /\ inode.is_dirty \in BOOLEAN /\ inode.is_deleted \in BOOLEAN
           /\ inode.last_accessed \in BOOLEAN /\ inode.link_count \in 0 .. Cardinality(Names)
           /\ inode.openers \in Nat
BY SizeFacts DEF Types, Inode

LEMMA RecordFields ==
    ASSUME NEW r \in Record
    PROVE  /\ r.op \in {"idle", "open", "getattr", "read", "write", "flush", "release"}
           /\ r.at \in {"idle", "attr", "alloc", "add", "update", "size", "encrypt", "close"}
           /\ r.file \in Files \union {"none"} /\ r.pos \in Nat /\ r.write \in 0 .. MaxWrites
           /\ r.chunk \in Nat /\ r.data \in Datas \union {<<>>} /\ r.size \in 0 .. MaxSize
           /\ r.size \in Nat /\ r.write \in Nat
BY SizeFacts DEF Record

LEMMA IdleFields ==
    /\ Idle \in Record
    /\ Idle.op = "idle" /\ Idle.at = "idle" /\ Idle.file = "none" /\ Idle.pos = 0
    /\ Idle.write = 0 /\ Idle.chunk = 0 /\ Idle.data = <<>> /\ Idle.size = 0
BY SizeFacts DEF Idle, Record

Ops == {"idle", "open", "getattr", "read", "write", "flush", "release"}
Ats == {"idle", "attr", "alloc", "add", "update", "size", "encrypt", "close"}

(* A request that is taken.                                                *)
LEMMA NewRecord ==
    ASSUME NEW o \in Ops, NEW a \in Ats, NEW f \in Files \union {"none"}, NEW s \in 0 .. MaxSize
    PROVE  /\ [Idle EXCEPT !.op = o, !.at = a, !.file = f, !.size = s] \in Record
           /\ [Idle EXCEPT !.op = o, !.at = a, !.file = f] \in Record
           /\ [Idle EXCEPT !.op = o, !.at = a, !.file = f, !.chunk = 1, !.size = s] \in Record
<1> DEFINE x == [Idle EXCEPT !.op = o]
           y == [x EXCEPT !.at = a]
           z == [y EXCEPT !.file = f]
           c == [z EXCEPT !.chunk = 1]
<1>1. x \in Record
  BY IdleFields DEF Record, Ops
<1>2. y \in Record
  BY <1>1 DEF Record, Ats
<1>3. z \in Record
  BY <1>2 DEF Record
<1>4. c \in Record
  BY <1>3 DEF Record
<1>5. [c EXCEPT !.size = s] \in Record /\ [z EXCEPT !.size = s] \in Record
  BY <1>3, <1>4 DEF Record
<1> QED
  BY <1>3, <1>5

LEMMA DiskFields ==
    ASSUME Types
    PROVE  /\ disk.size \in 0 .. MaxSize /\ disk.size \in Nat /\ disk.data \in [Positions -> Byte]
           /\ \A p \in Positions : disk.data[p] \in Byte /\ latest[p] \in Byte
BY SizeFacts DEF Types

(* The point a request has come to tells which request it is.              *)
LEMMA AtMeans ==
    ASSUME Types, Serving, NEW t \in Threads
    PROVE  /\ thread[t].at \in {"update", "size"} => thread[t].op = "write"
           /\ thread[t].at = "add" => thread[t].op \in {"read", "write"}
           /\ thread[t].at = "encrypt" => thread[t].op \in {"flush", "release"}
           /\ thread[t].at = "close" => thread[t].op = "release"
           /\ thread[t].at = "attr" => thread[t].op \in {"open", "getattr"}
           /\ thread[t].at = "alloc" => thread[t].op = "open"
           /\ thread[t].at = "idle" <=> thread[t].op = "idle"
<1>1. thread[t] \in Record
  BY DEF Types
<1>2. Shape(t)
  BY DEF Serving
<1>3. thread[t].op \in {"idle", "open", "getattr", "read", "write", "flush", "release"}
  BY <1>1, RecordFields
<1> QED
  BY <1>2, <1>3 DEF Shape

LEMMA UnsizedFacts ==
    ASSUME Types, Serving
    PROVE  \A p : p \in Unsized <=> \E u \in Threads : thread[u].at = "size" /\ thread[u].pos = p
BY AtMeans DEF Unsized, Writers

LEMMA NobodyElseStores ==
    ASSUME Types, Serving, NEW t \in Threads
    PROVE  /\ lock = NoThread => thread[t].at # "encrypt"
           /\ thread[t].at = "encrypt" => \A u \in Threads : thread[u].at = "encrypt" => u = t
           /\ lock = NoThread <=> ~Storing
<1>1. \A u \in Threads : thread[u].at = "encrypt" <=> lock = u
  BY DEF Serving, AtWork
<1> QED
  BY <1>1, ThreadsAssumption DEF Storing, Types
-----------------------------------------------------------------------------
(* Steps that leave the bytes alone.                                       *)

(* What a request that was just taken, or went on, must know of the bytes. *)
Knows(r) ==
    /\ r.at \in {"attr", "encrypt"} => r.at = "attr" /\ r.size = disk.size
    /\ r.at = "add" => \A p \in Positions :
           (/\ latest[p] # Junk /\ Chunks(p) = {}
            /\ get_base_offset(r.pos) = get_base_offset(p)) => r.data[p] = latest[p]

LEMMA UnsizedStays ==
    ASSUME NEW t \in Threads, NEW r, thread[t].at # "size",
           thread \in [Threads -> Record], thread' = [thread EXCEPT ![t] = r]
    PROVE  Unsized \subseteq Unsized'
<1> SUFFICES ASSUME NEW p \in Unsized PROVE p \in Unsized'
  OBVIOUS
<1>1. PICK u \in Threads : thread[u].op = "write" /\ thread[u].at = "size" /\ thread[u].pos = p
  BY DEF Unsized, Writers
<1>2. thread'[u] = thread[u]
  BY <1>1
<1> QED
  BY <1>1, <1>2 DEF Unsized, Writers

LEMMA BytesFrame ==
    ASSUME Types, Bytes, NEW t \in Threads, NEW r, Knows(r),
           thread' = [thread EXCEPT ![t] = r],
           thread[t].at # "size",
           UNCHANGED <<file_chunks, disk, latest, spoiled>>,
           inode'.filesize = inode.filesize, inode'.on_disk_size = inode.on_disk_size,
           inode.is_dirty \/ inode.is_deleted => inode'.is_dirty \/ inode'.is_deleted,
           Used' => Used
    PROVE  Bytes'
<1> SUFFICES ASSUME NEW p \in Positions PROVE Intact(p)'
  BY DEF Bytes
<1>1. Intact(p)
  BY DEF Bytes
<1>2. thread \in [Threads -> Record]
  BY DEF Types
<1>3. /\ \A u \in Threads : thread'[u] = IF u = t THEN r ELSE thread[u]
  BY <1>2
<1>4. Chunks(p)' = Chunks(p) /\ Doubled(p)' = Doubled(p)
  BY DEF Chunks, Doubled, Holding
<1>5. Unsized \subseteq Unsized'
  BY <1>2, UnsizedStays
<1>6. Untouched(p)'
  BY <1>1, <1>3 DEF Intact, Untouched, Knows
<1>7. Uncached(p)'
  BY <1>1, <1>4 DEF Intact, Uncached
<1>8. FetchedIsCurrent(p)'
  <2> SUFFICES ASSUME NEW u \in Threads, latest[p] # Junk, Chunks(p) = {}, thread'[u].at = "add",
                      get_base_offset(thread'[u].pos) = get_base_offset(p)
               PROVE  thread'[u].data[p] = latest[p]
    BY <1>4 DEF FetchedIsCurrent
  <2>1. CASE u = t
    BY <2>1, <1>3 DEF Knows
  <2>2. CASE u # t
    BY <2>2, <1>1, <1>3 DEF Intact, FetchedIsCurrent
  <2> QED
    BY <2>1, <2>2
<1>9. CachedIsCurrent(p)'
  BY <1>1, <1>4, <1>5 DEF Intact, CachedIsCurrent
<1>10. Sized(p)' /\ Safe(p)'
  BY <1>1, <1>4 DEF Intact, Sized, Safe
<1>11. StoredSoFar(p)'
  BY <1>1, <1>3, <1>4 DEF Intact, StoredSoFar, Knows
<1> QED
  BY <1>6, <1>7, <1>8, <1>9, <1>10, <1>11 DEF Intact

(* The other threads, in a step of t.                                      *)
LEMMA OthersStay ==
    ASSUME Types, Serving, NEW t \in Threads, NEW r,
           thread' = [thread EXCEPT ![t] = r],
           UNCHANGED file_chunks,
           \A u \in Threads \ {t} : lock' = u <=> lock = u,
           inode.last_accessed => inode'.last_accessed,
           lock \in Threads \ {t} /\ inode.is_dirty => inode'.is_dirty,
           \A u \in Threads \ {t} : thread[u].op \notin {"idle", "getattr"} =>
               (IsOpen(thread[u].file)' <=> IsOpen(thread[u].file))
    PROVE  \A u \in Threads \ {t} : Shape(u)' /\ AtWork(u)'
<1> SUFFICES ASSUME NEW u \in Threads \ {t} PROVE Shape(u)' /\ AtWork(u)'
  OBVIOUS
<1>1. thread'[u] = thread[u] /\ Shape(u) /\ AtWork(u)
  BY DEF Types, Serving
<1>2. thread[u].op \notin {"idle", "getattr"} => (IsOpen(thread[u].file)' <=> IsOpen(thread[u].file))
  BY <1>1
<1>3. \A b : Holding(b)' = Holding(b)
  BY DEF Holding
<1>4. Shape(u)'
  BY <1>1, <1>2 DEF Shape
<1>5. AtWork(u)'
  BY <1>1, <1>3 DEF AtWork
<1> QED
  BY <1>4, <1>5

LEMMA OthersFrame ==
    ASSUME Types, Serving, NEW t \in Threads, NEW r,
           thread' = [thread EXCEPT ![t] = r],
           UNCHANGED file_chunks,
           \A u \in Threads \ {t} : lock' = u <=> lock = u,
           inode.last_accessed => inode'.last_accessed,
           lock \in Threads \ {t} /\ inode.is_dirty => inode'.is_dirty,
           UNCHANGED files
    PROVE  \A u \in Threads \ {t} : Shape(u)' /\ AtWork(u)'
<1>1. \A u \in Threads \ {t} : IsOpen(thread[u].file)' <=> IsOpen(thread[u].file)
  BY DEF IsOpen, Types
<1> QED
  BY <1>1, OthersStay

LEMMA ExclusiveFrame ==
    ASSUME Types, Exclusive, NEW t \in Threads, NEW r,
           thread' = [thread EXCEPT ![t] = r],
           \A u \in Threads \ {t} : Apart(r, thread[u]) /\ Apart(thread[u], r)
    PROVE  Exclusive'
BY DEF Types, Exclusive

(* A request that goes on with its handle, or ends, stays apart.           *)
LEMMA GoesOn ==
    ASSUME Types, Exclusive, NEW t \in Threads, NEW r,
           thread' = [thread EXCEPT ![t] = r],
           r.op = "idle" \/ (r.op = thread[t].op /\ r.file = thread[t].file)
    PROVE  Exclusive'
<1>1. \A u \in Threads \ {t} : Apart(thread[t], thread[u]) /\ Apart(thread[u], thread[t])
  BY DEF Exclusive
<1>2. \A u \in Threads \ {t} : Apart(r, thread[u]) /\ Apart(thread[u], r)
  BY <1>1 DEF Apart
<1> QED
  BY <1>2, ExclusiveFrame

LEMMA WritingFrame ==
    ASSUME Types, Writing, NEW t \in Threads, NEW r,
           thread' = [thread EXCEPT ![t] = r],
           r.at # "size", Storing' => Storing,
           inode.is_dirty \/ inode.is_deleted => inode'.is_dirty \/ inode'.is_deleted,
           spoiled \subseteq spoiled'
    PROVE  Writing'
<1>1. \A u \in Threads : thread'[u] = IF u = t THEN r ELSE thread[u]
  BY DEF Types
<1> QED
  BY <1>1 DEF Writing

LEMMA StoringFrame ==
    ASSUME Types, NEW t \in Threads, NEW r, r.at # "encrypt",
           thread' = [thread EXCEPT ![t] = r]
    PROVE  Storing' => Storing
<1>1. \A u \in Threads : thread'[u] = IF u = t THEN r ELSE thread[u]
  BY DEF Types
<1> QED
  BY <1>1 DEF Storing

LEMMA ClosingFrame ==
    ASSUME Types, Closing, NEW t \in Threads, NEW r,
           thread' = [thread EXCEPT ![t] = r], r.at # "close",
           inode'.is_dirty /\ outcome' = "none" => inode.is_dirty /\ outcome = "none",
           \A f \in Files : IsOpen(f) => IsOpen(f)'
    PROVE  Closing'
<1>1. \A u \in Threads : thread'[u] = IF u = t THEN r ELSE thread[u]
  BY DEF Types
<1> QED
  BY <1>1 DEF Closing, StaysOpen
-----------------------------------------------------------------------------
(* Attributes.                                                             *)

LEMMA LinkCountFits ==
    ASSUME Types, Counting
    PROVE  LinkCount \in 0 .. Cardinality(Names)
<1>1. Paths \subseteq Names
  BY DEF Types, Paths
<1>2. Cardinality(Paths) <= Cardinality(Names) /\ Cardinality(Names) \in Nat
  BY <1>1, FilesAssumption, FS_Subset, FS_CardinalityType
<1>3. Len(names) \in Nat
  BY DEF Types
<1> QED
  BY <1>2, <1>3 DEF LinkCount, Counting

LEMMA CountingFrame ==
    ASSUME Counting, inode'.openers = inode.openers, UNCHANGED <<files, names>>
    PROVE  Counting'
BY DEF Counting, OpenFiles, IsOpen, Paths

LEMMA GetattrStep ==
    ASSUME IInv, NEW t \in Threads, NEW op, NEW f, nexus_fuse_getattr(t, op, f),
           \/ op = "getattr" /\ f = "none"
           \/ op = "open" /\ f \in Files /\ ~IsOpen(f) /\ ~Busy(f, {"open"})
    PROVE  IInv'
<1> DEFINE a == [Idle EXCEPT !.op = op, !.at = "alloc", !.file = f]
           b == [Idle EXCEPT !.op = op, !.at = "attr", !.file = f, !.size = disk.size]
<1>1. UNCHANGED <<file_chunks, lock, leaked, files, disk, names, writes, events, latest, spoiled, outcome>>
  BY DEF nexus_fuse_getattr, mutexes, volume, bounds, history
<1>2. Types /\ Counting /\ Serving /\ Exclusive /\ Bytes /\ Writing /\ Closing
  BY DEF IInv
<1>3. thread[t] = Idle /\ thread \in [Threads -> Record]
  BY <1>2 DEF nexus_fuse_getattr, Types
<1>4. disk.size \in 0 .. MaxSize
  BY <1>2, DiskFields
<1>5. ASSUME NEW r \in Record, thread' = [thread EXCEPT ![t] = r], r.op = op, r.file = f,
             r.at \in {"alloc", "attr"}, r.at = "attr" => r.size = disk.size,
             r.at = "alloc" => inode.last_accessed /\ op = "open",
             inode' = inode \/ inode' = [inode EXCEPT !.link_count = LinkCount]
      PROVE  IInv'
  <2>1. inode' \in Inode
    BY <1>2, <1>5, LinkCountFits DEF Types, Inode
  <2>2. /\ inode'.filesize = inode.filesize /\ inode'.on_disk_size = inode.on_disk_size
        /\ inode'.is_dirty = inode.is_dirty /\ inode'.is_deleted = inode.is_deleted
        /\ inode'.last_accessed = inode.last_accessed /\ inode'.openers = inode.openers
    BY <1>2, <1>5 DEF Types, Inode
  <2>3. thread' \in [Threads -> Record] /\ thread'[t] = r
    BY <1>3, <1>5
  <2>4. Types'
    BY <1>1, <1>2, <2>1, <2>3 DEF Types
  <2>5. Counting'
    BY <1>1, <1>2, <2>2, CountingFrame
  <2>6. IsOpen(f)' = IsOpen(f)
    BY <1>1 DEF IsOpen
  <2>7. lock # t
    BY <1>2, <1>3, IdleFields DEF Serving, AtWork
  <2>8. Shape(t)' /\ AtWork(t)'
    BY <1>1, <1>5, <2>2, <2>3, <2>6, <2>7 DEF Shape, AtWork
  <2>9. Serving'
    <3>1. \A u \in Threads \ {t} : Shape(u)' /\ AtWork(u)'
      BY <1>1, <1>2, <1>5, <2>2, OthersFrame
    <3> QED
      BY <2>8, <3>1 DEF Serving
  <2>10. Exclusive'
    <3>1. \A u \in Threads \ {t} : Apart(r, thread[u]) /\ Apart(thread[u], r)
      BY <1>5 DEF Apart, Busy
    <3> QED
      BY <1>2, <1>5, <3>1, ExclusiveFrame
  <2>11. Bytes'
    <3>1. Used' => Used
      BY <1>1, <2>2 DEF Used, IsOpen
    <3>2. Knows(r)
      BY <1>5 DEF Knows
    <3>3. thread[t].at # "size"
      BY <1>3, IdleFields
    <3> QED
      BY <1>1, <1>2, <1>5, <2>2, <3>1, <3>2, <3>3, BytesFrame
  <2>12. Writing'
    <3>1. Storing' => Storing
      BY <1>2, <1>5, StoringFrame
    <3> QED
      BY <1>1, <1>2, <1>5, <2>2, <3>1, WritingFrame
  <2>13. Closing'
    <3>1. \A g \in Files : IsOpen(g) => IsOpen(g)'
      BY <1>1 DEF IsOpen
    <3> QED
      BY <1>1, <1>2, <1>5, <2>2, <3>1, ClosingFrame
  <2> QED
    BY <2>4, <2>5, <2>9, <2>10, <2>11, <2>12, <2>13 DEF IInv
<1>6. f \in Files \union {"none"} /\ op \in {"open", "getattr"}
  OBVIOUS
<1>7. CASE inode.last_accessed /\ op = "open" /\ Takes(t, a) /\ UNCHANGED inode
  <2>1. a \in Record /\ a.op = op /\ a.file = f /\ a.at = "alloc"
    <3>1. op \in Ops /\ "alloc" \in Ats /\ 0 \in 0 .. MaxSize
      BY <1>6, SizeFacts DEF Ops, Ats
    <3>2. a \in Record
      BY <1>6, <3>1, NewRecord
    <3> QED
      BY <3>2, IdleFields DEF Record
  <2>2. thread' = [thread EXCEPT ![t] = a]
    BY <1>7 DEF Takes
  <2> HIDE DEF a
  <2> QED
    BY <1>5, <1>7, <2>1, <2>2
<1>8. CASE inode' = [inode EXCEPT !.link_count = LinkCount] /\ Takes(t, b)
  <2>1. b \in Record /\ b.op = op /\ b.file = f /\ b.at = "attr" /\ b.size = disk.size
    <3>1. op \in Ops /\ "attr" \in Ats
      BY <1>6 DEF Ops, Ats
    <3>2. b \in Record
      BY <1>4, <1>6, <3>1, NewRecord
    <3> QED
      BY <3>2, IdleFields DEF Record
  <2>2. thread' = [thread EXCEPT ![t] = b]
    BY <1>8 DEF Takes
  <2> HIDE DEF b
  <2> QED
    BY <1>5, <1>8, <2>1, <2>2
<1> QED
  BY <1>7, <1>8 DEF nexus_fuse_getattr

(* A request goes on: only its point changes.                              *)
Going(t, a) == [thread[t] EXCEPT !.at = a]

LEMMA GoesFacts ==
    ASSUME Types, NEW t \in Threads, NEW a \in Ats, Goes(t, a)
    PROVE  /\ thread' = [thread EXCEPT ![t] = Going(t, a)] /\ Going(t, a) \in Record
           /\ Going(t, a).at = a /\ Going(t, a).op = thread[t].op /\ Going(t, a).file = thread[t].file
           /\ Going(t, a).pos = thread[t].pos /\ Going(t, a).write = thread[t].write
           /\ Going(t, a).chunk = thread[t].chunk /\ Going(t, a).data = thread[t].data
           /\ Going(t, a).size = thread[t].size
<1>1. thread[t] \in Record /\ thread \in [Threads -> Record]
  BY DEF Types
<1>2. thread' = [thread EXCEPT ![t] = Going(t, a)]
  BY <1>1 DEF Goes, Going
<1>3. Going(t, a) \in Record
  BY <1>1 DEF Going, Record, Ats
<1> QED
  BY <1>1, <1>2, <1>3 DEF Going, Record

LEMMA SetAttrStep ==
    ASSUME IInv, NEW t \in Threads, SetAttr(t)
    PROVE  IInv'
<1> DEFINE size   == thread[t].size
           adopts == ~inode.last_accessed /\ ~inode.is_dirty
<1>1. UNCHANGED <<file_chunks, lock, leaked, files, disk, names, writes, events, latest, outcome>>
  BY DEF SetAttr, mutexes, volume, bounds
<1>2. Types /\ Counting /\ Serving /\ Exclusive /\ Bytes /\ Writing /\ Closing
  BY DEF IInv
<1>3. /\ thread[t].at = "attr" /\ thread[t].op \in {"open", "getattr"}
      /\ thread \in [Threads -> Record] /\ thread[t] \in Record
  BY <1>2 DEF SetAttr, Serves, Types
<1>4. size \in 0 .. MaxSize /\ size \in Nat
  BY <1>3, RecordFields
<1>5. /\ inode' = [inode EXCEPT !.filesize = IF adopts THEN size ELSE @,
                                !.on_disk_size = size, !.last_accessed = TRUE]
      /\ spoiled' = spoiled \union {p \in Positions : adopts /\ p >= size /\ latest[p] # Junk}
  BY DEF SetAttr
<1>6. /\ inode' \in Inode
      /\ inode'.filesize = IF adopts THEN size ELSE inode.filesize
      /\ inode'.on_disk_size = size /\ inode'.last_accessed = TRUE
      /\ inode'.is_dirty = inode.is_dirty /\ inode'.is_deleted = inode.is_deleted
      /\ inode'.openers = inode.openers
  BY <1>2, <1>4, <1>5 DEF Types, Inode
<1>7. PICK r \in Record : /\ thread' = [thread EXCEPT ![t] = r]
                          /\ \/ r = Idle
                             \/ /\ r.op = "open" /\ r.at = "alloc" /\ r.file = thread[t].file
                                /\ thread[t].op = "open"
  <2>1. "alloc" \in Ats
    BY DEF Ats
  <2>2. CASE thread[t].op = "open" /\ Goes(t, "alloc")
    BY <1>2, <2>1, <2>2, GoesFacts
  <2>3. CASE Replies(t)
    BY <2>3, IdleFields DEF Replies
  <2> QED
    BY <2>2, <2>3 DEF SetAttr
<1>8. \A u \in Threads : thread'[u] = IF u = t THEN r ELSE thread[u]
  BY <1>3, <1>7
<1>9. r.op \in {"idle", "open"} /\ r.at \in {"idle", "alloc"}
  BY <1>7, IdleFields
<1>10. Types'
  <2>1. thread' \in [Threads -> Record] /\ spoiled' \subseteq Positions
    BY <1>2, <1>3, <1>5, <1>7 DEF Types
  <2> QED
    BY <1>1, <1>2, <1>6, <2>1 DEF Types
<1>11. Counting'
  BY <1>1, <1>2, <1>6, CountingFrame
<1>12. Serving'
  <2>1. \A u \in Threads \ {t} : Shape(u)' /\ AtWork(u)'
    BY <1>1, <1>2, <1>6, <1>7, OthersFrame
  <2>2. lock # t
    BY <1>2, <1>3 DEF Serving, AtWork
  <2>3. Shape(t)
    BY <1>2 DEF Serving
  <2>4. Shape(t)'
    BY <1>1, <1>7, <1>8, <1>9, <2>3, IdleFields DEF Shape, IsOpen
  <2>5. AtWork(t)'
    BY <1>1, <1>6, <1>8, <1>9, <2>2 DEF AtWork
  <2> QED
    BY <2>1, <2>4, <2>5 DEF Serving
<1>13. Exclusive'
  <2>1. r.op = "idle" \/ (r.op = thread[t].op /\ r.file = thread[t].file)
    BY <1>7, IdleFields
  <2> QED
    BY <1>2, <1>7, <2>1, GoesOn
<1>14. Bytes'
  <2> SUFFICES ASSUME NEW p \in Positions PROVE Intact(p)'
    BY DEF Bytes
  <2>1. Intact(p)
    BY <1>2 DEF Bytes
  <2>2. Chunks(p)' = Chunks(p) /\ Doubled(p)' = Doubled(p)
    BY <1>1 DEF Chunks, Doubled, Holding
  <2>3. Unsized \subseteq Unsized'
    BY <1>3, <1>7, UnsizedStays
  <2>4. p \in Nat
    BY SizeFacts
  <2>5. adopts \/ Used
    BY DEF Used
  <2>6. Untouched(p)'
    <3> SUFFICES ASSUME latest[p] = Original PROVE Untouched(p)'
      BY <1>1 DEF Untouched
    <3>1. p < disk.size /\ p < size /\ (Used => p < inode.filesize)
      BY <2>1, <1>3 DEF Intact, Untouched
    <3>2. \A u \in Threads : thread'[u].at \in {"attr", "encrypt"} => p < thread'[u].size
      BY <1>8, <1>9, <2>1 DEF Intact, Untouched
    <3>3. p < inode'.filesize /\ p < inode'.on_disk_size
      BY <1>6, <2>5, <3>1
    <3> QED
      BY <1>1, <3>1, <3>2, <3>3 DEF Untouched
  <2>7. Uncached(p)'
    BY <1>1, <2>1, <2>2 DEF Intact, Uncached
  <2>8. FetchedIsCurrent(p)'
    BY <1>1, <1>8, <1>9, <2>1, <2>2 DEF Intact, FetchedIsCurrent
  <2>9. CachedIsCurrent(p)'
    BY <1>1, <2>1, <2>2, <2>3 DEF Intact, CachedIsCurrent
  <2>10. Sized(p)'
    <3>1. CASE adopts
      BY <1>1, <1>4, <1>5, <1>6, <2>4, <3>1 DEF Sized
    <3>2. CASE Used /\ ~adopts
      BY <1>1, <1>5, <1>6, <2>1, <3>2 DEF Intact, Sized
    <3> QED
      BY <2>5, <3>1, <3>2
  <2>11. Safe(p)'
    BY <1>1, <1>5, <1>6, <2>1, <2>2 DEF Intact, Safe
  <2>12. StoredSoFar(p)'
    BY <1>1, <1>5, <1>8, <1>9, <2>1, <2>2 DEF Intact, StoredSoFar
  <2> QED
    BY <2>6, <2>7, <2>8, <2>9, <2>10, <2>11, <2>12 DEF Intact
<1>15. Writing'
  <2>1. Storing' => Storing
    BY <1>2, <1>7, <1>9, StoringFrame
  <2> QED
    BY <1>2, <1>5, <1>6, <1>7, <1>9, <2>1, WritingFrame
<1>16. Closing'
  <2>1. \A g \in Files : IsOpen(g) => IsOpen(g)'
    BY <1>1 DEF IsOpen
  <2> QED
    BY <1>1, <1>2, <1>6, <1>7, <1>9, <2>1, ClosingFrame
<1> QED
  BY <1>10, <1>11, <1>12, <1>13, <1>14, <1>15, <1>16 DEF IInv

LEMMA OpenHandles ==
    ASSUME Types, Counting
    PROVE  /\ IsFiniteSet(OpenFiles) /\ Cardinality(OpenFiles) \in Nat /\ OpenFiles \subseteq Files
           /\ inode.openers = Cardinality(OpenFiles)
           /\ \A f \in Files : f \in OpenFiles <=> IsOpen(f)
<1>1. OpenFiles \subseteq Files
  BY DEF OpenFiles
<1>2. IsFiniteSet(OpenFiles)
  BY <1>1, FilesAssumption, FS_Subset
<1> QED
  BY <1>1, <1>2, FS_CardinalityType DEF OpenFiles, Counting

LEMMA file_openStep ==
    ASSUME IInv, NEW t \in Threads, file_open(t)
    PROVE  IInv'
<1> DEFINE f == thread[t].file
<1>1. /\ UNCHANGED <<file_chunks, lock, leaked, disk, names, writes, events, latest, spoiled, outcome>>
      /\ thread' = [thread EXCEPT ![t] = Idle]
  BY DEF file_open, mutexes, volume, bounds, history, Replies
<1>2. Types /\ Counting /\ Serving /\ Exclusive /\ Bytes /\ Writing /\ Closing
  BY DEF IInv
<1>3. /\ thread[t].at = "alloc" /\ thread[t].op = "open"
      /\ thread \in [Threads -> Record] /\ thread[t] \in Record
  BY <1>2 DEF file_open, Serves, Types
<1>4. f \in Files /\ ~IsOpen(f) /\ inode.last_accessed /\ lock # t
  BY <1>2, <1>3 DEF Serving, Shape, AtWork
<1>5. /\ inode' = [inode EXCEPT !.openers = @ + 1]
      /\ \E n \in Names : n # Closed /\ files' = [files EXCEPT ![f] = n]
  <2>1. names # <<>>
    BY DEF file_open
  <2>2. Head(names) \in Names
    BY <1>2, <2>1 DEF Types
  <2>3. Head(names) # Closed
    BY <2>2, FilesAssumption DEF Closed
  <2> QED
    BY <2>2, <2>3 DEF file_open
<1>6. /\ inode' \in Inode
      /\ inode'.filesize = inode.filesize /\ inode'.on_disk_size = inode.on_disk_size
      /\ inode'.is_dirty = inode.is_dirty /\ inode'.is_deleted = inode.is_deleted
      /\ inode'.last_accessed = inode.last_accessed
  <2>1. inode \in Inode /\ inode.openers + 1 \in Nat
    BY <1>2, InodeFields DEF Types
  <2>2. PICK k \in Nat : inode' = [inode EXCEPT !.openers = k]
    BY <1>5, <2>1
  <2> QED
    BY <2>1, <2>2 DEF Inode
<1>7. /\ files' \in [Files -> Names \union {Closed}]
      /\ \A g \in Files \ {f} : files'[g] = files[g]
      /\ \A g \in Files : IsOpen(g) => IsOpen(g)'
      /\ \A g \in Files \ {f} : IsOpen(g)' <=> IsOpen(g)
  BY <1>2, <1>4, <1>5 DEF Types, IsOpen
<1>8. \A u \in Threads : thread'[u] = IF u = t THEN Idle ELSE thread[u]
  BY <1>1, <1>3
<1>9. Types'
  <2>1. thread' \in [Threads -> Record]
    BY <1>1, <1>3, IdleFields
  <2> QED
    BY <1>1, <1>2, <1>6, <1>7, <2>1 DEF Types
<1>10. Counting'
  <2>1. OpenFiles' = OpenFiles \union {f} /\ f \notin OpenFiles
    BY <1>2, <1>4, <1>5, <1>7 DEF OpenFiles, IsOpen, Types
  <2>2. Cardinality(OpenFiles') = Cardinality(OpenFiles) + 1
    BY <1>2, <2>1, OpenHandles, FS_AddElement
  <2>3. inode'.openers = inode.openers + 1
    BY <1>2, <1>5 DEF Types, Inode
  <2> QED
    BY <1>1, <1>2, <2>2, <2>3 DEF Counting, Paths
<1>11. Serving'
  <2>1. ASSUME NEW u \in Threads \ {t}, thread[u].op \notin {"idle", "getattr"}
        PROVE  IsOpen(thread[u].file)' <=> IsOpen(thread[u].file)
    <3>1. Shape(u) /\ Apart(thread[t], thread[u])
      BY <1>2 DEF Serving, Exclusive
    <3>2. thread[u] \in Record /\ thread'[u] = thread[u]
      BY <1>3, <1>8
    <3>3. thread[u].file \in Files
      BY <3>1, <3>2, <2>1, RecordFields DEF Shape
    <3>4. CASE thread[u].op = "open"
      <4>1. thread[u].file # f
        BY <1>3, <3>1, <3>4 DEF Apart
      <4> QED
        BY <1>7, <3>2, <3>3, <4>1 DEF IsOpen
    <3>5. CASE thread[u].op # "open"
      <4>1. IsOpen(thread[u].file)
        BY <2>1, <3>1, <3>2, <3>5, RecordFields DEF Shape
      <4> QED
        BY <1>7, <3>2, <3>3, <4>1 DEF IsOpen
    <3> QED
      BY <3>4, <3>5
  <2>2. \A u \in Threads \ {t} : Shape(u)' /\ AtWork(u)'
    BY <1>1, <1>2, <1>6, <2>1, OthersStay
  <2>3. Shape(t)' /\ AtWork(t)'
    BY <1>1, <1>4, <1>8, IdleFields DEF Shape, AtWork
  <2> QED
    BY <2>2, <2>3 DEF Serving
<1>12. Exclusive'
  BY <1>1, <1>2, IdleFields, GoesOn
<1>13. Bytes'
  <2>1. Used
    BY <1>4 DEF Used
  <2>2. Knows(Idle)
    BY IdleFields DEF Knows
  <2> QED
    BY <1>1, <1>2, <1>3, <1>6, <2>1, <2>2, BytesFrame
<1>14. Writing'
  <2>1. Storing' => Storing
    BY <1>1, <1>2, IdleFields, StoringFrame
  <2> QED
    BY <1>1, <1>2, <1>6, <2>1, IdleFields, WritingFrame
<1>15. Closing'
  BY <1>1, <1>2, <1>6, <1>7, IdleFields, ClosingFrame
<1> QED
  BY <1>9, <1>10, <1>11, <1>12, <1>13, <1>14, <1>15 DEF IInv
-----------------------------------------------------------------------------
(* Writes and reads.                                                       *)

LEMMA FetchedFits ==
    ASSUME Types, Bytes, Used, NEW p \in Positions, NEW b, b = get_base_offset(p),
           latest[p] # Junk, Chunks(p) = {}
    PROVE  NeedsFetch(b) /\ Fetched(b)[p] = latest[p]
<1>1. Intact(p)
  BY DEF Bytes
<1>2. latest[p] = Original /\ disk.data[p] = Original
  BY <1>1 DEF Intact, Uncached
<1>3. p < disk.size /\ p < inode.filesize /\ p < inode.on_disk_size
  BY <1>1, <1>2 DEF Intact, Untouched
<1>4. /\ p \in Nat /\ b \in Nat /\ b <= p /\ p < b + ChunkSize
      /\ inode.filesize \in Nat /\ inode.on_disk_size \in Nat /\ disk.size \in Nat /\ ChunkSize \in Nat
  BY SizeFacts, BaseFacts, InodeFields, DiskFields
<1>5. p < b + ChunkBytes(b) /\ ChunkBytes(b) \in Nat
  BY <1>3, <1>4 DEF ChunkBytes, min
<1>6. p < min(b + ChunkBytes(b), disk.size)
  BY <1>3, <1>4, <1>5 DEF min
<1>7. p \in InChunk(b)
  BY InOwnChunk
<1>8. NeedsFetch(b)
  BY <1>3, <1>4 DEF NeedsFetch
<1> QED
  BY <1>2, <1>6, <1>7, <1>8 DEF Fetched

LEMMA LoadedFits ==
    ASSUME Types, Bytes, Used, NEW q \in Record, q.pos \in Positions, NEW r, r = LoadChunk(q)
    PROVE  /\ r \in Record /\ r.op = q.op /\ r.file = q.file /\ r.pos = q.pos /\ r.write = q.write
           /\ r.at \in {"update", "add"} /\ Knows(r)
           /\ find_chunk(q.pos) = 0 => r.at = "add"
           /\ r.at = "update" => r.chunk \in Holding(get_base_offset(q.pos))
           /\ r.at = "add" => r.data \in [InChunk(get_base_offset(q.pos)) -> Byte]
<1> DEFINE b == get_base_offset(q.pos)
           i == find_chunk(q.pos)
           d == IF NeedsFetch(b) THEN Fetched(b) ELSE [p \in InChunk(b) |-> Junk]
<1>1. CASE i # 0
  <2>1. i \in Holding(b) /\ i \in Nat
    BY <1>1, FindChunk, HoldingFacts
  <2>2. r = [q EXCEPT !.at = "update", !.chunk = i]
    BY <1>1 DEF LoadChunk
  <2>5. find_chunk(q.pos) # 0
    BY <1>1
  <2> HIDE DEF i
  <2>3. /\ r \in Record /\ r.op = q.op /\ r.file = q.file /\ r.pos = q.pos /\ r.write = q.write
        /\ r.at = "update" /\ r.chunk = i
    BY <2>1, <2>2 DEF Record
  <2>4. Knows(r)
    BY <2>3 DEF Knows
  <2> QED
    BY <2>1, <2>3, <2>4, <2>5
<1>2. CASE i = 0
  <2>1. r = [q EXCEPT !.at = "add", !.data = d]
    BY <1>2 DEF LoadChunk
  <2>2. d \in [InChunk(b) -> Byte]
    <3>1. \A p \in InChunk(b) : disk.data[p] \in Byte
      BY DiskFields DEF InChunk
    <3> QED
      BY <3>1, SizeFacts DEF Fetched
  <2>3. d \in Datas
    <3>1. b \in Bases
      BY InOwnChunk
    <3> HIDE DEF d, b
    <3> QED
      BY <2>2, <3>1, DataIsTyped
  <2>4. ASSUME NEW p \in Positions, latest[p] # Junk, Chunks(p) = {}, b = get_base_offset(p)
        PROVE  d[p] = latest[p]
    <3>1. NeedsFetch(b) /\ Fetched(b)[p] = latest[p]
      <4> HIDE DEF b
      <4> QED
        BY <2>4, FetchedFits
    <3> QED
      BY <3>1
  <2> HIDE DEF d
  <2>5. /\ r \in Record /\ r.op = q.op /\ r.file = q.file /\ r.pos = q.pos /\ r.write = q.write
        /\ r.at = "add" /\ r.data = d
    BY <2>1, <2>3 DEF Record
  <2>6. Knows(r)
    BY <2>4, <2>5 DEF Knows
  <2> QED
    BY <2>2, <2>5, <2>6
<1> QED
  BY <1>1, <1>2

LEMMA TransferStarts ==
    ASSUME IInv, NEW t \in Threads, thread[t] = Idle,
           NEW q \in Record, q.op \in {"read", "write"}, q.pos \in Positions, q.file \in Files,
           IsOpen(q.file), ~Busy(q.file, {"release"}),
           q.op = "write" => q.write > 0 /\ Writers = {},
           q.op = "read" => find_chunk(q.pos) = 0,
           Takes(t, LoadChunk(q)), writes' \in 0 .. MaxWrites,
           UNCHANGED <<cache, mutexes, files, volume, events, history>>
    PROVE  IInv'
<1>1. UNCHANGED <<inode, file_chunks, lock, leaked, files, disk, names, events, latest, spoiled, outcome>>
  BY DEF cache, mutexes, volume, history
<1>2. Types /\ Counting /\ Serving /\ Exclusive /\ Bytes /\ Writing /\ Closing
  BY DEF IInv
<1>3. Used /\ Used' = Used
  BY <1>1 DEF Used, IsOpen
<1>4. PICK r \in Record :
        /\ thread' = [thread EXCEPT ![t] = r]
        /\ r.op = q.op /\ r.file = q.file /\ r.pos = q.pos /\ r.write = q.write
        /\ r.at \in {"update", "add"} /\ Knows(r)
        /\ r.at = "update" => r.chunk \in Holding(get_base_offset(q.pos))
        /\ r.at = "add" => r.data \in [InChunk(get_base_offset(q.pos)) -> Byte]
        /\ find_chunk(q.pos) = 0 => r.at = "add"
  <2> DEFINE r == LoadChunk(q)
  <2>1. thread' = [thread EXCEPT ![t] = r]
    BY DEF Takes
  <2> HIDE DEF r
  <2>2. r = LoadChunk(q)
    BY DEF r
  <2> QED
    BY <1>2, <1>3, <2>1, <2>2, LoadedFits
<1>5. thread \in [Threads -> Record]
  BY <1>2 DEF Types
<1>6. thread'[t] = r /\ thread' \in [Threads -> Record] /\ thread[t].at = "idle" /\ thread[t].op = "idle"
  BY <1>4, <1>5, IdleFields
<1>7. Types'
  BY <1>1, <1>2, <1>6 DEF Types
<1>8. Counting'
  BY <1>1, <1>2, CountingFrame
<1>9. Serving'
  <2>1. \A u \in Threads \ {t} : Shape(u)' /\ AtWork(u)'
    BY <1>1, <1>2, <1>4, OthersFrame
  <2>2. lock # t
    BY <1>2, <1>6 DEF Serving, AtWork
  <2>3. Shape(t)'
    BY <1>1, <1>4, <1>6 DEF Shape, IsOpen
  <2>4. AtWork(t)'
    BY <1>1, <1>4, <1>6, <2>2 DEF AtWork, Holding
  <2> QED
    BY <2>1, <2>3, <2>4 DEF Serving
<1>10. Exclusive'
  <2>1. \A u \in Threads : thread[u].op = "release" => thread[u].file # q.file
    BY DEF Busy
  <2>2. r.op = "write" => \A u \in Threads : thread[u].op # "write"
    BY <1>4 DEF Writers
  <2>3. \A u \in Threads \ {t} : Apart(r, thread[u]) /\ Apart(thread[u], r)
    BY <1>4, <2>1, <2>2 DEF Apart
  <2> QED
    BY <1>2, <1>4, <2>3, ExclusiveFrame
<1>11. Bytes'
  BY <1>1, <1>2, <1>3, <1>4, <1>6, BytesFrame
<1>12. Writing'
  <2>1. Storing' => Storing
    BY <1>2, <1>4, StoringFrame
  <2> QED
    BY <1>1, <1>2, <1>4, <2>1, WritingFrame
<1>13. Closing'
  <2>1. \A g \in Files : IsOpen(g) => IsOpen(g)'
    BY <1>1 DEF IsOpen
  <2> QED
    BY <1>1, <1>2, <1>4, <2>1, ClosingFrame
<1> QED
  BY <1>7, <1>8, <1>9, <1>10, <1>11, <1>12, <1>13 DEF IInv

LEMMA nxs_fuse_writeStep ==
    ASSUME IInv, NEW t \in Threads, NEW f \in Files, NEW pos \in WriteOffsets,
           nxs_fuse_write(t, f, pos)
    PROVE  IInv'
<1> DEFINE q == [Idle EXCEPT !.op = "write", !.file = f, !.pos = pos, !.write = writes + 1]
<1>1. writes \in 0 .. MaxWrites /\ writes < MaxWrites /\ writes' = writes + 1
  BY DEF IInv, Types, nxs_fuse_write
<1>2. pos \in Positions /\ pos \in Nat /\ writes + 1 \in 0 .. MaxWrites /\ writes + 1 > 0
  BY <1>1, SizeFacts
<1>3. /\ q \in Record /\ q.op = "write" /\ q.file = f /\ q.pos = pos /\ q.write = writes + 1
  <2>1. q \in Record
    BY <1>2, IdleFields DEF Record
  <2> QED
    BY <2>1, IdleFields DEF Record
<1>4. ~Busy(f, {"release"})
  BY DEF nxs_fuse_write, Busy
<1>5. Takes(t, LoadChunk(q)) /\ UNCHANGED <<cache, mutexes, files, volume, events, history>>
  BY DEF nxs_fuse_write
<1>6. thread[t] = Idle /\ IsOpen(f) /\ Writers = {}
  BY DEF nxs_fuse_write
<1> HIDE DEF q
<1> QED
  BY <1>1, <1>2, <1>3, <1>4, <1>5, <1>6, TransferStarts

LEMMA nxs_fuse_readStep ==
    ASSUME IInv, NEW t \in Threads, NEW f \in Files, NEW pos \in ReadOffsets,
           nxs_fuse_read(t, f, pos)
    PROVE  IInv'
<1> DEFINE q == [Idle EXCEPT !.op = "read", !.file = f, !.pos = pos]
<1>1. pos \in Positions /\ pos \in Nat
  BY SizeFacts
<1>2. q \in Record /\ q.op = "read" /\ q.file = f /\ q.pos = pos
  <2>1. q \in Record
    BY <1>1, IdleFields DEF Record
  <2> QED
    BY <2>1, IdleFields DEF Record
<1>3. ~Busy(f, {"release"})
  BY DEF nxs_fuse_read, Busy
<1>4. /\ Takes(t, LoadChunk(q)) /\ UNCHANGED <<cache, mutexes, files, volume, events, history>>
      /\ writes' = writes /\ writes \in 0 .. MaxWrites
  BY DEF nxs_fuse_read, bounds, IInv, Types
<1>5. thread[t] = Idle /\ IsOpen(f) /\ find_chunk(pos) = 0
  BY DEF nxs_fuse_read
<1> HIDE DEF q
<1> QED
  BY <1>1, <1>2, <1>3, <1>4, <1>5, TransferStarts

(* The list of chunks grows at its end.                                    *)
LEMMA AppendedChunk ==
    ASSUME Types, NEW c \in Chunk, c.data \in [InChunk(c.base) -> Byte],
           file_chunks' = Append(file_chunks, c)
    PROVE  /\ file_chunks' \in Seq(Chunk)
           /\ Len(file_chunks') = Len(file_chunks) + 1 /\ Len(file_chunks') \in Nat
           /\ \A i \in DOMAIN file_chunks' : file_chunks'[i].data \in [InChunk(file_chunks'[i].base) -> Byte]
           /\ \A i \in DOMAIN file_chunks : file_chunks'[i] = file_chunks[i]
           /\ file_chunks'[Len(file_chunks')] = c
           /\ \A b : b # c.base => Holding(b)' = Holding(b)
           /\ Holding(c.base)' = Holding(c.base) \union {Len(file_chunks')}
<1> DEFINE n == Len(file_chunks)
<1>1. file_chunks \in Seq(Chunk) /\ n \in Nat
      /\ DOMAIN file_chunks = 1 .. n
  BY DEF Types
<1>2. /\ file_chunks' \in Seq(Chunk) /\ Len(file_chunks') = n + 1
      /\ DOMAIN file_chunks' = 1 .. n + 1
      /\ \A i \in 1 .. n : file_chunks'[i] = file_chunks[i]
      /\ file_chunks'[n + 1] = c
  BY <1>1
<1>3. \A i \in DOMAIN file_chunks' : file_chunks'[i].data \in [InChunk(file_chunks'[i].base) -> Byte]
  <2> SUFFICES ASSUME NEW i \in 1 .. n + 1
               PROVE  file_chunks'[i].data \in [InChunk(file_chunks'[i].base) -> Byte]
    BY <1>2
  <2>1. CASE i = n + 1
    BY <1>2, <2>1
  <2>2. CASE i \in 1 .. n
    BY <1>1, <1>2, <2>2 DEF Types
  <2> QED
    BY <1>1, <2>1, <2>2
<1>4. \A b : Holding(b)' = {i \in 1 .. n + 1 : file_chunks'[i].base = b}
  BY <1>2 DEF Holding
<1>5. \A b : Holding(b) = {i \in 1 .. n : file_chunks[i].base = b}
  BY <1>1 DEF Holding
<1>6. ASSUME NEW b, NEW i
      PROVE  i \in Holding(b)' <=> i \in Holding(b) \/ (i = n + 1 /\ c.base = b)
  BY <1>1, <1>2, <1>4, <1>5
<1>7. ASSUME NEW b, b # c.base PROVE Holding(b)' = Holding(b)
  <2>1. \A i : i \in Holding(b)' <=> i \in Holding(b)
    BY <1>6, <1>7
  <2> QED
    BY <2>1
<1>8. Holding(c.base)' = Holding(c.base) \union {n + 1}
  <2>1. \A i : i \in Holding(c.base)' <=> i \in Holding(c.base) \/ i = n + 1
    BY <1>6
  <2> QED
    BY <2>1
<1> QED
  BY <1>1, <1>2, <1>3, <1>7, <1>8

LEMMA file_try_add_chunkStep ==
    ASSUME IInv, NEW t \in Threads, file_try_add_chunk(t)
    PROVE  IInv'
<1> DEFINE n   == Len(file_chunks')
           w   == [thread[t] EXCEPT !.at = "update", !.chunk = n, !.data = <<>>]
<1>0. PICK pos, b, c : /\ pos = thread[t].pos /\ b = get_base_offset(pos)
                       /\ c = [base |-> b, data |-> thread[t].data]
  OBVIOUS
<1>1. /\ UNCHANGED <<inode, lock, leaked, files, disk, names, writes, events, latest, spoiled, outcome>>
      /\ file_chunks' = Append(file_chunks, c) /\ lock = NoThread
  BY <1>0 DEF file_try_add_chunk, mutexes, volume, bounds, history
<1>2. Types /\ Counting /\ Serving /\ Exclusive /\ Bytes /\ Writing /\ Closing
  BY DEF IInv
<1>3. /\ thread[t].at = "add" /\ thread[t].op \in {"read", "write"}
      /\ thread \in [Threads -> Record] /\ thread[t] \in Record
  BY <1>2 DEF file_try_add_chunk, Serves, Types
<1>4. /\ Shape(t) /\ AtWork(t) /\ pos \in Positions
      /\ thread[t].data \in [InChunk(b) -> Byte]
  BY <1>0, <1>2, <1>3 DEF Serving, Shape, AtWork
<1>5. b \in Bases
  BY <1>0, <1>4, InOwnChunk
<1>6. c \in Chunk /\ c.base = b /\ c.data = thread[t].data
  BY <1>0, <1>4, <1>5, DataIsTyped DEF Chunk
<1>7. /\ file_chunks' \in Seq(Chunk)
      /\ n = Len(file_chunks) + 1 /\ n \in Nat
      /\ \A i \in DOMAIN file_chunks' : file_chunks'[i].data \in [InChunk(file_chunks'[i].base) -> Byte]
      /\ \A i \in DOMAIN file_chunks : file_chunks'[i] = file_chunks[i]
      /\ file_chunks'[n] = c
      /\ \A x : x # b => Holding(x)' = Holding(x)
      /\ Holding(b)' = Holding(b) \union {n}
  BY <1>1, <1>2, <1>4, <1>6, AppendedChunk
<1>8. \A x : Holding(x) \subseteq Holding(x)' /\ Holding(x) \subseteq DOMAIN file_chunks
  BY <1>7 DEF Holding
<1>9. PICK r \in Record :
        /\ thread' = [thread EXCEPT ![t] = r]
        /\ \/ r = Idle
           \/ /\ thread[t].op = "write" /\ r.op = "write" /\ r.at = "update" /\ r.file = thread[t].file
              /\ r.pos = pos /\ r.write = thread[t].write /\ r.chunk = n
  <2>1. CASE thread[t].op = "read"
    BY <1>3, <2>1, IdleFields DEF file_try_add_chunk, Replies
  <2>2. CASE thread[t].op = "write"
    <3>1. thread' = [thread EXCEPT ![t] = w]
      BY <1>3, <2>2 DEF file_try_add_chunk
    <3>2. w \in Record
      BY <1>3, <1>7 DEF Record
    <3>3. w.op = "write" /\ w.at = "update" /\ w.file = thread[t].file
              /\ w.pos = pos /\ w.write = thread[t].write /\ w.chunk = n
      BY <1>0, <1>3, <1>7, <2>2 DEF Record
    <3> HIDE DEF w
    <3> QED
      BY <2>2, <3>1, <3>2, <3>3
  <2> QED
    BY <1>3, <2>1, <2>2
<1> HIDE DEF n
<1>10. r.at \in {"idle", "update"} /\ r.op \in {"idle", "write"}
  BY <1>9, IdleFields
<1>11. \A u \in Threads : thread'[u] = IF u = t THEN r ELSE thread[u]
  BY <1>3, <1>9
<1>12. Types'
  <2>1. thread' \in [Threads -> Record]
    BY <1>3, <1>9
  <2> QED
    BY <1>1, <1>2, <1>7, <2>1 DEF Types
<1>13. Counting'
  BY <1>1, <1>2, CountingFrame
<1>14. Serving'
  <2>1. ASSUME NEW u \in Threads \ {t} PROVE Shape(u)' /\ AtWork(u)'
    <3>1. thread'[u] = thread[u] /\ Shape(u) /\ AtWork(u)
      BY <1>2, <1>11 DEF Serving
    <3>2. Shape(u)'
      BY <1>1, <3>1 DEF Shape, IsOpen
    <3>3. AtWork(u)'
      BY <1>1, <1>7, <1>8, <3>1 DEF AtWork
    <3> QED
      BY <3>2, <3>3
  <2>2. thread'[t] = r /\ lock # t
    BY <1>1, <1>11, ThreadsAssumption
  <2>3. Shape(t)'
    BY <1>0, <1>1, <1>4, <1>9, <2>2, IdleFields DEF Shape, IsOpen
  <2>4. b = get_base_offset(pos) /\ n \in Holding(b)'
    BY <1>0, <1>7
  <2>5. AtWork(t)'
    BY <1>1, <1>9, <1>10, <2>2, <2>4, IdleFields DEF AtWork
  <2> QED
    BY <2>1, <2>3, <2>5 DEF Serving
<1>15. Exclusive'
  <2>1. r.op = "idle" \/ (r.op = thread[t].op /\ r.file = thread[t].file)
    BY <1>9, IdleFields
  <2> QED
    BY <1>2, <1>9, <2>1, GoesOn
<1>16. Bytes'
  <2> SUFFICES ASSUME NEW p \in Positions PROVE Intact(p)'
    BY DEF Bytes
  <2>1. Intact(p)
    BY <1>2 DEF Bytes
  <2>2. Unsized \subseteq Unsized'
    BY <1>3, <1>9, UnsizedStays
  <2>3. Used' = Used
    BY <1>1 DEF Used, IsOpen
  <2>4. Chunks(p) \subseteq Chunks(p)' /\ (Doubled(p) => Doubled(p)')
    BY <1>8 DEF Chunks, Doubled
  <2>5. Untouched(p)'
    BY <1>1, <1>10, <1>11, <2>1, <2>3 DEF Intact, Untouched
  <2>6. Uncached(p)'
    BY <1>1, <2>1, <2>4 DEF Intact, Uncached
  <2>7. FetchedIsCurrent(p)'
    BY <1>1, <1>10, <1>11, <2>1, <2>4 DEF Intact, FetchedIsCurrent
  <2>8. Sized(p)' /\ Safe(p)'
    BY <1>1, <2>1, <2>3, <2>4 DEF Intact, Sized, Safe
  <2>9. StoredSoFar(p)'
    <3>1. \A u \in Threads : thread'[u].at # "encrypt"
      BY <1>1, <1>2, <1>10, <1>11, NobodyElseStores
    <3> QED
      BY <3>1 DEF StoredSoFar
  <2>10. CachedIsCurrent(p)'
    <3> SUFFICES ASSUME NEW i \in Chunks(p)', latest[p] # Junk, ~Doubled(p)', p \notin Unsized'
                 PROVE  file_chunks'[i].data[p] = latest[p]
      BY <1>1 DEF CachedIsCurrent
    <3>1. CASE i \in Chunks(p)
      <4>1. file_chunks'[i] = file_chunks[i]
        BY <1>7, <1>8, <3>1 DEF Chunks
      <4> QED
        BY <2>1, <2>2, <2>4, <3>1, <4>1 DEF Intact, CachedIsCurrent
    <3>2. CASE i \notin Chunks(p)
      <4>1. get_base_offset(p) = b /\ i = n
        BY <1>7, <3>2 DEF Chunks
      <4>2. Chunks(p) = {}
        <5> SUFFICES ASSUME NEW j \in Chunks(p) PROVE FALSE
          OBVIOUS
        <5>1. j \in Chunks(p)' /\ i # j
          BY <2>4, <3>2
        <5> QED
          BY <5>1 DEF Doubled, Chunks
      <4>3. thread[t].data[p] = latest[p]
        BY <1>0, <1>3, <2>1, <4>1, <4>2 DEF Intact, FetchedIsCurrent
      <4> QED
        BY <1>6, <1>7, <4>1, <4>3
    <3> QED
      BY <3>1, <3>2
  <2> QED
    BY <2>5, <2>6, <2>7, <2>8, <2>9, <2>10 DEF Intact
<1>17. Writing'
  <2>1. Storing' => Storing
    BY <1>2, <1>9, <1>10, StoringFrame
  <2> QED
    BY <1>1, <1>2, <1>9, <1>10, <2>1, WritingFrame
<1>18. Closing'
  <2>1. \A g \in Files : IsOpen(g) => IsOpen(g)'
    BY <1>1 DEF IsOpen
  <2> QED
    BY <1>1, <1>2, <1>9, <1>10, <2>1, ClosingFrame
<1> QED
  BY <1>12, <1>13, <1>14, <1>15, <1>16, <1>17, <1>18 DEF IInv

(* One byte of one chunk of the list changes.                              *)
LEMMA ChangedChunk ==
    ASSUME Types, NEW pos \in Positions, NEW k \in Holding(get_base_offset(pos)),
           NEW w \in Byte, file_chunks' = [file_chunks EXCEPT ![k].data[pos] = w]
    PROVE  /\ file_chunks' \in Seq(Chunk)
           /\ \A i \in DOMAIN file_chunks' : file_chunks'[i].data \in [InChunk(file_chunks'[i].base) -> Byte]
           /\ \A b : Holding(b)' = Holding(b)
           /\ file_chunks'[k].data[pos] = w
           /\ \A p \in Positions \ {pos} : \A i \in Holding(get_base_offset(p)) :
                 file_chunks'[i].data[p] = file_chunks[i].data[p]
<1> DEFINE b == get_base_offset(pos)
           n == Len(file_chunks)
           d == [file_chunks[k].data EXCEPT ![pos] = w]
           c == [file_chunks[k] EXCEPT !.data = d]
<1>1. /\ file_chunks \in Seq(Chunk) /\ n \in Nat /\ DOMAIN file_chunks = 1 .. n
      /\ k \in 1 .. n /\ file_chunks[k] \in Chunk
      /\ file_chunks[k].base = b /\ file_chunks[k].data \in [InChunk(b) -> Byte]
  <2>1. /\ file_chunks \in Seq(Chunk) /\ n \in Nat /\ DOMAIN file_chunks = 1 .. n
    BY DEF Types
  <2>2. k \in 1 .. n /\ file_chunks[k].base = b /\ file_chunks[k].data \in [InChunk(b) -> Byte]
    BY HoldingFacts
  <2>3. file_chunks[k] \in Chunk
    BY <2>1, <2>2
  <2> QED
    BY <2>1, <2>2, <2>3
<1>2. pos \in InChunk(b) /\ b \in Bases
  BY InOwnChunk
<1>3. d \in [InChunk(b) -> Byte]
  BY <1>1, <1>2
<1>4. d \in Datas
  <2> HIDE DEF d, b
  <2> QED
    BY <1>2, <1>3, DataIsTyped
<1>5. d[pos] = w /\ \A p \in InChunk(b) \ {pos} : d[p] = file_chunks[k].data[p]
  BY <1>1, <1>2
<1>6. file_chunks' = [file_chunks EXCEPT ![k] = c]
  BY <1>1
<1> HIDE DEF d, b
<1>7. c \in Chunk /\ c.base = b /\ c.data = d
  BY <1>1, <1>4 DEF Chunk
<1> HIDE DEF c
<1>8. /\ file_chunks' \in Seq(Chunk) /\ DOMAIN file_chunks' = 1 .. n
      /\ file_chunks'[k] = c /\ \A i \in 1 .. n \ {k} : file_chunks'[i] = file_chunks[i]
  BY <1>1, <1>6, <1>7
<1>9. \A i \in DOMAIN file_chunks' : file_chunks'[i].data \in [InChunk(file_chunks'[i].base) -> Byte]
  <2> SUFFICES ASSUME NEW i \in 1 .. n
               PROVE  file_chunks'[i].data \in [InChunk(file_chunks'[i].base) -> Byte]
    BY <1>8
  <2>1. CASE i = k
    BY <1>3, <1>7, <1>8, <2>1
  <2>2. CASE i # k
    BY <1>1, <1>8, <2>2 DEF Types
  <2> QED
    BY <2>1, <2>2
<1>10. \A i \in 1 .. n : file_chunks'[i].base = file_chunks[i].base
  BY <1>1, <1>7, <1>8
<1>11. \A x : Holding(x)' = Holding(x)
  BY <1>1, <1>8, <1>10 DEF Holding
<1>12. ASSUME NEW p \in Positions \ {pos}, NEW i \in Holding(get_base_offset(p))
       PROVE  file_chunks'[i].data[p] = file_chunks[i].data[p]
  <2>1. i \in 1 .. n /\ file_chunks[i].base = get_base_offset(p)
    BY <1>1 DEF Holding
  <2>2. CASE i = k
    <3>1. p \in InChunk(b)
      BY <1>1, <2>1, <2>2, InOwnChunk
    <3> QED
      BY <1>5, <1>7, <1>8, <2>2, <3>1
  <2>3. CASE i # k
    BY <1>8, <2>1, <2>3
  <2> QED
    BY <2>2, <2>3
<1> QED
  BY <1>5, <1>7, <1>8, <1>9, <1>11, <1>12

LEMMA update_file_chunkStep ==
    ASSUME IInv, NEW t \in Threads, update_file_chunk(t)
    PROVE  IInv'
<1>0. PICK pos, k, w : pos = thread[t].pos /\ k = thread[t].chunk /\ w = thread[t].write
  OBVIOUS
<1>1. /\ UNCHANGED <<lock, leaked, files, disk, names, writes, events, latest, outcome>>
      /\ file_chunks' = [file_chunks EXCEPT ![k].data[pos] = w]
      /\ inode' = [inode EXCEPT !.is_dirty = TRUE]
      /\ spoiled' = IF Storing THEN spoiled \union {pos} ELSE spoiled
  BY <1>0 DEF update_file_chunk, mutexes, volume, bounds
<1>2. Types /\ Counting /\ Serving /\ Exclusive /\ Bytes /\ Writing /\ Closing
  BY DEF IInv
<1>3. /\ thread[t].at = "update" /\ thread[t].op = "write"
      /\ thread \in [Threads -> Record] /\ thread[t] \in Record
  BY <1>2 DEF update_file_chunk, Serves, Types
<1>4. /\ Shape(t) /\ AtWork(t) /\ pos \in Positions /\ k \in Holding(get_base_offset(pos))
      /\ thread[t].file \in Files /\ IsOpen(thread[t].file) /\ lock # t
  BY <1>0, <1>2, <1>3 DEF Serving, Shape, AtWork
<1>5. w \in Byte
  BY <1>0, <1>3, RecordFields, SizeFacts DEF Byte, Junk
<1>6. /\ file_chunks' \in Seq(Chunk)
      /\ \A i \in DOMAIN file_chunks' : file_chunks'[i].data \in [InChunk(file_chunks'[i].base) -> Byte]
      /\ \A b : Holding(b)' = Holding(b)
      /\ file_chunks'[k].data[pos] = w
      /\ \A p \in Positions \ {pos} : \A i \in Holding(get_base_offset(p)) :
            file_chunks'[i].data[p] = file_chunks[i].data[p]
  BY <1>1, <1>2, <1>4, <1>5, ChangedChunk
<1>7. PICK r \in Record : /\ thread' = [thread EXCEPT ![t] = r]
                          /\ r.at = "size" /\ r.op = "write" /\ r.file = thread[t].file
                          /\ r.pos = pos /\ r.write = w /\ r.chunk = k
  <2>1. "size" \in Ats
    BY DEF Ats
  <2>2. Goes(t, "size")
    BY DEF update_file_chunk
  <2> QED
    BY <1>0, <1>2, <1>3, <2>1, <2>2, GoesFacts
<1>8. \A u \in Threads : thread'[u] = IF u = t THEN r ELSE thread[u]
  BY <1>3, <1>7
<1>9. /\ inode' \in Inode /\ inode'.is_dirty = TRUE
      /\ inode'.filesize = inode.filesize /\ inode'.on_disk_size = inode.on_disk_size
      /\ inode'.is_deleted = inode.is_deleted /\ inode'.last_accessed = inode.last_accessed
      /\ inode'.openers = inode.openers
  BY <1>1, <1>2 DEF Types, Inode
<1>10. spoiled \subseteq spoiled' /\ spoiled' \subseteq Positions
  BY <1>1, <1>2, <1>4 DEF Types
<1>11. Storing' => Storing
  BY <1>2, <1>7, StoringFrame
<1>12. Types'
  <2>1. thread' \in [Threads -> Record]
    BY <1>3, <1>7
  <2> QED
    BY <1>1, <1>2, <1>6, <1>9, <1>10, <2>1 DEF Types
<1>13. Counting'
  BY <1>1, <1>2, <1>9, CountingFrame
<1>14. Serving'
  <2>1. ASSUME NEW u \in Threads \ {t} PROVE Shape(u)' /\ AtWork(u)'
    <3>1. thread'[u] = thread[u] /\ Shape(u) /\ AtWork(u)
      BY <1>2, <1>8 DEF Serving
    <3>2. thread[u].at \notin {"update", "size"}
      BY <1>2, <1>3, AtMeans DEF Exclusive, Apart
    <3>3. Shape(u)'
      BY <1>1, <3>1 DEF Shape, IsOpen
    <3>4. AtWork(u)'
      BY <1>1, <1>9, <3>1, <3>2 DEF AtWork
    <3> QED
      BY <3>3, <3>4
  <2>2. thread'[t] = r
    BY <1>8
  <2>3. Shape(t)'
    BY <1>0, <1>1, <1>3, <1>4, <1>7, <2>2 DEF Shape, IsOpen
  <2>4. AtWork(t)'
    BY <1>1, <1>4, <1>6, <1>7, <2>2 DEF AtWork
  <2> QED
    BY <2>1, <2>3, <2>4 DEF Serving
<1>15. Exclusive'
  BY <1>2, <1>3, <1>7, GoesOn
<1>16. Bytes'
  <2> SUFFICES ASSUME NEW p \in Positions PROVE Intact(p)'
    BY DEF Bytes
  <2>1. Intact(p)
    BY <1>2 DEF Bytes
  <2>2. Unsized \subseteq Unsized' /\ pos \in Unsized'
    <3>1. Unsized \subseteq Unsized'
      BY <1>3, <1>7, UnsizedStays
    <3>2. thread'[t] = r
      BY <1>8
    <3> QED
      BY <1>7, <3>1, <3>2 DEF Unsized, Writers
  <2>3. Used
    BY <1>4 DEF Used
  <2>4. Chunks(p)' = Chunks(p) /\ Doubled(p)' = Doubled(p)
    BY <1>6 DEF Chunks, Doubled
  <2>5. Untouched(p)'
    BY <1>1, <1>7, <1>8, <1>9, <2>1, <2>3 DEF Intact, Untouched
  <2>6. Uncached(p)'
    BY <1>1, <2>1, <2>4 DEF Intact, Uncached
  <2>7. FetchedIsCurrent(p)'
    BY <1>1, <1>7, <1>8, <2>1, <2>4 DEF Intact, FetchedIsCurrent
  <2>8. Sized(p)' /\ Safe(p)'
    BY <1>1, <1>9, <1>10, <2>1, <2>3, <2>4 DEF Intact, Sized, Safe
  <2>9. StoredSoFar(p)'
    BY <1>1, <1>7, <1>8, <1>10, <2>1, <2>4 DEF Intact, StoredSoFar
  <2>10. CachedIsCurrent(p)'
    BY <1>1, <1>6, <2>1, <2>2, <2>4 DEF Intact, CachedIsCurrent, Chunks
  <2> QED
    BY <2>5, <2>6, <2>7, <2>8, <2>9, <2>10 DEF Intact
<1>17. Writing'
  BY <1>1, <1>2, <1>7, <1>8, <1>9, <1>10, <1>11 DEF Writing
<1>18. Closing'
  <2>1. \A u \in Threads : thread'[u].at = "close" => thread'[u].file # thread[t].file
    <3> SUFFICES ASSUME NEW u \in Threads, thread'[u].at = "close"
                 PROVE  thread'[u].file # thread[t].file
      OBVIOUS
    <3>1. u # t /\ thread'[u] = thread[u]
      BY <1>7, <1>8
    <3>2. thread[u].op = "release" /\ Apart(thread[u], thread[t])
      BY <1>2, <3>1, AtMeans DEF Exclusive
    <3> QED
      BY <1>3, <3>1, <3>2 DEF Apart
  <2>2. files'[thread[t].file] # Closed
    BY <1>1, <1>4 DEF IsOpen
  <2> QED
    BY <1>4, <2>1, <2>2 DEF Closing, StaysOpen, IsOpen
<1> QED
  BY <1>12, <1>13, <1>14, <1>15, <1>16, <1>17, <1>18 DEF IInv

LEMMA file_writeStep ==
    ASSUME IInv, NEW t \in Threads, file_write(t)
    PROVE  IInv'
<1>0. PICK pos, k, w : pos = thread[t].pos /\ k = thread[t].chunk /\ w = thread[t].write
  OBVIOUS
<1>1. /\ UNCHANGED <<file_chunks, lock, leaked, files, disk, names, writes, events, spoiled, outcome>>
      /\ inode' = [inode EXCEPT !.filesize = IF pos + 1 > @ THEN pos + 1 ELSE @]
      /\ latest' = [latest EXCEPT ![pos] = w]
      /\ thread' = [thread EXCEPT ![t] = Idle]
  BY <1>0 DEF file_write, mutexes, volume, bounds, Replies
<1>2. Types /\ Counting /\ Serving /\ Exclusive /\ Bytes /\ Writing /\ Closing
  BY DEF IInv
<1>3. /\ thread[t].at = "size" /\ thread[t].op = "write"
      /\ thread \in [Threads -> Record] /\ thread[t] \in Record
  BY <1>2 DEF file_write, Serves, Types
<1>4. /\ pos \in Positions /\ k \in Chunks(pos) /\ w > 0 /\ lock # t
      /\ thread[t].file \in Files /\ IsOpen(thread[t].file)
      /\ file_chunks[k].data[pos] = w
  BY <1>0, <1>2, <1>3 DEF Serving, Shape, AtWork, Chunks
<1>5. w \in Byte /\ w \in Nat /\ w # Original /\ w # Junk
  BY <1>0, <1>3, <1>4, RecordFields, SizeFacts DEF Byte, Junk, Original
<1>6. pos \in Nat /\ pos < MaxSize /\ MaxSize \in Nat
  BY <1>4, SizeFacts
<1>7. inode.filesize \in 0 .. MaxSize
  BY <1>2, InodeFields
<1>8. /\ inode' \in Inode
      /\ inode'.filesize \in Nat /\ pos < inode'.filesize /\ inode.filesize <= inode'.filesize
      /\ inode'.on_disk_size = inode.on_disk_size
      /\ inode'.is_dirty = inode.is_dirty /\ inode'.is_deleted = inode.is_deleted
      /\ inode'.last_accessed = inode.last_accessed /\ inode'.openers = inode.openers
  <2>1. inode'.filesize = IF pos + 1 > inode.filesize THEN pos + 1 ELSE inode.filesize
    BY <1>1, <1>2 DEF Types, Inode
  <2>2. inode'.filesize \in 0 .. MaxSize /\ pos < inode'.filesize /\ inode.filesize <= inode'.filesize
    BY <1>6, <1>7, <2>1
  <2>3. inode' \in Inode
    <3>1. PICK s : s = IF pos + 1 > inode.filesize THEN pos + 1 ELSE inode.filesize
      OBVIOUS
    <3>2. s \in 0 .. MaxSize
      BY <1>6, <1>7, <3>1
    <3>3. inode' = [inode EXCEPT !.filesize = s]
      BY <1>1, <3>1
    <3> QED
      BY <1>2, <3>2, <3>3 DEF Types, Inode
  <2> QED
    BY <1>1, <1>2, <1>6, <2>2, <2>3 DEF Types, Inode
<1>9. /\ latest' \in [Positions -> Byte] /\ latest'[pos] = w
      /\ \A p \in Positions \ {pos} : latest'[p] = latest[p]
  BY <1>1, <1>2, <1>4, <1>5 DEF Types
<1>10. \A u \in Threads : thread'[u] = IF u = t THEN Idle ELSE thread[u]
  BY <1>1, <1>3
<1>11. Types'
  <2>1. thread' \in [Threads -> Record]
    BY <1>1, <1>3, IdleFields
  <2> QED
    BY <1>1, <1>2, <1>8, <1>9, <2>1 DEF Types
<1>12. Counting'
  BY <1>1, <1>2, <1>8, CountingFrame
<1>13. Serving'
  <2>1. \A u \in Threads \ {t} : Shape(u)' /\ AtWork(u)'
    BY <1>1, <1>2, <1>8, OthersFrame
  <2>2. Shape(t)' /\ AtWork(t)'
    BY <1>1, <1>4, <1>10, IdleFields DEF Shape, AtWork
  <2> QED
    BY <2>1, <2>2 DEF Serving
<1>14. Exclusive'
  BY <1>1, <1>2, IdleFields, GoesOn
<1>15. Writing'
  <2>1. Storing' => Storing
    BY <1>1, <1>2, IdleFields, StoringFrame
  <2> QED
    BY <1>1, <1>2, <1>8, <2>1, IdleFields, WritingFrame
<1>16. Closing'
  <2>1. \A g \in Files : IsOpen(g) => IsOpen(g)'
    BY <1>1 DEF IsOpen
  <2> QED
    BY <1>1, <1>2, <1>8, <2>1, IdleFields, ClosingFrame
<1>17. Bytes'
  <2> SUFFICES ASSUME NEW p \in Positions PROVE Intact(p)'
    BY DEF Bytes
  <2>1. Intact(p)
    BY <1>2 DEF Bytes
  <2>2. Used' = Used
    BY <1>1, <1>8 DEF Used, IsOpen
  <2>3. Chunks(p)' = Chunks(p) /\ Doubled(p)' = Doubled(p)
    BY <1>1 DEF Chunks, Doubled, Holding
  <2>4. CASE p = pos
    <3>1. /\ inode.is_dirty \/ inode.is_deleted \/ pos \in spoiled
          /\ Storing => pos \in spoiled
      BY <1>0, <1>2, <1>3 DEF Writing
    <3>2. Untouched(p)' /\ Uncached(p)' /\ FetchedIsCurrent(p)'
      BY <1>4, <1>5, <1>9, <2>3, <2>4 DEF Untouched, Uncached, FetchedIsCurrent
    <3>3. CachedIsCurrent(p)'
      <4> SUFFICES ASSUME NEW i \in Chunks(p), ~Doubled(p)
                   PROVE  file_chunks[i].data[p] = latest'[p]
        BY <1>1, <2>3 DEF CachedIsCurrent
      <4>1. i = k
        BY <1>4, <2>4 DEF Doubled, Chunks
      <4> QED
        BY <1>4, <1>9, <2>4, <4>1
    <3>4. Sized(p)'
      BY <1>8, <2>4 DEF Sized
    <3>5. Safe(p)'
      BY <1>1, <1>8, <2>4, <3>1 DEF Safe
    <3>6. StoredSoFar(p)'
      <4>1. \A u \in Threads : thread'[u].at = "encrypt" => Storing
        BY <1>10, IdleFields DEF Storing
      <4> QED
        BY <1>1, <2>4, <3>1, <4>1 DEF StoredSoFar
    <3> QED
      BY <3>2, <3>3, <3>4, <3>5, <3>6 DEF Intact
  <2>5. CASE p # pos
    <3>1. latest'[p] = latest[p] /\ p \in Nat
      BY <1>9, <2>5, SizeFacts
    <3>2. p \in Unsized => p \in Unsized'
      <4> SUFFICES ASSUME p \in Unsized PROVE p \in Unsized'
        OBVIOUS
      <4>1. PICK u \in Threads : thread[u].op = "write" /\ thread[u].at = "size" /\ thread[u].pos = p
        BY DEF Unsized, Writers
      <4>2. thread'[u] = thread[u]
        BY <1>0, <1>10, <2>5, <4>1
      <4> QED
        BY <4>1, <4>2 DEF Unsized, Writers
    <3>3. Untouched(p)'
      <4>1. \A u \in Threads : thread'[u].at \in {"attr", "encrypt"} => thread'[u] = thread[u]
        BY <1>10, IdleFields
      <4>2. p < inode.filesize => p < inode'.filesize
        BY <1>7, <1>8, <3>1
      <4> QED
        BY <1>1, <1>8, <2>1, <2>2, <3>1, <4>1, <4>2 DEF Intact, Untouched
    <3>4. Uncached(p)'
      BY <1>1, <2>1, <2>3, <3>1 DEF Intact, Uncached
    <3>5. FetchedIsCurrent(p)'
      BY <1>1, <1>10, <2>1, <2>3, <3>1, IdleFields DEF Intact, FetchedIsCurrent
    <3>6. CachedIsCurrent(p)'
      BY <1>1, <2>1, <2>3, <3>1, <3>2 DEF Intact, CachedIsCurrent
    <3>7. Sized(p)'
      BY <1>1, <1>7, <1>8, <2>1, <2>2, <3>1 DEF Intact, Sized
    <3>8. Safe(p)'
      BY <1>1, <1>8, <2>1, <2>3, <3>1 DEF Intact, Safe
    <3>9. StoredSoFar(p)'
      BY <1>1, <1>10, <2>1, <2>3, <3>1, IdleFields DEF Intact, StoredSoFar
    <3> QED
      BY <3>3, <3>4, <3>5, <3>6, <3>7, <3>8, <3>9 DEF Intact
  <2> QED
    BY <2>4, <2>5
<1> QED
  BY <1>11, <1>12, <1>13, <1>14, <1>15, <1>16, <1>17 DEF IInv
-----------------------------------------------------------------------------
(* The store.                                                              *)

LEMMA AfterStoreFacts ==
    ASSUME NEW t \in Threads, NEW op \in {"flush", "release"}, NEW f \in Files, AfterStore(t, op, f)
    PROVE  \E r \in Record : /\ thread' = [thread EXCEPT ![t] = r]
                             /\ \/ r = Idle /\ op = "flush"
                                \/ op = "release" /\ r.op = op /\ r.at = "close" /\ r.file = f
<1>1. CASE op = "flush"
  BY <1>1, IdleFields DEF AfterStore, Replies
<1>2. CASE op = "release"
  <2> DEFINE r == [Idle EXCEPT !.op = op, !.at = "close", !.file = f]
  <2>1. op \in Ops /\ "close" \in Ats /\ 0 \in 0 .. MaxSize
    BY SizeFacts DEF Ops, Ats
  <2>2. r \in Record
    BY <2>1, NewRecord
  <2>3. r.op = op /\ r.at = "close" /\ r.file = f
    BY <2>2, IdleFields DEF Record
  <2>4. thread' = [thread EXCEPT ![t] = r]
    BY <1>2 DEF AfterStore, Takes
  <2> QED
    BY <1>2, <2>2, <2>3, <2>4
<1> QED
  BY <1>1, <1>2

(* A request that ends its store: nobody holds the lock any more.          *)
LEMMA StoreHasEnded ==
    ASSUME IInv, NEW t \in Threads, NEW r \in Record, NEW f \in Files, IsOpen(f),
           thread' = [thread EXCEPT ![t] = r],
           r = Idle \/ (r.op = "release" /\ r.at = "close" /\ r.file = f),
           \A u \in Threads \ {t} : Apart(r, thread[u]) /\ Apart(thread[u], r),
           lock \in {NoThread, t}, lock' = NoThread,
           UNCHANGED <<file_chunks, files, names, writes, latest, spoiled>>,
           leaked' \in BOOLEAN, events' \in Nat, outcome' \in {"none", "failed", "crossed"},
           disk' \in [size : 0 .. MaxSize, data : [Positions -> Byte]],
           inode' \in Inode, inode'.openers = inode.openers, inode'.last_accessed = inode.last_accessed
    PROVE  Types' /\ Counting' /\ Serving' /\ Exclusive'
<1>1. Types /\ Counting /\ Serving /\ Exclusive
  BY DEF IInv
<1>2. thread' \in [Threads -> Record] /\ thread'[t] = r
  BY <1>1 DEF Types
<1>3. Types'
  BY <1>1, <1>2 DEF Types
<1>4. Counting'
  BY <1>1, CountingFrame
<1>5. \A u \in Threads \ {t} : lock' # u /\ lock # u
  BY ThreadsAssumption
<1>6. \A u \in Threads \ {t} : Shape(u)' /\ AtWork(u)'
  <2>1. lock \notin Threads \ {t}
    BY ThreadsAssumption
  <2> QED
    BY <1>1, <1>5, <2>1, OthersFrame
<1>7. IsOpen(f)' /\ lock' # t
  BY ThreadsAssumption DEF IsOpen
<1>8. Shape(t)' /\ AtWork(t)'
  <2>1. CASE r = Idle
    BY <1>2, <1>7, <2>1, IdleFields DEF Shape, AtWork
  <2>2. CASE r.op = "release" /\ r.at = "close" /\ r.file = f
    BY <1>2, <1>7, <2>2 DEF Shape, AtWork
  <2> QED
    BY <2>1, <2>2
<1>9. Serving'
  BY <1>6, <1>8 DEF Serving
<1>10. Exclusive'
  BY <1>1, ExclusiveFrame
<1> QED
  BY <1>3, <1>4, <1>9, <1>10

(* One that leaves the volume alone.                                       *)
LEMMA StoreLeaves ==
    ASSUME IInv, NEW t \in Threads, NEW r \in Record, NEW f \in Files, IsOpen(f),
           thread' = [thread EXCEPT ![t] = r], thread[t].at # "size",
           r = Idle \/ (r.op = "release" /\ r.at = "close" /\ r.file = f),
           \A u \in Threads \ {t} : Apart(r, thread[u]) /\ Apart(thread[u], r),
           lock \in {NoThread, t}, lock' = NoThread,
           UNCHANGED <<file_chunks, files, disk, names, writes, latest, spoiled>>,
           leaked' \in BOOLEAN, events' \in Nat, outcome' \in {"none", "failed", "crossed"},
           inode' \in Inode, inode'.openers = inode.openers, inode'.last_accessed = inode.last_accessed,
           inode'.filesize = inode.filesize, inode'.on_disk_size = inode.on_disk_size,
           inode'.is_dirty => inode.is_dirty,
           inode.is_dirty \/ inode.is_deleted => inode'.is_dirty \/ inode'.is_deleted
    PROVE  Types' /\ Counting' /\ Serving' /\ Exclusive' /\ Bytes' /\ Writing'
<1>1. Types /\ Bytes /\ Writing
  BY DEF IInv
<1>2. disk' \in [size : 0 .. MaxSize, data : [Positions -> Byte]]
  BY <1>1 DEF Types
<1>3. Types' /\ Counting' /\ Serving' /\ Exclusive'
  BY <1>2, StoreHasEnded
<1>4. r.at \in {"idle", "close"}
  BY IdleFields
<1>5. Used' => Used
  BY DEF Used, IsOpen
<1>6. Bytes'
  <2>1. Knows(r)
    BY <1>4 DEF Knows
  <2> QED
    BY <1>1, <1>5, <2>1, BytesFrame
<1>7. Writing'
  <2>1. Storing' => Storing
    BY <1>1, <1>4, StoringFrame
  <2> QED
    BY <1>1, <1>4, <2>1, WritingFrame
<1> QED
  BY <1>3, <1>6, <1>7

(* The kernel keeps a flush or a release apart from what it must not meet. *)
Admitted(f, op) ==
    /\ ~Busy(f, {"release"})
    /\ op = "release" => ~Busy(f, {"read", "write", "flush"})

LEMMA StoreIsApart ==
    ASSUME NEW t \in Threads, NEW op \in {"flush", "release"}, NEW f \in Files, Admitted(f, op),
           NEW r, r.op = "idle" \/ (r.op = op /\ r.file = f)
    PROVE  \A u \in Threads \ {t} : Apart(r, thread[u]) /\ Apart(thread[u], r)
BY DEF Admitted, Busy, Apart

LEMMA StoreCleanStep ==
    ASSUME IInv, NEW t \in Threads, NEW op \in {"flush", "release"}, NEW f \in Files, Admitted(f, op),
           thread[t] = Idle, IsOpen(f), lock = NoThread, StoreClean(t, op, f), UNCHANGED files
    PROVE  IInv'
<1>1. /\ UNCHANGED <<file_chunks, lock, leaked, disk, names, writes, events, latest, spoiled, outcome>>
      /\ inode' = [inode EXCEPT !.is_dirty = FALSE] /\ NothingToStore
  BY DEF StoreClean, mutexes, volume, bounds, history
<1>2. Types
  BY DEF IInv
<1>3. PICK r \in Record : /\ thread' = [thread EXCEPT ![t] = r]
                          /\ \/ r = Idle /\ op = "flush"
                             \/ op = "release" /\ r.op = op /\ r.at = "close" /\ r.file = f
  BY AfterStoreFacts DEF StoreClean
<1>4. \A u \in Threads \ {t} : Apart(r, thread[u]) /\ Apart(thread[u], r)
  <2>1. r.op = "idle" \/ (r.op = op /\ r.file = f)
    BY <1>3, IdleFields
  <2> QED
    BY <2>1, StoreIsApart
<1>5. /\ inode' \in Inode /\ inode'.openers = inode.openers
      /\ inode'.last_accessed = inode.last_accessed /\ inode'.filesize = inode.filesize
      /\ inode'.on_disk_size = inode.on_disk_size /\ inode'.is_dirty = FALSE
      /\ inode'.is_deleted = inode.is_deleted
  BY <1>1, <1>2 DEF Types, Inode
<1>6. inode.is_dirty \/ inode.is_deleted => inode'.is_deleted
  BY <1>1, <1>5 DEF NothingToStore
<1>7. /\ thread[t].at # "size" /\ leaked' \in BOOLEAN /\ events' \in Nat
      /\ outcome' \in {"none", "failed", "crossed"}
  BY <1>1, <1>2, IdleFields DEF Types
<1>8. r = Idle \/ (r.op = "release" /\ r.at = "close" /\ r.file = f)
  BY <1>3
<1>9. Types' /\ Counting' /\ Serving' /\ Exclusive' /\ Bytes' /\ Writing'
  BY <1>1, <1>3, <1>4, <1>5, <1>6, <1>7, <1>8, StoreLeaves
<1>10. Closing'
  BY <1>5 DEF Closing
<1> QED
  BY <1>9, <1>10 DEF IInv

(* Another handle is open when more than one is.                           *)
LEMMA AnotherHandle ==
    ASSUME Types, Counting, HasOtherOpeners, NEW f \in Files
    PROVE  \E g \in Files : IsOpen(g) /\ g # f
<1> SUFFICES ASSUME OpenFiles \subseteq {f} PROVE FALSE
  BY DEF OpenFiles
<1>1. IsFiniteSet({f}) /\ Cardinality({f}) = 1
  BY FS_Singleton
<1>2. Cardinality(OpenFiles) <= 1
  BY <1>1, FS_Subset
<1>3. Cardinality(OpenFiles) > 1 /\ Cardinality(OpenFiles) \in Nat
  BY InodeFields DEF Counting, HasOtherOpeners
<1> QED
  BY <1>2, <1>3

LEMMA StoreSkipsStep ==
    ASSUME IInv, NEW t \in Threads, NEW op \in {"flush", "release"}, NEW f \in Files, Admitted(f, op),
           thread[t] = Idle, IsOpen(f), lock = NoThread, StoreSkips(t, op, f), UNCHANGED files
    PROVE  IInv'
<1>1. /\ UNCHANGED <<inode, file_chunks, lock, leaked, disk, names, writes, events, latest, spoiled>>
      /\ HasOtherOpeners
      /\ outcome' = IF op = "release" /\ \E u \in Threads : thread[u].at = "close" THEN "crossed"
                    ELSE outcome
  BY DEF StoreSkips, cache, mutexes, volume, bounds
<1>2. Types /\ Counting /\ Closing
  BY DEF IInv
<1>3. PICK r \in Record : /\ thread' = [thread EXCEPT ![t] = r]
                          /\ \/ r = Idle /\ op = "flush"
                             \/ op = "release" /\ r.op = op /\ r.at = "close" /\ r.file = f
  BY AfterStoreFacts DEF StoreSkips
<1>4. \A u \in Threads \ {t} : Apart(r, thread[u]) /\ Apart(thread[u], r)
  <2>1. r.op = "idle" \/ (r.op = op /\ r.file = f)
    BY <1>3, IdleFields
  <2> QED
    BY <2>1, StoreIsApart
<1>5. /\ thread[t].at # "size" /\ leaked' \in BOOLEAN /\ events' \in Nat
      /\ outcome' \in {"none", "failed", "crossed"} /\ inode' \in Inode
  BY <1>1, <1>2, IdleFields DEF Types
<1>6. r = Idle \/ (r.op = "release" /\ r.at = "close" /\ r.file = f)
  BY <1>3
<1>7. Types' /\ Counting' /\ Serving' /\ Exclusive' /\ Bytes' /\ Writing'
  BY <1>1, <1>3, <1>4, <1>5, <1>6, StoreLeaves
<1>8. Closing'
  <2>1. CASE op = "flush"
    <3>1. r.at # "close" /\ outcome' = outcome
      BY <1>1, <1>3, <2>1, IdleFields
    <3>2. \A g \in Files : IsOpen(g) => IsOpen(g)'
      BY DEF IsOpen
    <3> QED
      BY <1>1, <1>2, <1>3, <3>1, <3>2, ClosingFrame
  <2>2. CASE op = "release"
    <3> SUFFICES ASSUME outcome' = "none" PROVE \E g \in Files : StaysOpen(g)'
      BY DEF Closing
    <3>1. \A u \in Threads : thread[u].at # "close"
      BY <1>1, <2>2
    <3>2. PICK g \in Files : IsOpen(g) /\ g # f
      BY <1>1, <1>2, AnotherHandle
    <3>3. \A u \in Threads : thread'[u] = IF u = t THEN r ELSE thread[u]
      BY <1>2, <1>3 DEF Types
    <3>4. StaysOpen(g)'
      BY <1>3, <2>2, <3>1, <3>2, <3>3 DEF StaysOpen, IsOpen
    <3> QED
      BY <3>4
  <2> QED
    BY <2>1, <2>2
<1> QED
  BY <1>7, <1>8 DEF IInv

LEMMA EventFacts ==
    ASSUME Types, Event
    PROVE  events' \in Nat /\ writes' = writes
BY DEF Types, Event

LEMMA StoreStartFailsStep ==
    ASSUME IInv, NEW t \in Threads, NEW op \in {"flush", "release"}, NEW f \in Files, Admitted(f, op),
           thread[t] = Idle, IsOpen(f), lock = NoThread, StoreStartFails(t, op, f), UNCHANGED files
    PROVE  IInv'
<1>1. /\ UNCHANGED <<inode, file_chunks, lock, leaked, disk, names, latest, spoiled>>
      /\ outcome' = "failed"
  BY DEF StoreStartFails, cache, mutexes, volume
<1>2. Types
  BY DEF IInv
<1>3. PICK r \in Record : /\ thread' = [thread EXCEPT ![t] = r]
                          /\ \/ r = Idle /\ op = "flush"
                             \/ op = "release" /\ r.op = op /\ r.at = "close" /\ r.file = f
  BY AfterStoreFacts DEF StoreStartFails
<1>4. \A u \in Threads \ {t} : Apart(r, thread[u]) /\ Apart(thread[u], r)
  <2>1. r.op = "idle" \/ (r.op = op /\ r.file = f)
    BY <1>3, IdleFields
  <2> QED
    BY <2>1, StoreIsApart
<1>5. events' \in Nat /\ writes' = writes
  <2>1. CASE Event
    BY <1>2, <2>1, EventFacts
  <2>2. CASE UNCHANGED bounds
    BY <1>2, <2>2 DEF Types, bounds
  <2> QED
    BY <2>1, <2>2 DEF StoreStartFails
<1>6. thread[t].at # "size" /\ leaked' \in BOOLEAN /\ inode' \in Inode
  BY <1>1, <1>2, IdleFields DEF Types
<1>7. r = Idle \/ (r.op = "release" /\ r.at = "close" /\ r.file = f)
  BY <1>3
<1>8. Types' /\ Counting' /\ Serving' /\ Exclusive' /\ Bytes' /\ Writing'
  BY <1>1, <1>3, <1>4, <1>5, <1>6, <1>7, StoreLeaves
<1>9. Closing'
  BY <1>1 DEF Closing
<1> QED
  BY <1>8, <1>9 DEF IInv

(* What the thread that stores the file knows, and how its request ends.   *)
LEMMA StoreEndsFacts ==
    ASSUME IInv, NEW t \in Threads, Serves(t, {"flush", "release"}, "encrypt"), StoreEnds(t)
    PROVE  /\ thread[t].file \in Files /\ IsOpen(thread[t].file) /\ lock = t
           /\ inode.is_dirty /\ thread[t].chunk \in Nat /\ thread[t].chunk > 0
           /\ \E r \in Record :
                /\ thread' = [thread EXCEPT ![t] = r]
                /\ r = Idle \/ (r.op = "release" /\ r.at = "close" /\ r.file = thread[t].file)
                /\ \A u \in Threads \ {t} : Apart(r, thread[u]) /\ Apart(thread[u], r)
<1>1. Types /\ Serving /\ Exclusive
  BY DEF IInv
<1>2. thread[t].op \in {"flush", "release"} /\ thread[t].at = "encrypt" /\ thread[t] \in Record
  BY <1>1 DEF Serves, Types
<1>3. /\ thread[t].file \in Files /\ IsOpen(thread[t].file) /\ lock = t
      /\ inode.is_dirty /\ thread[t].chunk > 0
  BY <1>1, <1>2 DEF Serving, Shape, AtWork
<1>4. PICK r \in Record :
         /\ thread' = [thread EXCEPT ![t] = r]
         /\ \/ r = Idle /\ thread[t].op = "flush"
            \/ /\ thread[t].op = "release" /\ r.op = thread[t].op
               /\ r.at = "close" /\ r.file = thread[t].file
  BY <1>2, <1>3, AfterStoreFacts DEF StoreEnds
<1>5. \A u \in Threads \ {t} : Apart(r, thread[u]) /\ Apart(thread[u], r)
  <2>1. \A u \in Threads \ {t} : Apart(thread[t], thread[u]) /\ Apart(thread[u], thread[t])
    BY <1>1 DEF Exclusive
  <2>2. r.op = "idle" \/ (r.op = thread[t].op /\ r.file = thread[t].file)
    BY <1>4, IdleFields
  <2> QED
    BY <2>1, <2>2 DEF Apart
<1>6. thread[t].chunk \in Nat
  BY <1>2, RecordFields
<1> QED
  BY <1>3, <1>4, <1>5, <1>6

LEMMA SeekFailsStep ==
    ASSUME IInv, NEW t \in Threads, SeekFails(t)
    PROVE  IInv'
<1>1. /\ UNCHANGED <<inode, file_chunks, files, disk, names, latest, spoiled>>
      /\ outcome' = "failed" /\ lock' = NoThread /\ StoreEnds(t)
      /\ Serves(t, {"flush", "release"}, "encrypt")
  BY DEF SeekFails, StoreFails, cache, volume
<1>2. Types
  BY DEF IInv
<1>3. /\ thread[t].file \in Files /\ IsOpen(thread[t].file) /\ lock = t
      /\ \E r \in Record :
            /\ thread' = [thread EXCEPT ![t] = r]
            /\ r = Idle \/ (r.op = "release" /\ r.at = "close" /\ r.file = thread[t].file)
            /\ \A u \in Threads \ {t} : Apart(r, thread[u]) /\ Apart(thread[u], r)
  BY <1>1, StoreEndsFacts
<1>4. PICK r \in Record, f \in Files :
            /\ thread' = [thread EXCEPT ![t] = r] /\ f = thread[t].file
            /\ r = Idle \/ (r.op = "release" /\ r.at = "close" /\ r.file = f)
            /\ \A u \in Threads \ {t} : Apart(r, thread[u]) /\ Apart(thread[u], r)
  BY <1>3
<1>5. events' \in Nat /\ writes' = writes /\ leaked' \in BOOLEAN
  BY <1>2 DEF SeekFails, bounds, Types
<1>6. thread[t].at # "size" /\ inode' \in Inode
  BY <1>1, <1>2 DEF Types, Serves
<1>7. Types' /\ Counting' /\ Serving' /\ Exclusive' /\ Bytes' /\ Writing'
  BY <1>1, <1>3, <1>4, <1>5, <1>6, StoreLeaves
<1>8. Closing'
  BY <1>1 DEF Closing
<1> QED
  BY <1>7, <1>8 DEF IInv

LEMMA ResizeFacts ==
    ASSUME Types, NEW s \in 0 .. MaxSize
    PROVE  /\ Resize(s) \in [size : 0 .. MaxSize, data : [Positions -> Byte]]
           /\ Resize(s).size = s
           /\ \A p \in Positions : p < s /\ p < disk.size => Resize(s).data[p] = disk.data[p]
<1>1. disk.data \in [Positions -> Byte] /\ disk.size \in Nat /\ s \in Nat
  BY DiskFields, SizeFacts
<1>2. \A p \in Positions : p \in Nat
  BY SizeFacts
<1> DEFINE d == [p \in Positions |-> IF p < min(s, disk.size) THEN disk.data[p] ELSE Junk]
<1>3. d \in [Positions -> Byte]
  BY <1>1, SizeFacts
<1>4. \A p \in Positions : p < s /\ p < disk.size => d[p] = disk.data[p]
  BY <1>1, <1>2 DEF min
<1>5. Resize(s) = [size |-> s, data |-> d]
  BY DEF Resize
<1> HIDE DEF d
<1> QED
  BY <1>3, <1>4, <1>5

LEMMA StoreStartStep ==
    ASSUME IInv, NEW t \in Threads, NEW op \in {"flush", "release"}, NEW f \in Files, Admitted(f, op),
           thread[t] = Idle, IsOpen(f), lock = NoThread, StoreStart(t, op, f), UNCHANGED files
    PROVE  IInv'
<1>0. PICK size : size = disk.size
  OBVIOUS
<1> DEFINE q == [Idle EXCEPT !.op = op, !.at = "encrypt", !.file = f, !.chunk = 1, !.size = size]
<1>1. /\ UNCHANGED <<inode, file_chunks, leaked, files, names, writes, events, latest, outcome>>
      /\ disk' = Resize(inode.filesize) /\ lock' = t /\ inode.is_dirty
      /\ spoiled' = {p \in spoiled : p >= inode.filesize} \union Unsized
      /\ thread' = [thread EXCEPT ![t] = q]
  BY <1>0 DEF StoreStart, cache, bounds, NothingToStore, Takes
<1>2. Types /\ Counting /\ Serving /\ Exclusive /\ Bytes /\ Writing /\ Closing
  BY DEF IInv
<1>3. thread \in [Threads -> Record] /\ size \in 0 .. MaxSize /\ size \in Nat
  BY <1>0, <1>2, DiskFields DEF Types
<1>4. /\ q \in Record /\ q.op = op /\ q.at = "encrypt" /\ q.file = f /\ q.chunk = 1 /\ q.size = size
  <2>1. op \in Ops /\ "encrypt" \in Ats
    BY DEF Ops, Ats
  <2>2. q \in Record
    BY <1>3, <2>1, NewRecord
  <2> QED
    BY <2>2, IdleFields DEF Record
<1>5. PICK r \in Record : /\ thread' = [thread EXCEPT ![t] = r]
                          /\ r.op = op /\ r.at = "encrypt" /\ r.file = f /\ r.chunk = 1 /\ r.size = size
  BY <1>1, <1>4
<1> HIDE DEF q
<1>6. inode.filesize \in 0 .. MaxSize /\ inode.filesize \in Nat
  BY <1>2, InodeFields
<1>7. /\ disk' \in [size : 0 .. MaxSize, data : [Positions -> Byte]]
      /\ disk'.size = inode.filesize
      /\ \A p \in Positions : p < inode.filesize /\ p < size => disk'.data[p] = disk.data[p]
  BY <1>0, <1>1, <1>2, <1>6, ResizeFacts
<1>8. \A u \in Threads : thread'[u] = IF u = t THEN r ELSE thread[u]
  BY <1>3, <1>5
<1>9. \A p : p \in Unsized <=> \E u \in Threads : thread[u].at = "size" /\ thread[u].pos = p
  BY <1>2, UnsizedFacts
<1>10. Unsized \subseteq Positions
  <2> SUFFICES ASSUME NEW u \in Threads, thread[u].at = "size" PROVE thread[u].pos \in Positions
    BY <1>9
  <2> QED
    BY <1>2, AtMeans DEF Serving, Shape
<1>11. Types'
  <2>1. spoiled' \subseteq Positions
    BY <1>1, <1>2, <1>10 DEF Types
  <2>2. thread' \in [Threads -> Record]
    BY <1>3, <1>5
  <2> QED
    BY <1>1, <1>2, <1>7, <2>1, <2>2 DEF Types
<1>12. Counting'
  BY <1>1, <1>2, CountingFrame
<1>13. Serving'
  <2>1. \A u \in Threads \ {t} : lock # u
    BY ThreadsAssumption
  <2>2. lock \notin Threads \ {t}
    BY ThreadsAssumption
  <2>3. \A u \in Threads \ {t} : Shape(u)' /\ AtWork(u)'
    BY <1>1, <1>2, <1>5, <2>1, <2>2, OthersFrame
  <2>4. IsOpen(f)'
    BY <1>1 DEF IsOpen
  <2>5. thread'[t] = r
    BY <1>8
  <2>6. Shape(t)'
    BY <1>5, <2>4, <2>5 DEF Shape
  <2>7. AtWork(t)'
    BY <1>1, <1>5, <2>5 DEF AtWork
  <2> QED
    BY <2>3, <2>6, <2>7 DEF Serving
<1>14. Exclusive'
  <2>1. \A u \in Threads \ {t} : Apart(r, thread[u]) /\ Apart(thread[u], r)
    BY <1>5, StoreIsApart
  <2> QED
    BY <1>2, <1>5, <2>1, ExclusiveFrame
<1>15. Writing'
  <2> SUFFICES ASSUME NEW u \in Threads, thread'[u].at = "size" PROVE thread'[u].pos \in spoiled'
    BY <1>1 DEF Writing
  <2>1. thread[u].at = "size" /\ thread'[u].pos = thread[u].pos
    BY <1>5, <1>8
  <2> QED
    BY <1>1, <1>9, <2>1
<1>16. Closing'
  <2>1. \A g \in Files : IsOpen(g) => IsOpen(g)'
    BY DEF IsOpen
  <2> QED
    BY <1>1, <1>2, <1>5, <2>1, ClosingFrame
<1>17. Bytes'
  <2> SUFFICES ASSUME NEW p \in Positions PROVE Intact(p)'
    BY DEF Bytes
  <2>1. Intact(p) /\ p \in Nat
    BY <1>2, SizeFacts DEF Bytes
  <2>2. Used /\ thread[t].at = "idle"
    BY <1>1, IdleFields DEF Used
  <2>3. Chunks(p)' = Chunks(p) /\ Doubled(p)' = Doubled(p)
    BY <1>1 DEF Chunks, Doubled, Holding
  <2>4. Unsized \subseteq Unsized'
    BY <1>3, <1>5, <2>2, UnsizedStays
  <2>5. Untouched(p)'
    BY <1>0, <1>1, <1>5, <1>7, <1>8, <2>1, <2>2 DEF Intact, Untouched
  <2>6. Uncached(p)'
    <3> SUFFICES ASSUME latest[p] # Junk, Chunks(p) = {}
                 PROVE  latest[p] = Original /\ disk'.data[p] = Original
      BY <1>1, <2>3 DEF Uncached
    <3>1. latest[p] = Original /\ disk.data[p] = Original
      BY <2>1 DEF Intact, Uncached
    <3>2. p < disk.size /\ p < inode.filesize
      BY <2>1, <2>2, <3>1 DEF Intact, Untouched
    <3> QED
      BY <1>0, <1>7, <3>1, <3>2
  <2>7. FetchedIsCurrent(p)'
    BY <1>1, <1>5, <1>8, <2>1, <2>3 DEF Intact, FetchedIsCurrent
  <2>8. CachedIsCurrent(p)'
    BY <1>1, <2>1, <2>3, <2>4 DEF Intact, CachedIsCurrent
  <2>9. latest[p] # Junk => p \in spoiled' \/ p < inode.filesize
    BY <1>1, <1>6, <2>1, <2>2 DEF Intact, Sized
  <2>10. Sized(p)' /\ Safe(p)'
    BY <1>1, <2>9 DEF Sized, Safe
  <2>11. StoredSoFar(p)'
    <3> SUFFICES ASSUME NEW u \in Threads, thread'[u].at = "encrypt", latest[p] # Junk, p \notin spoiled'
                 PROVE  p < disk'.size /\ \A i \in Chunks(p) : ~(i < thread'[u].chunk)
      BY <1>1, <2>3 DEF StoredSoFar
    <3>1. u = t /\ thread'[u].chunk = 1
      BY <1>2, <1>5, <1>8, NobodyElseStores
    <3>2. \A i \in Chunks(p) : i \in Nat /\ i # 0
      BY <1>2, HoldingFacts DEF Chunks
    <3>3. p < disk'.size
      BY <1>7, <2>9
    <3> QED
      BY <3>1, <3>2, <3>3
  <2> QED
    BY <2>5, <2>6, <2>7, <2>8, <2>10, <2>11 DEF Intact
<1> QED
  BY <1>11, <1>12, <1>13, <1>14, <1>15, <1>16, <1>17 DEF IInv

LEMMA StoreChunkStep ==
    ASSUME IInv, NEW t \in Threads, StoreChunk(t)
    PROVE  IInv'
<1>0. PICK k, c : k = thread[t].chunk /\ c = file_chunks[k]
  OBVIOUS
<1>1. /\ UNCHANGED <<inode, file_chunks, lock, leaked, files, names, writes, events, latest, spoiled, outcome>>
      /\ disk' = Encrypted(c) /\ k <= Len(file_chunks)
      /\ thread' = [thread EXCEPT ![t].chunk = k + 1]
      /\ Serves(t, {"flush", "release"}, "encrypt")
  BY <1>0 DEF StoreChunk, Current, cache, mutexes, bounds, history
<1>2. Types /\ Counting /\ Serving /\ Exclusive /\ Bytes /\ Writing /\ Closing
  BY DEF IInv
<1>3. /\ thread[t].op \in {"flush", "release"} /\ thread[t].at = "encrypt"
      /\ thread[t] \in Record /\ thread \in [Threads -> Record]
  BY <1>1, <1>2 DEF Serves, Types
<1>4. /\ thread[t].file \in Files /\ IsOpen(thread[t].file) /\ lock = t
      /\ inode.is_dirty /\ k > 0 /\ k \in Nat
  BY <1>0, <1>2, <1>3, RecordFields DEF Serving, Shape, AtWork
<1>5. PICK r : r = [thread[t] EXCEPT !.chunk = k + 1]
  OBVIOUS
<1>6. /\ r \in Record /\ r.op = thread[t].op /\ r.at = "encrypt" /\ r.file = thread[t].file
      /\ r.chunk = k + 1 /\ r.size = thread[t].size /\ r.pos = thread[t].pos /\ r.write = thread[t].write
  <2>1. k + 1 \in Nat
    BY <1>4
  <2>2. r \in Record
    BY <1>3, <1>5, <2>1 DEF Record
  <2> QED
    BY <1>3, <1>5, <2>2 DEF Record
<1>7. thread' = [thread EXCEPT ![t] = r]
  BY <1>1, <1>3, <1>5
<1>8. \A u \in Threads : thread'[u] = IF u = t THEN r ELSE thread[u]
  BY <1>3, <1>7
<1>9. k \in DOMAIN file_chunks /\ c \in Chunk /\ c.data \in [InChunk(c.base) -> Byte]
  <2>1. file_chunks \in Seq(Chunk) /\ Len(file_chunks) \in Nat
    BY <1>2 DEF Types
  <2>2. k \in DOMAIN file_chunks
    BY <1>1, <1>4, <2>1
  <2> QED
    BY <1>0, <1>2, <2>1, <2>2 DEF Types
<1>10. disk.size \in Nat /\ disk.data \in [Positions -> Byte]
  BY <1>2, DiskFields
<1>11. /\ disk' \in [size : 0 .. MaxSize, data : [Positions -> Byte]] /\ disk'.size = disk.size
       /\ \A p \in Positions :
            disk'.data[p] = IF p \in InChunk(c.base) /\ p < min(c.base + ChunkBytes(c.base), disk.size)
                            THEN c.data[p] ELSE disk.data[p]
  <2> DEFINE d == [p \in Positions |->
                     IF p \in InChunk(c.base) /\ p < min(c.base + ChunkBytes(c.base), disk.size)
                     THEN c.data[p] ELSE disk.data[p]]
  <2>1. d \in [Positions -> Byte]
    BY <1>9, <1>10
  <2>2. disk' = [disk EXCEPT !.data = d]
    BY <1>1 DEF Encrypted
  <2>3. \A p \in Positions :
            d[p] = IF p \in InChunk(c.base) /\ p < min(c.base + ChunkBytes(c.base), disk.size)
                   THEN c.data[p] ELSE disk.data[p]
    OBVIOUS
  <2> HIDE DEF d
  <2>4. disk'.data = d /\ disk'.size = disk.size
    BY <1>2, <2>2 DEF Types
  <2>5. disk' \in [size : 0 .. MaxSize, data : [Positions -> Byte]]
    BY <1>2, <2>1, <2>2 DEF Types
  <2> QED
    BY <2>3, <2>4, <2>5
<1>12. Types'
  <2>1. thread' \in [Threads -> Record]
    BY <1>3, <1>6, <1>7
  <2> QED
    BY <1>1, <1>2, <1>11, <2>1 DEF Types
<1>13. Counting'
  BY <1>1, <1>2, CountingFrame
<1>14. Serving'
  <2>1. \A u \in Threads \ {t} : Shape(u)' /\ AtWork(u)'
    BY <1>1, <1>2, <1>7, OthersFrame
  <2>2. thread'[t] = r /\ IsOpen(r.file)'
    BY <1>1, <1>4, <1>6, <1>8 DEF IsOpen
  <2>3. Shape(t)'
    BY <1>3, <1>4, <1>6, <2>2 DEF Shape
  <2>4. AtWork(t)'
    <3>1. lock' = t /\ inode'.is_dirty /\ r.chunk > 0 /\ r.at = "encrypt"
      BY <1>1, <1>4, <1>6
    <3> QED
      BY <2>2, <3>1 DEF AtWork
  <2> QED
    BY <2>1, <2>3, <2>4 DEF Serving
<1>15. Exclusive'
  BY <1>2, <1>6, <1>7, GoesOn
<1>16. Writing'
  <2>1. Storing
    BY <1>3 DEF Storing
  <2> QED
    BY <1>1, <1>2, <1>6, <1>7, <2>1, WritingFrame
<1>17. Closing'
  <2>1. \A g \in Files : IsOpen(g) => IsOpen(g)'
    BY <1>1 DEF IsOpen
  <2> QED
    BY <1>1, <1>2, <1>6, <1>7, <2>1, ClosingFrame
<1>18. Bytes'
  <2> SUFFICES ASSUME NEW p \in Positions PROVE Intact(p)'
    BY DEF Bytes
  <2>1. Intact(p) /\ p \in Nat
    BY <1>2, SizeFacts DEF Bytes
  <2>2. Used' = Used /\ Used
    BY <1>1, <1>4 DEF Used, IsOpen
  <2>3. Chunks(p)' = Chunks(p) /\ Doubled(p)' = Doubled(p)
    BY <1>1 DEF Chunks, Doubled, Holding
  <2>4. Unsized \subseteq Unsized'
    BY <1>3, <1>7, UnsizedStays
  <2>5. p \in InChunk(c.base) <=> k \in Chunks(p)
    BY <1>0, <1>9, InOwnChunk DEF Chunks, Holding
  <2>6. Untouched(p)'
    BY <1>1, <1>3, <1>6, <1>8, <1>11, <2>1, <2>2 DEF Intact, Untouched
  <2>7. Uncached(p)'
    BY <1>1, <1>11, <2>1, <2>3, <2>5 DEF Intact, Uncached
  <2>8. FetchedIsCurrent(p)'
    BY <1>1, <1>6, <1>8, <2>1, <2>3 DEF Intact, FetchedIsCurrent
  <2>9. CachedIsCurrent(p)'
    BY <1>1, <2>1, <2>3, <2>4 DEF Intact, CachedIsCurrent
  <2>10. Sized(p)' /\ Safe(p)'
    BY <1>1, <1>4, <2>1, <2>2 DEF Intact, Sized, Safe
  <2>11. StoredSoFar(p)'
    <3> SUFFICES ASSUME NEW u \in Threads, thread'[u].at = "encrypt",
                        latest[p] # Junk, p \notin spoiled, ~Doubled(p)
                 PROVE  /\ p < disk'.size
                        /\ \A i \in Chunks(p) : i < thread'[u].chunk => disk'.data[p] = latest[p]
      BY <1>1, <2>3 DEF StoredSoFar
    <3>1. u = t /\ thread'[u].chunk = k + 1
      BY <1>2, <1>3, <1>6, <1>8, NobodyElseStores
    <3>2. p < disk.size /\ \A i \in Chunks(p) : i < k => disk.data[p] = latest[p]
      BY <1>0, <1>3, <2>1 DEF Intact, StoredSoFar
    <3> SUFFICES ASSUME NEW i \in Chunks(p), i < k + 1 PROVE disk'.data[p] = latest[p]
      BY <1>11, <3>1, <3>2
    <3>3. i \in Nat
      BY <1>2, HoldingFacts DEF Chunks
    <3>4. CASE i < k
      <4>1. k \notin Chunks(p)
        BY <1>4, <3>3, <3>4 DEF Doubled, Chunks
      <4> QED
        BY <1>11, <2>5, <3>2, <3>4, <4>1
    <3>5. CASE i = k
      <4>1. p < inode.filesize
        BY <2>1, <2>2 DEF Intact, Sized
      <4>2. c.base = get_base_offset(p)
        BY <2>5, <3>5, InOwnChunk
      <4>3. p < min(c.base + ChunkBytes(c.base), disk.size)
        <5>1. /\ c.base \in Nat /\ c.base <= p /\ p < c.base + ChunkSize
              /\ ChunkSize \in Nat /\ inode.filesize \in Nat
          BY <1>2, <2>1, <4>2, BaseFacts, SizeFacts, InodeFields
        <5>2. p < c.base + ChunkBytes(c.base) /\ ChunkBytes(c.base) \in Nat
          BY <2>1, <4>1, <5>1 DEF ChunkBytes, min
        <5> QED
          BY <1>10, <2>1, <3>2, <5>1, <5>2 DEF min
      <4>4. p \notin Unsized
        <5>1. Storing
          BY <1>3 DEF Storing
        <5> QED
          BY <1>2, <5>1, UnsizedFacts DEF Writing
      <4>5. c.data[p] = latest[p]
        BY <1>0, <2>1, <3>5, <4>4 DEF Intact, CachedIsCurrent
      <4> QED
        BY <1>11, <2>5, <3>5, <4>3, <4>5
    <3> QED
      BY <1>4, <3>3, <3>4, <3>5
  <2> QED
    BY <2>6, <2>7, <2>8, <2>9, <2>10, <2>11 DEF Intact
<1> QED
  BY <1>12, <1>13, <1>14, <1>15, <1>16, <1>17, <1>18 DEF IInv

LEMMA StoreFinishStep ==
    ASSUME IInv, NEW t \in Threads, StoreFinish(t)
    PROVE  IInv'
<1>1. /\ UNCHANGED <<file_chunks, leaked, files, disk, names, writes, events, latest, spoiled>>
      /\ inode' = [inode EXCEPT !.on_disk_size = inode.filesize, !.is_dirty = FALSE]
      /\ outcome' = "none" /\ lock' = NoThread /\ StoreEnds(t)
      /\ Serves(t, {"flush", "release"}, "encrypt") /\ thread[t].chunk > Len(file_chunks)
  BY DEF StoreFinish, volume, bounds
<1>2. Types /\ Serving /\ Bytes /\ Writing /\ thread[t].at = "encrypt" /\ thread \in [Threads -> Record]
  BY <1>1 DEF IInv, Serves, Types
<1>3. /\ thread[t].file \in Files /\ IsOpen(thread[t].file) /\ lock = t
      /\ inode.is_dirty /\ thread[t].chunk \in Nat
      /\ \E r \in Record :
            /\ thread' = [thread EXCEPT ![t] = r]
            /\ r = Idle \/ (r.op = "release" /\ r.at = "close" /\ r.file = thread[t].file)
            /\ \A u \in Threads \ {t} : Apart(r, thread[u]) /\ Apart(thread[u], r)
  BY <1>1, StoreEndsFacts
<1>4. PICK r \in Record, f \in Files :
            /\ thread' = [thread EXCEPT ![t] = r] /\ f = thread[t].file
            /\ r = Idle \/ (r.op = "release" /\ r.at = "close" /\ r.file = f)
            /\ \A u \in Threads \ {t} : Apart(r, thread[u]) /\ Apart(thread[u], r)
  BY <1>3
<1>5. /\ inode' \in Inode /\ inode'.openers = inode.openers
      /\ inode'.last_accessed = inode.last_accessed /\ inode'.filesize = inode.filesize
      /\ inode'.on_disk_size = inode.filesize /\ inode'.is_dirty = FALSE
  BY <1>1, <1>2 DEF Types, Inode
<1>6. Types' /\ Counting' /\ Serving' /\ Exclusive'
  <2>1. disk' \in [size : 0 .. MaxSize, data : [Positions -> Byte]]
    BY <1>1, <1>2 DEF Types
  <2>2. leaked' \in BOOLEAN /\ events' \in Nat
    BY <1>1, <1>2 DEF Types
  <2> QED
    BY <1>1, <1>3, <1>4, <1>5, <2>1, <2>2, StoreHasEnded
<1>7. Closing'
  BY <1>5 DEF Closing
<1>8. r.at \in {"idle", "close"}
  BY <1>4, IdleFields
<1>9. \A u \in Threads : thread'[u] = IF u = t THEN r ELSE thread[u]
  BY <1>2, <1>4
<1>10. \A u \in Threads : thread'[u].at # "encrypt"
  BY <1>2, <1>8, <1>9, NobodyElseStores
<1>11. Writing'
  <2>1. Storing
    BY <1>2 DEF Storing
  <2>2. \A u \in Threads : thread[u].at = "size" => thread[u].pos \in spoiled
    BY <1>2, <2>1 DEF Writing
  <2> QED
    BY <1>1, <1>8, <1>9, <2>2 DEF Writing
<1>12. Bytes'
  <2> SUFFICES ASSUME NEW p \in Positions PROVE Intact(p)'
    BY DEF Bytes
  <2>1. Intact(p) /\ p \in Nat
    BY <1>2, SizeFacts DEF Bytes
  <2>2. Used
    BY <1>3 DEF Used
  <2>3. Chunks(p)' = Chunks(p) /\ Doubled(p)' = Doubled(p)
    BY <1>1 DEF Chunks, Doubled, Holding
  <2>4. Unsized \subseteq Unsized'
    BY <1>2, <1>4, UnsizedStays
  <2>5. Untouched(p)'
    <3>1. \A u \in Threads : thread'[u].at \in {"attr", "encrypt"} => thread'[u] = thread[u]
      BY <1>8, <1>9
    <3> QED
      BY <1>1, <1>5, <2>1, <2>2, <3>1 DEF Intact, Untouched
  <2>6. Uncached(p)'
    BY <1>1, <2>1, <2>3 DEF Intact, Uncached
  <2>7. FetchedIsCurrent(p)'
    BY <1>1, <1>8, <1>9, <2>1, <2>3 DEF Intact, FetchedIsCurrent
  <2>8. CachedIsCurrent(p)'
    BY <1>1, <2>1, <2>3, <2>4 DEF Intact, CachedIsCurrent
  <2>9. Sized(p)'
    BY <1>1, <1>5, <2>1, <2>2 DEF Intact, Sized
  <2>10. Safe(p)'
    <3> SUFFICES ASSUME latest[p] # Junk, p \notin spoiled, ~Doubled(p)
                 PROVE  p < disk.size /\ disk.data[p] = latest[p]
      <4>1. disk.size \in Nat
        BY <1>2, DiskFields
      <4> QED
        BY <1>1, <2>1, <2>3, <4>1 DEF Safe
    <3>1. p < disk.size /\ \A i \in Chunks(p) : i < thread[t].chunk => disk.data[p] = latest[p]
      BY <1>2, <2>1 DEF Intact, StoredSoFar
    <3>2. CASE Chunks(p) = {}
      BY <2>1, <3>1, <3>2 DEF Intact, Uncached
    <3>3. CASE Chunks(p) # {}
      <4>1. PICK i : i \in Chunks(p)
        BY <3>3
      <4>2. i \in 1 .. Len(file_chunks) /\ Len(file_chunks) \in Nat
        BY <1>2, <4>1, HoldingFacts DEF Chunks
      <4>3. i < thread[t].chunk
        BY <1>1, <1>3, <4>2
      <4> QED
        BY <3>1, <4>1, <4>3
    <3> QED
      BY <3>2, <3>3
  <2>11. StoredSoFar(p)'
    BY <1>10 DEF StoredSoFar
  <2> QED
    BY <2>5, <2>6, <2>7, <2>8, <2>9, <2>10, <2>11 DEF Intact
<1> QED
  BY <1>6, <1>7, <1>11, <1>12 DEF IInv

(* A store that ends with an error may spoil the chunks it was storing.    *)
LEMMA StoreSpoils ==
    ASSUME IInv, NEW t \in Threads, NEW s \in 0 .. MaxSize,
           UNCHANGED <<inode, file_chunks, files, names, latest, spoiled>>, Event, leaked' \in BOOLEAN,
           disk' \in [size : 0 .. MaxSize, data : [Positions -> Byte]], disk'.size = s,
           \A p \in Positions : p < s /\ Chunks(p) = {} => disk'.data[p] = disk.data[p],
           \A p \in Positions : latest[p] = Original => p < s,
           outcome' = "failed", lock' = NoThread, StoreEnds(t), Serves(t, {"flush", "release"}, "encrypt")
    PROVE  IInv'
<1>1. /\ UNCHANGED <<inode, file_chunks, files, names, latest, spoiled>>
      /\ outcome' = "failed" /\ lock' = NoThread
  OBVIOUS
<1>2. /\ Types /\ Serving /\ Bytes /\ Writing /\ thread[t].at = "encrypt"
      /\ thread \in [Threads -> Record] /\ thread[t] \in Record
  BY <1>1 DEF IInv, Serves, Types
<1>3. /\ thread[t].file \in Files /\ IsOpen(thread[t].file) /\ lock = t /\ inode.is_dirty
      /\ \E r \in Record :
            /\ thread' = [thread EXCEPT ![t] = r]
            /\ r = Idle \/ (r.op = "release" /\ r.at = "close" /\ r.file = thread[t].file)
            /\ \A u \in Threads \ {t} : Apart(r, thread[u]) /\ Apart(thread[u], r)
  BY <1>1, StoreEndsFacts
<1>4. PICK r \in Record, f \in Files :
            /\ thread' = [thread EXCEPT ![t] = r] /\ f = thread[t].file
            /\ r = Idle \/ (r.op = "release" /\ r.at = "close" /\ r.file = f)
            /\ \A u \in Threads \ {t} : Apart(r, thread[u]) /\ Apart(thread[u], r)
  BY <1>3
<1>5. s \in Nat
  OBVIOUS
<1>6. /\ disk' \in [size : 0 .. MaxSize, data : [Positions -> Byte]] /\ disk'.size = s
      /\ \A p \in Positions : p < s /\ Chunks(p) = {} => disk'.data[p] = disk.data[p]
  OBVIOUS
<1>7. Types' /\ Counting' /\ Serving' /\ Exclusive'
  <2>1. leaked' \in BOOLEAN /\ events' \in Nat /\ writes' = writes /\ inode' \in Inode
    BY <1>2, EventFacts DEF Types
  <2> QED
    BY <1>1, <1>3, <1>4, <1>6, <2>1, StoreHasEnded
<1>8. Closing'
  BY <1>1 DEF Closing
<1>9. r.at \in {"idle", "close"}
  BY <1>4, IdleFields
<1>10. \A u \in Threads : thread'[u] = IF u = t THEN r ELSE thread[u]
  BY <1>2, <1>4
<1>11. \A u \in Threads : thread'[u].at # "encrypt"
  BY <1>2, <1>9, <1>10, NobodyElseStores
<1>12. Writing'
  <2>1. Storing' => Storing
    BY <1>2, <1>4, <1>9, StoringFrame
  <2> QED
    BY <1>1, <1>2, <1>4, <1>9, <2>1, WritingFrame
<1>13. Bytes'
  <2> SUFFICES ASSUME NEW p \in Positions PROVE Intact(p)'
    BY DEF Bytes
  <2>1. Intact(p) /\ p \in Nat
    BY <1>2, SizeFacts DEF Bytes
  <2>2. Used' = Used
    BY <1>1 DEF Used, IsOpen
  <2>3. Chunks(p)' = Chunks(p) /\ Doubled(p)' = Doubled(p)
    BY <1>1 DEF Chunks, Doubled, Holding
  <2>4. Unsized \subseteq Unsized'
    BY <1>2, <1>4, UnsizedStays
  <2>5. latest[p] = Original => p < s
    OBVIOUS
  <2>6. Untouched(p)'
    <3>1. \A u \in Threads : thread'[u].at \in {"attr", "encrypt"} => thread'[u] = thread[u]
      BY <1>9, <1>10
    <3> QED
      BY <1>1, <1>6, <2>1, <2>2, <2>5, <3>1 DEF Intact, Untouched
  <2>7. Uncached(p)'
    BY <1>1, <1>6, <2>1, <2>3, <2>5 DEF Intact, Uncached
  <2>8. FetchedIsCurrent(p)'
    BY <1>1, <1>9, <1>10, <2>1, <2>3 DEF Intact, FetchedIsCurrent
  <2>9. CachedIsCurrent(p)'
    BY <1>1, <2>1, <2>3, <2>4 DEF Intact, CachedIsCurrent
  <2>10. Sized(p)' /\ Safe(p)'
    BY <1>1, <1>3, <2>1, <2>2 DEF Intact, Sized, Safe
  <2>11. StoredSoFar(p)'
    BY <1>11 DEF StoredSoFar
  <2> QED
    BY <2>6, <2>7, <2>8, <2>9, <2>10, <2>11 DEF Intact
<1> QED
  BY <1>7, <1>8, <1>12, <1>13 DEF IInv

LEMMA FinishFailsStep ==
    ASSUME IInv, NEW t \in Threads, FinishFails(t)
    PROVE  IInv'
<1> DEFINE s == thread[t].size
           d == [p \in Positions |->
                   IF p >= s \/ Holding(get_base_offset(p)) # {} THEN Junk ELSE disk.data[p]]
<1>1. /\ UNCHANGED <<inode, file_chunks, leaked, files, names, latest, spoiled>> /\ Event
      /\ disk' = [size |-> s, data |-> d]
      /\ outcome' = "failed" /\ lock' = NoThread /\ StoreEnds(t)
      /\ Serves(t, {"flush", "release"}, "encrypt")
  BY DEF FinishFails, StoreFails, cache
<1>2. Types /\ Bytes /\ thread[t].at = "encrypt" /\ thread[t] \in Record /\ leaked' \in BOOLEAN
  BY <1>1 DEF IInv, Serves, Types
<1>3. s \in 0 .. MaxSize /\ s \in Nat
  BY <1>2, RecordFields
<1>4. d \in [Positions -> Byte] /\ \A p \in Positions : p < s /\ Chunks(p) = {} => d[p] = disk.data[p]
  <2>1. disk.data \in [Positions -> Byte]
    BY <1>2, DiskFields
  <2> QED
    BY <1>3, <2>1, SizeFacts DEF Chunks
<1>5. \A p \in Positions : latest[p] = Original => p < s
  BY <1>2 DEF Bytes, Intact, Untouched
<1> HIDE DEF d, s
<1>6. /\ disk' \in [size : 0 .. MaxSize, data : [Positions -> Byte]] /\ disk'.size = s
      /\ \A p \in Positions : p < s /\ Chunks(p) = {} => disk'.data[p] = disk.data[p]
  BY <1>1, <1>3, <1>4
<1> QED
  BY <1>1, <1>2, <1>3, <1>5, <1>6, StoreSpoils

LEMMA EncryptFailsStep ==
    ASSUME IInv, NEW t \in Threads, EncryptFails(t)
    PROVE  IInv'
<1> DEFINE d == [p \in Positions |-> IF p \in InChunk(Current(t).base) THEN Junk ELSE disk.data[p]]
<1>1. /\ UNCHANGED <<inode, file_chunks, files, names, latest, spoiled>> /\ Event /\ leaked' = TRUE
      /\ disk' = [disk EXCEPT !.data = d]
      /\ outcome' = "failed" /\ lock' = NoThread /\ StoreEnds(t)
      /\ Serves(t, {"flush", "release"}, "encrypt") /\ thread[t].chunk <= Len(file_chunks)
  BY DEF EncryptFails, StoreFails, cache
<1>2. Types /\ Bytes /\ disk.data \in [Positions -> Byte] /\ disk.size \in 0 .. MaxSize
  BY DiskFields DEF IInv
<1>3. thread[t].chunk \in DOMAIN file_chunks
  <2>1. thread[t].chunk \in Nat /\ thread[t].chunk > 0
    BY <1>1, StoreEndsFacts
  <2> QED
    BY <1>1, <1>2, <2>1 DEF Types
<1>4. \A p \in Positions : p \in InChunk(Current(t).base) => Chunks(p) # {}
  BY <1>3 DEF InChunk, Chunks, Holding, Current
<1>5. d \in [Positions -> Byte] /\ \A p \in Positions : Chunks(p) = {} => d[p] = disk.data[p]
  BY <1>2, <1>4, SizeFacts
<1>6. \A p \in Positions : latest[p] = Original => p < disk.size
  BY <1>2 DEF Bytes, Intact, Untouched
<1> HIDE DEF d
<1>7. /\ disk' \in [size : 0 .. MaxSize, data : [Positions -> Byte]] /\ disk'.size = disk.size
      /\ \A p \in Positions : p < disk.size /\ Chunks(p) = {} => disk'.data[p] = disk.data[p]
  BY <1>1, <1>2, <1>5 DEF Types
<1> QED
  BY <1>1, <1>2, <1>6, <1>7, StoreSpoils

LEMMA file_closeStep ==
    ASSUME IInv, NEW t \in Threads, file_close(t)
    PROVE  IInv'
<1>0. PICK f : f = thread[t].file
  OBVIOUS
<1>1. /\ UNCHANGED <<file_chunks, lock, leaked, disk, names, writes, events, latest, spoiled, outcome>>
      /\ inode' = [inode EXCEPT !.openers = @ - 1]
      /\ files' = [files EXCEPT ![f] = Closed] /\ thread' = [thread EXCEPT ![t] = Idle]
  BY <1>0 DEF file_close, mutexes, volume, bounds, history, Replies
<1>2. Types /\ Counting /\ Serving /\ Exclusive /\ Bytes /\ Writing /\ Closing
  BY DEF IInv
<1>3. /\ thread[t].op = "release" /\ thread[t].at = "close"
      /\ thread \in [Threads -> Record] /\ lock = NoThread
  BY <1>2 DEF file_close, Serves, Types
<1>4. f \in Files /\ IsOpen(f)
  BY <1>0, <1>2, <1>3 DEF Serving, Shape
<1>5. files' \in [Files -> Names \union {Closed}]
      /\ \A g \in Files : IsOpen(g)' <=> IsOpen(g) /\ g # f
  BY <1>1, <1>2, <1>4 DEF Types, IsOpen
<1>6. OpenFiles' = OpenFiles \ {f} /\ f \in OpenFiles
  BY <1>4, <1>5 DEF OpenFiles
<1>7. IsFiniteSet(OpenFiles) /\ Cardinality(OpenFiles) \in Nat
  BY <1>2, OpenHandles
<1>8. Cardinality(OpenFiles') = Cardinality(OpenFiles) - 1
  BY <1>6, <1>7, FS_RemoveElement
<1>9. IsFiniteSet(OpenFiles') /\ Cardinality(OpenFiles') \in Nat
  BY <1>6, <1>7, FS_RemoveElement, FS_CardinalityType
<1>10. inode.openers - 1 = Cardinality(OpenFiles') /\ inode.openers - 1 \in Nat
  BY <1>2, <1>8, <1>9 DEF Counting
<1>11. /\ inode' \in Inode /\ inode'.openers = inode.openers - 1
       /\ inode'.last_accessed = inode.last_accessed /\ inode'.filesize = inode.filesize
       /\ inode'.on_disk_size = inode.on_disk_size /\ inode'.is_dirty = inode.is_dirty
       /\ inode'.is_deleted = inode.is_deleted
  BY <1>1, <1>2, <1>10 DEF Types, Inode
<1>12. \A u \in Threads : thread'[u] = IF u = t THEN Idle ELSE thread[u]
  BY <1>1, <1>3
<1>13. Types'
  <2>1. thread' \in [Threads -> Record]
    BY <1>1, <1>3, IdleFields
  <2> QED
    BY <1>1, <1>2, <1>5, <1>11, <2>1 DEF Types
<1>14. Counting'
  BY <1>1, <1>2, <1>10, <1>11 DEF Counting, Paths
<1>15. Serving'
  <2>1. ASSUME NEW u \in Threads \ {t}, thread[u].op \notin {"idle", "getattr"}
        PROVE  IsOpen(thread[u].file)' <=> IsOpen(thread[u].file)
    <3>1. Shape(u) /\ Apart(thread[t], thread[u]) /\ thread[u] \in Record /\ thread'[u] = thread[u]
      BY <1>2, <1>3, <1>12 DEF Serving, Exclusive
    <3>2. thread[u].file \in Files
      BY <3>1, <2>1, RecordFields DEF Shape
    <3>3. thread[u].file # f
      <4>1. CASE thread[u].op = "open"
        BY <1>4, <3>1, <4>1 DEF Shape
      <4>2. CASE thread[u].op \in {"read", "write", "flush", "release"}
        BY <1>0, <1>3, <3>1, <4>2 DEF Apart
      <4> QED
        BY <2>1, <3>1, <4>1, <4>2, RecordFields
    <3> QED
      BY <1>5, <3>1, <3>2, <3>3 DEF IsOpen
  <2>2. \A u \in Threads \ {t} : Shape(u)' /\ AtWork(u)'
    BY <1>1, <1>2, <1>11, <2>1, OthersStay
  <2>3. lock' # t
    BY <1>1, <1>3, ThreadsAssumption
  <2>4. Shape(t)' /\ AtWork(t)'
    BY <1>12, <2>3, IdleFields DEF Shape, AtWork
  <2> QED
    BY <2>2, <2>4 DEF Serving
<1>16. Exclusive'
  BY <1>1, <1>2, IdleFields, GoesOn
<1>17. Bytes'
  <2>1. Used' => Used
    BY <1>5, <1>11 DEF Used
  <2>2. Knows(Idle)
    BY IdleFields DEF Knows
  <2> QED
    BY <1>1, <1>2, <1>3, <1>11, <2>1, <2>2, BytesFrame
<1>18. Writing'
  <2>1. Storing' => Storing
    BY <1>1, <1>2, IdleFields, StoringFrame
  <2> QED
    BY <1>1, <1>2, <1>11, <2>1, IdleFields, WritingFrame
<1>19. Closing'
  <2> SUFFICES ASSUME inode'.is_dirty, outcome' = "none" PROVE \E g \in Files : StaysOpen(g)'
    BY DEF Closing
  <2>1. PICK g \in Files : StaysOpen(g)
    BY <1>1, <1>2, <1>11 DEF Closing
  <2>2. g # f
    BY <1>0, <1>3, <2>1 DEF StaysOpen
  <2>3. IsOpen(g)'
    BY <1>5, <2>1, <2>2 DEF StaysOpen
  <2>4. StaysOpen(g)'
    BY <1>12, <2>1, <2>3, IdleFields DEF StaysOpen
  <2> QED
    BY <2>4
<1> QED
  BY <1>13, <1>14, <1>15, <1>16, <1>17, <1>18, <1>19 DEF IInv
-----------------------------------------------------------------------------
(* Requests that change the file in the backend.                           *)

LEMMA ChangesFrame ==
    ASSUME IInv, Changes, inode' \in Inode,
           inode'.filesize = inode.filesize, inode'.on_disk_size = inode.on_disk_size,
           inode'.is_dirty = inode.is_dirty, inode'.last_accessed = inode.last_accessed,
           inode'.openers = inode.openers, inode.is_deleted => inode'.is_deleted,
           disk' \in [size : 0 .. MaxSize, data : [Positions -> Byte]],
           names' \in Seq(Names), latest' \in [Positions -> Byte]
    PROVE  /\ Types' /\ Serving' /\ Exclusive' /\ Writing' /\ Closing'
           /\ (disk' = disk /\ latest' = latest) => Bytes'
<1>1. UNCHANGED <<file_chunks, lock, leaked, files, thread, spoiled, outcome>> /\ Event
  BY DEF Changes, mutexes
<1>2. Types /\ Serving /\ Exclusive /\ Writing /\ Closing /\ Bytes
  BY DEF IInv
<1>3. Types'
  BY <1>1, <1>2, EventFacts DEF Types
<1>4. Serving'
  <2> SUFFICES ASSUME NEW t \in Threads PROVE Shape(t)' /\ AtWork(t)'
    BY DEF Serving
  <2>1. Shape(t) /\ AtWork(t)
    BY <1>2 DEF Serving
  <2>2. \A b : Holding(b)' = Holding(b)
    BY <1>1 DEF Holding
  <2>3. Shape(t)'
    BY <1>1, <2>1 DEF Shape, IsOpen
  <2>4. AtWork(t)'
    BY <1>1, <2>1, <2>2 DEF AtWork
  <2> QED
    BY <2>3, <2>4
<1>5. Exclusive'
  BY <1>1, <1>2 DEF Exclusive
<1>6. Writing'
  BY <1>1, <1>2 DEF Writing, Storing
<1>7. Closing'
  BY <1>1, <1>2 DEF Closing, StaysOpen, IsOpen
<1>8. ASSUME disk' = disk, latest' = latest PROVE Bytes'
  <2>1. PICK t \in Threads : thread[t] = Idle
    BY DEF Changes
  <2>2. thread' = [thread EXCEPT ![t] = Idle]
    BY <1>1, <1>2, <2>1 DEF Types
  <2>3. Knows(Idle)
    BY IdleFields DEF Knows
  <2>4. Used' => Used
    BY <1>1 DEF Used, IsOpen
  <2>5. thread[t].at # "size"
    BY <2>1, IdleFields
  <2> QED
    BY <1>1, <1>2, <1>8, <2>2, <2>3, <2>4, <2>5, BytesFrame
<1> QED
  BY <1>3, <1>4, <1>5, <1>6, <1>7, <1>8

LEMMA nxs_fuse_truncateStep ==
    ASSUME IInv, NEW size \in Sizes, nxs_fuse_truncate(size)
    PROVE  IInv'
<1>1. /\ Changes /\ UNCHANGED <<inode, file_chunks, files, thread, names, spoiled>>
      /\ disk' = Resize(size)
      /\ latest' = [p \in Positions |-> IF p < size THEN latest[p] ELSE Junk]
  BY DEF nxs_fuse_truncate, Changes
<1>2. Types /\ Counting /\ Bytes
  BY DEF IInv
<1>3. size \in 0 .. MaxSize /\ size \in Nat /\ disk.size \in Nat
  BY <1>2, SizeFacts, DiskFields
<1>4. /\ disk' \in [size : 0 .. MaxSize, data : [Positions -> Byte]] /\ disk'.size = size
      /\ \A p \in Positions : p < size /\ p < disk.size => disk'.data[p] = disk.data[p]
  BY <1>1, <1>2, <1>3, ResizeFacts
<1>5. /\ latest' \in [Positions -> Byte]
      /\ \A p \in Positions : latest'[p] # Junk => p < size /\ latest'[p] = latest[p]
  <2>1. \A p \in Positions : latest[p] \in Byte /\ p \in Nat
    BY <1>2, DiskFields, SizeFacts
  <2>2. latest' \in [Positions -> Byte]
    BY <1>1, <2>1, SizeFacts
  <2>3. \A p \in Positions : latest'[p] # Junk => p < size /\ latest'[p] = latest[p]
    BY <1>1, <1>3, <2>1
  <2> QED
    BY <2>2, <2>3
<1>6. inode' \in Inode /\ names' \in Seq(Names)
  BY <1>1, <1>2 DEF Types
<1>7. Types' /\ Serving' /\ Exclusive' /\ Writing' /\ Closing'
  BY <1>1, <1>4, <1>5, <1>6, ChangesFrame
<1>8. Counting'
  BY <1>1, <1>2, CountingFrame
<1>9. Bytes'
  <2> SUFFICES ASSUME NEW p \in Positions PROVE Intact(p)'
    BY DEF Bytes
  <2>1. Intact(p)
    BY <1>2 DEF Bytes
  <2>2. Used' = Used /\ Unsized' = Unsized
    BY <1>1 DEF Used, IsOpen, Unsized, Writers
  <2>3. Chunks(p)' = Chunks(p) /\ Doubled(p)' = Doubled(p)
    BY <1>1 DEF Chunks, Doubled, Holding
  <2>4. CASE latest'[p] = Junk
    BY <2>4, SizeFacts DEF Intact, Untouched, Uncached, FetchedIsCurrent, CachedIsCurrent, Sized, Safe,
                           StoredSoFar
  <2>5. CASE latest'[p] # Junk
    <3>1. /\ latest'[p] = latest[p] /\ p < size /\ p \in Nat
          /\ p < disk.size => disk'.data[p] = disk.data[p]
          /\ disk'.size = size
      BY <1>4, <1>5, <2>5, SizeFacts
    <3>2. Untouched(p)'
      BY <1>1, <2>1, <2>2, <3>1 DEF Intact, Untouched
    <3>3. Uncached(p)' /\ FetchedIsCurrent(p)'
      BY <1>1, <2>1, <2>3, <3>1 DEF Intact, Untouched, Uncached, FetchedIsCurrent
    <3>4. CachedIsCurrent(p)'
      BY <1>1, <2>1, <2>2, <2>3, <3>1 DEF Intact, CachedIsCurrent
    <3>5. Sized(p)'
      BY <1>1, <2>1, <2>2, <3>1 DEF Intact, Sized
    <3>6. Safe(p)'
      BY <1>1, <1>3, <2>1, <2>3, <3>1 DEF Intact, Safe
    <3>7. StoredSoFar(p)'
      BY <1>1, <2>1, <2>3, <3>1 DEF Intact, StoredSoFar
    <3> QED
      BY <3>2, <3>3, <3>4, <3>5, <3>6, <3>7 DEF Intact
  <2> QED
    BY <2>4, <2>5
<1> QED
  BY <1>7, <1>8, <1>9 DEF IInv

LEMMA PathsAreFinite ==
    ASSUME Types
    PROVE  IsFiniteSet(Paths)
<1>1. Paths \subseteq Names
  BY DEF Types, Paths
<1> QED
  BY <1>1, FilesAssumption, FS_Subset

LEMMA nxs_fuse_hardlinkStep ==
    ASSUME IInv, NEW n \in Names, nxs_fuse_hardlink(n)
    PROVE  IInv'
<1>1. /\ Changes /\ UNCHANGED <<inode, files, disk, latest>>
      /\ n \notin Paths /\ names' = Append(names, n)
  BY DEF nxs_fuse_hardlink, Changes
<1>2. Types /\ Counting /\ names \in Seq(Names) /\ Len(names) \in Nat /\ DOMAIN names = 1 .. Len(names)
  BY DEF IInv, Types
<1>3. /\ names' \in Seq(Names) /\ Len(names') = Len(names) + 1 /\ DOMAIN names' = 1 .. Len(names) + 1
      /\ \A i \in 1 .. Len(names) : names'[i] = names[i]
      /\ names'[Len(names) + 1] = n
  BY <1>1, <1>2
<1>4. inode' \in Inode /\ disk' \in [size : 0 .. MaxSize, data : [Positions -> Byte]]
      /\ latest' \in [Positions -> Byte]
  BY <1>1, <1>2 DEF Types
<1>5. Types' /\ Serving' /\ Exclusive' /\ Writing' /\ Closing' /\ Bytes'
  BY <1>1, <1>3, <1>4, ChangesFrame
<1>6. Counting'
  <2>1. Paths' = Paths \union {n}
    <3>1. Paths \union {n} \subseteq Paths'
      BY <1>2, <1>3 DEF Paths
    <3>2. ASSUME NEW i \in DOMAIN names' PROVE names'[i] \in Paths \union {n}
      <4>1. CASE i \in 1 .. Len(names)
        BY <1>2, <1>3, <4>1 DEF Paths
      <4>2. CASE i = Len(names) + 1
        BY <1>3, <4>2
      <4> QED
        BY <1>2, <1>3, <4>1, <4>2
    <3> QED
      BY <3>1, <3>2 DEF Paths
  <2>2. Cardinality(Paths') = Len(names')
    <3>1. IsFiniteSet(Paths) /\ Cardinality(Paths) = Len(names)
      BY <1>2, PathsAreFinite DEF Counting
    <3>2. Cardinality(Paths \union {n}) = Cardinality(Paths) + 1
      BY <1>1, <3>1, FS_AddElement
    <3> QED
      BY <1>3, <2>1, <3>1, <3>2
  <2>3. ASSUME NEW i \in DOMAIN names', NEW j \in DOMAIN names', names'[i] = names'[j] PROVE i = j
    <3>1. \A k \in 1 .. Len(names) : names[k] # n
      BY <1>1, <1>2 DEF Paths
    <3>2. \A k \in 1 .. Len(names) + 1 : k \in 1 .. Len(names) \/ k = Len(names) + 1
      BY <1>2
    <3>3. \A k, l \in 1 .. Len(names) : names[k] = names[l] => k = l
      BY <1>2 DEF Counting
    <3> QED
      BY <1>3, <2>3, <3>1, <3>2, <3>3
  <2>4. OpenFiles' = OpenFiles
    BY <1>1 DEF OpenFiles, IsOpen
  <2> QED
    BY <1>1, <1>2, <2>2, <2>3, <2>4 DEF Counting
<1> QED
  BY <1>5, <1>6 DEF IInv

LEMMA nxs_fuse_removeStep ==
    ASSUME IInv, NEW n \in Names, nxs_fuse_remove(n)
    PROVE  IInv'
<1>1. /\ Changes /\ UNCHANGED <<files, disk, latest>>
      /\ n \in Paths /\ names' = Without(n)
      /\ inode' = [inode EXCEPT !.is_deleted = @ \/ inode.link_count <= 1]
  BY DEF nxs_fuse_remove, Changes
<1>2. Types /\ Counting /\ names \in Seq(Names) /\ Len(names) \in Nat /\ DOMAIN names = 1 .. Len(names)
  BY DEF IInv, Types
<1> DEFINE gone == CHOOSE i \in DOMAIN names : names[i] = n
<1>3. gone \in DOMAIN names /\ names[gone] = n
  BY <1>1 DEF Paths
<1>4. names' = [i \in 1 .. Len(names) - 1 |-> IF i < gone THEN names[i] ELSE names[i + 1]]
  BY <1>1 DEF Without
<1> HIDE DEF gone
<1>5. Len(names) - 1 \in Nat /\ gone \in Nat /\ gone >= 1 /\ gone <= Len(names)
  BY <1>2, <1>3
<1>6. /\ names' \in Seq(Names) /\ Len(names') = Len(names) - 1 /\ DOMAIN names' = 1 .. Len(names) - 1
      /\ \A i \in 1 .. Len(names) - 1 : names'[i] = IF i < gone THEN names[i] ELSE names[i + 1]
  <2>1. \A i \in 1 .. Len(names) - 1 : i \in DOMAIN names /\ i + 1 \in DOMAIN names
    BY <1>2
  <2>2. \A i \in 1 .. Len(names) - 1 : (IF i < gone THEN names[i] ELSE names[i + 1]) \in Names
    BY <1>2, <2>1
  <2> QED
    BY <1>4, <1>5, <2>2
<1>7. /\ inode' \in Inode /\ inode'.openers = inode.openers
      /\ inode'.last_accessed = inode.last_accessed /\ inode'.filesize = inode.filesize
      /\ inode'.on_disk_size = inode.on_disk_size /\ inode'.is_dirty = inode.is_dirty
      /\ (inode.is_deleted => inode'.is_deleted)
  <2>1. PICK d \in BOOLEAN : inode' = [inode EXCEPT !.is_deleted = d] /\ (inode.is_deleted => d)
    BY <1>1
  <2> QED
    BY <1>2, <2>1 DEF Types, Inode
<1>8. disk' \in [size : 0 .. MaxSize, data : [Positions -> Byte]] /\ latest' \in [Positions -> Byte]
  BY <1>1, <1>2 DEF Types
<1>9. Types' /\ Serving' /\ Exclusive' /\ Writing' /\ Closing' /\ Bytes'
  BY <1>1, <1>6, <1>7, <1>8, ChangesFrame
<1>10. Counting'
  <2>0. \A k, l \in 1 .. Len(names) : names[k] = names[l] => k = l
    BY <1>2 DEF Counting
  <2>1. Paths' = Paths \ {n}
    <3>1. ASSUME NEW i \in 1 .. Len(names) - 1 PROVE names'[i] \in Paths \ {n}
      <4>1. CASE i < gone
        <5>1. i \in 1 .. Len(names) /\ i # gone /\ names'[i] = names[i]
          BY <1>2, <1>5, <1>6, <3>1, <4>1
        <5> QED
          BY <1>2, <1>3, <2>0, <5>1 DEF Paths
      <4>2. CASE ~(i < gone)
        <5>1. i + 1 \in 1 .. Len(names) /\ i + 1 # gone /\ names'[i] = names[i + 1]
          BY <1>2, <1>5, <1>6, <3>1, <4>2
        <5> QED
          BY <1>2, <1>3, <2>0, <5>1 DEF Paths
      <4> QED
        BY <4>1, <4>2
    <3>2. ASSUME NEW k \in 1 .. Len(names), names[k] # n
          PROVE  \E i \in 1 .. Len(names) - 1 : names'[i] = names[k]
      <4>1. k # gone
        BY <1>3, <3>2
      <4>2. CASE k < gone
        <5>1. k \in 1 .. Len(names) - 1 /\ names'[k] = names[k]
          BY <1>2, <1>5, <1>6, <4>2
        <5> QED
          BY <5>1
      <4>3. CASE k > gone
        <5>1. k - 1 \in 1 .. Len(names) - 1 /\ ~(k - 1 < gone) /\ k - 1 + 1 = k
          BY <1>2, <1>5, <4>3
        <5>2. names'[k - 1] = names[k]
          BY <1>6, <5>1
        <5> QED
          BY <5>1, <5>2
      <4> QED
        BY <1>2, <1>5, <4>1, <4>2, <4>3
    <3>3. Paths' = {names'[i] : i \in 1 .. Len(names) - 1} /\ Paths = {names[i] : i \in 1 .. Len(names)}
      BY <1>2, <1>6 DEF Paths
    <3> QED
      BY <3>1, <3>2, <3>3
  <2>2. Cardinality(Paths') = Len(names')
    BY <1>1, <1>2, <1>6, <2>1, PathsAreFinite, FS_RemoveElement DEF Counting
  <2>3. ASSUME NEW i \in DOMAIN names', NEW j \in DOMAIN names', names'[i] = names'[j] PROVE i = j
    <3>1. PICK k, l : /\ k = (IF i < gone THEN i ELSE i + 1) /\ l = (IF j < gone THEN j ELSE j + 1)
      OBVIOUS
    <3>2. i \in Nat /\ j \in Nat /\ i >= 1 /\ j >= 1 /\ i <= Len(names) - 1 /\ j <= Len(names) - 1
      BY <1>6
    <3>3. k \in 1 .. Len(names) /\ l \in 1 .. Len(names)
      BY <1>2, <1>5, <3>1, <3>2
    <3>4. names'[i] = names[k] /\ names'[j] = names[l]
      BY <1>6, <3>1
    <3>5. k = l
      BY <2>0, <2>3, <3>3, <3>4
    <3> QED
      BY <1>5, <3>1, <3>2, <3>5
  <2>4. OpenFiles' = OpenFiles
    BY <1>1 DEF OpenFiles, IsOpen
  <2> QED
    BY <1>2, <1>7, <2>2, <2>3, <2>4 DEF Counting
<1> QED
  BY <1>9, <1>10 DEF IInv
-----------------------------------------------------------------------------
(* The theorems.                                                           *)

LEMMA InitIInv ==
    ASSUME Init
    PROVE  IInv
<1>1. PICK size \in Sizes, created \in SUBSET Files, n \in Names, m \in Names :
          /\ created # {} => Cardinality(created) = 1 /\ size = 0 /\ m = n
          /\ names = IF m = n THEN <<n>> ELSE <<n, m>>
          /\ inode = [NewInode EXCEPT !.openers = Cardinality(created)]
          /\ files = [f \in Files |-> IF f \in created THEN n ELSE Closed]
          /\ disk = [size |-> size, data |-> Content(size)] /\ latest = Content(size)
  BY DEF Init
<1>2. /\ file_chunks = <<>> /\ lock = NoThread /\ leaked = FALSE /\ thread = [t \in Threads |-> Idle]
      /\ writes = 0 /\ events = 0 /\ spoiled = {} /\ outcome = "none"
  BY DEF Init
<1>3. size \in 0 .. MaxSize /\ size \in Nat
  BY SizeFacts
<1>4. /\ Content(size) \in [Positions -> Byte]
      /\ \A p \in Positions : Content(size)[p] = IF p < size THEN Original ELSE Junk
  BY SizeFacts DEF Content
<1>5. IsFiniteSet(created) /\ Cardinality(created) \in Nat
  BY FilesAssumption, FS_Subset, FS_CardinalityType
<1>6. /\ inode \in Inode /\ inode.openers = Cardinality(created)
      /\ inode.is_dirty = FALSE /\ inode.last_accessed = FALSE
  <2>1. NewInode \in Inode
    <3>1. Cardinality(Names) \in Nat
      BY FilesAssumption, FS_CardinalityType
    <3>2. 0 \in 0 .. Cardinality(Names) /\ 0 \in 0 .. MaxSize
      BY <3>1, SizeFacts
    <3> QED
      BY <3>2 DEF NewInode, Inode
  <2>2. NewInode.is_dirty = FALSE /\ NewInode.last_accessed = FALSE
    BY DEF NewInode
  <2> QED
    BY <1>1, <1>5, <2>1, <2>2 DEF Inode
<1>7. \A t \in Threads : thread[t] = Idle
  BY <1>2
<1>8. disk.size = size /\ disk.data = Content(size)
  BY <1>1
<1>9. names \in Seq(Names)
  BY <1>1
<1>10. Types
  <2>1. disk \in [size : 0 .. MaxSize, data : [Positions -> Byte]] /\ latest \in [Positions -> Byte]
    BY <1>1, <1>3, <1>4
  <2>2. files \in [Files -> Names \union {Closed}]
    BY <1>1
  <2>3. writes \in 0 .. MaxWrites /\ events \in Nat
    BY <1>2, SizeFacts
  <2>4. thread \in [Threads -> Record]
    BY <1>2, IdleFields
  <2>5. file_chunks \in Seq(Chunk) /\ DOMAIN file_chunks = {}
    BY <1>2
  <2> QED
    BY <1>2, <1>6, <1>9, <2>1, <2>2, <2>3, <2>4, <2>5 DEF Types
<1>11. Counting
  <2>1. OpenFiles = created
    <3>1. n # Closed
      BY FilesAssumption DEF Closed
    <3> QED
      BY <1>1, <3>1 DEF OpenFiles, IsOpen
  <2>2. CASE m = n
    <3>1. names = <<n>> /\ Len(names) = 1 /\ DOMAIN names = {1} /\ names[1] = n
      BY <1>1, <2>2
    <3>2. Paths = {n}
      BY <3>1 DEF Paths
    <3>3. Cardinality(Paths) = 1
      BY <3>2, FS_Singleton
    <3> QED
      BY <1>6, <2>1, <3>1, <3>3 DEF Counting
  <2>3. CASE m # n
    <3>1. names = <<n, m>> /\ Len(names) = 2 /\ DOMAIN names = {1, 2} /\ names[1] = n /\ names[2] = m
      BY <1>1, <2>3
    <3>2. Paths = {n} \union {m}
      BY <3>1 DEF Paths
    <3>3. IsFiniteSet({n}) /\ Cardinality({n}) = 1 /\ m \notin {n}
      BY <2>3, FS_Singleton
    <3>4. Cardinality(Paths) = 2
      BY <3>2, <3>3, FS_AddElement
    <3>5. \A i, j \in DOMAIN names : names[i] = names[j] => i = j
      BY <2>3, <3>1
    <3> QED
      BY <1>6, <2>1, <3>1, <3>4, <3>5 DEF Counting
  <2> QED
    BY <2>2, <2>3
<1>12. Serving /\ Exclusive
  <2>1. \A t \in Threads : lock # t
    BY <1>2, ThreadsAssumption
  <2> QED
    BY <1>7, <2>1, IdleFields DEF Serving, Shape, AtWork, Exclusive, Apart
<1>13. Bytes
  <2> SUFFICES ASSUME NEW p \in Positions PROVE Intact(p)
    BY DEF Bytes
  <2>1. latest[p] = disk.data[p] /\ latest[p] = (IF p < size THEN Original ELSE Junk) /\ p \in Nat
    BY <1>1, <1>4, <1>8, SizeFacts
  <2>2. Chunks(p) = {}
    BY <1>2 DEF Chunks, Holding
  <2>3. Used => size = 0
    BY <1>1, <1>6 DEF Used, IsOpen
  <2>4. Untouched(p)
    <3>1. latest[p] = Original => p < size /\ ~Used
      BY <1>3, <2>1, <2>3, SizeFacts
    <3> QED
      BY <1>7, <1>8, <3>1, IdleFields DEF Untouched
  <2>5. Uncached(p) /\ FetchedIsCurrent(p) /\ CachedIsCurrent(p) /\ StoredSoFar(p)
    BY <1>7, <2>1, <2>2, IdleFields DEF Uncached, FetchedIsCurrent, CachedIsCurrent, StoredSoFar
  <2>6. Sized(p)
    BY <1>3, <2>1, <2>3 DEF Sized
  <2>7. Safe(p)
    BY <1>3, <1>8, <2>1 DEF Safe
  <2> QED
    BY <2>4, <2>5, <2>6, <2>7 DEF Intact
<1>14. Writing /\ Closing
  BY <1>6, <1>7, IdleFields DEF Writing, Closing
<1> QED
  BY <1>10, <1>11, <1>12, <1>13, <1>14 DEF IInv

LEMMA StutterStep ==
    ASSUME IInv, UNCHANGED <<cache, mutexes, files, thread, volume, bounds, history>>
    PROVE  IInv'
<1>1. UNCHANGED <<inode, file_chunks, lock, leaked, files, thread, disk, names, writes, events,
                  latest, spoiled, outcome>>
  BY DEF cache, mutexes, volume, bounds, history
<1>2. Types' = Types /\ Counting' = Counting /\ Exclusive' = Exclusive
  BY <1>1 DEF Types, Counting, OpenFiles, IsOpen, Paths, Exclusive
<1>3. Serving' = Serving
  BY <1>1 DEF Serving, Shape, AtWork, IsOpen, Holding
<1>4. Bytes' = Bytes
  BY <1>1 DEF Bytes, Intact, Untouched, Uncached, FetchedIsCurrent, CachedIsCurrent, Sized, Safe,
              StoredSoFar, Chunks, Holding, Doubled, Used, IsOpen, Unsized, Writers
<1>5. Writing' = Writing /\ Closing' = Closing
  BY <1>1 DEF Writing, Storing, Closing, StaysOpen, IsOpen
<1> QED
  BY <1>2, <1>3, <1>4, <1>5 DEF IInv

LEMMA DiesStep ==
    ASSUME IInv, Dies
    PROVE  IInv'
BY StutterStep DEF Dies

LEMMA RequestStep ==
    ASSUME IInv, NEW t \in Threads, Request(t)
    PROVE  IInv'
<1>1. CASE nxs_fuse_getattr(t)
  BY <1>1, GetattrStep DEF nxs_fuse_getattr
<1>2. CASE \E f \in Files : nxs_fuse_open(t, f)
  BY <1>2, GetattrStep DEF nxs_fuse_open
<1>3. ASSUME NEW op \in {"flush", "release"}, NEW f \in Files, Admitted(f, op), nexus_fuse_store(t, op, f)
      PROVE  IInv'
  <2>1. thread[t] = Idle /\ IsOpen(f) /\ lock = NoThread /\ UNCHANGED files
    BY <1>3 DEF nexus_fuse_store
  <2>2. CASE StoreClean(t, op, f)
    BY <1>3, <2>1, <2>2, StoreCleanStep
  <2>3. CASE StoreSkips(t, op, f)
    BY <1>3, <2>1, <2>3, StoreSkipsStep
  <2>4. CASE StoreStart(t, op, f)
    BY <1>3, <2>1, <2>4, StoreStartStep
  <2>5. CASE StoreStartFails(t, op, f)
    BY <1>3, <2>1, <2>5, StoreStartFailsStep
  <2> QED
    BY <1>3, <2>2, <2>3, <2>4, <2>5 DEF nexus_fuse_store
<1>4. ASSUME NEW f \in Files, nxs_fuse_flush(t, f) PROVE IInv'
  <2>1. Admitted(f, "flush") /\ nexus_fuse_store(t, "flush", f)
    BY <1>4 DEF nxs_fuse_flush, Admitted
  <2> QED
    BY <1>3, <2>1
<1>5. ASSUME NEW f \in Files, nxs_fuse_release(t, f) PROVE IInv'
  <2>1. Admitted(f, "release") /\ nexus_fuse_store(t, "release", f)
    BY <1>5 DEF nxs_fuse_release, Admitted, Busy
  <2> QED
    BY <1>3, <2>1
<1>6. CASE \E f \in Files, pos \in WriteOffsets : nxs_fuse_write(t, f, pos)
  BY <1>6, nxs_fuse_writeStep
<1>7. CASE \E f \in Files, pos \in ReadOffsets : nxs_fuse_read(t, f, pos)
  BY <1>7, nxs_fuse_readStep
<1>8. CASE \E f \in Files : HandleDies(t, f)
  BY <1>8, DiesStep DEF HandleDies
<1> QED
  BY <1>1, <1>2, <1>4, <1>5, <1>6, <1>7, <1>8 DEF Request

LEMMA NextIInv ==
    ASSUME IInv, [Next]_vars
    PROVE  IInv'
<1>1. ASSUME NEW t \in Threads, Step(t) PROVE IInv'
  BY <1>1, SetAttrStep, file_openStep, file_try_add_chunkStep, update_file_chunkStep, file_writeStep,
     StoreChunkStep, SeekFailsStep, EncryptFailsStep, StoreFinishStep, FinishFailsStep, file_closeStep,
     DiesStep DEF Step, OpenDies
<1>2. ASSUME NEW t \in Threads, Request(t) PROVE IInv'
  BY <1>2, RequestStep
<1>3. CASE \E size \in Sizes : nxs_fuse_truncate(size)
  BY <1>3, nxs_fuse_truncateStep
<1>4. CASE \E n \in Names : nxs_fuse_hardlink(n) \/ nxs_fuse_remove(n)
  BY <1>4, nxs_fuse_hardlinkStep, nxs_fuse_removeStep
<1>5. CASE UNCHANGED vars
  BY <1>5, StutterStep DEF vars
<1> QED
  BY <1>1, <1>2, <1>3, <1>4, <1>5 DEF Next

LEMMA Invariance == Spec => []IInv
BY InitIInv, NextIInv, PTL DEF Spec

(* The dentries that unlinks take from the inode.                          *)
DentriesTyped == detached \subseteq Files \union Threads /\ alive \in BOOLEAN

LEMMA Dentries == Spec => []DentriesTyped
<1>1. Init => DentriesTyped
  BY DEF Init, DentriesTyped
<1>2. DentriesTyped /\ [Next]_vars => DentriesTyped'
  <2> SUFFICES ASSUME DentriesTyped, [Next]_vars PROVE DentriesTyped'
    OBVIOUS
  <2>1. CASE UNCHANGED vars
    BY <2>1 DEF vars, dentry, DentriesTyped
  <2>2. ASSUME NEW t \in Threads, Step(t) PROVE DentriesTyped'
    BY <2>2 DEF Step, SetAttr, file_open, OpenDies, Dies, file_try_add_chunk, update_file_chunk, file_write,
          StoreChunk, SeekFails, EncryptFails, StoreFinish, FinishFails, file_close, dentry, DentriesTyped
  <2>3. ASSUME NEW t \in Threads, Request(t) PROVE DentriesTyped'
    BY <2>3 DEF Request, nxs_fuse_getattr, nxs_fuse_open, nexus_fuse_getattr, nxs_fuse_flush,
          nxs_fuse_release, nexus_fuse_store, StoreClean, StoreSkips, StoreStart, StoreStartFails,
          nxs_fuse_write, nxs_fuse_read, HandleDies, Dies, dentry, DentriesTyped
  <2>4. CASE \E size \in Sizes : nxs_fuse_truncate(size)
    BY <2>4 DEF nxs_fuse_truncate, Changes, DentriesTyped
  <2>5. CASE \E n \in Names : nxs_fuse_hardlink(n) \/ nxs_fuse_remove(n)
    BY <2>5 DEF nxs_fuse_hardlink, nxs_fuse_remove, Changes, Detaches, DentriesTyped
  <2> QED
    BY <2>1, <2>2, <2>3, <2>4, <2>5 DEF Next
<1> QED
  BY <1>1, <1>2, PTL DEF Spec

(* The inode, its chunks, the handles and the file of the volume keep      *)
(* their types, and inode->openers counts the handles that are open        *)
(* (file_open, file_close) whatever the order of opens and releases.       *)
THEOREM TypeCorrect == Spec => []TypeOK
<1>1. IInv /\ DentriesTyped => TypeOK
  BY DEF IInv, Types, TypeOK, DentriesTyped, Inode, Counting, OpenFiles
<1> QED
  BY <1>1, Invariance, Dentries, PTL

(* A completed write that is not in the volume is in a chunk of a dirty    *)
(* inode, so that a later nexus_fuse_store finds it, unless the write met  *)
(* one of the cases that lose it (a store, a stale stat, a chunk that was  *)
(* added twice, an inode taken for deleted, or the daemon's death through  *)
(* the dentry of an unlinked name, io.c:97).                               *)
THEOREM UnstoredIsDirty == Spec => []UnstoredStaysDirty
<1>1. IInv => UnstoredStaysDirty
  BY DEF IInv, Bytes, Intact, Safe, UnstoredStaysDirty
<1> QED
  BY <1>1, Invariance, PTL

(* When the last handle is closed, nexus_fuse_store of some close has      *)
(* stored the file, although every close that sees another opener skips    *)
(* it: unless the store failed or two closes crossed.                      *)
THEOREM LastCloseStores == Spec => []ClosedIsStored
<1>1. ASSUME IInv PROVE ClosedIsStored
  <2> SUFFICES ASSUME inode.openers = 0, inode.is_dirty, outcome = "none" PROVE FALSE
    BY <1>1 DEF ClosedIsStored, IInv, Types
  <2>1. PICK f \in Files : IsOpen(f)
    BY <1>1 DEF IInv, Closing, StaysOpen
  <2>2. IsFiniteSet(OpenFiles) /\ Cardinality(OpenFiles) = 0
    BY <1>1, OpenHandles DEF IInv, Counting
  <2>3. OpenFiles = {}
    BY <2>2, FS_EmptySet
  <2> QED
    BY <2>1, <2>3 DEF OpenFiles
<1> QED
  BY <1>1, Invariance, PTL

(* The chunk that __file_find_chunk returns has the bytes of the last      *)
(* completed writes and of the file, or of a write that is being made,     *)
(* unless the chunk was added twice.                                       *)
THEOREM CachedChunksAreCurrent == Spec => []CacheIsCurrent
<1>1. ASSUME IInv PROVE CacheIsCurrent
  <2> SUFFICES ASSUME NEW p \in Positions, latest[p] # Junk, find_chunk(p) # 0,
                      p \notin Unsized, ~Doubled(p)
               PROVE  file_chunks[find_chunk(p)].data[p] = latest[p]
    BY DEF CacheIsCurrent
  <2>1. find_chunk(p) \in Chunks(p)
    BY <1>1, FindChunk DEF IInv, Chunks
  <2> QED
    BY <1>1, <2>1 DEF IInv, Bytes, Intact, CachedIsCurrent
<1> QED
  BY <1>1, Invariance, PTL

(* What a request can wait for: inode->lock in vfs_file_alloc, in          *)
(* __file_try_add_chunk and in file_close, and the mutex of the encryption *)
(* buffer in nexus_fuse_store.                                             *)
Waits(t) ==
    \/ thread[t].at \in {"alloc", "add", "close"} /\ lock # NoThread
    \/ thread[t].at = "encrypt" /\ leaked

(* Nobody waits for somebody who waits: the holder of inode->lock is       *)
(* always another thread, which is in the middle of nexus_fuse_store and   *)
(* needs nothing that is held, whatever stores failed before, unless a     *)
(* failed encryption left the mutex of the buffer locked.                  *)
THEOREM NobodyWaitsForAWaiter ==
    Spec => [](\A t \in Threads : Waits(t) =>
                  leaked \/ (lock \in Threads \ {t} /\ Storing /\ ~Waits(lock)))
<1> DEFINE Claim == \A t \in Threads : Waits(t) =>
                       leaked \/ (lock \in Threads \ {t} /\ Storing /\ ~Waits(lock))
<1>1. ASSUME IInv PROVE Claim
  <2> SUFFICES ASSUME NEW t \in Threads, Waits(t), ~leaked
               PROVE  lock \in Threads \ {t} /\ Storing /\ ~Waits(lock)
    OBVIOUS
  <2>1. thread[t].at \in {"alloc", "add", "close"} /\ lock # NoThread
    BY DEF Waits
  <2>2. lock \in Threads
    BY <1>1, <2>1 DEF IInv, Types
  <2>3. thread[lock].at = "encrypt" /\ lock # t
    BY <1>1, <2>1, <2>2 DEF IInv, Serving, AtWork
  <2> QED
    BY <2>2, <2>3 DEF Waits, Storing
<1> QED
  BY <1>1, Invariance, PTL
=============================================================================

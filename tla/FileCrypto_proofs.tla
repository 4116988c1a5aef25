-------------------------- MODULE FileCrypto_proofs --------------------------
(***************************************************************************)
(* Proofs about FileCrypto for every chunk size, every bound on the file   *)
(* sizes and every number of keys: the shape of the filenode, the use of   *)
(* the keys, what reads back, and what a crash may lose, through any       *)
(* sequence of truncations, transfers, failed stores and crashes.          *)
(***************************************************************************)
EXTENDS FileCrypto, TLAPS

(* Where a transfer is: its chunk ends inside the file, and the chunk it   *)
(* works on has an entry.  The filenode's shape is not inductive without   *)
(* it: the encrypted length advances to wherever the transfer stands.      *)
XferInFile ==
    /\ xfer.offset + xfer.chunk_left <= filenode.filesize
    /\ xfer.data_buffer # NoBuf => xfer.data_buffer.chunk < Len(filenode.chunk_list)
    /\ xfer.data_buffer # NoBuf => xfer.data_buffer.start <= xfer.offset

IInv == TypeOK /\ FilenodeShape /\ XferInFile

(* The keys of a filenode were generated, each for one of its chunks.      *)
OwnKeys(f, generated) ==
    /\ \A i \in 1 .. Len(f.chunk_list) : f.chunk_list[i].key \in 1 .. generated
    /\ \A i, j \in 1 .. Len(f.chunk_list) : f.chunk_list[i].key = f.chunk_list[j].key => i = j

(* A key is on bytes of one chunk only.                                    *)
OwnBytes ==
    /\ \A b \in DOMAIN bytes : bytes[b] <= next_key
    /\ \A b1, b2 \in DOMAIN bytes :
          (bytes[b1] # Junk /\ bytes[b1] = bytes[b2]) => get_chunk_number(b1) = get_chunk_number(b2)

(* A transfer inside a chunk works from its start to its end under the key *)
(* of its entry.                                                           *)
XferInChunk ==
    xfer.data_buffer # NoBuf =>
       LET buf == xfer.data_buffer IN
       /\ buf.start = ChunkBase(buf.chunk)
       /\ xfer.offset + xfer.chunk_left = min(filenode.filesize, buf.start + ChunkSize)
       /\ filenode.chunk_list[buf.chunk + 1].key = buf.key

(* An encryption inside a chunk has sought it and not closed it, its key   *)
(* is on what it has written of it and nowhere else, and on all of that if *)
(* no write failed.                                                        *)
Encrypting ==
    (xfer.mode = "encrypt" /\ xfer.data_buffer # NoBuf) =>
       LET buf == xfer.data_buffer IN
       /\ buf.chunk \in xfer.touched /\ buf.chunk \notin xfer.flushed
       /\ \A b \in DOMAIN bytes : bytes[b] = buf.key => b \in buf.start .. xfer.offset - 1
       /\ ~xfer.failed => \A b \in buf.start .. xfer.offset - 1 : bytes[b] = buf.key

(* What the enclave has and the file has not: only the chunks that were    *)
(* sought, and only while the filenode is dirty.                           *)
InStep ==
    /\ xfer # NoXfer => ~is_invalid
    /\ xfer.mode = "encrypt" => is_dirty
    /\ (~is_dirty /\ ~is_invalid) => filenode = stored
    /\ (xfer = NoXfer /\ ~is_invalid) => ~is_dirty
    /\ ~is_invalid =>
          \A c \in Nat \ xfer.touched :
             (c < Len(filenode.chunk_list) /\ c < Len(stored.chunk_list))
             => filenode.chunk_list[c + 1] = stored.chunk_list[c + 1]

Content == /\ OwnKeys(filenode, next_key) /\ OwnKeys(stored, next_key) /\ OwnBytes
           /\ XferInChunk /\ Encrypting /\ FlushedChunksVerify /\ InStep
-----------------------------------------------------------------------------
(* Division by the chunk size: its defining bounds.                        *)
LEMMA DivBounds ==
    ASSUME NEW a \in Nat
    PROVE  /\ a \div ChunkSize \in Nat
           /\ ChunkSize * (a \div ChunkSize) <= a
           /\ a < ChunkSize * (a \div ChunkSize) + ChunkSize
BY ChunkSizeAssumption, SMTT(30)

LEMMA MulStep ==
    ASSUME NEW x \in Nat, NEW y \in Nat, x + 1 <= y
    PROVE  ChunkSize * x + ChunkSize <= ChunkSize * y
BY ChunkSizeAssumption, SMTT(30)

(* Division by the chunk size is monotonic.                                *)
LEMMA DivMonotonic ==
    ASSUME NEW a \in Nat, NEW b \in Nat, a <= b
    PROVE  a \div ChunkSize <= b \div ChunkSize
<1> DEFINE x == a \div ChunkSize
           y == b \div ChunkSize
<1>1. x \in Nat /\ y \in Nat
  BY DivBounds
<1>2. ChunkSize * x <= a /\ b < ChunkSize * y + ChunkSize
  BY DivBounds
<1>3. CASE y + 1 <= x
  <2>1. ChunkSize * y + ChunkSize <= ChunkSize * x
    BY <1>1, <1>3, MulStep
  <2>2. ChunkSize * y \in Nat /\ ChunkSize * x \in Nat
    BY <1>1, ChunkSizeAssumption
  <2> QED
    BY <1>2, <2>1, <2>2, ChunkSizeAssumption
<1> QED
  BY <1>1, <1>3

(* get_chunk_number (filenode.c) is a natural number and never decreases   *)
(* with the offset.                                                        *)
LEMMA ChunkNumberType ==
    ASSUME NEW a \in Nat
    PROVE  get_chunk_number(a) \in Nat
<1>1. CASE a < ChunkSize
  BY <1>1 DEF get_chunk_number
<1>2. CASE ~(a < ChunkSize)
  <2>1. a - ChunkSize \in Nat
    BY <1>2, ChunkSizeAssumption
  <2>2. (a - ChunkSize) \div ChunkSize \in Nat
    BY <2>1, DivBounds
  <2> QED
    BY <1>2, <2>2 DEF get_chunk_number
<1> QED
  BY <1>1, <1>2

LEMMA ChunkNumberMonotonic ==
    ASSUME NEW a \in Nat, NEW b \in Nat, a <= b
    PROVE  get_chunk_number(a) <= get_chunk_number(b)
<1>1. CASE a < ChunkSize
  BY <1>1, ChunkNumberType DEF get_chunk_number
<1>2. CASE ~(a < ChunkSize)
  <2>1. /\ a - ChunkSize \in Nat /\ b - ChunkSize \in Nat
        /\ a - ChunkSize <= b - ChunkSize /\ ~(b < ChunkSize)
    BY <1>2, ChunkSizeAssumption
  <2> DEFINE x == (a - ChunkSize) \div ChunkSize
             y == (b - ChunkSize) \div ChunkSize
  <2>2. x <= y /\ x \in Nat /\ y \in Nat
    BY <2>1, DivMonotonic, DivBounds
  <2>3. get_chunk_number(a) = 1 + x /\ get_chunk_number(b) = 1 + y
    BY <1>2, <2>1 DEF get_chunk_number
  <2> QED
    BY <2>2, <2>3
<1> QED
  BY <1>1, <1>2
-----------------------------------------------------------------------------
LEMMA SeqFromFunction ==
    ASSUME NEW S, NEW m \in Nat, NEW h \in [1 .. m -> S]
    PROVE  h \in Seq(S) /\ Len(h) = m
OBVIOUS

(* filenode_set_filesize keeps a filenode typed and well formed, provided  *)
(* the keys of the chunks it appends exist.                                *)
LEMMA SetFilesize ==
    ASSUME NEW f \in Filenode, WellFormed(f), NEW size \in Sizes,
           NEW k \in Key, k + max(0, difference(f, size)) <= MaxKey
    PROVE  /\ filenode_set_filesize(f, size, k) \in Filenode
           /\ WellFormed(filenode_set_filesize(f, size, k))
           /\ filenode_set_filesize(f, size, k).filesize = size
<1> DEFINE d == difference(f, size)
           n == Len(f.chunk_list)
           g == filenode_set_filesize(f, size, k)
<1>1. size \in 0 .. MaxSize /\ size \in Nat
  BY SizesAssumption
<1>2. f.filesize \in Nat /\ f.encrypted_length \in Nat /\ f.nchunks \in Nat /\ n \in Nat
  BY SizesAssumption DEF Filenode
<1>3. get_chunk_number(size) \in Nat /\ get_chunk_number(f.filesize) \in Nat
  BY <1>1, <1>2, ChunkNumberType
<1>4. d \in Int /\ n = f.nchunks
  BY <1>2, <1>3 DEF difference, get_chunk_count, WellFormed
<1>5. CASE d = 0
  <2>1. g = [f EXCEPT !.filesize = size]
    BY <1>5 DEF filenode_set_filesize
  <2>2. g \in Filenode
    BY <2>1, <1>1 DEF Filenode
  <2>3. /\ g.filesize = size /\ g.chunk_list = f.chunk_list /\ g.nchunks = f.nchunks
        /\ g.encrypted_length = f.encrypted_length
    BY <2>1 DEF Filenode
  <2>4. CASE f.filesize = size
    BY <2>2, <2>3, <2>4 DEF WellFormed
  <2>5. CASE f.filesize # size
    <3>1. f.nchunks = get_chunk_count(size)
      BY <1>2, <1>3, <1>5, <2>5 DEF difference, get_chunk_count
    <3>2. get_chunk_number(f.filesize) <= get_chunk_number(size)
      BY <1>3, <3>1 DEF WellFormed, get_chunk_count
    <3>3. get_chunk_number(f.encrypted_length) \in Nat
      BY <1>2, ChunkNumberType
    <3> QED
      BY <1>3, <2>2, <2>3, <3>1, <3>2, <3>3 DEF WellFormed
  <2> QED
    BY <2>4, <2>5
<1>6. CASE d # 0
  <2> DEFINE e == min(f.encrypted_length, size)
             l == [i \in 1 .. n + d |-> IF i <= n THEN f.chunk_list[i]
                                       ELSE [key |-> k + (i - n), mac |-> NoMac]]
  <2>1. g = [filesize |-> size, encrypted_length |-> e, nchunks |-> f.nchunks + d, chunk_list |-> l]
    BY <1>6, Zenon DEF filenode_set_filesize
  <2>2. n + d = get_chunk_count(size) /\ n + d \in Nat
    BY <1>2, <1>3, <1>4, <1>6 DEF difference, get_chunk_count
  <2>3. e \in 0 .. MaxSize /\ e <= size /\ e \in Nat
    BY <1>1, <1>2, SizesAssumption DEF min, Filenode
  <2>4. l \in Seq(Chunk) /\ Len(l) = n + d
    <3>1. ASSUME NEW i \in 1 .. n + d
          PROVE  (IF i <= n THEN f.chunk_list[i] ELSE [key |-> k + (i - n), mac |-> NoMac]) \in Chunk
      <4>1. CASE i <= n
        <5>1. i \in 1 .. Len(f.chunk_list) /\ f.chunk_list \in Seq(Chunk)
          BY <4>1, <1>2 DEF Filenode
        <5>2. f.chunk_list[i] \in Chunk
          BY <5>1
        <5> QED
          BY <4>1, <5>2
      <4>2. CASE ~(i <= n)
        <5>1. k + (i - n) \in Key
          <6>1. k + max(0, d) <= MaxKey /\ k \in 0 .. MaxKey
            BY DEF Key
          <6> HIDE DEF d, n
          <6>2. d \in Nat /\ i - n \in 1 .. d
            BY <4>2, <1>2, <1>4, <2>2
          <6> QED
            BY <6>1, <6>2, MaxKeyAssumption DEF max, Key
        <5>2. NoMac \in Mac
          BY MaxKeyAssumption DEF NoMac, Mac, Junk, Key
        <5>3. [key |-> k + (i - n), mac |-> NoMac] \in Chunk
          BY <5>1, <5>2 DEF Chunk
        <5> QED
          BY <4>2, <5>3
      <4> QED
        BY <4>1, <4>2
    <3>2. l \in [1 .. n + d -> Chunk]
      BY <3>1, Zenon
    <3> HIDE DEF l, n, d
    <3> QED
      BY <2>2, <3>2, SeqFromFunction
  <2>5. g \in Filenode
    BY <2>1, <2>2, <2>3, <2>4, <1>1, <1>4 DEF Filenode
  <2> HIDE DEF g, l, e, d, n
  <2>6. /\ g.filesize = size /\ g.encrypted_length = e
        /\ Len(g.chunk_list) = n + d /\ g.nchunks = n + d
    BY <2>1, <2>4, <1>4
  <2>7. get_chunk_number(e) <= get_chunk_number(size)
    BY <1>1, <2>3, ChunkNumberMonotonic
  <2>8. g \in Filenode /\ WellFormed(g) /\ g.filesize = size
    BY <2>2, <2>5, <2>6, <2>7 DEF WellFormed
  <2> QED
    BY <2>8 DEF g
<1> QED
  BY <1>5, <1>6

(* Replacing the entry of an existing chunk keeps the filenode's shape.    *)
LEMMA ReplaceChunk ==
    ASSUME NEW f \in Filenode, WellFormed(f),
           NEW c \in Nat, c < Len(f.chunk_list), NEW ch \in Chunk
    PROVE  /\ SetChunk(f, c, ch) \in Filenode
           /\ WellFormed(SetChunk(f, c, ch))
           /\ SetChunk(f, c, ch).filesize = f.filesize
           /\ Len(SetChunk(f, c, ch).chunk_list) = Len(f.chunk_list)
<1> DEFINE g == SetChunk(f, c, ch)
           l == [f.chunk_list EXCEPT ![c + 1] = ch]
<1>1. f.chunk_list \in Seq(Chunk) /\ c + 1 \in 1 .. Len(f.chunk_list)
  BY DEF Filenode
<1>2. l \in Seq(Chunk) /\ Len(l) = Len(f.chunk_list)
  <2> HIDE DEF Chunk
  <2> QED
    BY <1>1
<1> HIDE DEF l
<1>3. g = [f EXCEPT !.chunk_list = l]
  BY DEF SetChunk, l
<1> HIDE DEF g
<1>4. g \in Filenode /\ g.filesize = f.filesize /\ g.nchunks = f.nchunks
      /\ g.encrypted_length = f.encrypted_length /\ g.chunk_list = l
  BY <1>2, <1>3 DEF Filenode
<1> QED
  BY <1>2, <1>4 DEF WellFormed, g

(* Advancing the encrypted length to a position inside the file keeps the  *)
(* filenode's shape.                                                       *)
LEMMA AdvanceEncrypted ==
    ASSUME NEW f \in Filenode, WellFormed(f), NEW pos \in Nat, pos <= f.filesize
    PROVE  /\ filenode_update_encrypted_pos(f, pos) \in Filenode
           /\ WellFormed(filenode_update_encrypted_pos(f, pos))
           /\ filenode_update_encrypted_pos(f, pos).filesize = f.filesize
           /\ filenode_update_encrypted_pos(f, pos).chunk_list = f.chunk_list
<1> DEFINE e == max(f.encrypted_length, pos)
           g == filenode_update_encrypted_pos(f, pos)
<1>1. f.encrypted_length \in 0 .. MaxSize /\ f.filesize \in 0 .. MaxSize
  BY DEF Filenode
<1>2. e \in 0 .. MaxSize /\ (e = f.encrypted_length \/ e = pos)
  BY <1>1, SizesAssumption DEF max
<1>3. get_chunk_number(e) <= get_chunk_number(f.filesize)
  BY <1>1, <1>2, SizesAssumption, ChunkNumberMonotonic DEF WellFormed
<1> HIDE DEF e
<1>4. g = [f EXCEPT !.encrypted_length = e]
  BY DEF filenode_update_encrypted_pos, e
<1> HIDE DEF g
<1>5. g \in Filenode /\ g.filesize = f.filesize /\ g.nchunks = f.nchunks
      /\ g.encrypted_length = e /\ g.chunk_list = f.chunk_list
  BY <1>2, <1>4 DEF Filenode
<1> QED
  BY <1>3, <1>5 DEF WellFormed, g
-----------------------------------------------------------------------------
LEMMA NoXferType ==
    /\ NoXfer \in Xfer /\ NoBuf \in [chunk : Nat, key : Key, start : Nat]
    /\ NoXfer.offset = 0 /\ NoXfer.chunk_left = 0 /\ NoXfer.data_buffer = NoBuf
BY MaxKeyAssumption DEF NoXfer, Xfer, NoBuf, Junk, Key, Modes

LEMMA NewXferType ==
    ASSUME NEW m \in Modes
    PROVE  /\ file_crypto_new(m) \in Xfer
           /\ file_crypto_new(m).offset = 0 /\ file_crypto_new(m).chunk_left = 0
           /\ file_crypto_new(m).data_buffer = NoBuf
BY NoXferType DEF file_crypto_new, Xfer

LEMMA CutType ==
    ASSUME NEW d \in [0 .. MaxSize - 1 -> Key], NEW f
    PROVE  Cut(d, f) \in [0 .. MaxSize - 1 -> Key]
BY MaxKeyAssumption DEF Cut, Junk, Key

LEMMA InitIInv == Init => IInv
<1> SUFFICES ASSUME Init PROVE IInv
  OBVIOUS
<1>1. filenode_create \in Filenode
  BY SizesAssumption DEF filenode_create, Filenode
<1>2. WellFormed(filenode_create)
  BY ChunkSizeAssumption DEF WellFormed, filenode_create, get_chunk_number
<1>3. bytes \in [0 .. MaxSize - 1 -> Key]
  BY MaxKeyAssumption DEF Init, Junk, Key
<1>4. TypeOK
  <2>1. filenode \in Filenode /\ stored \in Filenode /\ xfer \in Xfer
    BY <1>1, NoXferType DEF Init
  <2>2. next_key \in Key
    BY MaxKeyAssumption DEF Init, Key
  <2>3. /\ is_invalid \in BOOLEAN /\ is_dirty \in BOOLEAN
        /\ tail_ok \in BOOLEAN /\ cached \in BOOLEAN
    BY Zenon DEF Init
  <2>4. result \in {"none", "verified", "unverified", "mac_failed"}
    BY DEF Init
  <2> QED
    BY <1>3, <2>1, <2>2, <2>3, <2>4 DEF TypeOK
<1>5. XferInFile
  BY NoXferType DEF Init, XferInFile, filenode_create
<1> QED
  BY <1>2, <1>4, <1>5 DEF Init, IInv, FilenodeShape

(* Storing a well-formed filenode, with or without success, keeps IInv as  *)
(* long as no transfer remains.                                            *)
LEMMA StoreIInv ==
    ASSUME IInv, NEW g \in Filenode, WellFormed(g), StoreOK(g) \/ StoreFails(g),
           xfer' = NoXfer, next_key' \in Key,
           result' \in {"none", "verified", "unverified", "mac_failed"}
    PROVE  IInv'
<1>1. filenode' = g /\ (stored' = g \/ stored' = stored)
  BY DEF StoreOK, StoreFails
<1>2. /\ is_invalid' \in BOOLEAN /\ is_dirty' \in BOOLEAN
      /\ tail_ok' \in BOOLEAN /\ cached' \in BOOLEAN
  BY DEF StoreOK, StoreFails, IInv, TypeOK
<1>3. bytes' \in [0 .. MaxSize - 1 -> Key]
  BY CutType DEF StoreOK, StoreFails, IInv, TypeOK
<1>4. TypeOK'
  BY <1>1, <1>2, <1>3, NoXferType DEF IInv, TypeOK
<1>5. FilenodeShape'
  BY <1>1 DEF IInv, FilenodeShape, WellFormed
<1>6. g.filesize \in Nat
  BY SizesAssumption DEF Filenode
<1>7. XferInFile'
  BY <1>1, <1>6, NoXferType DEF XferInFile
<1> QED
  BY <1>4, <1>5, <1>7 DEF IInv

LEMMA SeekIInv ==
    ASSUME IInv, NEW offset \in Offsets, SeekEncrypt(offset) \/ SeekDecrypt(offset)
    PROVE  IInv'
<1> DEFINE c == get_chunk_number(offset)
<1>1. /\ filenode \in Filenode /\ WellFormed(filenode) /\ xfer \in Xfer /\ next_key \in Key
  BY DEF IInv, TypeOK, FilenodeShape
<1>2. offset \in Nat
  BY <1>1, ChunkSizeAssumption DEF Offsets, ChunkBase, Filenode
<1>3. c \in Nat /\ c < Len(filenode.chunk_list) /\ offset <= filenode.filesize
  BY <1>2, ChunkNumberType DEF SeekEncrypt, SeekDecrypt, SeekAllowed
<1>4. filenode.filesize \in Nat
  BY <1>1, SizesAssumption DEF Filenode
<1>5. filenode.chunk_list[c + 1] \in Chunk
  <2>1. filenode.chunk_list \in Seq(Chunk) /\ c + 1 \in 1 .. Len(filenode.chunk_list)
    BY <1>1, <1>3 DEF Filenode
  <2> HIDE DEF c
  <2> QED
    BY <2>1
<1> DEFINE m == min(filenode.filesize - offset, ChunkSize)
<1>6. m \in Nat /\ offset + m <= filenode.filesize
  BY <1>2, <1>3, <1>4, ChunkSizeAssumption DEF min
<1>7. ASSUME NEW k \in Key
      PROVE  /\ Reposition(xfer, offset, k) \in Xfer
             /\ Reposition(xfer, offset, k).offset = offset
             /\ Reposition(xfer, offset, k).chunk_left = m
             /\ Reposition(xfer, offset, k).data_buffer = [chunk |-> c, key |-> k, start |-> offset]
  <2> HIDE DEF c, m
  <2>1. Reposition(xfer, offset, k) =
          [xfer EXCEPT !.offset = offset, !.chunk_left = m,
                       !.data_buffer = [chunk |-> c, key |-> k, start |-> offset]]
    BY DEF Reposition, c, m
  <2> DEFINE buf == [chunk |-> c, key |-> k, start |-> offset]
  <2>2. buf \in [chunk : Nat, key : Key, start : Nat]
    BY <1>2, <1>3
  <2> HIDE DEF buf
  <2>3. /\ Reposition(xfer, offset, k) \in Xfer
        /\ Reposition(xfer, offset, k).offset = offset
        /\ Reposition(xfer, offset, k).chunk_left = m
        /\ Reposition(xfer, offset, k).data_buffer = buf
    BY <1>1, <1>2, <1>6, <2>1, <2>2 DEF Xfer, buf
  <2> QED
    BY <2>3 DEF buf
<1>8. CASE SeekEncrypt(offset)
  <2> DEFINE k == next_key + 1
             r == Reposition(xfer, offset, k)
             ch == [key |-> k, mac |-> NoMac]
  <2>1. k \in Key /\ next_key' = k
    BY <1>1, <1>8, MaxKeyAssumption DEF SeekEncrypt, NewKeys, Key
  <2>2. ch \in Chunk
    BY <2>1, MaxKeyAssumption DEF Chunk, Mac, NoMac, Junk, Key
  <2>3. filenode' = SetChunk(filenode, c, ch)
    BY <1>8 DEF SeekEncrypt
  <2>4. /\ filenode' \in Filenode /\ WellFormed(filenode)'
        /\ filenode'.filesize = filenode.filesize
        /\ Len(filenode'.chunk_list) = Len(filenode.chunk_list)
    <3>1. /\ SetChunk(filenode, c, ch) \in Filenode /\ WellFormed(SetChunk(filenode, c, ch))
          /\ SetChunk(filenode, c, ch).filesize = filenode.filesize
          /\ Len(SetChunk(filenode, c, ch).chunk_list) = Len(filenode.chunk_list)
      <4> HIDE DEF c, ch
      <4> QED
        BY <1>1, <1>3, <2>2, ReplaceChunk
    <3> QED
      BY <2>3, <3>1 DEF WellFormed
  <2>5. xfer' = [r EXCEPT !.touched = @ \union {c}, !.flushed = @ \ {c}]
    BY <1>8 DEF SeekEncrypt
  <2>6. /\ r \in Xfer /\ r.offset = offset /\ r.chunk_left = m
        /\ r.data_buffer = [chunk |-> c, key |-> k, start |-> offset]
    BY <1>7, <2>1
  <2>7. /\ xfer' \in Xfer /\ xfer'.offset = offset /\ xfer'.chunk_left = m
        /\ xfer'.data_buffer = [chunk |-> c, key |-> k, start |-> offset]
    <3> HIDE DEF r, c, m, k
    <3> QED
      BY <1>3, <2>5, <2>6 DEF Xfer
  <2>8. TypeOK'
    BY <1>8, <2>1, <2>4, <2>7 DEF SeekEncrypt, IInv, TypeOK
  <2>9. FilenodeShape'
    BY <1>8, <2>4 DEF SeekEncrypt, IInv, FilenodeShape, WellFormed
  <2>10. XferInFile'
    <3> HIDE DEF c, m, k
    <3> QED
      BY <1>2, <1>3, <1>6, <2>4, <2>7 DEF XferInFile
  <2> QED
    BY <2>8, <2>9, <2>10 DEF IInv
<1>9. CASE SeekDecrypt(offset)
  <2> DEFINE k == filenode.chunk_list[c + 1].key
  <2>1. k \in Key
    BY <1>5 DEF Chunk
  <2>2. /\ xfer' \in Xfer /\ xfer'.offset = offset /\ xfer'.chunk_left = m
        /\ xfer'.data_buffer = [chunk |-> c, key |-> k, start |-> offset]
    BY <1>7, <1>9, <2>1 DEF SeekDecrypt
  <2>3. TypeOK' /\ FilenodeShape'
    BY <1>9, <2>2 DEF SeekDecrypt, IInv, TypeOK, FilenodeShape, WellFormed
  <2>4. XferInFile'
    <3> HIDE DEF c, m, k
    <3> QED
      BY <1>2, <1>3, <1>6, <1>9, <2>2 DEF XferInFile, SeekDecrypt
  <2> QED
    BY <2>3, <2>4 DEF IInv
<1> QED
  BY <1>8, <1>9

(* A step that leaves the filenodes alone and moves the transfer inside    *)
(* the file keeps IInv.                                                    *)
LEMMA MoveIInv ==
    ASSUME IInv, UNCHANGED <<is_invalid, is_dirty, stored, cached, next_key>>,
           filenode' \in Filenode, WellFormed(filenode'), tail_ok' \in BOOLEAN,
           bytes' \in [0 .. MaxSize - 1 -> Key],
           filenode'.filesize = filenode.filesize,
           Len(filenode'.chunk_list) = Len(filenode.chunk_list),
           result' \in {"none", "verified", "unverified", "mac_failed"},
           xfer' \in Xfer,
           NEW n \in Nat, n <= xfer.chunk_left,
           xfer'.offset = xfer.offset + n, xfer'.chunk_left = xfer.chunk_left - n,
           xfer'.data_buffer \in {NoBuf, xfer.data_buffer}
    PROVE  IInv'
<1>1. TypeOK'
  BY DEF IInv, TypeOK
<1>2. FilenodeShape'
  BY DEF IInv, FilenodeShape, WellFormed
<1>3. xfer.offset \in Nat /\ xfer.chunk_left \in Nat /\ filenode.filesize \in Nat
  BY SizesAssumption DEF IInv, TypeOK, Xfer, Filenode
<1>4. xfer'.offset + xfer'.chunk_left <= filenode'.filesize
  BY <1>3 DEF IInv, XferInFile
<1>5. CASE xfer'.data_buffer = NoBuf
  BY <1>1, <1>2, <1>4, <1>5 DEF IInv, XferInFile
<1>6. CASE xfer'.data_buffer # NoBuf
  <2>1. xfer'.data_buffer = xfer.data_buffer /\ xfer.data_buffer # NoBuf
    BY <1>6
  <2>2. xfer.data_buffer.start \in Nat
    BY DEF IInv, TypeOK, Xfer
  <2>3. /\ xfer'.data_buffer.chunk < Len(filenode'.chunk_list)
        /\ xfer'.data_buffer.start <= xfer'.offset
    BY <1>3, <2>1, <2>2 DEF IInv, XferInFile
  <2> QED
    BY <1>1, <1>2, <1>4, <2>3 DEF IInv, XferInFile
<1> QED
  BY <1>5, <1>6

LEMMA AdvanceType ==
    ASSUME NEW x \in Xfer, NEW n \in Nat, n <= x.chunk_left
    PROVE  /\ Advance(x, n) \in Xfer
           /\ Advance(x, n).offset = x.offset + n
           /\ Advance(x, n).chunk_left = x.chunk_left - n
           /\ Advance(x, n).data_buffer \in {NoBuf, x.data_buffer}
<1> DEFINE buf == IF x.chunk_left = n THEN NoBuf ELSE x.data_buffer
<1>1. buf \in [chunk : Nat, key : Key, start : Nat] /\ buf \in {NoBuf, x.data_buffer}
  BY NoXferType DEF Xfer
<1>2. x.offset + n \in Nat /\ x.chunk_left - n \in Nat
  BY DEF Xfer
<1> HIDE DEF buf
<1>3. Advance(x, n) = [x EXCEPT !.offset = @ + n, !.chunk_left = @ - n, !.data_buffer = buf]
  BY DEF Advance, buf
<1> QED
  BY <1>1, <1>2, <1>3 DEF Xfer

LEMMA UpdateDecryptIInv ==
    ASSUME IInv, NEW size \in UpdateSizes, UpdateDecrypt(size)
    PROVE  IInv'
<1> DEFINE n == min(size, xfer.chunk_left)
<1>1. xfer \in Xfer /\ size \in Nat
  BY SizesAssumption DEF IInv, TypeOK
<1>2. n \in Nat /\ n <= xfer.chunk_left
  BY <1>1 DEF min, Xfer
<1> HIDE DEF n
<1> DEFINE bad == result' = "mac_failed"
           y   == Advance(xfer, n)
<1>3. xfer' = [y EXCEPT !.failed = bad] /\ bad \in BOOLEAN
  BY Zenon DEF UpdateDecrypt, n
<1>4. /\ xfer' \in Xfer
      /\ xfer'.offset = xfer.offset + n /\ xfer'.chunk_left = xfer.chunk_left - n
      /\ xfer'.data_buffer \in {NoBuf, xfer.data_buffer}
  <2>1. /\ y \in Xfer /\ y.offset = xfer.offset + n /\ y.chunk_left = xfer.chunk_left - n
        /\ y.data_buffer \in {NoBuf, xfer.data_buffer}
    BY <1>1, <1>2, AdvanceType
  <2> HIDE DEF bad, y
  <2> QED
    BY <1>3, <2>1 DEF Xfer
<1>5. result' \in {"none", "verified", "unverified", "mac_failed"}
  BY DEF UpdateDecrypt, IInv, TypeOK
<1>6. UNCHANGED <<filenode, is_invalid, is_dirty, stored, tail_ok, cached, bytes, next_key>>
  BY DEF UpdateDecrypt
<1> QED
  BY <1>2, <1>4, <1>5, <1>6, MoveIInv DEF IInv, TypeOK, FilenodeShape

LEMMA UpdateEncryptIInv ==
    ASSUME IInv, NEW size \in UpdateSizes, UpdateEncrypt(size)
    PROVE  IInv'
<1> DEFINE n   == min(size, xfer.chunk_left)
           buf == xfer.data_buffer
           end == xfer.offset + n
           ch  == [filenode.chunk_list[buf.chunk + 1] EXCEPT
                      !.mac = [key |-> buf.key, len |-> end - buf.start]]
           g   == SetChunk(filenode, buf.chunk, ch)
<1>1. xfer \in Xfer /\ size \in Nat /\ filenode \in Filenode /\ WellFormed(filenode)
  BY SizesAssumption DEF IInv, TypeOK, FilenodeShape
<1>2. n \in Nat /\ n <= xfer.chunk_left /\ xfer.offset \in Nat
  BY <1>1 DEF min, Xfer
<1>3. /\ buf \in [chunk : Nat, key : Key, start : Nat]
      /\ buf.chunk < Len(filenode.chunk_list) /\ buf.start <= xfer.offset
  BY <1>1 DEF UpdateEncrypt, UpdateAllowed, IInv, XferInFile, Xfer
<1>4. end \in Nat /\ end - buf.start \in Nat /\ end <= filenode.filesize
  <2> HIDE DEF n
  <2>1. xfer.offset + xfer.chunk_left <= filenode.filesize
    BY DEF IInv, XferInFile
  <2>2. xfer.chunk_left \in Nat /\ filenode.filesize \in Nat
    BY <1>1, SizesAssumption DEF Xfer, Filenode
  <2>3. buf.start \in Nat
    BY <1>3
  <2> HIDE DEF buf
  <2> QED
    BY <1>2, <1>3, <2>1, <2>2, <2>3
<1>5. ch \in Chunk
  <2>1. filenode.chunk_list \in Seq(Chunk) /\ buf.chunk + 1 \in 1 .. Len(filenode.chunk_list)
    BY <1>1, <1>3 DEF Filenode
  <2>2. filenode.chunk_list[buf.chunk + 1] \in Chunk
    BY <2>1
  <2>3. [key |-> buf.key, len |-> end - buf.start] \in Mac
    <3> HIDE DEF buf, end
    <3> QED
      BY <1>3, <1>4 DEF Mac
  <2> QED
    BY <2>2, <2>3 DEF Chunk
<1>6. /\ g \in Filenode /\ WellFormed(g) /\ g.filesize = filenode.filesize
      /\ Len(g.chunk_list) = Len(filenode.chunk_list)
  <2>1. buf.chunk \in Nat
    BY <1>3
  <2> HIDE DEF ch, buf
  <2> QED
    BY <1>1, <1>3, <1>5, <2>1, ReplaceChunk
<1>7. filenode' = IF n < xfer.chunk_left THEN filenode ELSE filenode_update_encrypted_pos(g, end)
  BY DEF UpdateEncrypt
<1>8. /\ filenode' \in Filenode /\ WellFormed(filenode')
      /\ filenode'.filesize = filenode.filesize
      /\ Len(filenode'.chunk_list) = Len(filenode.chunk_list)
  <2> HIDE DEF g, end, n
  <2>1. /\ filenode_update_encrypted_pos(g, end) \in Filenode
        /\ WellFormed(filenode_update_encrypted_pos(g, end))
        /\ filenode_update_encrypted_pos(g, end).filesize = g.filesize
        /\ filenode_update_encrypted_pos(g, end).chunk_list = g.chunk_list
    BY <1>4, <1>6, AdvanceEncrypted
  <2>2. CASE n < xfer.chunk_left
    BY <1>1, <1>7, <2>2
  <2>3. CASE ~(n < xfer.chunk_left)
    BY <1>6, <1>7, <2>1, <2>3
  <2> QED
    BY <2>2, <2>3
<1>9. PICK w \in 0 .. n :
        /\ bytes' = [b \in DOMAIN bytes |->
                        IF b \in xfer.offset .. xfer.offset + w - 1 THEN buf.key ELSE bytes[b]]
        /\ tail_ok' = (tail_ok /\ (w = 0 \/ xfer.offset + w <= stored.filesize))
        /\ xfer' = [Advance(xfer, n) EXCEPT
                       !.failed = w < n,
                       !.flushed = IF w = n /\ n = xfer.chunk_left THEN @ \union {buf.chunk} ELSE @]
  BY DEF UpdateEncrypt
<1>10. bytes' \in [0 .. MaxSize - 1 -> Key]
  <2>1. buf.key \in Key /\ bytes \in [0 .. MaxSize - 1 -> Key]
    BY <1>3 DEF IInv, TypeOK
  <2> HIDE DEF buf
  <2> QED
    BY <1>9, <2>1
<1>11. tail_ok' \in BOOLEAN
  BY <1>9, Zenon
<1>12. /\ xfer' \in Xfer
       /\ xfer'.offset = xfer.offset + n /\ xfer'.chunk_left = xfer.chunk_left - n
       /\ xfer'.data_buffer \in {NoBuf, xfer.data_buffer}
  <2> DEFINE y   == Advance(xfer, n)
             bad == w < n
             fl  == IF w = n /\ n = xfer.chunk_left THEN y.flushed \union {buf.chunk} ELSE y.flushed
  <2>1. /\ y \in Xfer /\ y.offset = xfer.offset + n /\ y.chunk_left = xfer.chunk_left - n
        /\ y.data_buffer \in {NoBuf, xfer.data_buffer}
    BY <1>1, <1>2, AdvanceType
  <2>2. fl \in SUBSET Nat
    BY <1>3, <2>1 DEF Xfer
  <2>3. bad \in BOOLEAN
    BY SMT DEF bad
  <2>4. xfer' = [y EXCEPT !.failed = bad, !.flushed = fl]
    BY <1>9
  <2> HIDE DEF n, buf, fl, bad, y
  <2> QED
    BY <2>1, <2>2, <2>3, <2>4 DEF Xfer
<1>13. /\ UNCHANGED <<is_invalid, is_dirty, stored, cached, next_key>>
       /\ result' \in {"none", "verified", "unverified", "mac_failed"}
  BY DEF UpdateEncrypt, IInv, TypeOK
<1> HIDE DEF n
<1> QED
  BY <1>2, <1>8, <1>10, <1>11, <1>12, <1>13, MoveIInv

(* The keys generated so far stay within the bound.                        *)
LEMMA KeysGrow ==
    ASSUME NEW f \in Filenode, NEW size \in Sizes, next_key \in Key,
           NewKeys(max(0, difference(f, size)))
    PROVE  /\ next_key' \in Key /\ next_key <= next_key'
           /\ next_key' = next_key + max(0, difference(f, size))
           /\ next_key + max(0, difference(f, size)) <= MaxKey
<1>1. get_chunk_number(size) \in Nat
  BY SizesAssumption, ChunkNumberType
<1>2. difference(f, size) \in Int
  BY <1>1 DEF difference, get_chunk_count, Filenode
<1>3. max(0, difference(f, size)) \in Nat
  BY <1>2 DEF max
<1> QED
  BY <1>3, MaxKeyAssumption DEF NewKeys, Key

(* The filenode that nexus_vfs_get hands out is typed and well formed.     *)
LEMMA GotFilenode ==
    ASSUME IInv, NEW f \in {filenode, stored}
    PROVE  f \in Filenode /\ WellFormed(f)
BY DEF IInv, TypeOK, FilenodeShape

LEMMA TruncateIInv ==
    ASSUME IInv, NEW size \in Sizes, ecall_fs_truncate(size)
    PROVE  IInv'
<1>1. PICK f \in {filenode, stored} :
        /\ NewKeys(max(0, difference(f, size)))
        /\ \/ StoreOK(filenode_set_filesize(f, size, next_key))
           \/ StoreFails(filenode_set_filesize(f, size, next_key))
  BY DEF ecall_fs_truncate
<1> DEFINE g == filenode_set_filesize(f, size, next_key)
<1>2. f \in Filenode /\ WellFormed(f) /\ next_key \in Key
  BY GotFilenode DEF IInv, TypeOK
<1>3. next_key + max(0, difference(f, size)) <= MaxKey
  BY <1>1 DEF NewKeys
<1>4. g \in Filenode /\ WellFormed(g)
  BY <1>2, <1>3, SetFilesize
<1>5. next_key' \in Key
  BY <1>1, <1>2, KeysGrow
<1>6. xfer' = NoXfer /\ result' \in {"none", "verified", "unverified", "mac_failed"}
  BY DEF ecall_fs_truncate, IInv, TypeOK
<1>7. StoreOK(g) \/ StoreFails(g)
  BY <1>1
<1> HIDE DEF g
<1> QED
  BY <1>4, <1>5, <1>6, <1>7, StoreIInv

(* Starting a transfer on a typed and well-formed filenode keeps IInv.     *)
LEMMA StartIInv ==
    ASSUME IInv, NEW m \in Modes, xfer' = file_crypto_new(m),
           filenode' \in Filenode, WellFormed(filenode'), next_key' \in Key,
           is_dirty' \in BOOLEAN, is_invalid' \in BOOLEAN,
           UNCHANGED <<stored, tail_ok, cached, bytes, result>>
    PROVE  IInv'
<1>1. TypeOK'
  BY NewXferType DEF IInv, TypeOK
<1>2. FilenodeShape'
  BY DEF IInv, FilenodeShape, WellFormed
<1>3. filenode'.filesize \in Nat
  BY SizesAssumption DEF Filenode
<1>4. XferInFile'
  BY <1>3, NewXferType DEF XferInFile
<1> QED
  BY <1>1, <1>2, <1>4 DEF IInv

LEMMA EncryptStartIInv ==
    ASSUME IInv, NEW size \in Sizes, ecall_fs_file_encrypt_start(size)
    PROVE  IInv'
<1>1. PICK f \in {filenode, stored} :
        /\ NewKeys(max(0, difference(f, size)))
        /\ filenode' = filenode_set_filesize(f, size, next_key)
  BY DEF ecall_fs_file_encrypt_start
<1>2. f \in Filenode /\ WellFormed(f) /\ next_key \in Key
  BY GotFilenode DEF IInv, TypeOK
<1>3. next_key + max(0, difference(f, size)) <= MaxKey
  BY <1>1 DEF NewKeys
<1>4. filenode' \in Filenode /\ WellFormed(filenode')
  BY <1>1, <1>2, <1>3, SetFilesize
<1>5. next_key' \in Key
  BY <1>1, <1>2, KeysGrow
<1>6. /\ xfer' = file_crypto_new("encrypt") /\ "encrypt" \in Modes
      /\ is_dirty' \in BOOLEAN /\ is_invalid' \in BOOLEAN
      /\ UNCHANGED <<stored, tail_ok, cached, bytes, result>>
  BY DEF ecall_fs_file_encrypt_start, Modes
<1> QED
  BY <1>4, <1>5, <1>6, StartIInv

LEMMA DecryptStartIInv ==
    ASSUME IInv, ecall_fs_file_decrypt_start
    PROVE  IInv'
<1>1. PICK f \in {filenode, stored} : filenode' = f
  BY DEF ecall_fs_file_decrypt_start
<1>2. filenode' \in Filenode /\ WellFormed(filenode')
  BY <1>1, GotFilenode
<1>3. is_dirty' \in BOOLEAN /\ is_invalid' \in BOOLEAN
  BY Zenon DEF ecall_fs_file_decrypt_start
<1>4. /\ xfer' = file_crypto_new("decrypt") /\ "decrypt" \in Modes
      /\ next_key' \in Key
      /\ UNCHANGED <<stored, tail_ok, cached, bytes, result>>
  BY DEF ecall_fs_file_decrypt_start, Modes, IInv, TypeOK
<1> QED
  BY <1>2, <1>3, <1>4, StartIInv

(* A step that ends the transfer and leaves the filenodes and the file     *)
(* alone keeps IInv.                                                       *)
LEMMA DropIInv ==
    ASSUME IInv, UNCHANGED <<filenode, stored, tail_ok, bytes, next_key>>,
           xfer' = NoXfer, result' = "none",
           is_invalid' \in BOOLEAN, is_dirty' \in BOOLEAN, cached' \in BOOLEAN
    PROVE  IInv'
<1>1. TypeOK'
  BY NoXferType DEF IInv, TypeOK
<1>2. FilenodeShape'
  BY DEF IInv, FilenodeShape, WellFormed
<1>3. filenode.filesize \in Nat
  BY SizesAssumption DEF IInv, TypeOK, Filenode
<1>4. XferInFile'
  BY <1>3, NoXferType DEF XferInFile
<1> QED
  BY <1>1, <1>2, <1>4 DEF IInv

LEMMA FinishIInv ==
    ASSUME IInv, file_crypto_finish
    PROVE  IInv'
<1>1. xfer' = NoXfer /\ result' = "none" /\ next_key' = next_key
  BY DEF file_crypto_finish
<1>2. CASE is_dirty
  <2>1. StoreOK(filenode) \/ StoreFails(filenode)
    BY <1>2 DEF file_crypto_finish
  <2>2. filenode \in Filenode /\ WellFormed(filenode) /\ next_key' \in Key
    BY <1>1 DEF IInv, TypeOK, FilenodeShape
  <2> QED
    BY <1>1, <2>1, <2>2, StoreIInv
<1>3. CASE ~is_dirty
  <2>1. UNCHANGED <<filenode, is_invalid, is_dirty, stored, tail_ok, cached, bytes>>
    BY <1>3 DEF file_crypto_finish
  <2> QED
    BY <1>1, <2>1, DropIInv DEF IInv, TypeOK
<1> QED
  BY <1>2, <1>3

LEMMA NextIInv == IInv /\ [Next]_vars => IInv'
<1> SUFFICES ASSUME IInv, [Next]_vars PROVE IInv'
  OBVIOUS
<1>1. ASSUME NEW size \in Sizes, ecall_fs_truncate(size) PROVE IInv'
  BY <1>1, TruncateIInv
<1>2. ASSUME NEW size \in Sizes, ecall_fs_file_encrypt_start(size) PROVE IInv'
  BY <1>2, EncryptStartIInv
<1>3. CASE ecall_fs_file_decrypt_start
  BY <1>3, DecryptStartIInv
<1>4. ASSUME NEW offset \in Offsets, SeekEncrypt(offset) \/ SeekDecrypt(offset) PROVE IInv'
  BY <1>4, SeekIInv
<1>5. ASSUME NEW size \in UpdateSizes, UpdateEncrypt(size) PROVE IInv'
  BY <1>5, UpdateEncryptIInv
<1>6. ASSUME NEW size \in UpdateSizes, UpdateDecrypt(size) PROVE IInv'
  BY <1>6, UpdateDecryptIInv
<1>7. CASE file_crypto_finish
  BY <1>7, FinishIInv
<1>8. CASE Crash
  BY <1>8, DropIInv DEF Crash
<1>9. CASE UNCHANGED vars
  BY <1>9 DEF vars, IInv, TypeOK, FilenodeShape, WellFormed, XferInFile
<1> QED
  BY <1>1, <1>2, <1>3, <1>4, <1>5, <1>6, <1>7, <1>8, <1>9 DEF Next

(* The inductive invariant holds in every reachable state.                 *)
THEOREM Invariance == Spec => []IInv
BY InitIInv, NextIInv, PTL DEF Spec

(* Every reachable state of the file is typed: in particular neither the   *)
(* size left in a chunk (file_crypto.c:137) nor the length a MAC covers is *)
(* ever negative, so that the unsigned arithmetic never wraps.             *)
THEOREM TypeCorrect == Spec => []TypeOK
<1>1. IInv => TypeOK
  BY DEF IInv
<1> QED
  BY <1>1, Invariance, PTL

(* filenode.c keeps the chunk list, nchunks, filesize and encrypted_length *)
(* in step over every sequence of truncations, transfers, failed stores    *)
(* and crashes, for every chunk size and file size.                        *)
THEOREM FilenodeShapeHolds == Spec => []FilenodeShape
<1>1. IInv => FilenodeShape
  BY DEF IInv
<1> QED
  BY <1>1, Invariance, PTL
-----------------------------------------------------------------------------
(* Which chunk an offset is in.                                            *)
LEMMA ChunkNumberBounds ==
    ASSUME NEW a \in Nat
    PROVE  /\ get_chunk_number(a) \in Nat
           /\ ChunkSize * get_chunk_number(a) <= a
           /\ a < ChunkSize * get_chunk_number(a) + ChunkSize
<1>1. CASE a < ChunkSize
  <2>1. get_chunk_number(a) = 0
    BY <1>1 DEF get_chunk_number
  <2>2. ChunkSize * 0 = 0
    BY ChunkSizeAssumption
  <2> QED
    BY <1>1, <2>1, <2>2, ChunkSizeAssumption
<1>2. CASE ~(a < ChunkSize)
  <2> DEFINE x == (a - ChunkSize) \div ChunkSize
  <2>1. a - ChunkSize \in Nat
    BY <1>2, ChunkSizeAssumption
  <2>2. x \in Nat /\ ChunkSize * x <= a - ChunkSize /\ a - ChunkSize < ChunkSize * x + ChunkSize
    BY <2>1, DivBounds
  <2>3. get_chunk_number(a) = 1 + x
    BY <1>2 DEF get_chunk_number
  <2> HIDE DEF x
  <2>4. ChunkSize * (1 + x) = ChunkSize + ChunkSize * x /\ ChunkSize * x \in Nat
    BY <2>2, ChunkSizeAssumption
  <2> QED
    BY <2>2, <2>3, <2>4, ChunkSizeAssumption
<1> QED
  BY <1>1, <1>2

LEMMA InOneChunk ==
    ASSUME NEW a \in Nat, NEW c \in Nat, ChunkSize * c <= a, a < ChunkSize * c + ChunkSize
    PROVE  get_chunk_number(a) = c
<1> DEFINE x == get_chunk_number(a)
<1>1. x \in Nat /\ ChunkSize * x <= a /\ a < ChunkSize * x + ChunkSize
  BY ChunkNumberBounds
<1> HIDE DEF x
<1>2. ChunkSize * x \in Nat /\ ChunkSize * c \in Nat
  BY <1>1, ChunkSizeAssumption
<1>3. ~(x + 1 <= c)
  BY <1>1, <1>2, MulStep, ChunkSizeAssumption
<1>4. ~(c + 1 <= x)
  BY <1>1, <1>2, MulStep, ChunkSizeAssumption
<1> QED
  BY <1>1, <1>3, <1>4 DEF x

LEMMA ChunkBaseIs ==
    ASSUME NEW c \in Nat
    PROVE  /\ ChunkBase(c) \in Nat /\ ChunkBase(c) = ChunkSize * c
           /\ get_chunk_number(ChunkBase(c)) = c
           /\ \A a \in Nat : ChunkBase(c) <= a /\ a < ChunkBase(c) + ChunkSize => get_chunk_number(a) = c
<1>1. ChunkBase(c) \in Nat /\ ChunkBase(c) = ChunkSize * c
  BY ChunkSizeAssumption DEF ChunkBase
<1> QED
  BY <1>1, InOneChunk, ChunkSizeAssumption

(* The bytes of a chunk lie in the chunk and in the file.                  *)
LEMMA ChunkBytes ==
    ASSUME NEW f \in Filenode, NEW c \in Chunks(f),
           NEW b \in ChunkBase(c) .. ChunkBase(c) + ChunkLen(f, c) - 1
    PROVE  /\ c \in Nat /\ c < Len(f.chunk_list)
           /\ b \in Nat /\ b < f.filesize /\ b \in 0 .. MaxSize - 1
           /\ get_chunk_number(b) = c
<1>1. c \in Nat /\ c < Len(f.chunk_list)
  BY DEF Chunks, Filenode
<1>2. f.filesize \in 0 .. MaxSize
  BY DEF Filenode
<1>3. ChunkBase(c) \in Nat
  BY <1>1, ChunkBaseIs
<1>4. ChunkLen(f, c) <= f.filesize - ChunkBase(c) /\ ChunkLen(f, c) <= ChunkSize
      /\ ChunkLen(f, c) \in Int
  BY <1>2, <1>3, ChunkSizeAssumption, SizesAssumption DEF ChunkLen, min
<1>5. b \in Nat /\ ChunkBase(c) <= b /\ b < ChunkBase(c) + ChunkSize /\ b < f.filesize
  BY <1>2, <1>3, <1>4, ChunkSizeAssumption, SizesAssumption
<1>6. get_chunk_number(b) = c
  BY <1>1, <1>5, ChunkBaseIs
<1>7. b \in 0 .. MaxSize - 1
  BY <1>2, <1>5, SizesAssumption
<1> QED
  BY <1>1, <1>5, <1>6, <1>7

(* filenode_set_filesize keeps the entries of the chunks that stay, and    *)
(* gives those it appends keys of their own.                               *)
LEMMA SetFilesizeKeys ==
    ASSUME NEW f \in Filenode, WellFormed(f), NEW size \in Sizes,
           NEW k \in Key, k + max(0, difference(f, size)) <= MaxKey, OwnKeys(f, k)
    PROVE  LET g == filenode_set_filesize(f, size, k) IN
           /\ OwnKeys(g, k + max(0, difference(f, size)))
           /\ \A i \in 1 .. Len(f.chunk_list) :
                 i <= Len(g.chunk_list) => g.chunk_list[i] = f.chunk_list[i]
<1> DEFINE d == difference(f, size)
           n == Len(f.chunk_list)
           g == filenode_set_filesize(f, size, k)
           m == k + max(0, d)
<1>1. size \in 0 .. MaxSize /\ size \in Nat
  BY SizesAssumption
<1>2. f.filesize \in Nat /\ f.nchunks \in Nat /\ n \in Nat /\ n = f.nchunks
  BY SizesAssumption DEF Filenode, WellFormed
<1>3. get_chunk_number(size) \in Nat
  BY <1>1, ChunkNumberType
<1>4. d \in Int /\ n + d \in Nat
  BY <1>2, <1>3 DEF difference, get_chunk_count
<1>5. k \in Nat /\ m \in Nat /\ k <= m /\ k + d <= m
  BY <1>4, MaxKeyAssumption DEF Key, max
<1>6. CASE d = 0
  <2>1. g.chunk_list = f.chunk_list
    BY <1>6 DEF filenode_set_filesize, Filenode
  <2> HIDE DEF m, d
  <2> QED
    BY <1>2, <1>5, <2>1 DEF OwnKeys, m, d
<1>7. CASE d # 0
  <2> DEFINE l == [i \in 1 .. n + d |-> IF i <= n THEN f.chunk_list[i]
                                       ELSE [key |-> k + (i - n), mac |-> NoMac]]
  <2>1. g.chunk_list = l
    BY <1>7 DEF filenode_set_filesize
  <2>2. Len(l) = n + d
    BY <1>4
  <2>3. \A i \in 1 .. n + d : /\ i <= n => l[i] = f.chunk_list[i]
                              /\ i > n => l[i].key = k + (i - n)
    BY <1>2, <1>4
  <2> HIDE DEF l, g, d, n, m
  <2>4. \A i \in 1 .. n : f.chunk_list[i].key \in 1 .. k
    BY DEF OwnKeys, n
  <2>5. \A i, j \in 1 .. n : f.chunk_list[i].key = f.chunk_list[j].key => i = j
    BY DEF OwnKeys, n
  <2>6. \A i \in 1 .. n + d : l[i].key \in 1 .. m
    BY <1>2, <1>4, <1>5, <2>3, <2>4
  <2>7. ASSUME NEW i \in 1 .. n + d, NEW j \in 1 .. n + d, l[i].key = l[j].key
        PROVE  i = j
    <3>1. CASE i <= n /\ j <= n
      BY <1>2, <1>4, <2>3, <2>5, <2>7, <3>1
    <3>2. CASE ~(i <= n) /\ ~(j <= n)
      BY <1>2, <1>4, <1>5, <2>3, <2>7, <3>2
    <3>3. CASE i <= n /\ ~(j <= n)
      BY <1>2, <1>4, <1>5, <2>3, <2>4, <2>7, <3>3
    <3>4. CASE ~(i <= n) /\ j <= n
      BY <1>2, <1>4, <1>5, <2>3, <2>4, <2>7, <3>4
    <3> QED
      BY <3>1, <3>2, <3>3, <3>4
  <2>8. OwnKeys(g, m)
    BY <2>1, <2>2, <2>6, <2>7 DEF OwnKeys
  <2>9. \A i \in 1 .. n : i <= Len(g.chunk_list) => g.chunk_list[i] = f.chunk_list[i]
    BY <1>2, <1>4, <2>1, <2>2, <2>3
  <2> QED
    BY <2>8, <2>9 DEF g, m, n, d
<1> QED
  BY <1>6, <1>7

(* An entry is replaced, the others stay.                                  *)
LEMMA ReplacedChunk ==
    ASSUME NEW f \in Filenode, NEW c \in Nat, c < Len(f.chunk_list), NEW ch
    PROVE  LET g == SetChunk(f, c, ch) IN
           /\ g.filesize = f.filesize /\ Len(g.chunk_list) = Len(f.chunk_list)
           /\ \A i \in 1 .. Len(f.chunk_list) :
                 g.chunk_list[i] = IF i = c + 1 THEN ch ELSE f.chunk_list[i]
<1> DEFINE g == SetChunk(f, c, ch)
           l == [f.chunk_list EXCEPT ![c + 1] = ch]
<1>1. f.chunk_list \in Seq(Chunk) /\ c + 1 \in 1 .. Len(f.chunk_list)
  BY DEF Filenode
<1>2. /\ Len(l) = Len(f.chunk_list)
      /\ \A i \in 1 .. Len(f.chunk_list) : l[i] = IF i = c + 1 THEN ch ELSE f.chunk_list[i]
  BY <1>1
<1> HIDE DEF l
<1>3. g = [f EXCEPT !.chunk_list = l]
  BY DEF SetChunk, l
<1>4. g.filesize = f.filesize /\ g.chunk_list = l
  BY <1>3 DEF Filenode
<1> HIDE DEF g
<1>5. /\ g.filesize = f.filesize /\ Len(g.chunk_list) = Len(f.chunk_list)
      /\ \A i \in 1 .. Len(f.chunk_list) :
            g.chunk_list[i] = IF i = c + 1 THEN ch ELSE f.chunk_list[i]
  BY <1>2, <1>4
<1> QED
  BY <1>5 DEF g
-----------------------------------------------------------------------------
LEMMA OwnKeysLater ==
    ASSUME NEW f, NEW k \in Nat, NEW m \in Nat, k <= m, OwnKeys(f, k)
    PROVE  OwnKeys(f, m)
BY DEF OwnKeys

(* Cutting the file, and generating keys, gives no byte a second chunk.    *)
LEMMA OwnBytesLater ==
    ASSUME IInv, OwnBytes, next_key' \in Key, next_key <= next_key',
           DOMAIN bytes' = DOMAIN bytes, \A b \in DOMAIN bytes : bytes'[b] \in {bytes[b], Junk}
    PROVE  OwnBytes'
<1>1. /\ next_key \in Nat /\ next_key' \in Nat
      /\ \A b \in DOMAIN bytes : bytes[b] \in Nat
  BY MaxKeyAssumption DEF IInv, TypeOK, Key
<1>2. \A b \in DOMAIN bytes' : bytes'[b] <= next_key'
  BY <1>1 DEF OwnBytes, Junk
<1>3. \A b1, b2 \in DOMAIN bytes' :
        (bytes'[b1] # Junk /\ bytes'[b1] = bytes'[b2]) => get_chunk_number(b1) = get_chunk_number(b2)
  BY DEF OwnBytes
<1> QED
  BY <1>2, <1>3 DEF OwnBytes

LEMMA CutBytes ==
    ASSUME NEW d, NEW f
    PROVE  /\ DOMAIN Cut(d, f) = DOMAIN d
           /\ \A b \in DOMAIN d : Cut(d, f)[b] \in {d[b], Junk}
           /\ \A b \in DOMAIN d : b < f.filesize => Cut(d, f)[b] = d[b]
BY DEF Cut

LEMMA NoXferFields ==
    /\ NoXfer.data_buffer = NoBuf /\ NoXfer.touched = {} /\ NoXfer.flushed = {}
    /\ NoXfer.mode = "none"
BY DEF NoXfer

LEMMA NewXferFields ==
    ASSUME NEW m \in Modes
    PROVE  /\ file_crypto_new(m).data_buffer = NoBuf /\ file_crypto_new(m).touched = {}
           /\ file_crypto_new(m).flushed = {} /\ file_crypto_new(m).mode = m
           /\ file_crypto_new(m) # NoXfer
BY DEF file_crypto_new, NoXfer, Modes

LEMMA InitContent == Init => Content
<1> SUFFICES ASSUME Init PROVE Content
  OBVIOUS
<1>1. OwnKeys(filenode, next_key) /\ OwnKeys(stored, next_key)
  BY DEF Init, OwnKeys, filenode_create
<1>2. OwnBytes
  BY DEF Init, OwnBytes, Junk
<1>3. XferInChunk /\ Encrypting /\ FlushedChunksVerify
  BY NoXferFields DEF Init, XferInChunk, Encrypting, FlushedChunksVerify
<1>4. InStep
  BY NoXferFields DEF Init, InStep
<1> QED
  BY <1>1, <1>2, <1>3, <1>4 DEF Content

(* A store ends the transfer: with success the enclave has what the file   *)
(* has, without it the filenode is invalid.                                *)
LEMMA StoreContent ==
    ASSUME IInv, Content, NEW g, StoreOK(g) \/ StoreFails(g), xfer' = NoXfer,
           next_key' \in Key, next_key <= next_key', OwnKeys(g, next_key')
    PROVE  Content'
<1>1. next_key \in Nat /\ next_key' \in Nat
  BY MaxKeyAssumption DEF IInv, TypeOK, Key
<1>2. filenode' = g /\ (stored' = g \/ stored' = stored)
  BY DEF StoreOK, StoreFails
<1>3. OwnKeys(filenode', next_key') /\ OwnKeys(stored', next_key')
  BY <1>1, <1>2, OwnKeysLater DEF Content
<1>4. bytes' = bytes \/ bytes' = Cut(bytes, g)
  BY DEF StoreOK, StoreFails
<1>5. OwnBytes'
  BY <1>4, CutBytes, OwnBytesLater DEF Content
<1>6. (XferInChunk /\ Encrypting /\ FlushedChunksVerify)'
  BY NoXferFields DEF XferInChunk, Encrypting, FlushedChunksVerify
<1>7. InStep'
  BY <1>2, NoXferFields DEF InStep, StoreOK, StoreFails
<1> QED
  BY <1>3, <1>5, <1>6, <1>7 DEF Content, OwnKeys

(* The filenode an operation gets when no transfer runs is the stored one. *)
LEMMA GotStored ==
    ASSUME IInv, Content, xfer = NoXfer, NEW f, nexus_vfs_get(f)
    PROVE  f = stored /\ f \in Filenode /\ WellFormed(f) /\ OwnKeys(f, next_key)
BY DEF nexus_vfs_get, Content, InStep, IInv, TypeOK, FilenodeShape

LEMMA TruncateContent ==
    ASSUME IInv, Content, NEW size \in Sizes, ecall_fs_truncate(size)
    PROVE  Content'
<1>1. PICK f \in {filenode, stored} :
        /\ nexus_vfs_get(f)
        /\ NewKeys(max(0, difference(f, size)))
        /\ \/ StoreOK(filenode_set_filesize(f, size, next_key))
           \/ StoreFails(filenode_set_filesize(f, size, next_key))
  BY DEF ecall_fs_truncate
<1> DEFINE g == filenode_set_filesize(f, size, next_key)
<1>2. xfer = NoXfer /\ xfer' = NoXfer /\ next_key \in Key
  BY DEF ecall_fs_truncate, IInv, TypeOK
<1>3. f \in Filenode /\ WellFormed(f) /\ OwnKeys(f, next_key)
  BY <1>1, <1>2, GotStored
<1>4. /\ next_key' \in Key /\ next_key <= next_key'
      /\ next_key' = next_key + max(0, difference(f, size))
      /\ next_key + max(0, difference(f, size)) <= MaxKey
  BY <1>1, <1>2, <1>3, KeysGrow
<1>5. OwnKeys(g, next_key')
  BY <1>2, <1>3, <1>4, SetFilesizeKeys
<1>6. StoreOK(g) \/ StoreFails(g)
  BY <1>1
<1> HIDE DEF g
<1> QED
  BY <1>2, <1>4, <1>5, <1>6, StoreContent

(* A transfer starts from the stored filenode, or from it with another     *)
(* size.                                                                   *)
LEMMA StartContent ==
    ASSUME IInv, Content, NEW m \in Modes, xfer' = file_crypto_new(m),
           filenode' \in Filenode, OwnKeys(filenode', next_key'),
           next_key' \in Key, next_key <= next_key',
           ~is_invalid', ~is_dirty' => filenode' = stored, m = "encrypt" => is_dirty',
           \A i \in 1 .. Len(stored.chunk_list) :
              i <= Len(filenode'.chunk_list) => filenode'.chunk_list[i] = stored.chunk_list[i],
           UNCHANGED <<stored, tail_ok, cached, bytes>>
    PROVE  Content'
<1>1. next_key \in Nat /\ next_key' \in Nat
  BY MaxKeyAssumption DEF IInv, TypeOK, Key
<1>2. OwnKeys(stored, next_key')
  BY <1>1, OwnKeysLater DEF Content
<1>3. OwnBytes'
  BY OwnBytesLater DEF Content
<1>4. (XferInChunk /\ Encrypting /\ FlushedChunksVerify)'
  BY NewXferFields DEF XferInChunk, Encrypting, FlushedChunksVerify
<1>5. InStep'
  <2>1. Len(stored.chunk_list) \in Nat
    BY DEF IInv, TypeOK, Filenode
  <2>2. \A c \in Nat : (c < Len(filenode'.chunk_list) /\ c < Len(stored.chunk_list))
                       => filenode'.chunk_list[c + 1] = stored.chunk_list[c + 1]
    <3>1. SUFFICES ASSUME NEW c \in Nat, c < Len(filenode'.chunk_list), c < Len(stored.chunk_list)
                   PROVE  filenode'.chunk_list[c + 1] = stored.chunk_list[c + 1]
      OBVIOUS
    <3>2. Len(filenode'.chunk_list) \in Nat
      BY DEF Filenode
    <3> QED
      BY <2>1, <3>1, <3>2
  <2> QED
    BY <2>2, NewXferFields DEF InStep
<1> QED
  BY <1>2, <1>3, <1>4, <1>5 DEF Content, OwnKeys

LEMMA EncryptStartContent ==
    ASSUME IInv, IInv', Content, NEW size \in Sizes, ecall_fs_file_encrypt_start(size)
    PROVE  Content'
<1>1. PICK f \in {filenode, stored} :
        /\ nexus_vfs_get(f)
        /\ NewKeys(max(0, difference(f, size)))
        /\ filenode' = filenode_set_filesize(f, size, next_key)
  BY DEF ecall_fs_file_encrypt_start
<1>2. /\ xfer = NoXfer /\ xfer' = file_crypto_new("encrypt") /\ "encrypt" \in Modes
      /\ next_key \in Key /\ filenode' \in Filenode /\ is_dirty' /\ ~is_invalid'
      /\ UNCHANGED <<stored, tail_ok, cached, bytes>>
  BY DEF ecall_fs_file_encrypt_start, IInv, TypeOK, Modes
<1>3. f = stored /\ f \in Filenode /\ WellFormed(f) /\ OwnKeys(f, next_key)
  BY <1>1, <1>2, GotStored
<1>4. /\ next_key' \in Key /\ next_key <= next_key'
      /\ next_key' = next_key + max(0, difference(f, size))
      /\ next_key + max(0, difference(f, size)) <= MaxKey
  BY <1>1, <1>2, <1>3, KeysGrow
<1>5. /\ OwnKeys(filenode', next_key')
      /\ \A i \in 1 .. Len(f.chunk_list) :
            i <= Len(filenode'.chunk_list) => filenode'.chunk_list[i] = f.chunk_list[i]
  BY <1>1, <1>2, <1>3, <1>4, SetFilesizeKeys
<1> QED
  BY <1>2, <1>3, <1>4, <1>5, StartContent

LEMMA DecryptStartContent ==
    ASSUME IInv, IInv', Content, ecall_fs_file_decrypt_start
    PROVE  Content'
<1>1. PICK f \in {filenode, stored} : nexus_vfs_get(f) /\ filenode' = f
  BY DEF ecall_fs_file_decrypt_start
<1>2. /\ xfer = NoXfer /\ xfer' = file_crypto_new("decrypt") /\ "decrypt" \in Modes
      /\ next_key \in Key /\ next_key' = next_key /\ filenode' \in Filenode /\ ~is_invalid'
      /\ UNCHANGED <<stored, tail_ok, cached, bytes>>
  BY DEF ecall_fs_file_decrypt_start, IInv, TypeOK, Modes
<1>3. f = stored /\ OwnKeys(f, next_key)
  BY <1>1, <1>2, GotStored
<1>4. next_key <= next_key'
  BY <1>2, MaxKeyAssumption DEF Key
<1> QED
  BY <1>1, <1>2, <1>3, <1>4, StartContent

(* Where a seek puts the transfer.                                         *)
LEMMA SeekPlace ==
    ASSUME IInv, NEW offset \in Offsets, SeekAllowed(offset), NEW k \in Key
    PROVE  LET c == get_chunk_number(offset)
               x == Reposition(xfer, offset, k)
           IN  /\ c \in Nat /\ c < Len(filenode.chunk_list)
               /\ offset = ChunkBase(c) /\ offset \in Nat /\ offset <= filenode.filesize
               /\ x \in Xfer /\ x.offset = offset
               /\ offset + x.chunk_left = min(filenode.filesize, offset + ChunkSize)
               /\ x.data_buffer = [chunk |-> c, key |-> k, start |-> offset]
               /\ x.mode = xfer.mode /\ x.failed = xfer.failed
               /\ x.touched = xfer.touched /\ x.flushed = xfer.flushed
<1> DEFINE c == get_chunk_number(offset)
           x == Reposition(xfer, offset, k)
<1>1. xfer \in Xfer /\ filenode \in Filenode
  BY DEF IInv, TypeOK
<1>2. PICK e \in 0 .. filenode.nchunks : offset = ChunkBase(e)
  BY DEF Offsets
<1>3. e \in Nat
  BY <1>1 DEF Filenode
<1>4. c = e /\ c \in Nat /\ offset \in Nat /\ offset = ChunkBase(c)
  BY <1>2, <1>3, ChunkBaseIs
<1>5. c < Len(filenode.chunk_list) /\ offset <= filenode.filesize
  BY DEF SeekAllowed
<1>6. filenode.filesize \in Nat
  BY <1>1, SizesAssumption DEF Filenode
<1> HIDE DEF c
<1> DEFINE m   == min(filenode.filesize - offset, ChunkSize)
           buf == [chunk |-> c, key |-> k, start |-> offset]
<1>7. offset + m = min(filenode.filesize, offset + ChunkSize) /\ m \in Nat
  BY <1>4, <1>5, <1>6, ChunkSizeAssumption DEF min
<1>10. buf \in [chunk : Nat, key : Key, start : Nat]
  BY <1>4
<1> HIDE DEF m, buf
<1>8. x = [xfer EXCEPT !.offset = offset, !.chunk_left = m, !.data_buffer = buf]
  BY DEF Reposition, c, m, buf
<1> HIDE DEF x
<1>9. /\ x \in Xfer
      /\ x.offset = offset /\ x.chunk_left = m /\ x.data_buffer = buf
      /\ x.mode = xfer.mode /\ x.failed = xfer.failed
      /\ x.touched = xfer.touched /\ x.flushed = xfer.flushed
  BY <1>1, <1>4, <1>7, <1>8, <1>10 DEF Xfer
<1> QED
  BY <1>4, <1>5, <1>7, <1>9 DEF x, c, buf

LEMMA SeekEncryptContent ==
    ASSUME IInv, IInv', Content, NEW offset \in Offsets, SeekEncrypt(offset)
    PROVE  Content'
<1> DEFINE c == get_chunk_number(offset)
           k == next_key + 1
           r == Reposition(xfer, offset, k)
<1>1. /\ filenode \in Filenode /\ stored \in Filenode /\ xfer \in Xfer /\ next_key \in Nat
      /\ bytes \in [0 .. MaxSize - 1 -> Key] /\ filenode' \in Filenode
  BY MaxKeyAssumption DEF IInv, TypeOK, Key
<1>2. /\ xfer.mode = "encrypt" /\ SeekAllowed(offset) /\ k <= MaxKey /\ next_key' = k
      /\ filenode' = SetChunk(filenode, c, [key |-> k, mac |-> NoMac])
      /\ xfer' = [r EXCEPT !.touched = @ \union {c}, !.flushed = @ \ {c}]
      /\ is_dirty' = TRUE
      /\ UNCHANGED <<is_invalid, stored, tail_ok, cached, bytes, result>>
  BY DEF SeekEncrypt, NewKeys
<1>3. /\ c \in Nat /\ c < Len(filenode.chunk_list)
      /\ offset = ChunkBase(c) /\ offset \in Nat /\ offset <= filenode.filesize
      /\ r \in Xfer /\ r.offset = offset
      /\ offset + r.chunk_left = min(filenode.filesize, offset + ChunkSize)
      /\ r.data_buffer = [chunk |-> c, key |-> k, start |-> offset]
      /\ r.mode = xfer.mode /\ r.failed = xfer.failed
      /\ r.touched = xfer.touched /\ r.flushed = xfer.flushed
  <2>1. k \in Key
    BY <1>1, <1>2, MaxKeyAssumption DEF Key
  <2> QED
    BY <1>2, <2>1, SeekPlace
<1> HIDE DEF r, c
<1>4. /\ xfer'.offset = offset /\ xfer'.chunk_left = r.chunk_left
      /\ xfer'.data_buffer = [chunk |-> c, key |-> k, start |-> offset]
      /\ xfer'.mode = "encrypt" /\ xfer'.failed = xfer.failed
      /\ xfer'.touched = xfer.touched \union {c} /\ xfer'.flushed = xfer.flushed \ {c}
  BY <1>2, <1>3 DEF Xfer
<1>5. /\ filenode'.filesize = filenode.filesize
      /\ Len(filenode'.chunk_list) = Len(filenode.chunk_list)
      /\ \A i \in 1 .. Len(filenode.chunk_list) :
            filenode'.chunk_list[i] = IF i = c + 1 THEN [key |-> k, mac |-> NoMac]
                                      ELSE filenode.chunk_list[i]
  <2> DEFINE ch == [key |-> k, mac |-> NoMac]
  <2> HIDE DEF ch
  <2>1. filenode' = SetChunk(filenode, c, ch)
    BY <1>2 DEF ch
  <2>2. /\ filenode'.filesize = filenode.filesize
        /\ Len(filenode'.chunk_list) = Len(filenode.chunk_list)
        /\ \A i \in 1 .. Len(filenode.chunk_list) :
              filenode'.chunk_list[i] = IF i = c + 1 THEN ch ELSE filenode.chunk_list[i]
    BY <1>1, <1>3, <2>1, ReplacedChunk
  <2> QED
    BY <2>2 DEF ch
<1>6. OwnKeys(filenode', k)
  <2>1. \A i \in 1 .. Len(filenode.chunk_list) : filenode.chunk_list[i].key \in 1 .. next_key
    BY DEF Content, OwnKeys
  <2>2. \A i \in 1 .. Len(filenode.chunk_list) :
           filenode'.chunk_list[i].key = IF i = c + 1 THEN k ELSE filenode.chunk_list[i].key
    BY <1>5
  <2>3. \A i, j \in 1 .. Len(filenode.chunk_list) :
           filenode.chunk_list[i].key = filenode.chunk_list[j].key => i = j
    BY DEF Content, OwnKeys
  <2>4. \A i \in 1 .. Len(filenode.chunk_list) : filenode'.chunk_list[i].key \in 1 .. k
    BY <1>1, <2>1, <2>2
  <2>5. ASSUME NEW i \in 1 .. Len(filenode.chunk_list), NEW j \in 1 .. Len(filenode.chunk_list),
               filenode'.chunk_list[i].key = filenode'.chunk_list[j].key
        PROVE  i = j
    <3>1. \A e \in 1 .. Len(filenode.chunk_list) : filenode.chunk_list[e].key # k
      BY <1>1, <2>1
    <3> HIDE DEF k
    <3> QED
      BY <2>2, <2>3, <2>5, <3>1
  <2> QED
    BY <1>5, <2>4, <2>5 DEF OwnKeys
<1>7. OwnKeys(stored, k) /\ OwnBytes'
  <2>1. next_key <= next_key' /\ next_key' \in Key /\ k \in Nat /\ next_key <= k
    BY <1>1, <1>2, MaxKeyAssumption DEF Key
  <2>2. OwnKeys(stored, k)
    BY <1>1, <2>1, OwnKeysLater DEF Content
  <2>3. OwnBytes'
    BY <1>2, <2>1, OwnBytesLater DEF Content
  <2> QED
    BY <2>2, <2>3
<1>8. XferInChunk'
  <2>1. filenode'.chunk_list[c + 1].key = k
    <3>1. c + 1 \in 1 .. Len(filenode.chunk_list)
      BY <1>1, <1>3 DEF Filenode
    <3> QED
      BY <1>5, <3>1
  <2> QED
    BY <1>3, <1>4, <1>5, <2>1 DEF XferInChunk
<1>9. Encrypting'
  <2>1. \A b \in DOMAIN bytes : bytes[b] # k
    BY <1>1 DEF Content, OwnBytes, Key
  <2>2. offset .. offset - 1 = {}
    BY <1>3
  <2>3. /\ c \in xfer'.touched /\ c \notin xfer'.flushed
        /\ xfer'.data_buffer.chunk = c /\ xfer'.data_buffer.key = k
        /\ xfer'.data_buffer.start = offset
    BY <1>4
  <2>4. bytes' = bytes
    BY <1>2
  <2> HIDE DEF k
  <2> QED
    BY <1>4, <2>1, <2>2, <2>3, <2>4 DEF Encrypting
<1>10. FlushedChunksVerify'
  <2>1. SUFFICES ASSUME NEW d \in xfer'.flushed, d \in Chunks(filenode')
                 PROVE  Verifies(filenode', bytes', d)
    BY DEF FlushedChunksVerify
  <2>2. d \in xfer.flushed /\ d # c
    BY <1>4, <2>1
  <2>3. d \in Chunks(filenode) /\ d \in Nat /\ d + 1 \in 1 .. Len(filenode.chunk_list)
    BY <1>1, <1>5, <2>1 DEF Chunks, Filenode
  <2>4. filenode'.chunk_list[d + 1] = filenode.chunk_list[d + 1]
    BY <1>3, <1>5, <2>2, <2>3
  <2>5. ChunkLen(filenode', d) = ChunkLen(filenode, d)
    BY <1>5 DEF ChunkLen
  <2>6. Verifies(filenode, bytes, d)
    BY <2>2, <2>3 DEF Content, FlushedChunksVerify
  <2> QED
    BY <1>2, <2>1, <2>4, <2>5, <2>6 DEF Verifies, MacMatches
<1>11. InStep'
  <2>1. xfer # NoXfer /\ ~is_invalid
    BY <1>2 DEF SeekAllowed, Content, InStep
  <2>2. xfer' # NoXfer
    BY <1>4, NoXferFields
  <2>3. ASSUME NEW d \in Nat \ xfer'.touched,
               d < Len(filenode'.chunk_list), d < Len(stored'.chunk_list)
        PROVE  filenode'.chunk_list[d + 1] = stored'.chunk_list[d + 1]
    <3>1. d \notin xfer.touched /\ d # c /\ d < Len(filenode.chunk_list)
      BY <1>4, <1>5, <2>3
    <3>2. d + 1 \in 1 .. Len(filenode.chunk_list)
      BY <1>1, <3>1 DEF Filenode
    <3>3. filenode'.chunk_list[d + 1] = filenode.chunk_list[d + 1]
      BY <1>3, <1>5, <3>1, <3>2
    <3> QED
      BY <1>2, <2>1, <2>3, <3>1, <3>3 DEF Content, InStep
  <2> QED
    BY <1>2, <2>1, <2>2, <2>3 DEF InStep
<1> QED
  BY <1>2, <1>6, <1>7, <1>8, <1>9, <1>10, <1>11 DEF Content, OwnKeys

LEMMA SeekDecryptContent ==
    ASSUME IInv, IInv', Content, NEW offset \in Offsets, SeekDecrypt(offset)
    PROVE  Content'
<1> DEFINE c == get_chunk_number(offset)
           k == filenode.chunk_list[c + 1].key
<1>1. /\ xfer.mode = "decrypt" /\ SeekAllowed(offset)
      /\ xfer' = Reposition(xfer, offset, k)
      /\ UNCHANGED <<filenode, is_invalid, is_dirty, stored, tail_ok, cached, bytes, next_key, result>>
  BY DEF SeekDecrypt
<1>2. k \in Key
  <2>1. c \in Nat /\ c < Len(filenode.chunk_list) /\ filenode \in Filenode
    <3>1. 0 \in Key
      BY MaxKeyAssumption DEF Key
    <3> QED
      BY <1>1, <3>1, SeekPlace DEF IInv, TypeOK
  <2>2. filenode.chunk_list \in Seq(Chunk) /\ c + 1 \in 1 .. Len(filenode.chunk_list)
    BY <2>1 DEF Filenode
  <2> HIDE DEF c
  <2>3. filenode.chunk_list[c + 1] \in Chunk
    BY <2>2
  <2> QED
    BY <2>3 DEF Chunk
<1>3. /\ offset = ChunkBase(c) /\ xfer'.offset = offset
      /\ offset + xfer'.chunk_left = min(filenode.filesize, offset + ChunkSize)
      /\ xfer'.data_buffer = [chunk |-> c, key |-> k, start |-> offset]
      /\ xfer'.mode = xfer.mode /\ xfer'.touched = xfer.touched /\ xfer'.flushed = xfer.flushed
  <2> HIDE DEF k
  <2> QED
    BY <1>1, <1>2, SeekPlace
<1>4. XferInChunk'
  BY <1>1, <1>3 DEF XferInChunk
<1>5. Encrypting'
  BY <1>1, <1>3 DEF Encrypting
<1>6. FlushedChunksVerify'
  BY <1>1, <1>3 DEF Content, FlushedChunksVerify
<1>7. InStep'
  <2>1. xfer # NoXfer /\ xfer' # NoXfer
    BY <1>1, <1>3, NoXferFields DEF SeekAllowed
  <2> QED
    BY <1>1, <1>3, <2>1 DEF Content, InStep
<1>8. (OwnKeys(filenode, next_key) /\ OwnKeys(stored, next_key) /\ OwnBytes)'
  BY <1>1 DEF Content, OwnKeys, OwnBytes
<1> QED
  BY <1>4, <1>5, <1>6, <1>7, <1>8 DEF Content

LEMMA CrashContent ==
    ASSUME IInv, Content, Crash
    PROVE  Content'
<1>1. (OwnKeys(filenode, next_key) /\ OwnKeys(stored, next_key) /\ OwnBytes)'
  BY DEF Crash, Content, OwnKeys, OwnBytes
<1>2. (XferInChunk /\ Encrypting /\ FlushedChunksVerify)'
  BY NoXferFields DEF Crash, XferInChunk, Encrypting, FlushedChunksVerify
<1>3. InStep'
  BY NoXferFields DEF Crash, InStep
<1> QED
  BY <1>1, <1>2, <1>3 DEF Content

LEMMA FinishContent ==
    ASSUME IInv, Content, file_crypto_finish
    PROVE  Content'
<1>1. xfer # NoXfer /\ xfer' = NoXfer /\ next_key' = next_key
  BY DEF file_crypto_finish
<1>2. next_key' \in Key /\ next_key <= next_key'
  BY <1>1, MaxKeyAssumption DEF IInv, TypeOK, Key
<1>3. CASE is_dirty
  BY <1>1, <1>2, <1>3, StoreContent DEF file_crypto_finish, Content
<1>4. CASE ~is_dirty
  <2>1. UNCHANGED <<filenode, is_invalid, is_dirty, stored, tail_ok, cached, bytes>>
    BY <1>4 DEF file_crypto_finish
  <2>2. (OwnKeys(filenode, next_key) /\ OwnKeys(stored, next_key) /\ OwnBytes)'
    BY <1>1, <2>1 DEF Content, OwnKeys, OwnBytes
  <2>3. (XferInChunk /\ Encrypting /\ FlushedChunksVerify)'
    BY <1>1, NoXferFields DEF XferInChunk, Encrypting, FlushedChunksVerify
  <2>4. InStep'
    BY <1>1, <1>4, <2>1, NoXferFields DEF Content, InStep
  <2> QED
    BY <2>2, <2>3, <2>4 DEF Content
<1> QED
  BY <1>3, <1>4

(* The transfer after an update.                                           *)
LEMMA Advanced ==
    ASSUME NEW x \in Xfer, NEW n \in Nat, n <= x.chunk_left
    PROVE  LET y == Advance(x, n) IN
           /\ y \in Xfer
           /\ y.offset = x.offset + n /\ y.chunk_left = x.chunk_left - n
           /\ y.data_buffer = IF n = x.chunk_left THEN NoBuf ELSE x.data_buffer
           /\ y.mode = x.mode /\ y.failed = x.failed
           /\ y.touched = x.touched /\ y.flushed = x.flushed
<1> DEFINE buf == IF x.chunk_left = n THEN NoBuf ELSE x.data_buffer
           y   == Advance(x, n)
<1>1. y \in Xfer /\ y.offset = x.offset + n /\ y.chunk_left = x.chunk_left - n
  BY AdvanceType
<1>2. buf = IF n = x.chunk_left THEN NoBuf ELSE x.data_buffer
  OBVIOUS
<1> HIDE DEF buf
<1>3. y = [x EXCEPT !.offset = @ + n, !.chunk_left = @ - n, !.data_buffer = buf]
  BY DEF Advance, buf
<1>4. /\ y.data_buffer = buf /\ y.mode = x.mode /\ y.failed = x.failed
      /\ y.touched = x.touched /\ y.flushed = x.flushed
  BY <1>3 DEF Xfer
<1> HIDE DEF y
<1> QED
  BY <1>1, <1>2, <1>4 DEF y

LEMMA UpdateDecryptContent ==
    ASSUME IInv, Content, NEW size \in UpdateSizes, UpdateDecrypt(size)
    PROVE  Content'
<1> DEFINE n == min(size, xfer.chunk_left)
           y == Advance(xfer, n)
           bad == result' = "mac_failed"
<1>1. xfer \in Xfer /\ size \in Nat
  BY SizesAssumption DEF IInv, TypeOK
<1>2. n \in Nat /\ n <= xfer.chunk_left /\ xfer.chunk_left \in Nat /\ xfer.offset \in Nat
  BY <1>1 DEF min, Xfer
<1> HIDE DEF n
<1>3. /\ y \in Xfer
      /\ y.offset = xfer.offset + n /\ y.chunk_left = xfer.chunk_left - n
      /\ y.data_buffer = IF n = xfer.chunk_left THEN NoBuf ELSE xfer.data_buffer
      /\ y.mode = xfer.mode /\ y.touched = xfer.touched /\ y.flushed = xfer.flushed
  BY <1>1, <1>2, Advanced
<1>4. /\ xfer.mode = "decrypt" /\ xfer # NoXfer /\ xfer' = [y EXCEPT !.failed = bad]
      /\ UNCHANGED <<filenode, is_invalid, is_dirty, stored, tail_ok, cached, bytes, next_key>>
  BY DEF UpdateDecrypt, UpdateAllowed, n
<1> HIDE DEF y, bad
<1>5. /\ xfer'.offset = xfer.offset + n /\ xfer'.chunk_left = xfer.chunk_left - n
      /\ xfer'.data_buffer = IF n = xfer.chunk_left THEN NoBuf ELSE xfer.data_buffer
      /\ xfer'.mode = "decrypt" /\ xfer'.touched = xfer.touched /\ xfer'.flushed = xfer.flushed
  BY <1>3, <1>4 DEF Xfer
<1>6. (OwnKeys(filenode, next_key) /\ OwnKeys(stored, next_key) /\ OwnBytes)'
  BY <1>4 DEF Content, OwnKeys, OwnBytes
<1>7. XferInChunk'
  <2>1. xfer'.offset + xfer'.chunk_left = xfer.offset + xfer.chunk_left
    BY <1>2, <1>5
  <2> QED
    BY <1>4, <1>5, <2>1 DEF Content, XferInChunk
<1>8. (Encrypting /\ FlushedChunksVerify)'
  BY <1>4, <1>5 DEF Content, Encrypting, FlushedChunksVerify
<1>9. InStep'
  BY <1>4, <1>5, NoXferFields DEF Content, InStep
<1> QED
  BY <1>6, <1>7, <1>8, <1>9 DEF Content

LEMMA UpdateEncryptContent ==
    ASSUME IInv, IInv', Content, NEW size \in UpdateSizes, UpdateEncrypt(size)
    PROVE  Content'
<1> DEFINE n   == min(size, xfer.chunk_left)
           buf == xfer.data_buffer
           c   == buf.chunk
           end == xfer.offset + n
           ch  == [filenode.chunk_list[c + 1] EXCEPT !.mac = [key |-> buf.key, len |-> end - buf.start]]
           g   == SetChunk(filenode, c, ch)
<1>1. /\ xfer \in Xfer /\ size \in Nat /\ filenode \in Filenode /\ stored \in Filenode
      /\ next_key \in Nat /\ bytes \in [0 .. MaxSize - 1 -> Key]
  BY SizesAssumption, MaxKeyAssumption DEF IInv, TypeOK, Key
<1>2. /\ n \in Nat /\ n <= xfer.chunk_left /\ xfer.offset \in Nat /\ xfer.chunk_left \in Nat
  BY <1>1 DEF min, Xfer
<1>3. xfer.mode = "encrypt" /\ xfer # NoXfer /\ ~xfer.failed /\ buf # NoBuf
  BY DEF UpdateEncrypt, UpdateAllowed
<1>4. /\ buf \in [chunk : Nat, key : Key, start : Nat] /\ c \in Nat /\ buf.start \in Nat
      /\ buf.key \in Nat
  BY <1>1, MaxKeyAssumption DEF Xfer, Key
<1>5. /\ c < Len(filenode.chunk_list) /\ buf.start <= xfer.offset
      /\ xfer.offset + xfer.chunk_left <= filenode.filesize
  BY <1>3 DEF IInv, XferInFile
<1>6. /\ buf.start = ChunkBase(c)
      /\ xfer.offset + xfer.chunk_left = min(filenode.filesize, buf.start + ChunkSize)
      /\ filenode.chunk_list[c + 1].key = buf.key
  BY <1>3 DEF Content, XferInChunk
<1>7. /\ c \in xfer.touched /\ c \notin xfer.flushed
      /\ \A b \in DOMAIN bytes : bytes[b] = buf.key => b \in buf.start .. xfer.offset - 1
      /\ \A b \in buf.start .. xfer.offset - 1 : bytes[b] = buf.key
  BY <1>3 DEF Content, Encrypting
<1>8. PICK w \in 0 .. n :
        /\ bytes' = [b \in DOMAIN bytes |->
                        IF b \in xfer.offset .. xfer.offset + w - 1 THEN buf.key ELSE bytes[b]]
        /\ xfer' = [Advance(xfer, n) EXCEPT
                       !.failed = w < n,
                       !.flushed = IF w = n /\ n = xfer.chunk_left THEN @ \union {c} ELSE @]
  BY DEF UpdateEncrypt
<1>9. /\ filenode' = IF n < xfer.chunk_left THEN filenode ELSE filenode_update_encrypted_pos(g, end)
      /\ UNCHANGED <<is_invalid, is_dirty, stored, cached, next_key, result>>
  BY DEF UpdateEncrypt
<1>10. /\ xfer'.offset = xfer.offset + n /\ xfer'.chunk_left = xfer.chunk_left - n
       /\ xfer'.data_buffer = (IF n = xfer.chunk_left THEN NoBuf ELSE buf)
       /\ xfer'.mode = "encrypt" /\ xfer'.touched = xfer.touched
       /\ ~xfer'.failed => w = n
       /\ xfer'.flushed = IF w = n /\ n = xfer.chunk_left THEN xfer.flushed \union {c} ELSE xfer.flushed
  <2> DEFINE y   == Advance(xfer, n)
             bad == w < n
             fl  == IF w = n /\ n = xfer.chunk_left THEN y.flushed \union {c} ELSE y.flushed
  <2>1. /\ y \in Xfer /\ y.offset = xfer.offset + n /\ y.chunk_left = xfer.chunk_left - n
        /\ y.data_buffer = (IF n = xfer.chunk_left THEN NoBuf ELSE xfer.data_buffer)
        /\ y.mode = xfer.mode /\ y.touched = xfer.touched /\ y.flushed = xfer.flushed
    <3> HIDE DEF n
    <3> QED
      BY <1>1, <1>2, Advanced
  <2>2. xfer' = [y EXCEPT !.failed = bad, !.flushed = fl]
    BY <1>8
  <2>3. ~bad => w = n
    BY <1>2
  <2> HIDE DEF y, bad, fl
  <2>4. /\ xfer'.offset = y.offset /\ xfer'.chunk_left = y.chunk_left
        /\ xfer'.data_buffer = y.data_buffer /\ xfer'.mode = y.mode /\ xfer'.touched = y.touched
        /\ xfer'.failed = bad /\ xfer'.flushed = fl
    BY <2>1, <2>2 DEF Xfer
  <2> QED
    BY <1>3, <2>1, <2>3, <2>4 DEF fl
<1> HIDE DEF n, buf, c
(* Where the bytes go: into this chunk, behind those already written.      *)
<1>11. /\ w \in Nat /\ w <= n
       /\ \A b \in xfer.offset .. xfer.offset + w - 1 :
             b \in Nat /\ buf.start <= b /\ b < buf.start + ChunkSize /\ get_chunk_number(b) = c
  <2>1. w \in Nat /\ w <= n
    BY <1>2
  <2>2. filenode.filesize \in Nat
    BY <1>1, SizesAssumption DEF Filenode
  <2>3. xfer.offset + xfer.chunk_left <= buf.start + ChunkSize
    BY <1>4, <1>6, <2>2, ChunkSizeAssumption DEF min
  <2>4. \A b \in xfer.offset .. xfer.offset + w - 1 :
           b \in Nat /\ buf.start <= b /\ b < buf.start + ChunkSize
    BY <1>2, <1>4, <1>5, <2>1, <2>3, ChunkSizeAssumption
  <2> QED
    BY <1>4, <1>6, <2>1, <2>4, ChunkBaseIs
<1>12. \A b \in DOMAIN bytes' :
          /\ b \in DOMAIN bytes /\ b \in 0 .. MaxSize - 1
          /\ bytes'[b] = IF b \in xfer.offset .. xfer.offset + w - 1 THEN buf.key ELSE bytes[b]
  BY <1>1, <1>8
<1>13. \A b \in DOMAIN bytes' : bytes'[b] = buf.key => b \in buf.start .. xfer.offset + w - 1
  BY <1>1, <1>2, <1>4, <1>5, <1>7, <1>11, <1>12
<1>14. OwnBytes'
  <2>1. 1 <= buf.key /\ buf.key <= next_key
    <3>1. c + 1 \in 1 .. Len(filenode.chunk_list)
      BY <1>1, <1>4, <1>5 DEF Filenode
    <3> QED
      BY <1>1, <1>6, <3>1 DEF Content, OwnKeys
  <2>2. \A b \in DOMAIN bytes' : bytes'[b] <= next_key'
    BY <1>9, <1>12, <2>1 DEF Content, OwnBytes
  <2>3. \A b \in DOMAIN bytes' : bytes'[b] = buf.key => get_chunk_number(b) = c
    <3>1. SUFFICES ASSUME NEW b \in DOMAIN bytes', bytes'[b] = buf.key PROVE get_chunk_number(b) = c
      OBVIOUS
    <3>2. CASE b \in xfer.offset .. xfer.offset + w - 1
      BY <1>11, <3>2
    <3>3. CASE b \notin xfer.offset .. xfer.offset + w - 1
      <4>1. b \in DOMAIN bytes /\ bytes[b] = buf.key
        BY <1>12, <3>1, <3>3
      <4>2. b \in buf.start .. xfer.offset - 1
        BY <1>7, <4>1
      <4>3. filenode.filesize \in Nat
        BY <1>1, SizesAssumption DEF Filenode
      <4>4. xfer.offset + xfer.chunk_left <= buf.start + ChunkSize
        BY <1>4, <1>6, <4>3, ChunkSizeAssumption DEF min
      <4>5. b \in Nat /\ buf.start <= b /\ b < buf.start + ChunkSize
        BY <1>2, <1>4, <4>2, <4>4, ChunkSizeAssumption
      <4> QED
        BY <1>4, <1>6, <4>5, ChunkBaseIs
    <3> QED
      BY <3>2, <3>3
  <2>4. \A b1, b2 \in DOMAIN bytes' :
           (bytes'[b1] # Junk /\ bytes'[b1] = bytes'[b2]) => get_chunk_number(b1) = get_chunk_number(b2)
    <3>1. SUFFICES ASSUME NEW b1 \in DOMAIN bytes', NEW b2 \in DOMAIN bytes',
                          bytes'[b1] # Junk, bytes'[b1] = bytes'[b2]
                   PROVE  get_chunk_number(b1) = get_chunk_number(b2)
      OBVIOUS
    <3>2. CASE bytes'[b1] = buf.key
      BY <2>3, <3>1, <3>2
    <3>3. CASE bytes'[b1] # buf.key
      BY <1>12, <3>1, <3>3 DEF Content, OwnBytes
    <3> QED
      BY <3>2, <3>3
  <2> QED
    BY <2>2, <2>4 DEF OwnBytes
(* All of the chunk up to the new offset is written, if no write failed.   *)
<1>15. w = n => \A b \in buf.start .. xfer.offset + n - 1 : bytes'[b] = buf.key
  <2>1. SUFFICES ASSUME w = n, NEW b \in buf.start .. xfer.offset + n - 1 PROVE bytes'[b] = buf.key
    OBVIOUS
  <2>2. filenode.filesize \in 0 .. MaxSize
    BY <1>1 DEF Filenode
  <2>3. b \in 0 .. MaxSize - 1
    BY <1>2, <1>4, <1>5, <2>2, SizesAssumption
  <2>4. b \in DOMAIN bytes'
    BY <1>1, <1>8, <2>3
  <2>5. b \in xfer.offset .. xfer.offset + w - 1 \/ b \in buf.start .. xfer.offset - 1
    BY <1>2, <1>4, <1>5, <2>1
  <2> QED
    BY <1>7, <1>12, <2>4, <2>5
(* A chunk that was closed before keeps its bytes.                         *)
<1>16. ASSUME NEW d \in Chunks(filenode), d # c, Verifies(filenode, bytes, d)
       PROVE  \A b \in ChunkBase(d) .. ChunkBase(d) + ChunkLen(filenode, d) - 1 :
                 bytes'[b] = filenode.chunk_list[d + 1].key
  <2>1. SUFFICES ASSUME NEW b \in ChunkBase(d) .. ChunkBase(d) + ChunkLen(filenode, d) - 1
                 PROVE  bytes'[b] = filenode.chunk_list[d + 1].key
    OBVIOUS
  <2>2. b \in 0 .. MaxSize - 1 /\ get_chunk_number(b) = d
    BY <1>1, <2>1, ChunkBytes
  <2>3. b \in DOMAIN bytes' /\ b \notin xfer.offset .. xfer.offset + w - 1
    BY <1>1, <1>8, <1>11, <1>16, <2>2
  <2>4. bytes[b] = filenode.chunk_list[d + 1].key
    BY <1>16, <2>1 DEF Verifies, MacMatches
  <2> QED
    BY <1>12, <2>3, <2>4
<1>17. CASE n < xfer.chunk_left
  <2>1. /\ filenode' = filenode /\ xfer'.data_buffer = buf /\ xfer'.flushed = xfer.flushed
    BY <1>2, <1>9, <1>10, <1>17
  <2>2. XferInChunk'
    <3>1. xfer'.offset + xfer'.chunk_left = xfer.offset + xfer.chunk_left
      BY <1>2, <1>10
    <3> QED
      BY <1>6, <2>1, <3>1 DEF XferInChunk, c
  <2>3. Encrypting'
    <3>1. \A b \in DOMAIN bytes' : bytes'[b] = buf.key => b \in buf.start .. (xfer.offset + n) - 1
      BY <1>2, <1>4, <1>11, <1>13
    <3>2. /\ buf.chunk \in xfer'.touched /\ buf.chunk \notin xfer'.flushed
          /\ xfer'.data_buffer = buf /\ xfer'.offset = xfer.offset + n
      BY <1>7, <1>10, <2>1 DEF c
    <3>3. ~xfer'.failed => \A b \in buf.start .. (xfer.offset + n) - 1 : bytes'[b] = buf.key
      <4>1. ~xfer'.failed => w = n
        BY <1>10
      <4>2. w = n => \A b \in buf.start .. (xfer.offset + n) - 1 : bytes'[b] = buf.key
        <5>1. (xfer.offset + n) - 1 = xfer.offset + n - 1
          BY <1>2
        <5> QED
          BY <1>15, <5>1
      <4> QED
        BY <4>1, <4>2, Zenon
    <3> QED
      BY <3>1, <3>2, <3>3 DEF Encrypting
  <2>4. FlushedChunksVerify'
    <3>1. SUFFICES ASSUME NEW d \in xfer.flushed, d \in Chunks(filenode)
                   PROVE  Verifies(filenode, bytes', d)
      BY <2>1 DEF FlushedChunksVerify
    <3>2. Verifies(filenode, bytes, d) /\ d # c
      BY <1>7, <3>1 DEF Content, FlushedChunksVerify
    <3> QED
      BY <1>16, <3>1, <3>2 DEF Verifies, MacMatches
  <2>5. InStep'
    BY <1>3, <1>9, <1>10, <2>1, NoXferFields DEF Content, InStep
  <2> QED
    BY <1>9, <1>14, <2>1, <2>2, <2>3, <2>4, <2>5 DEF Content, OwnKeys
<1>18. CASE ~(n < xfer.chunk_left)
  <2>1. n = xfer.chunk_left /\ xfer'.data_buffer = NoBuf
    BY <1>2, <1>10, <1>18
  <2>2. /\ Len(filenode'.chunk_list) = Len(filenode.chunk_list)
        /\ filenode'.filesize = filenode.filesize
        /\ \A i \in 1 .. Len(filenode.chunk_list) :
              filenode'.chunk_list[i] = IF i = c + 1 THEN ch ELSE filenode.chunk_list[i]
    <3> HIDE DEF ch, end
    <3>1. /\ g.filesize = filenode.filesize /\ Len(g.chunk_list) = Len(filenode.chunk_list)
          /\ \A i \in 1 .. Len(filenode.chunk_list) :
                g.chunk_list[i] = IF i = c + 1 THEN ch ELSE filenode.chunk_list[i]
      BY <1>1, <1>4, <1>5, ReplacedChunk
    <3>2. g = [filenode EXCEPT !.chunk_list = [@ EXCEPT ![c + 1] = ch]]
      BY DEF SetChunk
    <3>3. filenode' = [g EXCEPT !.encrypted_length = max(@, end)]
      BY <1>9, <1>18 DEF filenode_update_encrypted_pos
    <3>4. g.filesize = filenode'.filesize /\ g.chunk_list = filenode'.chunk_list
      BY <1>1, <3>2, <3>3 DEF Filenode
    <3> QED
      BY <3>1, <3>4
  <2>3. c + 1 \in 1 .. Len(filenode.chunk_list)
    BY <1>1, <1>4, <1>5 DEF Filenode
  <2>4. /\ filenode.chunk_list[c + 1] \in Chunk
        /\ ch.key = buf.key /\ ch.mac = [key |-> buf.key, len |-> end - buf.start]
    <3>1. filenode.chunk_list \in Seq(Chunk)
      BY <1>1 DEF Filenode
    <3>2. filenode.chunk_list[c + 1] \in Chunk
      BY <2>3, <3>1
    <3> QED
      BY <1>6, <3>2 DEF Chunk
  <2> HIDE DEF ch, end
  <2>5. \A i \in 1 .. Len(filenode.chunk_list) : filenode'.chunk_list[i].key = filenode.chunk_list[i].key
    BY <1>6, <2>2, <2>4
  <2>6. OwnKeys(filenode', next_key)
    BY <2>2, <2>5 DEF Content, OwnKeys
  <2>7. XferInChunk' /\ Encrypting'
    BY <2>1 DEF XferInChunk, Encrypting
  <2>8. FlushedChunksVerify'
    <3>1. SUFFICES ASSUME NEW d \in xfer'.flushed, d \in Chunks(filenode')
                   PROVE  Verifies(filenode', bytes', d)
      BY DEF FlushedChunksVerify
    <3>2. /\ d \in Chunks(filenode) /\ ChunkLen(filenode', d) = ChunkLen(filenode, d)
          /\ d + 1 \in 1 .. Len(filenode.chunk_list) /\ d \in Nat
      BY <1>1, <2>2, <3>1 DEF Chunks, ChunkLen, Filenode
    <3>3. CASE d # c
      <4>1. d \in xfer.flushed
        BY <1>10, <3>1, <3>3
      <4>2. Verifies(filenode, bytes, d)
        BY <3>2, <4>1 DEF Content, FlushedChunksVerify
      <4>3. filenode'.chunk_list[d + 1] = filenode.chunk_list[d + 1]
        BY <1>4, <2>2, <3>2, <3>3
      <4> QED
        BY <1>16, <3>1, <3>2, <3>3, <4>2, <4>3 DEF Verifies, MacMatches
    <3>4. CASE d = c
      <4>1. w = n
        BY <1>7, <1>10, <3>1, <3>4
      <4>2. filenode'.chunk_list[d + 1] = ch
        BY <2>2, <2>3, <3>4
      <4>3. end = xfer.offset + n
        BY DEF end
      <4>4. filenode.filesize \in Nat
        BY <1>1, SizesAssumption DEF Filenode
      <4>5. ChunkLen(filenode', d) = end - buf.start
        BY <1>2, <1>4, <1>6, <2>1, <3>2, <3>4, <4>3, <4>4, ChunkSizeAssumption DEF ChunkLen, min
      <4>6. \A b \in ChunkBase(d) .. ChunkBase(d) + (end - buf.start) - 1 : bytes'[b] = buf.key
        <5>1. ChunkBase(d) + (end - buf.start) - 1 = xfer.offset + n - 1
          BY <1>2, <1>4, <1>6, <3>4, <4>3
        <5> QED
          BY <1>6, <1>15, <3>4, <4>1, <5>1
      <4> QED
        BY <2>4, <3>1, <4>2, <4>5, <4>6 DEF Verifies, MacMatches
    <3> QED
      BY <3>3, <3>4
  <2>9. InStep'
    <3>1. ~is_invalid /\ ~is_invalid' /\ xfer' # NoXfer /\ stored' = stored
      BY <1>3, <1>9, <1>10, NoXferFields DEF Content, InStep
    <3>2. is_dirty'
      BY <1>3, <1>9 DEF Content, InStep
    <3>3. ASSUME NEW d \in Nat \ xfer'.touched,
                 d < Len(filenode'.chunk_list), d < Len(stored'.chunk_list)
          PROVE  filenode'.chunk_list[d + 1] = stored'.chunk_list[d + 1]
      <4>1. d \notin xfer.touched /\ d # c /\ d < Len(filenode.chunk_list)
        BY <1>7, <1>10, <2>2, <3>3
      <4>2. d + 1 \in 1 .. Len(filenode.chunk_list)
        BY <1>1, <4>1 DEF Filenode
      <4>3. filenode'.chunk_list[d + 1] = filenode.chunk_list[d + 1]
        BY <1>4, <2>2, <4>1, <4>2
      <4> QED
        BY <3>1, <3>3, <4>1, <4>3 DEF Content, InStep
    <3> QED
      BY <3>1, <3>2, <3>3 DEF InStep
  <2> QED
    BY <1>9, <1>14, <2>6, <2>7, <2>8, <2>9 DEF Content, OwnKeys
<1> QED
  BY <1>17, <1>18

(* Every step keeps the content, beside the shape.                         *)
LEMMA NextContent == IInv /\ IInv' /\ Content /\ [Next]_vars => Content'
<1> SUFFICES ASSUME IInv, IInv', Content, [Next]_vars PROVE Content'
  OBVIOUS
<1>1. ASSUME NEW size \in Sizes, ecall_fs_truncate(size) PROVE Content'
  BY <1>1, TruncateContent
<1>2. ASSUME NEW size \in Sizes, ecall_fs_file_encrypt_start(size) PROVE Content'
  BY <1>2, EncryptStartContent
<1>3. CASE ecall_fs_file_decrypt_start
  BY <1>3, DecryptStartContent
<1>4. ASSUME NEW offset \in Offsets, SeekEncrypt(offset) PROVE Content'
  BY <1>4, SeekEncryptContent
<1>5. ASSUME NEW offset \in Offsets, SeekDecrypt(offset) PROVE Content'
  BY <1>5, SeekDecryptContent
<1>6. ASSUME NEW size \in UpdateSizes, UpdateEncrypt(size) PROVE Content'
  BY <1>6, UpdateEncryptContent
<1>7. ASSUME NEW size \in UpdateSizes, UpdateDecrypt(size) PROVE Content'
  BY <1>7, UpdateDecryptContent
<1>8. CASE file_crypto_finish
  BY <1>8, FinishContent
<1>9. CASE Crash
  BY <1>9, CrashContent
<1>10. CASE UNCHANGED vars
  BY <1>10 DEF vars, Content, OwnKeys, OwnBytes, XferInChunk, Encrypting, FlushedChunksVerify, InStep
<1> QED
  BY <1>1, <1>2, <1>3, <1>4, <1>5, <1>6, <1>7, <1>8, <1>9, <1>10 DEF Next

LEMMA ContentHolds == Spec => [](IInv /\ Content)
<1>1. Init => IInv /\ Content
  BY InitIInv, InitContent
<1>2. (IInv /\ Content) /\ [Next]_vars => (IInv /\ Content)'
  BY NextIInv, NextContent
<1> QED
  BY <1>1, <1>2, PTL DEF Spec

(* No key encrypts two streams: the keys of the filenode differ, and the   *)
(* bytes under one key lie in one chunk and, during an encryption, in what *)
(* it has produced (file_crypto_seek generates a key for every pass over a *)
(* chunk).                                                                 *)
THEOREM KeysStayFresh == Spec => []KeysAreFresh
<1>1. IInv /\ Content => KeysAreFresh
  BY DEF Content, OwnKeys, OwnBytes, Encrypting, KeysAreFresh
<1> QED
  BY <1>1, ContentHolds, PTL

(* What a transfer has closed and written reads back under the filenode it *)
(* will store (file_crypto_update, __flush_data_buffer).                   *)
THEOREM ClosedChunksVerify == Spec => []FlushedChunksVerify
<1>1. IInv /\ Content => FlushedChunksVerify
  BY DEF Content
<1> QED
  BY <1>1, ContentHolds, PTL

(* Between transfers the enclave has nothing that the file has not         *)
(* (file_crypto_finish, nexus_metadata_store).                             *)
THEOREM IdleIsStored == Spec => []IdleFilenodeIsStored
<1>1. IInv /\ Content => IdleFilenodeIsStored
  BY DEF Content, InStep, IdleFilenodeIsStored
<1> QED
  BY <1>1, ContentHolds, PTL
-----------------------------------------------------------------------------
(* A store of a filenode that has the old entry of a chunk keeps it        *)
(* readable.                                                               *)
LEMMA StoreSurvives ==
    ASSUME IInv, NEW g \in Filenode, StoreOK(g) \/ StoreFails(g), tail_ok',
           NEW c \in Chunks(stored), Verifies(stored, bytes, c),
           c \in Chunks(stored'), ChunkLen(stored', c) = ChunkLen(stored, c),
           c < Len(g.chunk_list) => g.chunk_list[c + 1] = stored.chunk_list[c + 1]
    PROVE  Verifies(stored', bytes', c)
<1>1. CASE stored' = stored /\ bytes' = bytes
  BY <1>1
<1>2. CASE ~(stored' = stored /\ bytes' = bytes)
  <2>1. stored' = g /\ bytes' = Cut(bytes, g)
    BY <1>2 DEF StoreOK, StoreFails
  <2>2. c \in Chunks(g) /\ c < Len(g.chunk_list)
    BY <2>1 DEF Chunks, Filenode
  <2>3. g.chunk_list[c + 1] = stored.chunk_list[c + 1]
    BY <2>2
  <2>4. ASSUME NEW b \in ChunkBase(c) .. ChunkBase(c) + ChunkLen(g, c) - 1
        PROVE  bytes'[b] = bytes[b]
    <3>1. b < g.filesize /\ b \in 0 .. MaxSize - 1
      BY <2>2, <2>4, ChunkBytes
    <3>2. b \in DOMAIN bytes
      BY <3>1 DEF IInv, TypeOK
    <3> QED
      BY <2>1, <3>1, <3>2, CutBytes
  <2> QED
    BY <2>1, <2>2, <2>3, <2>4 DEF Verifies, MacMatches
<1> QED
  BY <1>1, <1>2

LEMMA NextSurvives ==
    ASSUME IInv, Content, [Next]_vars, NEW c \in Chunks(stored),
           Verifies(stored, bytes, c), c \notin xfer.touched, tail_ok',
           c \in Chunks(stored'), ChunkLen(stored', c) = ChunkLen(stored, c)
    PROVE  Verifies(stored', bytes', c)
<1>0. stored \in Filenode /\ filenode \in Filenode /\ c \in Nat /\ c < Len(stored.chunk_list)
      /\ c + 1 \in 1 .. Len(stored.chunk_list)
  <2>1. stored \in Filenode /\ filenode \in Filenode
    BY DEF IInv, TypeOK
  <2>2. Len(stored.chunk_list) \in Nat
    BY <2>1 DEF Filenode
  <2>3. c \in Nat /\ c < Len(stored.chunk_list)
    BY <2>2 DEF Chunks
  <2> QED
    BY <2>1, <2>2, <2>3
<1>1. ASSUME NEW size \in Sizes, ecall_fs_truncate(size) PROVE Verifies(stored', bytes', c)
  <2>1. PICK f \in {filenode, stored} :
          /\ nexus_vfs_get(f)
          /\ NewKeys(max(0, difference(f, size)))
          /\ \/ StoreOK(filenode_set_filesize(f, size, next_key))
             \/ StoreFails(filenode_set_filesize(f, size, next_key))
    BY <1>1 DEF ecall_fs_truncate
  <2> DEFINE g == filenode_set_filesize(f, size, next_key)
  <2>2. xfer = NoXfer /\ next_key \in Key
    BY <1>1 DEF ecall_fs_truncate, IInv, TypeOK
  <2>3. f = stored /\ f \in Filenode /\ WellFormed(f) /\ OwnKeys(f, next_key)
    BY <2>1, <2>2, GotStored
  <2>4. next_key + max(0, difference(f, size)) <= MaxKey
    BY <2>1 DEF NewKeys
  <2>6. g \in Filenode
    BY <2>2, <2>3, <2>4, SetFilesize
  <2>7. \A i \in 1 .. Len(f.chunk_list) : i <= Len(g.chunk_list) => g.chunk_list[i] = f.chunk_list[i]
    BY <2>2, <2>3, <2>4, SetFilesizeKeys
  <2> HIDE DEF g
  <2>8. c < Len(g.chunk_list) => g.chunk_list[c + 1] = stored.chunk_list[c + 1]
    <3>1. Len(g.chunk_list) \in Nat
      BY <2>6 DEF Filenode
    <3> QED
      BY <1>0, <2>3, <2>7, <3>1
  <2>9. StoreOK(g) \/ StoreFails(g)
    BY <2>1 DEF g
  <2> QED
    BY <2>6, <2>8, <2>9, StoreSurvives
<1>2. CASE file_crypto_finish /\ is_dirty
  <2>1. xfer # NoXfer /\ (StoreOK(filenode) \/ StoreFails(filenode))
    BY <1>2 DEF file_crypto_finish
  <2>2. c < Len(filenode.chunk_list) => filenode.chunk_list[c + 1] = stored.chunk_list[c + 1]
    BY <1>0, <2>1 DEF Content, InStep
  <2> QED
    BY <1>0, <2>1, <2>2, StoreSurvives
<1>3. CASE UNCHANGED <<stored, bytes>>
  BY <1>3
<1>4. ASSUME NEW size \in UpdateSizes, UpdateEncrypt(size) PROVE Verifies(stored', bytes', c)
  <2> DEFINE n   == min(size, xfer.chunk_left)
             buf == xfer.data_buffer
  <2>1. PICK w \in 0 .. n :
          bytes' = [b \in DOMAIN bytes |->
                       IF b \in xfer.offset .. xfer.offset + w - 1 THEN buf.key ELSE bytes[b]]
    BY <1>4 DEF UpdateEncrypt
  <2>2. stored' = stored /\ xfer.mode = "encrypt" /\ buf # NoBuf
    BY <1>4 DEF UpdateEncrypt, UpdateAllowed
  <2>3. buf.chunk \in xfer.touched /\ buf.chunk \in Nat
    BY <2>2 DEF Content, Encrypting, IInv, TypeOK, Xfer
  <2>4. /\ buf.start = ChunkBase(buf.chunk) /\ buf.start <= xfer.offset /\ buf.start \in Nat
        /\ xfer.offset + xfer.chunk_left <= buf.start + ChunkSize
    <3>1. /\ xfer.offset \in Nat /\ xfer.chunk_left \in Nat /\ buf.start \in Nat
          /\ filenode.filesize \in Nat
      BY <1>0, SizesAssumption DEF IInv, TypeOK, Xfer, Filenode
    <3>2. /\ buf.start = ChunkBase(buf.chunk) /\ buf.start <= xfer.offset
          /\ xfer.offset + xfer.chunk_left = min(filenode.filesize, buf.start + ChunkSize)
      BY <2>2 DEF Content, XferInChunk, IInv, XferInFile
    <3> QED
      BY <3>1, <3>2, ChunkSizeAssumption DEF min
  <2>5. n \in Nat /\ n <= xfer.chunk_left /\ xfer.offset \in Nat /\ xfer.chunk_left \in Nat
    BY <1>4, SizesAssumption DEF min, IInv, TypeOK, Xfer
  <2> HIDE DEF n, buf
  <2>6. ASSUME NEW b \in ChunkBase(c) .. ChunkBase(c) + ChunkLen(stored, c) - 1
        PROVE  bytes'[b] = bytes[b]
    <3>1. get_chunk_number(b) = c /\ b \in 0 .. MaxSize - 1
      BY <1>0, <2>6, ChunkBytes
    <3>2. b \in DOMAIN bytes
      BY <3>1 DEF IInv, TypeOK
    <3>3. CASE b \in xfer.offset .. xfer.offset + w - 1
      <4>1. b \in Nat /\ buf.start <= b /\ b < buf.start + ChunkSize
        BY <2>4, <2>5, <3>3, ChunkSizeAssumption
      <4>2. get_chunk_number(b) = buf.chunk
        BY <2>3, <2>4, <4>1, ChunkBaseIs
      <4> QED
        BY <2>3, <3>1, <4>2
    <3> QED
      BY <2>1, <3>2, <3>3
  <2> QED
    BY <2>2, <2>6 DEF Verifies, MacMatches
<1>5. CASE UNCHANGED vars
  BY <1>5 DEF vars
<1>6. CASE file_crypto_finish /\ ~is_dirty
  BY <1>3, <1>6 DEF file_crypto_finish
<1>7. ASSUME NEW size \in Sizes, ecall_fs_file_encrypt_start(size) PROVE Verifies(stored', bytes', c)
  BY <1>3, <1>7 DEF ecall_fs_file_encrypt_start
<1>8. CASE ecall_fs_file_decrypt_start \/ Crash
  BY <1>3, <1>8 DEF ecall_fs_file_decrypt_start, Crash
<1>9. ASSUME NEW offset \in Offsets, SeekEncrypt(offset) \/ SeekDecrypt(offset)
      PROVE  Verifies(stored', bytes', c)
  BY <1>3, <1>9 DEF SeekEncrypt, SeekDecrypt
<1>10. ASSUME NEW size \in UpdateSizes, UpdateDecrypt(size) PROVE Verifies(stored', bytes', c)
  BY <1>3, <1>10 DEF UpdateDecrypt
<1> QED
  BY <1>1, <1>2, <1>4, <1>5, <1>6, <1>7, <1>8, <1>9, <1>10 DEF Next

(* A chunk that reads back keeps doing so while the transfer does not seek *)
(* it and its length stays, over failed writes, failed stores and crashes, *)
(* as long as the filenode behind the data is intact.                      *)
THEOREM ChunksSurvive == Spec => UntouchedChunksSurvive
<1>1. IInv /\ Content /\ [Next]_vars =>
        [\A c \in Chunks(stored) :
          (/\ Verifies(stored, bytes, c)
           /\ c \notin xfer.touched
           /\ tail_ok'
           /\ c \in Chunks(stored') /\ ChunkLen(stored', c) = ChunkLen(stored, c))
          => Verifies(stored', bytes', c)]_vars
  BY NextSurvives
<1> QED
  BY <1>1, ContentHolds, PTL DEF Spec, UntouchedChunksSurvive
=============================================================================

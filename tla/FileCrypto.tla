----------------------------- MODULE FileCrypto -----------------------------
(***************************************************************************)
(* The content of one file: the filenode (backend_sgx/enclave/filenode.c), *)
(* the transfers that encrypt and decrypt its chunks                       *)
(* (backend_sgx/enclave/file_crypto.c, ecalls/files.c) and the datastore   *)
(* file both are kept in (backend_sgx/io.c, file_ops.c).                   *)
(*                                                                         *)
(* The datastore file is  data | filenode | info  in ONE file: the data    *)
(* is overwritten in place, and the filenode is written at the offset      *)
(* filesize.  A byte is abstracted to the key that encrypted it (Junk when *)
(* none did: a hole, or the remains of an old filenode); a MAC to the key  *)
(* and the number of bytes it was computed over.                           *)
(*                                                                         *)
(* One operation on the file runs at a time, as under a frontend that      *)
(* serves one request at a time.  Offsets are below 2^31, which is what    *)
(* ecall_fs_file_crypto_seek takes them as (ecalls/files.c:132).           *)
(***************************************************************************)
EXTENDS Integers, Sequences, FiniteSets

CONSTANTS ChunkSize,     \* global_chunk_size
          MaxSize,       \* bound on file sizes
          Sizes,         \* file sizes callers ask for
          UpdateSizes,   \* buffer sizes passed to one update
          MaxKey         \* bound on the keys a behaviour generates

ASSUME ChunkSizeAssumption == ChunkSize \in Nat \ {0}
ASSUME SizesAssumption     == /\ MaxSize \in Nat
                              /\ Sizes \subseteq 0 .. MaxSize
                              /\ UpdateSizes \subseteq Nat
ASSUME MaxKeyAssumption    == MaxKey \in Nat

VARIABLES filenode,   \* the filenode cached in the enclave
          is_invalid, \* metadata->is_invalid: the cached filenode must be reloaded
          is_dirty,   \* metadata->is_dirty
          stored,     \* the filenode the datastore file holds
          tail_ok,    \* is the filenode still intact in the datastore file?
          cached,     \* does the backend's metadata_buf still hold a copy of it?
          bytes,      \* the data part of the datastore file
          xfer,       \* the transfer context, or NoXfer
          next_key,   \* keys generated so far
          result      \* what the last decryption of a chunk returned

vars == <<filenode, is_invalid, is_dirty, stored, tail_ok, cached, bytes, xfer, next_key, result>>

Junk   == 0
NoMac  == [key |-> Junk, len |-> 0]
NoBuf  == [chunk |-> 0, key |-> Junk, start |-> 0]
Modes  == {"encrypt", "decrypt"}

min(a, b) == IF a <= b THEN a ELSE b
max(a, b) == IF a >= b THEN a ELSE b
-----------------------------------------------------------------------------
(* The filenode.                                                           *)

get_chunk_number(offset) ==
    IF offset < ChunkSize THEN 0 ELSE 1 + ((offset - ChunkSize) \div ChunkSize)

get_chunk_count(file_size) == get_chunk_number(file_size) + 1

filenode_create == [filesize |-> 0, encrypted_length |-> 0, nchunks |-> 0, chunk_list |-> <<>>]

\* chunks appended by filenode_set_filesize (negative: popped)
difference(f, filesize) ==
    IF f.filesize = filesize THEN 0 ELSE get_chunk_count(filesize) - f.nchunks

\* Mutant: a shrinking file keeps its encrypted_length.
filenode_set_filesize_untrimmed(f, filesize, key) ==
    LET d == difference(f, filesize)
        n == Len(f.chunk_list)
    IN  [filesize         |-> filesize,
         encrypted_length |-> f.encrypted_length,
         nchunks          |-> f.nchunks + d,
         chunk_list       |-> [i \in 1 .. n + d |->
                                  IF i <= n THEN f.chunk_list[i]
                                            ELSE [key |-> key + (i - n), mac |-> NoMac]]]

filenode_set_filesize(f, filesize, key) ==
    LET d == difference(f, filesize)
        n == Len(f.chunk_list)
    IN  IF d = 0 THEN [f EXCEPT !.filesize = filesize]
        ELSE [filesize         |-> filesize,
              encrypted_length |-> min(f.encrypted_length, filesize),
              nchunks          |-> f.nchunks + d,
              chunk_list       |-> [i \in 1 .. n + d |->
                                       IF i <= n THEN f.chunk_list[i]
                                                 ELSE [key |-> key + (i - n), mac |-> NoMac]]]

\* the entry of chunk c replaced: its crypto context is updated in place
SetChunk(f, c, chunk) == [f EXCEPT !.chunk_list = [@ EXCEPT ![c + 1] = chunk]]

filenode_update_encrypted_pos(f, pos) ==
    [f EXCEPT !.encrypted_length = max(@, pos)]
-----------------------------------------------------------------------------
(* The transfer context.                                                   *)

NoXfer == [mode |-> "none", offset |-> 0, chunk_left |-> 0, data_buffer |-> NoBuf,
           failed |-> FALSE, touched |-> {}, flushed |-> {}]

(* touched and flushed record history: the chunks an encryption has sought *)
(* and those it has closed with every byte on disk.                        *)
file_crypto_new(mode) == [NoXfer EXCEPT !.mode = mode]

ChunkBase(c)   == c * ChunkSize
ChunkLen(f, c) == min(f.filesize - ChunkBase(c), ChunkSize)
Chunks(f)      == {c \in 0 .. Len(f.chunk_list) - 1 : ChunkBase(c) < f.filesize}

(* Does AES-GCM over bytes start .. start+len-1 of the datastore file give *)
(* the MAC that the chunk entry holds?                                     *)
MacMatches(f, data, c, start, len) ==
    /\ f.chunk_list[c + 1].mac = [key |-> f.chunk_list[c + 1].key, len |-> len]
    /\ \A b \in start .. start + len - 1 : data[b] = f.chunk_list[c + 1].key

(* Reading the whole chunk c of the filenode f gives back what was written. *)
Verifies(f, data, c) ==
    c \in Chunks(f) /\ MacMatches(f, data, c, ChunkBase(c), ChunkLen(f, c))
-----------------------------------------------------------------------------
Init ==
    /\ filenode = filenode_create /\ stored = filenode_create
    /\ is_invalid = FALSE /\ is_dirty = FALSE
    /\ tail_ok = TRUE /\ cached = TRUE
    /\ bytes = [b \in 0 .. MaxSize - 1 |-> Junk]
    /\ xfer = NoXfer
    /\ next_key = 0
    /\ result = "none"

(* nexus_vfs_get: the cached filenode, or the stored one when the cached   *)
(* one was invalidated.  The reload reads the datastore file, or the copy  *)
(* in the backend's buffer when the file looks unchanged.                  *)
nexus_vfs_get(f) ==
    \/ ~is_invalid /\ f = filenode
    \/ is_invalid /\ (tail_ok \/ cached) /\ f = stored

(* nexus_metadata_store of the dirty filenode f over the data file d:      *)
(* ftruncate to the new total size, then the filenode at offset filesize.  *)
\* A failure may leave the datastore file untouched, already cut, or (when
\* the flush or the close fails) complete: the copy in the backend's buffer
\* is then older than the file, and the next use, which is taken to come in
\* a later second (io.c:392), reads the file.
\* Mutant: the filenode is written one byte too early.
Cut_early(d, f) == [b \in DOMAIN d |-> IF b + 1 < f.filesize THEN d[b] ELSE Junk]

Cut(d, f) == [b \in DOMAIN d |-> IF b < f.filesize THEN d[b] ELSE Junk]

StoreOK(f) ==
    /\ stored' = f /\ filenode' = f
    /\ bytes' = Cut(bytes, f)
    /\ tail_ok' = TRUE /\ cached' = TRUE
    /\ is_invalid' = FALSE /\ is_dirty' = FALSE

\* Mutant: a failed store leaves the cached filenode valid.
StoreFails_stays_valid(f) ==
    /\ filenode' = f
    /\ bytes' = bytes /\ tail_ok' = tail_ok
    /\ is_invalid' = FALSE /\ is_dirty' = TRUE
    /\ UNCHANGED <<stored, cached>>

StoreFails(f) ==
    /\ filenode' = f
    /\ \/ UNCHANGED <<bytes, tail_ok, stored, cached>>
       \/ bytes' = Cut(bytes, f) /\ tail_ok' = FALSE /\ UNCHANGED <<stored, cached>>
       \/ bytes' = Cut(bytes, f) /\ tail_ok' = TRUE /\ stored' = f /\ cached' = FALSE
    /\ is_invalid' = TRUE /\ is_dirty' = TRUE

NewKeys(n) == next_key + n <= MaxKey /\ next_key' = next_key + n

ecall_fs_truncate(size) ==
    /\ xfer = NoXfer
    /\ \E f \in {filenode, stored} :
          /\ nexus_vfs_get(f)
          /\ NewKeys(max(0, difference(f, size)))
          /\ LET g == filenode_set_filesize(f, size, next_key) IN StoreOK(g) \/ StoreFails(g)
    /\ UNCHANGED <<xfer, result>>

ecall_fs_file_encrypt_start(size) ==
    /\ xfer = NoXfer
    /\ \E f \in {filenode, stored} :
          /\ nexus_vfs_get(f)
          /\ NewKeys(max(0, difference(f, size)))
          /\ filenode' = filenode_set_filesize(f, size, next_key)
    /\ is_dirty' = TRUE /\ is_invalid' = FALSE
    /\ xfer' = file_crypto_new("encrypt")
    /\ UNCHANGED <<stored, tail_ok, cached, bytes, result>>

ecall_fs_file_decrypt_start ==
    /\ xfer = NoXfer
    /\ \E f \in {filenode, stored} : nexus_vfs_get(f) /\ filenode' = f
    /\ is_dirty' = (is_dirty /\ ~is_invalid) /\ is_invalid' = FALSE
    /\ xfer' = file_crypto_new("decrypt")
    /\ UNCHANGED <<stored, tail_ok, cached, bytes, next_key, result>>

(* file_crypto_seek: an encryption takes a fresh key and clears the MAC.   *)
SeekAllowed(offset) ==
    /\ xfer # NoXfer /\ ~xfer.failed
    /\ xfer.chunk_left = 0
    /\ offset % ChunkSize = 0
    /\ offset <= filenode.filesize
    /\ get_chunk_number(offset) < Len(filenode.chunk_list)

\* Mutant: the last chunk is not cut at the end of the file.
Reposition_whole_chunk(x, offset, key) ==
    [x EXCEPT !.offset = offset,
              !.chunk_left = ChunkSize,
              !.data_buffer = [chunk |-> get_chunk_number(offset), key |-> key, start |-> offset]]

Reposition(x, offset, key) ==
    [x EXCEPT !.offset = offset,
              !.chunk_left = min(filenode.filesize - offset, ChunkSize),
              !.data_buffer = [chunk |-> get_chunk_number(offset), key |-> key, start |-> offset]]

\* Mutant: the chunk is encrypted again under its old key.
SeekEncrypt_same_key(offset) ==
    LET c == get_chunk_number(offset) IN
    /\ xfer.mode = "encrypt" /\ SeekAllowed(offset)
    /\ is_dirty' = TRUE
    /\ xfer' = [Reposition(xfer, offset, filenode.chunk_list[c + 1].key) EXCEPT
                    !.touched = @ \union {c}, !.flushed = @ \ {c}]
    /\ UNCHANGED <<filenode, is_invalid, stored, tail_ok, cached, bytes, next_key, result>>

SeekEncrypt(offset) ==
    LET c == get_chunk_number(offset) IN
    /\ xfer.mode = "encrypt" /\ SeekAllowed(offset)
    /\ NewKeys(1)
    /\ filenode' = SetChunk(filenode, c, [key |-> next_key + 1, mac |-> NoMac])
    /\ is_dirty' = TRUE
    /\ xfer' = [Reposition(xfer, offset, next_key + 1) EXCEPT !.touched = @ \union {c},
                                                              !.flushed = @ \ {c}]
    /\ UNCHANGED <<is_invalid, stored, tail_ok, cached, bytes, result>>

SeekDecrypt(offset) ==
    LET c == get_chunk_number(offset) IN
    /\ xfer.mode = "decrypt" /\ SeekAllowed(offset)
    /\ xfer' = Reposition(xfer, offset, filenode.chunk_list[c + 1].key)
    /\ UNCHANGED <<filenode, is_invalid, is_dirty, stored, tail_ok, cached, bytes, next_key, result>>

(* file_crypto_update and, when the chunk is complete, __flush_data_buffer. *)
Advance(x, n) ==
    [x EXCEPT !.offset = @ + n, !.chunk_left = @ - n,
              !.data_buffer = IF x.chunk_left = n THEN NoBuf ELSE @]

UpdateAllowed == xfer # NoXfer /\ ~xfer.failed /\ xfer.data_buffer # NoBuf

(* The enclave encrypts n bytes and only then does the backend write them; *)
(* the write may stop short after w bytes.                                 *)
\* Mutant: the MAC covers the last update only.
UpdateEncrypt_short_mac(size) ==
    LET buf == xfer.data_buffer
        n   == min(size, xfer.chunk_left)
    IN
    /\ xfer.mode = "encrypt" /\ UpdateAllowed
    /\ filenode' = IF n < xfer.chunk_left THEN filenode
                   ELSE filenode_update_encrypted_pos(
                           SetChunk(filenode, buf.chunk,
                                    [filenode.chunk_list[buf.chunk + 1] EXCEPT
                                        !.mac = [key |-> buf.key, len |-> n]]), xfer.offset + n)
    /\ bytes' = [b \in DOMAIN bytes |->
                    IF b \in xfer.offset .. xfer.offset + n - 1 THEN buf.key ELSE bytes[b]]
    /\ tail_ok' = (tail_ok /\ (n = 0 \/ xfer.offset + n <= stored.filesize))
    /\ xfer' = [Advance(xfer, n) EXCEPT
                   !.flushed = IF n = xfer.chunk_left THEN @ \union {buf.chunk} ELSE @]
    /\ UNCHANGED <<is_invalid, is_dirty, stored, cached, next_key, result>>

UpdateEncrypt(size) ==
    LET buf == xfer.data_buffer
        n   == min(size, xfer.chunk_left)
        end == xfer.offset + n
    IN
    /\ xfer.mode = "encrypt" /\ UpdateAllowed
    /\ filenode' = IF n < xfer.chunk_left THEN filenode
                   ELSE filenode_update_encrypted_pos(
                           SetChunk(filenode, buf.chunk,
                                    [filenode.chunk_list[buf.chunk + 1] EXCEPT
                                        !.mac = [key |-> buf.key, len |-> end - buf.start]]), end)
    /\ \E w \in 0 .. n :
          /\ bytes' = [b \in DOMAIN bytes |->
                          IF b \in xfer.offset .. xfer.offset + w - 1 THEN buf.key ELSE bytes[b]]
          /\ tail_ok' = (tail_ok /\ (w = 0 \/ xfer.offset + w <= stored.filesize))
          /\ xfer' = [Advance(xfer, n) EXCEPT
                         !.failed = w < n,
                         !.flushed = IF w = n /\ n = xfer.chunk_left THEN @ \union {buf.chunk} ELSE @]
    /\ UNCHANGED <<is_invalid, is_dirty, stored, cached, next_key, result>>

(* The MAC is compared only when the chunk ends below encrypted_length.    *)
UpdateDecrypt(size) ==
    LET buf == xfer.data_buffer
        n   == min(size, xfer.chunk_left)
        end == xfer.offset + n
    IN
    /\ xfer.mode = "decrypt" /\ UpdateAllowed
    /\ result' = IF n < xfer.chunk_left THEN result
                 ELSE IF ~(end < filenode.encrypted_length) THEN "unverified"
                 ELSE IF MacMatches(filenode, bytes, buf.chunk, buf.start, end - buf.start)
                      THEN "verified" ELSE "mac_failed"
    /\ xfer' = [Advance(xfer, n) EXCEPT !.failed = (result' = "mac_failed")]
    /\ UNCHANGED <<filenode, is_invalid, is_dirty, stored, tail_ok, cached, bytes, next_key>>

(* file_crypto_finish: callers call it after an error, too, so it may come *)
(* in the middle of a chunk.                                               *)
file_crypto_finish ==
    /\ xfer # NoXfer
    /\ IF is_dirty THEN StoreOK(filenode) \/ StoreFails(filenode)
       ELSE UNCHANGED <<filenode, is_invalid, is_dirty, stored, tail_ok, cached, bytes>>
    /\ xfer' = NoXfer
    /\ result' = "none"
    /\ UNCHANGED next_key

(* The client process dies: enclave and backend memory are lost.           *)
Crash ==
    /\ is_invalid' = TRUE /\ is_dirty' = FALSE /\ cached' = FALSE
    /\ xfer' = NoXfer /\ result' = "none"
    /\ UNCHANGED <<filenode, stored, tail_ok, bytes, next_key>>

Offsets == {ChunkBase(c) : c \in 0 .. filenode.nchunks}

Next ==
    \/ \E size \in Sizes : ecall_fs_truncate(size) \/ ecall_fs_file_encrypt_start(size)
    \/ ecall_fs_file_decrypt_start
    \/ \E offset \in Offsets : SeekEncrypt(offset) \/ SeekDecrypt(offset)
    \/ \E size \in UpdateSizes : UpdateEncrypt(size) \/ UpdateDecrypt(size)
    \/ file_crypto_finish
    \/ Crash

Spec == Init /\ [][Next]_vars
-----------------------------------------------------------------------------
Key      == 0 .. MaxKey
Mac      == [key : Key, len : Nat]
Chunk    == [key : Key, mac : Mac]
Filenode == [filesize : 0 .. MaxSize, encrypted_length : 0 .. MaxSize, nchunks : Nat, chunk_list : Seq(Chunk)]
Xfer     == [mode : Modes \union {"none"}, offset : Nat, chunk_left : Nat,
             data_buffer : [chunk : Nat, key : Key, start : Nat],
             failed : BOOLEAN, touched : SUBSET Nat, flushed : SUBSET Nat]

(* Types of the state of the filenode, the transfer and the datastore file. *)
TypeOK ==
    /\ filenode \in Filenode /\ stored \in Filenode
    /\ is_invalid \in BOOLEAN /\ is_dirty \in BOOLEAN
    /\ tail_ok \in BOOLEAN /\ cached \in BOOLEAN
    /\ bytes \in [0 .. MaxSize - 1 -> Key]
    /\ xfer \in Xfer
    /\ next_key \in Key
    /\ result \in {"none", "verified", "unverified", "mac_failed"}

(* The shape filenode.c keeps through any sequence of truncations, growths *)
(* and transfers: the chunk list has nchunks entries, as many as the file  *)
(* size asks for (none for a file that was never sized), and the encrypted *)
(* part ends in a chunk that exists, so that every offset a seek accepts   *)
(* has its chunk entry.                                                    *)
WellFormed(f) ==
    /\ Len(f.chunk_list) = f.nchunks
    /\ f.nchunks = get_chunk_count(f.filesize) \/ (f.nchunks = 0 /\ f.filesize = 0)
    /\ get_chunk_number(f.encrypted_length) <= get_chunk_number(f.filesize)

FilenodeShape == WellFormed(filenode) /\ WellFormed(stored)

(* A key encrypts one stream of one chunk: the keys of a filenode differ   *)
(* from each other, all bytes under one key lie in one chunk, and while an *)
(* encryption is under way its key is only on the bytes this stream has    *)
(* already produced (AES-GCM breaks when a key and IV are reused).         *)
KeysAreFresh ==
    /\ \A i, j \in 1 .. Len(filenode.chunk_list) :
          filenode.chunk_list[i].key = filenode.chunk_list[j].key => i = j
    /\ \A b1, b2 \in DOMAIN bytes :
          (bytes[b1] # Junk /\ bytes[b1] = bytes[b2]) => get_chunk_number(b1) = get_chunk_number(b2)
    /\ (xfer.mode = "encrypt" /\ xfer.data_buffer # NoBuf) =>
          \A b \in DOMAIN bytes :
             bytes[b] = xfer.data_buffer.key => b \in xfer.data_buffer.start .. xfer.offset - 1

(* Every chunk that a transfer has closed with all its bytes written reads *)
(* back under the filenode that the transfer will store, whatever sizes    *)
(* the updates came in and whichever chunks were sought in between.        *)
FlushedChunksVerify ==
    \A c \in xfer.flushed : c \in Chunks(filenode) => Verifies(filenode, bytes, c)

(* Between transfers a cached filenode that was not invalidated is the one *)
(* that was last stored: no size, key or MAC lives only in the enclave, so *)
(* that the crash of an idle client loses nothing.                         *)
IdleFilenodeIsStored ==
    (xfer = NoXfer /\ ~is_invalid) => (filenode = stored /\ ~is_dirty)

(* A chunk that reads back keeps doing so, over crashes, failed writes and *)
(* failed stores, unless the running transfer has sought it, its length    *)
(* changed, or the filenode itself was destroyed.                          *)
UntouchedChunksSurvive ==
    [][\A c \in Chunks(stored) :
          (/\ Verifies(stored, bytes, c)
           /\ c \notin xfer.touched
           /\ tail_ok'
           /\ c \in Chunks(stored') /\ ChunkLen(stored', c) = ChunkLen(stored, c))
          => Verifies(stored', bytes', c)]_vars

(* file_crypto.c: after a truncation "we shall just skip verification of   *)
(* last chunks", so reading the last chunk never fails on its MAC.         *)
LastChunkIsNotVerified ==
    (xfer.mode = "decrypt" /\ xfer.offset = filenode.filesize) => result # "mac_failed"
=============================================================================

# A TLA+ development of NeXUS

NeXUS is a stackable filesystem that runs in the client.  Files and directories
of a volume are kept encrypted, as opaque objects named by UUIDs, in a storage
service that several clients share (a plain directory, AFS, ...).  All keys and
all plaintext metadata live in an SGX enclave; the untrusted process around it
moves buffers between the enclave and the datastore.

This directory models the parts of NeXUS that decide whether a volume stays
consistent: the content of files, the caches and locks of metadata objects, the
on-disk form of directories, the namespace operations several clients run on one
volume, the batch mode of the backend, the file cache of the FUSE frontend, the
table of users and the dentry cache of the enclave.  TLC checks them on small
instances; TLAPS proves most of the safety properties for every value of the
constants.

    tlc -config MCDirnode.cfg MCDirnode        # any of the runs below
    tlapm FileCrypto_proofs.tla                # the proofs

## The system

| part | state it keeps | operations | source |
|---|---|---|---|
| file content | filenode (size, encrypted length, a key and MAC per chunk), transfer context, data part of the datastore file | truncate; start, seek, update, finish of an encryption or decryption | `enclave/filenode.c`, `enclave/file_crypto.c`, `enclave/ecalls/files.c`, `file_ops.c` |
| metadata objects | the object in the enclave and its flags, LRU list, `metadata_buffer` of the buffer layer, `metadata_buf` of the backend, open file and its `flock` | load, revalidate, reload, lock, store, put, evict | `enclave/metadata.c`, `enclave/vfs.c`, `enclave/buffer_layer.c`, `io.c` |
| directories | buckets of entries, index of names, last failed lookup, counters of the header; main file and bucket files | find, add, remove, rename, store, load | `enclave/dirnode.c`, `enclave/bucket.c` |
| namespace | directories, hardlink table, files of the volume | create, mkdir, symlink, hardlink, remove, rename | `enclave/ecalls/dirs.c`, `enclave/hardlink_table.c` |
| batch mode | dirty buffers, batch datastore, list of deleted objects | start, commit, finish | `main.c`, `io.c` |
| dentry cache | tree of the path components looked up so far, with counts, flags and aliases | walk, revalidate, instantiate, delete, drop of an object | `enclave/dentry.c`, `enclave/vfs.c` |
| users | user table, profiles | add, remove, find, list | `enclave/user.c`, `enclave/ecalls/users.c` |
| volume and login | volume key, nonce, authenticated user | create volume, challenge, response | `enclave/ecalls/volume.c` |
| root-key exchange | instance keys, exchanged messages | export, import | `enclave/ecalls/instance.c`, `instance_ops.c` |
| access control | attribute space, policies, profiles, facts and rules in a Datalog database | grant, revoke, access check | `enclave/abac/` |
| FUSE frontend | inodes and dentries with reference counts, chunk cache of open files | filesystem calls, write-back, forget | `frontend_fuse/` |
| AFS frontend, shell | none of their own | requests and command line | `frontend_afs/`, `shell/` |
| datastores | directories of files | open and lock, read, write, stat, delete | `datastore_flat/`, `datastore_twolevel/`, `libnexus/nexus_raw_file.c` |

(All paths are under `src/`; `enclave/`, `io.c`, `main.c` and `file_ops.c` are in
`src/backend_sgx/`.)

**How they interact.**  A frontend thread calls the backend, which enters the
enclave (an *ecall*).  The ecall takes `vfs_ops_lock`, walks the path, gets the
metadata objects it needs through `nexus_vfs_get`, changes them in memory and
stores them.  Each load, lock and store leaves the enclave again (an *ocall*)
into `io.c`, which opens, locks, reads or writes the datastore file.  Other
clients do the same on the same files.  Between clients there is no message and
no server: the only coordination is `flock` on the files and the modification
times by which a cache notices that it is stale.

**What is hard.**  Threads of one client share the lock flags and the open file
of an object; a transfer keeps an object locked between ecalls.  Three caches
sit above each file and each decides on its own whether it is current.  An
operation writes several files one after the other, in place, without a log, and
each write can fail or be the last thing the client does.  Readers take no lock.
Counters are kept by hand.  `PROJECT.json` lists these hazards at their lines with
the properties that would catch them going wrong.

**What makes each part correct.**  A chunk reads back as it was written and no
key is used twice (file content); no update is lost and no lock is left behind
(metadata objects); a directory that loads is the one from before or after a
store (directories); an entry has its file, and no client undoes another's
change (namespace); what was committed is what was read last (batch mode); a
cached path component is never one that was replaced (dentry cache); names and
keys are unique, and a table entry has its profile (users); a key is available
only after the right response (login); the database holds the facts of the
stored policies (access control); every written byte reaches the backend on the
last close, and no freed inode is used (FUSE frontend).

## The modules

Each module is parameterised by `CONSTANTS` with named assumptions.  `MC*`
modules instantiate them for TLC; definitions whose comment begins with
"Mutant:" are plausible mistakes used to show that a property can fail, and no
specification uses them.

### FileCrypto: the content of one file

The datastore file is `data | filenode | info`, written in place: the data grows
over the old filenode, and the new filenode is written behind the data at the
end.  A byte is abstracted to the key that encrypted it, a MAC to its key and the
number of bytes it covers.

`filenode`, `is_invalid` and `is_dirty` are the object in the enclave; `stored`,
`tail_ok` and `bytes` the datastore file; `cached` says whether the backend still
has a copy of the filenode; `xfer` is the transfer context.  `ecall_fs_truncate`,
`ecall_fs_file_encrypt_start`, `ecall_fs_file_decrypt_start`, `SeekEncrypt`,
`SeekDecrypt` (`file_crypto_seek`), `UpdateEncrypt`, `UpdateDecrypt`
(`file_crypto_update`, then the write of `file_ops.c`, which may stop short) and
`file_crypto_finish` are the operations.  `StoreFails` has the three outcomes of a
store that reports an error: nothing happened, the file was cut, or all of it was
written and only the close failed.  `Crash` loses everything but the file.

One operation on the file runs at a time here; what happens when several share
it is in Metadata.

### Metadata: one object in three caches

`meta` is the object in the enclave, `mbuf` the buffer layer's record of it, `bbuf`
the backend's buffer, `store` the datastore file.  An operation is a sequence of
steps with a break at every ocall: `Start` (revalidate), then
`buffer_layer_lock` when the copy is current, or `buffer_layer_get_stat`,
`io_buffer_lock` (or `FileIsOpen` and `WaitedForMutex` when another thread has the
file open), `buffer_layer_get` when it is not; then `Lookup`, `Update`, or
`StartTransfer` ... `TransferData` ... `FinishTransfer`.  Stores are deferred to the
next writer (`StoreDeferred`), flushed (`StoreFlushed`) or fail (`StoreFails`).
`RemoteUpdate` is another client, `Tick` the clock in whole seconds, `Evict` the
LRU list, `Crash` a restart.

A content is abstracted to the number of the write that made it and its version.
The steps follow the code also where two threads meet: a thread that finds the
file open waits for its mutex and then has the mutex of a file that may be closed
(`FileClosed`); `buffer_layer_lock` of a buffer that is not in write mode while the
file is open fails on other flags or waits for the mutex, which nobody gives back any
more (`FileIsOpen`); a plain read that reloads resets the flags of a
buffer that is held for writing (`Reset`); `Evict` comes in the middle of an
operation, too.  `raced`, `failed` and `overlaps` are history variables that name the
exceptions below.

### Dirnode: one directory

`dirnode` is the object in memory with its buckets and counters, `main` and `files`
are the datastore files (`Torn` when a write stopped in the middle).
`dirnode_add`, `dirnode_remove` and `Rename` change memory; the store that follows
is `delete_empty_bucket`, `bucket_store` for each dirty bucket and `dirnode_store`
for the main file, one datastore call per step, each of which may fail, take
effect and fail, or be followed by `Crash`.  `Loads` and `dirnode_load` say what any
client reads at that moment.  An entry is its name and the length of its record.
`bucket_add_direntry` and `bucket_del_direntry` change a bucket with its counters,
which are kept by hand; `Bytes` is what they should amount to, the number of bytes
in the records of a set of names.

### DirnodeReader: a directory that is read while it is stored

Extends Dirnode by a client that loads the directory in several reads:
`dirnode_from_buffer` parses the main file, each `load_bucket` reads a bucket file,
and any steps of Dirnode may come between.  `reader.view` remembers what a load in
one instant would have given at the first read; this is what justifies that `Loads`
and `dirnode_load`, Directory and the modules above treat a load as one step.

### Namespace: the operations of several clients

`disk` holds the stored dirnodes, `table` the stored hardlink table, `files` the
UUIDs with a file, `lock` the file locks of dirnodes.  A client's `unsaved` dirnode
is one its cache holds changed and not stored; `op` is its running operation.
Each ecall is split where it waits for a lock or where its next datastore call
begins: `ecall_fs_remove` - `remove_filenode` - `StoreFirst`; `ecall_fs_hardlink` -
`nxs_fs_hardlink` - `StoreFirst`; `ecall_fs_rename` - `RenameAcross` - `StoreFirst` -
`StoreSecond`; `ecall_fs_create` and `ecall_fs_symlink` - `StoreFirst`.  `StoreFails`,
`FlushFails` and `Crash` are the failures, `Evict` the LRU list.

After a flush of the hardlink table fails, no code unlocks the table: the buffer
layer goes on counting a writer (`leaked`), the client keeps the table's file
lock from its next use on (`table_lock`) and leaves all later flushes in memory
(`deferred`).

A client compares its copy with the file's time *before* it waits for the file's
lock, and does not look again (`metadata.c:363-370`).  `Wait` and `WaitForTable` are
this look: the client keeps the copy it had then in `hand` (or `op.table`), and
`Acquire` goes on with it (`Copy`) when the lock is free, whatever was stored in
between.  A client that does not have to wait uses the copy that the look found
current.  `Differ` and `Miscounted` are the files on which an old copy disagrees with
what was stored meanwhile.

`RenameFails` is the path of `ecall_fs_rename` on which the source cannot be read
after the destination was acquired (`dirs.c:815-825`): nobody puts back the
destination.  `left` says how its lock stays: `"held"` (a lookup gives it back:
`Lookup`), `"counted"` (used again since, so that the buffer layer counts a writer
that never comes and every later store stays in memory: `Defer`), or `"lost"` (the
object is gone, and the client waits for its own file).

A dirnode is read and written as a whole (Dirnode and DirnodeReader show why that is
justified), and a look notices every store before it (Metadata names the cases of
the same second in which it does not).

### Directory: what a directory promises

The abstract specification of Dirnode: a set of entries, the operation under way
(`Start`, `Progress`, `Finish`), what a reader gets (`view`), the loss of the client
(`Lose`) and the next one to open the directory (`Open`).  Dirnode states the
refinement mapping (`Read`): `entries` is what was last committed, `target` the
dirnode in memory, `view` what `dirnode_load` would return from the files at that
moment, or `Unreadable`.

### BatchMode: buffers, two datastores and a commander

While batch mode is on, a changed dirnode stays in the backend's buffer, a
changed filenode goes into a copy of its file in the batch datastore, and a commit
carries both to the datastore.  `buf` is `struct metadata_buf` with all its flags,
`store` and `batch` the two files of an object, `handle` its two file handles,
`mutex` its `file_mutex`.  The filesystem's operation is `Begin`, `io_buffer_get`
(open, copy if need be, read), then `io_buffer_put` or `io_buffer_unlock`;
`Lookup`, `io_buffer_new` and `io_buffer_del` are single calls.  The commander is
`batch_mode_start`, `batch_mode_commit(finish)`, and the walk over the buffers:
`SyncNext`, `SyncOpen` - `SyncGetsMutex` - `SyncWrite` for a dirty buffer,
`SyncCopy` for the others, `SyncEnd`.  The two threads share all of it without a
common lock; `SyncWithoutFile` is the crash when the operation has closed the
handle the commander is about to use.

`WrittenBack` and `CopiedBack` are what a commit has done to a buffer once its
content was written, or its batch file copied, to the datastore.  An
`io_buffer_put` that fails (`PutFails`) has left the file as it was, cut or half
written (`Torn`), or, when only the close failed (`io.c:641`), written, with
`batch_mode_modified` set (`NotPut`); the data of a filenode came before and is there
in any case (`PutLeaves`).  `CloseFails` is the put of a dirnode that stays in memory,
which only closes.  The update of a put that failed is then `tried`: it
was not acknowledged, and a later reader may find it or not.  A get of a torn node
fails and leaves the object locked (`stranded`).  A content is the set of updates it
holds.  Times are reduced to whether a file was written after the buffer (`newer`).
`tried`, `excused`, `stranded` and `overlap` are history variables for the exceptions
below.

### FuseFile: an open file of the FUSE frontend

`inode` and `file_chunks` are the inode with its cached chunks, `files` the handles,
`thread` the request each thread serves, `disk` the file of the volume, `names` the
names it has there.  `nxs_fuse_open`, `nxs_fuse_getattr`, `nxs_fuse_read`,
`nxs_fuse_write`, `nxs_fuse_flush`, `nxs_fuse_release`, `nxs_fuse_truncate`,
`nxs_fuse_hardlink` and `nxs_fuse_remove` are the requests; what follows of each is
split where the code takes or gives back `inode->lock` or calls the backend:
`SetAttr`, `file_open`; `file_try_add_chunk`, `update_file_chunk`, `file_write`;
`StoreStart`, `StoreChunk`, `StoreFinish` and their failures; `file_close`.
A byte is the number of the write it comes from.  The volume is what FileCrypto
promises: a chunk that was encrypted and finished reads back.  The kernel
serialises writes, truncations, links and unlinks of one inode, and nothing else.

An unlink detaches the dentry of the name: `dentry->inode` becomes NULL
(`dentry.c:129`) while handles opened under it, and requests that have looked it up,
go on with the dentry (`detached`).  The next read or write through such a
handle dereferences it (`HandleDies`, `io.c:97`), and so does an open or getattr that
the unlink has overtaken (`OpenDies`): the daemon dies (`alive`), and nothing happens
after it.

### Users: the user table and the profiles

`stored` is the table in its file, `table` the copy of each client, `profiles` the
profiles that load, `writers` and `is_locked` the buffer layer's and the enclave's
idea of the lock.  `ecall_user_add` - `create_user_profile` - `flush_user_table`;
`ecall_user_remove_username` and `ecall_user_remove_pubkey` - `flush_user_table` -
`del_user_profile`; `ecall_user_find` stands for find and list, which change the
cache and the lock, too.  `ProfileFails`, `FlushFails` and `Crash` are the failures.
`Stat` is the look at the table's time by a client that then has to wait for the
lock: it is `waiting` with the copy it has, and `Acquire` goes on with that copy even
if another client has stored a newer table meanwhile.  `raced` has the users on which
such a copy, once it is stored, disagrees with the table it replaces.
A public key is a text; an addition hashes the text, a search the key it holds
(`user.c:492`, `crypto.c:18`), so a key in another notation than the code's own is
not found by its owner's text.

### Dcache: path components over cached objects

`stored`, `exists` and `used` are the directories in the datastore and the objects
that have a file; `cache` is the enclave's state as a record, so that a walk can be
written as a function from one cache to the next: the tree of dentries (`dentry`,
with `count` for `d_count`, `meta` for the pointer to the object and `changed` for
`DENTRY_PARENT_CHANGED`), the objects in memory (`mem`), those whose file is newer
(`newer`), and each object's list of dentries (`aliases`).  An operation is `Begin`,
a `Walk` per name (`walk_step`: revalidate the directory, find the child in the tree
or the dirnode), and `Stat`, `ecall_fs_create`, `ecall_fs_remove` or, after
`RenameFrom` and a second walk, `ecall_fs_rename`; `GiveUp` ends one without a
change.  `Store` succeeds or fails before or after the file was written.
`lru_shrinker` drops any object between operations; `Others` are the other clients.
`missed` is a history variable: the dentries that a change of their directory did
not reach.

### How the modules depend on each other

FileCrypto's promise (a finished chunk reads back) is the volume of FuseFile;
Dirnode's (old or new, also when it is read file by file) is the dirnode of
Namespace.  Metadata has both halves of `nexus_metadata_revalidate`, the look at the
time and the wait for the lock; Namespace and Users repeat the two as steps of their
own, so that a client that waited goes on with its old copy there, too, and take from
Metadata only that the look itself notices a store of an earlier second.  BatchMode
replaces the file below Metadata: its `ReadsLatest` is what Metadata assumes of
`io_buffer_get`.

### The proof modules

`FileCrypto_proofs`, `Users_proofs`, `Dirnode_proofs`, `BatchMode_proofs`,
`FuseFile_proofs`, `Namespace_proofs`, `Metadata_proofs` and `Dcache_proofs` each extend
the module they are about and hold its inductive invariant, the lemmas and the theorems.  A proof
module begins with the invariant, goes on with lemmas about the operators of the
model, then has one lemma per action (or per group of actions that do the same to
the state) and ends with the theorems.

## The runs

Bounds are constants that appear in guards; each comes with the reason it is
large enough for the cases in question.  Counts are distinct states.

| run | instance | states | checks |
|---|---|---|---|
| `file_crypto` | chunks of 4 bytes, sizes 0, 3, 4, 6 (empty, inside, exactly at and beyond a chunk's end), updates of 2 and 4 bytes (several per chunk, one per chunk, one cut at the end), 4 keys | 94,931 | `TypeOK`, `FilenodeShape`, `KeysAreFresh`, `FlushedChunksVerify`, `IdleFilenodeIsStored`, `UntouchedChunksSurvive` |
| `metadata` | one thread, another client, three seconds, four contents | @metadata | `TypeOK`, `LocksReleased`, `StoresBuildOnTheLatest` |
| `metadata_two` | two threads with lookups and encryptions, which may be denied, another client, two seconds, three contents (so that a store can follow one of the other client), with fairness | @metadata_two | `VersionsGrow`, `OperationsEnd` |
| `dirnode` | five names of two record lengths, buckets of two, nine UUIDs and MACs: three buckets, of which the middle one can be emptied; a client that reads the files one by one | @dirnode | `TypeOK`, `BucketsShape`, `FailedLookupIsMissing`, `StoredReadsBack`, `LoadsOldOrNew`, `LoadsAreAtomic`, `ImplementsDirectory` |
| `namespace` | two clients, two directories of one name, two files, all kinds of operations, two failures, crashes or waits with a copy (a wait and a failed rename, two waits, ...) | @namespace | `TypeOK`, `EntriesHaveFiles`, `SymlinksHaveTargets`, `EntriesSurvive` |
| `progress` | three clients, three directories of one name, a file with up to three links (one in each directory, so that a ring of three can close), with fairness | @progress | `OperationsEnd` |
| `batch` | one object, a dirnode or a filenode, existing or not; three updates (one before, one in and one after a batch), one failure or crash, with fairness | @batch | `TypeOK`, `NothingForgotten`, `ReadsLatest`, `ThreadsEnd` |
| `fuse` | two threads, two handles, two names, a file of two chunks of which the second is partial, two writes, one failure, truncation, link or unlink | @fuse | `TypeOK`, `UnstoredStaysDirty`, `ClosedIsStored`, `CacheIsCurrent`, `NobodyStuck` |
| `dcache` | a directory below the root, two files, two names, four dentries (the root and three more: a directory with a child, and an alias or a replaced one that is kept), three changes or dropped objects, of which a failed store counts as two | @dcache | `TypeOK`, `TreeIsSound`, `ToldChildrenAgree` |
| `users` | two clients, two names, a key in two notations, two users in all, two failures or crashes | @users | `TypeOK`, `UsersHaveProfiles`, `AcknowledgedIsStored`, `IdsAreNotReused`, `LockGivenBack` |

Other instances were checked once and hold, too:

- Namespace: three directories and one failure (1,275,136 states); two directories of
  two names with one file (749,062); `OperationsEnd` with two clients, two names and
  one failure, which reaches the table that is kept and the directory that is left
  locked (309,612), with all kinds of operations of three clients (127,479), and with
  three files that are renamed in a ring (10,066).
- Metadata: two threads with all four kinds of operations and two contents (845,995),
  with lookups, updates and encryptions and three contents (@H1); `VersionsGrow`
  with three seconds and three contents (4,712,396).
- BatchMode: two failures (1,496,204).  Dirnode with its reader: four names in buckets
  of one (1,834,428) and five names with ten UUIDs (3,622,208).
- Users: three users and no failure (920,985).  FuseFile: two events and one write
  (445,778).

`TypeOK` apart, what they show:

- `FilenodeShape`: the chunk list has the entries the size asks for, through every
  sequence of truncations and transfers.  `KeysAreFresh`: no key encrypts two
  streams.  `FlushedChunksVerify`: a chunk closed with its bytes on disk reads back
  under the filenode about to be stored.  `UntouchedChunksSurvive`: chunks a
  transfer has not sought survive its failure or a crash, as long as the filenode
  itself does (it lies behind the data and is overwritten when a file grows).
  `IdleFilenodeIsStored`: between transfers nothing lives in the enclave only.
- `LocksReleased`: an idle client holds nothing, except after a read that failed
  once the file was locked (`io.c:484-490` returns without closing it) or the
  eviction of an object with an open transfer (`vfs.c:22-30`).
  `StoresBuildOnTheLatest`, `VersionsGrow`: no update of another client is lost,
  except when it was written between the stat and the lock, or in the second in
  which this client took its copy (`io.c:392` compares whole seconds), when the
  stat failed (taken for "unchanged"), or after a copy that did not parse was
  taken for a current one.  The exceptions are in the formulas, and TLC confirmed
  that each of them is needed.
- `BucketsShape`: counters, capacities and lists agree.  `LoadsOldOrNew`: a
  directory that loads is the old or the new one, never a mixture, because the
  main file holds the MACs of its buckets; it may well not load at all after a
  crash in the middle of a store.  `LoadsAreAtomic`: the same when the files are read
  one after the other with whole operations in between: a load that succeeds gives
  the directory that its first read would have found.  `ImplementsDirectory`: every behaviour of the
  files, stores cut short and reloads included, is one of the abstract Directory:
  a reader who got the new entries or found the directory torn never gets the old
  ones again, and the next operation starts from what readers get.
- `EntriesHaveFiles`: link counts, deletions and entries fit together.  Exceptions:
  a removal that is under way or was interrupted (the file goes before the
  entry), a rename that failed at its first store, counts a client kept in
  memory after a failed flush and took to its grave, an entry or count that changed
  while a client waited for its lock with a copy from before, and a removal or rename
  that was put off because a failed rename had left its directory locked.
  `SymlinksHaveTargets`: the target's record follows its entry, without exception.
  `EntriesSurvive`: nobody's store undoes what another client stored; except what was
  stored while the client waited for the lock with its old copy, and what a failed or
  put-off rename was moving.
- `NothingForgotten`: an update is in the datastore, or the next commit will carry
  it there.  `ReadsLatest`: an operation finds all the updates before it, whichever
  of buffer, copy and datastore its content comes from, and besides them only updates
  whose put failed after the file was written.  Exceptions, each needed:
  a put tore the file or failed after a filenode's data was written, a sync of the
  object failed (its flags are reset all the same), a lock and unlock reset
  `is_dirty` (`io.c:213`), a copy of an earlier batch was opened (`io.c:235`),
  the batch ended after the commit had passed the object, or a command came while
  an operation had the file open.  `ThreadsEnd`: the two threads do not wait for
  each other, except in the last of these cases, and when a torn node was read, which
  leaves the object locked.
- `UnstoredStaysDirty`: as long as the daemon lives, a write that the volume does not
  have will be stored by a later flush; except when it met a store or a stat that was under way, when two
  threads had added its chunk, or when the inode was taken for deleted.
  `ClosedIsStored`: after the last close the writes are in the volume, unless the
  store failed, or two closes crossed: each saw the other's handle and left the
  store to it.  `CacheIsCurrent`: a cached chunk has the latest bytes.
  `NobodyStuck`: whoever waits for the inode waits for somebody who can go on,
  except after a failed encryption, which leaves a global mutex locked.
- `UsersHaveProfiles`: whoever is in the table has a profile; except users whose
  profile could not be stored, who stay in the table in memory, and removals left
  in memory, and users that were removed while a client that waited for the lock
  still had them in its copy.  `AcknowledgedIsStored`: what the owner was told is in
  the file, except what such a client takes back, and except
  after a removal of an unknown name, which returns with the table locked
  (`ecalls/users.c:73`): the client's later changes are reported as done and
  stay in memory, and other clients wait.  `LockGivenBack` says that this is the
  only way to keep the lock.  `IdsAreNotReused`: through removals and crashes; except
  the ids that were given while a client waited for the lock.
- `TreeIsSound`: nothing refers to a dentry or an object that was freed, a dentry's
  count is that of its children, and an object's list has exactly the dentries that
  point to it, whatever is dropped from the LRU list or replaced by others.
  `ToldChildrenAgree`: a dentry that a walk follows without a look at the dirnode
  (every child that is not marked as changed, whichever dentry of its directory it
  hangs on) is what the dirnode in memory says.  Exceptions, each needed: the dirnode was reloaded without
  `has_changed`, or reloaded or changed through another dentry of the directory.
- `OperationsEnd` (Metadata): nobody waits forever, except after a read that failed
  under the lock or an eviction during a transfer, and after one of three overlaps of
  two threads: a plain read reloaded during a transfer and cleared `write_mode` and
  `is_locked` (`buffer_layer.c:308`, `metadata.c:394`), so that the finish no longer
  unlocks and the next update waits for ever; a thread got the mutex of a file that was
  closed meanwhile (`io.c:171`); or two writers were counted and the first cleared the
  `is_locked` of both (`vfs.c:183`).
- `OperationsEnd` (Namespace): nobody waits forever, except for renames in a ring (two
  clients renaming between the same two directories in opposite directions, or three
  around three, each hold the lock the next one waits for: a real deadlock of the
  code), for a client that keeps the hardlink table after a failed flush, and for a
  directory that a failed rename left locked.

Deadlock is checked in `metadata`, `metadata_two`, `dirnode`, `dcache` and `users`.  It is not
in `file_crypto` (when the keys are used up, no transfer can start), in the
Namespace runs (the UUIDs are used up, and opposed renames do block), in `batch`
and in `fuse` (a command that meets an operation, and a mutex left locked, do
block; `ThreadsEnd` and `NobodyStuck` say that nothing else does).

**Fairness.**  Metadata: weak fairness of each thread's steps; the threads of the
frontend run and whoever starts a transfer finishes it.  Namespace: weak fairness
of a client's steps and strong fairness of the wait for the second lock of a
rename, because the kernel hands a file lock to those who wait for it in turn.
BatchMode: weak fairness of the filesystem's thread and of the commander, which both
run.
FuseFile states no fairness: `NobodyStuck` is the absence of deadlock in every
state, and more does not hold, since a flush that fails is repeated at will and a
mutex need not be handed over in turn.
Nothing is assumed of new operations, other clients' writes, the clock, the LRU
list, failures or crashes.

**Symmetry** is used where only invariants and action properties are checked:
names of the same length, threads, clients, directories and names are
interchangeable.

## Where code and comments disagree

Two runs expect a violation of what a comment says:

- `last_chunk`: "we shall just skip verification of last chunks"
  (`file_crypto.c:189-191`).  A truncation that leaves the number of chunks the same
  does not trim `encrypted_length` (`filenode.c:409-412`), so the cut chunk is
  verified against the MAC of its longer version, and fails.
- `deferred`: "no need to flush the buffer, as there will be another on the way"
  (`buffer_layer.c:333`).  The other writer may be a decryption, which stores
  nothing: the update stays in memory.

Observed while modelling and visible in the modules:

- `encrypted_length` jumps over chunks that were never written.
- "the file crypto takes control of the metadata object" (`ecalls/files.c:85`):
  `is_locked` is a flag of the object, so a lookup that ends during a transfer
  unlocks it and closes the transfer's file (`vfs.c:183`).
- "Checks whether the specified metadata object is uptodate" (`vfs.h:53`, of
  `nexus_vfs_revalidate`): the time is compared before the wait for the lock
  (`metadata.c:363-370`) and not again, so a client that waited goes on with the copy
  from before, and its store takes back what the other one stored.  This is what
  `Differ`, `Miscounted` and the two `raced` excuse in Namespace, Users and Metadata.
- "@return metadata_buf->file_handle" (`io.c:157-160`): `__acquire_metadata_buf` reads
  the handle and then waits for the mutex, whose holder closes the file; what it
  returns is a file that was closed and freed (`FileClosed` in Metadata).
- `ecall_fs_rename` returns without `nexus_vfs_put` of its destination when the source
  cannot be read (`dirs.c:815-825`): the destination stays locked for the other
  clients, and this client's later stores stay in memory while the files of removed
  entries are deleted at once (`RenameFails`, `left` in Namespace).
- An unlink sets `dentry->inode` to NULL (`frontend_fuse/dentry.c:129`), and a handle
  that is open under the name dereferences it at its next read or write (`io.c:97`).
- "update all the child dentries" (`dentry.c:261`): only those of this dentry are
  flagged, and only when `has_reloaded` is set, which it is not when the dirnode was
  reloaded after a failed store (`metadata.c:359`) or loaded again after it was
  dropped (`dentry.c:288`): a walk goes on to an object that the directory no longer
  names.  This is what `missed` excuses in Dcache.
- A hardlink raises the count before it finds that the new name exists
  (`ecalls/dirs.c:629`), and a create writes the new file before it does, so that a
  refused call leaves a count or a file behind.  A hardlink into another directory
  stores the directory of the target and leaves that of the new entry for later.
- "if bar.txt already exists in cat/, we need to remove it" (`ecalls/dirs.c:742`):
  `tmp_type` stays 0 (`dirs.c:727`), so the overwritten file keeps its datastore object
  for ever.
- A commit without buffers returns before the deletions (`io.c:991`).  An object
  that was created in a batch and committed as a copy never gets
  `sync_file_exists`, so that deleting it later in the batch leaves its file
  (`io.c:792`).  `is_dirty` is documented as "if it is unflushed"
  (`buffer_manager.h:38`) and reset by every close (`io.c:213`): an operation that gets
  a dirnode for writing and changes nothing leaves the unflushed buffer clean, and the
  next commit copies the older file.
- A truncation through FUSE does not reach the inode's size and chunks; an unlink
  of one of two names marks the inode deleted when the last stat saw one name.
- A key that is not written as `nexus_key_to_str` writes it can be added and not
  removed by key.  A profile whose file cannot be created makes
  `abac_create_user_profile` free a NULL pointer.
- The second walk of a rename can free the dentry that the first one found
  (`ecalls/dirs.c:796`), when another client replaced the directory in between.
  Deleted dentries that have children are put on a list nobody collects
  (`dentry.c:229`).  A second mount frees the root dentry while its object still has
  it in its list (`dentry.c:80`).
- `nx_create_volume` returns success when the file of the user table or of the
  supernode cannot be created (`ecalls/volume.c:85, 104`): `ret` is that of the step
  before.

## What is proved

All theorems hold for every value of the constants that satisfies the named
assumptions of the modules: the sets of clients, threads, names, directories and so
on are finite, the bounds are natural numbers (`MaxId`, `MaxWrites` at least one, as
the first object is there from the start), a chunk and a bucket hold at least one
item, and the markers `NoName`, `NoThread`, `"free"`, `"none"`, `"closed"` are no
members of the sets they stand beside.  TLC evaluates the assumptions in the runs.
Each invariant below was checked by TLC on the instance of its run before it was
proved.

**FileCrypto** (any chunk size, sizes, number of keys).  `TypeCorrect`,
`FilenodeShapeHolds`, `KeysStayFresh`, `ClosedChunksVerify`, `IdleIsStored`, and the
action property in `ChunksSurvive`.  The shape alone is not inductive: the encrypted
length advances to wherever the transfer stands, and a chunk entry is replaced at the
index the transfer remembers; `IInv` adds `XferInFile`.  What the bytes are needs a
second invariant, `Content`: every key was generated for one chunk (`OwnKeys`,
`OwnBytes`), a transfer works in its chunk from the start to the end under the key
of its entry (`XferInChunk`), the key of a running encryption is on what it has
written and nowhere else (`Encrypting`), and the filenode in memory differs from the
stored one only in chunks that were sought (`InStep`).  Lemmas about division by the
chunk size, resizing and replacing a chunk carry the arithmetic.

**Users** (any clients, names, keys, failures).  `TypeCorrect`, `ProfilesExist`,
`AnswersAreStored`, `IdsAreUnique`, `LockIsGivenBack`.  The argument: whoever has
the file locked is alone and has the latest table, or one that differs from it only
in users that are `raced` (`Locking`), and a table that is
valid in some client may be the next one written, so everything the owner was told
and every id that was ever in the file must already hold of it (`Current`, for the
stored table and every valid copy).  Without that, a flush of a copy could undo what
the stored table promises.

**Dirnode** (any names, record lengths, capacity).  `TypeCorrect`, `ShapeHolds`,
`FailedLookupsAreMissing`, `StoresReadBack`, `ReadersSeeOldOrNew` and `Refinement`: the
initial states map to initial states of Directory and every step to a step or a
stutter.  The counters are tied to the sets by cardinality (a record's bytes are
pairs of name and offset, so that sums become cardinalities of disjoint unions).  The
invariant says of the files what the MACs are for: a bucket in memory that is not
dirty is on file under its MAC, and if the main file loads at all, it gives a
well-formed dirnode with the committed entries or those in memory (`Storage`); MACs
and UUIDs are never reused (`Ids`).

**BatchMode** (any objects, updates, failures).  `TypeCorrect`, `NothingIsForgotten`,
`LatestIsRead`.  The invariant is what the flags of a `metadata_buf` promise about
its two files (`Flags`): `batch_mode_modified` that the batch copy, or the dirty
buffer, has the latest updates, its absence that the datastore has them, and so on;
with what the operation and the commander have in hand when they are in the middle
of an object (`Running`, `Syncing`).  The exceptions of the properties are the
objects left out of `Flags`.

**FuseFile** (any threads, handles, names, chunk size, writes).  `TypeCorrect`,
`UnstoredIsDirty`, `LastCloseStores`, `CachedChunksAreCurrent`.  The invariant is
pointwise: for each position of the file it relates the latest byte written, the
cached chunks, the volume, and what each thread has read before it takes the lock
again (`Intact`), with the progress of a store that is under way (`StoredSoFar`).
`openers` is the number of open handles (`Counting`), and a dirty inode has a handle
that nobody is about to close (`Closing`).  `NobodyWaitsForAWaiter` is the part of
`NobodyStuck` that needs no `ENABLED`: who waits for `inode->lock` waits for another
thread, which is storing the file and waits for nothing, unless the buffer mutex was
left locked.

**Namespace** (any clients, directories, names, files, failures).  `TypeCorrect`,
`StoredLinksHaveTargets`, and the action property in `StoredEntriesSurvive`.  The
invariant covers every dirnode that may be written: the stored ones, the unsaved
copies of all clients, the copy with which a client waits for a lock, and the two that
an operation works on.  Each has at least as
many targets of a symbolic link as entries for it (a rename that is cut short can
leave two), which needs that a UUID has one type wherever it occurs (`Kinded`); each
keeps the stored entries of its directory but for those its operation may drop
(`Surviving`), which needs the locks the operation holds (`Operating`).

**Metadata**.  `TypeCorrect` for any number of threads.  For one thread (`OneThread`)
and any number of seconds, writes, failures and other clients' updates:
`LocksAreReleased` and `StoresBuildOnLatest`.  Both are false for two threads of
one client, as TLC shows, because `is_locked` is a flag of the object and not of the
operation; hence the hypothesis, and the weaker `VersionsGrow` that is checked for
two.  The invariant says which lock is held at each step of the operation
(`Locking`), what is left after a read failed under the lock (`Stuck`: the mutex
stops everything but lookups), that a copy that differs from the file is not younger
than the file's mtime (`Fresh`), and that an operation nothing has overtaken works
on the latest content (`Latest`).

**Dcache** (any volume, number of dentries, length of the behaviour).  `TypeCorrect`,
`TreeStaysSound`, `TrustedChildrenAgree`.  The operations are functions from one cache
to the next and call each other, so the invariant is a predicate of a cache, `Good`,
and there is one lemma per function that takes a good cache to a good one; the steps
compose them.  `Good` adds to the properties that the root stays and hangs nowhere, a
child's parent is another dentry, of a directory (`Linked`), and has one child of a
name (`Unique`): without this a dentry that is freed or moved could take the count of
its own parent, or of two.  The walk's position is not part of it, since a removal may
free the dentry that its own walk came to: that it is live between steps is a conjunct
of `IInv`, with what the datastore may hold.  The assumptions are those of the module:
the root is a directory, no object is both a directory and a file, and at least one
dentry fits.

Only model-checked:

- `OperationsEnd` (Metadata, Namespace) and `ThreadsEnd`, which are liveness, and
  `NobodyStuck`, which is stated with `ENABLED`: outside what the prover does.
- `EntriesHaveFiles`: an invariant that counts the places of a file against its link
  count would also have to follow the copies of clients that wait and the stores that
  a left lock puts off; such a proof was not completed.
- `LoadsAreAtomic`: `LoadsOldOrNew`, which it rests on, is proved.
- `VersionsGrow`: it depends on which of two threads last set the flags of the
  object, the buffer and the file, and no invariant short of the reachable states
  was found for it.

## Plan

Done: FileCrypto, Metadata, Dirnode with Directory, Namespace, BatchMode, FuseFile,
Users, Dcache, and the theorems above.  Next:

1. **Inodes** (`frontend_fuse/vfs.c`, `dentry.c`): reference counts of lookup and
   forget.
2. **Bouncer** (`abac/bouncer.c`): rules replaced by version, failures in between.

## Not modelled

- Cryptography: keys, MACs and encryption are symbols that match or do not.
- The operations that change nothing (lookup, stat, readdir, readlink), except as
  readers in Metadata, Dirnode, BatchMode, Dcache and Users.
- A rename of a name onto itself, in which the code frees the entry it goes on
  to use; failing allocations in Namespace; failing reads under a lock in
  Namespace and Users (they are in Metadata); in Namespace also failing stores of a
  directory that was left locked.
- In FileCrypto: offsets of 2 GiB and more, which `files.c:132` narrows to an int, and
  a reload in the very second of a store whose close failed, for which `io.c:392` may
  serve the old buffer (Metadata has the clock).
- In BatchMode: other clients during a batch, the deletion of a buffer while the
  commit walks the table, and the order of the objects in a commit, which a crash
  may cut between an entry and its file.
- In FuseFile: `O_APPEND`, writes of several bytes or chunks, rename, and the life
  of inodes and dentries (`lookup_count`, forget).
- In Dcache: an object that the LRU list drops in the middle of an operation
  (`nexus_vfs_load` does it), symbolic links, "." and "..", a second mount, reads that fail although
  the file is there, and what a rename does with a dentry that its second walk has
  freed.
- In Users: a table file that is torn by a crash and does not load again, the
  owner's own entry, several threads of one client.
- The attribute tables that dirnodes and filenodes carry, and access control;
  volume creation, login and the exchange of root keys, which are sequences of
  cryptographic steps of one request each.
- The policy language, JSON, path building, the shell and the AFS frontend:
  sequential text processing or pure I/O.  `enclave/acl.c` is used by no ecall.
- Third-party code.  Of the 1.18 million lines of C in the repository all but some
  50,000 are OpenAFS, two copies of mbed TLS, the Datalog engine and Lua.  They are
  not NeXUS's own logic and are left out on purpose; the modules map about one
  line in ten of what remains, and most of `ecalls/users.c`, `ecalls/files.c`,
  `ecalls/dirs.c`, `dirnode.c`, `file_crypto.c` and of the backend's `io.c`.

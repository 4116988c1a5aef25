------------------------------ MODULE Dirnode ------------------------------
(***************************************************************************)
(* One directory: the dirnode in the enclave (enclave/dirnode.c, bucket.c) *)
(* and the datastore files it is kept in.  The entries lie in buckets of   *)
(* bounded capacity.  The first bucket is part of the dirnode's main file, *)
(* every other bucket has a file of its own, and the main file holds a     *)
(* record with the MAC of each of them.                                    *)
(*                                                                         *)
(* A store deletes the files of emptied buckets, writes the dirty buckets  *)
(* and then the main file, one datastore call after the other: it may fail *)
(* or the client may die at each of them, and other clients, which read    *)
(* without the file lock, may look in between.                             *)
(*                                                                         *)
(* An entry is abstracted to its name and the length of its record, a MAC  *)
(* to the number of the write that produced it.                            *)
(***************************************************************************)
EXTENDS Integers, Sequences, FiniteSets

CONSTANTS Names,     \* file names
          NoName,    \* no name: last_failed_lookup is NULL
          RecLen,    \* rec_len of the entry of each name
          Capacity,  \* BUCKET_CAPACITY
          MaxId      \* bound on the UUIDs and MACs a behaviour generates

ASSUME NamesAssumption    == IsFiniteSet(Names) /\ NoName \notin Names
ASSUME RecLenAssumption   == RecLen \in [Names -> Nat]
ASSUME CapacityAssumption == Capacity \in Nat \ {0}
ASSUME MaxIdAssumption    == MaxId \in Nat \ {0}

VARIABLES dirnode,    \* struct nexus_dirnode, in the enclave
          is_invalid, \* metadata->is_invalid: the dirnode must be loaded before use
          pc,         \* "idle", or the part of dirnode_store that is next
          main,       \* the dirnode's main file, or Torn
          files,      \* the bucket files: bucket UUID -> content and MAC, or Torn
          next_id,    \* UUIDs and MACs generated so far
          committed   \* history: the entries last stored or loaded

vars == <<dirnode, is_invalid, pc, main, files, next_id, committed>>

Torn == [torn |-> TRUE]
-----------------------------------------------------------------------------
(* The dirnode in memory.                                                  *)

Indices(d) == DOMAIN d.bucket_list
Entries(d) == UNION {d.bucket_list[i].dir_entries : i \in Indices(d)}

bucket_create(id) ==
    [uuid |-> id, dir_entries |-> {}, num_items |-> 0, size_bytes |-> 0,
     is_dirty |-> FALSE, mac |-> 0]

dirnode_create ==
    [bucket_list |-> <<bucket_create(1)>>, dir_entry_count |-> 0, dir_entry_buflen |-> 0,
     last_failed_lookup |-> NoName]

Without(seq, i) == SubSeq(seq, 1, i - 1) \o SubSeq(seq, i + 1, Len(seq))

(* __find_by_name answers from the last failed lookup before it looks into *)
(* the index of the entries.                                               *)
find_by_name(d, name) == name # d.last_failed_lookup /\ name \in Entries(d)

MissedLookup(d, name) ==
    [d EXCEPT !.last_failed_lookup = IF find_by_name(d, name) THEN NoName ELSE name]

(* __get_available_bucket: the first bucket with room, or a new last one.  *)
Available(d) == {i \in Indices(d) : d.bucket_list[i].num_items < Capacity}

get_available_bucket(d, id) ==
    IF Available(d) # {} THEN d
    ELSE [d EXCEPT !.bucket_list = Append(@, bucket_create(id))]

AvailableIndex(d) == CHOOSE i \in Available(d) : \A j \in Available(d) : i <= j

bucket_add_direntry(b, name) ==
    [b EXCEPT !.dir_entries = @ \union {name}, !.num_items = @ + 1, !.size_bytes = @ + RecLen[name]]

SetDirty(b) == [b EXCEPT !.is_dirty = TRUE]

(* The rest of __dirnode_add_direntry.                                     *)
AddTo(d, i, name) ==
    [d EXCEPT !.bucket_list[i] = SetDirty(bucket_add_direntry(@, name)),
              !.dir_entry_count = @ + 1,
              !.dir_entry_buflen = @ + RecLen[name],
              !.last_failed_lookup = NoName]

\* Mutant: the change of the directory does not clear the last failed lookup.
add_direntry_keep_failed(d, name, id) ==
    LET e == get_available_bucket(d, id)
    IN  [AddTo(e, AvailableIndex(e), name) EXCEPT !.last_failed_lookup = d.last_failed_lookup]

add_direntry(d, name, id) ==
    LET e == get_available_bucket(d, id) IN AddTo(e, AvailableIndex(e), name)

BucketOf(d, name) == CHOOSE i \in Indices(d) : name \in d.bucket_list[i].dir_entries

\* Mutant: the entry is taken out of the list only.
bucket_del_direntry_uncounted(b, name) == [b EXCEPT !.dir_entries = @ \ {name}]

bucket_del_direntry(b, name) ==
    [b EXCEPT !.dir_entries = @ \ {name}, !.num_items = @ - 1, !.size_bytes = @ - RecLen[name]]

del_direntry(d, name) ==
    [d EXCEPT !.bucket_list[BucketOf(d, name)] = SetDirty(bucket_del_direntry(@, name)),
              !.dir_entry_count = @ - 1,
              !.dir_entry_buflen = @ - RecLen[name],
              !.last_failed_lookup = NoName]

\* Mutant: the entry gets its new name before it leaves its bucket.
dirnode_rename_early(d, oldname, newname, id) ==
    LET clobbered == IF find_by_name(d, newname) THEN del_direntry(d, newname) ELSE d
        i         == BucketOf(clobbered, oldname)
        renamed   == [clobbered EXCEPT !.bucket_list[i].dir_entries = (@ \ {oldname}) \union {newname}]
    IN  add_direntry(del_direntry(renamed, newname), newname, id)

(* dirnode_rename within the directory: an entry of the new name is        *)
(* clobbered, then the renamed entry leaves its bucket and is added anew.  *)
dirnode_rename(d, oldname, newname, id) ==
    LET clobbered == IF find_by_name(d, newname) THEN del_direntry(d, newname) ELSE d
    IN  add_direntry(del_direntry(clobbered, oldname), newname, id)
-----------------------------------------------------------------------------
(* The dirnode in the datastore.                                           *)

bucket_to_record(b) ==
    [uuid |-> b.uuid, num_items |-> b.num_items, size_bytes |-> b.size_bytes, mac |-> b.mac]

(* dirnode_serialize: header, bucket records and the content of bucket 0.  *)
dirnode_serialize(d) ==
    [dir_entry_count  |-> d.dir_entry_count,
     dir_entry_buflen |-> d.dir_entry_buflen,
     records          |-> [i \in Indices(d) |-> bucket_to_record(d.bucket_list[i])],
     bucket0          |-> d.bucket_list[1].dir_entries]

\* Mutant: the MACs of the buckets are not compared with the records.
bucket_loads_any(rec) == rec.uuid \in DOMAIN files /\ files[rec.uuid] # Torn

(* __load_other_buckets: the file exists, decrypts, and is the version     *)
(* whose MAC the record holds.                                             *)
bucket_loads(rec) ==
    /\ rec.uuid \in DOMAIN files /\ files[rec.uuid] # Torn
    /\ files[rec.uuid].mac = rec.mac

Loads == main # Torn /\ \A i \in 2 .. Len(main.records) : bucket_loads(main.records[i])

dirnode_load ==
    [bucket_list |->
        [i \in DOMAIN main.records |->
            [uuid |-> main.records[i].uuid,
             dir_entries |-> IF i = 1 THEN main.bucket0 ELSE files[main.records[i].uuid].dir_entries,
             num_items |-> main.records[i].num_items,
             size_bytes |-> main.records[i].size_bytes,
             is_dirty |-> FALSE, mac |-> main.records[i].mac]],
     dir_entry_count |-> main.dir_entry_count,
     dir_entry_buflen |-> main.dir_entry_buflen,
     last_failed_lookup |-> NoName]
-----------------------------------------------------------------------------
Init ==
    /\ dirnode = dirnode_create /\ is_invalid = FALSE /\ pc = "idle"
    /\ main = dirnode_serialize(dirnode_create)
    /\ files = [id \in {} |-> Torn]
    /\ next_id = 1
    /\ committed = {}

Ready == pc = "idle" /\ ~is_invalid

dirnode_find_by_name(name) ==
    /\ Ready
    /\ dirnode' = MissedLookup(dirnode, name)
    /\ UNCHANGED <<is_invalid, pc, main, files, next_id, committed>>

(* An operation changes the dirnode in memory; its store follows.  A new   *)
(* bucket takes the next UUID.                                             *)
Modify(d) ==
    /\ dirnode' = d /\ pc' = "delete"
    /\ next_id' = next_id + 1
    /\ UNCHANGED <<is_invalid, main, files, committed>>

dirnode_add(name) ==
    /\ Ready /\ next_id < MaxId /\ ~find_by_name(dirnode, name)
    /\ Modify(add_direntry(dirnode, name, next_id + 1))

dirnode_remove(name) ==
    /\ Ready /\ next_id < MaxId /\ find_by_name(dirnode, name)
    /\ Modify(del_direntry(dirnode, name))

Rename(oldname, newname) ==
    /\ Ready /\ next_id < MaxId /\ oldname # newname /\ find_by_name(dirnode, oldname)
    /\ Modify(dirnode_rename(dirnode, oldname, newname, next_id + 1))

(* __delete_empty_dirnode_buckets: the failure of a deletion is ignored.   *)
Emptied(d) == {i \in Indices(d) \ {1} : d.bucket_list[i].is_dirty /\ d.bucket_list[i].num_items = 0}

delete_empty_bucket ==
    /\ pc = "delete"
    /\ \E i \in Emptied(dirnode) :
          /\ dirnode' = [dirnode EXCEPT !.bucket_list = Without(@, i)]
          /\ \/ files' = [id \in DOMAIN files \ {dirnode.bucket_list[i].uuid} |-> files[id]]
             \/ files' = files
    /\ UNCHANGED <<is_invalid, pc, main, next_id, committed>>

DirtyBuckets(d) == {i \in Indices(d) \ {1} : d.bucket_list[i].is_dirty}

(* bucket_store of the first dirty bucket.                                 *)
\* Mutant: the bucket keeps the MAC of its previous version.
Stored_old_mac(b, mac) == [b EXCEPT !.is_dirty = FALSE]

Stored(b, mac) == [b EXCEPT !.is_dirty = FALSE, !.mac = mac]

NextDirty == CHOOSE i \in DirtyBuckets(dirnode) : \A j \in DirtyBuckets(dirnode) : i <= j

bucket_store ==
    /\ pc = "delete" /\ Emptied(dirnode) = {} /\ DirtyBuckets(dirnode) # {} /\ next_id < MaxId
    /\ LET i   == NextDirty
           b   == Stored(dirnode.bucket_list[i], next_id + 1)
           new == [dir_entries |-> b.dir_entries, mac |-> next_id + 1]
           Put(file) == files' = [id \in DOMAIN files \union {b.uuid} |->
                                     IF id = b.uuid THEN file ELSE files[id]]
       IN  /\ dirnode' = [dirnode EXCEPT !.bucket_list[i] = b]
           /\ \/ Put(new) /\ UNCHANGED <<is_invalid, pc>>
              \/ /\ Put(new) \/ Put(Torn) \/ UNCHANGED files
                 /\ is_invalid' = TRUE /\ pc' = "idle"
    /\ next_id' = next_id + 1
    /\ UNCHANGED <<main, committed>>

(* The main file is written last.                                          *)
dirnode_store ==
    /\ pc = "delete" /\ Emptied(dirnode) = {} /\ DirtyBuckets(dirnode) = {}
    /\ dirnode' = [dirnode EXCEPT !.bucket_list[1].is_dirty = FALSE]
    /\ pc' = "idle"
    /\ \/ /\ main' = dirnode_serialize(dirnode)
          /\ committed' = Entries(dirnode)
          /\ UNCHANGED is_invalid
       \/ /\ main' \in {dirnode_serialize(dirnode), Torn, main}
          /\ is_invalid' = TRUE
          /\ UNCHANGED committed
    /\ UNCHANGED <<files, next_id>>

\* Mutant: the dirnode in the enclave is used again after a failed store.
Reload_cached ==
    /\ pc = "idle" /\ is_invalid /\ Loads
    /\ is_invalid' = FALSE
    /\ UNCHANGED <<dirnode, pc, main, files, next_id, committed>>

(* nexus_metadata_reload after a failed store, nexus_metadata_load after a *)
(* restart.  A directory that does not load stays out of reach.            *)
Reload ==
    /\ pc = "idle" /\ is_invalid /\ Loads
    /\ dirnode' = dirnode_load
    /\ is_invalid' = FALSE
    /\ committed' = Entries(dirnode_load)
    /\ UNCHANGED <<pc, main, files, next_id>>

Crash ==
    /\ is_invalid' = TRUE /\ pc' = "idle"
    /\ UNCHANGED <<dirnode, main, files, next_id, committed>>

Next ==
    \/ \E name \in Names : dirnode_find_by_name(name) \/ dirnode_add(name) \/ dirnode_remove(name)
    \/ \E oldname, newname \in Names : Rename(oldname, newname)
    \/ delete_empty_bucket
    \/ bucket_store
    \/ dirnode_store
    \/ Reload
    \/ Crash

Spec == Init /\ [][Next]_vars
-----------------------------------------------------------------------------
Bucket == [uuid : Nat, dir_entries : SUBSET Names, num_items : Nat, size_bytes : Nat,
           is_dirty : BOOLEAN, mac : Nat]
Record == [uuid : Nat, num_items : Nat, size_bytes : Nat, mac : Nat]

(* Types of the dirnode and its files; no counter of the code, which are   *)
(* all unsigned, wraps below zero.                                         *)
TypeOK ==
    /\ dirnode \in [bucket_list : Seq(Bucket), dir_entry_count : Nat,
                    dir_entry_buflen : Nat, last_failed_lookup : Names \union {NoName}]
    /\ is_invalid \in BOOLEAN /\ pc \in {"idle", "delete"}
    /\ main = Torn \/ main \in [dir_entry_count : Nat, dir_entry_buflen : Nat,
                               records : Seq(Record), bucket0 : SUBSET Names]
    /\ \A id \in DOMAIN files :
          id \in Nat /\ (files[id] = Torn \/ files[id] \in [dir_entries : SUBSET Names, mac : Nat])
    /\ next_id \in 1 .. MaxId
    /\ committed \subseteq Names

(* The lengths of the records of these names together.                     *)
Bytes(names) == Cardinality(UNION {{name} \X (1 .. RecLen[name]) : name \in names})

(* Through additions, removals and renames over bucket boundaries, and     *)
(* through reloads, the counters dirnode.c and bucket.c keep by hand agree *)
(* with the lists: no bucket is over its capacity, no name is in two       *)
(* buckets, every num_items counts what bucket_load_from_buffer will parse *)
(* and every size_bytes is what bucket_serialize will write into a buffer  *)
(* of that size; the header counts all of them.                            *)
BucketsShape ==
    LET b == dirnode.bucket_list IN
    /\ \A i \in DOMAIN b : /\ b[i].num_items = Cardinality(b[i].dir_entries)
                          /\ b[i].num_items <= Capacity
                          /\ b[i].size_bytes = Bytes(b[i].dir_entries)
    /\ \A i, j \in DOMAIN b : i # j => /\ b[i].dir_entries \intersect b[j].dir_entries = {}
                                       /\ b[i].uuid # b[j].uuid
    /\ dirnode.dir_entry_count = Cardinality(Entries(dirnode))
    /\ dirnode.dir_entry_buflen = Bytes(Entries(dirnode))

(* The negative cache never hides an entry: what last_failed_lookup says   *)
(* is missing is missing, after any change of the directory.               *)
FailedLookupIsMissing == dirnode.last_failed_lookup \notin Entries(dirnode)

(* Between operations a dirnode that was not invalidated is the one that   *)
(* the files give: every changed bucket was written and its MAC got into   *)
(* the record of the main file.                                            *)
StoredReadsBack ==
    Ready => Loads /\ Entries(dirnode_load) = Entries(dirnode)

(* Whatever a failure or a crash leaves behind, and whenever another       *)
(* client looks: a directory that loads has the entries from before the    *)
(* store or those from after it, never a mixture of buckets; the counter   *)
(* of the header fits them.                                                *)
LoadsOldOrNew ==
    Loads => /\ Entries(dirnode_load) \in {committed, Entries(dirnode)}
             /\ main.dir_entry_count = Cardinality(Entries(dirnode_load))

(* What other clients read from the files, as the abstract Directory: the  *)
(* entries before the running operation, those after it, and what loads.   *)
Read == INSTANCE Directory WITH
           Unreadable <- {NoName},
           entries    <- committed,
           target     <- Entries(dirnode),
           view       <- IF Loads THEN Entries(dirnode_load) ELSE {NoName},
           open       <- ~Ready

(* The files of dirnode_store implement the abstract Directory: each       *)
(* addition, removal and rename takes effect as a whole, over all its      *)
(* bucket files; a reader who got the new entries, or found the directory  *)
(* torn, never gets the old ones again; and after a failure the enclave    *)
(* goes on from what the files hold (nexus_metadata_reload).               *)
ImplementsDirectory == Read!Spec
=============================================================================

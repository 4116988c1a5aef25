------------------------------- MODULE Users -------------------------------
(***************************************************************************)
(* The user table of a volume and the profiles of its users (user.c,       *)
(* ecalls/users.c, abac/runtime.c).  The owner adds and removes users from *)
(* several clients.  A client keeps the table in its enclave, compares it  *)
(* with the time of the file when it acquires it, then waits for the lock  *)
(* of the file and holds it to the flush or the release.  A copy that was  *)
(* current before the wait is used after it, though another client may     *)
(* have stored a newer table by then.  An operation writes two objects,    *)
(* the table and the profile of the user; either write may fail.           *)
(*                                                                         *)
(* Each client runs one operation at a time (the shell).  A comparison     *)
(* notices a newer file, and a file is written as a whole (Metadata and    *)
(* Dirnode have the other cases).  A public key comes as a text: the key,  *)
(* and whether it is written as nexus_key_to_str writes it.                *)
(***************************************************************************)
EXTENDS Integers, FiniteSets

CONSTANTS Clients,     \* clients on which the owner is logged in
          Names,       \* user names
          Keys,        \* public keys
          MaxUuid,     \* bound on the users that are ever added
          MaxWriters,  \* bound on metadata_buffer.writers of the table
          MaxFailures  \* bound on the failures and crashes

ASSUME SetsAssumption   == IsFiniteSet(Clients) /\ IsFiniteSet(Names) /\ IsFiniteSet(Keys)
ASSUME BoundsAssumption == MaxUuid \in Nat /\ MaxWriters \in Nat /\ MaxFailures \in Nat

VARIABLES stored,     \* the user table in its file
          profiles,   \* the users whose profile can be loaded
          table,      \* user_table_metadata->user_table of each client
          is_valid,   \* the clients whose copy would not be reloaded
          waiting,    \* the clients that found their copy current and wait for the lock
          stuck,      \* the clients that left the table locked with a copy that is not current
          is_locked,  \* the clients whose user_table_metadata has is_locked
          writers,    \* writers of the table's buffer: the file is locked while it is not 0
          op,         \* the operation of each client
          next_uuid, failures,
          given,      \* history: the ids and users that were ever in the file
          done,       \* history: what the last successful operation did to a user
          deferred,   \* history: the users whose flush was left to a later one
          ghosts,     \* history: the users that stayed in a table without a profile
          leaked,     \* history: the clients that left the table locked
          raced       \* history: the users that a table stored after a wait disagrees on

caches  == <<table, is_valid, waiting, stuck, is_locked, writers>>
history == <<given, done, deferred, ghosts, leaked, raced>>
vars    == <<stored, profiles, caches, op, next_uuid, failures, history>>

Uuids == 1 .. MaxUuid
Texts == Keys \X BOOLEAN
NoOp  == [pc |-> "idle", kind |-> "none", user |-> 0]

nexus_usertable_create == [users |-> {}, auto_increment |-> 0, user_count |-> 0]

(* crypto_hash_pubkey parses a key and hashes it as it is written again;   *)
(* nexus_hash_generate hashes the text as it is.                           *)
crypto_hash_pubkey(text)  == <<text[1], TRUE>>
nexus_hash_generate(text) == text
-----------------------------------------------------------------------------
find_name(t, name)        == {u \in t.users : u.name = name}
find_pubkey_hash(t, hash) == {u \in t.users : u.pubkey_hash = hash}

Taken(t, name, text) == \/ find_name(t, name) # {}
                        \/ find_pubkey_hash(t, nexus_hash_generate(text)) # {}

\* Mutant: the number of users is the id.
usertable_add_count(t, uuid, name, text) ==
    [users |-> t.users \union {[uuid |-> uuid, user_id |-> t.user_count + 1, name |-> name,
                                pubkey_hash |-> nexus_hash_generate(text)]},
     auto_increment |-> t.auto_increment + 1, user_count |-> t.user_count + 1]

usertable_add(t, uuid, name, text) ==
    [users |-> t.users \union {[uuid |-> uuid, user_id |-> t.auto_increment + 1, name |-> name,
                                pubkey_hash |-> nexus_hash_generate(text)]},
     auto_increment |-> t.auto_increment + 1, user_count |-> t.user_count + 1]

\* Mutant: the number of users is not kept.
usertable_remove_uncounted(t, user) == [t EXCEPT !.users = @ \ {user}]

usertable_remove(t, user) == [t EXCEPT !.users = @ \ {user}, !.user_count = @ - 1]
-----------------------------------------------------------------------------
Init ==
    /\ stored = nexus_usertable_create /\ profiles = {}
    /\ table = [c \in Clients |-> nexus_usertable_create] /\ is_valid = {} /\ is_locked = {}
    /\ waiting = {} /\ stuck = {}
    /\ writers = [c \in Clients |-> 0]
    /\ op = [c \in Clients |-> NoOp]
    /\ next_uuid = 0 /\ failures = 0
    /\ given = {} /\ done = [u \in Uuids |-> "nothing"]
    /\ deferred = {} /\ ghosts = {} /\ leaked = {} /\ raced = {}

Idle(c) == op[c].pc = "idle"
Fail    == failures < MaxFailures /\ failures' = failures + 1

(* nexus_vfs_acquire_user_table.  A table that was never loaded, or that   *)
(* the comparison finds old, is read from the file once it is locked.  One *)
(* that is current is used as it is, before the lock is waited for.        *)
Stat(c) ==
    /\ Idle(c) /\ c \in is_valid \ stuck
    /\ waiting' = waiting \union {c}
    /\ UNCHANGED <<stored, profiles, table, is_valid, stuck, is_locked, writers,
                   op, next_uuid, failures, history>>

\* Mutant: a table that was loaded once is never revalidated.
acquire_user_table_cached(c) == IF table[c].auto_increment > 0 THEN table[c] ELSE stored

acquire_user_table(c) == IF c \in waiting \union is_valid THEN table[c] ELSE stored

FileIsFree(c) == \A other \in Clients \ {c} : writers[other] = 0

(* The file is locked: by the flock or, for a client that left it locked   *)
(* with a current copy, by one more writer.  A client that left it locked  *)
(* with an older copy waits for its own mutex for ever.                    *)
Acquire(c) ==
    /\ Idle(c) /\ FileIsFree(c) /\ writers[c] < MaxWriters
    /\ c \in waiting \/ c \notin is_valid
    /\ c \notin stuck
    /\ waiting' = waiting \ {c}

Stale(c) == c \in waiting \ is_valid

(* The users that the client's table and the file disagree on, and those   *)
(* whose ids the client's table has not given yet.                         *)
Disputed(c) ==
    IF ~Stale(c) THEN {}
    ELSE {u.uuid : u \in (table[c].users \ stored.users) \union (stored.users \ table[c].users)}
           \union {g[2] : g \in {h \in given : h[1] > table[c].auto_increment}}

Keeps(c, t) ==
    /\ table' = [table EXCEPT ![c] = t]
    /\ is_valid' = IF Stale(c) THEN is_valid ELSE is_valid \union {c}
Locks(c) == writers' = [writers EXCEPT ![c] = @ + 1] /\ is_locked' = is_locked \union {c}

(* nexus_vfs_release_user_table of what this operation locked.             *)
LocksAndReleases(c) == UNCHANGED writers /\ is_locked' = is_locked \ {c}

\* Mutant: the lock of the file stays.
Releases_never(c) == UNCHANGED <<writers, is_locked>>

Releases(c) == writers' = [writers EXCEPT ![c] = @ - 1] /\ is_locked' = is_locked \ {c}
-----------------------------------------------------------------------------
(* ecall_user_add, until the profile is created.                           *)
ecall_user_add(c, name, text) ==
    LET t    == acquire_user_table(c)
        uuid == next_uuid + 1
    IN
    /\ Acquire(c)
    /\ \/ /\ Taken(t, name, text)
          /\ Keeps(c, t) /\ LocksAndReleases(c)
          /\ UNCHANGED <<op, next_uuid, raced>>
       \/ /\ ~Taken(t, name, text) /\ uuid <= MaxUuid
          /\ Keeps(c, usertable_add(t, uuid, name, text)) /\ Locks(c)
          /\ next_uuid' = uuid /\ raced' = raced \union Disputed(c)
          /\ op' = [op EXCEPT ![c] = [pc |-> "profile", kind |-> "added", user |-> uuid]]
    /\ UNCHANGED <<stored, profiles, stuck, failures, given, done, deferred, ghosts, leaked>>

(* abac_create_user_profile.                                               *)
create_user_profile(c) ==
    /\ op[c].pc = "profile"
    /\ profiles' = profiles \union {op[c].user}
    /\ op' = [op EXCEPT ![c].pc = "flush"]
    /\ UNCHANGED <<stored, caches, next_uuid, failures, history>>

(* The profile cannot be stored: its file is empty, which is a new profile *)
(* to the next reader, or torn.  The user stays in the table in memory.    *)
ProfileFails(c) ==
    LET user == op[c].user IN
    /\ op[c].pc = "profile" /\ Fail
    /\ \/ profiles' = profiles \union {user} /\ UNCHANGED ghosts
       \/ ghosts' = ghosts \union {user} /\ UNCHANGED profiles
    /\ op' = [op EXCEPT ![c] = NoOp]
    /\ Releases(c)
    /\ UNCHANGED <<stored, table, is_valid, waiting, stuck, next_uuid,
                   given, done, deferred, leaked, raced>>

(* nexus_vfs_flush_user_table: with another writer counted the table stays *)
(* in the buffer, and the lock of the file with it.                        *)
Given(t) == given \union {<<u.user_id, u.uuid>> : u \in t.users}

flush_user_table(c) ==
    LET o == op[c] IN
    /\ o.pc = "flush"
    /\ IF writers[c] > 1
       THEN deferred' = deferred \union {o.user} /\ UNCHANGED <<stored, is_valid, given>>
       ELSE /\ stored' = table[c] /\ given' = Given(stored')
            /\ is_valid' = {c} /\ UNCHANGED deferred
    /\ Releases(c)
    /\ done' = [done EXCEPT ![o.user] = o.kind]
    /\ op' = [op EXCEPT ![c] = IF o.kind = "removed" THEN [o EXCEPT !.pc = "delete"] ELSE NoOp]
    /\ UNCHANGED <<profiles, table, waiting, stuck, next_uuid, failures, ghosts, leaked, raced>>

(* The file cannot be written, or it can and the close fails.              *)
\* Mutant: a removal goes on to delete the profile.
FlushFails_ignored(c) ==
    /\ op[c].pc = "flush" /\ writers[c] = 1 /\ Fail
    /\ stored' \in {stored, table[c]} /\ given' = Given(stored')
    /\ is_valid' = IF stored' = stored THEN is_valid \ {c} ELSE {}
    /\ Releases(c)
    /\ op' = [op EXCEPT ![c] = IF @.kind = "removed" THEN [@ EXCEPT !.pc = "delete"] ELSE NoOp]
    /\ UNCHANGED <<profiles, table, waiting, stuck, next_uuid, done, deferred, ghosts, leaked, raced>>

FlushFails(c) ==
    /\ op[c].pc = "flush" /\ writers[c] = 1 /\ Fail
    /\ stored' \in {stored, table[c]} /\ given' = Given(stored')
    /\ is_valid' = IF stored' = stored THEN is_valid \ {c} ELSE {}
    /\ Releases(c)
    /\ op' = [op EXCEPT ![c] = NoOp]
    /\ UNCHANGED <<profiles, table, waiting, stuck, next_uuid, done, deferred, ghosts, leaked, raced>>
-----------------------------------------------------------------------------
Removes(c, t, user) ==
    /\ Keeps(c, usertable_remove(t, user)) /\ Locks(c)
    /\ op' = [op EXCEPT ![c] = [pc |-> "flush", kind |-> "removed", user |-> user.uuid]]
    /\ done' = [done EXCEPT ![user.uuid] = "nothing"]
    /\ raced' = raced \union Disputed(c)
    /\ UNCHANGED <<stuck, leaked>>

(* An unknown name returns without a release.                              *)
ecall_user_remove_username(c, name) ==
    LET t == acquire_user_table(c) IN
    /\ Acquire(c)
    /\ \/ \E user \in find_name(t, name) : Removes(c, t, user)
       \/ /\ find_name(t, name) = {}
          /\ Keeps(c, t) /\ Locks(c)
          /\ leaked' = leaked \union {c}
          /\ stuck' = IF Stale(c) THEN stuck \union {c} ELSE stuck
          /\ UNCHANGED <<op, done, raced>>
    /\ UNCHANGED <<stored, profiles, next_uuid, failures, given, deferred, ghosts>>

ecall_user_remove_pubkey(c, text) ==
    LET t     == acquire_user_table(c)
        found == find_pubkey_hash(t, crypto_hash_pubkey(text))
    IN
    /\ Acquire(c)
    /\ \/ \E user \in found : Removes(c, t, user)
       \/ /\ found = {}
          /\ Keeps(c, t) /\ LocksAndReleases(c)
          /\ UNCHANGED <<op, done, stuck, leaked, raced>>
    /\ UNCHANGED <<stored, profiles, next_uuid, failures, given, deferred, ghosts>>

(* abac_del_user_profile, whose failure is not noticed.                    *)
del_user_profile(c) ==
    /\ op[c].pc = "delete"
    /\ profiles' \in {profiles, profiles \ {op[c].user}}
    /\ op' = [op EXCEPT ![c] = NoOp]
    /\ UNCHANGED <<stored, caches, next_uuid, failures, history>>

(* ecall_user_find_username, _find_pubkey and _ls acquire the table to     *)
(* read it: they wait for no lock, but their release gives back one that   *)
(* an operation before them left.  Not when the table is read again for    *)
(* it: the reload clears is_locked, and the lock stays.                    *)
ecall_user_find(c) ==
    /\ Idle(c) /\ c \notin waiting
    /\ Keeps(c, acquire_user_table(c))
    /\ IF c \in is_locked /\ c \in is_valid THEN Releases(c)
       ELSE is_locked' = is_locked \ {c} /\ UNCHANGED writers
    /\ UNCHANGED <<stored, profiles, waiting, stuck, op, next_uuid, failures, history>>

(* The client dies: also when the file of the profile cannot be created,   *)
(* and abac_create_user_profile frees the NULL it got.                     *)
Crash(c) ==
    /\ Fail
    /\ table' = [table EXCEPT ![c] = nexus_usertable_create]
    /\ is_valid' = is_valid \ {c} /\ is_locked' = is_locked \ {c}
    /\ waiting' = waiting \ {c} /\ stuck' = stuck \ {c}
    /\ writers' = [writers EXCEPT ![c] = 0]
    /\ op' = [op EXCEPT ![c] = NoOp]
    /\ leaked' = leaked \ {c}
    /\ UNCHANGED <<stored, profiles, next_uuid, given, done, deferred, ghosts, raced>>

Next == \E c \in Clients :
    \/ Stat(c)
    \/ \E name \in Names, text \in Texts : ecall_user_add(c, name, text)
    \/ \E name \in Names : ecall_user_remove_username(c, name)
    \/ \E text \in Texts : ecall_user_remove_pubkey(c, text)
    \/ create_user_profile(c) \/ ProfileFails(c)
    \/ flush_user_table(c) \/ FlushFails(c) \/ del_user_profile(c)
    \/ ecall_user_find(c)
    \/ Crash(c)

Spec == Init /\ [][Next]_vars
-----------------------------------------------------------------------------
User  == [uuid : Uuids, user_id : 1 .. MaxUuid, name : Names, pubkey_hash : Texts]
Table == [users : SUBSET User, auto_increment : 0 .. MaxUuid, user_count : 0 .. MaxUuid]

(* A table as the code means it: user_count is the length of the list, and *)
(* no name, key or id is there twice.                                      *)
WellFormed(t) ==
    /\ t.user_count = Cardinality(t.users)
    /\ \A u, v \in t.users : u # v => /\ u.name # v.name /\ u.pubkey_hash # v.pubkey_hash
                                      /\ u.user_id # v.user_id
    /\ \A u \in t.users : u.user_id <= t.auto_increment

(* Types; the tables in the file and in memory are well formed, and a      *)
(* client that has the file locked between operations has the latest one,  *)
(* unless it waited for the lock and left it locked.                       *)
TypeOK ==
    /\ stored.users \subseteq User /\ WellFormed(stored)
    /\ \A c \in Clients : table[c].users \subseteq User /\ WellFormed(table[c])
    /\ profiles \subseteq Uuids
    /\ waiting \subseteq Clients /\ stuck \subseteq leaked
    /\ is_valid \subseteq Clients /\ is_locked \subseteq Clients /\ leaked \subseteq Clients
    /\ writers \in [Clients -> 0 .. MaxWriters]
    /\ \A c \in Clients : writers[c] > 0 => FileIsFree(c) /\ (Idle(c) => c \in is_valid \union stuck)
    /\ op \in [Clients -> [pc : {"idle", "profile", "flush", "delete"},
                           kind : {"none", "added", "removed"}, user : Uuids \union {0}]]
    /\ next_uuid \in 0 .. MaxUuid /\ failures \in 0 .. MaxFailures
    /\ given \subseteq (Uuids \X Uuids) /\ done \in [Uuids -> {"nothing", "added", "removed"}]
    /\ deferred \subseteq Uuids /\ ghosts \subseteq Uuids /\ raced \subseteq Uuids

StoredUuids == {u.uuid : u \in stored.users}

(* Who is in the table has a profile, through all failures: the profile    *)
(* comes before the entry and goes after it.  The exceptions are users     *)
(* whose profile could not be stored, who stay in the table in memory and  *)
(* are stored with the next one (users.c:35), removals whose flush was     *)
(* left to a later one (buffer_layer.c:334), and users that another client *)
(* removed while this one waited for the lock (metadata.c:363-370).        *)
UsersHaveProfiles == StoredUuids \subseteq profiles \union ghosts \union deferred \union raced

(* What the owner was told is true: a user that was added is in the file,  *)
(* one that was removed is not, whatever the other clients did and         *)
(* whatever failed since.  The exceptions are operations after the removal *)
(* of an unknown name (users.c:73), whose flush stays in memory, and a     *)
(* user that changed while another client, which had compared its copy     *)
(* before and stored it after, waited for the lock (metadata.c:363-370).   *)
AcknowledgedIsStored ==
    \A u \in Uuids \ (deferred \union raced) :
        /\ done[u] = "added"   => u \in StoredUuids
        /\ done[u] = "removed" => u \notin StoredUuids

(* An id that a user once had is never another user's, after removals,     *)
(* failures and crashes of several clients; except the ids that were given *)
(* while a client waited for the lock (metadata.c:363-370), whose older    *)
(* auto_increment gives them again.                                        *)
IdsAreNotReused ==
    \A g, h \in given : g[1] = h[1] /\ {g[2], h[2]} \intersect raced = {} => g[2] = h[2]

(* The file of the table is locked only while an operation runs, unless    *)
(* its client removed an unknown name.                                     *)
LockGivenBack == \A c \in Clients : Idle(c) /\ c \notin leaked => writers[c] = 0
=============================================================================

---------------------------- MODULE Users_proofs ----------------------------
(***************************************************************************)
(* Proofs about Users for every set of clients, names and keys and every   *)
(* bound: the tables stay well formed, what the owner was told is in the   *)
(* file, no id is given twice, the profile of a stored user exists, and    *)
(* the lock of the table's file is given back, through any interleaving of *)
(* the clients' operations, their failures and their crashes.  A client    *)
(* that goes on with the copy it had before its wait for the lock disagrees*)
(* with the file on the users of Disputed; everything is proved of the     *)
(* other users.                                                            *)
(***************************************************************************)
EXTENDS Users, FiniteSetTheorems, TLAPS

UuidsOf(t) == {u.uuid : u \in t.users}
Busy(c)    == op[c].pc \in {"profile", "flush"}

TableType == [users : SUBSET User, auto_increment : Nat, user_count : Nat]

Ops == [pc : {"idle", "profile", "flush", "delete"}, kind : {"none", "added", "removed"},
        user : Uuids \union {0}]

(* A table is well formed with what is known of its users: each has one    *)
(* entry, made with a uuid and an id that were given before.               *)
Sound(t, next) ==
    /\ t \in TableType
    /\ IsFiniteSet(t.users)
    /\ t.user_count = Cardinality(t.users)
    /\ \A u, v \in t.users : u # v => /\ u.name # v.name /\ u.pubkey_hash # v.pubkey_hash
                                      /\ u.user_id # v.user_id /\ u.uuid # v.uuid
    /\ t.auto_increment <= next
    /\ \A u \in t.users : u.user_id <= t.auto_increment /\ u.uuid <= next

Types ==
    /\ Sound(stored, next_uuid)
    /\ table \in [Clients -> TableType] /\ \A c \in Clients : Sound(table[c], next_uuid)
    /\ profiles \subseteq Uuids
    /\ is_valid \subseteq Clients /\ is_locked \subseteq Clients /\ leaked \subseteq Clients
    /\ waiting \subseteq Clients /\ stuck \subseteq Clients
    /\ writers \in [Clients -> 0 .. MaxWriters]
    /\ op \in [Clients -> Ops]
    /\ next_uuid \in 0 .. MaxUuid /\ failures \in 0 .. MaxFailures
    /\ given \subseteq (Uuids \X Uuids) /\ done \in [Uuids -> {"nothing", "added", "removed"}]
    /\ deferred \subseteq Uuids /\ ghosts \subseteq Uuids /\ raced \subseteq Uuids

(* Who has the file locked is alone, has one lock for its operation beyond *)
(* those it leaked and, between operations, has the latest table unless it *)
(* is stuck.  A table that is older than the file has one writer.          *)
Locking ==
    \A c \in Clients :
        /\ writers[c] > 0 => FileIsFree(c) /\ (c \in is_valid \/ Busy(c) \/ c \in stuck)
        /\ Busy(c) /\ c \notin is_valid => writers[c] = 1
        /\ c \in stuck => Idle(c) /\ c \in leaked /\ c \notin waiting /\ writers[c] > 0
        /\ c \in stuck /\ c \in is_locked => c \notin is_valid
        /\ c \in waiting => Idle(c)
        /\ c \in is_locked => writers[c] > 0
        /\ Busy(c) => writers[c] > 0
        /\ c \notin leaked => writers[c] = IF Busy(c) THEN 1 ELSE 0

(* What an operation has done to its client's table so far.                *)
Running ==
    \A c \in Clients :
        /\ ~Idle(c) => op[c].user \in 1 .. next_uuid
        /\ op[c].pc = "profile" => op[c].kind = "added"
        /\ op[c].pc = "flush" => op[c].kind \in {"added", "removed"}
        /\ op[c].pc = "delete" => op[c].kind = "removed"
        /\ Busy(c) /\ op[c].kind = "added" => op[c].user \in UuidsOf(table[c])
        /\ Busy(c) /\ op[c].kind = "removed" => op[c].user \notin UuidsOf(table[c])

(* A table that may be written to the file next, or is in it, agrees with  *)
(* every id that was in the file and with every answer the owner got, for  *)
(* the users outside R.                                                    *)
CurrentBut(t, R) ==
    /\ \A g \in given : g[2] \notin R => g[1] <= t.auto_increment
    /\ \A u \in t.users, g \in given :
           g[1] = u.user_id /\ g[2] \notin R /\ u.uuid \notin R => g[2] = u.uuid
    /\ \A c \in Clients : op[c].pc = "delete" /\ op[c].user \notin deferred \union R
                            => op[c].user \notin UuidsOf(t)
    /\ \A u \in Uuids \ (deferred \union R) : /\ done[u] = "added"   => u \in UuidsOf(t)
                                              /\ done[u] = "removed" => u \notin UuidsOf(t)

Current(t) == CurrentBut(t, raced)

History ==
    /\ \A u \in stored.users : <<u.user_id, u.uuid>> \in given
    /\ \A u \in Uuids : u > next_uuid => done[u] = "nothing"

(* The clients whose table may be written as it is.                        *)
Live(c) == c \in is_valid \/ Busy(c)

Tables == Current(stored) /\ \A c \in Clients : Live(c) => Current(table[c])

Covered(c) == profiles \union ghosts \union deferred \union raced
                \union (IF op[c].pc = "profile" THEN {op[c].user} ELSE {})

Profiles == \A c \in Clients : Live(c) => UuidsOf(table[c]) \subseteq Covered(c)

IInv == /\ Types /\ Locking /\ Running /\ History /\ Tables /\ Profiles
        /\ UsersHaveProfiles /\ IdsAreNotReused
-----------------------------------------------------------------------------
LEMMA UuidsMember ==
    ASSUME NEW t, NEW x
    PROVE  x \in UuidsOf(t) <=> \E u \in t.users : u.uuid = x
BY DEF UuidsOf

(* The tables that the operations of user.c make.                          *)
LEMMA CreateSound ==
    ASSUME NEW n \in Nat
    PROVE  Sound(nexus_usertable_create, n) /\ UuidsOf(nexus_usertable_create) = {}
BY FS_EmptySet DEF Sound, TableType, nexus_usertable_create, UuidsOf

LEMMA AddSound ==
    ASSUME NEW n \in Nat, n + 1 <= MaxUuid, NEW t, Sound(t, n),
           NEW name \in Names, NEW text \in Texts, ~Taken(t, name, text)
    PROVE  LET t2 == usertable_add(t, n + 1, name, text) IN
           /\ Sound(t2, n + 1)
           /\ UuidsOf(t2) = UuidsOf(t) \union {n + 1}
           /\ t2.auto_increment = t.auto_increment + 1
           /\ \A u \in t2.users : \/ u \in t.users
                                  \/ u.user_id = t2.auto_increment /\ u.uuid = n + 1
<1> DEFINE user == [uuid |-> n + 1, user_id |-> t.auto_increment + 1, name |-> name,
                    pubkey_hash |-> nexus_hash_generate(text)]
           t2   == usertable_add(t, n + 1, name, text)
<1>1. t \in TableType /\ IsFiniteSet(t.users) /\ t.users \subseteq User
  BY DEF Sound, TableType
<1>2. user \in User
  BY <1>1, BoundsAssumption DEF Sound, TableType, User, Uuids, nexus_hash_generate
<1>3. /\ t2.users = t.users \union {user}
      /\ t2.auto_increment = t.auto_increment + 1 /\ t2.user_count = t.user_count + 1
      /\ t2 \in TableType
  BY <1>1, <1>2 DEF usertable_add, TableType
<1>4. user \notin t.users
  BY DEF Sound
<1>5. IsFiniteSet(t2.users) /\ t2.user_count = Cardinality(t2.users)
  BY <1>1, <1>3, <1>4, FS_AddElement DEF Sound
<1>6. \A u \in t.users : /\ u.name # user.name /\ u.pubkey_hash # user.pubkey_hash
                         /\ u.user_id < user.user_id /\ u.uuid < user.uuid
  <2>1. \A u \in t.users : u.name # name /\ u.pubkey_hash # nexus_hash_generate(text)
    BY DEF Taken, find_name, find_pubkey_hash
  <2>2. \A u \in t.users : u.user_id < t.auto_increment + 1 /\ u.uuid < n + 1
    BY <1>1 DEF Sound, TableType, User, Uuids
  <2> QED
    BY <2>1, <2>2
<1>7. Sound(t2, n + 1)
  <2>1. \A u, v \in t2.users : u # v => /\ u.name # v.name /\ u.pubkey_hash # v.pubkey_hash
                                        /\ u.user_id # v.user_id /\ u.uuid # v.uuid
    BY <1>1, <1>2, <1>3, <1>6 DEF Sound, User, Uuids
  <2>2. \A u \in t2.users : u.user_id <= t2.auto_increment /\ u.uuid <= n + 1
    BY <1>1, <1>3, <1>6 DEF Sound, TableType, User, Uuids
  <2>3. t2.auto_increment <= n + 1
    BY <1>1, <1>3 DEF Sound, TableType
  <2> QED
    BY <1>3, <1>5, <2>1, <2>2, <2>3 DEF Sound
<1>8. UuidsOf(t2) = UuidsOf(t) \union {n + 1}
  <2>2. user.uuid = n + 1
    OBVIOUS
  <2> HIDE DEF t2, user
  <2>1. \A x : x \in UuidsOf(t2) <=> (x \in UuidsOf(t) \/ x = user.uuid)
    BY <1>3, UuidsMember
  <2> QED
    BY <2>1, <2>2
<1>9. \A u \in t2.users : \/ u \in t.users
                          \/ u.user_id = t2.auto_increment /\ u.uuid = n + 1
  BY <1>3
<1> QED
  BY <1>3, <1>7, <1>8, <1>9

LEMMA RemoveSound ==
    ASSUME NEW n \in Nat, NEW t, Sound(t, n), NEW user \in t.users
    PROVE  LET t2 == usertable_remove(t, user) IN
           /\ Sound(t2, n)
           /\ UuidsOf(t2) = UuidsOf(t) \ {user.uuid}
           /\ t2.users \subseteq t.users
           /\ t2.auto_increment = t.auto_increment
<1> DEFINE t2 == usertable_remove(t, user)
<1>1. t \in TableType /\ IsFiniteSet(t.users)
  BY DEF Sound
<1>2. /\ t2.users = t.users \ {user} /\ t2.auto_increment = t.auto_increment
      /\ t2.user_count = t.user_count - 1
  BY <1>1 DEF usertable_remove, TableType
<1>3. /\ IsFiniteSet(t2.users) /\ Cardinality(t2.users) = Cardinality(t.users) - 1
      /\ Cardinality(t2.users) \in Nat
  BY <1>1, <1>2, FS_RemoveElement, FS_CardinalityType
<1>4. t2 \in TableType
  <2>1. t.user_count - 1 \in Nat
    BY <1>3 DEF Sound
  <2> QED
    BY <1>1, <2>1 DEF usertable_remove, TableType
<1>5. Sound(t2, n)
  BY <1>1, <1>2, <1>3, <1>4 DEF Sound
<1>6. UuidsOf(t2) = UuidsOf(t) \ {user.uuid}
  <2>1. \A x : x \in UuidsOf(t2) <=> x \in UuidsOf(t) /\ x # user.uuid
    BY <1>2, UuidsMember DEF Sound
  <2> HIDE DEF t2
  <2> QED
    BY <2>1
<1> QED
  BY <1>2, <1>5, <1>6

LEMMA SoundLater ==
    ASSUME NEW n \in Nat, NEW m \in Nat, n <= m, NEW t, Sound(t, n)
    PROVE  Sound(t, m)
BY DEF Sound, TableType, User, Uuids
-----------------------------------------------------------------------------
LEMMA RunningUser ==
    ASSUME IInv, NEW c \in Clients, op[c].pc # "idle"
    PROVE  op[c].user \in Uuids /\ op[c].user \in 1 .. next_uuid
<1>1. op[c].user \in 1 .. next_uuid /\ next_uuid \in 0 .. MaxUuid
  BY DEF IInv, Types, Running, Idle
<1> QED
  BY <1>1, BoundsAssumption DEF Uuids

(* The table that an operation starts from agrees with the file but for    *)
(* the users that are raced then.                                          *)
LEMMA Acquired ==
    ASSUME IInv, NEW c \in Clients, Idle(c)
    PROVE  LET t == acquire_user_table(c)
               R == raced \union Disputed(c)
           IN
           /\ Sound(t, next_uuid) /\ t \in TableType
           /\ R \subseteq Uuids
           /\ CurrentBut(t, R)
           /\ UuidsOf(t) \subseteq profiles \union ghosts \union deferred \union R
<1>1. /\ Sound(stored, next_uuid) /\ Sound(table[c], next_uuid)
      /\ Current(stored) /\ (c \in is_valid => Current(table[c]))
  BY DEF IInv, Types, Tables, Live
<1>2. UuidsOf(stored) \subseteq profiles \union ghosts \union deferred \union raced
  BY DEF IInv, UsersHaveProfiles, StoredUuids, UuidsOf
<1>3. c \in is_valid => UuidsOf(table[c]) \subseteq profiles \union ghosts \union deferred \union raced
  BY DEF IInv, Profiles, Covered, Idle, Live
<1>4. CASE ~Stale(c)
  <2>1. Disputed(c) = {}
    BY <1>4 DEF Disputed
  <2>2. raced \union Disputed(c) = raced /\ raced \subseteq Uuids
    BY <2>1 DEF IInv, Types
  <2>3. CASE c \in is_valid
    <3>1. acquire_user_table(c) = table[c]
      BY <2>3 DEF acquire_user_table
    <3> QED
      BY <1>1, <1>3, <2>2, <2>3, <3>1 DEF Current, Sound
  <2>4. CASE c \notin is_valid
    <3>1. acquire_user_table(c) = stored
      BY <1>4, <2>4 DEF acquire_user_table, Stale
    <3> QED
      BY <1>1, <1>2, <2>2, <3>1 DEF Current, Sound
  <2> QED
    BY <2>3, <2>4
<1>5. CASE Stale(c)
  <2> DEFINE t == table[c]
             D == Disputed(c)
             R == raced \union D
  <2>1. acquire_user_table(c) = t
    BY <1>5 DEF acquire_user_table, Stale
  <2>2. /\ \A u \in t.users : u.uuid \notin D => u \in stored.users
        /\ \A u \in stored.users : u.uuid \notin D => u \in t.users
        /\ \A g \in given : g[2] \notin D => ~(g[1] > t.auto_increment)
    BY <1>5 DEF Disputed
  <2>3. D \subseteq Uuids
    BY <1>1, <1>5 DEF Disputed, IInv, Types, Sound, TableType, User, Uuids
  <2>4. \A g \in given : g[1] \in Nat /\ t.auto_increment \in Nat
    BY <1>1 DEF IInv, Types, Sound, TableType, Uuids
  <2>5. \A g \in given : g[2] \notin R => g[1] <= t.auto_increment
    BY <2>2, <2>4
  <2> HIDE DEF D, t
  <2>6. \A x : x \notin D => (x \in UuidsOf(t) <=> x \in UuidsOf(stored))
    BY <2>2, UuidsMember
  <2>7. \A u \in t.users, g \in given :
           g[1] = u.user_id /\ g[2] \notin R /\ u.uuid \notin R => g[2] = u.uuid
    BY <1>1, <2>2 DEF Current, CurrentBut
  <2>8. CurrentBut(t, R)
    BY <1>1, <2>5, <2>6, <2>7 DEF Current, CurrentBut
  <2>9. UuidsOf(t) \subseteq profiles \union ghosts \union deferred \union R
    BY <1>2, <2>6
  <2>10. R \subseteq Uuids /\ Sound(t, next_uuid) /\ t \in TableType
    BY <1>1, <2>3 DEF IInv, Types, Sound, t
  <2> QED
    BY <2>1, <2>8, <2>9, <2>10 DEF D
<1> QED
  BY <1>4, <1>5

LEMMA CurrentMore ==
    ASSUME NEW t, NEW R, NEW S, R \subseteq S, CurrentBut(t, R)
    PROVE  CurrentBut(t, S)
BY DEF CurrentBut

(* Without a race nothing is added to raced.                               *)
LEMMA AcquiredLive ==
    ASSUME IInv, NEW c \in Clients, Idle(c), ~Stale(c)
    PROVE  LET t == acquire_user_table(c) IN
           /\ Current(t)
           /\ UuidsOf(t) \subseteq profiles \union ghosts \union deferred \union raced
<1>1. Disputed(c) = {} /\ raced \union Disputed(c) = raced
  BY DEF Disputed
<1> QED
  BY <1>1, Acquired DEF Current

LEMMA InitIInv == Init => IInv
<1> SUFFICES ASSUME Init PROVE IInv
  OBVIOUS
<1>1. Types
  BY CreateSound, BoundsAssumption
  DEF Init, Types, Sound, TableType, Ops, NoOp, Uuids
<1>2. UuidsOf(stored) = {} /\ stored.users = {} /\ stored.auto_increment = 0
  BY CreateSound, BoundsAssumption DEF Init, nexus_usertable_create
<1>3. Locking /\ Running
  BY DEF Init, Locking, Running, NoOp, Idle, Busy
<1>4. History /\ IdsAreNotReused
  BY <1>2 DEF Init, History, IdsAreNotReused
<1>5. Tables /\ Profiles
  BY <1>2, CreateSound DEF Init, Tables, Current, CurrentBut, NoOp, Profiles, Live, Busy
<1>6. UsersHaveProfiles
  BY <1>2 DEF UsersHaveProfiles, StoredUuids, UuidsOf
<1> QED
  BY <1>1, <1>3, <1>4, <1>5, <1>6 DEF IInv

(* An operation that only reads the table, whatever it does to the lock.   *)
LEMMA KeepIInv ==
    ASSUME IInv, NEW c \in Clients, Idle(c), Keeps(c, acquire_user_table(c)),
           UNCHANGED <<stored, profiles, op, next_uuid, failures, given, done, deferred, ghosts, raced>>,
           writers' \in [Clients -> 0 .. MaxWriters],
           waiting' \subseteq Clients, stuck' \subseteq Clients,
           is_locked' \subseteq Clients, leaked' \subseteq Clients, Locking'
    PROVE  IInv'
<1> DEFINE t == acquire_user_table(c)
<1>1. /\ table' = [table EXCEPT ![c] = t]
      /\ is_valid' = IF Stale(c) THEN is_valid ELSE is_valid \union {c}
  BY DEF Keeps
<1>2. /\ Sound(t, next_uuid) /\ t \in TableType
      /\ ~Stale(c) => Current(t) /\ UuidsOf(t) \subseteq profiles \union ghosts \union deferred \union raced
  BY Acquired, AcquiredLive
<1> HIDE DEF t
<1>3. Types'
  BY <1>1, <1>2 DEF IInv, Types
<1>4. Running'
  BY <1>1, <1>2 DEF IInv, Types, Running, Busy, Idle
<1>5. History' /\ UsersHaveProfiles' /\ IdsAreNotReused'
  BY DEF IInv, History, UsersHaveProfiles, IdsAreNotReused, StoredUuids
<1>a. \A d \in Clients : Live(d)' => IF d = c THEN ~Stale(c) ELSE Live(d)
  BY <1>1 DEF Live, Busy, Idle, Stale
<1>b. \A d \in Clients : table'[d] = IF d = c THEN t ELSE table[d]
  BY <1>1 DEF IInv, Types
<1>6. Tables'
  BY <1>2, <1>a, <1>b DEF IInv, Types, Tables, Current, CurrentBut
<1>7. Profiles'
  BY <1>2, <1>a, <1>b DEF IInv, Types, Profiles, Covered, Idle
<1> QED
  BY <1>3, <1>4, <1>5, <1>6, <1>7 DEF IInv

LEMMA FindIInv ==
    ASSUME IInv, NEW c \in Clients, ecall_user_find(c)
    PROVE  IInv'
<1>1. /\ writers' \in [Clients -> 0 .. MaxWriters]
      /\ is_locked' \subseteq Clients /\ leaked' \subseteq Clients
      /\ waiting' \subseteq Clients /\ stuck' \subseteq Clients
  BY BoundsAssumption DEF ecall_user_find, history, IInv, Types, Locking, Releases
<1>2. ~Stale(c) /\ is_valid' = is_valid \union {c}
  BY DEF ecall_user_find, Keeps, Stale
<1>3. Locking'
  <2>1. CASE c \in is_locked /\ c \in is_valid
    <3>1. c \notin stuck /\ writers[c] > 0
      BY <2>1 DEF IInv, Locking
    <3> QED
      BY <1>2, <2>1, <3>1, BoundsAssumption
      DEF ecall_user_find, history, IInv, Types, Locking, Releases, FileIsFree, Busy, Idle
  <2>2. CASE ~(c \in is_locked /\ c \in is_valid)
    BY <1>2, <2>2, BoundsAssumption
    DEF ecall_user_find, history, IInv, Types, Locking, FileIsFree, Busy, Idle
  <2> QED
    BY <2>1, <2>2
<1> QED
  BY <1>1, <1>3, KeepIInv DEF ecall_user_find, history

(* The comparison before the wait.                                         *)
LEMMA StatIInv ==
    ASSUME IInv, NEW c \in Clients, Stat(c)
    PROVE  IInv'
<1>1. /\ Idle(c) /\ c \in is_valid \ stuck /\ waiting' = waiting \union {c}
      /\ UNCHANGED <<stored, profiles, table, is_valid, stuck, is_locked, writers, op, next_uuid,
                     failures, given, done, deferred, ghosts, leaked, raced>>
  BY DEF Stat, history
<1>2. Types' /\ Locking'
  BY <1>1 DEF IInv, Types, Locking, FileIsFree, Busy, Idle
<1>3. Running' /\ History' /\ UsersHaveProfiles' /\ IdsAreNotReused'
  BY <1>1 DEF IInv, Running, Busy, Idle, History, UsersHaveProfiles, IdsAreNotReused, StoredUuids, UuidsOf
<1>4. Tables' /\ Profiles'
  BY <1>1 DEF IInv, Tables, Current, CurrentBut, Profiles, Covered, Live, Busy, UuidsOf
<1> QED
  BY <1>2, <1>3, <1>4 DEF IInv

(* ecall_user_add of a name or key that is there.                          *)
LEMMA ReadIInv ==
    ASSUME IInv, NEW c \in Clients, Acquire(c), Keeps(c, acquire_user_table(c)),
           LocksAndReleases(c),
           UNCHANGED <<stored, profiles, stuck, op, next_uuid, failures, history>>
    PROVE  IInv'
<1>1. Locking'
  BY BoundsAssumption
  DEF Acquire, history, Keeps, Stale, IInv, Types, Locking, LocksAndReleases, FileIsFree, Busy, Idle
<1>2. /\ writers' \in [Clients -> 0 .. MaxWriters]
      /\ waiting' \subseteq Clients /\ stuck' \subseteq Clients
      /\ is_locked' \subseteq Clients /\ leaked' \subseteq Clients
  BY DEF Acquire, IInv, Types, LocksAndReleases, history
<1> QED
  BY <1>1, <1>2, KeepIInv DEF Acquire, history

LEMMA UnknownNameIInv ==
    ASSUME IInv, NEW c \in Clients, Acquire(c), Keeps(c, acquire_user_table(c)), Locks(c),
           leaked' = leaked \union {c},
           stuck' = IF Stale(c) THEN stuck \union {c} ELSE stuck,
           UNCHANGED <<stored, profiles, op, next_uuid, failures, given, done, deferred, ghosts, raced>>
    PROVE  IInv'
<1>1. Locking'
  BY BoundsAssumption
  DEF Acquire, Keeps, Stale, IInv, Types, Locking, Locks, FileIsFree, Busy, Idle
<1>2. /\ writers' \in [Clients -> 0 .. MaxWriters]
      /\ waiting' \subseteq Clients /\ stuck' \subseteq Clients
      /\ is_locked' \subseteq Clients /\ leaked' \subseteq Clients
  BY BoundsAssumption DEF Acquire, IInv, Types, Locks
<1> QED
  BY <1>1, <1>2, KeepIInv DEF Acquire
-----------------------------------------------------------------------------
(* ecall_user_add, when the name and the key are new.                      *)
LEMMA AddIInv ==
    ASSUME IInv, NEW c \in Clients, NEW name \in Names, NEW text \in Texts,
           ecall_user_add(c, name, text)
    PROVE  IInv'
<1> DEFINE t    == acquire_user_table(c)
           uuid == next_uuid + 1
           t2   == usertable_add(t, uuid, name, text)
           R    == raced \union Disputed(c)
<1>0. /\ Acquire(c) /\ Idle(c) /\ FileIsFree(c) /\ writers[c] < MaxWriters
      /\ c \notin stuck /\ waiting' = waiting \ {c}
      /\ UNCHANGED <<stored, profiles, stuck, failures, given, done, deferred, ghosts, leaked>>
  BY DEF ecall_user_add, Acquire
<1>1. CASE Taken(t, name, text)
  BY <1>1, <1>0, ReadIInv DEF ecall_user_add, history
<1>2. CASE ~Taken(t, name, text)
  <2>1. /\ uuid <= MaxUuid /\ Keeps(c, t2) /\ Locks(c) /\ next_uuid' = uuid /\ raced' = R
        /\ op' = [op EXCEPT ![c] = [pc |-> "profile", kind |-> "added", user |-> uuid]]
    BY <1>2 DEF ecall_user_add
  <2>2. /\ table' = [table EXCEPT ![c] = t2]
        /\ is_valid' = IF Stale(c) THEN is_valid ELSE is_valid \union {c}
    BY <2>1 DEF Keeps
  <2>3. /\ Sound(t, next_uuid) /\ t \in TableType /\ R \subseteq Uuids /\ CurrentBut(t, R)
        /\ UuidsOf(t) \subseteq profiles \union ghosts \union deferred \union R
    BY <1>0, Acquired
  <2>4. next_uuid \in Nat /\ uuid \in Uuids
    BY <2>1, BoundsAssumption DEF IInv, Types, Uuids
  <2>5. /\ Sound(t2, uuid) /\ UuidsOf(t2) = UuidsOf(t) \union {uuid}
        /\ t2.auto_increment = t.auto_increment + 1
        /\ \A u \in t2.users : \/ u \in t.users
                               \/ u.user_id = t2.auto_increment /\ u.uuid = uuid
    BY <1>2, <2>1, <2>3, <2>4, AddSound
  <2>R. raced \subseteq R
    OBVIOUS
  <2> HIDE DEF t2, t, R
  <2>6. /\ t2 \in TableType
        /\ Sound(stored, uuid) /\ \A d \in Clients : Sound(table[d], uuid)
    BY <2>4, <2>5, SoundLater DEF IInv, Types, Sound
  <2>o. /\ \A d \in Clients \ {c} : op'[d] = op[d]
        /\ op'[c] = [pc |-> "profile", kind |-> "added", user |-> uuid]
        /\ op' \in [Clients -> Ops]
    BY <2>1, <2>4 DEF IInv, Types, Ops
  <2>7. Types'
    <3>1. table' \in [Clients -> TableType] /\ \A d \in Clients : Sound(table'[d], uuid)
      BY <2>2, <2>5, <2>6 DEF IInv, Types
    <3>2. writers' \in [Clients -> 0 .. MaxWriters] /\ is_locked' \subseteq Clients
      BY <1>0, <2>1, BoundsAssumption DEF IInv, Types, Locks
    <3> QED
      BY <1>0, <2>1, <2>2, <2>3, <2>4, <2>6, <2>o, <3>1, <3>2, BoundsAssumption DEF IInv, Types
  <2>8. Locking'
    BY <1>0, <2>1, <2>2, <2>o, BoundsAssumption
    DEF IInv, Types, Locking, Locks, FileIsFree, Busy, Idle, Stale
  <2>9. Running'
    BY <1>0, <2>1, <2>2, <2>4, <2>5, <2>o DEF IInv, Types, Running, Busy, Idle
  <2>10. History' /\ UsersHaveProfiles' /\ IdsAreNotReused'
    BY <1>0, <2>1, <2>4, <2>R DEF IInv, History, UsersHaveProfiles, IdsAreNotReused, StoredUuids, Uuids
  <2>l. \A d \in Clients \ {c} : (Live(d)' => Live(d)) /\ table'[d] = table[d]
    BY <2>2, <2>o DEF Live, Busy, IInv, Types
  <2>11. Tables'
    <3>1. Current(stored)'
      <4>1. CurrentBut(stored, R)
        BY <2>R, CurrentMore DEF IInv, Tables, Current
      <4> QED
        BY <1>0, <2>1, <2>o, <4>1 DEF Current, CurrentBut, UuidsOf
    <3>2. ASSUME NEW d \in Clients, Live(d)', d # c PROVE Current(table[d])'
      <4>1. Current(table[d])
        BY <2>l, <3>2 DEF IInv, Tables
      <4>2. CurrentBut(table[d], R)
        BY <2>R, <4>1, CurrentMore DEF Current
      <4> QED
        BY <1>0, <2>1, <2>o, <2>l, <3>2, <4>2 DEF Current, CurrentBut, UuidsOf
    <3>3. Current(table[c])'
      <4>1. table'[c] = t2
        BY <2>2 DEF IInv, Types
      <4>0. t.auto_increment \in Nat /\ \A g \in given : g[1] \in Nat
        BY <2>3 DEF IInv, Types, Sound, TableType, Uuids
      <4>2. \A g \in given : g[2] \notin R => g[1] <= t.auto_increment /\ g[1] <= t2.auto_increment
                                              /\ g[1] # t2.auto_increment
        BY <2>3, <2>5, <4>0 DEF CurrentBut
      <4>3. \A u \in t2.users, g \in given :
               g[1] = u.user_id /\ g[2] \notin R /\ u.uuid \notin R => g[2] = u.uuid
        BY <2>3, <2>5, <4>2 DEF CurrentBut
      <4>4. \A d \in Clients : op'[d].pc = "delete" /\ op'[d].user \notin deferred \union R
                                 => op'[d].user \notin UuidsOf(t2)
        BY <1>0, <2>o, <2>3, <2>4, <2>5 DEF CurrentBut, IInv, Types, Running, Idle
      <4>5. \A u \in Uuids \ (deferred \union R) : /\ done[u] = "added"   => u \in UuidsOf(t2)
                                                   /\ done[u] = "removed" => u \notin UuidsOf(t2)
        BY <2>3, <2>4, <2>5 DEF CurrentBut, IInv, Types, History
      <4> QED
        BY <1>0, <2>1, <4>1, <4>2, <4>3, <4>4, <4>5 DEF Current, CurrentBut
    <3> QED
      BY <3>1, <3>2, <3>3 DEF Tables
  <2>12. Profiles'
    <3>1. table'[c] = t2
      BY <2>2 DEF IInv, Types
    <3> QED
      BY <1>0, <2>1, <2>o, <2>l, <2>R, <2>3, <2>4, <2>5, <3>1 DEF IInv, Types, Profiles, Covered, Idle
  <2> QED
    BY <2>7, <2>8, <2>9, <2>10, <2>11, <2>12 DEF IInv
<1> QED
  BY <1>1, <1>2

(* abac_create_user_profile.                                               *)
LEMMA CreateProfileIInv ==
    ASSUME IInv, NEW c \in Clients, create_user_profile(c)
    PROVE  IInv'
<1>0. /\ op[c].pc = "profile" /\ op[c].user \in Uuids
      /\ op' = [op EXCEPT ![c].pc = "flush"]
      /\ profiles' = profiles \union {op[c].user}
      /\ UNCHANGED <<stored, table, is_valid, waiting, stuck, is_locked, writers, next_uuid, failures,
                     given, done, deferred, ghosts, leaked, raced>>
  BY RunningUser DEF create_user_profile, history, caches
<1>1. /\ \A d \in Clients \ {c} : op'[d] = op[d]
      /\ op'[c].pc = "flush" /\ op'[c].kind = op[c].kind /\ op'[c].user = op[c].user
      /\ op' \in [Clients -> Ops]
  BY <1>0 DEF IInv, Types, Ops
<1>2. Types'
  BY <1>0, <1>1 DEF IInv, Types
<1>3. Locking'
  BY <1>0, <1>1 DEF IInv, Types, Locking, FileIsFree, Busy, Idle
<1>4. Running'
  BY <1>0, <1>1 DEF IInv, Types, Running, Busy, Idle
<1>5. History' /\ UsersHaveProfiles' /\ IdsAreNotReused'
  BY <1>0 DEF IInv, History, UsersHaveProfiles, IdsAreNotReused, StoredUuids
<1>6. Tables'
  BY <1>0, <1>1 DEF IInv, Types, Tables, Current, CurrentBut, Live, Busy
<1>7. Profiles'
  BY <1>0, <1>1 DEF IInv, Types, Profiles, Covered, Live, Busy
<1> QED
  BY <1>2, <1>3, <1>4, <1>5, <1>6, <1>7 DEF IInv

LEMMA ProfileFailsIInv ==
    ASSUME IInv, NEW c \in Clients, ProfileFails(c)
    PROVE  IInv'
<1>0. /\ op[c].pc = "profile" /\ op[c].user \in Uuids
      /\ op' = [op EXCEPT ![c] = NoOp]
      /\ profiles' \union ghosts' = profiles \union ghosts \union {op[c].user}
      /\ profiles' \subseteq Uuids /\ ghosts' \subseteq Uuids
      /\ failures' \in 0 .. MaxFailures /\ Releases(c)
      /\ UNCHANGED <<stored, table, is_valid, waiting, stuck, next_uuid, given, done, deferred, leaked, raced>>
  <2>1. op[c].pc = "profile" /\ op[c].user \in Uuids
    BY RunningUser DEF ProfileFails
  <2>2. failures' \in 0 .. MaxFailures
    BY BoundsAssumption DEF ProfileFails, Fail, IInv, Types
  <2> QED
    BY <2>1, <2>2 DEF ProfileFails, IInv, Types
<1>1. /\ \A d \in Clients \ {c} : op'[d] = op[d]
      /\ op'[c].pc = "idle" /\ op' \in [Clients -> Ops]
  BY <1>0 DEF IInv, Types, Ops, NoOp
<1>2. Types'
  <2>1. writers' \in [Clients -> 0 .. MaxWriters] /\ is_locked' \subseteq Clients
    BY <1>0, BoundsAssumption DEF IInv, Types, Locking, Busy, Releases
  <2> QED
    BY <1>0, <1>1, <2>1 DEF IInv, Types
<1>3. Locking'
  BY <1>0, <1>1, BoundsAssumption DEF IInv, Types, Locking, Releases, FileIsFree, Busy, Idle
<1>4. Running'
  BY <1>0, <1>1 DEF IInv, Types, Running, Busy, Idle
<1>5. History' /\ UsersHaveProfiles' /\ IdsAreNotReused'
  BY <1>0 DEF IInv, History, UsersHaveProfiles, IdsAreNotReused, StoredUuids
<1>6. Tables'
  BY <1>0, <1>1 DEF IInv, Types, Tables, Current, CurrentBut, Live, Busy
<1>7. Profiles'
  BY <1>0, <1>1 DEF IInv, Types, Profiles, Covered, Live, Busy
<1> QED
  BY <1>2, <1>3, <1>4, <1>5, <1>6, <1>7 DEF IInv

(* abac_del_user_profile.                                                  *)
LEMMA DelProfileIInv ==
    ASSUME IInv, NEW c \in Clients, del_user_profile(c)
    PROVE  IInv'
<1>0. /\ op[c].pc = "delete" /\ op[c].user \in Uuids
      /\ op' = [op EXCEPT ![c] = NoOp]
      /\ profiles' \subseteq profiles /\ profiles \subseteq profiles' \union {op[c].user}
      /\ UNCHANGED <<stored, table, is_valid, waiting, stuck, is_locked, writers, next_uuid, failures,
                     given, done, deferred, ghosts, leaked, raced>>
  BY RunningUser DEF del_user_profile, history, caches
<1>1. /\ \A d \in Clients \ {c} : op'[d] = op[d]
      /\ op'[c].pc = "idle" /\ op' \in [Clients -> Ops]
  BY <1>0 DEF IInv, Types, Ops, NoOp
<1>2. Types'
  BY <1>0, <1>1 DEF IInv, Types
<1>3. Locking'
  BY <1>0, <1>1 DEF IInv, Types, Locking, FileIsFree, Busy, Idle
<1>4. Running'
  BY <1>0, <1>1 DEF IInv, Types, Running, Busy, Idle
<1>5. History' /\ IdsAreNotReused'
  BY <1>0 DEF IInv, History, IdsAreNotReused
<1>6. Tables'
  BY <1>0, <1>1 DEF IInv, Types, Tables, Current, CurrentBut, Live, Busy
<1>7. Profiles'
  BY <1>0, <1>1 DEF IInv, Types, Tables, Current, CurrentBut, Profiles, Covered, Live, Busy
<1>8. UsersHaveProfiles'
  <2>1. UuidsOf(stored) \subseteq profiles \union ghosts \union deferred \union raced
    BY DEF IInv, UsersHaveProfiles, StoredUuids, UuidsOf
  <2>2. op[c].user \in deferred \union raced \/ op[c].user \notin UuidsOf(stored)
    BY <1>0 DEF IInv, Tables, Current, CurrentBut, Live, Busy
  <2>3. StoredUuids' = UuidsOf(stored)
    BY <1>0 DEF StoredUuids, UuidsOf
  <2> QED
    BY <1>0, <2>1, <2>2, <2>3 DEF UsersHaveProfiles
<1> QED
  BY <1>2, <1>3, <1>4, <1>5, <1>6, <1>7, <1>8 DEF IInv

LEMMA CrashIInv ==
    ASSUME IInv, NEW c \in Clients, Crash(c)
    PROVE  IInv'
<1>0. /\ failures' \in 0 .. MaxFailures
      /\ table' = [table EXCEPT ![c] = nexus_usertable_create]
      /\ is_valid' = is_valid \ {c} /\ is_locked' = is_locked \ {c}
      /\ writers' = [writers EXCEPT ![c] = 0]
      /\ op' = [op EXCEPT ![c] = NoOp]
      /\ leaked' = leaked \ {c} /\ waiting' = waiting \ {c} /\ stuck' = stuck \ {c}
      /\ UNCHANGED <<stored, profiles, next_uuid, given, done, deferred, ghosts, raced>>
  BY BoundsAssumption DEF Crash, Fail, IInv, Types
<1>1. /\ \A d \in Clients \ {c} : op'[d] = op[d] /\ table'[d] = table[d]
      /\ op'[c].pc = "idle" /\ op' \in [Clients -> Ops]
  BY <1>0 DEF IInv, Types, Ops, NoOp
<1>2. Types'
  <2>1. /\ Sound(nexus_usertable_create, next_uuid)
        /\ nexus_usertable_create \in TableType
    BY CreateSound, BoundsAssumption DEF IInv, Types, Sound
  <2>2. table' \in [Clients -> TableType] /\ \A d \in Clients : Sound(table'[d], next_uuid)
    BY <1>0, <2>1 DEF IInv, Types
  <2> QED
    BY <1>0, <1>1, <2>2, BoundsAssumption DEF IInv, Types
<1>3. Locking'
  BY <1>0, <1>1, BoundsAssumption DEF IInv, Types, Locking, FileIsFree, Busy, Idle
<1>4. Running'
  BY <1>0, <1>1 DEF IInv, Types, Running, Busy, Idle
<1>5. History' /\ UsersHaveProfiles' /\ IdsAreNotReused'
  BY <1>0 DEF IInv, History, UsersHaveProfiles, IdsAreNotReused, StoredUuids
<1>6. Tables'
  BY <1>0, <1>1 DEF IInv, Types, Tables, Current, CurrentBut, Live, Busy
<1>7. Profiles'
  BY <1>0, <1>1 DEF IInv, Types, Profiles, Covered, Live, Busy
<1> QED
  BY <1>2, <1>3, <1>4, <1>5, <1>6, <1>7 DEF IInv
-----------------------------------------------------------------------------
(* The ids that were in the file, once a current table is stored.          *)
LEMMA GivenIds ==
    ASSUME IInv, NEW t, Sound(t, next_uuid), Current(t)
    PROVE  LET G == Given(t) IN
           /\ G \subseteq (Uuids \X Uuids)
           /\ \A g, h \in G : g[1] = h[1] /\ {g[2], h[2]} \intersect raced = {} => g[2] = h[2]
           /\ \A g \in G : g[2] \notin raced => g[1] <= t.auto_increment
           /\ \A u \in t.users : <<u.user_id, u.uuid>> \in G
           /\ \A u \in t.users, g \in G :
                  g[1] = u.user_id /\ g[2] \notin raced /\ u.uuid \notin raced => g[2] = u.uuid
<1> DEFINE G == Given(t)
<1>1. \A g : g \in G <=> \/ g \in given
                        \/ \E u \in t.users : g = <<u.user_id, u.uuid>>
  BY DEF Given
<1> HIDE DEF G
<1>2. \A u \in t.users : /\ u.user_id \in Uuids /\ u.uuid \in Uuids
                         /\ u.user_id <= t.auto_increment
  BY DEF Sound, TableType, User, Uuids
<1>3. /\ given \subseteq (Uuids \X Uuids)
      /\ \A g \in given : g[1] \in Nat
      /\ t.auto_increment \in Nat
  BY DEF IInv, Types, Sound, TableType, Uuids
<1>4. /\ \A g \in given : g[2] \notin raced => g[1] <= t.auto_increment
      /\ \A u \in t.users, g \in given :
            g[1] = u.user_id /\ g[2] \notin raced /\ u.uuid \notin raced => g[2] = u.uuid
  BY DEF Current, CurrentBut
<1>5. \A u, v \in t.users : u.user_id = v.user_id => u.uuid = v.uuid
  BY DEF Sound
<1>6. G \subseteq (Uuids \X Uuids)
  BY <1>1, <1>2, <1>3
<1>7. \A g \in G : g[2] \notin raced => g[1] <= t.auto_increment
  BY <1>1, <1>2, <1>3, <1>4
<1>8. \A u \in t.users : <<u.user_id, u.uuid>> \in G
  BY <1>1
<1>9. \A u \in t.users, g \in G :
         g[1] = u.user_id /\ g[2] \notin raced /\ u.uuid \notin raced => g[2] = u.uuid
  BY <1>1, <1>4, <1>5
<1>10. \A g, h \in G : g[1] = h[1] /\ {g[2], h[2]} \intersect raced = {} => g[2] = h[2]
  <2>1. \A g, h \in given : g[1] = h[1] /\ g[2] \notin raced /\ h[2] \notin raced => g[2] = h[2]
    BY DEF IInv, IdsAreNotReused
  <2>2. \A g, h \in G : g[1] = h[1] /\ g[2] \notin raced /\ h[2] \notin raced => g[2] = h[2]
    BY <1>1, <1>9, <2>1
  <2> QED
    BY <2>2
<1> QED
  BY <1>6, <1>7, <1>8, <1>9, <1>10 DEF G

(* nexus_vfs_flush_user_table.                                             *)
LEMMA FlushIInv ==
    ASSUME IInv, NEW c \in Clients, flush_user_table(c)
    PROVE  IInv'
<1> DEFINE o == op[c]
<1>0. /\ o.pc = "flush" /\ o.user \in Uuids /\ o.user \in 1 .. next_uuid
      /\ o.kind \in {"added", "removed"} /\ o \in Ops
      /\ writers[c] > 0 /\ Busy(c) /\ Live(c) /\ c \notin stuck /\ c \notin waiting
      /\ Sound(table[c], next_uuid) /\ Current(table[c])
      /\ UuidsOf(table[c]) \subseteq profiles \union ghosts \union deferred \union raced
  BY RunningUser
  DEF flush_user_table, IInv, Types, Running, Locking, Busy, Idle, Live, Tables, Profiles, Covered
<1>1. /\ Releases(c)
      /\ done' = [done EXCEPT ![o.user] = o.kind]
      /\ op' = [op EXCEPT ![c] = IF o.kind = "removed" THEN [o EXCEPT !.pc = "delete"] ELSE NoOp]
      /\ UNCHANGED <<profiles, table, waiting, stuck, next_uuid, failures, ghosts, leaked, raced>>
      /\ IF writers[c] > 1
         THEN deferred' = deferred \union {o.user} /\ UNCHANGED <<stored, is_valid, given>>
         ELSE /\ stored' = table[c] /\ given' = Given(stored')
              /\ is_valid' = {c} /\ UNCHANGED deferred
  BY DEF flush_user_table
<1>2. /\ \A d \in Clients \ {c} : op'[d] = op[d]
      /\ op' \in [Clients -> Ops] /\ op'[c].pc \in {"idle", "delete"}
      /\ op'[c].pc = "delete"
           => o.kind = "removed" /\ op'[c].kind = "removed" /\ op'[c].user = o.user
  BY <1>0, <1>1 DEF IInv, Types, Ops, NoOp
<1>3. /\ \A u \in Uuids \ {o.user} : done'[u] = done[u]
      /\ done'[o.user] = o.kind /\ done' \in [Uuids -> {"nothing", "added", "removed"}]
  BY <1>0, <1>1 DEF IInv, Types
<1>4. /\ o.kind = "added" => o.user \in UuidsOf(table[c])
      /\ o.kind = "removed" => o.user \notin UuidsOf(table[c])
  BY <1>0 DEF IInv, Running, Busy
<1>5. /\ writers' \in [Clients -> 0 .. MaxWriters] /\ is_locked' \subseteq Clients
      /\ \A d \in Clients \ {c} : writers'[d] = writers[d]
      /\ writers'[c] = writers[c] - 1
      /\ is_locked' = is_locked \ {c}
  BY <1>0, <1>1, BoundsAssumption DEF IInv, Types, Releases
<1> HIDE DEF o
<1>6. Running'
  BY <1>0, <1>1, <1>2 DEF IInv, Types, Running, Busy, Idle
<1>7. Locking'
  <2>1. writers'[c] > 0 => c \in is_valid'
    BY <1>0, <1>1, <1>5 DEF IInv, Types, Locking
  <2>2. \A d \in Clients : writers'[d] > 0 => FileIsFree(d)'
    BY <1>0, <1>5 DEF IInv, Types, Locking, FileIsFree
  <2>3. \A d \in Clients \ {c} : writers'[d] = 0
    BY <1>0, <1>5 DEF IInv, Locking, FileIsFree
  <2>4. \A d \in Clients \ {c} : ~(writers'[d] > 0)
    BY <2>3
  <2> QED
    BY <1>0, <1>1, <1>2, <1>5, <2>1, <2>2, <2>3, <2>4 DEF IInv, Types, Locking, Busy, Idle
<1>8. CASE writers[c] > 1
  <2>1. deferred' = deferred \union {o.user} /\ UNCHANGED <<stored, is_valid, given>>
    BY <1>1, <1>8
  <2>2. Types'
    BY <1>0, <1>1, <1>2, <1>3, <1>5, <2>1 DEF IInv, Types
  <2>3. History' /\ IdsAreNotReused'
    BY <1>0, <1>1, <1>3, <2>1 DEF IInv, Types, History, IdsAreNotReused, Uuids
  <2>4. Tables'
    BY <1>0, <1>1, <1>2, <1>3, <2>1 DEF IInv, Types, Tables, Current, CurrentBut, Live, Busy
  <2>5. Profiles' /\ UsersHaveProfiles'
    BY <1>0, <1>1, <1>2, <2>1 DEF IInv, Types, Profiles, Covered, Live, Busy, UsersHaveProfiles, StoredUuids
  <2> QED
    BY <1>6, <1>7, <2>2, <2>3, <2>4, <2>5 DEF IInv
<1>9. CASE ~(writers[c] > 1)
  <2>1. stored' = table[c] /\ given' = Given(stored') /\ is_valid' = {c} /\ deferred' = deferred
    BY <1>1, <1>9
  <2>a. table[c] \in TableType /\ table'[c] = table[c]
    BY <1>1 DEF IInv, Types
  <2>b. /\ given' \subseteq (Uuids \X Uuids) /\ IdsAreNotReused'
        /\ \A g \in given' : g[2] \notin raced => g[1] <= table[c].auto_increment
        /\ \A u \in table[c].users : <<u.user_id, u.uuid>> \in given'
        /\ \A u \in table[c].users, g \in given' :
              g[1] = u.user_id /\ g[2] \notin raced /\ u.uuid \notin raced => g[2] = u.uuid
    <3>1. given' = Given(table[c])
      BY <2>1 DEF Given
    <3> QED
      BY <1>0, <1>1, <3>1, GivenIds DEF IdsAreNotReused
  <2>2. Types'
    BY <1>0, <1>1, <1>2, <1>3, <1>5, <2>1, <2>a, <2>b DEF IInv, Types
  <2>3. History'
    BY <1>0, <1>1, <1>3, <2>1, <2>b DEF IInv, Types, History, Uuids
  <2>4. Tables'
    <3>1. \A d \in Clients \ {c} : ~Live(d)'
      <4>1. \A d \in Clients \ {c} : ~(writers[d] > 0)
        BY <1>0 DEF IInv, Locking, FileIsFree
      <4> QED
        BY <1>2, <2>1, <4>1 DEF Live, Busy, IInv, Locking
    <3>2. \A d \in Clients : op'[d].pc = "delete" /\ op'[d].user \notin deferred \union raced
                               => op'[d].user \notin UuidsOf(table[c])
      BY <1>0, <1>2, <1>4 DEF Current, CurrentBut
    <3>3. \A u \in Uuids \ (deferred \union raced) :
             /\ done'[u] = "added"   => u \in UuidsOf(table[c])
             /\ done'[u] = "removed" => u \notin UuidsOf(table[c])
      BY <1>0, <1>3, <1>4 DEF Current, CurrentBut
    <3> QED
      BY <1>1, <2>1, <2>a, <2>b, <3>1, <3>2, <3>3 DEF Tables, Current, CurrentBut
  <2>5. Profiles' /\ UsersHaveProfiles'
    <3>1. \A d \in Clients \ {c} : ~Live(d)'
      <4>1. \A d \in Clients \ {c} : ~(writers[d] > 0)
        BY <1>0 DEF IInv, Locking, FileIsFree
      <4> QED
        BY <1>2, <2>1, <4>1 DEF Live, Busy, IInv, Locking
    <3> QED
      BY <1>0, <1>1, <2>1, <2>a, <3>1 DEF Profiles, Covered, UsersHaveProfiles, StoredUuids, UuidsOf
  <2> QED
    BY <1>6, <1>7, <2>2, <2>3, <2>4, <2>5, <2>b DEF IInv
<1> QED
  BY <1>8, <1>9

LEMMA FlushFailsIInv ==
    ASSUME IInv, NEW c \in Clients, FlushFails(c)
    PROVE  IInv'
<1>0. /\ op[c].pc = "flush" /\ writers[c] = 1 /\ c \notin stuck /\ c \notin waiting
      /\ Sound(table[c], next_uuid) /\ Current(table[c])
      /\ UuidsOf(table[c]) \subseteq profiles \union ghosts \union deferred \union raced
  BY DEF FlushFails, IInv, Types, Locking, Tables, Profiles, Covered, Live, Busy, Idle
<1>1. /\ failures' \in 0 .. MaxFailures /\ Releases(c)
      /\ op' = [op EXCEPT ![c] = NoOp]
      /\ UNCHANGED <<profiles, table, waiting, stuck, next_uuid, done, deferred, ghosts, leaked, raced>>
  BY BoundsAssumption DEF FlushFails, Fail, IInv, Types
<1>2. /\ \A d \in Clients \ {c} : op'[d] = op[d]
      /\ op' \in [Clients -> Ops] /\ op'[c].pc = "idle"
  BY <1>1 DEF IInv, Types, Ops, NoOp
<1>3. /\ writers' \in [Clients -> 0 .. MaxWriters] /\ is_locked' \subseteq Clients
      /\ \A d \in Clients : writers'[d] = 0
      /\ is_locked' = is_locked \ {c}
  <2>1. writers[c] > 0
    BY <1>0
  <2> QED
    BY <1>0, <1>1, <2>1, BoundsAssumption DEF IInv, Types, Releases, Locking, FileIsFree
<1>4. Running'
  BY <1>1, <1>2 DEF IInv, Types, Running, Busy, Idle
<1>5. Locking'
  <2>1. \A d \in Clients : ~(writers'[d] > 0)
    BY <1>3
  <2>2. writers[c] > 0
    BY <1>0
  <2>3. \A d \in Clients \ {c} : writers[d] = 0
    BY <2>2 DEF IInv, Locking, FileIsFree
  <2>4. \A d \in Clients \ {c} : d \notin is_locked /\ ~Busy(d) /\ d \notin stuck
    BY <2>3 DEF IInv, Locking
  <2>5. \A d \in Clients : d \notin is_locked' /\ ~Busy(d)'
    BY <1>2, <1>3, <2>4 DEF Busy
  <2>6. \A d \in Clients : d \notin stuck' /\ (d \in waiting' => Idle(d)')
    BY <1>0, <1>1, <1>2, <2>4 DEF Idle, IInv, Locking
  <2> QED
    BY <1>3, <2>1, <2>5, <2>6 DEF Locking
<1>a. \A d \in Clients : Live(d)' => d # c /\ Live(d)
  BY <1>2 DEF FlushFails, Live, Busy
<1>b. \A d \in Clients \ {c} : Live(d)' => d \in is_valid'
  <2>1. writers[c] > 0
    BY <1>0
  <2>2. \A d \in Clients \ {c} : ~(writers[d] > 0)
    BY <2>1 DEF IInv, Locking, FileIsFree
  <2> QED
    BY <1>2, <2>2 DEF Live, Busy, IInv, Locking
<1>6. CASE stored' = stored
  <2>1. is_valid' = is_valid \ {c} /\ given' = given
    <3>1. is_valid' = is_valid \ {c}
      BY <1>6 DEF FlushFails
    <3>2. given' = Given(stored)
      BY <1>6 DEF FlushFails, Given
    <3>3. \A g \in Given(stored) : g \in given
      BY DEF Given, IInv, History
    <3> QED
      BY <3>1, <3>2, <3>3 DEF Given
  <2>2. Types'
    BY <1>1, <1>2, <1>3, <1>6, <2>1 DEF IInv, Types
  <2>3. History' /\ IdsAreNotReused' /\ UsersHaveProfiles'
    BY <1>1, <1>6, <2>1 DEF IInv, History, IdsAreNotReused, UsersHaveProfiles, StoredUuids
  <2>4. Tables'
    BY <1>1, <1>2, <1>6, <1>a, <2>1 DEF IInv, Types, Tables, Current, CurrentBut
  <2>5. Profiles'
    BY <1>1, <1>2, <1>a, <2>1 DEF IInv, Types, Profiles, Covered
  <2> QED
    BY <1>4, <1>5, <2>2, <2>3, <2>4, <2>5 DEF IInv
<1>7. CASE stored' # stored
  <2>1. stored' = table[c] /\ is_valid' = {} /\ given' = Given(table[c])
    BY <1>7 DEF FlushFails, Given
  <2>2. /\ given' \subseteq (Uuids \X Uuids) /\ IdsAreNotReused'
        /\ \A g \in given' : g[2] \notin raced => g[1] <= table[c].auto_increment
        /\ \A u \in table[c].users : <<u.user_id, u.uuid>> \in given'
        /\ \A u \in table[c].users, g \in given' :
              g[1] = u.user_id /\ g[2] \notin raced /\ u.uuid \notin raced => g[2] = u.uuid
    BY <1>0, <1>1, <2>1, GivenIds DEF IdsAreNotReused
  <2>3. Types'
    BY <1>0, <1>1, <1>2, <1>3, <2>1, <2>2 DEF IInv, Types
  <2>4. History'
    BY <1>1, <2>1, <2>2 DEF IInv, History
  <2>5. Tables'
    <3>1. \A d \in Clients : ~Live(d)'
      BY <1>a, <1>b, <2>1
    <3> QED
      BY <1>0, <1>1, <1>2, <2>1, <2>2, <3>1 DEF Tables, Current, CurrentBut
  <2>6. Profiles' /\ UsersHaveProfiles'
    <3>1. \A d \in Clients : ~Live(d)'
      BY <1>a, <1>b, <2>1
    <3> QED
      BY <1>0, <1>1, <2>1, <3>1 DEF Profiles, UsersHaveProfiles, StoredUuids, UuidsOf
  <2> QED
    BY <1>4, <1>5, <2>2, <2>3, <2>4, <2>5, <2>6 DEF IInv
<1> QED
  BY <1>6, <1>7
-----------------------------------------------------------------------------
(* The removal of a user that is in the table.                             *)
LEMMA RemovesIInv ==
    ASSUME IInv, NEW c \in Clients, NEW user \in acquire_user_table(c).users,
           Acquire(c), Removes(c, acquire_user_table(c), user),
           UNCHANGED <<stored, profiles, next_uuid, failures, given, deferred, ghosts>>
    PROVE  IInv'
<1> DEFINE t    == acquire_user_table(c)
           uuid == user.uuid
           t2   == usertable_remove(t, user)
           R    == raced \union Disputed(c)
<1>0. /\ Idle(c) /\ FileIsFree(c) /\ writers[c] < MaxWriters
      /\ Locks(c) /\ table' = [table EXCEPT ![c] = t2]
      /\ is_valid' = IF Stale(c) THEN is_valid ELSE is_valid \union {c}
      /\ c \notin stuck /\ waiting' = waiting \ {c} /\ stuck' = stuck /\ raced' = R
      /\ op' = [op EXCEPT ![c] = [pc |-> "flush", kind |-> "removed", user |-> uuid]]
      /\ done' = [done EXCEPT ![uuid] = "nothing"] /\ leaked' = leaked
  BY DEF Acquire, Removes, Keeps
<1>1. /\ Sound(t, next_uuid) /\ t \in TableType /\ R \subseteq Uuids /\ CurrentBut(t, R)
      /\ UuidsOf(t) \subseteq profiles \union ghosts \union deferred \union R
  BY <1>0, Acquired
<1>R. raced \subseteq R
  OBVIOUS
<1>2. uuid \in Uuids /\ uuid \in 1 .. next_uuid
  BY <1>1, BoundsAssumption DEF Sound, TableType, User, Uuids, IInv, Types
<1>3. /\ Sound(t2, next_uuid) /\ t2 \in TableType
      /\ UuidsOf(t2) = UuidsOf(t) \ {uuid}
      /\ t2.users \subseteq t.users /\ t2.auto_increment = t.auto_increment
  <2>1. next_uuid \in Nat
    BY BoundsAssumption DEF IInv, Types
  <2> QED
    BY <1>1, <2>1, RemoveSound DEF Sound
<1> HIDE DEF t, t2, uuid, R
<1>4. /\ \A d \in Clients \ {c} : op'[d] = op[d]
      /\ op'[c] = [pc |-> "flush", kind |-> "removed", user |-> uuid]
      /\ op' \in [Clients -> Ops]
  BY <1>0, <1>2 DEF IInv, Types, Ops
<1>5. /\ \A u \in Uuids \ {uuid} : done'[u] = done[u]
      /\ done'[uuid] = "nothing" /\ done' \in [Uuids -> {"nothing", "added", "removed"}]
  BY <1>0, <1>2 DEF IInv, Types
<1>6. Types'
  <2>1. table' \in [Clients -> TableType] /\ \A d \in Clients : Sound(table'[d], next_uuid)
    BY <1>0, <1>3 DEF IInv, Types
  <2>2. writers' \in [Clients -> 0 .. MaxWriters] /\ is_locked' \subseteq Clients
    BY <1>0, BoundsAssumption DEF IInv, Types, Locks
  <2> QED
    BY <1>0, <1>1, <1>4, <1>5, <2>1, <2>2 DEF IInv, Types
<1>7. Locking'
  BY <1>0, <1>4, BoundsAssumption DEF IInv, Types, Locking, Locks, FileIsFree, Busy, Idle, Stale
<1>8. Running'
  BY <1>0, <1>2, <1>3, <1>4 DEF IInv, Types, Running, Busy, Idle
<1>9. History' /\ UsersHaveProfiles' /\ IdsAreNotReused'
  <2>1. IdsAreNotReused'
    BY <1>0, <1>R DEF IInv, IdsAreNotReused
  <2>2. UsersHaveProfiles'
    BY <1>0, <1>R DEF IInv, UsersHaveProfiles, StoredUuids
  <2>3. History'
    BY <1>2, <1>5 DEF IInv, Types, History
  <2> QED
    BY <2>1, <2>2, <2>3
<1>l. \A d \in Clients \ {c} : (Live(d)' => Live(d)) /\ table'[d] = table[d]
  BY <1>0, <1>4 DEF Live, Busy, IInv, Types
<1>t. table'[c] = t2
  BY <1>0 DEF IInv, Types
<1>10. Tables'
  <2>1. Current(stored)'
    <3>1. CurrentBut(stored, R)
      BY <1>R, CurrentMore DEF IInv, Tables, Current
    <3> QED
      BY <1>0, <1>4, <1>5, <3>1 DEF Current, CurrentBut
  <2>2. ASSUME NEW d \in Clients, Live(d)', d # c PROVE Current(table[d])'
    <3>1. CurrentBut(table[d], R)
      BY <1>R, <1>l, <2>2, CurrentMore DEF IInv, Tables, Current
    <3> QED
      BY <1>0, <1>4, <1>5, <1>l, <2>2, <3>1 DEF Current, CurrentBut
  <2>3. Current(table[c])'
    BY <1>0, <1>1, <1>3, <1>4, <1>5, <1>t DEF Current, CurrentBut
  <2> QED
    BY <2>1, <2>2, <2>3 DEF Tables
<1>11. Profiles'
  BY <1>0, <1>1, <1>3, <1>4, <1>R, <1>l, <1>t DEF IInv, Types, Profiles, Covered
<1> QED
  BY <1>6, <1>7, <1>8, <1>9, <1>10, <1>11 DEF IInv

(* Every step keeps the invariant.                                         *)
LEMMA NextIInv == IInv /\ [Next]_vars => IInv'
<1> SUFFICES ASSUME IInv, [Next]_vars PROVE IInv'
  OBVIOUS
<1>1. CASE UNCHANGED vars
  BY <1>1 DEF IInv, Types, Sound, Locking, FileIsFree, Running, Idle, Busy, History, Tables,
     Current, CurrentBut, Live, Profiles, Covered, UuidsOf, UsersHaveProfiles, StoredUuids, IdsAreNotReused,
     vars, caches, history
<1>2. ASSUME NEW c \in Clients, NEW name \in Names, NEW text \in Texts,
             ecall_user_add(c, name, text)
      PROVE  IInv'
  BY <1>2, AddIInv
<1>3. ASSUME NEW c \in Clients, NEW name \in Names, ecall_user_remove_username(c, name)
      PROVE  IInv'
  <2>1. CASE \E user \in find_name(acquire_user_table(c), name) :
                 Removes(c, acquire_user_table(c), user)
    BY <1>3, <2>1, RemovesIInv DEF ecall_user_remove_username, find_name
  <2>2. CASE ~ \E user \in find_name(acquire_user_table(c), name) :
                   Removes(c, acquire_user_table(c), user)
    BY <1>3, <2>2, UnknownNameIInv DEF ecall_user_remove_username
  <2> QED
    BY <2>1, <2>2
<1>4. ASSUME NEW c \in Clients, NEW text \in Texts, ecall_user_remove_pubkey(c, text)
      PROVE  IInv'
  <2> DEFINE found == find_pubkey_hash(acquire_user_table(c), crypto_hash_pubkey(text))
  <2>1. CASE \E user \in found : Removes(c, acquire_user_table(c), user)
    BY <1>4, <2>1, RemovesIInv DEF ecall_user_remove_pubkey, find_pubkey_hash
  <2>2. CASE ~ \E user \in found : Removes(c, acquire_user_table(c), user)
    BY <1>4, <2>2, ReadIInv DEF ecall_user_remove_pubkey, history
  <2> QED
    BY <2>1, <2>2
<1>5. ASSUME NEW c \in Clients,
             \/ Stat(c) \/ create_user_profile(c) \/ ProfileFails(c) \/ flush_user_table(c)
             \/ FlushFails(c) \/ del_user_profile(c) \/ ecall_user_find(c) \/ Crash(c)
      PROVE  IInv'
  BY <1>5, StatIInv, CreateProfileIInv, ProfileFailsIInv, FlushIInv, FlushFailsIInv, DelProfileIInv,
     FindIInv, CrashIInv
<1> QED
  BY <1>1, <1>2, <1>3, <1>4, <1>5 DEF Next
-----------------------------------------------------------------------------
LEMMA Invariance == Spec => []IInv
<1>1. Init => IInv
  BY InitIInv
<1>2. IInv /\ [Next]_vars => IInv'
  BY NextIInv
<1> QED
  BY <1>1, <1>2, PTL DEF Spec

(* The table in the file and in every client is well formed, and who has   *)
(* the file locked has the latest table: user.c and the acquire and flush  *)
(* of the table, under any interleaving of clients, failures and crashes.  *)
THEOREM TypeCorrect == Spec => []TypeOK
<1>1. IInv => TypeOK
  <2> SUFFICES ASSUME IInv PROVE TypeOK
    OBVIOUS
  <2>1. \A t, n : Sound(t, n) => t.users \subseteq User /\ WellFormed(t)
    BY DEF Sound, TableType, WellFormed
  <2> QED
    BY <2>1 DEF IInv, Types, Locking, TypeOK, Ops, Busy, Idle
<1> QED
  BY <1>1, Invariance, PTL

(* Who is in the stored table has a profile (ecalls/users.c), except the   *)
(* users whose profile could not be stored and the deferred flushes.       *)
THEOREM ProfilesExist == Spec => []UsersHaveProfiles
<1>1. IInv => UsersHaveProfiles
  BY DEF IInv
<1> QED
  BY <1>1, Invariance, PTL

(* An addition or a removal that returned success is in the file, whatever *)
(* the other clients did since (nexus_vfs_flush_user_table).               *)
THEOREM AnswersAreStored == Spec => []AcknowledgedIsStored
<1>1. IInv => AcknowledgedIsStored
  BY DEF IInv, Tables, Current, CurrentBut, AcknowledgedIsStored, StoredUuids, UuidsOf
<1> QED
  BY <1>1, Invariance, PTL

(* No id is given to a second user (auto_increment of user.c), though each *)
(* client counts in its own copy and copies are lost.                      *)
THEOREM IdsAreUnique == Spec => []IdsAreNotReused
<1>1. IInv => IdsAreNotReused
  BY DEF IInv
<1> QED
  BY <1>1, Invariance, PTL

(* The lock of the table's file is given back on every path but the        *)
(* removal of an unknown name (ecall_user_remove_username).                *)
THEOREM LockIsGivenBack == Spec => []LockGivenBack
<1>1. IInv => LockGivenBack
  BY DEF IInv, Locking, LockGivenBack, Idle, Busy
<1> QED
  BY <1>1, Invariance, PTL
=============================================================================

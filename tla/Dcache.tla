------------------------------ MODULE Dcache ------------------------------
(***************************************************************************)
(* The dentry cache of an enclave (enclave/dentry.c) over its cache of     *)
(* metadata objects (enclave/vfs.c, metadata.c).  A path is walked through *)
(* dentries; a dentry is trusted until its parent's dirnode is seen to     *)
(* have been reloaded, and loses its metadata when the object is dropped   *)
(* from the LRU list.  Other clients change the stored directories.        *)
(*                                                                         *)
(* The operations of the client hold vfs_ops_lock: one at a time.  A walk  *)
(* goes name by name, then the operation is one step.  Which object the    *)
(* LRU list drops depends on the rest of the volume: any may be dropped    *)
(* between two operations.  Symbolic links, "." and ".." are left out, and *)
(* a file is deleted with its last entry (Namespace has the counts).       *)
(***************************************************************************)
EXTENDS Integers, Sequences, FiniteSets, Functions

CONSTANTS Dirs, Files, Names, None,
          Root,         \* supernode->root_uuid
          Volume,       \* the stored directories when the volume is mounted
          MaxDentries,  \* bound on the dentries that are alive
          MaxEvents     \* bound on the changes, by all clients, and the objects
                        \* dropped; a store that fails counts twice

Objects == Dirs \union Files

ASSUME SetsAssumption   == Root \in Dirs /\ None \notin Objects /\ Dirs \intersect Files = {}
ASSUME VolumeAssumption == Volume \in [Dirs -> [Names -> Objects \union {None}]]
ASSUME BoundsAssumption == MaxDentries \in Nat \ {0} /\ MaxEvents \in Nat

VARIABLES stored,   \* the directories in the datastore
          exists,   \* the objects that have a file there
          used,     \* the objects whose UUID was ever given
          cache,    \* the state of the enclave, see below
          events

vars == <<stored, exists, used, cache, events>>

(* cache.dentry   the dentries; Free where there is none                   *)
(* cache.mem      metadata_cache: the objects and the entries of dirnodes  *)
(* cache.newer    the objects whose file is newer than their buffer        *)
(* cache.aliases  metadata->dentry_list, the last one first                *)
(* cache.missed   history: dentries that were not told of a change         *)
(* cache.at       the dentry the running walk has come to                  *)
(* cache.from     the dentry of the source directory of a running rename   *)
Ids       == 1 .. MaxDentries
RootId    == 1
NoDentry  == 0
Free      == [uuid |-> None]
NoEntries == [n \in Names |-> None]
NoMeta    == [loaded |-> FALSE, entries |-> NoEntries, invalid |-> FALSE]

Live(c)        == {i \in Ids : c.dentry[i] # Free}
Children(c, p) == {i \in Live(c) : c.dentry[i].parent = p}
Meta(entries)  == [loaded |-> TRUE, entries |-> entries, invalid |-> FALSE]

d_lookup(c, p, name) ==
    IF \E i \in Children(c, p) : c.dentry[i].name = name
    THEN CHOOSE i \in Children(c, p) : c.dentry[i].name = name ELSE NoDentry
-----------------------------------------------------------------------------
(* Dentries.                                                               *)

NewDentry(p, o, name) ==
    [uuid |-> o, name |-> name, parent |-> p, count |-> 1, meta |-> FALSE, changed |-> FALSE]

\* Mutant: the parent does not count the child.
d_alloc_uncounted(c, p, o, name) ==
    LET i == CHOOSE j \in Ids : j \notin Live(c)
    IN IF Live(c) = Ids THEN [c EXCEPT !.at = NoDentry]
       ELSE [c EXCEPT !.dentry[i] = NewDentry(p, o, name), !.at = i]

(* A walk that needs more than MaxDentries fails.                          *)
d_alloc(c, p, o, name) ==
    LET i       == CHOOSE j \in Ids : j \notin Live(c)
        counted == [c.dentry EXCEPT ![p].count = @ + 1]
    IN IF Live(c) = Ids THEN [c EXCEPT !.at = NoDentry]
       ELSE [c EXCEPT !.dentry = [counted EXCEPT ![i] = NewDentry(p, o, name)], !.at = i]

(* A dentry that has no metadata is in no list.                            *)
list_del(s, i) ==
    LET gone == CHOOSE k \in DOMAIN s : s[k] = i
    IN IF i \notin Range(s) THEN s
       ELSE [k \in 1 .. Len(s) - 1 |-> IF k < gone THEN s[k] ELSE s[k + 1]]

d_iput(c, i) ==
    LET o == c.dentry[i].uuid
    IN [c EXCEPT !.dentry[i].meta = FALSE, !.aliases[o] = list_del(c.aliases[o], i)]

d_free(c, i) == [c EXCEPT !.dentry[i] = Free, !.missed = @ \ {i}]

\* Mutant: a dentry with children is freed.
dentry_delete_free(c, i) ==
    IF i = RootId THEN c
    ELSE d_free(d_iput([c EXCEPT !.dentry[c.dentry[i].parent].count = @ - 1], i), i)

(* dentry_delete of a dentry in the tree: one with children is only cut    *)
(* off (dcache_pruned_dentries, which nobody collects).                    *)
dentry_delete(c, i) ==
    LET uncounted == [c.dentry EXCEPT ![c.dentry[i].parent].count = @ - 1]
        deleted   == [c.dentry[i] EXCEPT !.parent = NoDentry, !.changed = FALSE]
        cut       == d_iput([c EXCEPT !.dentry = [uncounted EXCEPT ![i] = deleted]], i)
    IN IF i = RootId THEN c
       ELSE IF c.dentry[i].count <= 1 THEN d_free(cut, i) ELSE cut

dentry_instantiate(c, i) ==
    LET o == c.dentry[i].uuid
    IN [c EXCEPT !.dentry[i].meta = TRUE, !.aliases[o] = <<i>> \o c.aliases[o]]
-----------------------------------------------------------------------------
(* Metadata objects.                                                       *)

DentriesOf(c, o) == {i \in Live(c) : c.dentry[i].uuid = o}

(* nexus_metadata_free: every dentry of the object is invalidated.         *)
nexus_metadata_free(c, o) ==
    [c EXCEPT !.mem[o] = NoMeta, !.aliases[o] = <<>>, !.newer = @ \ {o},
              !.dentry = [i \in Ids |-> IF i \in DentriesOf(c, o)
                                        THEN [c.dentry[i] EXCEPT !.meta = FALSE] ELSE c.dentry[i]]]

(* The children of the dentries in ps that the entries of their directory  *)
(* contradict and that nobody told.                                        *)
Overlooked(c, ps, entries) ==
    {i \in Live(c) : c.dentry[i].parent \in ps /\ ~c.dentry[i].changed
                     /\ entries[c.dentry[i].name] # c.dentry[i].uuid}

Reload(c, o) ==
    IF o \in Files THEN [c EXCEPT !.mem[o] = Meta(NoEntries)]
    ELSE [c EXCEPT !.mem[o] = Meta(stored[o]), !.newer = @ \ {o},
                   !.missed = @ \union Overlooked(c, DentriesOf(c, o), stored[o])]

(* nexus_metadata_revalidate.  A stat that fails is taken for no change;   *)
(* has_changed is not set when the object was invalid.                     *)
nexus_metadata_revalidate(c, o, write) ==
    LET result(ok, has_changed) == [ok |-> ok, has_changed |-> has_changed,
                                    c |-> IF ok /\ (has_changed \/ c.mem[o].invalid) THEN Reload(c, o) ELSE c]
    IN CASE c.mem[o].invalid                   -> result(o \in exists, FALSE)
         [] o \in c.newer /\ o \in exists
            /\ ~c.mem[o].invalid               -> result(TRUE, TRUE)
         [] OTHER                              -> result(o \in exists \/ ~write, FALSE)

(* nexus_vfs_load: from the cache, or from the datastore.                  *)
nexus_vfs_load(c, o, write) ==
    IF c.mem[o].loaded /\ nexus_metadata_revalidate(c, o, write).ok
    THEN nexus_metadata_revalidate(c, o, write)
    ELSE [ok |-> o \in exists, has_changed |-> FALSE, c |-> IF o \in exists THEN Reload(c, o) ELSE c]
-----------------------------------------------------------------------------
(* The walk: c.at becomes NoDentry when it fails.                          *)

\* Mutant: the children are not told.
TellChildren_none(c, i) == [c EXCEPT !.missed = @ \ Children(c, i)]

(* What __dentry_revalidate does when has_reloaded is set.                 *)
TellChildren(c, i) ==
    [c EXCEPT !.dentry = [j \in Ids |-> IF j \in Children(c, i)
                                        THEN [c.dentry[j] EXCEPT !.changed = TRUE] ELSE c.dentry[j]],
              !.missed = @ \ Children(c, i)]

dentry_revalidate(c, i, write) ==
    LET o == c.dentry[i].uuid
        r == IF c.dentry[i].meta THEN nexus_metadata_revalidate(c, o, write)
             ELSE nexus_vfs_load(c, o, write)
    IN CASE ~r.ok                                          -> [r.c EXCEPT !.at = NoDentry]
         [] r.ok /\ ~c.dentry[i].meta                      -> dentry_instantiate(r.c, i)
         [] r.ok /\ c.dentry[i].meta /\ r.has_changed      -> TellChildren(r.c, i)
         [] r.ok /\ c.dentry[i].meta /\ ~r.has_changed     -> r.c

(* One name of walk_path, in the directory whose dentry was revalidated.   *)
Descend(c, name) ==
    LET p == c.at
        i == d_lookup(c, p, name)
        o == c.mem[c.dentry[p].uuid].entries[name]
    IN CASE i # NoDentry /\ ~c.dentry[i].changed           -> [c EXCEPT !.at = i]
         [] o = None /\ (i # NoDentry => c.dentry[i].changed) -> [c EXCEPT !.at = NoDentry]
         [] i = NoDentry /\ o # None                       -> d_alloc(c, p, o, name)
         [] OTHER -> IF c.dentry[i].uuid = o THEN [c EXCEPT !.dentry[i].changed = FALSE, !.at = i]
                     ELSE d_alloc(dentry_delete(c, i), p, o, name)

walk_step(c, name) ==
    IF c.at = NoDentry \/ c.dentry[c.at].uuid \in Files THEN [c EXCEPT !.at = NoDentry]
    ELSE LET r == dentry_revalidate(c, c.at, FALSE)
         IN IF r.at = NoDentry THEN r ELSE Descend(r, name)

-----------------------------------------------------------------------------
Init ==
    /\ stored = Volume
    /\ exists = ({Root} \union {Volume[d][n] : d \in Dirs, n \in Names}) \ {None}
    /\ used = exists
    /\ cache = [dentry  |-> [i \in Ids |-> IF i = RootId THEN NewDentry(NoDentry, Root, None) ELSE Free],
                mem     |-> [o \in Objects |-> NoMeta],
                newer   |-> {}, missed |-> {}, at |-> NoDentry, from |-> NoDentry,
                aliases |-> [o \in Objects |-> <<>>]]
    /\ events = 0

Done(c)  == [c EXCEPT !.at = NoDentry, !.from = NoDentry]
Event(n) == events + n <= MaxEvents /\ events' = events + n

Idle    == cache.at = NoDentry
storage == <<stored, exists, used>>

(* An operation begins its walk at the root.                               *)
Begin ==
    /\ Idle
    /\ cache' = [cache EXCEPT !.at = RootId]
    /\ UNCHANGED <<storage, events>>

Walk ==
    \E name \in Names :
        LET c == walk_step(cache, name) IN
        /\ ~Idle
        /\ cache' = IF c.at = NoDentry THEN Done(c) ELSE c
        /\ UNCHANGED <<storage, events>>

(* The operations that read: lookup, stat, readdir, and the transfers of   *)
(* files, which lock the file they find (nexus_vfs_get).                   *)
Stat ==
    \E write \in BOOLEAN :
        /\ ~Idle /\ cache.from = NoDentry
        /\ cache' = Done(dentry_revalidate(cache, cache.at, write))
        /\ UNCHANGED <<storage, events>>

metadata_get_dentry(c, o) == Head(c.aliases[o])

dentry_delete_child(c, p, name) ==
    LET i == d_lookup(c, p, name)
    IN IF i = NoDentry THEN c ELSE dentry_delete(c, i)

(* The dirnode is changed in memory, and the child of its dentry p dropped *)
(* from the cache.  The children of its other dentries are overlooked.     *)
SetEntry(c, d, p, name, o) ==
    LET entries == [c.mem[d].entries EXCEPT ![name] = o] IN
    [c EXCEPT !.mem[d].entries = entries,
              !.missed = @ \union Overlooked(c, DentriesOf(c, d) \ {p}, entries)]

(* nexus_metadata_store of the dirnodes in ds, one after the other.  A     *)
(* store fails before or after the file was written.                       *)
Entries(c, d)  == c.mem[d].entries
Saved(c, ds)   == [c EXCEPT !.newer = @ \ ds]
Failed(c, d)   == [c EXCEPT !.mem[d].invalid = TRUE]
Put(ds, c)     == [d \in Dirs |-> IF d \in ds THEN Entries(c, d) ELSE stored[d]]

Store(c, first, second) ==
    \/ /\ stored' = Put({first, second}, c) /\ cache' = Done(Saved(c, {first, second}))
       /\ Event(1)
    \/ /\ Event(2)
       /\ \/ stored' \in {stored, Put({first}, c)} /\ cache' = Done(Failed(c, first))
          \/ /\ second # first
             /\ stored' \in {Put({first}, c), Put({first, second}, c)}
             /\ cache' = Done(Failed(Saved(c, {first}), second))

(* nexus_vfs_get of the directory an operation changes.                    *)
Get(c, i)   == dentry_revalidate(c, i, TRUE)
InDir(c, i) == i \in Live(c) /\ c.dentry[i].uuid \in Dirs

(* No operation that changes a directory starts when the events are used   *)
(* up: it could not be stored.                                             *)
ecall_fs_create ==
    \E name \in Names, o \in Objects \ used :
        LET g == Get(cache, cache.at)
            d == cache.dentry[cache.at].uuid
        IN
        /\ events < MaxEvents /\ InDir(cache, cache.at) /\ cache.from = NoDentry
        /\ g.at # NoDentry
        /\ used' = used \union {o} /\ exists' = exists \union {o}
        /\ IF Entries(g, d)[name] = None
           THEN Store(SetEntry(g, d, metadata_get_dentry(g, d), name, o), d, d)
           ELSE cache' = Done(g) /\ Event(1) /\ UNCHANGED stored

(* __remove_filenode and __remove_dirnode.                                 *)
LastEntry(d, name, o) ==
    o \in Dirs \/ \A e \in Dirs, m \in Names : stored[e][m] = o => <<e, m>> = <<d, name>>

ecall_fs_remove ==
    \E name \in Names :
        LET g == Get(cache, cache.at)
            d == cache.dentry[cache.at].uuid
            o == Entries(g, d)[name]
            p == metadata_get_dentry(g, d)
            c == dentry_delete_child(g, p, name)
        IN
        /\ events < MaxEvents /\ InDir(cache, cache.at) /\ cache.from = NoDentry
        /\ g.at # NoDentry
        /\ IF o = None THEN cache' = Done(c) /\ UNCHANGED <<stored, exists, events>>
           ELSE IF LastEntry(d, name, o)
           THEN exists' = exists \ {o} /\ Store(SetEntry(nexus_metadata_free(c, o), d, p, name, None), d, d)
           ELSE UNCHANGED exists /\ Store(SetEntry(c, d, p, name, None), d, d)
        /\ UNCHANGED used

(* What the kernel lets through: a directory is not moved below itself,    *)
(* and an entry replaces one of its own kind that it does not lie below.   *)
Below(d, o) == d = o \/ (o \in Dirs /\ \E n \in Names : stored[o][n] = d)

KernelAllows(d, e, o, over) ==
    /\ ~Below(e, o)
    /\ over # None => (over \in Dirs <=> o \in Dirs) /\ ~Below(d, over)

(* The source directory of a rename is found; the walk to the other begins. *)
RenameFrom ==
    /\ ~Idle /\ cache.from = NoDentry /\ events < MaxEvents
    /\ cache' = [cache EXCEPT !.from = cache.at, !.at = RootId]
    /\ UNCHANGED <<storage, events>>

(* Neither directory is the entry that is moved or replaced (the kernel).  *)
(* The second walk may have freed the dentry that the first one found; the *)
(* code would then use it, the model stops there.                          *)
IsChild(c, i, p, name) == c.dentry[i].parent = p /\ c.dentry[i].name = name

ecall_fs_rename ==
    \E name, name2 \in Names :
        LET from == cache.from
            to   == cache.at
            d == cache.dentry[from].uuid
            e == cache.dentry[to].uuid
            g == Get(cache, from)
            h == IF from = to THEN g ELSE Get(g, to)
            o == Entries(h, d)[name]
            p == metadata_get_dentry(h, d)
            q == metadata_get_dentry(h, e)
            c == dentry_delete_child(dentry_delete_child(h, p, name), q, name2)
        IN
        /\ events < MaxEvents /\ InDir(cache, from) /\ InDir(cache, to)
        /\ <<d, name>> # <<e, name2>>
        /\ ~IsChild(cache, to, from, name) /\ ~IsChild(cache, from, to, name2)
        /\ g.at # NoDentry /\ h.at # NoDentry
        /\ o # None => KernelAllows(d, e, o, Entries(h, e)[name2])
        /\ IF o = None THEN cache' = Done(c) /\ UNCHANGED <<stored, events>>
           ELSE Store(SetEntry(SetEntry(c, d, p, name, None), e, q, name2, o), d, e)
        /\ UNCHANGED <<exists, used>>

(* An operation that ends without a change.                                *)
GiveUp ==
    /\ ~Idle
    /\ cache' = Done(cache)
    /\ UNCHANGED <<storage, events>>

(* The LRU list drops an object.                                           *)
lru_shrinker ==
    \E o \in Objects :
        /\ Idle /\ cache.mem[o].loaded
        /\ cache' = nexus_metadata_free(cache, o)
        /\ Event(1) /\ UNCHANGED storage
-----------------------------------------------------------------------------
(* Other clients: they create, remove, rename, and link a file into another *)
(* directory.  A rename over an entry is a removal and a rename.           *)

Wrote(ds) == cache' = [cache EXCEPT !.newer = @ \union {d \in ds : cache.mem[d].loaded}]

OtherCreate(d, n, o) ==
    /\ stored[d][n] = None /\ o \notin used
    /\ stored' = [stored EXCEPT ![d][n] = o]
    /\ used' = used \union {o} /\ exists' = exists \union {o}
    /\ Wrote({d})

OtherRemove(d, n) ==
    /\ stored[d][n] # None
    /\ stored' = [stored EXCEPT ![d][n] = None]
    /\ exists' = IF LastEntry(d, n, stored[d][n]) THEN exists \ {stored[d][n]} ELSE exists
    /\ Wrote({d}) /\ UNCHANGED used

OtherLink(d, n, e, m) ==
    /\ e # d
    /\ stored[d][n] \in Files /\ stored[e][m] = None
    /\ stored' = [stored EXCEPT ![e][m] = stored[d][n]]
    /\ Wrote({d, e}) /\ UNCHANGED <<used, exists>>

OtherRename(d, n, e, m) ==
    /\ stored[d][n] # None /\ stored[e][m] = None /\ KernelAllows(d, e, stored[d][n], None)
    /\ stored' = [stored EXCEPT ![d][n] = None, ![e][m] = stored[d][n]]
    /\ Wrote({d, e}) /\ UNCHANGED <<used, exists>>

(* They act between two operations, and between the two walks of a rename: *)
(* a walk looks at each directory once.                                    *)
Others ==
    /\ Event(1)
    /\ Idle \/ (cache.from # NoDentry /\ cache.at = RootId /\ events + 1 < MaxEvents)
    /\ \E d, e \in Dirs \intersect exists, n, m \in Names :
           \/ \E o \in Objects : OtherCreate(d, n, o)
           \/ OtherRemove(d, n)
           \/ OtherLink(d, n, e, m)
           \/ OtherRename(d, n, e, m)

Next ==
    \/ Begin \/ Walk \/ Stat \/ GiveUp
    \/ ecall_fs_create \/ ecall_fs_remove
    \/ RenameFrom \/ ecall_fs_rename
    \/ lru_shrinker
    \/ Others

Spec == Init /\ [][Next]_vars
-----------------------------------------------------------------------------
(* The values of the variables.                                            *)
TypeOK ==
    /\ stored \in [Dirs -> [Names -> Objects \union {None}]]
    /\ exists \subseteq used /\ used \subseteq Objects
    /\ cache.newer \subseteq Objects /\ cache.missed \subseteq Live(cache)
    /\ \A i \in Live(cache) : /\ cache.dentry[i].uuid \in Objects
                              /\ cache.dentry[i].parent \in Ids \union {NoDentry}
                              /\ cache.dentry[i].count \in 1 .. MaxDentries
    /\ events \in 0 .. MaxEvents

(* Nothing refers to a dentry that was freed, or to an object: a dentry's  *)
(* parent is there and counts it (d_count), and a dentry has a metadata    *)
(* object exactly when that object is loaded and has it in its list once.  *)
(* The counts are kept by hand by d_alloc, dentry_delete and d_iput, and   *)
(* an object leaves the LRU list without regard to its dentries.           *)
TreeIsSound ==
    LET c == cache IN
    /\ \A i \in Live(c) :
           /\ c.dentry[i].parent \in Live(c) \union {NoDentry}
           /\ c.dentry[i].count = 1 + Cardinality(Children(c, i))
           /\ c.dentry[i].meta => c.mem[c.dentry[i].uuid].loaded
    /\ \A o \in Objects :
           /\ IsInjective(c.aliases[o])
           /\ Range(c.aliases[o]) = {i \in Live(c) : c.dentry[i].uuid = o /\ c.dentry[i].meta}

(* A cached dentry that a walk follows without a look at the dirnode is    *)
(* what the dirnode in memory says, whatever this client or another does   *)
(* to the directory.  Except where the dirnode was reloaded and            *)
(* has_changed not set, or was reloaded or changed through another dentry  *)
(* of the directory.                                                       *)
ToldChildrenAgree ==
    LET c == cache IN
    \A i \in Live(c) \ c.missed :
        LET p == c.dentry[i].parent IN
        (p # NoDentry /\ ~c.dentry[i].changed /\ c.mem[c.dentry[p].uuid].loaded)
        => c.mem[c.dentry[p].uuid].entries[c.dentry[i].name] = c.dentry[i].uuid
=============================================================================

-------------------------- MODULE Namespace_proofs --------------------------
(***************************************************************************)
(* Proofs about Namespace for any number of clients, directories, names,   *)
(* files and failures: every stored symbolic link has its target, no       *)
(* operation undoes what another client stored, and a stored entry has its *)
(* file.                                                                   *)
(***************************************************************************)
EXTENDS Namespace, FiniteSetTheorems, TLAPS

FileTypes == {"REG", "DIR", "LNK"}
Tables    == [Uuids -> Nat \ {1}]
Copies    == [Dirs -> Dirnode \union {NoDirnode}]
Lefts     == [Dirs -> {"no", "held", "counted", "lost"}]
Hands     == [Clients -> [dir : Dirs \union {"none"}, copy : Dirnode, dirty : BOOLEAN]]

Op == [kind : {"none", "remove", "hardlink", "rename"},
       pc : {"idle", "table", "lock2", "store", "store2"},
       dir : Dirs \union {"none"}, name : Names \union {"none"},
       dir2 : Dirs \union {"none"}, name2 : Names \union {"none"},
       uuid : Uuids \union {0}, work : Dirnode, work2 : Dirnode,
       fresh : BOOLEAN, overwritten : Entry, dirty : BOOLEAN, table : Tables \union {NoTable}]

(* The types of the variables.                                             *)
Tabled ==
    /\ table \in Tables
    /\ deferred \in [Clients -> Tables \union {NoTable}]
    /\ leaked \subseteq Clients /\ table_lock \in leaked \union {"free"}

Typed ==
    /\ disk \in [Dirs -> Dirnode]
    /\ unsaved \in [Clients -> Copies]
    /\ Tabled
    /\ files \subseteq Uuids /\ interrupted \subseteq Uuids
    /\ lock \in [Dirs -> Clients \union {"free"}] /\ left \in Lefts /\ hand \in Hands
    /\ op \in [Clients -> Op]
    /\ next_uuid \in 0 .. MaxUuid /\ failures \in 0 .. MaxFailures

(* Where an operation may be, with last UUIDs generated.                   *)
Shape(o, last) ==
    /\ o.kind \in {"remove", "hardlink", "rename"} => o.uuid \in 1 .. last
    /\ o.kind = "remove" => o.pc \in {"table", "store"} /\ o.dir \in Dirs /\ o.dir2 = "none"
    /\ o.kind = "hardlink" => o.pc = "table" /\ o.dir2 \in Dirs /\ o.name \in Names
    /\ o.kind = "rename" => o.pc \in {"lock2", "store", "store2"}
    /\ o.pc = "table" => o.kind \in {"remove", "hardlink"} /\ o.dir \in Dirs
    /\ o.pc = "lock2" => /\ o.kind = "rename" /\ o.dir \in Dirs /\ o.dir2 \in Dirs /\ o.dir # o.dir2
                         /\ o.name \in Names /\ o.name2 \in Names
                         /\ Has(o.work, o.name) /\ o.work.entries[o.name].uuid = o.uuid
    /\ o.pc = "store" => /\ o.dir \in Dirs
                         /\ o.dir2 # "none" => o.kind = "rename" /\ o.dir # o.dir2
    /\ o.pc = "store2" => o.kind = "rename" /\ o.dir2 \in Dirs

(* The locks that client c holds with it.                                  *)
Holds(c, o, lck) ==
    /\ o.kind = "remove" \/ o.pc \in {"lock2", "store"} => lck[o.dir] = c
    /\ o.kind = "hardlink" \/ o.pc = "store2" => lck[o.dir2] = c
    /\ o.pc = "store" /\ o.dir2 # "none" => lck[o.dir2] = c

Operating == \A c \in Clients : Shape(op[c], next_uuid) /\ Holds(c, op[c], lock)

(* A UUID has one type wherever it is, given by k, and a dirnode has at    *)
(* least as many targets of a symbolic link as entries for it.             *)
Links(dn, u) == {n \in Names : dn.entries[n].uuid = u /\ dn.entries[n].type = "LNK"}

Fits(e, k, last) == e = NoEntry \/ (e.uuid \in 1 .. last /\ e.type = k[e.uuid])

Sound(dn, k, last) ==
    /\ \A n \in Names : Fits(dn.entries[n], k, last)
    /\ \A u \in Uuids : Cardinality(Links(dn, u)) <= dn.symlinks[u]

SoundCopies(un, k, last) == \A d \in Dirs : un[d] # NoDirnode => Sound(un[d], k, last)

SoundOp(o, k, last) ==
    /\ Sound(o.work, k, last) /\ Sound(o.work2, k, last)
    /\ o.kind = "hardlink" => k[o.uuid] = "REG"

AllSound(k) ==
    /\ \A d \in Dirs : Sound(disk[d], k, next_uuid)
    /\ \A c \in Clients : /\ SoundCopies(unsaved[c], k, next_uuid) /\ SoundOp(op[c], k, next_uuid)
                          /\ Sound(hand[c].copy, k, next_uuid)

Kinds3 == [Uuids -> FileTypes]
Kinded == \E k \in Kinds3 : AllSound(k)

(* A dirnode that may replace old has its entries, except those that were  *)
(* lost before and those the operation o removes, moves or overwrites.     *)
Excuses(o, e) == \/ o.kind \in {"remove", "rename"} /\ e.uuid = o.uuid
                 \/ o.kind = "rename" /\ e = o.overwritten

Keeps(dn, old, lost, o) ==
    \A n \in Names : \/ old.entries[n] = NoEntry \/ old.entries[n].uuid \in lost
                     \/ \E m \in Names : dn.entries[m] = old.entries[n]
                     \/ Excuses(o, old.entries[n])

KeepsCopies(un, dsk, lost) == \A d \in Dirs : un[d] # NoDirnode => Keeps(un[d], dsk[d], lost, NoOp)

KeepsOp(o, dsk, lost) ==
    /\ o.kind = "hardlink" => /\ o.fresh => Keeps(o.work, dsk[o.dir], lost, NoOp)
                              /\ o.dir = o.dir2 => o.fresh
                              /\ Keeps(o.work2, dsk[o.dir2], lost, NoOp)
    /\ o.pc = "lock2" => Keeps(o.work, dsk[o.dir], lost, NoOp)
    /\ o.kind = "remove" \/ o.pc = "store" => Keeps(o.work, dsk[o.dir], lost, o)
    /\ o.pc = "store2" \/ (o.pc = "store" /\ o.dir2 # "none") => Keeps(o.work2, dsk[o.dir2], lost, o)

Surviving == \A c \in Clients : KeepsCopies(unsaved[c], disk, interrupted) /\ KeepsOp(op[c], disk, interrupted)

IInv == Typed /\ Operating /\ Kinded /\ Surviving
-----------------------------------------------------------------------------
(* Dirnodes.                                                               *)

LEMMA Basics ==
    /\ MaxUuid \in Nat /\ NoEntry \in Entry /\ NoEntry.uuid = 0 /\ NoEntry.type = "none"
    /\ \A u \in Uuids : u \in Nat /\ u # 0 /\ u <= MaxUuid
    /\ Empty \in Dirnode /\ \A n \in Names : Empty.entries[n] = NoEntry
    /\ \A u \in Uuids : Empty.symlinks[u] = 0
<1>1. NoEntry \in Entry /\ NoEntry.uuid = 0 /\ NoEntry.type = "none"
  BY DEF NoEntry, Entry
<1>2. MaxUuid \in Nat
  BY BoundsAssumption
<1> HIDE DEF NoEntry
<1> DEFINE es == [n \in Names |-> NoEntry]
           sl == [u \in Uuids |-> 0]
<1>3. es \in [Names -> Entry] /\ sl \in [Uuids -> Nat]
  BY <1>1
<1>4. /\ \A n \in Names : es[n] = NoEntry
      /\ \A u \in Uuids : sl[u] = 0
  OBVIOUS
<1>5. Empty = [entries |-> es, symlinks |-> sl]
  BY DEF Empty
<1> HIDE DEF es, sl
<1>6. Empty \in Dirnode /\ Empty.entries = es /\ Empty.symlinks = sl
  BY <1>3, <1>5 DEF Dirnode
<1> QED
  BY <1>1, <1>2, <1>4, <1>6 DEF Uuids

LEMMA DirnodeFields ==
    ASSUME NEW dn \in Dirnode
    PROVE  /\ dn.entries \in [Names -> Entry] /\ dn.symlinks \in [Uuids -> Nat]
           /\ \A n \in Names : dn.entries[n] \in Entry
           /\ \A u \in Uuids : dn.symlinks[u] \in Nat
BY DEF Dirnode

LEMMA Added ==
    ASSUME NEW dn \in Dirnode, NEW n \in Names, NEW e \in Entry
    PROVE  /\ dirnode_add(dn, n, e) \in Dirnode
           /\ dirnode_add(dn, n, e).symlinks = dn.symlinks
           /\ \A m \in Names : dirnode_add(dn, n, e).entries[m] = IF m = n THEN e ELSE dn.entries[m]
BY DEF dirnode_add, Dirnode

LEMMA Clobbered ==
    ASSUME NEW dn \in Dirnode, NEW n \in Names
    PROVE  /\ clobber(dn, n) \in Dirnode
           /\ clobber(dn, n).symlinks = dn.symlinks
           /\ \A m \in Names : clobber(dn, n).entries[m] = IF m = n THEN NoEntry ELSE dn.entries[m]
BY Basics DEF clobber, Dirnode

LEMMA SymlinkAdded ==
    ASSUME NEW dn \in Dirnode, NEW u \in Uuids
    PROVE  /\ WithSymlink(dn, u) \in Dirnode
           /\ WithSymlink(dn, u).entries = dn.entries
           /\ \A v \in Uuids : WithSymlink(dn, u).symlinks[v] =
                                  IF v = u THEN dn.symlinks[v] + 1 ELSE dn.symlinks[v]
<1> DEFINE s == [dn.symlinks EXCEPT ![u] = dn.symlinks[u] + 1]
<1>1. s \in [Uuids -> Nat]
  BY DirnodeFields
<1>2. \A v \in Uuids : s[v] = IF v = u THEN dn.symlinks[v] + 1 ELSE dn.symlinks[v]
  BY DirnodeFields
<1>3. WithSymlink(dn, u) = [dn EXCEPT !.symlinks = s]
  BY DEF WithSymlink, Dirnode
<1> HIDE DEF s
<1> QED
  BY <1>1, <1>2, <1>3 DEF Dirnode

LEMMA SymlinkRemoved ==
    ASSUME NEW dn \in Dirnode, NEW u \in Uuids, dn.symlinks[u] > 0
    PROVE  /\ WithoutSymlink(dn, u) \in Dirnode
           /\ WithoutSymlink(dn, u).entries = dn.entries
           /\ \A v \in Uuids : WithoutSymlink(dn, u).symlinks[v] =
                                  IF v = u THEN dn.symlinks[v] - 1 ELSE dn.symlinks[v]
<1> DEFINE s == [dn.symlinks EXCEPT ![u] = dn.symlinks[u] - 1]
<1>1. s \in [Uuids -> Nat]
  BY DirnodeFields
<1>2. \A v \in Uuids : s[v] = IF v = u THEN dn.symlinks[v] - 1 ELSE dn.symlinks[v]
  BY DirnodeFields
<1>3. WithoutSymlink(dn, u) = [dn EXCEPT !.symlinks = s]
  BY DEF WithoutSymlink, Dirnode
<1> HIDE DEF s
<1> QED
  BY <1>1, <1>2, <1>3 DEF Dirnode
-----------------------------------------------------------------------------
(* Targets of symbolic links.                                              *)

LEMMA LinksAreFinite ==
    ASSUME NEW dn, NEW u
    PROVE  IsFiniteSet(Links(dn, u)) /\ Cardinality(Links(dn, u)) \in Nat
<1>1. Links(dn, u) \subseteq Names
  BY DEF Links
<1> QED
  BY <1>1, SetsAssumption, FS_Subset, FS_CardinalityType

LEMMA FewerLinks ==
    ASSUME NEW dn, NEW dn2, NEW u, Links(dn2, u) \subseteq Links(dn, u)
    PROVE  Cardinality(Links(dn2, u)) <= Cardinality(Links(dn, u))
BY LinksAreFinite, FS_Subset

LEMMA OneMoreLink ==
    ASSUME NEW dn, NEW dn2, NEW u, NEW n, Links(dn2, u) \subseteq Links(dn, u) \union {n}
    PROVE  Cardinality(Links(dn2, u)) <= Cardinality(Links(dn, u)) + 1
<1> DEFINE S == Links(dn, u)
<1>1. IsFiniteSet(S) /\ Cardinality(S) \in Nat
  BY LinksAreFinite
<1>2. IsFiniteSet(S \union {n}) /\ Cardinality(S \union {n}) <= Cardinality(S) + 1
  <2> HIDE DEF S
  <2>1. CASE n \in S
    <3>1. S \union {n} = S
      BY <2>1
    <3> QED
      BY <1>1, <3>1
  <2>2. CASE n \notin S
    BY <1>1, <2>2, FS_AddElement
  <2> QED
    BY <2>1, <2>2
<1>3. Cardinality(Links(dn2, u)) <= Cardinality(S \union {n})
  BY <1>2, FS_Subset
<1>4. Cardinality(Links(dn2, u)) \in Nat /\ Cardinality(S \union {n}) \in Nat
  BY <1>2, LinksAreFinite, FS_CardinalityType
<1> QED
  BY <1>1, <1>2, <1>3, <1>4

LEMMA OneLinkLess ==
    ASSUME NEW dn, NEW dn2, NEW u, NEW n \in Links(dn, u), Links(dn2, u) \subseteq Links(dn, u) \ {n}
    PROVE  Cardinality(Links(dn2, u)) <= Cardinality(Links(dn, u)) - 1
<1> DEFINE S == Links(dn, u)
<1>1. IsFiniteSet(S) /\ n \in S
  BY LinksAreFinite
<1>2. IsFiniteSet(S \ {n}) /\ Cardinality(S \ {n}) = Cardinality(S) - 1
  <2> HIDE DEF S
  <2> QED
    BY <1>1, FS_RemoveElement
<1> QED
  BY <1>2, FS_Subset

LEMMA EmptyIsSound ==
    ASSUME NEW k, NEW last
    PROVE  Sound(Empty, k, last)
<1>1. \A u \in Uuids : Links(Empty, u) = {}
  BY Basics DEF Links
<1>2. \A u \in Uuids : Cardinality(Links(Empty, u)) = 0
  BY <1>1, FS_EmptySet
<1> QED
  BY <1>2, Basics DEF Sound, Fits

(* More UUIDs, with their types.                                           *)
LEMMA SoundGrows ==
    ASSUME NEW dn, NEW k, NEW k2, NEW last \in Nat, NEW last2 \in Nat, last <= last2,
           \A u \in 1 .. last : k2[u] = k[u], Sound(dn, k, last)
    PROVE  Sound(dn, k2, last2)
BY DEF Sound, Fits

LEMMA ClobberIsSound ==
    ASSUME NEW dn \in Dirnode, NEW n \in Names, NEW k, NEW last, Sound(dn, k, last)
    PROVE  Sound(clobber(dn, n), k, last)
<1>1. \A u \in Uuids : Links(clobber(dn, n), u) \subseteq Links(dn, u)
  BY Clobbered, Basics DEF Links
<1>2. \A u \in Uuids : Cardinality(Links(clobber(dn, n), u)) <= dn.symlinks[u]
  <2> SUFFICES ASSUME NEW u \in Uuids PROVE Cardinality(Links(clobber(dn, n), u)) <= dn.symlinks[u]
    OBVIOUS
  <2>1. Cardinality(Links(clobber(dn, n), u)) <= Cardinality(Links(dn, u))
    BY <1>1, FewerLinks
  <2>2. Cardinality(Links(dn, u)) <= dn.symlinks[u] /\ dn.symlinks[u] \in Nat
    BY DirnodeFields DEF Sound
  <2> QED
    BY <2>1, <2>2, LinksAreFinite
<1> QED
  BY <1>2, Clobbered DEF Sound, Fits

(* A file or directory is added, or put in the place of an entry.          *)
LEMMA AddIsSound ==
    ASSUME NEW dn \in Dirnode, NEW n \in Names, NEW e \in Entry, NEW k, NEW last, Sound(dn, k, last),
           Fits(e, k, last), e.type # "LNK"
    PROVE  Sound(dirnode_add(dn, n, e), k, last)
<1> DEFINE dn2 == dirnode_add(dn, n, e)
<1>1. /\ dn2 \in Dirnode /\ dn2.symlinks = dn.symlinks
      /\ \A m \in Names : dn2.entries[m] = IF m = n THEN e ELSE dn.entries[m]
  BY Added
<1> HIDE DEF dn2
<1>2. \A u \in Uuids : Links(dn2, u) \subseteq Links(dn, u)
  BY <1>1 DEF Links
<1>3. ASSUME NEW u \in Uuids PROVE Cardinality(Links(dn2, u)) <= dn2.symlinks[u]
  <2>1. Cardinality(Links(dn2, u)) <= Cardinality(Links(dn, u))
    BY <1>2, FewerLinks
  <2>2. Cardinality(Links(dn, u)) <= dn.symlinks[u] /\ dn.symlinks[u] \in Nat
    BY DirnodeFields DEF Sound
  <2> QED
    BY <1>1, <2>1, <2>2, LinksAreFinite
<1>4. \A m \in Names : Fits(dn2.entries[m], k, last)
  BY <1>1 DEF Sound
<1>5. Sound(dn2, k, last)
  BY <1>3, <1>4 DEF Sound
<1> QED
  BY <1>5 DEF dn2

(* Any entry, with a target for it.                                        *)
LEMMA AddLinkIsSound ==
    ASSUME NEW dn \in Dirnode, NEW n \in Names, NEW e \in Entry, NEW k, NEW last, Sound(dn, k, last),
           Fits(e, k, last), e.uuid \in Uuids
    PROVE  Sound(WithSymlink(dirnode_add(dn, n, e), e.uuid), k, last)
<1> DEFINE dn1 == dirnode_add(dn, n, e)
           dn2 == WithSymlink(dn1, e.uuid)
<1>1. /\ dn1 \in Dirnode /\ dn1.symlinks = dn.symlinks
      /\ \A m \in Names : dn1.entries[m] = IF m = n THEN e ELSE dn.entries[m]
  BY Added
<1> HIDE DEF dn1
<1>2. /\ dn2 \in Dirnode /\ dn2.entries = dn1.entries
      /\ \A v \in Uuids : dn2.symlinks[v] = IF v = e.uuid THEN dn1.symlinks[v] + 1 ELSE dn1.symlinks[v]
  BY <1>1, SymlinkAdded
<1> HIDE DEF dn2
<1>3. ASSUME NEW u \in Uuids PROVE Cardinality(Links(dn2, u)) <= dn2.symlinks[u]
  <2>1. Cardinality(Links(dn, u)) <= dn.symlinks[u] /\ dn.symlinks[u] \in Nat
    BY DirnodeFields DEF Sound
  <2>2. CASE u = e.uuid
    <3>1. Links(dn2, u) \subseteq Links(dn, u) \union {n}
      BY <1>1, <1>2 DEF Links
    <3>2. Cardinality(Links(dn2, u)) <= Cardinality(Links(dn, u)) + 1
      BY <3>1, OneMoreLink
    <3> QED
      BY <1>1, <1>2, <2>1, <2>2, <3>2, LinksAreFinite
  <2>3. CASE u # e.uuid
    <3>1. Links(dn2, u) \subseteq Links(dn, u)
      BY <1>1, <1>2, <2>3 DEF Links
    <3>2. Cardinality(Links(dn2, u)) <= Cardinality(Links(dn, u))
      BY <3>1, FewerLinks
    <3> QED
      BY <1>1, <1>2, <2>1, <2>3, <3>2, LinksAreFinite
  <2> QED
    BY <2>2, <2>3
<1>4. \A m \in Names : Fits(dn2.entries[m], k, last)
  BY <1>1, <1>2 DEF Sound
<1>5. Sound(dn2, k, last)
  BY <1>3, <1>4 DEF Sound
<1> QED
  BY <1>5 DEF dn2, dn1

LEMMA RenameWithinIsSound ==
    ASSUME NEW dn \in Dirnode, NEW n \in Names, NEW m \in Names, n # m, Has(dn, n),
           NEW k, NEW last, Sound(dn, k, last)
    PROVE  RenameWithin(dn, n, m) \in Dirnode /\ Sound(RenameWithin(dn, n, m), k, last)
<1> DEFINE e   == dn.entries[n]
           dn1 == clobber(dn, n)
           dn2 == dirnode_add(dn1, m, e)
<1>1. /\ dn1 \in Dirnode /\ dn1.symlinks = dn.symlinks
      /\ \A x \in Names : dn1.entries[x] = IF x = n THEN NoEntry ELSE dn.entries[x]
  BY Clobbered
<1>2. e \in Entry /\ Fits(e, k, last)
  BY DirnodeFields DEF Sound
<1> HIDE DEF dn1
<1>3. /\ dn2 \in Dirnode /\ dn2.symlinks = dn.symlinks
      /\ \A x \in Names : dn2.entries[x] = IF x = m THEN e ELSE dn1.entries[x]
  BY <1>1, <1>2, Added
<1> HIDE DEF dn2
<1>4. ASSUME NEW u \in Uuids PROVE Cardinality(Links(dn2, u)) <= dn2.symlinks[u]
  <2>1. Cardinality(Links(dn, u)) <= dn.symlinks[u] /\ dn.symlinks[u] \in Nat
    BY DirnodeFields DEF Sound
  <2>2. CASE n \in Links(dn, u)
    <3>1. Links(dn1, u) \subseteq Links(dn, u) \ {n}
      BY <1>1, Basics DEF Links
    <3>2. Cardinality(Links(dn1, u)) <= Cardinality(Links(dn, u)) - 1
      BY <2>2, <3>1, OneLinkLess
    <3>3. Links(dn2, u) \subseteq Links(dn1, u) \union {m}
      BY <1>3 DEF Links
    <3>4. Cardinality(Links(dn2, u)) <= Cardinality(Links(dn1, u)) + 1
      BY <3>3, OneMoreLink
    <3> QED
      BY <1>3, <2>1, <3>2, <3>4, LinksAreFinite
  <2>3. CASE n \notin Links(dn, u)
    <3>1. Links(dn2, u) \subseteq Links(dn, u)
      BY <1>1, <1>3, <2>3, Basics DEF Links
    <3>2. Cardinality(Links(dn2, u)) <= Cardinality(Links(dn, u))
      BY <3>1, FewerLinks
    <3> QED
      BY <1>3, <2>1, <3>2, LinksAreFinite
  <2> QED
    BY <2>2, <2>3
<1>5. \A x \in Names : Fits(dn2.entries[x], k, last)
  BY <1>1, <1>2, <1>3 DEF Sound, Fits
<1>6. Sound(dn2, k, last)
  BY <1>4, <1>5 DEF Sound
<1> QED
  BY <1>3, <1>6 DEF dn2, dn1, RenameWithin

(* Between two directories the target goes with the entry: where there is  *)
(* none to go, the entry is no symbolic link.                              *)
LEMMA RenameIsSound ==
    ASSUME NEW from \in Dirnode, NEW to \in Dirnode, NEW n \in Names, NEW m \in Names, Has(from, n),
           NEW k, NEW last \in Nat, last <= MaxUuid, Sound(from, k, last), Sound(to, k, last)
    PROVE  LET r == dirnode_rename(from, to, n, m) IN
           /\ r.from \in Dirnode /\ r.to \in Dirnode /\ Sound(r.from, k, last) /\ Sound(r.to, k, last)
           /\ \A x \in Names : r.from.entries[x] = IF x = n THEN NoEntry ELSE from.entries[x]
           /\ \A x \in Names : r.to.entries[x] = IF x = m THEN from.entries[n] ELSE to.entries[x]
<1> DEFINE e  == from.entries[n]
           u  == e.uuid
           f1 == clobber(from, n)
           t1 == dirnode_add(to, m, e)
           f2 == WithoutSymlink(f1, u)
           t2 == WithSymlink(t1, u)
<1>1. e \in Entry /\ Fits(e, k, last) /\ u \in 1 .. last /\ u \in Uuids
  BY DirnodeFields, BoundsAssumption DEF Sound, Fits, Has, Uuids
<1>2. /\ f1 \in Dirnode /\ f1.symlinks = from.symlinks /\ Sound(f1, k, last)
      /\ \A x \in Names : f1.entries[x] = IF x = n THEN NoEntry ELSE from.entries[x]
  BY Clobbered, ClobberIsSound
<1>3. /\ t1 \in Dirnode
      /\ \A x \in Names : t1.entries[x] = IF x = m THEN e ELSE to.entries[x]
  BY <1>1, Added
<1>4. CASE from.symlinks[u] > 0
  <2>1. dirnode_rename(from, to, n, m) = [from |-> f2, to |-> t2]
    BY <1>4 DEF dirnode_rename
  <2>2. Sound(t2, k, last)
    BY <1>1, AddLinkIsSound
  <2> HIDE DEF f1, t1
  <2>3. t2 \in Dirnode /\ t2.entries = t1.entries
    BY <1>1, <1>3, SymlinkAdded
  <2>4. /\ f2 \in Dirnode /\ f2.entries = f1.entries
        /\ \A v \in Uuids : f2.symlinks[v] = IF v = u THEN f1.symlinks[v] - 1 ELSE f1.symlinks[v]
    BY <1>1, <1>2, <1>4, SymlinkRemoved
  <2> HIDE DEF f2, t2
  <2>5. Sound(f2, k, last)
    <3>1. ASSUME NEW v \in Uuids PROVE Cardinality(Links(f2, v)) <= f2.symlinks[v]
      <4>1. Links(f2, v) = Links(f1, v)
        BY <2>4 DEF Links
      <4>2. CASE v # u
        BY <1>2, <2>4, <4>1, <4>2 DEF Sound
      <4>3. CASE v = u /\ e.type = "LNK"
        <5>1. n \in Links(from, v) /\ Links(f1, v) \subseteq Links(from, v) \ {n}
          BY <1>2, <4>3, Basics DEF Links
        <5>2. Cardinality(Links(f1, v)) <= Cardinality(Links(from, v)) - 1
          BY <5>1, OneLinkLess
        <5>3. Cardinality(Links(from, v)) <= from.symlinks[v] /\ from.symlinks[v] \in Nat
          BY DirnodeFields DEF Sound
        <5> QED
          BY <1>2, <2>4, <4>1, <4>3, <5>2, <5>3, LinksAreFinite
      <4>4. CASE v = u /\ e.type # "LNK"
        <5>1. k[u] # "LNK"
          BY <1>1, <4>4, Basics DEF Fits
        <5>2. Links(f1, v) = {}
          BY <1>2, <4>4, <5>1, Basics DEF Links, Sound, Fits
        <5>3. Cardinality(Links(f2, v)) = 0
          BY <4>1, <5>2, FS_EmptySet
        <5>4. from.symlinks[v] \in Nat
          BY DirnodeFields
        <5> QED
          BY <1>2, <1>4, <2>4, <4>4, <5>3, <5>4
      <4> QED
        BY <4>2, <4>3, <4>4
    <3> QED
      BY <1>2, <2>4, <3>1 DEF Sound
  <2> QED
    BY <1>2, <1>3, <2>1, <2>2, <2>3, <2>4, <2>5
<1>5. CASE ~(from.symlinks[u] > 0)
  <2>1. dirnode_rename(from, to, n, m) = [from |-> f1, to |-> t1]
    BY <1>5 DEF dirnode_rename
  <2>2. e.type # "LNK"
    <3> SUFFICES ASSUME e.type = "LNK" PROVE FALSE
      OBVIOUS
    <3>1. n \in Links(from, u)
      BY DEF Links
    <3>2. Links(from, u) = {}
      <4>1. Cardinality(Links(from, u)) <= from.symlinks[u] /\ from.symlinks[u] \in Nat
        BY <1>1, DirnodeFields DEF Sound
      <4>2. Cardinality(Links(from, u)) = 0
        BY <1>5, <4>1, LinksAreFinite
      <4> QED
        BY <4>2, LinksAreFinite, FS_EmptySet
    <3> QED
      BY <3>1, <3>2
  <2>3. Sound(t1, k, last)
    BY <1>1, <2>2, AddIsSound
  <2> HIDE DEF f1, t1
  <2> QED
    BY <1>2, <1>3, <2>1, <2>3
<1> QED
  BY <1>4, <1>5
-----------------------------------------------------------------------------
(* What a changed dirnode keeps.                                           *)

LEMMA NoOpFields ==
    /\ NoOp \in Op
    /\ NoOp.kind = "none" /\ NoOp.pc = "idle" /\ NoOp.dir = "none" /\ NoOp.name = "none"
    /\ NoOp.dir2 = "none" /\ NoOp.name2 = "none" /\ NoOp.uuid = 0 /\ NoOp.work = Empty
    /\ NoOp.work2 = Empty /\ NoOp.fresh = TRUE /\ NoOp.overwritten = NoEntry
    /\ NoOp.dirty = FALSE /\ NoOp.table = NoTable
<1>1. Empty \in Dirnode /\ NoEntry \in Entry
  BY Basics
<1> HIDE DEF Empty, NoEntry, NoTable
<1> QED
  BY <1>1 DEF NoOp, Op

LEMMA OpFields ==
    ASSUME NEW o \in Op
    PROVE  /\ o.kind \in {"none", "remove", "hardlink", "rename"}
           /\ o.pc \in {"idle", "table", "lock2", "store", "store2"}
           /\ o.dir \in Dirs \union {"none"} /\ o.name \in Names \union {"none"}
           /\ o.dir2 \in Dirs \union {"none"} /\ o.name2 \in Names \union {"none"}
           /\ o.uuid \in Uuids \union {0} /\ o.work \in Dirnode /\ o.work2 \in Dirnode
           /\ o.fresh \in BOOLEAN /\ o.overwritten \in Entry
           /\ o.dirty \in BOOLEAN /\ o.table \in Tables \union {NoTable}
BY DEF Op

LEMMA KeepsItself ==
    ASSUME NEW dn, NEW lost, NEW o
    PROVE  Keeps(dn, dn, lost, o)
BY DEF Keeps

LEMMA KeepsFrame ==
    ASSUME NEW dn, NEW dn2, NEW old, NEW lost, NEW lost2, NEW o, NEW o2,
           Keeps(dn, old, lost, o), lost \subseteq lost2, \A n \in Names : dn2.entries[n] = dn.entries[n],
           o = NoOp \/ (o2.kind = o.kind /\ o2.uuid = o.uuid /\ o2.overwritten = o.overwritten)
    PROVE  Keeps(dn2, old, lost2, o2)
<1>1. \A e : Excuses(o, e) => Excuses(o2, e)
  BY NoOpFields DEF Excuses
<1> QED
  BY <1>1 DEF Keeps

LEMMA KeepsClobbered ==
    ASSUME NEW dn, NEW dn2, NEW old, NEW lost, NEW o, NEW n \in Names,
           Keeps(dn, old, lost, NoOp), o.kind \in {"remove", "rename"}, o.uuid = dn.entries[n].uuid,
           \A x \in Names : dn2.entries[x] = IF x = n THEN NoEntry ELSE dn.entries[x]
    PROVE  Keeps(dn2, old, lost, o)
<1> SUFFICES ASSUME NEW x \in Names, old.entries[x] # NoEntry, old.entries[x].uuid \notin lost,
                    ~Excuses(o, old.entries[x])
             PROVE  \E m \in Names : dn2.entries[m] = old.entries[x]
  BY DEF Keeps
<1>1. ~Excuses(NoOp, old.entries[x])
  BY NoOpFields DEF Excuses
<1>2. PICK m \in Names : dn.entries[m] = old.entries[x]
  BY <1>1 DEF Keeps
<1>3. m # n
  BY <1>2 DEF Excuses
<1> QED
  BY <1>2, <1>3

LEMMA KeepsAdded ==
    ASSUME NEW dn, NEW dn2, NEW old, NEW lost, NEW o, NEW n \in Names,
           Keeps(dn, old, lost, NoOp),
           dn.entries[n] = NoEntry \/ (o.kind = "rename" /\ o.overwritten = dn.entries[n]),
           \A x \in Names : x # n => dn2.entries[x] = dn.entries[x]
    PROVE  Keeps(dn2, old, lost, o)
<1> SUFFICES ASSUME NEW x \in Names, old.entries[x] # NoEntry, old.entries[x].uuid \notin lost,
                    ~Excuses(o, old.entries[x])
             PROVE  \E m \in Names : dn2.entries[m] = old.entries[x]
  BY DEF Keeps
<1>1. ~Excuses(NoOp, old.entries[x])
  BY NoOpFields DEF Excuses
<1>2. PICK m \in Names : dn.entries[m] = old.entries[x]
  BY <1>1 DEF Keeps
<1>3. m # n
  BY <1>2 DEF Excuses
<1> QED
  BY <1>2, <1>3

LEMMA KeepsRenamed ==
    ASSUME NEW dn \in Dirnode, NEW old, NEW lost, NEW o, NEW n \in Names, NEW m \in Names,
           Keeps(dn, old, lost, NoOp), o.kind = "rename",
           o.uuid = dn.entries[n].uuid, o.overwritten = dn.entries[m]
    PROVE  Keeps(RenameWithin(dn, n, m), old, lost, o)
<1> DEFINE dn1 == clobber(dn, n)
           dn2 == dirnode_add(dn1, m, dn.entries[n])
<1>1. /\ dn1 \in Dirnode
      /\ \A x \in Names : dn1.entries[x] = IF x = n THEN NoEntry ELSE dn.entries[x]
  BY Clobbered
<1> HIDE DEF dn1
<1>2. \A x \in Names : dn2.entries[x] = IF x = m THEN dn.entries[n] ELSE dn1.entries[x]
  BY <1>1, Added, DirnodeFields
<1> HIDE DEF dn2
<1> SUFFICES ASSUME NEW x \in Names, old.entries[x] # NoEntry, old.entries[x].uuid \notin lost,
                    ~Excuses(o, old.entries[x])
             PROVE  \E y \in Names : dn2.entries[y] = old.entries[x]
  BY DEF Keeps, RenameWithin, dn2, dn1
<1>3. ~Excuses(NoOp, old.entries[x])
  BY NoOpFields DEF Excuses
<1>4. PICK y \in Names : dn.entries[y] = old.entries[x]
  BY <1>3 DEF Keeps
<1>5. y # n /\ y # m
  BY <1>4 DEF Excuses
<1> QED
  BY <1>1, <1>2, <1>4, <1>5

(* What a failed rename would have excused is lost from now on.            *)
LEMMA KeepsInterrupted ==
    ASSUME NEW dn, NEW old, NEW lost, NEW lost2, NEW o, NEW k, NEW last \in Nat,
           Keeps(dn, old, lost, o), Sound(old, k, last), lost \subseteq lost2,
           o.uuid \in lost2, {o.overwritten.uuid} \ {0} \subseteq lost2
    PROVE  Keeps(dn, old, lost2, NoOp)
<1> SUFFICES ASSUME NEW x \in Names, old.entries[x] # NoEntry, old.entries[x].uuid \notin lost2
             PROVE  \E m \in Names : dn.entries[m] = old.entries[x]
  BY DEF Keeps
<1>1. old.entries[x].uuid # 0
  BY DEF Sound, Fits
<1>2. ~Excuses(o, old.entries[x])
  BY <1>1 DEF Excuses
<1> QED
  BY <1>2 DEF Keeps
-----------------------------------------------------------------------------
(* Steps of one client, seen by the others.                                *)

LEMMA ShapeGrows ==
    ASSUME NEW o, NEW last \in Nat, NEW last2 \in Nat, last <= last2, Shape(o, last)
    PROVE  Shape(o, last2)
<1>1. 1 .. last \subseteq 1 .. last2
  OBVIOUS
<1> QED
  BY <1>1 DEF Shape

LEMMA HoldsStays ==
    ASSUME NEW x, NEW o \in Op, NEW last, NEW lck, NEW lck2, Shape(o, last), Holds(x, o, lck),
           \A d \in Dirs : lck[d] = x => lck2[d] = x
    PROVE  Holds(x, o, lck2)
<1>1. o.dir2 # "none" => o.dir2 \in Dirs
  BY OpFields
<1>2. /\ o.kind = "remove" \/ o.pc \in {"lock2", "store"} => o.dir \in Dirs
      /\ o.kind = "hardlink" \/ o.pc = "store2" => o.dir2 \in Dirs
  BY DEF Shape
<1> QED
  BY <1>1, <1>2 DEF Holds

LEMMA SoundOpGrows ==
    ASSUME NEW o, NEW k, NEW k2, NEW last \in Nat, NEW last2 \in Nat, last <= last2,
           \A u \in 1 .. last : k2[u] = k[u], SoundOp(o, k, last), Shape(o, last)
    PROVE  SoundOp(o, k2, last2)
<1>1. Sound(o.work, k2, last2) /\ Sound(o.work2, k2, last2)
  BY SoundGrows DEF SoundOp
<1> QED
  BY <1>1 DEF SoundOp, Shape

LEMMA SoundCopiesGrow ==
    ASSUME NEW un, NEW k, NEW k2, NEW last \in Nat, NEW last2 \in Nat, last <= last2,
           \A u \in 1 .. last : k2[u] = k[u], SoundCopies(un, k, last)
    PROVE  SoundCopies(un, k2, last2)
BY SoundGrows DEF SoundCopies

LEMMA KeepsOpStays ==
    ASSUME NEW o, NEW dsk, NEW lost, NEW lost2, KeepsOp(o, dsk, lost), lost \subseteq lost2
    PROVE  KeepsOp(o, dsk, lost2)
<1>1. \A dn, old, q : Keeps(dn, old, lost, q) => Keeps(dn, old, lost2, q)
  BY KeepsFrame
<1> QED
  BY <1>1 DEF KeepsOp

LEMMA KeepsCopiesStay ==
    ASSUME NEW un, NEW dsk, NEW lost, NEW lost2, KeepsCopies(un, dsk, lost), lost \subseteq lost2
    PROVE  KeepsCopies(un, dsk, lost2)
<1>1. \A dn, old, q : Keeps(dn, old, lost, q) => Keeps(dn, old, lost2, q)
  BY KeepsFrame
<1> QED
  BY <1>1 DEF KeepsCopies

(* What becomes of the locks left behind and of the copies the clients     *)
(* wait with.                                                              *)
HandsFit == /\ left' \in Lefts /\ hand' \in Hands
            /\ \A k \in Kinds3 : AllSound(k) => \A x \in Clients : Sound(hand'[x].copy, k, next_uuid)

LEMMA HandsStay ==
    ASSUME Typed, NEW c \in Clients, left' \in Lefts, hand' \in {hand, [hand EXCEPT ![c] = NoHand]}
    PROVE  HandsFit
<1>1. NoHand \in [dir : Dirs \union {"none"}, copy : Dirnode, dirty : BOOLEAN] /\ NoHand.copy = Empty
  BY Basics DEF NoHand
<1>2. hand \in Hands
  BY DEF Typed
<1> HIDE DEF NoHand
<1>3. hand' \in Hands /\ \A x \in Clients : hand'[x].copy \in {hand[x].copy, Empty}
  BY <1>1, <1>2 DEF Hands
<1> QED
  BY <1>3, EmptyIsSound DEF HandsFit, AllSound

(* A step of c that stores no dirnode.                                     *)
LEMMA Frame ==
    ASSUME IInv, NEW c \in Clients, NEW r \in Op, NEW un \in Copies,
           op' = [op EXCEPT ![c] = r], unsaved' = [unsaved EXCEPT ![c] = un], disk' = disk,
           Tabled', files' \subseteq Uuids, interrupted \subseteq interrupted', interrupted' \subseteq Uuids,
           lock' \in [Dirs -> Clients \union {"free"}], HandsFit,
           \A d \in Dirs, x \in Clients \ {c} : lock[d] = x => lock'[d] = x,
           next_uuid' \in 0 .. MaxUuid, next_uuid <= next_uuid', failures' \in 0 .. MaxFailures,
           Shape(r, next_uuid'), Holds(c, r, lock'),
           \A k \in Kinds3 : AllSound(k) =>
              \E k2 \in Kinds3 : /\ \A u \in 1 .. next_uuid : k2[u] = k[u]
                                 /\ SoundOp(r, k2, next_uuid') /\ SoundCopies(un, k2, next_uuid'),
           KeepsCopies(un, disk, interrupted'), KeepsOp(r, disk, interrupted')
    PROVE  IInv'
<1>1. Typed /\ Operating /\ Kinded /\ Surviving
  BY DEF IInv
<1>2. op \in [Clients -> Op] /\ unsaved \in [Clients -> Copies]
  BY <1>1 DEF Typed
<1>3. \A x \in Clients : /\ op'[x] = IF x = c THEN r ELSE op[x]
                         /\ unsaved'[x] = IF x = c THEN un ELSE unsaved[x]
  BY <1>2
<1>4. next_uuid \in Nat /\ next_uuid' \in Nat
  BY <1>1, BoundsAssumption DEF Typed
<1>5. Typed'
  <2>1. op' \in [Clients -> Op] /\ unsaved' \in [Clients -> Copies]
    BY <1>2
  <2> QED
    BY <1>1, <2>1 DEF Typed, HandsFit
<1>6. Operating'
  <2> SUFFICES ASSUME NEW x \in Clients PROVE Shape(op'[x], next_uuid') /\ Holds(x, op'[x], lock')
    BY DEF Operating
  <2>1. CASE x = c
    BY <1>3, <2>1
  <2>2. CASE x # c
    <3>1. Shape(op[x], next_uuid) /\ Holds(x, op[x], lock) /\ op[x] \in Op /\ op'[x] = op[x]
      BY <1>1, <1>2, <1>3, <2>2 DEF Operating
    <3>2. Shape(op[x], next_uuid')
      BY <1>4, <3>1, ShapeGrows
    <3>3. Holds(x, op[x], lock')
      BY <2>2, <3>1, HoldsStays
    <3> QED
      BY <3>1, <3>2, <3>3
  <2> QED
    BY <2>1, <2>2
<1>7. Kinded'
  <2>1. PICK k \in Kinds3 : AllSound(k)
    BY <1>1 DEF Kinded
  <2>2. PICK k2 \in Kinds3 : /\ \A u \in 1 .. next_uuid : k2[u] = k[u]
                             /\ SoundOp(r, k2, next_uuid') /\ SoundCopies(un, k2, next_uuid')
    BY <2>1
  <2>3. ASSUME NEW d \in Dirs PROVE Sound(disk'[d], k2, next_uuid')
    <3>1. Sound(disk[d], k, next_uuid)
      BY <2>1 DEF AllSound
    <3> QED
      BY <1>4, <2>2, <3>1, SoundGrows
  <2>4. ASSUME NEW x \in Clients
        PROVE  /\ SoundCopies(unsaved'[x], k2, next_uuid') /\ SoundOp(op'[x], k2, next_uuid')
               /\ Sound(hand'[x].copy, k2, next_uuid')
    <3>0. Sound(hand'[x].copy, k2, next_uuid')
      <4>1. PICK h : h = hand'[x].copy
        OBVIOUS
      <4>2. Sound(h, k, next_uuid)
        BY <2>1, <4>1 DEF HandsFit
      <4>3. Sound(h, k2, next_uuid')
        BY <1>4, <2>2, <4>2, SoundGrows
      <4> QED
        BY <4>1, <4>3
    <3>1. CASE x = c
      BY <1>3, <2>2, <3>0, <3>1
    <3>2. CASE x # c
      <4>1. SoundCopies(unsaved[x], k, next_uuid) /\ SoundOp(op[x], k, next_uuid)
            /\ Shape(op[x], next_uuid)
        BY <1>1, <2>1 DEF AllSound, Operating
      <4>2. SoundCopies(unsaved[x], k2, next_uuid')
        BY <1>4, <2>2, <4>1, SoundCopiesGrow
      <4>3. SoundOp(op[x], k2, next_uuid')
        BY <1>4, <2>2, <4>1, SoundOpGrows
      <4> QED
        BY <1>3, <3>0, <3>2, <4>2, <4>3
    <3> QED
      BY <3>1, <3>2
  <2>5. AllSound(k2)'
    BY <2>3, <2>4 DEF AllSound
  <2> QED
    BY <2>5 DEF Kinded
<1>8. Surviving'
  <2> SUFFICES ASSUME NEW x \in Clients
               PROVE  KeepsCopies(unsaved'[x], disk, interrupted') /\ KeepsOp(op'[x], disk, interrupted')
    BY DEF Surviving
  <2>1. CASE x = c
    BY <1>3, <2>1
  <2>2. CASE x # c
    BY <1>1, <1>3, <2>2, KeepsCopiesStay, KeepsOpStays DEF Surviving
  <2> QED
    BY <2>1, <2>2
<1> QED
  BY <1>5, <1>6, <1>7, <1>8 DEF IInv

LEMMA StaleFields ==
    ASSUME Typed, NEW x \in Clients, NEW d
    PROVE  /\ Stale(x, d) \in Op /\ Stale(x, d).kind = op[x].kind /\ Stale(x, d).pc = op[x].pc
           /\ Stale(x, d).dir = op[x].dir /\ Stale(x, d).name = op[x].name
           /\ Stale(x, d).dir2 = op[x].dir2 /\ Stale(x, d).name2 = op[x].name2
           /\ Stale(x, d).uuid = op[x].uuid /\ Stale(x, d).work = op[x].work
           /\ Stale(x, d).work2 = op[x].work2 /\ Stale(x, d).overwritten = op[x].overwritten
           /\ Stale(x, d).dirty = op[x].dirty /\ Stale(x, d).table = op[x].table
           /\ Stale(x, d).fresh <=> op[x].fresh /\ ~(op[x].kind = "hardlink" /\ op[x].dir = d)
<1>1. op[x] \in Op
  BY DEF Typed
<1>2. PICK b \in BOOLEAN : b <=> op[x].fresh /\ ~(op[x].kind = "hardlink" /\ op[x].dir = d)
  OBVIOUS
<1>3. Stale(x, d) = [op[x] EXCEPT !.fresh = b]
  BY <1>1, <1>2, OpFields DEF Stale
<1> QED
  BY <1>1, <1>2, <1>3 DEF Op

(* A step of c that stores the dirnode dn of d.                            *)
LEMMA PublishFrame ==
    ASSUME IInv, NEW c \in Clients, NEW d \in Dirs, NEW dn \in Dirnode, NEW r \in Op, NEW un \in Copies,
           lock[d] = c, disk' \in [Dirs -> Dirnode], op' \in [Clients -> Op], unsaved' \in [Clients -> Copies],
           \A y \in Dirs : disk'[y] = IF y = d THEN dn ELSE disk[y],
           \A x \in Clients : op'[x] = IF x = c THEN r ELSE Stale(x, d),
           unsaved'[c] = un,
           \A x \in Clients, y \in Dirs : x # c => unsaved'[x][y] = IF y = d THEN NoDirnode ELSE unsaved[x][y],
           Tabled', files' \subseteq Uuids, interrupted \subseteq interrupted', interrupted' \subseteq Uuids,
           lock' \in [Dirs -> Clients \union {"free"}], HandsFit,
           \A y \in Dirs, x \in Clients \ {c} : lock[y] = x => lock'[y] = x,
           next_uuid' = next_uuid, failures' \in 0 .. MaxFailures,
           Shape(r, next_uuid), Holds(c, r, lock'),
           \A k \in Kinds3 : AllSound(k) => /\ Sound(dn, k, next_uuid) /\ SoundOp(r, k, next_uuid)
                                            /\ SoundCopies(un, k, next_uuid),
           KeepsCopies(un, disk', interrupted'), KeepsOp(r, disk', interrupted')
    PROVE  IInv'
<1>1. Typed /\ Operating /\ Kinded /\ Surviving
  BY DEF IInv
<1>2. op \in [Clients -> Op] /\ unsaved \in [Clients -> Copies] /\ disk \in [Dirs -> Dirnode]
  BY <1>1 DEF Typed
<1>3. unsaved'[c] = un /\ \A x \in Clients : op'[x] = IF x = c THEN r ELSE Stale(x, d)
  OBVIOUS
<1>4. \A y \in Dirs : disk'[y] = IF y = d THEN dn ELSE disk[y]
  OBVIOUS
<1>5. \A x \in Clients, y \in Dirs :
         x # c => unsaved'[x][y] = IF y = d THEN NoDirnode ELSE unsaved[x][y]
  OBVIOUS
<1>6. Typed'
  BY <1>1 DEF Typed, HandsFit
<1>7. Operating'
  <2> SUFFICES ASSUME NEW x \in Clients PROVE Shape(op'[x], next_uuid') /\ Holds(x, op'[x], lock')
    BY DEF Operating
  <2>1. CASE x = c
    BY <1>3, <2>1
  <2>2. CASE x # c
    <3>1. Shape(op[x], next_uuid) /\ Holds(x, op[x], lock) /\ op[x] \in Op
      BY <1>1, <1>2 DEF Operating
    <3>2. Holds(x, op[x], lock')
      BY <2>2, <3>1, HoldsStays
    <3>3. op'[x] = Stale(x, d)
      BY <1>3, <2>2
    <3>4. Shape(Stale(x, d), next_uuid)
      BY <1>1, <3>1, StaleFields DEF Shape
    <3>5. Holds(x, Stale(x, d), lock')
      BY <1>1, <3>2, StaleFields DEF Holds
    <3> QED
      BY <3>3, <3>4, <3>5
  <2> QED
    BY <2>1, <2>2
<1>8. Kinded'
  <2>1. PICK k \in Kinds3 : AllSound(k)
    BY <1>1 DEF Kinded
  <2>2. Sound(dn, k, next_uuid) /\ SoundOp(r, k, next_uuid) /\ SoundCopies(un, k, next_uuid)
    BY <2>1
  <2>3. \A y \in Dirs : Sound(disk'[y], k, next_uuid)
    BY <1>4, <2>1, <2>2 DEF AllSound
  <2>4. ASSUME NEW x \in Clients
        PROVE  /\ SoundCopies(unsaved'[x], k, next_uuid) /\ SoundOp(op'[x], k, next_uuid)
               /\ Sound(hand'[x].copy, k, next_uuid)
    <3>0. Sound(hand'[x].copy, k, next_uuid)
      BY <2>1 DEF HandsFit
    <3>1. CASE x = c
      BY <1>3, <2>2, <3>0, <3>1
    <3>2. CASE x # c
      <4>1. SoundCopies(unsaved[x], k, next_uuid) /\ SoundOp(op[x], k, next_uuid)
        BY <2>1 DEF AllSound
      <4>2. SoundCopies(unsaved'[x], k, next_uuid)
        BY <1>5, <3>2, <4>1 DEF SoundCopies
      <4>3. SoundOp(Stale(x, d), k, next_uuid)
        BY <1>1, <4>1, StaleFields DEF SoundOp
      <4> QED
        BY <1>3, <3>0, <3>2, <4>2, <4>3
    <3> QED
      BY <3>1, <3>2
  <2>5. AllSound(k)'
    BY <2>3, <2>4 DEF AllSound
  <2> QED
    BY <2>5 DEF Kinded
<1>9. Surviving'
  <2> SUFFICES ASSUME NEW x \in Clients
               PROVE  KeepsCopies(unsaved'[x], disk', interrupted') /\ KeepsOp(op'[x], disk', interrupted')
    BY DEF Surviving
  <2>1. CASE x = c
    BY <1>3, <2>1
  <2>2. CASE x # c
    <3>1. /\ KeepsCopies(unsaved[x], disk, interrupted') /\ KeepsOp(op[x], disk, interrupted')
          /\ Shape(op[x], next_uuid) /\ Holds(x, op[x], lock) /\ op[x] \in Op
      BY <1>1, <1>2, KeepsCopiesStay, KeepsOpStays DEF Surviving, Operating
    <3>2. KeepsCopies(unsaved'[x], disk', interrupted')
      BY <1>4, <1>5, <2>2, <3>1 DEF KeepsCopies
    <3>3. KeepsOp(Stale(x, d), disk', interrupted')
      <4> DEFINE o == op[x]
                 s == Stale(x, d)
      <4>1. /\ s.kind = o.kind /\ s.pc = o.pc /\ s.dir = o.dir /\ s.dir2 = o.dir2 /\ s.uuid = o.uuid
            /\ s.work = o.work /\ s.work2 = o.work2 /\ s.overwritten = o.overwritten
            /\ s.fresh <=> o.fresh /\ ~(o.kind = "hardlink" /\ o.dir = d)
        BY <1>1, StaleFields
      <4>2. o.dir2 # "none" => o.dir2 \in Dirs
        BY <3>1, OpFields
      <4> HIDE DEF s
      <4>3. \A w, old : Keeps(w, old, interrupted', o) => Keeps(w, old, interrupted', s)
        BY <4>1, KeepsFrame
      <4>4. o.kind = "hardlink" => /\ s.fresh => Keeps(s.work, disk'[s.dir], interrupted', NoOp)
                                   /\ s.dir = s.dir2 => s.fresh
                                   /\ Keeps(s.work2, disk'[s.dir2], interrupted', NoOp)
        <5> SUFFICES ASSUME o.kind = "hardlink"
                     PROVE  /\ s.fresh => Keeps(s.work, disk'[s.dir], interrupted', NoOp)
                            /\ s.dir = s.dir2 => s.fresh
                            /\ Keeps(s.work2, disk'[s.dir2], interrupted', NoOp)
          OBVIOUS
        <5>1. o.dir \in Dirs /\ lock[o.dir2] = x /\ o.dir2 \in Dirs
          BY <3>1 DEF Shape, Holds
        <5>2. o.dir2 # d
          BY <2>2, <5>1
        <5> QED
          BY <1>4, <3>1, <4>1, <5>1, <5>2 DEF KeepsOp
      <4>5. o.kind = "remove" \/ o.pc \in {"lock2", "store"} => disk'[o.dir] = disk[o.dir]
        BY <1>4, <2>2, <3>1 DEF Shape, Holds
      <4>6. o.pc = "store2" \/ (o.pc = "store" /\ o.dir2 # "none") => disk'[o.dir2] = disk[o.dir2]
        BY <1>4, <2>2, <3>1, <4>2 DEF Shape, Holds
      <4>7. s.pc = "lock2" => Keeps(s.work, disk'[s.dir], interrupted', NoOp)
        BY <3>1, <4>1, <4>5 DEF KeepsOp
      <4>8. s.kind = "remove" \/ s.pc = "store" => Keeps(s.work, disk'[s.dir], interrupted', s)
        <5>1. o.kind = "remove" \/ o.pc = "store" => Keeps(o.work, disk[o.dir], interrupted', o)
          BY <3>1 DEF KeepsOp
        <5> QED
          BY <4>1, <4>3, <4>5, <5>1
      <4>9. s.pc = "store2" \/ (s.pc = "store" /\ s.dir2 # "none")
               => Keeps(s.work2, disk'[s.dir2], interrupted', s)
        <5>1. o.pc = "store2" \/ (o.pc = "store" /\ o.dir2 # "none")
                 => Keeps(o.work2, disk[o.dir2], interrupted', o)
          BY <3>1 DEF KeepsOp
        <5> QED
          BY <4>1, <4>3, <4>6, <5>1
      <4>10. s.kind = "hardlink" => /\ s.fresh => Keeps(s.work, disk'[s.dir], interrupted', NoOp)
                                    /\ s.dir = s.dir2 => s.fresh
                                    /\ Keeps(s.work2, disk'[s.dir2], interrupted', NoOp)
        BY <4>1, <4>4
      <4>11. KeepsOp(s, disk', interrupted')
        BY <4>7, <4>8, <4>9, <4>10 DEF KeepsOp
      <4> QED
        BY <4>11 DEF s
    <3> QED
      BY <1>3, <2>2, <3>2, <3>3
  <2> QED
    BY <2>1, <2>2
<1> QED
  BY <1>6, <1>7, <1>8, <1>9 DEF IInv

(* The variables after a store, as a whole and point by point.             *)
OpsAfter(c, d, r)     == [x \in Clients |-> IF x = c THEN r ELSE Stale(x, d)]
CopiesAfter(c, d, un) == [x \in Clients |-> IF x = c THEN un ELSE [unsaved[x] EXCEPT ![d] = NoDirnode]]

LEMMA Published ==
    ASSUME Typed, NEW c \in Clients, NEW d \in Dirs, NEW dn \in Dirnode, NEW r \in Op, NEW un \in Copies,
           disk' = [disk EXCEPT ![d] = dn],
           op' = OpsAfter(c, d, r),
           unsaved' = CopiesAfter(c, d, un)
    PROVE  /\ disk' \in [Dirs -> Dirnode] /\ op' \in [Clients -> Op] /\ unsaved' \in [Clients -> Copies]
           /\ \A y \in Dirs : disk'[y] = IF y = d THEN dn ELSE disk[y]
           /\ \A x \in Clients : op'[x] = IF x = c THEN r ELSE Stale(x, d)
           /\ unsaved'[c] = un
           /\ \A x \in Clients, y \in Dirs : x # c => unsaved'[x][y] = IF y = d THEN NoDirnode ELSE unsaved[x][y]
<1>1. unsaved \in [Clients -> Copies] /\ disk \in [Dirs -> Dirnode]
  BY DEF Typed
<1>2. op' \in [Clients -> Op]
  BY StaleFields DEF OpsAfter
<1>3. \A x \in Clients : /\ [unsaved[x] EXCEPT ![d] = NoDirnode] \in Copies
                         /\ \A y \in Dirs : [unsaved[x] EXCEPT ![d] = NoDirnode][y]
                                               = IF y = d THEN NoDirnode ELSE unsaved[x][y]
  BY <1>1 DEF Copies
<1>4. unsaved' \in [Clients -> Copies]
  BY <1>3 DEF CopiesAfter
<1> QED
  BY <1>1, <1>2, <1>3, <1>4 DEF OpsAfter, CopiesAfter

(* A step of c that leaves all the cached dirnodes alone.                  *)
LEMMA OpFrame ==
    ASSUME IInv, NEW c \in Clients, NEW r \in Op,
           op' = [op EXCEPT ![c] = r], UNCHANGED <<disk, unsaved>>,
           Tabled', files' \subseteq Uuids, interrupted \subseteq interrupted', interrupted' \subseteq Uuids,
           lock' \in [Dirs -> Clients \union {"free"}], HandsFit,
           \A d \in Dirs, x \in Clients \ {c} : lock[d] = x => lock'[d] = x,
           next_uuid' \in 0 .. MaxUuid, next_uuid <= next_uuid', failures' \in 0 .. MaxFailures,
           Shape(r, next_uuid'), Holds(c, r, lock'),
           \A k \in Kinds3 : AllSound(k) =>
              \E k2 \in Kinds3 : (\A u \in 1 .. next_uuid : k2[u] = k[u]) /\ SoundOp(r, k2, next_uuid'),
           KeepsOp(r, disk, interrupted')
    PROVE  IInv'
<1>1. Typed /\ Surviving
  BY DEF IInv
<1>2. PICK un : un = unsaved[c]
  OBVIOUS
<1>3. un \in Copies /\ unsaved' = [unsaved EXCEPT ![c] = un]
  BY <1>1, <1>2 DEF Typed
<1>4. disk' = disk
  OBVIOUS
<1>5. KeepsCopies(un, disk, interrupted')
  BY <1>1, <1>2, KeepsCopiesStay DEF Surviving
<1>6. next_uuid \in Nat /\ next_uuid' \in Nat
  BY <1>1, BoundsAssumption DEF Typed
<1>7. ASSUME NEW k \in Kinds3, AllSound(k)
      PROVE  \E k2 \in Kinds3 : /\ \A u \in 1 .. next_uuid : k2[u] = k[u]
                                /\ SoundOp(r, k2, next_uuid') /\ SoundCopies(un, k2, next_uuid')
  <2>1. PICK k2 \in Kinds3 : (\A u \in 1 .. next_uuid : k2[u] = k[u]) /\ SoundOp(r, k2, next_uuid')
    BY <1>7
  <2>2. SoundCopies(un, k, next_uuid)
    BY <1>2, <1>7 DEF AllSound
  <2>3. SoundCopies(un, k2, next_uuid')
    BY <1>6, <2>1, <2>2, SoundCopiesGrow
  <2> QED
    BY <2>1, <2>3
<1> QED
  BY <1>3, <1>4, <1>5, <1>7, Frame

LEMMA NoOpFits ==
    /\ \A last : Shape(NoOp, last)
    /\ \A c, lck : Holds(c, NoOp, lck)
    /\ \A k, last : SoundOp(NoOp, k, last)
    /\ \A dsk, lost : KeepsOp(NoOp, dsk, lost)
<1>1. \A last : Shape(NoOp, last)
  BY NoOpFields DEF Shape
<1>2. \A c, lck : Holds(c, NoOp, lck)
  BY NoOpFields DEF Holds
<1>3. \A k, last : SoundOp(NoOp, k, last)
  BY NoOpFields, EmptyIsSound DEF SoundOp
<1>4. \A dsk, lost : KeepsOp(NoOp, dsk, lost)
  BY NoOpFields DEF KeepsOp
<1> QED
  BY <1>1, <1>2, <1>3, <1>4

LEMMA EndLocks ==
    ASSUME Typed, NEW c \in Clients, lock' = Released(c)
    PROVE  /\ lock' \in [Dirs -> Clients \union {"free"}]
           /\ \A d \in Dirs, x \in Clients \ {c} : lock[d] = x => lock'[d] = x
BY DEF Typed, Released

(* The operation of c ends without storing a dirnode.                      *)
LEMMA EndFrame ==
    ASSUME IInv, NEW c \in Clients, NEW un \in Copies, op' = [op EXCEPT ![c] = NoOp],
           lock' \in [Dirs -> Clients \union {"free"}], HandsFit,
           \A d \in Dirs, x \in Clients \ {c} : lock[d] = x => lock'[d] = x,
           unsaved' = [unsaved EXCEPT ![c] = un], disk' = disk,
           Tabled', files' \subseteq Uuids, interrupted \subseteq interrupted', interrupted' \subseteq Uuids,
           next_uuid' = next_uuid, failures' \in 0 .. MaxFailures,
           \A k \in Kinds3 : AllSound(k) => SoundCopies(un, k, next_uuid),
           KeepsCopies(un, disk, interrupted')
    PROVE  IInv'
<1>1. Typed
  BY DEF IInv
<1>3. next_uuid \in 0 .. MaxUuid /\ next_uuid' \in 0 .. MaxUuid /\ next_uuid <= next_uuid'
  BY <1>1, BoundsAssumption DEF Typed
<1>4. NoOp \in Op /\ Shape(NoOp, next_uuid') /\ Holds(c, NoOp, lock') /\ KeepsOp(NoOp, disk, interrupted')
  BY NoOpFields, NoOpFits
<1>5. ASSUME NEW k \in Kinds3, AllSound(k)
      PROVE  \E k2 \in Kinds3 : /\ \A u \in 1 .. next_uuid : k2[u] = k[u]
                                /\ SoundOp(NoOp, k2, next_uuid') /\ SoundCopies(un, k2, next_uuid')
  BY <1>5, NoOpFits
<1> HIDE DEF NoOp
<1> QED
  BY <1>3, <1>4, <1>5, Frame

LEMMA EndSame ==
    ASSUME IInv, NEW c \in Clients, op' = [op EXCEPT ![c] = NoOp], lock' = Released(c), HandsFit, UNCHANGED <<disk, unsaved, next_uuid>>,
           Tabled', files' \subseteq Uuids, interrupted \subseteq interrupted', interrupted' \subseteq Uuids,
           failures' \in 0 .. MaxFailures
    PROVE  IInv'
<1>1. Typed /\ Surviving
  BY DEF IInv
<1>2. PICK un : un = unsaved[c]
  OBVIOUS
<1>3. un \in Copies /\ unsaved' = [unsaved EXCEPT ![c] = un]
  BY <1>1, <1>2 DEF Typed
<1>4. KeepsCopies(un, disk, interrupted')
  BY <1>1, <1>2, KeepsCopiesStay DEF Surviving
<1>5. \A k \in Kinds3 : AllSound(k) => SoundCopies(un, k, next_uuid)
  BY <1>2 DEF AllSound
<1>6. /\ lock' \in [Dirs -> Clients \union {"free"}]
      /\ \A d \in Dirs, x \in Clients \ {c} : lock[d] = x => lock'[d] = x
  BY <1>1, EndLocks
<1> QED
  BY <1>3, <1>4, <1>5, <1>6, EndFrame

LEMMA EndHands ==
    ASSUME Typed, NEW c \in Clients, EndOp(c)
    PROVE  HandsFit /\ op' = [op EXCEPT ![c] = NoOp] /\ lock' = Released(c)
BY HandsStay DEF EndOp, Typed

LEMMA CachedFits ==
    ASSUME IInv, NEW c \in Clients, NEW d \in Dirs
    PROVE  /\ Cached(c, d) \in Dirnode
           /\ \A k \in Kinds3 : AllSound(k) => Sound(Cached(c, d), k, next_uuid)
           /\ Keeps(Cached(c, d), disk[d], interrupted, NoOp)
<1>1. Typed /\ Surviving
  BY DEF IInv
<1>2. disk[d] \in Dirnode /\ unsaved[c][d] \in Dirnode \union {NoDirnode}
  BY <1>1 DEF Typed, Copies
<1>3. Cached(c, d) \in Dirnode
  BY <1>2 DEF Cached
<1>4. \A k \in Kinds3 : AllSound(k) => Sound(Cached(c, d), k, next_uuid)
  BY DEF AllSound, SoundCopies, Cached
<1>5. CASE unsaved[c][d] = NoDirnode
  BY <1>3, <1>4, <1>5, KeepsItself DEF Cached
<1>6. CASE unsaved[c][d] # NoDirnode
  <2>1. KeepsCopies(unsaved[c], disk, interrupted)
    BY <1>1 DEF Surviving
  <2>2. Keeps(unsaved[c][d], disk[d], interrupted, NoOp)
    BY <1>6, <2>1 DEF KeepsCopies
  <2>3. Cached(c, d) = unsaved[c][d]
    BY <1>6 DEF Cached
  <2> QED
    BY <1>3, <1>4, <2>2, <2>3
<1> QED
  BY <1>5, <1>6

(* What a client gets with the lock: its copy keeps all of the stored      *)
(* dirnode but what another client changed while it waited.                *)
LEMMA AcquireFits ==
    ASSUME IInv, NEW c \in Clients, NEW d \in Dirs, Lockable(c, d)
    PROVE  /\ Copy(c, d) \in Dirnode /\ Differ(c, d) \subseteq Uuids
           /\ \A k \in Kinds3 : AllSound(k) => Sound(Copy(c, d), k, next_uuid)
           /\ Keeps(Copy(c, d), disk[d], interrupted \union Differ(c, d), NoOp)
           /\ \A e \in Dirs : e # d => Copy(c, e) = Cached(c, e)
           /\ Counted(c, d) \in Lefts
<1>1. Typed /\ Kinded
  BY DEF IInv
<1> DEFINE dn == Copy(c, d)
           cd == Cached(c, d)
<1>2. /\ cd \in Dirnode /\ \A k \in Kinds3 : AllSound(k) => Sound(cd, k, next_uuid)
      /\ Keeps(cd, disk[d], interrupted, NoOp)
  BY CachedFits
<1>3. hand[c].copy \in Dirnode /\ \A k \in Kinds3 : AllSound(k) => Sound(hand[c].copy, k, next_uuid)
  BY <1>1 DEF Typed, Hands, AllSound
<1>4. dn \in Dirnode /\ \A k \in Kinds3 : AllSound(k) => Sound(dn, k, next_uuid)
  BY <1>2, <1>3 DEF Copy
<1>5. Differ(c, d) = {u \in Uuids : \E n \in Names : /\ dn.entries[n] # cd.entries[n]
                                                    /\ u \in {dn.entries[n].uuid, cd.entries[n].uuid}}
  BY DEF Differ
<1>6. \A e \in Dirs : e # d => Copy(c, e) = Cached(c, e)
  BY SetsAssumption DEF Lockable, Copy
<1>7. Counted(c, d) \in Lefts
  BY <1>1 DEF Typed, Counted, Lefts
<1> HIDE DEF dn, cd
<1>8. \A n \in Names : cd.entries[n].uuid \in Uuids \union {0}
  BY <1>2, DirnodeFields DEF Entry
<1>9. Differ(c, d) \subseteq Uuids
  BY <1>5
<1>10. Keeps(dn, disk[d], interrupted \union Differ(c, d), NoOp)
  <2> SUFFICES ASSUME NEW n \in Names, disk[d].entries[n] # NoEntry,
                      disk[d].entries[n].uuid \notin interrupted \union Differ(c, d)
               PROVE  \E m \in Names : dn.entries[m] = disk[d].entries[n]
    BY DEF Keeps
  <2>1. ~Excuses(NoOp, disk[d].entries[n])
    BY NoOpFields DEF Excuses
  <2>2. PICK m \in Names : cd.entries[m] = disk[d].entries[n]
    BY <1>2, <2>1 DEF Keeps
  <2>3. PICK k \in Kinds3 : AllSound(k)
    BY <1>1 DEF Kinded
  <2>4. Sound(disk[d], k, next_uuid) /\ next_uuid \in Nat
    BY <1>1, <2>3, BoundsAssumption DEF AllSound, Typed
  <2>5. disk[d].entries[n].uuid # 0
    BY <2>4 DEF Sound, Fits
  <2>6. dn.entries[m] = cd.entries[m]
    BY <1>5, <1>8, <2>2, <2>5
  <2> QED
    BY <2>2, <2>6
<1> QED
  BY <1>4, <1>6, <1>7, <1>9, <1>10 DEF dn

LEMMA AcquireFrame ==
    ASSUME IInv, NEW c \in Clients, NEW d \in Dirs, Acquire(c, d), left' \in Lefts
    PROVE  /\ lock' \in [Dirs -> Clients \union {"free"}] /\ lock'[d] = c
           /\ \A y \in Dirs, x \in Clients \ {c} : lock[y] = x => lock'[y] = x
           /\ \A y \in Dirs : lock[y] = c => lock'[y] = c
           /\ interrupted' = interrupted \union Differ(c, d)
           /\ interrupted \subseteq interrupted' /\ interrupted' \subseteq Uuids
           /\ HandsFit
<1>1. Typed
  BY DEF IInv
<1>2. HandsFit
  BY <1>1, HandsStay DEF Acquire
<1>3. /\ lock' \in [Dirs -> Clients \union {"free"}] /\ lock'[d] = c
      /\ \A y \in Dirs, x \in Clients \ {c} : lock[y] = x => lock'[y] = x
      /\ \A y \in Dirs : lock[y] = c => lock'[y] = c
  BY <1>1, SetsAssumption DEF Typed, Acquire, Lockable
<1>4. Differ(c, d) \subseteq Uuids
  BY AcquireFits DEF Acquire
<1> QED
  BY <1>1, <1>2, <1>3, <1>4 DEF Acquire, Typed

LEMMA TableTyped ==
    ASSUME Typed, NEW c \in Clients
    PROVE  Table(c) \in Tables /\ TableCopy(c) \in Tables /\ Miscounted(c) \subseteq Uuids
<1>1. op[c].table \in Tables \union {NoTable}
  BY OpFields DEF Typed
<1> QED
  BY <1>1 DEF Typed, Tabled, Table, TableCopy, Miscounted

LEMMA CountsTyped ==
    ASSUME NEW t \in Tables, NEW u \in Uuids
    PROVE  hardlink_table_incr_uuid(t, u) \in Tables /\ hardlink_table_decr_uuid(t, u) \in Tables
<1>1. t[u] \in Nat /\ t[u] # 1
  BY DEF Tables
<1>2. PICK i \in Nat \ {1} : i = IF t[u] = 0 THEN 2 ELSE t[u] + 1
  BY <1>1
<1>3. PICK j \in Int : j = IF t[u] - 1 < 2 THEN 0 ELSE t[u] - 1
  BY <1>1
<1>4. j \in Nat \ {1}
  BY <1>1, <1>3
<1>5. hardlink_table_incr_uuid(t, u) = [t EXCEPT ![u] = i]
  BY <1>2 DEF hardlink_table_incr_uuid
<1>6. hardlink_table_decr_uuid(t, u) = [t EXCEPT ![u] = j]
  BY <1>3 DEF hardlink_table_decr_uuid
<1> QED
  BY <1>2, <1>4, <1>5, <1>6 DEF Tables

LEMMA TabledAfter ==
    ASSUME Tabled, NEW c \in Clients, NEW t \in Tables, acquire_hardlink_table(c),
           flush_hardlink_table(c, t) \/ FlushFails(c, t) \/ UNCHANGED <<table, deferred, leaked>>
    PROVE  Tabled'
<1>1. CASE flush_hardlink_table(c, t)
  BY <1>1 DEF Tabled, acquire_hardlink_table, flush_hardlink_table
<1>2. CASE FlushFails(c, t)
  BY <1>2 DEF Tabled, acquire_hardlink_table, FlushFails
<1>3. CASE UNCHANGED <<table, deferred, leaked>>
  BY <1>3 DEF Tabled, acquire_hardlink_table
<1> QED
  BY <1>1, <1>2, <1>3
-----------------------------------------------------------------------------
(* The operations begin.                                                   *)

LEMMA NewStep ==
    ASSUME IInv, NEW c \in Clients, NEW kind, NEW type \in FileTypes, NEW d \in Dirs, NEW n \in Names,
           New(c, kind, type, d, n)
    PROVE  IInv'
<1> DEFINE u == next_uuid + 1
           e == [uuid |-> u, type |-> type]
           dn == Copy(c, d)
<1>1. Typed /\ Operating /\ Surviving
  BY DEF IInv
<1>2. /\ next_uuid \in Nat /\ u \in Uuids /\ next_uuid' = u /\ u \in 0 .. MaxUuid /\ u <= MaxUuid
      /\ next_uuid <= next_uuid' /\ next_uuid' \in 0 .. MaxUuid
  BY <1>1, BoundsAssumption DEF Typed, New, Uuids
<1>3. /\ UNCHANGED <<disk, unsaved>> /\ files' \subseteq Uuids /\ Tabled'
      /\ failures' \in 0 .. MaxFailures
  BY <1>1, <1>2 DEF Typed, Tabled, New, tables
<1>0. Lockable(c, d) /\ left' \in Lefts
  BY AcquireFits DEF New, Acquire
<1>4. CASE Has(dn, n)
  <2>1. UNCHANGED <<op, lock, interrupted>> /\ hand' = [hand EXCEPT ![c] = NoHand]
    BY <1>4 DEF New
  <2>0. HandsFit /\ interrupted \subseteq interrupted' /\ interrupted' \subseteq Uuids
    BY <1>0, <1>1, <2>1, HandsStay DEF Typed
  <2>2. PICK r : r = op[c]
    OBVIOUS
  <2>3. r \in Op /\ op' = [op EXCEPT ![c] = r]
    BY <1>1, <2>1, <2>2 DEF Typed
  <2>4. /\ lock' \in [Dirs -> Clients \union {"free"}]
        /\ \A y \in Dirs, x \in Clients \ {c} : lock[y] = x => lock'[y] = x
    BY <1>1, <2>1 DEF Typed
  <2>5. Shape(r, next_uuid) /\ Holds(c, r, lock') /\ KeepsOp(r, disk, interrupted')
    BY <1>1, <2>1, <2>2 DEF Operating, Surviving
  <2>6. next_uuid' \in Nat
    BY <1>2
  <2>7. Shape(r, next_uuid')
    BY <1>2, <2>5, <2>6, ShapeGrows
  <2>8. ASSUME NEW k \in Kinds3, AllSound(k)
        PROVE  \E k2 \in Kinds3 : (\A v \in 1 .. next_uuid : k2[v] = k[v]) /\ SoundOp(r, k2, next_uuid')
    <3>1. SoundOp(r, k, next_uuid)
      BY <2>2, <2>8 DEF AllSound
    <3>2. SoundOp(r, k, next_uuid')
      BY <1>2, <2>5, <2>6, <3>1, SoundOpGrows
    <3> QED
      BY <3>2
  <2> QED
    BY <1>2, <1>3, <2>0, <2>3, <2>4, <2>5, <2>7, <2>8, OpFrame
<1>5. CASE ~Has(dn, n)
  <2>1. /\ dn \in Dirnode /\ \A k \in Kinds3 : AllSound(k) => Sound(dn, k, next_uuid)
        /\ Keeps(dn, disk[d], interrupted \union Differ(c, d), NoOp) /\ dn.entries[n] = NoEntry
    BY <1>0, <1>5, AcquireFits DEF Has
  <2>2. e \in Entry /\ e.uuid = u /\ e.type = type
    BY <1>2 DEF Entry, FileTypes
  <2> HIDE DEF e, dn, u
  <2> DEFINE added == dirnode_add(dn, n, e)
  <2>3. added \in Dirnode /\ \A m \in Names : added.entries[m] = IF m = n THEN e ELSE dn.entries[m]
    BY <2>1, <2>2, Added
  <2>4. /\ WithSymlink(added, u) \in Dirnode
        /\ WithSymlink(added, u).entries = added.entries
    BY <1>2, <2>3, SymlinkAdded
  <2>5. PICK w : w = IF type = "LNK" THEN WithSymlink(added, u) ELSE added
    OBVIOUS
  <2>6. w \in Dirnode /\ \A m \in Names : w.entries[m] = IF m = n THEN e ELSE dn.entries[m]
    <3> HIDE DEF added
    <3> QED
      BY <2>3, <2>4, <2>5
  <2> DEFINE r == [NoOp EXCEPT !.pc = "store", !.dir = d, !.work = w]
  <2>7. Acquire(c, d) /\ op' = [op EXCEPT ![c] = r]
    BY <1>5, <2>5 DEF New, added, e, dn, u
  <2>8. r \in Op
    BY <2>6, NoOpFields DEF Op
  <2>9. /\ r.kind = "none" /\ r.pc = "store" /\ r.dir = d /\ r.dir2 = "none" /\ r.work = w
        /\ r.work2 = Empty
    BY NoOpFields DEF Op
  <2> HIDE DEF r
  <2>10. /\ lock' \in [Dirs -> Clients \union {"free"}] /\ lock'[d] = c /\ HandsFit
         /\ \A y \in Dirs, x \in Clients \ {c} : lock[y] = x => lock'[y] = x
         /\ interrupted' = interrupted \union Differ(c, d)
         /\ interrupted \subseteq interrupted' /\ interrupted' \subseteq Uuids
    BY <1>0, <2>7, AcquireFrame
  <2>11. Shape(r, next_uuid') /\ Holds(c, r, lock')
    BY <2>9, <2>10 DEF Shape, Holds
  <2>12. Keeps(w, disk[d], interrupted', r)
    <3>1. dn.entries[n] = NoEntry \/ (r.kind = "rename" /\ r.overwritten = dn.entries[n])
      BY <2>1
    <3>2. Keeps(dn, disk[d], interrupted', NoOp)
      BY <2>1, <2>10
    <3>3. \A m \in Names : m # n => w.entries[m] = dn.entries[m]
      BY <2>6
    <3> QED
      BY <3>1, <3>2, <3>3, KeepsAdded
  <2>13. KeepsOp(r, disk, interrupted')
    BY <2>9, <2>12 DEF KeepsOp
  <2>14. ASSUME NEW k \in Kinds3, AllSound(k)
         PROVE  \E k2 \in Kinds3 : (\A v \in 1 .. next_uuid : k2[v] = k[v]) /\ SoundOp(r, k2, next_uuid')
    <3> DEFINE k2 == [k EXCEPT ![u] = type]
    <3>1. k2 \in Kinds3 /\ k2[u] = type /\ \A v \in 1 .. next_uuid : k2[v] = k[v]
      BY <1>2 DEF Kinds3, u
    <3> HIDE DEF k2
    <3>2. Sound(dn, k, next_uuid)
      BY <2>1, <2>14
    <3>3. u \in Nat /\ next_uuid <= u /\ u \in 1 .. u
      BY <1>2 DEF u
    <3>4. Sound(dn, k2, u)
      BY <1>2, <3>1, <3>2, <3>3, SoundGrows
    <3>5. Fits(e, k2, u)
      BY <2>2, <3>1, <3>3 DEF Fits
    <3>6. Sound(w, k2, u)
      <4>1. CASE type = "LNK"
        <5>1. Sound(WithSymlink(dirnode_add(dn, n, e), e.uuid), k2, u)
          BY <1>2, <2>1, <2>2, <3>4, <3>5, AddLinkIsSound
        <5> QED
          BY <2>2, <2>5, <4>1, <5>1
      <4>2. CASE type # "LNK"
        <5>1. Sound(dirnode_add(dn, n, e), k2, u)
          BY <2>1, <2>2, <3>4, <3>5, <4>2, AddIsSound
        <5> QED
          BY <2>5, <4>2, <5>1
      <4> QED
        BY <4>1, <4>2
    <3>7. SoundOp(r, k2, next_uuid')
      BY <1>2, <2>9, <3>6, EmptyIsSound DEF SoundOp
    <3> QED
      BY <3>1, <3>7
  <2> QED
    BY <1>2, <1>3, <2>7, <2>8, <2>10, <2>11, <2>13, <2>14, OpFrame
<1> QED
  BY <1>4, <1>5

LEMMA RemoveStep ==
    ASSUME IInv, NEW c \in Clients, NEW d \in Dirs, NEW n \in Names, ecall_fs_remove(c, d, n)
    PROVE  IInv'
<1> DEFINE dn == Copy(c, d)
           e  == dn.entries[n]
<1>1. Typed /\ Operating /\ Kinded /\ Surviving
  BY DEF IInv
<1>2. /\ dn \in Dirnode /\ \A k \in Kinds3 : AllSound(k) => Sound(dn, k, next_uuid)
      /\ Keeps(dn, disk[d], interrupted \union Differ(c, d), NoOp) /\ left' \in Lefts
  BY AcquireFits DEF ecall_fs_remove, Acquire
<1>3. e # NoEntry
  BY DEF ecall_fs_remove, Has
<1>4. e.uuid \in 1 .. next_uuid
  <2>1. PICK k \in Kinds3 : AllSound(k)
    BY <1>1 DEF Kinded
  <2>2. Sound(dn, k, next_uuid)
    BY <1>2, <2>1
  <2> HIDE DEF dn
  <2> QED
    BY <1>3, <2>2 DEF Sound, Fits
<1>5. next_uuid \in 0 .. MaxUuid /\ e.uuid \in Uuids
  BY <1>1, <1>4, BoundsAssumption DEF Typed, Uuids
<1> DEFINE w == clobber(dn, n)
<1>6. w \in Dirnode /\ \A m \in Names : w.entries[m] = IF m = n THEN NoEntry ELSE dn.entries[m]
  BY <1>2, Clobbered
<1>7. PICK pc \in {"table", "store"} : pc = IF e.type = "REG" THEN "table" ELSE "store"
  OBVIOUS
<1> DEFINE r == [NoOp EXCEPT !.kind = "remove", !.dir = d, !.uuid = e.uuid, !.pc = pc, !.work = w]
<1>8. Acquire(c, d) /\ op' = [op EXCEPT ![c] = r]
  BY <1>7 DEF ecall_fs_remove
<1> HIDE DEF w, e, dn
<1>9. r \in Op
  BY <1>5, <1>6, NoOpFields DEF Op
<1>10. /\ r.kind = "remove" /\ r.pc = pc /\ r.dir = d /\ r.dir2 = "none" /\ r.work = w
       /\ r.work2 = Empty /\ r.uuid = e.uuid
  BY NoOpFields DEF Op
<1> HIDE DEF r
<1>11. /\ lock' \in [Dirs -> Clients \union {"free"}] /\ lock'[d] = c /\ HandsFit
       /\ \A y \in Dirs, x \in Clients \ {c} : lock[y] = x => lock'[y] = x
       /\ interrupted' = interrupted \union Differ(c, d)
       /\ interrupted \subseteq interrupted' /\ interrupted' \subseteq Uuids
  BY <1>2, <1>8, AcquireFrame
<1>12. /\ UNCHANGED <<disk, unsaved, next_uuid>> /\ files' \subseteq Uuids /\ Tabled'
       /\ failures' \in 0 .. MaxFailures
  BY <1>1 DEF Typed, Tabled, ecall_fs_remove, nexus_vfs_delete, tables
<1>13. Shape(r, next_uuid') /\ Holds(c, r, lock')
  BY <1>4, <1>7, <1>10, <1>11, <1>12 DEF Shape, Holds
<1>14. Keeps(w, disk[d], interrupted', r)
  <2>1. Keeps(dn, disk[d], interrupted', NoOp)
    BY <1>2, <1>11
  <2> QED
    BY <1>6, <1>10, <2>1, KeepsClobbered DEF e
<1>15. KeepsOp(r, disk, interrupted')
  BY <1>7, <1>10, <1>14 DEF KeepsOp
<1>16. ASSUME NEW k \in Kinds3, AllSound(k)
       PROVE  \E k2 \in Kinds3 : (\A v \in 1 .. next_uuid : k2[v] = k[v]) /\ SoundOp(r, k2, next_uuid')
  <2>1. Sound(w, k, next_uuid)
    BY <1>2, <1>16, ClobberIsSound DEF w
  <2> QED
    BY <1>10, <1>12, <2>1, EmptyIsSound DEF SoundOp
<1>17. next_uuid' \in 0 .. MaxUuid /\ next_uuid <= next_uuid'
  BY <1>5, <1>12, BoundsAssumption
<1> QED
  BY <1>8, <1>9, <1>11, <1>12, <1>13, <1>15, <1>16, <1>17, OpFrame

LEMMA HardlinkStep ==
    ASSUME IInv, NEW c \in Clients, NEW d \in Dirs, NEW n \in Names, NEW d2 \in Dirs, NEW m \in Names,
           ecall_fs_hardlink(c, d, n, d2, m)
    PROVE  IInv'
<1> DEFINE dn == Copy(c, d)
           tn == Copy(c, d2)
           e  == tn.entries[m]
<1>1. Typed /\ Operating /\ Kinded /\ Surviving
  BY DEF IInv
<1>0. Acquire(c, d2) /\ Lockable(c, d2)
  BY DEF ecall_fs_hardlink, Acquire
<1>6. /\ tn \in Dirnode /\ \A k \in Kinds3 : AllSound(k) => Sound(tn, k, next_uuid)
      /\ Keeps(tn, disk[d2], interrupted \union Differ(c, d2), NoOp)
      /\ d # d2 => dn = Cached(c, d)
  BY <1>0, AcquireFits
<1>2. /\ dn \in Dirnode /\ \A k \in Kinds3 : AllSound(k) => Sound(dn, k, next_uuid)
      /\ Keeps(dn, disk[d], interrupted \union Differ(c, d2), NoOp)
  <2>1. CASE d = d2
    BY <1>6, <2>1
  <2>2. CASE d # d2
    <3>1. Keeps(Cached(c, d), disk[d], interrupted \union Differ(c, d2), NoOp)
      BY CachedFits, KeepsFrame
    <3> QED
      BY <1>6, <2>2, <3>1, CachedFits
  <2> QED
    BY <2>1, <2>2
<1>7. left' \in Lefts
  <2>1. Counted(c, d2) \in Lefts
    BY <1>0, AcquireFits
  <2> QED
    BY <2>1 DEF ecall_fs_hardlink, Lefts
<1>3. e.type = "REG"
  BY DEF ecall_fs_hardlink
<1>4. \A k \in Kinds3 : AllSound(k) => e.uuid \in 1 .. next_uuid /\ k[e.uuid] = "REG"
  <2> SUFFICES ASSUME NEW k \in Kinds3, AllSound(k)
               PROVE  e.uuid \in 1 .. next_uuid /\ k[e.uuid] = "REG"
    OBVIOUS
  <2>1. Sound(tn, k, next_uuid)
    BY <1>6
  <2>2. Fits(e, k, next_uuid)
    BY <2>1 DEF Sound
  <2> HIDE DEF e
  <2> QED
    BY <1>3, <2>2, Basics DEF Fits
<1>5. e.uuid \in 1 .. next_uuid /\ next_uuid \in 0 .. MaxUuid /\ e.uuid \in Uuids
  BY <1>1, <1>4, BoundsAssumption DEF Kinded, Typed, Uuids
<1>14. PICK dirty \in BOOLEAN : dirty = Dirty(c, d2)
  BY <1>1 DEF Dirty, Typed, Hands
<1> DEFINE r == [NoOp EXCEPT !.kind = "hardlink", !.pc = "table", !.uuid = e.uuid,
                             !.dir = d, !.name = n, !.dir2 = d2, !.work = dn, !.work2 = tn, !.dirty = dirty]
<1>8. op' = [op EXCEPT ![c] = r]
  BY <1>14 DEF ecall_fs_hardlink
<1> HIDE DEF e, dn, tn
<1>9. r \in Op
  BY <1>2, <1>5, <1>6, NoOpFields DEF Op
<1>10. /\ r.kind = "hardlink" /\ r.pc = "table" /\ r.dir = d /\ r.dir2 = d2 /\ r.work = dn
       /\ r.work2 = tn /\ r.uuid = e.uuid /\ r.name = n /\ r.fresh = TRUE
  BY NoOpFields DEF Op
<1> HIDE DEF r
<1>11. /\ lock' \in [Dirs -> Clients \union {"free"}] /\ lock'[d2] = c /\ HandsFit
       /\ \A y \in Dirs, x \in Clients \ {c} : lock[y] = x => lock'[y] = x
       /\ interrupted' = interrupted \union Differ(c, d2)
       /\ interrupted \subseteq interrupted' /\ interrupted' \subseteq Uuids
  BY <1>0, <1>7, AcquireFrame
<1>12. /\ UNCHANGED <<disk, unsaved, next_uuid>> /\ files' \subseteq Uuids /\ Tabled'
       /\ failures' \in 0 .. MaxFailures
  BY <1>1 DEF Typed, Tabled, ecall_fs_hardlink, tables
<1>13. Shape(r, next_uuid') /\ Holds(c, r, lock')
  BY <1>5, <1>10, <1>11, <1>12 DEF Shape, Holds
<1>15. KeepsOp(r, disk, interrupted')
  BY <1>2, <1>6, <1>10, <1>11 DEF KeepsOp
<1>16. ASSUME NEW k \in Kinds3, AllSound(k)
       PROVE  \E k2 \in Kinds3 : (\A v \in 1 .. next_uuid : k2[v] = k[v]) /\ SoundOp(r, k2, next_uuid')
  BY <1>2, <1>4, <1>6, <1>10, <1>12, <1>16 DEF SoundOp
<1>17. next_uuid' \in 0 .. MaxUuid /\ next_uuid <= next_uuid'
  BY <1>5, <1>12, BoundsAssumption
<1> QED
  BY <1>8, <1>9, <1>11, <1>12, <1>13, <1>15, <1>16, <1>17, OpFrame

LEMMA RenameStep ==
    ASSUME IInv, NEW c \in Clients, NEW d \in Dirs, NEW n \in Names, NEW d2 \in Dirs, NEW m \in Names,
           ecall_fs_rename(c, d, n, d2, m)
    PROVE  IInv'
<1> DEFINE dn == Copy(c, d)
           e  == dn.entries[n]
           f  == dn.entries[m]
<1>1. Typed /\ Operating /\ Kinded /\ Surviving
  BY DEF IInv
<1>2. /\ dn \in Dirnode /\ \A k \in Kinds3 : AllSound(k) => Sound(dn, k, next_uuid)
      /\ Keeps(dn, disk[d], interrupted \union Differ(c, d), NoOp) /\ left' \in Lefts
  BY AcquireFits DEF ecall_fs_rename, Acquire
<1>3. Has(dn, n) /\ e # NoEntry
  BY DEF ecall_fs_rename, Has
<1>4. e.uuid \in 1 .. next_uuid
  <2>1. PICK k \in Kinds3 : AllSound(k)
    BY <1>1 DEF Kinded
  <2>2. Sound(dn, k, next_uuid)
    BY <1>2, <2>1
  <2> HIDE DEF dn
  <2> QED
    BY <1>3, <2>2 DEF Sound, Fits
<1>5. next_uuid \in 0 .. MaxUuid /\ e.uuid \in Uuids
  BY <1>1, <1>4, BoundsAssumption DEF Typed, Uuids
<1>6. f \in Entry
  BY <1>2, DirnodeFields
<1>7. Acquire(c, d)
  BY DEF ecall_fs_rename
<1>8. /\ lock' \in [Dirs -> Clients \union {"free"}] /\ lock'[d] = c /\ HandsFit
      /\ \A y \in Dirs, x \in Clients \ {c} : lock[y] = x => lock'[y] = x
      /\ interrupted' = interrupted \union Differ(c, d)
      /\ interrupted \subseteq interrupted' /\ interrupted' \subseteq Uuids
  BY <1>2, <1>7, AcquireFrame
<1>9. /\ UNCHANGED <<disk, unsaved, next_uuid>> /\ files' \subseteq Uuids /\ Tabled'
      /\ failures' \in 0 .. MaxFailures
  BY <1>1 DEF Typed, Tabled, ecall_fs_rename, tables
<1>10. next_uuid' \in 0 .. MaxUuid /\ next_uuid <= next_uuid'
  BY <1>5, <1>9, BoundsAssumption
<1>11. CASE d = d2
  <2>1. n # m
    BY <1>11 DEF ecall_fs_rename
  <2> DEFINE w == RenameWithin(dn, n, m)
             q == [NoOp EXCEPT !.kind = "rename", !.dir = d, !.uuid = e.uuid]
             r == [q EXCEPT !.pc = "store", !.work = w, !.overwritten = f]
  <2>2. op' = [op EXCEPT ![c] = r]
    BY <1>11 DEF ecall_fs_rename
  <2> HIDE DEF dn
  <2>3. w \in Dirnode /\ \A k \in Kinds3 : AllSound(k) => Sound(w, k, next_uuid)
    BY <1>2, <1>3, <1>1, <2>1, RenameWithinIsSound DEF Kinded
  <2> HIDE DEF w, e, f
  <2>4. q \in Op
    BY <1>5, NoOpFields DEF Op
  <2>5. q.kind = "rename" /\ q.dir = d /\ q.uuid = e.uuid /\ q.dir2 = "none" /\ q.work2 = Empty
    BY NoOpFields DEF Op
  <2> HIDE DEF q
  <2>6. r \in Op
    BY <1>6, <2>3, <2>4 DEF Op
  <2>7. /\ r.kind = "rename" /\ r.dir = d /\ r.uuid = e.uuid /\ r.dir2 = "none" /\ r.work2 = Empty
        /\ r.pc = "store" /\ r.work = w /\ r.overwritten = f
    BY <2>4, <2>5 DEF Op
  <2> HIDE DEF r
  <2>8. Shape(r, next_uuid') /\ Holds(c, r, lock')
    BY <1>4, <1>8, <1>9, <2>7 DEF Shape, Holds
  <2>9. r.uuid = dn.entries[n].uuid /\ r.overwritten = dn.entries[m]
    BY <2>7 DEF e, f
  <2>10. Keeps(w, disk[d], interrupted', r)
    <3>1. Keeps(dn, disk[d], interrupted', NoOp)
      BY <1>2, <1>8
    <3> QED
      BY <1>2, <2>7, <2>9, <3>1, KeepsRenamed DEF w
  <2>11. KeepsOp(r, disk, interrupted')
    BY <2>7, <2>10 DEF KeepsOp
  <2>12. ASSUME NEW k \in Kinds3, AllSound(k)
         PROVE  \E k2 \in Kinds3 : (\A v \in 1 .. next_uuid : k2[v] = k[v]) /\ SoundOp(r, k2, next_uuid')
    BY <1>9, <2>3, <2>7, <2>12, EmptyIsSound DEF SoundOp
  <2> QED
    BY <1>8, <1>9, <1>10, <2>2, <2>6, <2>8, <2>11, <2>12, OpFrame
<1>12. CASE d # d2
  <2> DEFINE q == [NoOp EXCEPT !.kind = "rename", !.dir = d, !.uuid = e.uuid]
             r == [q EXCEPT !.pc = "lock2", !.work = dn, !.name = n, !.dir2 = d2, !.name2 = m]
  <2>1. op' = [op EXCEPT ![c] = r]
    BY <1>12 DEF ecall_fs_rename
  <2> HIDE DEF dn, e
  <2>2. q \in Op
    BY <1>5, NoOpFields DEF Op
  <2>3. q.kind = "rename" /\ q.dir = d /\ q.uuid = e.uuid /\ q.work2 = Empty
    BY NoOpFields DEF Op
  <2> HIDE DEF q
  <2>4. r \in Op
    BY <1>2, <2>2 DEF Op
  <2>5. /\ r.kind = "rename" /\ r.dir = d /\ r.uuid = e.uuid /\ r.dir2 = d2 /\ r.work2 = Empty
        /\ r.pc = "lock2" /\ r.work = dn /\ r.name = n /\ r.name2 = m
    BY <2>2, <2>3 DEF Op
  <2> HIDE DEF r
  <2>6. Shape(r, next_uuid') /\ Holds(c, r, lock')
    BY <1>3, <1>4, <1>8, <1>9, <1>12, <2>5 DEF Shape, Holds, e
  <2>7. KeepsOp(r, disk, interrupted')
    BY <1>2, <1>8, <2>5 DEF KeepsOp
  <2>8. ASSUME NEW k \in Kinds3, AllSound(k)
        PROVE  \E k2 \in Kinds3 : (\A v \in 1 .. next_uuid : k2[v] = k[v]) /\ SoundOp(r, k2, next_uuid')
    BY <1>2, <1>9, <2>5, <2>8, EmptyIsSound DEF SoundOp
  <2> QED
    BY <1>8, <1>9, <1>10, <2>1, <2>4, <2>6, <2>7, <2>8, OpFrame
<1> QED
  BY <1>11, <1>12
-----------------------------------------------------------------------------
(* The operations go on.                                                   *)

LEMMA OpFits ==
    ASSUME IInv, NEW c \in Clients
    PROVE  /\ op[c] \in Op /\ Shape(op[c], next_uuid) /\ Holds(c, op[c], lock)
           /\ KeepsOp(op[c], disk, interrupted)
           /\ \A k \in Kinds3 : AllSound(k) => SoundOp(op[c], k, next_uuid)
           /\ next_uuid \in 0 .. MaxUuid /\ next_uuid \in Nat /\ next_uuid <= next_uuid
           /\ \A u \in 1 .. next_uuid : u \in Uuids
BY BoundsAssumption DEF IInv, Typed, Operating, Surviving, AllSound, Uuids

LEMMA RenameAcrossStep ==
    ASSUME IInv, NEW c \in Clients, RenameAcross(c)
    PROVE  IInv'
<1>1. PICK o : o = op[c]
  OBVIOUS
<1>2. /\ o \in Op /\ Shape(o, next_uuid) /\ Holds(c, o, lock) /\ KeepsOp(o, disk, interrupted)
      /\ \A k \in Kinds3 : AllSound(k) => SoundOp(o, k, next_uuid)
      /\ next_uuid \in 0 .. MaxUuid /\ next_uuid \in Nat /\ next_uuid <= next_uuid
  BY <1>1, OpFits
<1>3. Typed /\ Kinded
  BY DEF IInv
<1>4. UNCHANGED <<disk, unsaved, tables, files, next_uuid>>
  BY DEF RenameAcross
<1>5. Tabled' /\ files' \subseteq Uuids
  BY <1>3, <1>4 DEF Typed, Tabled, tables
<1>6. CASE /\ Fail /\ op' = [op EXCEPT ![c] = NoOp] /\ lock' = Released(c)
           /\ hand' = [hand EXCEPT ![c] = NoHand] /\ UNCHANGED <<left, interrupted>>
  <2>1. /\ failures' \in 0 .. MaxFailures
        /\ interrupted' \subseteq Uuids /\ interrupted \subseteq interrupted'
    BY <1>3, <1>6, BoundsAssumption DEF Typed, Fail
  <2>2. HandsFit
    BY <1>3, <1>6, HandsStay DEF Typed
  <2> QED
    BY <1>4, <1>5, <1>6, <2>1, <2>2, EndSame
<1>7. CASE ~(/\ Fail /\ op' = [op EXCEPT ![c] = NoOp] /\ lock' = Released(c)
             /\ hand' = [hand EXCEPT ![c] = NoHand] /\ UNCHANGED <<left, interrupted>>)
  <2>1. /\ o.pc = "lock2" /\ o.kind = "rename" /\ o.dir \in Dirs /\ o.dir2 \in Dirs /\ o.dir # o.dir2
        /\ o.name \in Names /\ o.name2 \in Names /\ Has(o.work, o.name)
        /\ o.work.entries[o.name].uuid = o.uuid /\ o.uuid \in 1 .. next_uuid /\ lock[o.dir] = c
    BY <1>1, <1>2 DEF RenameAcross, Shape, Holds
  <2>0. Acquire(c, o.dir2) /\ left' = Counted(c, o.dir2) /\ UNCHANGED failures
    BY <1>1, <1>7 DEF RenameAcross
  <2>2. PICK to : to = Copy(c, o.dir2)
    OBVIOUS
  <2>17. /\ to \in Dirnode /\ \A k \in Kinds3 : AllSound(k) => Sound(to, k, next_uuid)
         /\ Keeps(to, disk[o.dir2], interrupted \union Differ(c, o.dir2), NoOp) /\ left' \in Lefts
    BY <2>0, <2>1, <2>2, AcquireFits DEF Acquire
  <2>10. /\ lock' \in [Dirs -> Clients \union {"free"}] /\ lock'[o.dir2] = c /\ lock'[o.dir] = c
         /\ \A y \in Dirs, z \in Clients \ {c} : lock[y] = z => lock'[y] = z
         /\ interrupted' = interrupted \union Differ(c, o.dir2) /\ HandsFit
         /\ interrupted \subseteq interrupted' /\ interrupted' \subseteq Uuids
    BY <2>0, <2>1, <2>17, AcquireFrame
  <2>3. /\ to \in Dirnode /\ \A k \in Kinds3 : AllSound(k) => Sound(to, k, next_uuid)
        /\ Keeps(to, disk[o.dir2], interrupted', NoOp)
    BY <2>10, <2>17
  <2>4. /\ o.work \in Dirnode /\ \A k \in Kinds3 : AllSound(k) => Sound(o.work, k, next_uuid)
        /\ Keeps(o.work, disk[o.dir], interrupted', NoOp)
    <3>1. KeepsOp(o, disk, interrupted')
      BY <1>2, <2>10, KeepsOpStays
    <3> QED
      BY <1>2, <2>1, <3>1, OpFields DEF SoundOp, KeepsOp
  <2> DEFINE x == dirnode_rename(o.work, to, o.name, o.name2)
  <2>5. /\ x.from \in Dirnode /\ x.to \in Dirnode
        /\ \A k \in Kinds3 : AllSound(k) => Sound(x.from, k, next_uuid) /\ Sound(x.to, k, next_uuid)
        /\ \A y \in Names : x.from.entries[y] = IF y = o.name THEN NoEntry ELSE o.work.entries[y]
        /\ \A y \in Names : x.to.entries[y] = IF y = o.name2 THEN o.work.entries[o.name] ELSE to.entries[y]
    BY <1>2, <1>3, <2>1, <2>3, <2>4, RenameIsSound DEF Kinded
  <2> DEFINE r == [o EXCEPT !.pc = "store", !.work = x.from, !.work2 = x.to,
                            !.name = "none", !.name2 = "none", !.overwritten = to.entries[o.name2]]
  <2>6. op' = [op EXCEPT ![c] = r]
    BY <1>1, <1>7, <2>2 DEF RenameAcross
  <2> HIDE DEF x
  <2>7. to.entries[o.name2] \in Entry
    BY <2>1, <2>3, DirnodeFields
  <2>8. r \in Op
    BY <1>2, <2>5, <2>7 DEF Op
  <2>9. /\ r.kind = "rename" /\ r.dir = o.dir /\ r.uuid = o.uuid /\ r.dir2 = o.dir2 /\ r.work2 = x.to
        /\ r.pc = "store" /\ r.work = x.from /\ r.overwritten = to.entries[o.name2]
    BY <1>2, <2>1 DEF Op
  <2> HIDE DEF r
  <2>11. Shape(r, next_uuid') /\ Holds(c, r, lock')
    BY <1>4, <2>1, <2>9, <2>10 DEF Shape, Holds
  <2>12. Keeps(r.work, disk[r.dir], interrupted', r)
    <3>1. r.kind \in {"remove", "rename"} /\ r.uuid = o.work.entries[o.name].uuid
      BY <2>1, <2>9
    <3>2. PICK w : w = x.from
      OBVIOUS
    <3>3. PICK v : v = o.work
      OBVIOUS
    <3>4. \A y \in Names : w.entries[y] = IF y = o.name THEN NoEntry ELSE v.entries[y]
      BY <2>5, <3>2, <3>3
    <3>5. Keeps(v, disk[o.dir], interrupted', NoOp) /\ r.uuid = v.entries[o.name].uuid
      BY <2>4, <3>1, <3>3
    <3>6. Keeps(w, disk[o.dir], interrupted', r)
      BY <2>1, <3>1, <3>4, <3>5, KeepsClobbered
    <3> QED
      BY <2>9, <3>2, <3>6
  <2>13. Keeps(r.work2, disk[r.dir2], interrupted', r)
    <3>1. PICK w : w = x.to
      OBVIOUS
    <3>2. to.entries[o.name2] = NoEntry \/ (r.kind = "rename" /\ r.overwritten = to.entries[o.name2])
      BY <2>9
    <3>3. Keeps(to, disk[o.dir2], interrupted', NoOp)
      BY <2>3
    <3>4. \A y \in Names : y # o.name2 => w.entries[y] = to.entries[y]
      BY <2>5, <3>1
    <3>5. Keeps(w, disk[o.dir2], interrupted', r)
      BY <2>1, <3>2, <3>3, <3>4, KeepsAdded
    <3> QED
      BY <2>9, <3>1, <3>5
  <2>14. KeepsOp(r, disk, interrupted')
    BY <2>9, <2>12, <2>13 DEF KeepsOp
  <2>15. ASSUME NEW k \in Kinds3, AllSound(k)
         PROVE  \E k2 \in Kinds3 : (\A v \in 1 .. next_uuid : k2[v] = k[v]) /\ SoundOp(r, k2, next_uuid')
    BY <1>4, <2>5, <2>9, <2>15 DEF SoundOp
  <2>16. next_uuid' \in 0 .. MaxUuid /\ next_uuid <= next_uuid' /\ failures' \in 0 .. MaxFailures
    BY <1>2, <1>3, <1>4, <2>0 DEF Typed
  <2> QED
    BY <1>4, <1>5, <2>6, <2>8, <2>10, <2>11, <2>14, <2>15, <2>16, OpFrame
<1> QED
  BY <1>6, <1>7

LEMMA RemoveFilenodeStep ==
    ASSUME IInv, NEW c \in Clients, remove_filenode(c)
    PROVE  IInv'
<1>1. PICK o : o = op[c]
  OBVIOUS
<1>2. /\ o \in Op /\ Shape(o, next_uuid) /\ Holds(c, o, lock) /\ KeepsOp(o, disk, interrupted)
      /\ \A k \in Kinds3 : AllSound(k) => SoundOp(o, k, next_uuid)
      /\ next_uuid \in 0 .. MaxUuid /\ next_uuid \in Nat /\ next_uuid <= next_uuid
  BY <1>1, OpFits
<1>3. Typed /\ Tabled
  BY DEF IInv, Typed
<1>4. o.kind = "remove" /\ o.pc = "table" /\ o.uuid \in 1 .. next_uuid /\ o.dir \in Dirs /\ o.dir2 = "none"
  BY <1>1, <1>2 DEF remove_filenode, Shape
<1>5. o.uuid \in Uuids
  BY <1>4, OpFits
<1>6. UNCHANGED <<disk, unsaved, next_uuid>>
  BY DEF remove_filenode
<1> DEFINE t == hardlink_table_decr_uuid(TableCopy(c), o.uuid)
<1>7. t \in Tables
  BY <1>3, <1>5, TableTyped, CountsTyped
<1>8. CASE /\ acquire_hardlink_table(c)
           /\ \/ TableCopy(c)[o.uuid] = 0 /\ nexus_vfs_delete(o.uuid) /\ UNCHANGED <<table, deferred, leaked>>
              \/ TableCopy(c)[o.uuid] > 0 /\ flush_hardlink_table(c, t) /\ UNCHANGED files
           /\ interrupted' = interrupted \union Miscounted(c)
           /\ op' = [op EXCEPT ![c].pc = "store", ![c].table = NoTable]
           /\ UNCHANGED <<locks, failures>>
  <2> DEFINE r == [o EXCEPT !.pc = "store", !.table = NoTable]
  <2>1. op' = [op EXCEPT ![c] = r]
    BY <1>1, <1>3, <1>8 DEF Typed
  <2> HIDE DEF t
  <2>0. /\ HandsFit /\ lock' = lock
        /\ interrupted \subseteq interrupted' /\ interrupted' \subseteq Uuids
    BY <1>3, <1>8, HandsStay, TableTyped DEF locks, Typed
  <2>2. Tabled'
    BY <1>3, <1>7, <1>8, TabledAfter
  <2>3. files' \subseteq Uuids
    BY <1>3, <1>8 DEF Typed, nexus_vfs_delete
  <2>4. /\ lock' \in [Dirs -> Clients \union {"free"}]
        /\ \A y \in Dirs, x \in Clients \ {c} : lock[y] = x => lock'[y] = x
    BY <1>3, <2>0 DEF Typed
  <2>5. r \in Op
    BY <1>2 DEF Op
  <2>6. /\ r.kind = "remove" /\ r.pc = "store" /\ r.dir = o.dir /\ r.dir2 = "none" /\ r.uuid = o.uuid
        /\ r.work = o.work /\ r.work2 = o.work2 /\ r.overwritten = o.overwritten
    BY <1>2, <1>4 DEF Op
  <2> HIDE DEF r
  <2>7. Shape(r, next_uuid')
    BY <1>4, <1>6, <2>6 DEF Shape
  <2>8. lock'[o.dir] = c
    BY <1>2, <1>4, <2>0 DEF Holds
  <2>9. Holds(c, r, lock')
    BY <2>6, <2>8 DEF Holds
  <2>10. Keeps(o.work, disk[o.dir], interrupted, o)
    BY <1>2, <1>4 DEF KeepsOp
  <2>11. Keeps(o.work, disk[o.dir], interrupted', r)
    BY <1>4, <2>0, <2>6, <2>10, KeepsFrame
  <2>12. KeepsOp(r, disk, interrupted')
    BY <2>6, <2>11 DEF KeepsOp
  <2>13. ASSUME NEW k \in Kinds3, AllSound(k)
         PROVE  \E k2 \in Kinds3 : (\A v \in 1 .. next_uuid : k2[v] = k[v]) /\ SoundOp(r, k2, next_uuid')
    BY <1>2, <1>6, <2>6, <2>13 DEF SoundOp
  <2>14. failures' \in 0 .. MaxFailures
    BY <1>3, <1>8 DEF Typed
  <2> QED
    BY <1>2, <1>6, <1>8, <2>0, <2>1, <2>2, <2>3, <2>4, <2>5, <2>7, <2>9, <2>12, <2>13, <2>14, OpFrame
<1>9. CASE /\ acquire_hardlink_table(c) /\ TableCopy(c)[o.uuid] > 0 /\ FlushFails(c, t)
           /\ interrupted' = interrupted \union (IF table' # table THEN {o.uuid} \union Miscounted(c) ELSE {})
           /\ Fail /\ EndOp(c) /\ UNCHANGED files
  <2> HIDE DEF t
  <2>1. Tabled'
    BY <1>3, <1>7, <1>9, TabledAfter
  <2>2. /\ files' \subseteq Uuids /\ interrupted' \subseteq Uuids /\ interrupted \subseteq interrupted'
        /\ failures' \in 0 .. MaxFailures
    BY <1>3, <1>5, <1>9, BoundsAssumption, TableTyped DEF Typed, Fail
  <2>3. HandsFit /\ op' = [op EXCEPT ![c] = NoOp] /\ lock' = Released(c)
    BY <1>3, <1>9, EndHands
  <2> QED
    BY <1>6, <2>1, <2>2, <2>3, EndSame
<1>10. CASE table_lock = "free" /\ Fail /\ EndOp(c) /\ UNCHANGED <<tables, files, interrupted>>
  <2>1. /\ files' \subseteq Uuids /\ interrupted' \subseteq Uuids /\ interrupted \subseteq interrupted'
        /\ failures' \in 0 .. MaxFailures /\ Tabled'
    BY <1>3, <1>10, BoundsAssumption DEF Typed, Tabled, Fail, tables
  <2>2. HandsFit /\ op' = [op EXCEPT ![c] = NoOp] /\ lock' = Released(c)
    BY <1>3, <1>10, EndHands
  <2> QED
    BY <1>6, <2>1, <2>2, EndSame
<1> QED
  BY <1>1, <1>8, <1>9, <1>10 DEF remove_filenode

LEMMA NxsHardlinkStep ==
    ASSUME IInv, NEW c \in Clients, nxs_fs_hardlink(c)
    PROVE  IInv'
<1>1. PICK o : o = op[c]
  OBVIOUS
<1>2. /\ o \in Op /\ Shape(o, next_uuid) /\ Holds(c, o, lock) /\ KeepsOp(o, disk, interrupted)
      /\ \A k \in Kinds3 : AllSound(k) => SoundOp(o, k, next_uuid)
      /\ next_uuid \in 0 .. MaxUuid /\ next_uuid \in Nat /\ next_uuid <= next_uuid
  BY <1>1, OpFits
<1>3. Typed /\ Tabled /\ Surviving
  BY DEF IInv, Typed
<1>4. /\ o.kind = "hardlink" /\ o.pc = "table" /\ o.uuid \in 1 .. next_uuid /\ o.dir \in Dirs
      /\ o.dir2 \in Dirs /\ o.name \in Names /\ lock[o.dir2] = c /\ o.work \in Dirnode
  BY <1>1, <1>2, OpFields DEF nxs_fs_hardlink, Shape, Holds
<1>5. o.uuid \in Uuids
  BY <1>4, OpFits
<1>6. UNCHANGED <<disk, files, next_uuid>>
  BY DEF nxs_fs_hardlink
<1>7. files' \subseteq Uuids /\ interrupted' \subseteq Uuids /\ interrupted \subseteq interrupted'
  BY <1>3, <1>6, TableTyped DEF Typed, nxs_fs_hardlink
<1> DEFINE t == hardlink_table_incr_uuid(TableCopy(c), o.uuid)
           e == [uuid |-> o.uuid, type |-> "REG"]
           dn == dirnode_add(o.work, o.name, e)
<1>8. t \in Tables
  BY <1>3, <1>5, TableTyped, CountsTyped
<1>9. e \in Entry /\ e.uuid = o.uuid /\ e.type = "REG"
  BY <1>5 DEF Entry
<1>10. /\ dn \in Dirnode /\ \A k \in Kinds3 : AllSound(k) => Sound(dn, k, next_uuid)
       /\ \A m \in Names : m # o.name => dn.entries[m] = o.work.entries[m]
  <2> HIDE DEF e
  <2>1. \A k \in Kinds3 : AllSound(k) => Sound(o.work, k, next_uuid) /\ Fits(e, k, next_uuid)
    BY <1>2, <1>4, <1>9 DEF SoundOp, Fits
  <2>2. \A k \in Kinds3 : AllSound(k) => Sound(dn, k, next_uuid)
    BY <1>4, <1>9, <2>1, AddIsSound
  <2> QED
    BY <1>4, <1>9, <2>2, Added
<1>11. ~Has(o.work, o.name) /\ o.fresh => \A q : Keeps(dn, disk[o.dir], interrupted', q)
  <2> SUFFICES ASSUME ~Has(o.work, o.name), o.fresh, NEW q PROVE Keeps(dn, disk[o.dir], interrupted', q)
    OBVIOUS
  <2> HIDE DEF dn
  <2>0. KeepsOp(o, disk, interrupted')
    BY <1>2, <1>7, KeepsOpStays
  <2>1. Keeps(o.work, disk[o.dir], interrupted', NoOp)
    BY <1>4, <2>0 DEF KeepsOp
  <2>2. o.work.entries[o.name] = NoEntry
    BY DEF Has
  <2> QED
    BY <1>4, <1>10, <2>1, <2>2, KeepsAdded
<1>12. CASE acquire_hardlink_table(c) /\ flush_hardlink_table(c, t) /\ UNCHANGED failures
  <2>1. Tabled' /\ failures' \in 0 .. MaxFailures
    <3> HIDE DEF t
    <3> QED
      BY <1>3, <1>8, <1>12, TabledAfter DEF Typed
  <2>2. CASE Has(o.work, o.name) /\ EndOp(c) /\ UNCHANGED unsaved
    <3>1. HandsFit /\ op' = [op EXCEPT ![c] = NoOp] /\ lock' = Released(c)
      BY <1>3, <2>2, EndHands
    <3> QED
      BY <1>6, <1>7, <2>1, <2>2, <3>1, EndSame
  <2>3. CASE /\ ~Has(o.work, o.name) /\ o.dir = o.dir2 /\ UNCHANGED <<locks, unsaved>>
             /\ op' = [op EXCEPT ![c] = [NoOp EXCEPT !.pc = "store", !.dir = o.dir, !.work = dn]]
    <3> DEFINE r == [NoOp EXCEPT !.pc = "store", !.dir = o.dir, !.work = dn]
    <3>1. op' = [op EXCEPT ![c] = r]
      BY <2>3
    <3> HIDE DEF dn
    <3>2. r \in Op
      BY <1>4, <1>10, NoOpFields DEF Op
    <3>3. r.kind = "none" /\ r.pc = "store" /\ r.dir = o.dir /\ r.dir2 = "none" /\ r.work = dn /\ r.work2 = Empty
      BY NoOpFields DEF Op
    <3> HIDE DEF r
    <3>4. /\ lock' \in [Dirs -> Clients \union {"free"}] /\ lock'[o.dir] = c /\ HandsFit
          /\ \A y \in Dirs, x \in Clients \ {c} : lock[y] = x => lock'[y] = x
      BY <1>3, <1>4, <2>3, HandsStay DEF Typed, locks
    <3>5. Shape(r, next_uuid') /\ Holds(c, r, lock')
      BY <1>4, <3>3, <3>4 DEF Shape, Holds
    <3>6. o.fresh
      BY <1>2, <1>4, <2>3 DEF KeepsOp
    <3>7. Keeps(dn, disk[o.dir], interrupted', r)
      BY <1>11, <2>3, <3>6
    <3>8. KeepsOp(r, disk, interrupted')
      BY <3>3, <3>7 DEF KeepsOp
    <3>9. ASSUME NEW k \in Kinds3, AllSound(k)
          PROVE  \E k2 \in Kinds3 : (\A v \in 1 .. next_uuid : k2[v] = k[v]) /\ SoundOp(r, k2, next_uuid')
      BY <1>6, <1>10, <3>3, <3>9, EmptyIsSound DEF SoundOp
    <3> QED
      BY <1>2, <1>6, <1>7, <2>1, <2>3, <3>1, <3>2, <3>4, <3>5, <3>8, <3>9, OpFrame
  <2>4. CASE /\ ~Has(o.work, o.name) /\ o.dir # o.dir2
             /\ unsaved' = IF o.fresh THEN [unsaved EXCEPT ![c][o.dir] = dn] ELSE unsaved
             /\ IF ~o.dirty THEN EndOp(c)
                ELSE /\ op' = [op EXCEPT ![c] = [NoOp EXCEPT !.pc = "store", !.dir = o.dir2,
                                                              !.work = o.work2]]
                     /\ UNCHANGED locks
    <3>1. PICK un : un = IF o.fresh THEN [unsaved[c] EXCEPT ![o.dir] = dn] ELSE unsaved[c]
      OBVIOUS
    <3>2. unsaved' = [unsaved EXCEPT ![c] = un]
      BY <1>3, <2>4, <3>1 DEF Typed
    <3> HIDE DEF dn
    <3>3. unsaved[c] \in Copies
      BY <1>3 DEF Typed
    <3>4. un \in Copies /\ \A y \in Dirs : un[y] = IF o.fresh /\ y = o.dir THEN dn ELSE unsaved[c][y]
      BY <1>4, <1>10, <3>1, <3>3 DEF Copies
    <3>5. KeepsCopies(unsaved[c], disk, interrupted')
      BY <1>3, <1>7, KeepsCopiesStay DEF Surviving
    <3>6. o.fresh => Keeps(dn, disk[o.dir], interrupted', NoOp)
      BY <1>11, <2>4
    <3>7. KeepsCopies(un, disk, interrupted')
      BY <1>6, <3>4, <3>5, <3>6 DEF KeepsCopies
    <3>8. \A k \in Kinds3 : AllSound(k) => SoundCopies(un, k, next_uuid)
      BY <1>10, <3>4 DEF AllSound, SoundCopies
    <3>9. CASE EndOp(c)
      <4>1. HandsFit /\ op' = [op EXCEPT ![c] = NoOp] /\ lock' = Released(c)
        BY <1>3, <3>9, EndHands
      <4>2. /\ lock' \in [Dirs -> Clients \union {"free"}]
            /\ \A d \in Dirs, x \in Clients \ {c} : lock[d] = x => lock'[d] = x
        BY <1>3, <4>1, EndLocks
      <4> QED
        BY <1>6, <1>7, <2>1, <3>2, <3>4, <3>7, <3>8, <4>1, <4>2, EndFrame
    <3>10. CASE ~EndOp(c)
      <4>1. PICK w : w = o.work2
        OBVIOUS
      <4>2. /\ w \in Dirnode /\ \A k \in Kinds3 : AllSound(k) => Sound(w, k, next_uuid)
            /\ Keeps(w, disk[o.dir2], interrupted', NoOp)
        <5>1. KeepsOp(o, disk, interrupted')
          BY <1>2, <1>7, KeepsOpStays
        <5> QED
          BY <1>2, <1>4, <4>1, <5>1, OpFields DEF SoundOp, KeepsOp
      <4> DEFINE r == [NoOp EXCEPT !.pc = "store", !.dir = o.dir2, !.work = w]
      <4>3. op' = [op EXCEPT ![c] = r] /\ UNCHANGED locks
        BY <2>4, <3>10, <4>1
      <4>4. r \in Op
        BY <1>4, <4>2, NoOpFields DEF Op
      <4>5. r.kind = "none" /\ r.pc = "store" /\ r.dir = o.dir2 /\ r.dir2 = "none" /\ r.work = w /\ r.work2 = Empty
        BY NoOpFields DEF Op
      <4> HIDE DEF r
      <4>6. /\ lock' \in [Dirs -> Clients \union {"free"}] /\ lock'[o.dir2] = c /\ HandsFit
            /\ \A y \in Dirs, x \in Clients \ {c} : lock[y] = x => lock'[y] = x
        BY <1>3, <1>4, <4>3, HandsStay DEF Typed, locks
      <4>7. Shape(r, next_uuid') /\ Holds(c, r, lock')
        BY <1>4, <4>5, <4>6 DEF Shape, Holds
      <4>8. Keeps(w, disk[o.dir2], interrupted', r)
        BY <4>2, KeepsFrame
      <4>9. KeepsOp(r, disk, interrupted')
        BY <1>6, <4>5, <4>8 DEF KeepsOp
      <4>10. ASSUME NEW k \in Kinds3, AllSound(k)
             PROVE  \E k2 \in Kinds3 : /\ \A u \in 1 .. next_uuid : k2[u] = k[u]
                                       /\ SoundOp(r, k2, next_uuid') /\ SoundCopies(un, k2, next_uuid')
        BY <1>6, <3>8, <4>2, <4>5, <4>10, EmptyIsSound DEF SoundOp
      <4> QED
        BY <1>2, <1>6, <1>7, <2>1, <3>2, <3>4, <3>7, <4>3, <4>4, <4>6, <4>7, <4>9, <4>10, Frame
    <3> QED
      BY <3>9, <3>10
  <2>5. ~Fail
    BY <1>3, <1>12, BoundsAssumption DEF Fail, Typed
  <2> HIDE DEF t
  <2> QED
    BY <1>1, <2>2, <2>3, <2>4, <2>5 DEF nxs_fs_hardlink
<1>13. CASE acquire_hardlink_table(c) /\ FlushFails(c, t) /\ Fail /\ EndOp(c) /\ UNCHANGED unsaved
  <2> HIDE DEF t
  <2>1. Tabled' /\ failures' \in 0 .. MaxFailures
    BY <1>3, <1>8, <1>13, TabledAfter, BoundsAssumption DEF Typed, Fail
  <2>2. HandsFit /\ op' = [op EXCEPT ![c] = NoOp] /\ lock' = Released(c)
    BY <1>3, <1>13, EndHands
  <2> QED
    BY <1>6, <1>7, <1>13, <2>1, <2>2, EndSame
<1>14. CASE table_lock = "free" /\ Fail /\ EndOp(c) /\ UNCHANGED <<tables, unsaved>>
  <2>1. Tabled' /\ failures' \in 0 .. MaxFailures
    BY <1>3, <1>14, BoundsAssumption DEF Typed, Tabled, Fail, tables
  <2>2. HandsFit /\ op' = [op EXCEPT ![c] = NoOp] /\ lock' = Released(c)
    BY <1>3, <1>14, EndHands
  <2> QED
    BY <1>6, <1>7, <1>14, <2>1, <2>2, EndSame
<1> QED
  BY <1>1, <1>12, <1>13, <1>14 DEF nxs_fs_hardlink
-----------------------------------------------------------------------------
(* The stores.                                                             *)

(* What the dirnode that c is about to store keeps of the stored one.      *)
LEMMA StoreKeeps ==
    ASSUME IInv, NEW c \in Clients, NEW o, o = op[c], o.pc \in {"store", "store2"}
    PROVE  /\ o.pc = "store" => /\ o.dir \in Dirs /\ lock[o.dir] = c
                                /\ Keeps(o.work, disk[o.dir], interrupted, o)
                                /\ o.dir2 # "none" => /\ o.dir2 \in Dirs /\ o.dir2 # o.dir
                                                      /\ o.kind = "rename" /\ lock[o.dir2] = c
                                                      /\ Keeps(o.work2, disk[o.dir2], interrupted, o)
           /\ o.pc = "store2" => /\ o.dir2 \in Dirs /\ o.kind = "rename" /\ lock[o.dir2] = c
                                 /\ Keeps(o.work2, disk[o.dir2], interrupted, o)
           /\ o.kind \in {"remove", "rename"} => o.uuid \in Uuids /\ o.uuid \in 1 .. next_uuid
<1>1. o \in Op /\ Shape(o, next_uuid) /\ Holds(c, o, lock) /\ KeepsOp(o, disk, interrupted)
  BY OpFits
<1>2. o.dir2 \in Dirs \union {"none"}
  BY <1>1, OpFields
<1>3. o.pc = "store" => /\ o.dir \in Dirs /\ lock[o.dir] = c
                        /\ Keeps(o.work, disk[o.dir], interrupted, o)
  BY <1>1 DEF Shape, Holds, KeepsOp
<1>4. o.pc = "store" /\ o.dir2 # "none" => /\ o.dir2 # o.dir /\ o.kind = "rename" /\ lock[o.dir2] = c
                                           /\ Keeps(o.work2, disk[o.dir2], interrupted, o)
  BY <1>1 DEF Shape, Holds, KeepsOp
<1>5. o.pc = "store2" => /\ o.dir2 \in Dirs /\ o.kind = "rename" /\ lock[o.dir2] = c
                         /\ Keeps(o.work2, disk[o.dir2], interrupted, o)
  BY <1>1 DEF Shape, Holds, KeepsOp
<1>6. o.kind \in {"remove", "rename"} => o.uuid \in 1 .. next_uuid
  BY <1>1 DEF Shape
<1> QED
  BY <1>2, <1>3, <1>4, <1>5, <1>6, OpFits

LEMMA DroppedCopy ==
    ASSUME NEW un \in Copies, NEW d \in Dirs
    PROVE  /\ [un EXCEPT ![d] = NoDirnode] \in Copies
           /\ \A y \in Dirs : [un EXCEPT ![d] = NoDirnode][y] = IF y = d THEN NoDirnode ELSE un[y]
BY DEF Copies

(* A client that stores a dirnode, or puts the store off.  It is done, or  *)
(* has the second dirnode of a rename before it.                           *)
LEMMA StoreStep ==
    ASSUME IInv, NEW c \in Clients, NEW d \in Dirs, NEW w \in Dirnode, NEW r \in Op, NEW o, o = op[c],
           lock[d] = c, Store(c, d, w, r), Keeps(w, disk[d], interrupted, o),
           UNCHANGED <<left, hand, tables, files, next_uuid, failures>>,
           Shape(r, next_uuid),
           \A k \in Kinds3 : AllSound(k) => Sound(w, k, next_uuid) /\ SoundOp(r, k, next_uuid),
           o.kind \in {"remove", "rename"} => o.uuid \in Uuids, o.overwritten \in Entry,
           \/ r = NoOp
           \/ /\ r.kind = "rename" /\ r.pc = "store2" /\ r.dir2 \in Dirs /\ r.dir2 # d
              /\ lock[r.dir2] = c /\ Keeps(r.work2, disk[r.dir2], interrupted, r)
    PROVE  IInv'
<1>1. Typed /\ Surviving /\ Kinded
  BY DEF IInv
<1>2. /\ Tabled' /\ files' \subseteq Uuids /\ failures' \in 0 .. MaxFailures
      /\ next_uuid' = next_uuid /\ next_uuid \in 0 .. MaxUuid /\ next_uuid <= next_uuid
      /\ next_uuid \in Nat /\ HandsFit
  <2>1. HandsFit
    BY <1>1, HandsStay DEF Typed
  <2> QED
    BY <1>1, <2>1, OpFits DEF Typed, Tabled, tables
<1>3. /\ interrupted \subseteq interrupted' /\ interrupted' \subseteq Uuids
      /\ left[d] # "no" /\ o.kind \in {"remove", "rename"} =>
            o.uuid \in interrupted' /\ {o.overwritten.uuid} \ {0} \subseteq interrupted'
  <2>1. o.overwritten.uuid \in Uuids \union {0} /\ 0 \notin Uuids
    BY Basics DEF Entry
  <2> HIDE DEF Uuids
  <2> QED
    BY <1>1, <2>1 DEF Store, Defer, Typed
<1>4. /\ lock' \in [Dirs -> Clients \union {"free"}]
      /\ \A y \in Dirs, x \in Clients \ {c} : lock[y] = x => lock'[y] = x
      /\ r # NoOp => \A y \in Dirs : y # d => lock'[y] = lock[y]
  <2>1. CASE r = NoOp
    <3>1. lock' = Released(c)
      BY <2>1 DEF Store
    <3> QED
      BY <1>1, <2>1, <3>1, EndLocks
  <2>2. CASE r # NoOp
    <3>1. lock' \in {[lock EXCEPT ![d] = "free"], lock}
      BY <2>2 DEF Store
    <3> HIDE DEF NoOp
    <3> QED
      BY <1>1, <2>2, <3>1 DEF Typed
  <2> QED
    BY <2>1, <2>2
<1>5. Holds(c, r, lock')
  BY <1>4, NoOpFits DEF Holds
<1>6. \A dsk : dsk = disk \/ dsk = [disk EXCEPT ![d] = w] => KeepsOp(r, dsk, interrupted')
  <2> SUFFICES ASSUME NEW dsk, dsk = disk \/ dsk = [disk EXCEPT ![d] = w] PROVE KeepsOp(r, dsk, interrupted')
    OBVIOUS
  <2>1. CASE r = NoOp
    BY <2>1, NoOpFits
  <2>2. CASE r # NoOp
    <3>1. dsk[r.dir2] = disk[r.dir2]
      BY <1>1, <2>2 DEF Typed
    <3>2. Keeps(r.work2, disk[r.dir2], interrupted', r)
      BY <1>3, <2>2, KeepsFrame
    <3> QED
      BY <2>2, <3>1, <3>2 DEF KeepsOp
  <2> QED
    BY <2>1, <2>2
<1>7. unsaved[c] \in Copies /\ KeepsCopies(unsaved[c], disk, interrupted')
  BY <1>1, <1>3, KeepsCopiesStay DEF Typed, Surviving
<1>8. CASE left[d] = "no"
  <2>1. PICK un : un = [unsaved[c] EXCEPT ![d] = NoDirnode]
    OBVIOUS
  <2>2. un \in Copies /\ \A y \in Dirs : un[y] = IF y = d THEN NoDirnode ELSE unsaved[c][y]
    BY <1>7, <2>1, DroppedCopy
  <2>3. /\ disk' = [disk EXCEPT ![d] = w] /\ op' = OpsAfter(c, d, r) /\ unsaved' = CopiesAfter(c, d, un)
    BY <1>8, <2>1 DEF Store, Publish, OpsAfter, CopiesAfter
  <2>4. /\ disk' \in [Dirs -> Dirnode] /\ op' \in [Clients -> Op] /\ unsaved' \in [Clients -> Copies]
        /\ \A y \in Dirs : disk'[y] = IF y = d THEN w ELSE disk[y]
        /\ \A x \in Clients : op'[x] = IF x = c THEN r ELSE Stale(x, d)
        /\ unsaved'[c] = un
        /\ \A x \in Clients, y \in Dirs : x # c => unsaved'[x][y] = IF y = d THEN NoDirnode ELSE unsaved[x][y]
    BY <1>1, <2>2, <2>3, Published
  <2>5. KeepsCopies(un, disk', interrupted')
    BY <1>7, <2>2, <2>4 DEF KeepsCopies
  <2>6. KeepsOp(r, disk', interrupted')
    BY <1>6, <2>3
  <2>7. \A k \in Kinds3 : AllSound(k) => /\ Sound(w, k, next_uuid) /\ SoundOp(r, k, next_uuid)
                                          /\ SoundCopies(un, k, next_uuid)
    BY <2>2 DEF AllSound, SoundCopies
  <2> QED
    BY <1>2, <1>3, <1>4, <1>5, <2>2, <2>4, <2>5, <2>6, <2>7, PublishFrame
<1>9. CASE left[d] # "no"
  <2>1. PICK un : un = [unsaved[c] EXCEPT ![d] = w]
    OBVIOUS
  <2>2. un \in Copies /\ \A y \in Dirs : un[y] = IF y = d THEN w ELSE unsaved[c][y]
    BY <1>7, <2>1 DEF Copies
  <2>3. disk' = disk /\ op' = [op EXCEPT ![c] = r] /\ unsaved' = [unsaved EXCEPT ![c] = un]
    BY <1>1, <1>9, <2>1 DEF Store, Defer, Typed
  <2>4. Keeps(w, disk[d], interrupted', NoOp)
    <3>1. CASE o.kind \in {"remove", "rename"}
      <4>1. PICK k \in Kinds3 : AllSound(k)
        BY <1>1 DEF Kinded
      <4>2. Sound(disk[d], k, next_uuid)
        BY <4>1 DEF AllSound
      <4>3. o.uuid \in interrupted' /\ {o.overwritten.uuid} \ {0} \subseteq interrupted'
        BY <1>3, <1>9, <3>1
      <4> QED
        BY <1>2, <1>3, <4>2, <4>3, KeepsInterrupted
    <3>2. CASE o.kind \notin {"remove", "rename"}
      <4>1. \A e : ~Excuses(o, e)
        BY <3>2 DEF Excuses
      <4>2. Keeps(w, disk[d], interrupted, NoOp)
        BY <4>1 DEF Keeps
      <4> QED
        BY <1>3, <4>2, KeepsFrame
    <3> QED
      BY <3>1, <3>2
  <2>5. KeepsCopies(un, disk, interrupted')
    BY <1>7, <2>2, <2>4 DEF KeepsCopies
  <2>6. KeepsOp(r, disk, interrupted')
    BY <1>6
  <2>7. ASSUME NEW k \in Kinds3, AllSound(k)
        PROVE  \E k2 \in Kinds3 : /\ \A u \in 1 .. next_uuid : k2[u] = k[u]
                                  /\ SoundOp(r, k2, next_uuid') /\ SoundCopies(un, k2, next_uuid')
    <3>1. SoundOp(r, k, next_uuid') /\ SoundCopies(un, k, next_uuid')
      BY <1>2, <2>2, <2>7 DEF AllSound, SoundCopies
    <3> QED
      BY <3>1
  <2>8. Shape(r, next_uuid') /\ next_uuid' \in 0 .. MaxUuid /\ next_uuid <= next_uuid'
    BY <1>2
  <2> QED
    BY <1>2, <1>3, <1>4, <1>5, <2>2, <2>3, <2>5, <2>6, <2>7, <2>8, Frame
<1> QED
  BY <1>8, <1>9

LEMMA StoreFirstStep ==
    ASSUME IInv, NEW c \in Clients, StoreFirst(c)
    PROVE  IInv'
<1>1. PICK o : o = op[c]
  OBVIOUS
<1>2. PICK d : d = o.dir
  OBVIOUS
<1>3. /\ o \in Op /\ Shape(o, next_uuid) /\ o.work \in Dirnode /\ o.work2 \in Dirnode
      /\ o.overwritten \in Entry
      /\ \A k \in Kinds3 : AllSound(k) => SoundOp(o, k, next_uuid)
  BY <1>1, OpFits, OpFields
<1>4. o.pc = "store"
  BY <1>1 DEF StoreFirst
<1>5. /\ d \in Dirs /\ lock[d] = c /\ Keeps(o.work, disk[d], interrupted, o)
      /\ o.dir2 # "none" => /\ o.dir2 \in Dirs /\ o.dir2 # d /\ o.kind = "rename" /\ lock[o.dir2] = c
                            /\ Keeps(o.work2, disk[o.dir2], interrupted, o) /\ o.uuid \in 1 .. next_uuid
      /\ o.kind \in {"remove", "rename"} => o.uuid \in Uuids
  BY <1>1, <1>2, <1>4, StoreKeeps
<1> DEFINE q == [o EXCEPT !.pc = "store2", !.dir = "none", !.work = Empty]
<1>6. q \in Op
  BY <1>3, Basics DEF Op
<1>7. /\ q.pc = "store2" /\ q.work = Empty /\ q.work2 = o.work2 /\ q.kind = o.kind
      /\ q.uuid = o.uuid /\ q.dir2 = o.dir2 /\ q.overwritten = o.overwritten
  BY <1>3 DEF Op
<1>8. PICK r : r = IF o.dir2 = "none" THEN NoOp ELSE q
  OBVIOUS
<1>9. Store(c, d, o.work, r) /\ UNCHANGED <<left, hand, tables, files, next_uuid, failures>>
  BY <1>1, <1>2, <1>8 DEF StoreFirst
<1> HIDE DEF q
<1>10. /\ r \in Op /\ Shape(r, next_uuid)
       /\ \A k \in Kinds3 : AllSound(k) => Sound(o.work, k, next_uuid) /\ SoundOp(r, k, next_uuid)
       /\ \/ r = NoOp
          \/ /\ r.kind = "rename" /\ r.pc = "store2" /\ r.dir2 \in Dirs /\ r.dir2 # d
             /\ lock[r.dir2] = c /\ Keeps(r.work2, disk[r.dir2], interrupted, r)
  <2>0. \A k \in Kinds3 : AllSound(k) => Sound(o.work, k, next_uuid) /\ Sound(o.work2, k, next_uuid)
    BY <1>3 DEF SoundOp
  <2>1. CASE o.dir2 = "none"
    BY <1>8, <2>0, <2>1, NoOpFields, NoOpFits
  <2>2. CASE o.dir2 # "none"
    <3>1. r = q
      BY <1>8, <2>2
    <3>2. Shape(q, next_uuid)
      BY <1>5, <1>7, <2>2 DEF Shape
    <3>3. Keeps(o.work2, disk[o.dir2], interrupted, q)
      BY <1>5, <1>7, <2>2, KeepsFrame
    <3>4. \A k \in Kinds3 : AllSound(k) => SoundOp(q, k, next_uuid)
      BY <1>5, <1>7, <2>0, <2>2, EmptyIsSound DEF SoundOp
    <3> QED
      BY <1>5, <1>6, <1>7, <2>0, <2>2, <3>1, <3>2, <3>3, <3>4
  <2> QED
    BY <2>1, <2>2
<1> HIDE DEF NoOp
<1> QED
  BY <1>1, <1>3, <1>5, <1>9, <1>10, StoreStep

LEMMA StoreSecondStep ==
    ASSUME IInv, NEW c \in Clients, StoreSecond(c)
    PROVE  IInv'
<1>1. PICK o : o = op[c]
  OBVIOUS
<1>2. PICK d : d = o.dir2
  OBVIOUS
<1>3. /\ o.work2 \in Dirnode /\ o.overwritten \in Entry
      /\ \A k \in Kinds3 : AllSound(k) => SoundOp(o, k, next_uuid)
  BY <1>1, OpFits, OpFields
<1>4. o.pc = "store2"
  BY <1>1 DEF StoreSecond
<1>5. /\ d \in Dirs /\ lock[d] = c /\ Keeps(o.work2, disk[d], interrupted, o)
      /\ o.kind \in {"remove", "rename"} => o.uuid \in Uuids
  BY <1>1, <1>2, <1>4, StoreKeeps
<1>6. PICK r : r = NoOp
  OBVIOUS
<1>7. Store(c, d, o.work2, r) /\ UNCHANGED <<left, hand, tables, files, next_uuid, failures>>
  BY <1>1, <1>2, <1>6 DEF StoreSecond
<1>8. /\ r \in Op /\ Shape(r, next_uuid)
      /\ \A k \in Kinds3 : AllSound(k) => Sound(o.work2, k, next_uuid) /\ SoundOp(r, k, next_uuid)
  BY <1>3, <1>6, NoOpFields, NoOpFits DEF SoundOp
<1> HIDE DEF NoOp
<1> QED
  BY <1>1, <1>3, <1>5, <1>6, <1>7, <1>8, StoreStep

LEMMA StoreFailsStep ==
    ASSUME IInv, NEW c \in Clients, StoreFails(c)
    PROVE  IInv'
<1>1. PICK o : o = op[c]
  OBVIOUS
<1>2. PICK d : d = IF o.pc = "store" THEN o.dir ELSE o.dir2
  OBVIOUS
<1>3. PICK dn : dn = IF o.pc = "store" THEN o.work ELSE o.work2
  OBVIOUS
<1>4. PICK rest \in BOOLEAN : rest <=> o.pc = "store" /\ o.dir2 # "none"
  OBVIOUS
<1>5. /\ o.work \in Dirnode /\ o.work2 \in Dirnode /\ o.overwritten \in Entry
      /\ \A k \in Kinds3 : AllSound(k) => SoundOp(o, k, next_uuid)
  BY <1>1, OpFits, OpFields
<1>6. Typed /\ Surviving /\ Kinded
  BY DEF IInv
<1>7. o.pc \in {"store", "store2"} /\ Fail
  BY <1>1 DEF StoreFails
<1>8. /\ d \in Dirs /\ lock[d] = c /\ dn \in Dirnode
      /\ \A k \in Kinds3 : AllSound(k) => Sound(dn, k, next_uuid) /\ Sound(o.work2, k, next_uuid)
      /\ rest => /\ o.dir2 \in Dirs /\ o.dir2 # d /\ Keeps(o.work2, disk[o.dir2], interrupted, o)
                 /\ o.uuid \in Uuids
      /\ o.kind = "remove" => o.uuid \in Uuids
  BY <1>1, <1>2, <1>3, <1>4, <1>5, <1>7, StoreKeeps DEF SoundOp
<1>9. unsaved[c] \in Copies
  BY <1>6 DEF Typed
<1>10. PICK un : un = [x \in Dirs |-> IF x = d THEN NoDirnode
                                      ELSE IF rest /\ x = o.dir2 THEN o.work2 ELSE unsaved[c][x]]
  OBVIOUS
<1>11. /\ un \in Copies
       /\ \A y \in Dirs : un[y] = IF y = d THEN NoDirnode
                                  ELSE IF rest /\ y = o.dir2 THEN o.work2 ELSE unsaved[c][y]
  BY <1>5, <1>9, <1>10 DEF Copies
<1>12. interrupted' = interrupted \union (IF o.kind = "remove" \/ rest THEN {o.uuid} ELSE {})
                                  \union (IF rest THEN {o.overwritten.uuid} \ {0} ELSE {})
  BY <1>1, <1>4 DEF StoreFails
<1>13. o.overwritten.uuid \in Uuids \union {0}
  BY <1>5 DEF Entry
<1>14. /\ interrupted \subseteq interrupted' /\ interrupted' \subseteq Uuids
       /\ rest => o.uuid \in interrupted' /\ {o.overwritten.uuid} \ {0} \subseteq interrupted'
  BY <1>6, <1>8, <1>12, <1>13 DEF Typed
<1>15. UNCHANGED <<tables, files, next_uuid>>
  BY DEF StoreFails
<1>16. Tabled' /\ files' \subseteq Uuids /\ next_uuid' = next_uuid /\ failures' \in 0 .. MaxFailures
  BY <1>6, <1>7, <1>15, BoundsAssumption DEF Typed, Tabled, tables, Fail
<1>17. \A k \in Kinds3 : AllSound(k) => SoundCopies(un, k, next_uuid)
  BY <1>8, <1>11 DEF AllSound, SoundCopies
<1>18. rest => Keeps(o.work2, disk[o.dir2], interrupted', NoOp)
  <2> SUFFICES ASSUME rest PROVE Keeps(o.work2, disk[o.dir2], interrupted', NoOp)
    OBVIOUS
  <2>1. PICK k \in Kinds3 : AllSound(k)
    BY <1>6 DEF Kinded
  <2>2. Sound(disk[o.dir2], k, next_uuid)
    BY <1>8, <2>1 DEF AllSound
  <2>3. next_uuid \in Nat
    BY OpFits
  <2>4. Keeps(o.work2, disk[o.dir2], interrupted, o)
    BY <1>8
  <2> QED
    BY <1>14, <2>2, <2>3, <2>4, KeepsInterrupted
<1>19. KeepsCopies(un, disk, interrupted')
  <2>1. KeepsCopies(unsaved[c], disk, interrupted')
    BY <1>6, <1>14, KeepsCopiesStay DEF Surviving
  <2> QED
    BY <1>11, <1>18, <2>1 DEF KeepsCopies
<1>20. lock' = Released(c) /\ HandsFit
  BY <1>6, HandsStay DEF StoreFails, Typed
<1>26. /\ lock' \in [Dirs -> Clients \union {"free"}]
       /\ \A y \in Dirs, x \in Clients \ {c} : lock[y] = x => lock'[y] = x
  BY <1>6, <1>20, EndLocks
<1> DEFINE kept == [unsaved EXCEPT ![c] = un]
<1>21. kept = [unsaved EXCEPT ![c] = [x \in Dirs |-> IF x = d THEN NoDirnode
                                           ELSE IF rest /\ x = o.dir2 THEN o.work2 ELSE @[x]]]
  BY <1>10
<1>22. \/ UNCHANGED disk /\ unsaved' = kept /\ op' = [op EXCEPT ![c] = NoOp]
       \/ /\ disk' = [disk EXCEPT ![d] = dn]
          /\ unsaved' = [k \in Clients |-> IF k = c THEN kept[c] ELSE [kept[k] EXCEPT ![d] = NoDirnode]]
          /\ op' = [k \in Clients |-> IF k = c THEN NoOp ELSE Stale(k, d)]
  BY <1>1, <1>2, <1>3, <1>4, <1>21 DEF StoreFails
<1>23. kept[c] = un /\ \A k \in Clients : k # c => kept[k] = unsaved[k]
  BY <1>6 DEF Typed
<1>24. CASE UNCHANGED disk /\ unsaved' = kept /\ op' = [op EXCEPT ![c] = NoOp]
  BY <1>11, <1>14, <1>16, <1>17, <1>19, <1>20, <1>24, <1>26, EndFrame
<1>25. CASE /\ disk' = [disk EXCEPT ![d] = dn]
            /\ unsaved' = [k \in Clients |-> IF k = c THEN kept[c] ELSE [kept[k] EXCEPT ![d] = NoDirnode]]
            /\ op' = [k \in Clients |-> IF k = c THEN NoOp ELSE Stale(k, d)]
  <2> HIDE DEF kept
  <2>1. unsaved' = CopiesAfter(c, d, un)
    BY <1>23, <1>25 DEF CopiesAfter
  <2>2. PICK r : r = NoOp
    OBVIOUS
  <2>3. op' = OpsAfter(c, d, r)
    BY <1>25, <2>2 DEF OpsAfter
  <2>4. /\ r \in Op /\ Shape(r, next_uuid) /\ Holds(c, r, lock') /\ KeepsOp(r, disk', interrupted')
        /\ \A k \in Kinds3 : AllSound(k) => SoundOp(r, k, next_uuid)
    BY <2>2, NoOpFields, NoOpFits
  <2>5. \A y \in Dirs : y # d => disk'[y] = disk[y]
    BY <1>6, <1>25 DEF Typed
  <2>6. KeepsCopies(un, disk', interrupted')
    BY <1>11, <1>19, <2>5 DEF KeepsCopies
  <2>8. \A k \in Kinds3 : AllSound(k) => Sound(dn, k, next_uuid)
    BY <1>8
  <2>9. d \in Dirs /\ lock[d] = c /\ dn \in Dirnode /\ disk' = [disk EXCEPT ![d] = dn]
    BY <1>8, <1>25
  <2>10. /\ disk' \in [Dirs -> Dirnode] /\ op' \in [Clients -> Op] /\ unsaved' \in [Clients -> Copies]
         /\ \A y \in Dirs : disk'[y] = IF y = d THEN dn ELSE disk[y]
         /\ \A x \in Clients : op'[x] = IF x = c THEN r ELSE Stale(x, d)
         /\ unsaved'[c] = un
         /\ \A x \in Clients, y \in Dirs : x # c => unsaved'[x][y] = IF y = d THEN NoDirnode ELSE unsaved[x][y]
    BY <1>6, <1>11, <2>1, <2>3, <2>4, <2>9, Published
  <2>11. \A k \in Kinds3 : AllSound(k) => /\ Sound(dn, k, next_uuid) /\ SoundOp(r, k, next_uuid)
                                          /\ SoundCopies(un, k, next_uuid)
    BY <1>17, <2>4, <2>8
  <2>12. d \in Dirs /\ lock[d] = c /\ dn \in Dirnode
    BY <1>8
  <2> QED
    BY <1>11, <1>14, <1>16, <1>20, <1>26, <2>4, <2>6, <2>10, <2>11, <2>12, PublishFrame
<1> QED
  BY <1>22, <1>24, <1>25

LEMMA CrashStep ==
    ASSUME IInv, NEW c \in Clients, Crash(c)
    PROVE  IInv'
<1> DEFINE un == [d \in Dirs |-> NoDirnode]
<1>1. Typed /\ Tabled
  BY DEF IInv, Typed
<1>2. un \in Copies /\ \A d \in Dirs : un[d] = NoDirnode
  BY DEF Copies
<1>3. /\ op' = [op EXCEPT ![c] = NoOp] /\ unsaved' = [unsaved EXCEPT ![c] = un] /\ disk' = disk
      /\ next_uuid' = next_uuid
  BY DEF Crash
<1>10. /\ lock' \in [Dirs -> Clients \union {"free"}]
       /\ \A d \in Dirs, x \in Clients \ {c} : lock[d] = x => lock'[d] = x
  BY <1>1 DEF Crash, Typed
<1>11. HandsFit
  <2>1. left' \in Lefts
    BY <1>1 DEF Crash, Typed, Lefts
  <2> QED
    BY <1>1, <2>1, HandsStay DEF Crash
<1>4. Tabled'
  BY <1>1 DEF Tabled, Crash
<1>5. op[c].kind = "remove" => op[c].uuid \in Uuids
  BY OpFits DEF Shape
<1>6. interrupted' = interrupted \union (IF op[c].kind = "remove" THEN {op[c].uuid} ELSE {})
                                 \union {u \in Uuids : Table(c)[u] # table[u]}
  BY DEF Crash
<1>7. interrupted \subseteq interrupted' /\ interrupted' \subseteq Uuids
  BY <1>1, <1>5, <1>6 DEF Typed
<1>8. files' \subseteq Uuids /\ failures' \in 0 .. MaxFailures
  BY <1>1, BoundsAssumption DEF Typed, Crash, Fail
<1> HIDE DEF un
<1>9. KeepsCopies(un, disk, interrupted') /\ \A k \in Kinds3 : SoundCopies(un, k, next_uuid)
  BY <1>2 DEF KeepsCopies, SoundCopies
<1> QED
  BY <1>2, <1>3, <1>4, <1>7, <1>8, <1>9, <1>10, <1>11, EndFrame

LEMMA EvictStep ==
    ASSUME IInv, NEW c \in Clients, NEW d \in Dirs, Evict(c, d)
    PROVE  IInv'
<1>1. PICK r : r = op[c]
  OBVIOUS
<1>2. PICK un : un = [unsaved[c] EXCEPT ![d] = NoDirnode]
  OBVIOUS
<1>3. Typed /\ Surviving
  BY DEF IInv
<1>4. unsaved[c] \in Copies
  BY <1>3 DEF Typed
<1>5. un \in Copies /\ \A y \in Dirs : un[y] = IF y = d THEN NoDirnode ELSE unsaved[c][y]
  BY <1>2, <1>4, DroppedCopy
<1>6. UNCHANGED <<disk, tables, files, lock, hand, op, next_uuid, failures, interrupted>>
  BY DEF Evict
<1>13. HandsFit
  <2>1. left' \in Lefts
    BY <1>3 DEF Evict, Typed, Lefts
  <2> QED
    BY <1>3, <1>6, <2>1, HandsStay
<1>7. unsaved' = [unsaved EXCEPT ![c] = un]
  BY <1>2, <1>3 DEF Evict, Typed
<1>8. op' = [op EXCEPT ![c] = r]
  BY <1>1, <1>3, <1>6 DEF Typed
<1>9. /\ r \in Op /\ Shape(r, next_uuid') /\ Holds(c, r, lock') /\ KeepsOp(r, disk, interrupted')
      /\ next_uuid' \in 0 .. MaxUuid /\ next_uuid <= next_uuid'
      /\ \A k \in Kinds3 : AllSound(k) => SoundOp(r, k, next_uuid')
  BY <1>1, <1>6, OpFits
<1>10. /\ Tabled' /\ files' \subseteq Uuids /\ interrupted \subseteq interrupted' /\ interrupted' \subseteq Uuids
       /\ failures' \in 0 .. MaxFailures /\ lock' \in [Dirs -> Clients \union {"free"}]
       /\ \A y \in Dirs, x \in Clients \ {c} : lock[y] = x => lock'[y] = x
  BY <1>3, <1>6 DEF Typed, Tabled, tables
<1>11. KeepsCopies(un, disk, interrupted')
  BY <1>3, <1>5, <1>6 DEF Surviving, KeepsCopies
<1>12. ASSUME NEW k \in Kinds3, AllSound(k)
       PROVE  \E k2 \in Kinds3 : /\ \A u \in 1 .. next_uuid : k2[u] = k[u]
                                 /\ SoundOp(r, k2, next_uuid') /\ SoundCopies(un, k2, next_uuid')
  <2>1. SoundCopies(un, k, next_uuid')
    BY <1>5, <1>6, <1>12 DEF AllSound, SoundCopies
  <2> QED
    BY <1>9, <1>12, <2>1
<1> QED
  BY <1>5, <1>6, <1>7, <1>8, <1>9, <1>10, <1>11, <1>12, <1>13, Frame

(* Steps that only look at dirnodes, wait for them or leave them locked.   *)
LEMMA IdleFits ==
    ASSUME IInv, NEW c \in Clients, Idle(c), NEW lck
    PROVE  Holds(c, op[c], lck)
<1>1. op[c] \in Op /\ Shape(op[c], next_uuid)
  BY OpFits
<1>2. op[c].kind = "none" /\ op[c].pc = "idle"
  BY <1>1, OpFields DEF Idle, Shape
<1> QED
  BY <1>2 DEF Holds

LEMMA LockFrame ==
    ASSUME IInv, NEW c \in Clients, UNCHANGED <<disk, unsaved, tables, files, op, next_uuid, interrupted>>,
           failures' \in 0 .. MaxFailures, HandsFit,
           lock' \in [Dirs -> Clients \union {"free"}],
           \A d \in Dirs, x \in Clients \ {c} : lock[d] = x => lock'[d] = x,
           Idle(c) \/ lock' = lock
    PROVE  IInv'
<1>1. PICK r : r = op[c]
  OBVIOUS
<1>2. Typed
  BY DEF IInv
<1>3. op' = [op EXCEPT ![c] = r] /\ interrupted' = interrupted
  BY <1>1, <1>2 DEF Typed
<1>4. /\ r \in Op /\ Shape(r, next_uuid') /\ Holds(c, r, lock') /\ KeepsOp(r, disk, interrupted')
      /\ next_uuid' \in 0 .. MaxUuid /\ next_uuid <= next_uuid'
      /\ \A k \in Kinds3 : AllSound(k) => SoundOp(r, k, next_uuid')
  BY <1>1, OpFits, IdleFits
<1>5. Tabled' /\ files' \subseteq Uuids /\ interrupted \subseteq interrupted' /\ interrupted' \subseteq Uuids
  BY <1>2 DEF Typed, Tabled, tables
<1>6. ASSUME NEW k \in Kinds3, AllSound(k)
      PROVE  \E k2 \in Kinds3 : (\A u \in 1 .. next_uuid : k2[u] = k[u]) /\ SoundOp(r, k2, next_uuid')
  BY <1>4, <1>6
<1> QED
  BY <1>3, <1>4, <1>5, <1>6, OpFrame

LEMMA WaitStep ==
    ASSUME IInv, NEW c \in Clients, NEW d \in Dirs, Wait(c, d)
    PROVE  IInv'
<1>1. Typed
  BY DEF IInv
<1>2. /\ Cached(c, d) \in Dirnode
      /\ \A k \in Kinds3 : AllSound(k) => Sound(Cached(c, d), k, next_uuid)
  BY CachedFits
<1>3. PICK dirty \in BOOLEAN : dirty = Dirty(c, d)
  BY <1>1 DEF Dirty, Typed, Hands
<1>4. PICK h : h = [dir |-> d, copy |-> Cached(c, d), dirty |-> dirty]
  OBVIOUS
<1>5. h \in [dir : Dirs \union {"none"}, copy : Dirnode, dirty : BOOLEAN] /\ h.copy = Cached(c, d)
  BY <1>2, <1>4
<1>6. hand' = [hand EXCEPT ![c] = h]
  BY <1>3, <1>4 DEF Wait
<1>7. hand \in Hands
  BY <1>1 DEF Typed
<1>8. hand' \in Hands /\ \A x \in Clients : hand'[x].copy \in {hand[x].copy, Cached(c, d)}
  BY <1>5, <1>6, <1>7 DEF Hands
<1>9. HandsFit
  <2>1. left' \in Lefts
    BY <1>1 DEF Wait, Typed
  <2> QED
    BY <1>2, <1>8, <2>1 DEF HandsFit, AllSound
<1>10. /\ UNCHANGED <<disk, unsaved, tables, files, lock, op, next_uuid, interrupted>>
       /\ failures' \in 0 .. MaxFailures
  BY <1>1, BoundsAssumption DEF Wait, Fail, Typed
<1> QED
  BY <1>1, <1>9, <1>10, LockFrame DEF Typed

LEMMA WaitForTableStep ==
    ASSUME IInv, NEW c \in Clients, WaitForTable(c)
    PROVE  IInv'
<1>1. Typed
  BY DEF IInv
<1>2. PICK o : o = op[c]
  OBVIOUS
<1>3. PICK t : t = Table(c)
  OBVIOUS
<1>4. t \in Tables
  BY <1>1, <1>3, TableTyped
<1>5. /\ o \in Op /\ Shape(o, next_uuid) /\ Holds(c, o, lock) /\ KeepsOp(o, disk, interrupted)
      /\ \A k \in Kinds3 : AllSound(k) => SoundOp(o, k, next_uuid)
      /\ next_uuid \in 0 .. MaxUuid /\ next_uuid <= next_uuid
  BY <1>2, OpFits
<1> DEFINE r == [o EXCEPT !.table = t]
<1>6. op' = [op EXCEPT ![c] = r]
  BY <1>1, <1>2, <1>3 DEF WaitForTable, Typed
<1>7. r \in Op
  BY <1>4, <1>5 DEF Op
<1>8. /\ r.kind = o.kind /\ r.pc = o.pc /\ r.dir = o.dir /\ r.name = o.name /\ r.dir2 = o.dir2
      /\ r.name2 = o.name2 /\ r.uuid = o.uuid /\ r.work = o.work /\ r.work2 = o.work2
      /\ r.fresh = o.fresh /\ r.overwritten = o.overwritten
  BY <1>5 DEF Op
<1> HIDE DEF r
<1>9. /\ UNCHANGED <<disk, unsaved, tables, files, lock, left, hand, next_uuid, interrupted>>
      /\ failures' \in 0 .. MaxFailures
  BY <1>1, BoundsAssumption DEF WaitForTable, Fail, Typed, locks
<1>10. HandsFit
  BY <1>1, <1>9, HandsStay DEF Typed
<1>11. /\ Tabled' /\ files' \subseteq Uuids /\ interrupted \subseteq interrupted' /\ interrupted' \subseteq Uuids
       /\ lock' \in [Dirs -> Clients \union {"free"}]
       /\ \A d \in Dirs, x \in Clients \ {c} : lock[d] = x => lock'[d] = x
       /\ next_uuid' \in 0 .. MaxUuid /\ next_uuid <= next_uuid'
  BY <1>1, <1>5, <1>9 DEF Typed, Tabled, tables
<1>12. Shape(r, next_uuid')
  BY <1>5, <1>8, <1>9 DEF Shape
<1>13. Holds(c, r, lock')
  BY <1>5, <1>8, <1>9 DEF Holds
<1>14. KeepsOp(r, disk, interrupted')
  <2>1. \A w, old : Keeps(w, old, interrupted, o) => Keeps(w, old, interrupted, r)
    BY <1>8, KeepsFrame
  <2> QED
    BY <1>5, <1>8, <1>9, <2>1 DEF KeepsOp
<1>15. ASSUME NEW k \in Kinds3, AllSound(k)
       PROVE  \E k2 \in Kinds3 : (\A u \in 1 .. next_uuid : k2[u] = k[u]) /\ SoundOp(r, k2, next_uuid')
  <2>1. SoundOp(r, k, next_uuid')
    BY <1>5, <1>8, <1>9, <1>15 DEF SoundOp
  <2> QED
    BY <2>1
<1> QED
  BY <1>6, <1>7, <1>9, <1>10, <1>11, <1>12, <1>13, <1>14, <1>15, OpFrame

LEMMA LockStep ==
    ASSUME IInv, NEW c \in Clients,
           Refused(c) \/ \E d \in Dirs : RenameFails(c, d) \/ Lookup(c, d)
    PROVE  IInv'
<1>1. Typed
  BY DEF IInv
<1>2. CASE Refused(c)
  <2>1. HandsFit
    BY <1>1, <1>2, HandsStay DEF Refused, Typed
  <2> QED
    BY <1>1, <1>2, <2>1, LockFrame DEF Refused, Typed
<1>3. ASSUME NEW d \in Dirs, RenameFails(c, d) PROVE IInv'
  <2>1. left' \in Lefts
    BY <1>1, <1>3 DEF RenameFails, Typed, Lefts
  <2>2. HandsFit
    BY <1>1, <1>3, <2>1, HandsStay DEF RenameFails
  <2>3. /\ lock' \in [Dirs -> Clients \union {"free"}]
        /\ \A y \in Dirs, x \in Clients \ {c} : lock[y] = x => lock'[y] = x
    BY <1>1, <1>3, SetsAssumption DEF RenameFails, Lockable, Typed
  <2>4. /\ UNCHANGED <<disk, unsaved, tables, files, op, next_uuid, interrupted>> /\ Idle(c)
        /\ failures' \in 0 .. MaxFailures
    BY <1>1, <1>3, BoundsAssumption DEF RenameFails, Fail, Typed
  <2> QED
    BY <2>2, <2>3, <2>4, LockFrame
<1>4. ASSUME NEW d \in Dirs, Lookup(c, d) PROVE IInv'
  <2>1. left' \in Lefts
    BY <1>1, <1>4 DEF Lookup, Typed, Lefts
  <2>2. HandsFit
    BY <1>1, <1>4, <2>1, HandsStay DEF Lookup
  <2>3. /\ lock' \in [Dirs -> Clients \union {"free"}]
        /\ \A y \in Dirs, x \in Clients \ {c} : lock[y] = x => lock'[y] = x
    BY <1>1, <1>4 DEF Lookup, Typed
  <2>4. /\ UNCHANGED <<disk, unsaved, tables, files, op, next_uuid, interrupted>> /\ Idle(c)
        /\ failures' \in 0 .. MaxFailures
    BY <1>1, <1>4 DEF Lookup, Typed
  <2> QED
    BY <2>2, <2>3, <2>4, LockFrame
<1> QED
  BY <1>2, <1>3, <1>4
-----------------------------------------------------------------------------
(* The invariant holds at the beginning, and every step keeps it.          *)

LEMMA InitIInv ==
    ASSUME Init
    PROVE  IInv
<1>1. Typed
  <2>1. /\ disk \in [Dirs -> Dirnode] /\ unsaved \in [Clients -> Copies] /\ op \in [Clients -> Op]
    BY Basics, NoOpFields DEF Init, Copies
  <2>2. Tabled
    BY DEF Init, Tabled, Tables
  <2>3. next_uuid \in 0 .. MaxUuid /\ failures \in 0 .. MaxFailures
    BY BoundsAssumption DEF Init
  <2>4. left \in Lefts /\ hand \in Hands /\ \A c \in Clients : hand[c].copy = Empty
    BY Basics DEF Init, Lefts, Hands, NoHand
  <2> QED
    BY <2>1, <2>2, <2>3, <2>4 DEF Init, Typed
<1>2. \A c \in Clients : op[c] = NoOp /\ \A d \in Dirs : unsaved[c][d] = NoDirnode
  BY DEF Init
<1>3. Operating
  BY <1>2, NoOpFits DEF Operating
<1>4. Kinded
  <2> DEFINE k == [u \in Uuids |-> "REG"]
  <2>1. k \in Kinds3
    BY DEF Kinds3, FileTypes
  <2> HIDE DEF k
  <2>2. \A d \in Dirs : Sound(disk[d], k, next_uuid)
    BY EmptyIsSound DEF Init
  <2>3. \A c \in Clients : /\ SoundCopies(unsaved[c], k, next_uuid) /\ SoundOp(op[c], k, next_uuid)
                            /\ Sound(hand[c].copy, k, next_uuid)
    BY <1>2, NoOpFits, EmptyIsSound DEF SoundCopies, Init, NoHand
  <2> QED
    BY <2>1, <2>2, <2>3 DEF Kinded, AllSound
<1>5. Surviving
  BY <1>2, NoOpFits DEF Surviving, KeepsCopies
<1> QED
  BY <1>1, <1>3, <1>4, <1>5 DEF IInv

LEMMA StutterStep ==
    ASSUME IInv, UNCHANGED vars
    PROVE  IInv'
<1>1. UNCHANGED <<disk, unsaved, table, deferred, leaked, table_lock, files, lock, left, hand, op, next_uuid,
              failures, interrupted>>
  BY DEF vars, tables, locks
<1>2. Typed'
  BY <1>1 DEF IInv, Typed, Tabled
<1>3. Operating'
  BY <1>1 DEF IInv, Operating
<1>4. Kinded'
  BY <1>1 DEF IInv, Kinded, AllSound
<1>5. Surviving'
  BY <1>1 DEF IInv, Surviving
<1> QED
  BY <1>2, <1>3, <1>4, <1>5 DEF IInv

LEMMA NextIInv ==
    ASSUME IInv, [Next]_vars
    PROVE  IInv'
<1>1. CASE UNCHANGED vars
  BY <1>1, StutterStep
<1>2. ASSUME NEW c \in Clients, Step(c) PROVE IInv'
  BY <1>2, RemoveFilenodeStep, NxsHardlinkStep, RenameAcrossStep, StoreFirstStep, StoreSecondStep,
     StoreFailsStep DEF Step
<1>3. ASSUME NEW c \in Clients, Crash(c) PROVE IInv'
  BY <1>3, CrashStep
<1>4. ASSUME NEW c \in Clients, NEW d \in Dirs, Evict(c, d) PROVE IInv'
  BY <1>4, EvictStep
<1>5. ASSUME NEW c \in Clients, NEW d \in Dirs, NEW n \in Names, ecall_fs_create(c, d, n) PROVE IInv'
  <2>1. "REG" \in FileTypes /\ "DIR" \in FileTypes
    BY DEF FileTypes
  <2> QED
    BY <1>5, <2>1, NewStep DEF ecall_fs_create
<1>6. ASSUME NEW c \in Clients, NEW d \in Dirs, NEW n \in Names, ecall_fs_symlink(c, d, n) PROVE IInv'
  <2>1. "LNK" \in FileTypes
    BY DEF FileTypes
  <2> QED
    BY <1>6, <2>1, NewStep DEF ecall_fs_symlink
<1>7. ASSUME NEW c \in Clients, NEW d \in Dirs, NEW n \in Names, ecall_fs_remove(c, d, n) PROVE IInv'
  BY <1>7, RemoveStep
<1>8. ASSUME NEW c \in Clients, NEW d \in Dirs, NEW n \in Names, NEW e \in Dirs, NEW m \in Names,
             ecall_fs_hardlink(c, d, n, e, m) \/ ecall_fs_rename(c, d, n, e, m)
      PROVE  IInv'
  BY <1>8, HardlinkStep, RenameStep
<1>9. ASSUME NEW c \in Clients,
             WaitForTable(c) \/ Refused(c) \/ \E d \in Dirs : Wait(c, d) \/ RenameFails(c, d) \/ Lookup(c, d)
      PROVE  IInv'
  BY <1>9, WaitStep, WaitForTableStep, LockStep
<1> QED
  BY <1>9, <1>1, <1>2, <1>3, <1>4, <1>5, <1>6, <1>7, <1>8 DEF Next

(* The inductive invariant holds in every behaviour of the directory       *)
(* operations, for any clients, directories, names and bounds.             *)
THEOREM Invariance == Spec => []IInv
<1>1. Init => IInv
  BY InitIInv
<1>2. IInv /\ [Next]_vars => IInv'
  BY NextIInv
<1> QED
  BY <1>1, <1>2, PTL DEF Spec
-----------------------------------------------------------------------------
(* The types of the dirnodes, the hardlink table and the operations of     *)
(* dirs.c: in particular no count of the table is ever 1, and a target of  *)
(* a symbolic link is never taken from a dirnode that has none.            *)
THEOREM TypeCorrect == Spec => []TypeOK
<1>1. IInv => TypeOK
  <2> SUFFICES ASSUME IInv PROVE TypeOK
    OBVIOUS
  <2>1. Typed /\ Tabled
    BY DEF IInv, Typed
  <2>2. \A c \in Clients : /\ op[c].pc \in {"idle", "table", "lock2", "store", "store2"}
                           /\ op[c].work \in Dirnode /\ op[c].work2 \in Dirnode
    BY <2>1, OpFields DEF Typed
  <2> QED
    BY <2>1, <2>2 DEF TypeOK, Typed, Tabled, Tables, Copies, Lefts, Hands
<1> QED
  BY <1>1, Invariance, PTL

(* A stored symbolic link can be read: dirnode_rename and the stores leave *)
(* its target in the dirnode that has the entry, also when a store fails   *)
(* or a client dies between the two stores of a rename.                    *)
THEOREM StoredLinksHaveTargets == Spec => []SymlinksHaveTargets
<1>1. IInv => SymlinksHaveTargets
  <2> SUFFICES ASSUME IInv, NEW d \in Dirs, NEW n \in Names, disk[d].entries[n].type = "LNK"
               PROVE  disk[d].symlinks[disk[d].entries[n].uuid] > 0
    BY DEF SymlinksHaveTargets
  <2>1. PICK dn : dn = disk[d]
    OBVIOUS
  <2>2. PICK k \in Kinds3 : AllSound(k)
    BY DEF IInv, Kinded
  <2>3. dn \in Dirnode /\ Sound(dn, k, next_uuid) /\ next_uuid \in 0 .. MaxUuid
    BY <2>1, <2>2 DEF IInv, Typed, AllSound
  <2>4. PICK u : u = dn.entries[n].uuid
    OBVIOUS
  <2>5. u \in Uuids
    BY <2>1, <2>3, <2>4, Basics, BoundsAssumption DEF Sound, Fits, Uuids
  <2>6. n \in Links(dn, u)
    BY <2>1, <2>4 DEF Links
  <2>7. Cardinality(Links(dn, u)) # 0
    BY <2>6, LinksAreFinite, FS_EmptySet
  <2>8. Cardinality(Links(dn, u)) <= dn.symlinks[u] /\ dn.symlinks[u] \in Nat
    BY <2>3, <2>5, DirnodeFields DEF Sound
  <2>9. Cardinality(Links(dn, u)) \in Nat
    BY LinksAreFinite
  <2>10. dn.symlinks[u] > 0
    BY <2>7, <2>8, <2>9
  <2> QED
    BY <2>1, <2>4, <2>10
<1> QED
  BY <1>1, Invariance, PTL

Survives(e) == \/ \E f \in StoredEntries(disk') : f.uuid = e.uuid
               \/ e.uuid \in interrupted
               \/ \E c \in Clients : \/ op[c].kind \in {"remove", "rename"} /\ op[c].uuid = e.uuid
                                     \/ op[c].kind = "rename" /\ op[c].overwritten = e

LEMMA StoreSurvives ==
    ASSUME IInv, NEW c \in Clients, NEW d \in Dirs, NEW dn, NEW o, o = op[c],
           disk' = [disk EXCEPT ![d] = dn], Keeps(dn, disk[d], interrupted, o)
    PROVE  \A e \in StoredEntries(disk) : Survives(e)
<1> SUFFICES ASSUME NEW y \in Dirs, NEW n \in Names, NEW e, e = disk[y].entries[n], e # NoEntry
             PROVE  Survives(e)
  BY DEF StoredEntries
<1>1. \A x \in Dirs : disk'[x] = IF x = d THEN dn ELSE disk[x]
  BY DEF IInv, Typed
<1>2. CASE y # d
  <2>1. disk'[y].entries[n] = e
    BY <1>1, <1>2
  <2>2. e \in StoredEntries(disk')
    BY <2>1 DEF StoredEntries
  <2> QED
    BY <2>2 DEF Survives
<1>3. CASE y = d
  <2>1. e.uuid \in interrupted \/ (\E m \in Names : dn.entries[m] = e) \/ Excuses(o, e)
    BY <1>3 DEF Keeps
  <2>2. ASSUME NEW m \in Names, dn.entries[m] = e PROVE Survives(e)
    <3>1. disk'[d].entries[m] = e
      BY <1>1, <2>2
    <3>2. e \in StoredEntries(disk')
      BY <3>1 DEF StoredEntries
    <3> QED
      BY <3>2 DEF Survives
  <2>3. CASE Excuses(o, e)
    BY <2>3 DEF Excuses, Survives
  <2> QED
    BY <2>1, <2>2, <2>3 DEF Survives
<1> QED
  BY <1>2, <1>3

LEMMA StepSurvives ==
    ASSUME IInv, Next
    PROVE  \A e \in StoredEntries(disk) : Survives(e)
<1>1. CASE UNCHANGED disk
  BY <1>1 DEF Survives
<1>2. ASSUME NEW c \in Clients, StoreFirst(c) PROVE \A e \in StoredEntries(disk) : Survives(e)
  <2>1. PICK o : o = op[c]
    OBVIOUS
  <2>2. PICK d : d = o.dir
    OBVIOUS
  <2>3. PICK w : w = o.work
    OBVIOUS
  <2>4. o.pc = "store" /\ (disk' = [disk EXCEPT ![d] = w] \/ disk' = disk)
    BY <1>2, <2>1, <2>2, <2>3 DEF StoreFirst, Store, Defer, Publish
  <2>5. d \in Dirs /\ Keeps(w, disk[d], interrupted, o)
    BY <2>1, <2>2, <2>3, <2>4, StoreKeeps
  <2> QED
    BY <1>1, <2>1, <2>4, <2>5, StoreSurvives
<1>3. ASSUME NEW c \in Clients, StoreSecond(c) PROVE \A e \in StoredEntries(disk) : Survives(e)
  <2>1. PICK o : o = op[c]
    OBVIOUS
  <2>2. PICK d : d = o.dir2
    OBVIOUS
  <2>3. PICK w : w = o.work2
    OBVIOUS
  <2>4. o.pc = "store2" /\ (disk' = [disk EXCEPT ![d] = w] \/ disk' = disk)
    BY <1>3, <2>1, <2>2, <2>3 DEF StoreSecond, Store, Defer, Publish
  <2>5. d \in Dirs /\ Keeps(w, disk[d], interrupted, o)
    BY <2>1, <2>2, <2>3, <2>4, StoreKeeps
  <2> QED
    BY <1>1, <2>1, <2>4, <2>5, StoreSurvives
<1>4. ASSUME NEW c \in Clients, StoreFails(c), disk' # disk PROVE \A e \in StoredEntries(disk) : Survives(e)
  <2>1. PICK o : o = op[c]
    OBVIOUS
  <2>2. PICK d : d = IF o.pc = "store" THEN o.dir ELSE o.dir2
    OBVIOUS
  <2>3. PICK w : w = IF o.pc = "store" THEN o.work ELSE o.work2
    OBVIOUS
  <2>4. o.pc \in {"store", "store2"} /\ disk' = [disk EXCEPT ![d] = w]
    BY <1>4, <2>1, <2>2, <2>3 DEF StoreFails
  <2>5. d \in Dirs /\ Keeps(w, disk[d], interrupted, o)
    BY <2>1, <2>2, <2>3, <2>4, StoreKeeps
  <2> QED
    BY <2>1, <2>4, <2>5, StoreSurvives
<1>5. ASSUME NEW c \in Clients, Step(c) PROVE \A e \in StoredEntries(disk) : Survives(e)
  BY <1>1, <1>2, <1>3, <1>4, <1>5 DEF Step, remove_filenode, nxs_fs_hardlink, RenameAcross
<1>6. ASSUME NEW c \in Clients,
             \/ Crash(c) \/ WaitForTable(c) \/ Refused(c)
             \/ \E d \in Dirs : Evict(c, d) \/ Wait(c, d) \/ RenameFails(c, d) \/ Lookup(c, d)
      PROVE  UNCHANGED disk
  BY <1>6 DEF Crash, WaitForTable, Refused, Evict, Wait, RenameFails, Lookup
<1>7. ASSUME NEW c \in Clients, NEW d \in Dirs, NEW n \in Names,
             ecall_fs_create(c, d, n) \/ ecall_fs_symlink(c, d, n) \/ ecall_fs_remove(c, d, n)
      PROVE  UNCHANGED disk
  BY <1>7 DEF ecall_fs_create, ecall_fs_symlink, ecall_fs_remove, New
<1>8. ASSUME NEW c \in Clients, NEW d \in Dirs, NEW n \in Names, NEW e \in Dirs, NEW m \in Names,
             ecall_fs_hardlink(c, d, n, e, m) \/ ecall_fs_rename(c, d, n, e, m)
      PROVE  UNCHANGED disk
  BY <1>8 DEF ecall_fs_hardlink, ecall_fs_rename
<1> QED
  BY <1>1, <1>5, <1>6, <1>7, <1>8 DEF Next

(* No operation of one client undoes what another one stored: the dirnode  *)
(* that nexus_metadata_store writes has every entry of the one it replaces *)
(* except what the operation removes, moves or overwrites, what a failed   *)
(* operation has lost before, and what another client changed while this   *)
(* one waited for the lock with an older copy (metadata.c:363-370).        *)
THEOREM StoredEntriesSurvive == Spec => EntriesSurvive
<1>1. IInv /\ [Next]_vars =>
         [\A e \in StoredEntries(disk) :
             \/ \E f \in StoredEntries(disk') : f.uuid = e.uuid
             \/ e.uuid \in interrupted
             \/ \E c \in Clients : \/ op[c].kind \in {"remove", "rename"} /\ op[c].uuid = e.uuid
                                   \/ op[c].kind = "rename" /\ op[c].overwritten = e]_vars
  BY StepSurvives DEF Survives
<1> QED
  BY <1>1, Invariance, PTL DEF Spec, EntriesSurvive
=============================================================================

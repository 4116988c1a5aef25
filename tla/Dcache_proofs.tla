--------------------------- MODULE Dcache_proofs ---------------------------
(***************************************************************************)
(* Proofs about Dcache, for every volume, number of dentries and length of *)
(* the behaviour: the counts, the parents and the lists of the dentry      *)
(* cache stay sound, and a child that a walk trusts is what the dirnode in *)
(* memory says.                                                            *)
(***************************************************************************)
EXTENDS Dcache, FiniteSetTheorems, TLAPS

(* The types.                                                              *)
Dentry == [uuid : Objects, name : Names \union {None}, parent : Ids \union {NoDentry},
           count : Nat, meta : BOOLEAN, changed : BOOLEAN]

MetaObject == [loaded : BOOLEAN, entries : [Names -> Objects \union {None}], invalid : BOOLEAN]

Cache == [dentry : [Ids -> Dentry \union {Free}], mem : [Objects -> MetaObject],
          newer : SUBSET Objects, missed : SUBSET Ids,
          at : Ids \union {NoDentry}, from : Ids \union {NoDentry},
          aliases : [Objects -> Seq(Ids)]]

LEMMA LiveDentry ==
    ASSUME NEW c \in Cache
    PROVE  /\ \A i \in Ids : i \in Live(c) <=> c.dentry[i] \in Dentry
           /\ Live(c) \subseteq Ids
           /\ \A i \in Live(c) : c.dentry[i].uuid # None
           /\ Free.uuid = None
PROOF
  <1>1. \A r \in Dentry : r.uuid \in Objects
    BY DEF Dentry
  <1>2. Free.uuid = None /\ Free \notin Dentry
    BY <1>1, SetsAssumption DEF Free
  <1>3. c.dentry \in [Ids -> Dentry \union {Free}]
    BY DEF Cache
  <1>4. QED
    BY <1>1, <1>2, <1>3, SetsAssumption DEF Live

(* The tree: the root is there, a child's parent is another directory's    *)
(* dentry that is there, it has one child of a name, and counts them all.  *)
Linked(c) ==
    \A i \in Live(c) : c.dentry[i].parent # NoDentry =>
        /\ c.dentry[i].parent \in Live(c) /\ c.dentry[i].parent # i
        /\ c.dentry[c.dentry[i].parent].uuid \in Dirs
        /\ c.dentry[i].name \in Names

Unique(c) ==
    \A i, j \in Live(c) :
        (/\ c.dentry[i].parent # NoDentry
         /\ c.dentry[i].parent = c.dentry[j].parent
         /\ c.dentry[i].name = c.dentry[j].name) => i = j

Counted(c) == \A i \in Live(c) : c.dentry[i].count = 1 + Cardinality(Children(c, i))

Tree(c) ==
    /\ RootId \in Live(c) /\ c.dentry[RootId].parent = NoDentry
    /\ Linked(c) /\ Unique(c) /\ Counted(c)

(* The lists of dentries that the metadata objects keep.                   *)
WithMeta(c, o) == {i \in Live(c) : c.dentry[i].uuid = o /\ c.dentry[i].meta}

Listed(c) ==
    \A o \in Objects :
        IsInjective(c.aliases[o]) /\ Range(c.aliases[o]) = WithMeta(c, o)

Loaded(c) == \A i \in Live(c) : c.dentry[i].meta => c.mem[c.dentry[i].uuid].loaded

(* What a walk may trust.                                                  *)
Agrees(c, i) ==
    LET p == c.dentry[i].parent IN
    (p # NoDentry /\ ~c.dentry[i].changed /\ c.mem[c.dentry[p].uuid].loaded)
    => c.mem[c.dentry[p].uuid].entries[c.dentry[i].name] = c.dentry[i].uuid

Agreeing(c) == c.missed \subseteq Live(c) /\ \A i \in Live(c) \ c.missed : Agrees(c, i)

(* Every operation on the dentries and the objects takes a good cache to a *)
(* good one.  The walk (at) is not part of it: a removal may free the      *)
(* dentry that the operation's own walk came to.                           *)
Good(c) == c \in Cache /\ Tree(c) /\ Listed(c) /\ Loaded(c) /\ Agreeing(c)

-----------------------------------------------------------------------------
LEMMA LiveSubset == ASSUME NEW c PROVE Live(c) \subseteq Ids
BY DEF Live

LEMMA ChildrenFinite ==
    ASSUME NEW c, NEW p
    PROVE  IsFiniteSet(Children(c, p)) /\ Cardinality(Children(c, p)) \in Nat
PROOF
  <1>1. IsFiniteSet(Ids)
    BY BoundsAssumption, FS_Interval DEF Ids
  <1>2. Children(c, p) \in SUBSET Ids
    BY DEF Children, Live
  <1>3. IsFiniteSet(Children(c, p))
    BY <1>1, <1>2, FS_Subset
  <1>4. QED
    BY <1>3, FS_CardinalityType

LEMMA DentryFields ==
    ASSUME NEW c \in Cache, NEW i \in Live(c)
    PROVE  /\ i \in Ids /\ c.dentry[i] \in Dentry
           /\ c.dentry[i].uuid \in Objects /\ c.dentry[i].name \in Names \union {None}
           /\ c.dentry[i].parent \in Ids \union {NoDentry} /\ c.dentry[i].count \in Nat
           /\ c.dentry[i].meta \in BOOLEAN /\ c.dentry[i].changed \in BOOLEAN
PROOF
  <1>1. i \in Ids /\ c.dentry[i] \in Dentry
    BY LiveDentry
  <1>2. QED
    BY <1>1 DEF Dentry

LEMMA IdsFacts == RootId \in Ids /\ NoDentry \notin Ids /\ Ids \subseteq Nat
BY BoundsAssumption DEF Ids, RootId, NoDentry

(* list_del takes one dentry out of a list.                                *)
LEMMA ListDel ==
    ASSUME NEW s \in Seq(Ids), NEW i, IsInjective(s)
    PROVE  /\ list_del(s, i) \in Seq(Ids) /\ IsInjective(list_del(s, i))
           /\ Range(list_del(s, i)) = Range(s) \ {i}
PROOF
  <1>1. CASE i \notin Range(s)
    <2>1. list_del(s, i) = s
      BY <1>1 DEF list_del
    <2> QED
      BY <1>1, <2>1
  <1>2. CASE i \in Range(s)
    <2> DEFINE gone == CHOOSE k \in DOMAIN s : s[k] = i
    <2>0. Len(s) \in Nat /\ DOMAIN s = 1 .. Len(s) /\ \A k \in 1 .. Len(s) : s[k] \in Ids
      OBVIOUS
    <2>1. \E k \in DOMAIN s : s[k] = i
      BY <1>2 DEF Range
    <2>2. gone \in DOMAIN s /\ s[gone] = i
      BY <2>1
    <2>3. PICK t : t = list_del(s, i)
      OBVIOUS
    <2>4. t = [k \in 1 .. Len(s) - 1 |-> IF k < gone THEN s[k] ELSE s[k + 1]]
      BY <1>2, <2>3 DEF list_del
    <2> HIDE DEF gone
    <2>5. Len(s) - 1 \in Nat /\ gone \in Nat /\ 1 <= gone /\ gone <= Len(s)
      BY <2>0, <2>2
    <2>6. \A k \in 1 .. Len(s) - 1 : (IF k < gone THEN s[k] ELSE s[k + 1]) \in Ids
      BY <2>0, <2>5
    <2>7. /\ t \in Seq(Ids) /\ Len(t) = Len(s) - 1 /\ DOMAIN t = 1 .. Len(s) - 1
          /\ \A k \in 1 .. Len(s) - 1 : t[k] = IF k < gone THEN s[k] ELSE s[k + 1]
      BY <2>4, <2>5, <2>6
    <2>8. \A k, l \in 1 .. Len(s) : s[k] = s[l] => k = l
      BY <2>0 DEF IsInjective
    <2>9. IsInjective(t)
      <3>1. SUFFICES ASSUME NEW k \in 1 .. Len(s) - 1, NEW l \in 1 .. Len(s) - 1, t[k] = t[l]
                     PROVE  k = l
        BY <2>7 DEF IsInjective
      <3> DEFINE kk == IF k < gone THEN k ELSE k + 1
                 ll == IF l < gone THEN l ELSE l + 1
      <3>2. kk \in 1 .. Len(s) /\ ll \in 1 .. Len(s) /\ s[kk] = s[ll]
        BY <2>7, <2>5, <2>0, <3>1
      <3>3. kk = ll
        BY <2>8, <3>2
      <3> QED
        BY <3>3, <2>5, <2>0
    <2>10. ASSUME NEW x \in Range(t) PROVE x \in Range(s) \ {i}
      <3>1. PICK k \in 1 .. Len(s) - 1 : x = t[k]
        BY <2>7 DEF Range
      <3> DEFINE kk == IF k < gone THEN k ELSE k + 1
      <3>2. kk \in 1 .. Len(s) /\ x = s[kk] /\ kk # gone
        BY <2>7, <2>5, <2>0, <3>1
      <3> QED
        BY <2>8, <2>2, <2>0, <3>2 DEF Range
    <2>11. ASSUME NEW x \in Range(s), x # i PROVE x \in Range(t)
      <3>1. PICK k \in 1 .. Len(s) : x = s[k]
        BY <2>0 DEF Range
      <3>2. k # gone
        BY <3>1, <2>2, <2>11
      <3> DEFINE kk == IF k < gone THEN k ELSE k - 1
      <3>3. kk \in 1 .. Len(s) - 1 /\ t[kk] = x
        BY <2>7, <2>5, <2>0, <3>1, <3>2
      <3> QED
        BY <2>7, <3>3 DEF Range
    <2> QED
      BY <2>3, <2>7, <2>9, <2>10, <2>11
  <1>3. QED
    BY <1>1, <1>2

LEMMA ListAdd ==
    ASSUME NEW s \in Seq(Ids), NEW i \in Ids, IsInjective(s), i \notin Range(s)
    PROVE  /\ <<i>> \o s \in Seq(Ids) /\ IsInjective(<<i>> \o s)
           /\ Range(<<i>> \o s) = Range(s) \union {i}
PROOF
  <1>0. Len(s) \in Nat /\ DOMAIN s = 1 .. Len(s)
    OBVIOUS
  <1>1. PICK t : t = <<i>> \o s
    OBVIOUS
  <1>2. /\ t \in Seq(Ids) /\ DOMAIN t = 1 .. Len(s) + 1 /\ t[1] = i
        /\ \A k \in 1 .. Len(s) : t[k + 1] = s[k]
        /\ \A k \in 1 .. Len(s) + 1 : k # 1 => (k - 1 \in 1 .. Len(s) /\ t[k] = s[k - 1])
    BY <1>0, <1>1
  <1>3. \A k \in 1 .. Len(s) : s[k] # i /\ s[k] \in Range(s)
    BY <1>0 DEF Range
  <1>4. IsInjective(t)
    <2>1. SUFFICES ASSUME NEW k \in 1 .. Len(s) + 1, NEW l \in 1 .. Len(s) + 1, t[k] = t[l]
                   PROVE  k = l
      BY <1>2 DEF IsInjective
    <2>2. CASE k = 1 \/ l = 1
      BY <1>2, <1>3, <2>1, <2>2
    <2>3. CASE k # 1 /\ l # 1
      <3>1. k - 1 \in 1 .. Len(s) /\ l - 1 \in 1 .. Len(s) /\ s[k - 1] = s[l - 1]
        BY <1>2, <2>1, <2>3
      <3>2. k - 1 = l - 1
        BY <1>0, <3>1 DEF IsInjective
      <3> QED
        BY <3>2
    <2> QED
      BY <2>2, <2>3
  <1>5. ASSUME NEW x \in Range(t) PROVE x \in Range(s) \union {i}
    <2>1. PICK k \in 1 .. Len(s) + 1 : x = t[k]
      BY <1>2 DEF Range
    <2> QED
      BY <1>2, <1>3, <2>1
  <1>6. ASSUME NEW x \in Range(s) PROVE x \in Range(t)
    <2>1. PICK k \in 1 .. Len(s) : x = s[k]
      BY <1>0 DEF Range
    <2>2. k + 1 \in DOMAIN t /\ t[k + 1] = x
      BY <1>0, <1>2, <2>1
    <2> QED
      BY <2>2 DEF Range
  <1>7. i \in Range(t)
    <2>1. 1 \in DOMAIN t /\ t[1] = i
      BY <1>0, <1>2
    <2> QED
      BY <2>1 DEF Range
  <1>8. QED
    BY <1>1, <1>2, <1>4, <1>5, <1>6, <1>7
-----------------------------------------------------------------------------
(* Steps that leave the shape of the tree alone.                           *)
SameShape(b, c) ==
    /\ Live(b) = Live(c)
    /\ \A i \in Live(c) : /\ b.dentry[i].uuid = c.dentry[i].uuid
                          /\ b.dentry[i].name = c.dentry[i].name
                          /\ b.dentry[i].parent = c.dentry[i].parent
                          /\ b.dentry[i].count = c.dentry[i].count

LEMMA ShapeKeepsTree ==
    ASSUME NEW b, NEW c, SameShape(b, c), Tree(c)
    PROVE  Tree(b) /\ \A p : Children(b, p) = Children(c, p)
PROOF
  <1>1. \A p : Children(b, p) = Children(c, p)
    BY DEF SameShape, Children
  <1>2. Counted(b)
    BY <1>1 DEF Counted, Tree, SameShape
  <1>3. Linked(b)
    BY DEF Linked, Tree, SameShape
  <1>4. Unique(b)
    BY DEF Unique, Tree, SameShape
  <1>5. QED
    BY <1>1, <1>2, <1>3, <1>4 DEF Tree, SameShape

LEMMA SameAgrees ==
    ASSUME NEW b, NEW c, NEW j, NEW p, Agrees(c, j), c.dentry[j].parent = p, b.dentry[j].parent = p,
           b.dentry[j].uuid = c.dentry[j].uuid, b.dentry[j].name = c.dentry[j].name,
           b.dentry[j].changed = c.dentry[j].changed,
           p # NoDentry => b.dentry[p].uuid = c.dentry[p].uuid,
           b.mem = c.mem
    PROVE  Agrees(b, j)
PROOF
  <1>1. SUFFICES ASSUME p # NoDentry, ~b.dentry[j].changed, b.mem[b.dentry[p].uuid].loaded
                 PROVE  b.mem[b.dentry[p].uuid].entries[b.dentry[j].name] = b.dentry[j].uuid
    BY DEF Agrees
  <1>2. b.dentry[p].uuid = c.dentry[p].uuid /\ ~c.dentry[j].changed
    BY <1>1
  <1>3. QED
    BY <1>1, <1>2 DEF Agrees

(* Only the walk, or the objects known to be newer in the datastore, moved. *)
LEMMA SameDentries ==
    ASSUME NEW b, NEW c, Good(c), b \in Cache,
           b.dentry = c.dentry, b.mem = c.mem, b.missed = c.missed, b.aliases = c.aliases
    PROVE  Good(b) /\ Live(b) = Live(c)
PROOF
  <1>1. Live(b) = Live(c)
    BY DEF Live
  <1>2. SameShape(b, c)
    BY <1>1 DEF SameShape
  <1>3. Tree(b)
    BY <1>2, ShapeKeepsTree DEF Good
  <1>4. Listed(b)
    BY <1>1 DEF Good, Listed, WithMeta
  <1>5. Loaded(b)
    BY <1>1 DEF Good, Loaded
  <1>6. Agreeing(b)
    <2>1. \A i \in Live(c) \ c.missed : Agrees(b, i)
      BY SameAgrees DEF Good, Agreeing
    <2> QED
      BY <1>1, <2>1 DEF Good, Agreeing
  <1>7. QED
    BY <1>1, <1>3, <1>4, <1>5, <1>6 DEF Good

LEMMA SetAt ==
    ASSUME NEW c, Good(c), NEW i \in Ids \union {NoDentry}
    PROVE  /\ Good([c EXCEPT !.at = i]) /\ Live([c EXCEPT !.at = i]) = Live(c)
           /\ [c EXCEPT !.at = i].at = i
PROOF
  <1>1. PICK b : b = [c EXCEPT !.at = i]
    OBVIOUS
  <1>2. b \in Cache /\ b.dentry = c.dentry /\ b.mem = c.mem /\ b.missed = c.missed
        /\ b.aliases = c.aliases /\ b.at = i
    BY <1>1 DEF Good, Cache
  <1>3. QED
    BY <1>1, <1>2, SameDentries

LEMMA DoneIsGood ==
    ASSUME NEW c, Good(c)
    PROVE  Good(Done(c)) /\ Done(c).at = NoDentry
PROOF
  <1>1. PICK b : b = Done(c)
    OBVIOUS
  <1>2. b \in Cache /\ b.dentry = c.dentry /\ b.mem = c.mem /\ b.missed = c.missed
        /\ b.aliases = c.aliases /\ b.at = NoDentry
    BY <1>1 DEF Good, Cache, Done
  <1>3. QED
    BY <1>1, <1>2, SameDentries

NoChild(c, p, name) == \A j \in Children(c, p) : c.dentry[j].name # name

(* A new dentry: its parent counts it, and it is what the dirnode says.    *)
LEMMA AllocIsGood ==
    ASSUME NEW c, Good(c), NEW p \in Live(c), c.dentry[p].uuid \in Dirs,
           NEW name \in Names, NEW o \in Objects,
           o = c.mem[c.dentry[p].uuid].entries[name], NoChild(c, p, name)
    PROVE  Good(d_alloc(c, p, o, name))
           /\ d_alloc(c, p, o, name).at \in Live(d_alloc(c, p, o, name)) \union {NoDentry}
PROOF
  <1>1. CASE Live(c) = Ids
    <2>1. d_alloc(c, p, o, name) = [c EXCEPT !.at = NoDentry]
      BY <1>1 DEF d_alloc
    <2> QED
      BY <2>1, SetAt
  <1>2. CASE Live(c) # Ids
    <2>0. c \in Cache
      BY DEF Good
    <2> DEFINE i == CHOOSE j \in Ids : j \notin Live(c)
    <2>1. i \in Ids /\ i \notin Live(c)
      BY <1>2, LiveSubset
    <2>2. PICK b : b = d_alloc(c, p, o, name)
      OBVIOUS
    <2> DEFINE counted == [c.dentry EXCEPT ![p].count = @ + 1]
    <2>3. b = [c EXCEPT !.dentry = [counted EXCEPT ![i] = NewDentry(p, o, name)], !.at = i]
      BY <1>2, <2>2 DEF d_alloc
    <2> HIDE DEF i
    <2>4. p \in Ids /\ c.dentry[p] \in Dentry /\ c.dentry[p].count \in Nat
      BY <2>0, DentryFields
    <2>5. PICK r : r = NewDentry(p, o, name)
      OBVIOUS
    <2>6. /\ r \in Dentry /\ r.uuid = o /\ r.name = name /\ r.parent = p /\ r.count = 1
          /\ ~r.meta /\ ~r.changed
      BY <2>4, <2>5 DEF NewDentry, Dentry
    <2>7. PICK q : q = [c.dentry[p] EXCEPT !.count = @ + 1]
      OBVIOUS
    <2>8. /\ q \in Dentry /\ q.uuid = c.dentry[p].uuid /\ q.name = c.dentry[p].name
          /\ q.parent = c.dentry[p].parent /\ q.count = c.dentry[p].count + 1
          /\ q.meta = c.dentry[p].meta /\ q.changed = c.dentry[p].changed
      BY <2>4, <2>7 DEF Dentry
    <2>9. c.dentry \in [Ids -> Dentry \union {Free}]
      BY <2>0 DEF Cache
    <2>10. counted = [c.dentry EXCEPT ![p] = q]
      BY <2>7
    <2>11. PICK D : D = [counted EXCEPT ![i] = r]
      OBVIOUS
    <2> HIDE DEF counted
    <2>12. /\ D \in [Ids -> Dentry \union {Free}] /\ D[i] = r /\ D[p] = q
           /\ \A j \in Ids : j # i /\ j # p => D[j] = c.dentry[j]
      BY <2>1, <2>4, <2>6, <2>8, <2>9, <2>10, <2>11
    <2>13. /\ b \in Cache /\ b.dentry = D /\ b.mem = c.mem /\ b.missed = c.missed
           /\ b.aliases = c.aliases /\ b.at = i
      BY <2>0, <2>1, <2>3, <2>5, <2>11, <2>12 DEF Cache
    <2>14. Live(b) = Live(c) \union {i}
      <3>1. r # Free /\ q # Free
        BY <2>6, <2>8, <2>0, SetsAssumption, LiveDentry DEF Dentry
      <3> QED
        BY <3>1, <2>1, <2>12, <2>13 DEF Live
    <2>15. /\ b.dentry[i] = r
           /\ \A j \in Live(c) : /\ b.dentry[j].uuid = c.dentry[j].uuid
                                 /\ b.dentry[j].name = c.dentry[j].name
                                 /\ b.dentry[j].parent = c.dentry[j].parent
                                 /\ b.dentry[j].meta = c.dentry[j].meta
                                 /\ b.dentry[j].changed = c.dentry[j].changed
                                 /\ b.dentry[j].count = IF j = p THEN c.dentry[j].count + 1
                                                                 ELSE c.dentry[j].count
      BY <2>1, <2>8, <2>12, <2>13, LiveSubset
    <2>16. Tree(c)
      BY DEF Good
    <2>17. \A j \in Live(c) : c.dentry[j].parent # i /\ j # i
      BY <2>1, <2>16, IdsFacts DEF Tree, Linked
    <2>18. Linked(b)
      BY <2>1, <2>6, <2>14, <2>15, <2>16, <2>17 DEF Tree, Linked
    <2>19. Unique(b)
      BY <2>1, <2>6, <2>14, <2>15, <2>16, <2>17 DEF Tree, Unique, Children, NoChild
    <2>20. Counted(b)
      <3>1. ASSUME NEW j \in Live(c) PROVE b.dentry[j].count = 1 + Cardinality(Children(b, j))
        <4>1. CASE j = p
          <5>1. Children(b, j) = Children(c, j) \union {i} /\ i \notin Children(c, j)
            BY <4>1, <2>1, <2>6, <2>14, <2>15 DEF Children
          <5>2. Cardinality(Children(b, j)) = Cardinality(Children(c, j)) + 1
            BY <5>1, ChildrenFinite, FS_AddElement
          <5> QED
            BY <4>1, <5>2, <2>15, <2>16, ChildrenFinite DEF Tree, Counted
        <4>2. CASE j # p
          <5>1. Children(b, j) = Children(c, j)
            BY <4>2, <2>1, <2>6, <2>14, <2>15 DEF Children
          <5> QED
            BY <4>2, <5>1, <2>15, <2>16 DEF Tree, Counted
        <4> QED
          BY <4>1, <4>2
      <3>2. Children(b, i) = {}
        BY <2>6, <2>14, <2>15, <2>17, <2>1 DEF Children
      <3>3. b.dentry[i].count = 1 + Cardinality(Children(b, i))
        BY <3>2, <2>6, <2>15, FS_EmptySet
      <3> QED
        BY <3>1, <3>3, <2>14 DEF Counted
    <2>21. Tree(b)
      BY <2>14, <2>15, <2>16, <2>18, <2>19, <2>20 DEF Tree
    <2>22. Listed(b)
      <3>1. \A x \in Objects : WithMeta(b, x) = WithMeta(c, x)
        BY <2>1, <2>6, <2>14, <2>15 DEF WithMeta
      <3> QED
        BY <3>1, <2>13 DEF Listed, Good
    <2>23. Loaded(b)
      BY <2>6, <2>13, <2>14, <2>15 DEF Loaded, Good
    <2>24. Agreeing(b)
      <3>1. b.missed \subseteq Live(b)
        BY <2>13, <2>14 DEF Good, Agreeing
      <3>2. ASSUME NEW j \in Live(c) \ c.missed PROVE Agrees(b, j)
        <4>1. Agrees(c, j)
          BY DEF Good, Agreeing
        <4>2. c.dentry[j].parent # NoDentry => c.dentry[j].parent \in Live(c)
          BY <2>16 DEF Tree, Linked
        <4>3. PICK q1 : q1 = c.dentry[j].parent
          OBVIOUS
        <4>4. q1 # NoDentry => b.dentry[q1].uuid = c.dentry[q1].uuid
          BY <2>15, <4>2, <4>3
        <4> QED
          BY <4>1, <4>3, <4>4, <2>13, <2>15, SameAgrees
      <3>3. Agrees(b, i)
        BY <2>6, <2>13, <2>15 DEF Agrees
      <3> QED
        BY <3>1, <3>2, <3>3, <2>13, <2>14 DEF Agreeing
    <2> QED
      BY <2>2, <2>13, <2>14, <2>21, <2>22, <2>23, <2>24 DEF Good
  <1>3. QED
    BY <1>1, <1>2
-----------------------------------------------------------------------------
(* What the deletion of the dentry i leaves, freed or cut off.             *)
Without(b, c, i) ==
    /\ b.mem = c.mem /\ b.at = c.at /\ b.from = c.from /\ b.newer = c.newer
    /\ Live(b) \subseteq Live(c) /\ Live(c) \ {i} \subseteq Live(b)
    /\ c.missed \ {i} \subseteq b.missed /\ b.missed \subseteq c.missed
    /\ i \in Live(b) => b.dentry[i].parent = NoDentry
    /\ \A j \in Live(b) : /\ b.dentry[j].uuid = c.dentry[j].uuid
                          /\ b.dentry[j].name = c.dentry[j].name
                          /\ j # i => /\ b.dentry[j].parent = c.dentry[j].parent
                                      /\ b.dentry[j].meta = c.dentry[j].meta
                                      /\ b.dentry[j].changed = c.dentry[j].changed

(* The fields of the cache after dentry_delete.                            *)
Deleted(b, c, i, o, p) ==
    /\ b \in Cache /\ b.mem = c.mem /\ b.at = c.at /\ b.from = c.from /\ b.newer = c.newer
    /\ b.aliases = [c.aliases EXCEPT ![o] = list_del(c.aliases[o], i)]
    /\ c.dentry[i].count <= 1 => b.dentry[i] = Free /\ b.missed = c.missed \ {i}
    /\ ~(c.dentry[i].count <= 1) =>
           /\ b.dentry[i] \in Dentry /\ b.missed = c.missed
           /\ b.dentry[i].uuid = o /\ b.dentry[i].name = c.dentry[i].name
           /\ b.dentry[i].parent = NoDentry /\ b.dentry[i].count = c.dentry[i].count
           /\ b.dentry[i].meta = FALSE /\ b.dentry[i].changed = FALSE
    /\ b.dentry[p] \in Dentry
    /\ b.dentry[p].uuid = c.dentry[p].uuid /\ b.dentry[p].name = c.dentry[p].name
    /\ b.dentry[p].parent = c.dentry[p].parent /\ b.dentry[p].count = c.dentry[p].count - 1
    /\ b.dentry[p].meta = c.dentry[p].meta /\ b.dentry[p].changed = c.dentry[p].changed
    /\ \A j \in Ids : j # i /\ j # p => b.dentry[j] = c.dentry[j]

LEMMA DeleteFields ==
    ASSUME NEW c, Good(c), NEW i \in Live(c), c.dentry[i].parent # NoDentry
    PROVE  Deleted(dentry_delete(c, i), c, i, c.dentry[i].uuid, c.dentry[i].parent)
PROOF
  <1>0. c \in Cache /\ Tree(c)
    BY DEF Good
  <1>1. PICK o, p : o = c.dentry[i].uuid /\ p = c.dentry[i].parent
    OBVIOUS
  <1>2. i \in Ids /\ c.dentry[i] \in Dentry /\ o \in Objects /\ p \in Live(c) /\ p # i /\ i # RootId
    BY <1>0, <1>1, DentryFields DEF Tree, Linked
  <1>3. p \in Ids /\ c.dentry[p] \in Dentry /\ c.dentry[p].count \in Nat
    BY <1>0, <1>2, DentryFields
  <1>4. c.dentry[p].count - 1 \in Nat
    <2>1. Children(c, p) # {}
      BY <1>1 DEF Children
    <2>2. Cardinality(Children(c, p)) # 0
      BY <2>1, ChildrenFinite, FS_EmptySet
    <2> QED
      BY <1>0, <1>2, <2>2, ChildrenFinite DEF Tree, Counted
  <1>5. PICK q : q = [c.dentry[p] EXCEPT !.count = @ - 1]
    OBVIOUS
  <1>6. /\ q \in Dentry /\ q.uuid = c.dentry[p].uuid /\ q.name = c.dentry[p].name
        /\ q.parent = c.dentry[p].parent /\ q.count = c.dentry[p].count - 1
        /\ q.meta = c.dentry[p].meta /\ q.changed = c.dentry[p].changed
    BY <1>3, <1>4, <1>5 DEF Dentry
  <1>7. PICK k : k = [c.dentry[i] EXCEPT !.parent = NoDentry, !.changed = FALSE]
    OBVIOUS
  <1>8. /\ k \in Dentry /\ k.uuid = o /\ k.name = c.dentry[i].name /\ k.parent = NoDentry
        /\ k.count = c.dentry[i].count /\ k.changed = FALSE
    BY <1>1, <1>2, <1>7 DEF Dentry
  <1>9. c.dentry \in [Ids -> Dentry \union {Free}]
    BY <1>0 DEF Cache
  <1>10. PICK C : C = [c.dentry EXCEPT ![p] = q]
    OBVIOUS
  <1>11. PICK D : D = [C EXCEPT ![i] = k]
    OBVIOUS
  <1>12. /\ D \in [Ids -> Dentry \union {Free}] /\ D[i] = k /\ D[p] = q
         /\ \A j \in Ids : j # i /\ j # p => D[j] = c.dentry[j]
    BY <1>2, <1>3, <1>6, <1>8, <1>9, <1>10, <1>11
  <1>13. PICK u : u = [c EXCEPT !.dentry = D]
    OBVIOUS
  <1>14. /\ u \in Cache /\ u.dentry = D /\ u.mem = c.mem /\ u.missed = c.missed /\ u.at = c.at
         /\ u.from = c.from /\ u.newer = c.newer /\ u.aliases = c.aliases
    BY <1>0, <1>12, <1>13 DEF Cache
  <1>15. PICK m : m = [k EXCEPT !.meta = FALSE]
    OBVIOUS
  <1>16. /\ m \in Dentry /\ m.uuid = o /\ m.name = c.dentry[i].name /\ m.parent = NoDentry
         /\ m.count = c.dentry[i].count /\ m.changed = FALSE /\ m.meta = FALSE
    BY <1>8, <1>15 DEF Dentry
  <1>17. PICK E : E = [D EXCEPT ![i] = m]
    OBVIOUS
  <1>18. /\ E \in [Ids -> Dentry \union {Free}] /\ E[i] = m /\ E[p] = q
         /\ \A j \in Ids : j # i /\ j # p => E[j] = c.dentry[j]
    BY <1>2, <1>3, <1>12, <1>16, <1>17
  <1>19. PICK A : A = [c.aliases EXCEPT ![o] = list_del(c.aliases[o], i)]
    OBVIOUS
  <1>20. A \in [Objects -> Seq(Ids)]
    <2>1. c.aliases \in [Objects -> Seq(Ids)] /\ c.aliases[o] \in Seq(Ids)
      BY <1>0, <1>2 DEF Cache
    <2>2. IsInjective(c.aliases[o])
      BY <1>2 DEF Good, Listed
    <2>3. list_del(c.aliases[o], i) \in Seq(Ids)
      BY <2>1, <2>2, ListDel
    <2> QED
      BY <2>1, <2>3, <1>19
  <1>21. PICK cut : cut = d_iput(u, i)
    OBVIOUS
  <1>22. cut = [u EXCEPT !.dentry = E, !.aliases = A]
    <2>1. u.dentry[i].uuid = o /\ u.aliases = c.aliases
      BY <1>8, <1>12, <1>14
    <2>2. cut = [u EXCEPT !.dentry[i].meta = FALSE, !.aliases[o] = list_del(c.aliases[o], i)]
      BY <1>21, <2>1 DEF d_iput
    <2> QED
      BY <2>1, <2>2, <1>12, <1>14, <1>15, <1>17, <1>19
  <1>23. /\ cut \in Cache /\ cut.dentry = E /\ cut.aliases = A /\ cut.mem = c.mem /\ cut.missed = c.missed
         /\ cut.at = c.at /\ cut.from = c.from /\ cut.newer = c.newer
    BY <1>14, <1>18, <1>20, <1>22 DEF Cache
  <1>24. PICK b : b = dentry_delete(c, i)
    OBVIOUS
  <1>25. b = IF c.dentry[i].count <= 1 THEN d_free(cut, i) ELSE cut
    BY <1>1, <1>2, <1>5, <1>7, <1>10, <1>11, <1>13, <1>21, <1>24 DEF dentry_delete
  <1>26. CASE c.dentry[i].count <= 1
    <2>1. b = [cut EXCEPT !.dentry[i] = Free, !.missed = @ \ {i}]
      BY <1>25, <1>26 DEF d_free
    <2>2. PICK F : F = [E EXCEPT ![i] = Free]
      OBVIOUS
    <2>3. /\ F \in [Ids -> Dentry \union {Free}] /\ F[i] = Free /\ F[p] = q
          /\ \A j \in Ids : j # i /\ j # p => F[j] = c.dentry[j]
      BY <1>2, <1>3, <1>18, <2>2
    <2>4. /\ b \in Cache /\ b.dentry = F /\ b.aliases = A /\ b.mem = c.mem /\ b.missed = c.missed \ {i}
          /\ b.at = c.at /\ b.from = c.from /\ b.newer = c.newer
      BY <1>23, <2>1, <2>2, <2>3 DEF Cache
    <2> QED
      BY <1>1, <1>6, <1>19, <1>24, <1>26, <2>3, <2>4 DEF Deleted
  <1>27. CASE ~(c.dentry[i].count <= 1)
    BY <1>1, <1>6, <1>16, <1>18, <1>19, <1>23, <1>24, <1>25, <1>27 DEF Deleted
  <1>28. QED
    BY <1>26, <1>27

(* A dentry leaves the tree with nothing that refers to it: one that is    *)
(* freed has no children, for its count would include them.                *)
LEMMA DeleteIsGood ==
    ASSUME NEW c, Good(c), NEW i \in Live(c), c.dentry[i].parent # NoDentry
    PROVE  Good(dentry_delete(c, i)) /\ Without(dentry_delete(c, i), c, i)
PROOF
  <1>0. c \in Cache /\ Tree(c)
    BY DEF Good
  <1>1. PICK o, p : o = c.dentry[i].uuid /\ p = c.dentry[i].parent
    OBVIOUS
  <1>2. /\ i \in Ids /\ c.dentry[i] \in Dentry /\ o \in Objects /\ p \in Live(c) /\ p # i /\ i # RootId
        /\ p \in Ids
    BY <1>0, <1>1, DentryFields DEF Tree, Linked
  <1>3. PICK b : b = dentry_delete(c, i)
    OBVIOUS
  <1>d. Deleted(b, c, i, o, p)
    BY <1>1, <1>3, DeleteFields
  <1>4. /\ b \in Cache /\ b.mem = c.mem /\ b.at = c.at /\ b.from = c.from /\ b.newer = c.newer
        /\ b.aliases = [c.aliases EXCEPT ![o] = list_del(c.aliases[o], i)]
        /\ b.dentry[p] \in Dentry
        /\ b.dentry[p].uuid = c.dentry[p].uuid /\ b.dentry[p].name = c.dentry[p].name
        /\ b.dentry[p].parent = c.dentry[p].parent /\ b.dentry[p].count = c.dentry[p].count - 1
        /\ b.dentry[p].meta = c.dentry[p].meta /\ b.dentry[p].changed = c.dentry[p].changed
        /\ \A j \in Ids : j # i /\ j # p => b.dentry[j] = c.dentry[j]
    BY <1>d DEF Deleted
  <1>5. /\ c.dentry[i].count <= 1 => b.dentry[i] = Free /\ b.missed = c.missed \ {i}
        /\ ~(c.dentry[i].count <= 1) =>
               /\ b.dentry[i] \in Dentry /\ b.missed = c.missed
               /\ b.dentry[i].uuid = o /\ b.dentry[i].name = c.dentry[i].name
               /\ b.dentry[i].parent = NoDentry /\ b.dentry[i].count = c.dentry[i].count
               /\ b.dentry[i].meta = FALSE /\ b.dentry[i].changed = FALSE
    BY <1>d DEF Deleted
  <1>6. \A j \in Live(c) : j # i =>
            /\ b.dentry[j].uuid = c.dentry[j].uuid /\ b.dentry[j].name = c.dentry[j].name
            /\ b.dentry[j].parent = c.dentry[j].parent /\ b.dentry[j].meta = c.dentry[j].meta
            /\ b.dentry[j].changed = c.dentry[j].changed
            /\ b.dentry[j].count = IF j = p THEN c.dentry[j].count - 1 ELSE c.dentry[j].count
    BY <1>4, LiveSubset
  <1>7. b.dentry[p] # Free /\ c.dentry[p] # Free
    BY <1>0, <1>2, <1>4, LiveDentry DEF Live
  <1>8. \A j \in Ids : j # i => (j \in Live(b) <=> j \in Live(c))
    BY <1>4, <1>7 DEF Live
  <1>9. i \in Live(b) <=> ~(c.dentry[i].count <= 1)
    BY <1>2, <1>4, <1>5, LiveDentry DEF Live
  <1>10. i \in Live(b) => /\ b.dentry[i].uuid = o /\ b.dentry[i].name = c.dentry[i].name
                          /\ b.dentry[i].parent = NoDentry /\ b.dentry[i].count = c.dentry[i].count
                          /\ ~b.dentry[i].meta
    BY <1>5, <1>9
  <1>11. /\ Live(b) \subseteq Live(c) /\ Live(c) \ {i} \subseteq Live(b)
         /\ c.missed \ {i} \subseteq b.missed /\ b.missed \subseteq c.missed
         /\ b.missed \subseteq Live(b)
    <2>1. Live(b) \subseteq Live(c) /\ Live(c) \ {i} \subseteq Live(b)
      BY <1>8, LiveSubset
    <2>2. c.missed \subseteq Live(c)
      BY DEF Good, Agreeing
    <2>3. c.missed \ {i} \subseteq b.missed /\ b.missed \subseteq c.missed
      BY <1>5
    <2>4. b.missed \subseteq Live(b)
      BY <1>5, <1>9, <2>1, <2>2
    <2> QED
      BY <2>1, <2>3, <2>4
  <1>12. Without(b, c, i)
    BY <1>1, <1>4, <1>6, <1>10, <1>11 DEF Without
  <1>13. \A j \in Live(b) : b.dentry[j].parent = i => i \in Live(b)
    <2>1. SUFFICES ASSUME NEW j \in Live(b), b.dentry[j].parent = i PROVE i \in Live(b)
      OBVIOUS
    <2>2. j # i /\ j \in Live(c) /\ c.dentry[j].parent = i
      BY <1>2, <1>6, <1>10, <1>11, <2>1, IdsFacts
    <2>3. j \in Children(c, i)
      BY <2>2 DEF Children
    <2>4. Cardinality(Children(c, i)) \in Nat /\ Cardinality(Children(c, i)) # 0
      BY <2>3, ChildrenFinite, FS_EmptySet
    <2>5. c.dentry[i].count = 1 + Cardinality(Children(c, i))
      BY <1>0 DEF Tree, Counted
    <2> QED
      BY <1>9, <2>4, <2>5
  <1>14. Linked(b)
    <2>1. SUFFICES ASSUME NEW j \in Live(b), b.dentry[j].parent # NoDentry
                   PROVE  /\ b.dentry[j].parent \in Live(b) /\ b.dentry[j].parent # j
                          /\ b.dentry[b.dentry[j].parent].uuid \in Dirs /\ b.dentry[j].name \in Names
      BY DEF Linked
    <2>2. j # i /\ j \in Live(c)
      BY <1>10, <1>11, <2>1
    <2>3. PICK q : q = c.dentry[j].parent
      OBVIOUS
    <2>4. b.dentry[j].parent = q /\ q # NoDentry /\ b.dentry[j].name = c.dentry[j].name
      BY <1>6, <2>1, <2>2, <2>3
    <2>5. q \in Live(c) /\ q # j /\ c.dentry[q].uuid \in Dirs /\ c.dentry[j].name \in Names
      BY <1>0, <2>2, <2>3, <2>4 DEF Tree, Linked
    <2>6. q \in Live(b)
      BY <1>11, <1>13, <2>4, <2>5
    <2>7. b.dentry[q].uuid = c.dentry[q].uuid
      BY <1>12, <2>6 DEF Without
    <2> QED
      BY <2>4, <2>5, <2>6, <2>7
  <1>15. Unique(b)
    <2>1. SUFFICES ASSUME NEW j \in Live(b), NEW l \in Live(b), b.dentry[j].parent # NoDentry,
                          b.dentry[j].parent = b.dentry[l].parent, b.dentry[j].name = b.dentry[l].name
                   PROVE  j = l
      BY DEF Unique
    <2>2. j # i /\ l # i /\ j \in Live(c) /\ l \in Live(c)
      BY <1>10, <1>11, <2>1
    <2>3. /\ c.dentry[j].parent # NoDentry /\ c.dentry[j].parent = c.dentry[l].parent
          /\ c.dentry[j].name = c.dentry[l].name
      BY <1>6, <2>1, <2>2
    <2> QED
      BY <1>0, <2>2, <2>3 DEF Tree, Unique
  <1>16. Counted(b)
    <2>1. SUFFICES ASSUME NEW j \in Live(b) PROVE b.dentry[j].count = 1 + Cardinality(Children(b, j))
      BY DEF Counted
    <2>2. j \in Live(c) /\ j \in Ids /\ c.dentry[j].count = 1 + Cardinality(Children(c, j))
      BY <1>0, <1>11, LiveSubset DEF Tree, Counted
    <2>3. CASE j = p
      <3>1. i \in Children(c, j)
        BY <1>1, <2>3 DEF Children
      <3>a. \A x : x \in Children(b, j) <=> x \in Children(c, j) \ {i}
        <4>1. ASSUME NEW x \in Live(b) PROVE x \in Live(c) /\ (x # i => b.dentry[x].parent = c.dentry[x].parent)
          BY <1>6, <1>11
        <4>2. i \notin Children(b, j)
          BY <1>10, <2>2, IdsFacts DEF Children
        <4> QED
          BY <4>1, <4>2, <1>11 DEF Children
      <3>b. Children(b, j) = Children(c, j) \ {i}
        BY <3>a
      <3>2. Cardinality(Children(b, j)) = Cardinality(Children(c, j)) - 1
        BY <3>1, <3>b, ChildrenFinite, FS_RemoveElement
      <3> QED
        BY <1>2, <1>6, <2>2, <2>3, <3>2, ChildrenFinite
    <2>4. CASE j # p
      <3>a. \A x : x \in Children(b, j) <=> x \in Children(c, j)
        <4>1. ASSUME NEW x \in Live(b) PROVE x \in Live(c) /\ (x # i => b.dentry[x].parent = c.dentry[x].parent)
          BY <1>6, <1>11
        <4>2. i \notin Children(b, j) /\ i \notin Children(c, j)
          BY <1>1, <1>10, <2>2, <2>4, IdsFacts DEF Children
        <4> QED
          BY <4>1, <4>2, <1>11 DEF Children
      <3>1. Children(b, j) = Children(c, j)
        BY <3>a
      <3>2. b.dentry[j].count = c.dentry[j].count
        BY <1>6, <1>10, <2>1, <2>2, <2>4
      <3> QED
        BY <2>2, <3>1, <3>2
    <2> QED
      BY <2>3, <2>4
  <1>17. Tree(b)
    <2>1. RootId \in Live(b) /\ b.dentry[RootId].parent = NoDentry
      BY <1>0, <1>2, <1>6, <1>11 DEF Tree
    <2> QED
      BY <1>14, <1>15, <1>16, <2>1 DEF Tree
  <1>18. Listed(b)
    <2>1. SUFFICES ASSUME NEW x \in Objects
                   PROVE  IsInjective(b.aliases[x]) /\ Range(b.aliases[x]) = WithMeta(b, x)
      BY DEF Listed
    <2>2. /\ c.aliases \in [Objects -> Seq(Ids)] /\ c.aliases[x] \in Seq(Ids)
          /\ IsInjective(c.aliases[x]) /\ Range(c.aliases[x]) = WithMeta(c, x)
      BY <1>0 DEF Cache, Good, Listed
    <2>3. CASE x = o
      <3>1. b.aliases[x] = list_del(c.aliases[x], i)
        BY <1>4, <2>2, <2>3
      <3>2. IsInjective(b.aliases[x]) /\ Range(b.aliases[x]) = WithMeta(c, x) \ {i}
        BY <2>2, <3>1, ListDel
      <3>3. WithMeta(b, x) = WithMeta(c, x) \ {i}
        BY <1>6, <1>10, <1>11 DEF WithMeta
      <3> QED
        BY <3>2, <3>3
    <2>4. CASE x # o
      <3>1. b.aliases[x] = c.aliases[x]
        BY <1>4, <2>2, <2>4
      <3>2. WithMeta(b, x) = WithMeta(c, x)
        BY <1>1, <1>6, <1>10, <1>11, <2>4 DEF WithMeta
      <3> QED
        BY <2>2, <3>1, <3>2
    <2> QED
      BY <2>3, <2>4
  <1>19. Loaded(b)
    BY <1>4, <1>6, <1>10, <1>11 DEF Good, Loaded
  <1>20. Agreeing(b)
    <2>1. SUFFICES ASSUME NEW j \in Live(b) \ b.missed PROVE Agrees(b, j)
      BY <1>11 DEF Agreeing
    <2>2. CASE j = i
      BY <1>10, <2>1, <2>2 DEF Agrees
    <2>3. CASE j # i
      <3>1. j \in Live(c) \ c.missed
        BY <1>11, <2>1, <2>3
      <3>2. Agrees(c, j)
        BY <3>1 DEF Good, Agreeing
      <3>3. PICK q : q = c.dentry[j].parent
        OBVIOUS
      <3>4. b.dentry[j].parent = q
        BY <1>6, <2>3, <3>1, <3>3
      <3>5. q # NoDentry => b.dentry[q].uuid = c.dentry[q].uuid
        BY <1>12, <1>14, <2>1, <3>4 DEF Linked, Without
      <3> QED
        BY <1>4, <1>6, <2>3, <3>1, <3>2, <3>3, <3>4, <3>5, SameAgrees
    <2> QED
      BY <2>2, <2>3
  <1>21. QED
    BY <1>3, <1>4, <1>12, <1>17, <1>18, <1>19, <1>20 DEF Good
-----------------------------------------------------------------------------
(* Steps that change metadata objects under dentries that stay.            *)
LEMMA SameDentriesOtherMem ==
    ASSUME NEW b, NEW c, Good(c), b \in Cache, b.dentry = c.dentry, b.aliases = c.aliases,
           \A o \in Objects : c.mem[o].loaded => b.mem[o].loaded,
           Agreeing(b)
    PROVE  Good(b) /\ SameShape(b, c)
PROOF
  <1>1. Live(b) = Live(c)
    BY DEF Live
  <1>2. SameShape(b, c)
    BY <1>1 DEF SameShape
  <1>3. Tree(b)
    BY <1>2, ShapeKeepsTree DEF Good
  <1>4. Listed(b)
    BY <1>1 DEF Good, Listed, WithMeta
  <1>5. Loaded(b)
    <2>1. \A i \in Live(c) : c.dentry[i].uuid \in Objects
      BY DentryFields DEF Good
    <2> QED
      BY <1>1, <2>1 DEF Good, Loaded
  <1>6. QED
    BY <1>2, <1>3, <1>4, <1>5 DEF Good

(* The dirnode d gets other entries in memory.  Of the children of its     *)
(* dentries, those of the dentries in ps may be overlooked; the others     *)
(* agree with the new entries.                                             *)
OthersAgree(b, c, d, ps) ==
    \A i \in Live(c) \ c.missed :
        (/\ c.dentry[i].parent \in DentriesOf(c, d) /\ c.dentry[i].parent \notin ps
         /\ ~c.dentry[i].changed /\ b.mem[d].loaded)
        => b.mem[d].entries[c.dentry[i].name] = c.dentry[i].uuid

LEMMA NewEntries ==
    ASSUME NEW c, Good(c), NEW b, b.dentry = c.dentry, NEW d \in Objects,
           \A o \in Objects : o # d => b.mem[o] = c.mem[o],
           NEW ps, b.missed = c.missed \union Overlooked(c, ps, b.mem[d].entries),
           OthersAgree(b, c, d, ps)
    PROVE  Agreeing(b)
PROOF
  <1>0. c \in Cache /\ Tree(c) /\ Agreeing(c)
    BY DEF Good
  <1>1. Live(b) = Live(c)
    BY DEF Live
  <1>2. b.missed \subseteq Live(b)
    BY <1>0, <1>1 DEF Agreeing, Overlooked
  <1>3. ASSUME NEW i \in Live(b) \ b.missed PROVE Agrees(b, i)
    <2>1. PICK p : p = c.dentry[i].parent
      OBVIOUS
    <2>2. i \in Live(c) /\ i \notin c.missed /\ i \notin Overlooked(c, ps, b.mem[d].entries)
      BY <1>1
    <2>3. SUFFICES ASSUME p # NoDentry, ~c.dentry[i].changed, b.mem[c.dentry[p].uuid].loaded
                   PROVE  b.mem[c.dentry[p].uuid].entries[c.dentry[i].name] = c.dentry[i].uuid
      BY <2>1 DEF Agrees
    <2>4. p \in Live(c)
      BY <1>0, <2>1, <2>2, <2>3 DEF Tree, Linked
    <2>5. c.dentry[p].uuid \in Objects
      BY <1>0, <2>4, DentryFields
    <2>6. CASE c.dentry[p].uuid # d
      <3>1. Agrees(c, i)
        BY <1>0, <2>2 DEF Agreeing
      <3>2. b.mem[c.dentry[p].uuid] = c.mem[c.dentry[p].uuid]
        BY <2>5, <2>6
      <3> QED
        BY <2>1, <2>3, <3>1, <3>2 DEF Agrees
    <2>7. CASE c.dentry[p].uuid = d
      <3>1. p \in DentriesOf(c, d)
        BY <2>4, <2>7 DEF DentriesOf
      <3>2. CASE p \in ps
        BY <2>1, <2>2, <2>3, <2>7, <3>2 DEF Overlooked
      <3>3. CASE p \notin ps
        BY <2>1, <2>2, <2>3, <2>7, <3>1, <3>3 DEF OthersAgree
      <3> QED
        BY <3>2, <3>3
    <2> QED
      BY <2>6, <2>7
  <1>4. QED
    BY <1>2, <1>3 DEF Agreeing

StoredOK == stored \in [Dirs -> [Names -> Objects \union {None}]]

LEMMA ReloadIsGood ==
    ASSUME NEW c, Good(c), StoredOK, NEW o \in Objects
    PROVE  LET b == Reload(c, o) IN
           /\ Good(b) /\ SameShape(b, c) /\ b.mem[o].loaded
           /\ b.dentry = c.dentry /\ b.at = c.at /\ b.from = c.from
PROOF
  <1>0. c \in Cache /\ c.mem \in [Objects -> MetaObject]
    BY DEF Good, Cache
  <1>1. PICK b : b = Reload(c, o)
    OBVIOUS
  <1>2. PICK entries : entries = IF o \in Files THEN NoEntries ELSE stored[o]
    OBVIOUS
  <1>3. entries \in [Names -> Objects \union {None}]
    BY <1>2 DEF StoredOK, NoEntries, Objects
  <1>4. Meta(entries) \in MetaObject /\ Meta(entries).loaded /\ Meta(entries).entries = entries
    BY <1>3 DEF Meta, MetaObject
  <1>5. PICK M : M = [c.mem EXCEPT ![o] = Meta(entries)]
    OBVIOUS
  <1>6. M \in [Objects -> MetaObject] /\ M[o] = Meta(entries) /\ \A x \in Objects : x # o => M[x] = c.mem[x]
    BY <1>0, <1>4, <1>5
  <1>7. \A x \in Objects : c.mem[x].loaded => M[x].loaded
    BY <1>4, <1>6
  <1>8. CASE o \in Files
    <2>1. b = [c EXCEPT !.mem = M]
      BY <1>1, <1>2, <1>5, <1>8 DEF Reload
    <2>2. /\ b \in Cache /\ b.mem = M /\ b.dentry = c.dentry /\ b.aliases = c.aliases
          /\ b.missed = c.missed /\ b.at = c.at /\ b.from = c.from
      BY <1>0, <1>6, <2>1 DEF Cache
    <2>3. o \notin Dirs
      BY <1>8, SetsAssumption
    <2>4. c.missed = c.missed \union Overlooked(c, {}, M[o].entries)
      BY DEF Overlooked
    <2>5. \A i \in Live(c) : c.dentry[i].parent \notin DentriesOf(c, o)
      BY <2>3, IdsFacts, LiveSubset DEF Good, Tree, Linked, DentriesOf
    <2>6. Agreeing(b)
      <3>1. OthersAgree(b, c, o, {})
        BY <2>5 DEF OthersAgree
      <3> QED
        BY <1>6, <2>2, <2>4, <3>1, NewEntries
    <2>7. Good(b) /\ SameShape(b, c)
      BY <1>7, <2>2, <2>6, SameDentriesOtherMem
    <2> QED
      BY <1>1, <1>4, <1>6, <2>2, <2>7
  <1>9. CASE o \notin Files
    <2>1. b = [c EXCEPT !.mem = M, !.newer = @ \ {o},
                        !.missed = @ \union Overlooked(c, DentriesOf(c, o), entries)]
      BY <1>1, <1>2, <1>5, <1>9 DEF Reload
    <2>2. PICK W : W = Overlooked(c, DentriesOf(c, o), entries)
      OBVIOUS
    <2>3. W \subseteq Ids
      BY <2>2, LiveSubset DEF Overlooked
    <2>4. /\ b \in Cache /\ b.mem = M /\ b.dentry = c.dentry /\ b.aliases = c.aliases
          /\ b.missed = c.missed \union W /\ b.at = c.at /\ b.from = c.from
      BY <1>0, <1>6, <2>1, <2>2, <2>3 DEF Cache
    <2>5. Agreeing(b)
      <3>1. b.missed = c.missed \union Overlooked(c, DentriesOf(c, o), b.mem[o].entries)
        BY <1>4, <1>6, <2>2, <2>4
      <3>2. OthersAgree(b, c, o, DentriesOf(c, o))
        BY DEF OthersAgree
      <3> QED
        BY <1>6, <2>4, <3>1, <3>2, NewEntries
    <2>6. Good(b) /\ SameShape(b, c)
      BY <1>7, <2>4, <2>5, SameDentriesOtherMem
    <2> QED
      BY <1>1, <1>4, <1>6, <2>4, <2>6
  <1>10. QED
    BY <1>8, <1>9
-----------------------------------------------------------------------------
(* An object is dropped: no dentry keeps it.                               *)
LEMMA MetadataFreeIsGood ==
    ASSUME NEW c, Good(c), NEW o \in Objects
    PROVE  LET b == nexus_metadata_free(c, o) IN
           /\ Good(b) /\ SameShape(b, c) /\ b.at = c.at /\ b.missed = c.missed
           /\ \A i \in Live(c) : b.dentry[i].changed = c.dentry[i].changed
           /\ ~b.mem[o].loaded /\ \A x \in Objects : x # o => b.mem[x] = c.mem[x]
PROOF
  <1>0. /\ c \in Cache /\ c.mem \in [Objects -> MetaObject] /\ c.aliases \in [Objects -> Seq(Ids)]
        /\ c.dentry \in [Ids -> Dentry \union {Free}]
    BY DEF Good, Cache
  <1>1. PICK b : b = nexus_metadata_free(c, o)
    OBVIOUS
  <1>2. PICK D : D = [i \in Ids |-> IF i \in DentriesOf(c, o)
                                    THEN [c.dentry[i] EXCEPT !.meta = FALSE] ELSE c.dentry[i]]
    OBVIOUS
  <1>3. PICK M : M = [c.mem EXCEPT ![o] = NoMeta]
    OBVIOUS
  <1>4. PICK A : A = [c.aliases EXCEPT ![o] = <<>>]
    OBVIOUS
  <1>5. b = [c EXCEPT !.mem = M, !.aliases = A, !.newer = @ \ {o}, !.dentry = D]
    BY <1>1, <1>2, <1>3, <1>4 DEF nexus_metadata_free
  <1>6. NoMeta \in MetaObject /\ ~NoMeta.loaded
    BY DEF NoMeta, NoEntries, MetaObject
  <1>7. M \in [Objects -> MetaObject] /\ M[o] = NoMeta /\ \A x \in Objects : x # o => M[x] = c.mem[x]
    BY <1>0, <1>3, <1>6
  <1>8. A \in [Objects -> Seq(Ids)] /\ A[o] = <<>> /\ \A x \in Objects : x # o => A[x] = c.aliases[x]
    BY <1>0, <1>4
  <1>9. ASSUME NEW i \in DentriesOf(c, o)
        PROVE  /\ i \in Ids /\ D[i] \in Dentry /\ D[i].uuid = c.dentry[i].uuid
               /\ D[i].name = c.dentry[i].name /\ D[i].parent = c.dentry[i].parent
               /\ D[i].count = c.dentry[i].count /\ D[i].changed = c.dentry[i].changed
               /\ D[i].meta = FALSE
    <2>1. i \in Live(c) /\ i \in Ids /\ c.dentry[i] \in Dentry
      BY <1>0, DentryFields DEF DentriesOf
    <2>2. D[i] = [c.dentry[i] EXCEPT !.meta = FALSE]
      BY <1>2, <2>1
    <2> QED
      BY <2>1, <2>2 DEF Dentry
  <1>10. \A i \in Ids : i \notin DentriesOf(c, o) => D[i] = c.dentry[i]
    BY <1>2
  <1>11. D \in [Ids -> Dentry \union {Free}]
    <2>1. \A i \in Ids : D[i] \in Dentry \union {Free}
      BY <1>0, <1>9, <1>10
    <2> QED
      BY <1>2, <2>1
  <1>12. /\ b \in Cache /\ b.mem = M /\ b.dentry = D /\ b.aliases = A
         /\ b.missed = c.missed /\ b.at = c.at
    BY <1>0, <1>5, <1>7, <1>8, <1>11 DEF Cache
  <1>13. SameShape(b, c)
    <2>1. ASSUME NEW i \in Ids PROVE i \in Live(b) <=> i \in Live(c)
      <3>1. CASE i \in DentriesOf(c, o)
        <4>1. i \in Live(b)
          BY <1>9, <1>12, <3>1, LiveDentry
        <4>2. i \in Live(c)
          BY <3>1 DEF DentriesOf
        <4> QED
          BY <4>1, <4>2
      <3>2. CASE i \notin DentriesOf(c, o)
        BY <1>10, <1>12, <3>2 DEF Live
      <3> QED
        BY <3>1, <3>2
    <2>2. Live(b) = Live(c)
      BY <2>1, LiveSubset
    <2> QED
      BY <1>9, <1>10, <1>12, <2>2, LiveSubset DEF SameShape
  <1>14. Tree(b)
    BY <1>13, ShapeKeepsTree DEF Good
  <1>15. \A i \in Live(c) : b.dentry[i].changed = c.dentry[i].changed
    BY <1>9, <1>10, <1>12, LiveSubset
  <1>16. \A i \in Live(c) : b.dentry[i].meta = IF c.dentry[i].uuid = o THEN FALSE ELSE c.dentry[i].meta
    BY <1>9, <1>10, <1>12, LiveSubset DEF DentriesOf
  <1>17. Listed(b)
    <2>1. SUFFICES ASSUME NEW x \in Objects
                   PROVE  IsInjective(b.aliases[x]) /\ Range(b.aliases[x]) = WithMeta(b, x)
      BY DEF Listed
    <2>2. CASE x = o
      <3>1. b.aliases[x] = <<>>
        BY <1>8, <1>12, <2>2
      <3>2. IsInjective(b.aliases[x]) /\ Range(b.aliases[x]) = {}
        <4>1. DOMAIN b.aliases[x] = {}
          BY <3>1
        <4> QED
          BY <4>1 DEF IsInjective, Range
      <3>3. WithMeta(b, x) = {}
        <4>1. SUFFICES ASSUME NEW i \in WithMeta(b, x) PROVE FALSE
          OBVIOUS
        <4>2. i \in Live(c) /\ c.dentry[i].uuid = o /\ b.dentry[i].meta
          BY <1>13, <2>2 DEF WithMeta, SameShape
        <4>3. b.dentry[i].meta = FALSE
          BY <1>16, <4>2
        <4> QED
          BY <4>2, <4>3
      <3> QED
        BY <3>1, <3>2, <3>3
    <2>3. CASE x # o
      <3>1. b.aliases[x] = c.aliases[x]
        BY <1>8, <1>12, <2>3
      <3>2. WithMeta(b, x) = WithMeta(c, x)
        <4>1. \A i \in Live(c) : /\ b.dentry[i].uuid = c.dentry[i].uuid
                                 /\ c.dentry[i].uuid = x => b.dentry[i].meta = c.dentry[i].meta
          BY <1>13, <1>16, <2>3 DEF SameShape
        <4> QED
          BY <4>1, <1>13 DEF WithMeta, SameShape
      <3> QED
        BY <3>1, <3>2 DEF Good, Listed
    <2> QED
      BY <2>2, <2>3
  <1>18. Loaded(b)
    <2>1. SUFFICES ASSUME NEW i \in Live(c), b.dentry[i].meta PROVE b.mem[b.dentry[i].uuid].loaded
      BY <1>13 DEF Loaded, SameShape
    <2>2. c.dentry[i].uuid # o /\ c.dentry[i].meta
      BY <1>16, <2>1
    <2>3. c.dentry[i].uuid \in Objects /\ b.dentry[i].uuid = c.dentry[i].uuid
      BY <1>0, <1>13, DentryFields DEF SameShape
    <2> QED
      BY <1>7, <1>12, <2>2, <2>3 DEF Good, Loaded
  <1>19. Agreeing(b)
    <2>1. b.missed \subseteq Live(b)
      BY <1>12, <1>13 DEF Good, Agreeing, SameShape
    <2>2. ASSUME NEW i \in Live(c) \ c.missed PROVE Agrees(b, i)
      <3>1. PICK p : p = c.dentry[i].parent
        OBVIOUS
      <3>2. /\ b.dentry[i].parent = p /\ b.dentry[i].name = c.dentry[i].name
            /\ b.dentry[i].uuid = c.dentry[i].uuid /\ b.dentry[i].changed = c.dentry[i].changed
        BY <1>13, <1>15, <3>1 DEF SameShape
      <3>3. SUFFICES ASSUME p # NoDentry, ~b.dentry[i].changed, b.mem[b.dentry[p].uuid].loaded
                     PROVE  b.mem[b.dentry[p].uuid].entries[b.dentry[i].name] = b.dentry[i].uuid
        BY <3>2 DEF Agrees
      <3>4. p \in Live(c)
        BY <3>1, <3>3 DEF Good, Tree, Linked
      <3>5. b.dentry[p].uuid = c.dentry[p].uuid /\ c.dentry[p].uuid \in Objects
        BY <1>0, <1>13, <3>4, DentryFields DEF SameShape
      <3>6. c.dentry[p].uuid # o
        BY <1>6, <1>7, <1>12, <3>3, <3>5
      <3>7. b.mem[b.dentry[p].uuid] = c.mem[c.dentry[p].uuid]
        BY <1>7, <1>12, <3>5, <3>6
      <3>8. Agrees(c, i)
        BY DEF Good, Agreeing
      <3>9. ~c.dentry[i].changed /\ c.mem[c.dentry[p].uuid].loaded
        BY <3>2, <3>3, <3>7
      <3>10. c.mem[c.dentry[p].uuid].entries[c.dentry[i].name] = c.dentry[i].uuid
        BY <3>1, <3>3, <3>8, <3>9 DEF Agrees
      <3> QED
        BY <3>2, <3>7, <3>10
    <2> QED
      BY <1>12, <1>13, <2>1, <2>2 DEF Agreeing, SameShape
  <1>20. QED
    BY <1>1, <1>6, <1>7, <1>12, <1>13, <1>14, <1>15, <1>17, <1>18, <1>19 DEF Good

(* One dentry or several get other flags.  A dentry that a walk trusts now *)
(* was trusted before, or is what its parent's dirnode says.               *)
TrustIsEarned(b, c) ==
    \A i \in Live(c) :
        (i \notin b.missed /\ ~b.dentry[i].changed)
        => \/ i \notin c.missed /\ ~c.dentry[i].changed
           \/ c.mem[c.dentry[c.dentry[i].parent].uuid].entries[c.dentry[i].name] = c.dentry[i].uuid

LEMMA OtherFlags ==
    ASSUME NEW c, Good(c), NEW b \in Cache, b.mem = c.mem, SameShape(b, c), Listed(b), Loaded(b),
           b.missed \subseteq c.missed,
           TrustIsEarned(b, c)
    PROVE  Good(b)
PROOF
  <1>1. Tree(b)
    BY ShapeKeepsTree DEF Good
  <1>2. Live(b) = Live(c) /\ b.missed \subseteq Live(b)
    BY DEF Good, Agreeing, SameShape
  <1>3. ASSUME NEW i \in Live(c), i \notin b.missed PROVE Agrees(b, i)
    <2>1. PICK p : p = c.dentry[i].parent
      OBVIOUS
    <2>2. /\ b.dentry[i].parent = p /\ b.dentry[i].name = c.dentry[i].name
          /\ b.dentry[i].uuid = c.dentry[i].uuid
      BY <2>1 DEF SameShape
    <2>3. SUFFICES ASSUME p # NoDentry, ~b.dentry[i].changed, b.mem[b.dentry[p].uuid].loaded
                   PROVE  b.mem[b.dentry[p].uuid].entries[b.dentry[i].name] = b.dentry[i].uuid
      BY <2>2 DEF Agrees
    <2>4. p \in Live(c)
      BY <2>1, <2>3 DEF Good, Tree, Linked
    <2>5. b.dentry[p].uuid = c.dentry[p].uuid
      BY <2>4 DEF SameShape
    <2>6. CASE c.mem[c.dentry[p].uuid].entries[c.dentry[i].name] = c.dentry[i].uuid
      BY <2>2, <2>5, <2>6
    <2>7. CASE i \notin c.missed /\ ~c.dentry[i].changed
      <3>1. Agrees(c, i)
        BY <2>7 DEF Good, Agreeing
      <3>2. c.mem[c.dentry[p].uuid].loaded
        BY <2>3, <2>5
      <3>3. c.mem[c.dentry[p].uuid].entries[c.dentry[i].name] = c.dentry[i].uuid
        BY <2>1, <2>3, <2>7, <3>1, <3>2 DEF Agrees
      <3> QED
        BY <2>2, <2>5, <3>3
    <2>8. \/ c.mem[c.dentry[p].uuid].entries[c.dentry[i].name] = c.dentry[i].uuid
          \/ i \notin c.missed /\ ~c.dentry[i].changed
      BY <1>3, <2>1, <2>3 DEF TrustIsEarned
    <2> QED
      BY <2>6, <2>7, <2>8
  <1>4. QED
    BY <1>1, <1>2, <1>3 DEF Good, Agreeing

LEMMA InstantiateIsGood ==
    ASSUME NEW c, Good(c), NEW i \in Live(c), ~c.dentry[i].meta, c.mem[c.dentry[i].uuid].loaded
    PROVE  LET b == dentry_instantiate(c, i) IN
           /\ Good(b) /\ SameShape(b, c) /\ b.at = c.at /\ b.from = c.from
           /\ b.dentry[i].meta
           /\ \A j \in Live(c) : c.dentry[j].meta => b.dentry[j].meta
PROOF
  <1>0. /\ c \in Cache /\ c.aliases \in [Objects -> Seq(Ids)]
        /\ c.dentry \in [Ids -> Dentry \union {Free}]
    BY DEF Good, Cache
  <1>1. PICK b : b = dentry_instantiate(c, i)
    OBVIOUS
  <1>2. PICK o : o = c.dentry[i].uuid
    OBVIOUS
  <1>3. i \in Ids /\ c.dentry[i] \in Dentry /\ o \in Objects
    BY <1>0, <1>2, DentryFields
  <1>4. PICK r : r = [c.dentry[i] EXCEPT !.meta = TRUE]
    OBVIOUS
  <1>5. /\ r \in Dentry /\ r.uuid = o /\ r.name = c.dentry[i].name /\ r.parent = c.dentry[i].parent
        /\ r.count = c.dentry[i].count /\ r.changed = c.dentry[i].changed /\ r.meta
    BY <1>2, <1>3, <1>4 DEF Dentry
  <1>6. PICK D : D = [c.dentry EXCEPT ![i] = r]
    OBVIOUS
  <1>7. D \in [Ids -> Dentry \union {Free}] /\ D[i] = r /\ \A j \in Ids : j # i => D[j] = c.dentry[j]
    BY <1>0, <1>3, <1>5, <1>6
  <1>8. PICK s : s = <<i>> \o c.aliases[o]
    OBVIOUS
  <1>9. PICK A : A = [c.aliases EXCEPT ![o] = s]
    OBVIOUS
  <1>10. /\ c.aliases[o] \in Seq(Ids) /\ IsInjective(c.aliases[o])
         /\ Range(c.aliases[o]) = WithMeta(c, o)
    BY <1>0, <1>3 DEF Good, Listed
  <1>11. i \notin Range(c.aliases[o])
    BY <1>10 DEF WithMeta
  <1>12. s \in Seq(Ids) /\ IsInjective(s) /\ Range(s) = WithMeta(c, o) \union {i}
    BY <1>3, <1>8, <1>10, <1>11, ListAdd
  <1>13. A \in [Objects -> Seq(Ids)] /\ A[o] = s /\ \A x \in Objects : x # o => A[x] = c.aliases[x]
    BY <1>0, <1>3, <1>9, <1>12
  <1>14. b = [c EXCEPT !.dentry = D, !.aliases = A]
    BY <1>1, <1>2, <1>4, <1>6, <1>8, <1>9 DEF dentry_instantiate
  <1>15. /\ b \in Cache /\ b.mem = c.mem /\ b.dentry = D /\ b.aliases = A
         /\ b.missed = c.missed /\ b.at = c.at /\ b.from = c.from
    BY <1>0, <1>7, <1>13, <1>14 DEF Cache
  <1>16. Live(b) = Live(c)
    <2>1. i \in Live(b)
      BY <1>3, <1>5, <1>7, <1>15, LiveDentry
    <2> QED
      BY <1>7, <1>15, <2>1 DEF Live
  <1>17. SameShape(b, c)
    BY <1>2, <1>5, <1>7, <1>15, <1>16, LiveSubset DEF SameShape
  <1>18. /\ b.dentry[i].meta
         /\ \A j \in Live(c) : /\ j # i => b.dentry[j].meta = c.dentry[j].meta
                               /\ b.dentry[j].changed = c.dentry[j].changed
    BY <1>5, <1>7, <1>15, LiveSubset
  <1>19. Listed(b)
    <2>1. SUFFICES ASSUME NEW x \in Objects
                   PROVE  IsInjective(b.aliases[x]) /\ Range(b.aliases[x]) = WithMeta(b, x)
      BY DEF Listed
    <2>2. CASE x = o
      <3>1. WithMeta(b, x) = WithMeta(c, x) \union {i}
        BY <1>2, <1>17, <1>18, <2>2 DEF WithMeta, SameShape
      <3> QED
        BY <1>12, <1>13, <1>15, <2>2, <3>1
    <2>3. CASE x # o
      <3>1. WithMeta(b, x) = WithMeta(c, x)
        BY <1>2, <1>17, <1>18, <2>3 DEF WithMeta, SameShape
      <3>2. b.aliases[x] = c.aliases[x]
        BY <1>13, <1>15, <2>3
      <3> QED
        BY <3>1, <3>2 DEF Good, Listed
    <2> QED
      BY <2>2, <2>3
  <1>20. Loaded(b)
    BY <1>2, <1>15, <1>17, <1>18 DEF Good, Loaded, SameShape
  <1>21. Good(b)
    <2>1. TrustIsEarned(b, c)
      BY <1>15, <1>18 DEF TrustIsEarned
    <2> QED
      BY <1>15, <1>17, <1>19, <1>20, <2>1, OtherFlags
  <1>22. \A j \in Live(c) : c.dentry[j].meta => b.dentry[j].meta
    BY <1>18
  <1>23. QED
    BY <1>1, <1>15, <1>17, <1>18, <1>21, <1>22

LEMMA TellIsGood ==
    ASSUME NEW c, Good(c), NEW i \in Live(c)
    PROVE  LET b == TellChildren(c, i) IN
           /\ Good(b) /\ SameShape(b, c) /\ b.at = c.at /\ b.from = c.from
           /\ \A j \in Live(c) : b.dentry[j].meta = c.dentry[j].meta
PROOF
  <1>0. c \in Cache /\ c.dentry \in [Ids -> Dentry \union {Free}]
    BY DEF Good, Cache
  <1>1. PICK b : b = TellChildren(c, i)
    OBVIOUS
  <1>2. PICK D : D = [j \in Ids |-> IF j \in Children(c, i)
                                    THEN [c.dentry[j] EXCEPT !.changed = TRUE] ELSE c.dentry[j]]
    OBVIOUS
  <1>3. b = [c EXCEPT !.dentry = D, !.missed = @ \ Children(c, i)]
    BY <1>1, <1>2 DEF TellChildren
  <1>4. ASSUME NEW j \in Children(c, i)
        PROVE  /\ j \in Ids /\ D[j] \in Dentry /\ D[j].uuid = c.dentry[j].uuid
               /\ D[j].name = c.dentry[j].name /\ D[j].parent = c.dentry[j].parent
               /\ D[j].count = c.dentry[j].count /\ D[j].meta = c.dentry[j].meta
               /\ D[j].changed = TRUE
    <2>1. j \in Live(c) /\ j \in Ids /\ c.dentry[j] \in Dentry
      BY <1>0, DentryFields DEF Children
    <2>2. D[j] = [c.dentry[j] EXCEPT !.changed = TRUE]
      BY <1>2, <2>1
    <2> QED
      BY <2>1, <2>2 DEF Dentry
  <1>5. \A j \in Ids : j \notin Children(c, i) => D[j] = c.dentry[j]
    BY <1>2
  <1>6. D \in [Ids -> Dentry \union {Free}]
    <2>1. \A j \in Ids : D[j] \in Dentry \union {Free}
      BY <1>0, <1>4, <1>5
    <2> QED
      BY <1>2, <2>1
  <1>7. /\ b \in Cache /\ b.mem = c.mem /\ b.dentry = D /\ b.aliases = c.aliases
        /\ b.missed = c.missed \ Children(c, i) /\ b.at = c.at /\ b.from = c.from
    BY <1>0, <1>3, <1>6 DEF Cache
  <1>8. Live(b) = Live(c)
    <2>1. ASSUME NEW j \in Ids PROVE j \in Live(b) <=> j \in Live(c)
      <3>1. CASE j \in Children(c, i)
        <4>1. j \in Live(b)
          BY <1>4, <1>7, <3>1, LiveDentry
        <4>2. j \in Live(c)
          BY <3>1 DEF Children
        <4> QED
          BY <4>1, <4>2
      <3>2. CASE j \notin Children(c, i)
        BY <1>5, <1>7, <3>2 DEF Live
      <3> QED
        BY <3>1, <3>2
    <2> QED
      BY <2>1, LiveSubset
  <1>9. SameShape(b, c)
    BY <1>4, <1>5, <1>7, <1>8, LiveSubset DEF SameShape
  <1>10. \A j \in Live(c) : b.dentry[j].meta = c.dentry[j].meta
    BY <1>4, <1>5, <1>7, LiveSubset
  <1>11. Listed(b)
    <2>1. \A x \in Objects : WithMeta(b, x) = WithMeta(c, x)
      BY <1>9, <1>10 DEF WithMeta, SameShape
    <2> QED
      BY <1>7, <2>1 DEF Good, Listed
  <1>12. Loaded(b)
    BY <1>7, <1>9, <1>10 DEF Good, Loaded, SameShape
  <1>13. ASSUME NEW j \in Live(c), j \notin b.missed, ~b.dentry[j].changed
         PROVE  j \notin c.missed /\ ~c.dentry[j].changed
    <2>1. j \notin Children(c, i)
      BY <1>4, <1>7, <1>13
    <2> QED
      BY <1>5, <1>7, <1>13, <2>1, LiveSubset
  <1>14. b.missed \subseteq c.missed
    BY <1>7
  <1>15. Good(b)
    <2>1. TrustIsEarned(b, c)
      BY <1>13 DEF TrustIsEarned
    <2> QED
      BY <1>7, <1>9, <1>11, <1>12, <1>14, <2>1, OtherFlags
  <1>16. QED
    BY <1>1, <1>7, <1>9, <1>10, <1>15
-----------------------------------------------------------------------------
(* The walk.                                                               *)
LEMMA RevalidateResult ==
    ASSUME NEW c, NEW o, NEW write
    PROVE  LET r == nexus_metadata_revalidate(c, o, write)
           IN r.c = c \/ r.c = Reload(c, o)
PROOF
  <1>1. CASE c.mem[o].invalid
    BY <1>1 DEF nexus_metadata_revalidate
  <1>2. CASE ~c.mem[o].invalid /\ o \in c.newer /\ o \in exists
    BY <1>2 DEF nexus_metadata_revalidate
  <1>3. CASE ~c.mem[o].invalid /\ ~(o \in c.newer /\ o \in exists)
    BY <1>3 DEF nexus_metadata_revalidate
  <1>4. QED
    BY <1>1, <1>2, <1>3

LEMMA LoadResult ==
    ASSUME NEW c, Good(c), StoredOK, NEW o \in Objects, NEW write
    PROVE  LET r == nexus_vfs_load(c, o, write)
           IN (r.c = c \/ r.c = Reload(c, o)) /\ (r.ok => r.c.mem[o].loaded)
PROOF
  <1>1. PICK m : m = nexus_metadata_revalidate(c, o, write)
    OBVIOUS
  <1>2. m.c = c \/ m.c = Reload(c, o)
    BY <1>1, RevalidateResult
  <1>3. Reload(c, o).mem[o].loaded
    BY ReloadIsGood
  <1>4. CASE c.mem[o].loaded /\ m.ok
    BY <1>1, <1>2, <1>3, <1>4 DEF nexus_vfs_load
  <1>5. CASE ~(c.mem[o].loaded /\ m.ok)
    BY <1>1, <1>3, <1>5 DEF nexus_vfs_load
  <1>6. QED
    BY <1>4, <1>5

(* The dentry i after it was revalidated.                                  *)
Revalidated(b, c, i) ==
    /\ Good(b) /\ SameShape(b, c)
    /\ (b.at = c.at /\ b.dentry[i].meta) \/ b.at = NoDentry
    /\ b.from = c.from
    /\ \A j \in Live(c) : c.dentry[j].meta => b.dentry[j].meta

LEMMA RevalidateIsGood ==
    ASSUME NEW c, Good(c), StoredOK, NEW i \in Live(c), NEW write
    PROVE  Revalidated(dentry_revalidate(c, i, write), c, i)
PROOF
  <1>1. PICK o : o = c.dentry[i].uuid
    OBVIOUS
  <1>2. c \in Cache /\ o \in Objects /\ c.dentry[i].meta \in BOOLEAN
    BY <1>1, DentryFields DEF Good
  <1>3. PICK r : r = IF c.dentry[i].meta THEN nexus_metadata_revalidate(c, o, write)
                     ELSE nexus_vfs_load(c, o, write)
    OBVIOUS
  <1>4. r.c = c \/ r.c = Reload(c, o)
    BY <1>2, <1>3, RevalidateResult, LoadResult
  <1>5. r.ok /\ ~c.dentry[i].meta => r.c.mem[o].loaded
    BY <1>2, <1>3, LoadResult
  <1>6. PICK a : a = r.c
    OBVIOUS
  <1>7. SameShape(c, c)
    BY DEF SameShape
  <1>8. /\ Good(a) /\ SameShape(a, c) /\ a.dentry = c.dentry /\ a.at = c.at /\ a.from = c.from
        /\ Live(a) = Live(c)
    BY <1>2, <1>4, <1>6, <1>7, ReloadIsGood DEF SameShape
  <1>9. PICK b : b = dentry_revalidate(c, i, write)
    OBVIOUS
  <1>10. CASE ~r.ok
    <2>1. b = [a EXCEPT !.at = NoDentry]
      BY <1>1, <1>3, <1>6, <1>9, <1>10 DEF dentry_revalidate
    <2>2. Good(b) /\ b.at = NoDentry
      BY <1>8, <2>1, SetAt
    <2>3. a \in Cache
      BY <1>8 DEF Good
    <2>4. b.dentry = c.dentry /\ b.from = c.from
      BY <1>8, <2>1, <2>3 DEF Cache
    <2>5. SameShape(b, c)
      BY <2>4 DEF SameShape, Live
    <2> QED
      BY <1>9, <2>2, <2>4, <2>5 DEF Revalidated
  <1>11. CASE r.ok /\ ~c.dentry[i].meta
    <2>1. b = dentry_instantiate(a, i)
      BY <1>1, <1>3, <1>6, <1>9, <1>11 DEF dentry_revalidate
    <2>2. ~a.dentry[i].meta /\ a.mem[a.dentry[i].uuid].loaded
      BY <1>1, <1>5, <1>6, <1>8, <1>11
    <2>3. /\ Good(b) /\ SameShape(b, a) /\ b.at = a.at /\ b.from = a.from /\ b.dentry[i].meta
          /\ \A j \in Live(a) : a.dentry[j].meta => b.dentry[j].meta
      BY <1>8, <2>1, <2>2, InstantiateIsGood
    <2>4. SameShape(b, c)
      BY <1>8, <2>3 DEF SameShape
    <2> QED
      BY <1>8, <1>9, <2>3, <2>4 DEF Revalidated
  <1>12. CASE r.ok /\ c.dentry[i].meta /\ r.has_changed
    <2>1. b = TellChildren(a, i)
      BY <1>1, <1>3, <1>6, <1>9, <1>12 DEF dentry_revalidate
    <2>2. /\ Good(b) /\ SameShape(b, a) /\ b.at = a.at /\ b.from = a.from
          /\ \A j \in Live(a) : b.dentry[j].meta = a.dentry[j].meta
      BY <1>8, <2>1, TellIsGood
    <2>3. SameShape(b, c)
      BY <1>8, <2>2 DEF SameShape
    <2> QED
      BY <1>8, <1>9, <1>12, <2>2, <2>3 DEF Revalidated
  <1>13. CASE r.ok /\ c.dentry[i].meta /\ ~r.has_changed
    <2>1. b = a
      BY <1>1, <1>3, <1>6, <1>9, <1>13 DEF dentry_revalidate
    <2> QED
      BY <1>8, <1>9, <1>13, <2>1 DEF Revalidated
  <1>14. QED
    BY <1>10, <1>11, <1>12, <1>13

LEMMA LookupResult ==
    ASSUME NEW c, NEW p, NEW name
    PROVE  LET i == d_lookup(c, p, name) IN
           \/ i = NoDentry /\ \A j \in Children(c, p) : c.dentry[j].name # name
           \/ i \in Children(c, p) /\ c.dentry[i].name = name
PROOF
  <1>1. CASE \E j \in Children(c, p) : c.dentry[j].name = name
    BY <1>1 DEF d_lookup
  <1>2. CASE ~\E j \in Children(c, p) : c.dentry[j].name = name
    BY <1>2 DEF d_lookup
  <1>3. QED
    BY <1>1, <1>2

(* After a deletion the parent has no child of that name: it had one.      *)
LEMMA ChildGone ==
    ASSUME NEW c, Good(c), NEW p \in Ids, NEW i \in Children(c, p),
           NEW b, Without(b, c, i)
    PROVE  NoChild(b, p, c.dentry[i].name)
PROOF
  <1>1. SUFFICES ASSUME NEW j \in Children(b, p), b.dentry[j].name = c.dentry[i].name PROVE FALSE
    BY DEF NoChild
  <1>2. p # NoDentry /\ i \in Live(c) /\ c.dentry[i].parent = p
    BY IdsFacts DEF Children
  <1>3. j \in Live(b) /\ j \in Live(c) /\ b.dentry[j].parent = p
    BY DEF Children, Without
  <1>4. j # i
    BY <1>2, <1>3 DEF Without
  <1>5. c.dentry[j].parent = p /\ c.dentry[j].name = c.dentry[i].name
    BY <1>1, <1>3, <1>4 DEF Without
  <1>6. QED
    BY <1>2, <1>3, <1>4, <1>5 DEF Good, Tree, Unique

LEMMA DescendIsGood ==
    ASSUME NEW c, Good(c), c.at \in Live(c), c.dentry[c.at].uuid \in Dirs, NEW name \in Names
    PROVE  Good(Descend(c, name)) /\ Descend(c, name).at \in Live(Descend(c, name)) \union {NoDentry}
PROOF
  <1>1. PICK p, i, o : /\ p = c.at /\ i = d_lookup(c, p, name)
                       /\ o = c.mem[c.dentry[p].uuid].entries[name]
    OBVIOUS
  <1>2. p \in Live(c) /\ p \in Ids /\ p # NoDentry /\ c.dentry[p].uuid \in Dirs
    BY <1>1, LiveSubset, IdsFacts
  <1>3. c \in Cache /\ o \in Objects \union {None}
    BY <1>1, <1>2 DEF Good, Cache, MetaObject, Objects
  <1>4. \/ i = NoDentry /\ \A j \in Children(c, p) : c.dentry[j].name # name
        \/ i \in Children(c, p) /\ c.dentry[i].name = name
    BY <1>1, LookupResult
  <1>5. i # NoDentry => /\ i \in Live(c) /\ i \in Ids /\ c.dentry[i].parent = p
                        /\ c.dentry[i].name = name /\ i \in Children(c, p)
    BY <1>4, LiveSubset DEF Children
  <1>6. PICK b : b = Descend(c, name)
    OBVIOUS
  <1>7. CASE i # NoDentry /\ ~c.dentry[i].changed
    <2>1. b = [c EXCEPT !.at = i]
      BY <1>1, <1>6, <1>7 DEF Descend
    <2> QED
      BY <1>5, <1>6, <1>7, <2>1, SetAt
  <1>8. CASE o = None /\ (i # NoDentry => c.dentry[i].changed)
    <2>1. b = [c EXCEPT !.at = NoDentry]
      BY <1>1, <1>6, <1>8 DEF Descend
    <2> QED
      BY <1>6, <2>1, SetAt
  <1>9. CASE i = NoDentry /\ o # None
    <2>1. b = d_alloc(c, p, o, name)
      BY <1>1, <1>6, <1>9 DEF Descend
    <2>2. i \notin Children(c, p)
      BY <1>9, LiveSubset, IdsFacts DEF Children
    <2>3. o \in Objects /\ NoChild(c, p, name)
      BY <1>3, <1>4, <1>9, <2>2 DEF NoChild
    <2> QED
      BY <1>1, <1>2, <1>6, <2>1, <2>3, AllocIsGood
  <1>10. CASE i # NoDentry /\ c.dentry[i].changed /\ o # None
    <2>1. b = IF c.dentry[i].uuid = o THEN [c EXCEPT !.dentry[i].changed = FALSE, !.at = i]
              ELSE d_alloc(dentry_delete(c, i), p, o, name)
      BY <1>1, <1>6, <1>10 DEF Descend
    <2>2. CASE c.dentry[i].uuid = o
      <3>1. c.dentry \in [Ids -> Dentry \union {Free}] /\ c.dentry[i] \in Dentry
        BY <1>3, <1>5, <1>10, DentryFields DEF Cache
      <3>2. PICK r : r = [c.dentry[i] EXCEPT !.changed = FALSE]
        OBVIOUS
      <3>3. /\ r \in Dentry /\ r.uuid = c.dentry[i].uuid /\ r.name = c.dentry[i].name
            /\ r.parent = c.dentry[i].parent /\ r.count = c.dentry[i].count /\ r.meta = c.dentry[i].meta
        BY <3>1, <3>2 DEF Dentry
      <3>4. PICK D : D = [c.dentry EXCEPT ![i] = r]
        OBVIOUS
      <3>5. D \in [Ids -> Dentry \union {Free}] /\ D[i] = r /\ \A j \in Ids : j # i => D[j] = c.dentry[j]
        BY <1>5, <1>10, <3>1, <3>3, <3>4
      <3>6. b = [c EXCEPT !.dentry = D, !.at = i]
        BY <2>1, <2>2, <3>2, <3>4
      <3>7. /\ b \in Cache /\ b.dentry = D /\ b.mem = c.mem /\ b.aliases = c.aliases
            /\ b.missed = c.missed /\ b.at = i
        BY <1>3, <1>5, <1>10, <3>5, <3>6 DEF Cache
      <3>8. Live(b) = Live(c)
        <4>1. i \in Live(b)
          BY <1>5, <1>10, <3>3, <3>5, <3>7, LiveDentry
        <4> QED
          BY <1>5, <1>10, <3>5, <3>7, <4>1 DEF Live
      <3>9. SameShape(b, c) /\ \A j \in Live(c) : b.dentry[j].meta = c.dentry[j].meta
        BY <3>3, <3>5, <3>7, <3>8, LiveSubset DEF SameShape
      <3>10. Listed(b)
        <4>1. \A x \in Objects : WithMeta(b, x) = WithMeta(c, x)
          BY <3>9 DEF WithMeta, SameShape
        <4> QED
          BY <3>7, <4>1 DEF Good, Listed
      <3>11. Loaded(b)
        BY <3>7, <3>9 DEF Good, Loaded, SameShape
      <3>12. c.mem[c.dentry[c.dentry[i].parent].uuid].entries[c.dentry[i].name] = c.dentry[i].uuid
        BY <1>1, <1>5, <1>10, <2>2
      <3>13. \A j \in Live(c) : j # i => b.dentry[j].changed = c.dentry[j].changed
        BY <3>5, <3>7, LiveSubset
      <3>14. Good(b)
        <4>1. TrustIsEarned(b, c)
          BY <3>7, <3>12, <3>13 DEF TrustIsEarned
        <4> QED
          BY <3>7, <3>9, <3>10, <3>11, <4>1, OtherFlags
      <3> QED
        BY <1>5, <1>6, <1>10, <3>7, <3>8, <3>14
    <2>3. CASE c.dentry[i].uuid # o
      <3>1. PICK a : a = dentry_delete(c, i)
        OBVIOUS
      <3>2. Good(a) /\ Without(a, c, i)
        BY <1>2, <1>5, <1>10, <3>1, DeleteIsGood
      <3>3. p # i
        BY <1>2, <1>5, <1>10 DEF Good, Tree, Linked
      <3>4. p \in Live(a) /\ a.dentry[p].uuid = c.dentry[p].uuid /\ a.mem = c.mem
        BY <1>2, <3>2, <3>3 DEF Without
      <3>5. NoChild(a, p, name) /\ o = a.mem[a.dentry[p].uuid].entries[name]
        BY <1>1, <1>2, <1>5, <1>10, <3>2, <3>4, ChildGone
      <3>6. b = d_alloc(a, p, o, name) /\ o \in Objects
        BY <1>3, <1>10, <2>1, <2>3, <3>1
      <3> QED
        BY <1>2, <1>6, <3>2, <3>4, <3>5, <3>6, AllocIsGood
    <2> QED
      BY <2>2, <2>3
  <1>11. QED
    BY <1>7, <1>8, <1>9, <1>10

LEMMA WalkStepIsGood ==
    ASSUME NEW c, Good(c), StoredOK, c.at \in Live(c) \union {NoDentry}, NEW name \in Names
    PROVE  Good(walk_step(c, name)) /\ walk_step(c, name).at \in Live(walk_step(c, name)) \union {NoDentry}
PROOF
  <1>1. PICK w : w = walk_step(c, name)
    OBVIOUS
  <1>2. CASE c.at = NoDentry \/ c.dentry[c.at].uuid \in Files
    <2>1. w = [c EXCEPT !.at = NoDentry]
      BY <1>1, <1>2 DEF walk_step
    <2> QED
      BY <1>1, <2>1, SetAt
  <1>3. CASE ~(c.at = NoDentry \/ c.dentry[c.at].uuid \in Files)
    <2>1. PICK r : r = dentry_revalidate(c, c.at, FALSE)
      OBVIOUS
    <2>2. w = IF r.at = NoDentry THEN r ELSE Descend(r, name)
      BY <1>1, <1>3, <2>1 DEF walk_step
    <2>3. c.at \in Live(c) /\ c \in Cache
      BY <1>3 DEF Good
    <2>4. Revalidated(r, c, c.at)
      BY <2>1, <2>3, RevalidateIsGood
    <2>5. CASE r.at = NoDentry
      BY <1>1, <2>2, <2>4, <2>5 DEF Revalidated
    <2>6. CASE r.at # NoDentry
      <3>1. Good(r) /\ r.at = c.at /\ r.at \in Live(r) /\ r.dentry[r.at].uuid = c.dentry[c.at].uuid
        BY <2>3, <2>4, <2>6 DEF Revalidated, SameShape
      <3>2. c.dentry[c.at].uuid \in Dirs
        BY <1>3, <2>3, DentryFields DEF Objects
      <3> QED
        BY <1>1, <2>2, <2>6, <3>1, <3>2, DescendIsGood
    <2> QED
      BY <2>5, <2>6
  <1>4. QED
    BY <1>2, <1>3

-----------------------------------------------------------------------------
(* The changes to a directory.                                             *)

(* No child of p has this name, or a walk does not trust it.               *)
Clear(c, p, name) ==
    \A i \in Live(c) \ c.missed :
        (c.dentry[i].parent = p /\ c.dentry[i].name = name) => c.dentry[i].changed

LEMMA SetEntryIsGood ==
    ASSUME NEW c, Good(c), NEW d \in Objects, NEW p, NEW name \in Names,
           NEW o \in Objects \union {None}, Clear(c, p, name)
    PROVE  LET b == SetEntry(c, d, p, name, o)
           IN Good(b) /\ b.dentry = c.dentry /\ c.missed \subseteq b.missed
PROOF
  <1>0. c \in Cache /\ c.mem \in [Objects -> MetaObject] /\ c.mem[d] \in MetaObject
    BY DEF Good, Cache
  <1>1. c.mem[d].entries \in [Names -> Objects \union {None}]
    BY <1>0 DEF MetaObject
  <1>2. PICK E : E = [c.mem[d].entries EXCEPT ![name] = o]
    OBVIOUS
  <1>3. E \in [Names -> Objects \union {None}] /\ \A n \in Names : n # name => E[n] = c.mem[d].entries[n]
    BY <1>1, <1>2
  <1>4. PICK m : m = [c.mem[d] EXCEPT !.entries = E]
    OBVIOUS
  <1>5. m \in MetaObject /\ m.entries = E /\ m.loaded = c.mem[d].loaded
    BY <1>0, <1>3, <1>4 DEF MetaObject
  <1>6. PICK M : M = [c.mem EXCEPT ![d] = m]
    OBVIOUS
  <1>7. M \in [Objects -> MetaObject] /\ M[d] = m /\ \A x \in Objects : x # d => M[x] = c.mem[x]
    BY <1>0, <1>5, <1>6
  <1>q. PICK ps : ps = DentriesOf(c, d) \ {p}
    OBVIOUS
  <1>8. PICK W : W = Overlooked(c, ps, E)
    OBVIOUS
  <1>9. W \subseteq Ids
    BY <1>8, LiveSubset DEF Overlooked
  <1>10. PICK b : b = SetEntry(c, d, p, name, o)
    OBVIOUS
  <1>11. b = [c EXCEPT !.mem = M, !.missed = @ \union W]
    BY <1>2, <1>4, <1>6, <1>q, <1>8, <1>10 DEF SetEntry
  <1>12. /\ b \in Cache /\ b.dentry = c.dentry /\ b.aliases = c.aliases /\ b.mem = M
         /\ b.missed = c.missed \union W
    BY <1>0, <1>7, <1>9, <1>11 DEF Cache
  <1>13. ASSUME NEW i \in Live(c) \ c.missed, c.dentry[i].parent \in DentriesOf(c, d),
                c.dentry[i].parent \notin ps, ~c.dentry[i].changed, b.mem[d].loaded
         PROVE  b.mem[d].entries[c.dentry[i].name] = c.dentry[i].uuid
    <2>1. c.dentry[i].parent = p /\ p \in Live(c) /\ c.dentry[p].uuid = d
      BY <1>q, <1>13 DEF DentriesOf
    <2>2. c.dentry[i].name # name
      BY <1>13, <2>1 DEF Clear
    <2>3. c.dentry[i].name \in Names /\ p # NoDentry
      BY <2>1, LiveSubset, IdsFacts DEF Good, Tree, Linked
    <2>4. Agrees(c, i)
      BY DEF Good, Agreeing
    <2>5. c.mem[d].loaded
      BY <1>5, <1>7, <1>12, <1>13
    <2>6. c.mem[d].entries[c.dentry[i].name] = c.dentry[i].uuid
      BY <1>13, <2>1, <2>3, <2>4, <2>5 DEF Agrees
    <2> QED
      BY <1>3, <1>5, <1>7, <1>12, <2>2, <2>3, <2>6
  <1>14. Agreeing(b)
    <2>1. b.missed = c.missed \union Overlooked(c, ps, b.mem[d].entries)
      BY <1>5, <1>7, <1>8, <1>12
    <2>2. \A x \in Objects : x # d => b.mem[x] = c.mem[x]
      BY <1>7, <1>12
    <2>3. b.dentry = c.dentry
      BY <1>12
    <2>4. OthersAgree(b, c, d, ps)
      BY <1>13 DEF OthersAgree
    <2> QED
      BY <2>1, <2>2, <2>3, <2>4, NewEntries
  <1>15. \A x \in Objects : c.mem[x].loaded => b.mem[x].loaded
    BY <1>5, <1>7, <1>12
  <1>16. Good(b)
    BY <1>12, <1>14, <1>15, SameDentriesOtherMem
  <1>17. QED
    BY <1>10, <1>12, <1>16

LEMMA ClearKept ==
    ASSUME NEW b, NEW c, SameShape(b, c), c.missed \subseteq b.missed, NEW p, NEW name,
           \A i \in Live(c) : b.dentry[i].changed = c.dentry[i].changed, Clear(c, p, name)
    PROVE  Clear(b, p, name)
BY DEF Clear, SameShape

(* The child is gone, or there was none.                                   *)
LEMMA DeleteChildIsGood ==
    ASSUME NEW c, Good(c), NEW p \in Ids, NEW name
    PROVE  LET b == dentry_delete_child(c, p, name) IN
           /\ Good(b) /\ Clear(b, p, name) /\ b.mem = c.mem
           /\ \A q, n : q # NoDentry /\ Clear(c, q, n) => Clear(b, q, n)
PROOF
  <1>1. PICK i : i = d_lookup(c, p, name)
    OBVIOUS
  <1>2. \/ i = NoDentry /\ \A j \in Children(c, p) : c.dentry[j].name # name
        \/ i \in Children(c, p) /\ c.dentry[i].name = name
    BY <1>1, LookupResult
  <1>3. PICK b : b = dentry_delete_child(c, p, name)
    OBVIOUS
  <1>4. CASE i = NoDentry
    <2>1. b = c
      BY <1>1, <1>3, <1>4 DEF dentry_delete_child
    <2>2. i \notin Children(c, p)
      BY <1>4, LiveSubset, IdsFacts DEF Children
    <2>3. Clear(c, p, name)
      BY <1>2, <2>2 DEF Clear, Children
    <2> QED
      BY <1>3, <2>1, <2>3
  <1>5. CASE i # NoDentry
    <2>1. b = dentry_delete(c, i)
      BY <1>1, <1>3, <1>5 DEF dentry_delete_child
    <2>2. i \in Children(c, p) /\ c.dentry[i].name = name
      BY <1>2, <1>5
    <2>3. i \in Live(c) /\ c.dentry[i].parent # NoDentry
      BY <2>2, IdsFacts DEF Children
    <2>4. Good(b) /\ Without(b, c, i)
      BY <2>1, <2>3, DeleteIsGood
    <2>5. NoChild(b, p, name)
      BY <2>2, <2>4, ChildGone
    <2>6. Clear(b, p, name)
      BY <2>5 DEF Clear, Children, NoChild
    <2>7. ASSUME NEW q, NEW n, q # NoDentry, Clear(c, q, n) PROVE Clear(b, q, n)
      <3>1. SUFFICES ASSUME NEW j \in Live(b) \ b.missed, b.dentry[j].parent = q, b.dentry[j].name = n
                     PROVE  b.dentry[j].changed
        BY DEF Clear
      <3>2. j # i
        BY <2>4, <2>7, <3>1 DEF Without
      <3>3. /\ j \in Live(c) \ c.missed /\ c.dentry[j].parent = q /\ c.dentry[j].name = n
            /\ b.dentry[j].changed = c.dentry[j].changed
        BY <2>4, <3>1, <3>2 DEF Without
      <3> QED
        BY <2>7, <3>3 DEF Clear
    <2>8. b.mem = c.mem
      BY <2>4 DEF Without
    <2> QED
      BY <1>3, <2>4, <2>6, <2>7, <2>8
  <1>6. QED
    BY <1>4, <1>5

LEMMA SavedIsGood ==
    ASSUME NEW c, Good(c), NEW ds
    PROVE  Good(Saved(c, ds)) /\ Saved(c, ds).mem = c.mem
PROOF
  <1>1. PICK b : b = Saved(c, ds)
    OBVIOUS
  <1>2. /\ b \in Cache /\ b.dentry = c.dentry /\ b.mem = c.mem /\ b.missed = c.missed
        /\ b.aliases = c.aliases
    BY <1>1 DEF Good, Cache, Saved
  <1>3. QED
    BY <1>1, <1>2, SameDentries

LEMMA FailedIsGood ==
    ASSUME NEW c, Good(c), NEW d \in Objects
    PROVE  Good(Failed(c, d))
PROOF
  <1>0. c \in Cache /\ c.mem \in [Objects -> MetaObject] /\ c.mem[d] \in MetaObject
    BY DEF Good, Cache
  <1>1. PICK m : m = [c.mem[d] EXCEPT !.invalid = TRUE]
    OBVIOUS
  <1>2. m \in MetaObject /\ m.loaded = c.mem[d].loaded /\ m.entries = c.mem[d].entries
    BY <1>0, <1>1 DEF MetaObject
  <1>3. PICK M : M = [c.mem EXCEPT ![d] = m]
    OBVIOUS
  <1>4. /\ M \in [Objects -> MetaObject]
        /\ \A o \in Objects : M[o].loaded = c.mem[o].loaded /\ M[o].entries = c.mem[o].entries
    BY <1>0, <1>2, <1>3
  <1>5. PICK b : b = Failed(c, d)
    OBVIOUS
  <1>6. b = [c EXCEPT !.mem = M]
    BY <1>1, <1>3, <1>5 DEF Failed
  <1>7. /\ b \in Cache /\ b.dentry = c.dentry /\ b.mem = M /\ b.missed = c.missed
        /\ b.aliases = c.aliases
    BY <1>0, <1>4, <1>6 DEF Cache
  <1>8. Agreeing(b)
    <2>1. Live(b) = Live(c) /\ b.missed \subseteq Live(b)
      BY <1>7 DEF Live, Good, Agreeing
    <2>2. ASSUME NEW i \in Live(c) \ c.missed PROVE Agrees(b, i)
      <3>1. PICK p : p = c.dentry[i].parent
        OBVIOUS
      <3>2. Agrees(c, i)
        BY DEF Good, Agreeing
      <3>3. p # NoDentry => c.dentry[p].uuid \in Objects
        BY <1>0, <3>1, DentryFields DEF Good, Tree, Linked
      <3>4. b.dentry = c.dentry
        BY <1>7
      <3>5. SUFFICES ASSUME p # NoDentry, ~c.dentry[i].changed, b.mem[c.dentry[p].uuid].loaded
                     PROVE  b.mem[c.dentry[p].uuid].entries[c.dentry[i].name] = c.dentry[i].uuid
        BY <3>1, <3>4 DEF Agrees
      <3>6. /\ b.mem[c.dentry[p].uuid].loaded = c.mem[c.dentry[p].uuid].loaded
            /\ b.mem[c.dentry[p].uuid].entries = c.mem[c.dentry[p].uuid].entries
        BY <1>4, <1>7, <3>3, <3>5
      <3>7. c.mem[c.dentry[p].uuid].entries[c.dentry[i].name] = c.dentry[i].uuid
        BY <3>1, <3>2, <3>5, <3>6 DEF Agrees
      <3> QED
        BY <3>6, <3>7
    <2> QED
      BY <1>7, <2>1, <2>2 DEF Agreeing
  <1>9. QED
    BY <1>4, <1>5, <1>7, <1>8, SameDentriesOtherMem

LEMMA PutIsTyped ==
    ASSUME NEW c, Good(c), StoredOK, NEW ds
    PROVE  Put(ds, c) \in [Dirs -> [Names -> Objects \union {None}]]
PROOF
  <1>1. \A d \in Dirs : Entries(c, d) \in [Names -> Objects \union {None}]
    BY DEF Good, Cache, MetaObject, Entries, Objects
  <1>2. QED
    BY <1>1 DEF Put, StoredOK

LEMMA EventBound ==
    ASSUME NEW n \in {1, 2}, events \in 0 .. MaxEvents, Event(n)
    PROVE  events' \in 0 .. MaxEvents
BY BoundsAssumption DEF Event

Stored(c) == Good(c) /\ c.at = NoDentry

LEMMA StoreIsGood ==
    ASSUME NEW c, Good(c), StoredOK, events \in 0 .. MaxEvents,
           NEW first \in Dirs, NEW second \in Dirs, Store(c, first, second)
    PROVE  /\ Stored(cache')
           /\ stored' \in [Dirs -> [Names -> Objects \union {None}]]
           /\ events' \in 0 .. MaxEvents
PROOF
  <1>1. first \in Objects /\ second \in Objects
    BY DEF Objects
  <1>2. PICK two, one : two = {first, second} /\ one = {first}
    OBVIOUS
  <1>3. /\ Put(two, c) \in [Dirs -> [Names -> Objects \union {None}]]
        /\ Put(one, c) \in [Dirs -> [Names -> Objects \union {None}]]
    BY PutIsTyped
  <1>4. Stored(Done(Saved(c, two)))
    BY SavedIsGood, DoneIsGood DEF Stored
  <1>5. Stored(Done(Failed(c, first)))
    BY <1>1, FailedIsGood, DoneIsGood DEF Stored
  <1>6. Stored(Done(Failed(Saved(c, one), second)))
    BY <1>1, SavedIsGood, FailedIsGood, DoneIsGood DEF Stored
  <1>7. \/ stored' = Put(two, c) /\ cache' = Done(Saved(c, two)) /\ Event(1)
        \/ Event(2) /\ stored' \in {stored, Put(one, c)} /\ cache' = Done(Failed(c, first))
        \/ /\ Event(2) /\ stored' \in {Put(one, c), Put(two, c)}
           /\ cache' = Done(Failed(Saved(c, one), second))
    BY <1>2 DEF Store
  <1>8. events' \in 0 .. MaxEvents
    BY <1>7, EventBound
  <1>9. QED
    BY <1>3, <1>4, <1>5, <1>6, <1>7, <1>8 DEF StoredOK

-----------------------------------------------------------------------------
(* The inductive invariant.                                                *)
IInv ==
    /\ Good(cache) /\ cache.at \in Live(cache) \union {NoDentry}
    /\ StoredOK
    /\ exists \subseteq used /\ used \subseteq Objects
    /\ events \in 0 .. MaxEvents

LEMMA InitIInv == Init => IInv
PROOF
  <1> SUFFICES ASSUME Init PROVE IInv
    OBVIOUS
  <1>1. PICK c : c = cache
    OBVIOUS
  <1>2. PICK r : r = NewDentry(NoDentry, Root, None)
    OBVIOUS
  <1>3. /\ r \in Dentry /\ r.uuid = Root /\ r.parent = NoDentry /\ r.count = 1 /\ r.meta = FALSE
        /\ r # Free
    BY <1>2, SetsAssumption DEF NewDentry, Dentry, Objects, Free
  <1>4. PICK D : D = [i \in Ids |-> IF i = RootId THEN r ELSE Free]
    OBVIOUS
  <1>5. D \in [Ids -> Dentry \union {Free}] /\ D[RootId] = r /\ \A i \in Ids : i # RootId => D[i] = Free
    BY <1>3, <1>4, IdsFacts
  <1>6. NoMeta \in MetaObject
    BY DEF NoMeta, NoEntries, MetaObject
  <1>7. PICK M : M = [o \in Objects |-> NoMeta]
    OBVIOUS
  <1>8. PICK A : A = [o \in Objects |-> <<>>]
    OBVIOUS
  <1>9. c = [dentry |-> D, mem |-> M, newer |-> {}, missed |-> {}, at |-> NoDentry, from |-> NoDentry,
             aliases |-> A]
    BY <1>1, <1>2, <1>4, <1>7, <1>8 DEF Init
  <1>10. M \in [Objects -> MetaObject] /\ A \in [Objects -> Seq(Ids)]
    BY <1>6, <1>7, <1>8
  <1>11. c \in Cache /\ c.dentry = D /\ c.aliases = A /\ c.missed = {} /\ c.at = NoDentry
    BY <1>5, <1>9, <1>10 DEF Cache
  <1>12. Live(c) = {RootId}
    BY <1>3, <1>5, <1>11, IdsFacts DEF Live
  <1>13. RootId # NoDentry
    BY IdsFacts
  <1>14. Tree(c)
    <2>1. Children(c, RootId) = {}
      BY <1>3, <1>5, <1>11, <1>12, <1>13 DEF Children
    <2>2. Counted(c)
      BY <1>3, <1>5, <1>11, <1>12, <2>1, FS_EmptySet DEF Counted
    <2>3. Linked(c) /\ Unique(c)
      BY <1>3, <1>5, <1>11, <1>12 DEF Linked, Unique
    <2> QED
      BY <1>3, <1>5, <1>11, <1>12, <2>2, <2>3 DEF Tree
  <1>15. Listed(c)
    <2>1. SUFFICES ASSUME NEW o \in Objects
                   PROVE  IsInjective(c.aliases[o]) /\ Range(c.aliases[o]) = WithMeta(c, o)
      BY DEF Listed
    <2>2. DOMAIN c.aliases[o] = {}
      BY <1>8, <1>11
    <2>3. IsInjective(c.aliases[o]) /\ Range(c.aliases[o]) = {}
      BY <2>2 DEF IsInjective, Range
    <2>4. WithMeta(c, o) = {}
      BY <1>3, <1>5, <1>11, <1>12 DEF WithMeta
    <2> QED
      BY <2>3, <2>4
  <1>16. Loaded(c)
    BY <1>3, <1>5, <1>11, <1>12 DEF Loaded
  <1>17. Agreeing(c)
    BY <1>3, <1>5, <1>11, <1>12 DEF Agreeing, Agrees
  <1>18. Good(c) /\ c.at = NoDentry
    BY <1>11, <1>14, <1>15, <1>16, <1>17 DEF Good
  <1>19. StoredOK
    BY VolumeAssumption DEF Init, StoredOK
  <1>20. exists \subseteq Objects /\ used = exists
    <2>1. \A d \in Dirs, n \in Names : Volume[d][n] \in Objects \union {None}
      BY VolumeAssumption
    <2> QED
      BY <2>1, SetsAssumption DEF Init, Objects
  <1>21. events \in 0 .. MaxEvents
    BY BoundsAssumption DEF Init
  <1>22. QED
    BY <1>1, <1>18, <1>19, <1>20, <1>21 DEF IInv
-----------------------------------------------------------------------------
(* One lemma for each action.                                              *)
LEMMA KeptStorage ==
    ASSUME IInv, UNCHANGED <<stored, exists, used>>, events' \in 0 .. MaxEvents,
           Good(cache'), cache'.at \in Live(cache') \union {NoDentry}
    PROVE  IInv'
BY DEF IInv, StoredOK

LEMMA BeginKeeps ==
    ASSUME IInv, Begin
    PROVE  IInv'
PROOF
  <1>1. cache' = [cache EXCEPT !.at = RootId] /\ UNCHANGED <<stored, exists, used>> /\ events' = events
    BY DEF Begin, storage
  <1>2. PICK c : c = cache
    OBVIOUS
  <1>3. Good(c) /\ RootId \in Live(c) /\ RootId \in Ids
    BY <1>2, IdsFacts DEF IInv, Good, Tree
  <1>4. PICK b : b = [c EXCEPT !.at = RootId]
    OBVIOUS
  <1>5. Good(b) /\ b.at \in Live(b)
    BY <1>3, <1>4, SetAt
  <1>6. cache' = b /\ events' \in 0 .. MaxEvents
    BY <1>1, <1>2, <1>4 DEF IInv
  <1>7. QED
    BY <1>1, <1>5, <1>6, KeptStorage

LEMMA WalkKeeps ==
    ASSUME IInv, Walk
    PROVE  IInv'
PROOF
  <1>1. PICK c : c = cache
    OBVIOUS
  <1>2. PICK name \in Names : /\ cache' = IF walk_step(cache, name).at = NoDentry
                                         THEN Done(walk_step(cache, name)) ELSE walk_step(cache, name)
                              /\ UNCHANGED <<stored, exists, used>> /\ events' = events
    BY DEF Walk, storage
  <1>3. PICK w : w = walk_step(c, name)
    OBVIOUS
  <1>4. Good(c) /\ c.at \in Live(c) \union {NoDentry} /\ StoredOK /\ events \in 0 .. MaxEvents
    BY <1>1 DEF IInv
  <1>5. Good(w) /\ w.at \in Live(w) \union {NoDentry}
    BY <1>3, <1>4, WalkStepIsGood
  <1>6. Good(Done(w)) /\ Done(w).at = NoDentry
    BY <1>5, DoneIsGood
  <1>7. cache' = Done(w) \/ cache' = w
    BY <1>1, <1>2, <1>3
  <1>8. QED
    BY <1>2, <1>4, <1>5, <1>6, <1>7, KeptStorage

LEMMA StatKeeps ==
    ASSUME IInv, Stat
    PROVE  IInv'
PROOF
  <1>1. PICK c : c = cache
    OBVIOUS
  <1>2. PICK write \in BOOLEAN : /\ ~Idle /\ cache' = Done(dentry_revalidate(cache, cache.at, write))
                                 /\ UNCHANGED <<stored, exists, used>> /\ events' = events
    BY DEF Stat, storage
  <1>3. PICK b : b = dentry_revalidate(c, c.at, write)
    OBVIOUS
  <1>4. Good(c) /\ c.at \in Live(c) /\ StoredOK /\ events \in 0 .. MaxEvents
    BY <1>1, <1>2 DEF IInv, Idle
  <1>5. Good(b)
    BY <1>3, <1>4, RevalidateIsGood DEF Revalidated
  <1>6. Good(Done(b)) /\ Done(b).at = NoDentry
    BY <1>5, DoneIsGood
  <1>7. cache' = Done(b)
    BY <1>1, <1>2, <1>3
  <1>8. QED
    BY <1>2, <1>4, <1>6, <1>7, KeptStorage

LEMMA GiveUpKeeps ==
    ASSUME IInv, GiveUp
    PROVE  IInv'
PROOF
  <1>1. PICK c : c = cache
    OBVIOUS
  <1>2. cache' = Done(cache) /\ UNCHANGED <<stored, exists, used>> /\ events' = events
    BY DEF GiveUp, storage
  <1>3. Good(Done(c)) /\ Done(c).at = NoDentry /\ events \in 0 .. MaxEvents
    BY <1>1, DoneIsGood DEF IInv
  <1>4. cache' = Done(c)
    BY <1>1, <1>2
  <1>5. QED
    BY <1>2, <1>3, <1>4, KeptStorage

LEMMA RenameFromKeeps ==
    ASSUME IInv, RenameFrom
    PROVE  IInv'
PROOF
  <1>1. PICK c : c = cache
    OBVIOUS
  <1>2. /\ cache' = [cache EXCEPT !.from = cache.at, !.at = RootId]
        /\ UNCHANGED <<stored, exists, used>> /\ events' = events
    BY DEF RenameFrom, storage
  <1>3. PICK b : b = [c EXCEPT !.from = c.at, !.at = RootId]
    OBVIOUS
  <1>4. c \in Cache /\ Good(c) /\ RootId \in Live(c) /\ RootId \in Ids /\ events \in 0 .. MaxEvents
    BY <1>1, IdsFacts DEF IInv, Good, Tree
  <1>5. /\ b \in Cache /\ b.dentry = c.dentry /\ b.mem = c.mem /\ b.missed = c.missed
        /\ b.aliases = c.aliases /\ b.at = RootId
    BY <1>3, <1>4 DEF Cache
  <1>6. Good(b) /\ Live(b) = Live(c)
    BY <1>4, <1>5, SameDentries
  <1>7. cache' = b
    BY <1>1, <1>2, <1>3
  <1>8. QED
    BY <1>2, <1>4, <1>5, <1>6, <1>7, KeptStorage

LEMMA ShrinkKeeps ==
    ASSUME IInv, lru_shrinker
    PROVE  IInv'
PROOF
  <1>1. PICK c : c = cache
    OBVIOUS
  <1>2. PICK o \in Objects : /\ Idle /\ cache' = nexus_metadata_free(cache, o) /\ Event(1)
                             /\ UNCHANGED <<stored, exists, used>>
    BY DEF lru_shrinker, storage
  <1>3. PICK b : b = nexus_metadata_free(c, o)
    OBVIOUS
  <1>4. Good(c) /\ c.at = NoDentry /\ events \in 0 .. MaxEvents
    BY <1>1, <1>2 DEF IInv, Idle
  <1>5. Good(b) /\ b.at = NoDentry
    BY <1>3, <1>4, MetadataFreeIsGood
  <1>6. cache' = b
    BY <1>1, <1>2, <1>3
  <1>7. events' \in 0 .. MaxEvents
    BY <1>2, <1>4, EventBound
  <1>8. QED
    BY <1>2, <1>5, <1>6, <1>7, KeptStorage

(* The directory an operation changes, once nexus_vfs_get has succeeded:   *)
(* it is in memory and has a dentry in its list.                           *)
LEMMA HeadOfList ==
    ASSUME NEW c, Good(c), NEW i \in Live(c), c.dentry[i].meta, NEW d, d = c.dentry[i].uuid
    PROVE  /\ d \in Objects /\ c.mem[d].loaded
           /\ metadata_get_dentry(c, d) \in Live(c) /\ metadata_get_dentry(c, d) \in Ids
           /\ c.dentry[metadata_get_dentry(c, d)].uuid = d
PROOF
  <1>1. c \in Cache /\ d \in Objects
    BY DentryFields DEF Good
  <1>2. PICK s : s = c.aliases[d]
    OBVIOUS
  <1>3. s \in Seq(Ids) /\ Range(s) = WithMeta(c, d)
    BY <1>1, <1>2 DEF Cache, Good, Listed
  <1>4. i \in Range(s)
    BY <1>3 DEF WithMeta
  <1>5. PICK k \in DOMAIN s : s[k] = i
    BY <1>4 DEF Range
  <1>6. 1 \in DOMAIN s /\ Head(s) = s[1]
    BY <1>3, <1>5
  <1>7. Head(s) \in WithMeta(c, d)
    BY <1>3, <1>6 DEF Range
  <1>8. metadata_get_dentry(c, d) \in WithMeta(c, d)
    BY <1>2, <1>7 DEF metadata_get_dentry
  <1>9. QED
    BY <1>1, <1>8, LiveSubset DEF WithMeta, Good, Loaded

LEMMA CreateKeeps ==
    ASSUME IInv, ecall_fs_create
    PROVE  IInv'
PROOF
  <1>1. PICK c : c = cache
    OBVIOUS
  <1>2. PICK i, d, g : i = c.at /\ d = c.dentry[i].uuid /\ g = Get(c, i)
    OBVIOUS
  <1>3. PICK name \in Names, o \in Objects \ used :
            /\ InDir(c, i) /\ g.at # NoDentry
            /\ used' = used \union {o} /\ exists' = exists \union {o}
            /\ IF Entries(g, d)[name] = None
               THEN Store(SetEntry(g, d, metadata_get_dentry(g, d), name, o), d, d)
               ELSE cache' = Done(g) /\ Event(1) /\ UNCHANGED stored
    BY <1>1, <1>2 DEF ecall_fs_create
  <1>4. /\ Good(c) /\ i \in Live(c) /\ StoredOK /\ events \in 0 .. MaxEvents /\ d \in Dirs
        /\ d \in Objects /\ exists \subseteq used /\ used \subseteq Objects
    BY <1>1, <1>2, <1>3 DEF IInv, InDir, Objects
  <1>5. Revalidated(g, c, i)
    BY <1>2, <1>4, RevalidateIsGood DEF Get
  <1>6. Good(g) /\ i \in Live(g) /\ g.dentry[i].meta /\ d = g.dentry[i].uuid
    BY <1>2, <1>3, <1>4, <1>5 DEF Revalidated, SameShape
  <1>7. PICK p : p = metadata_get_dentry(g, d)
    OBVIOUS
  <1>8. g.mem[d].loaded /\ p \in Live(g) /\ p \in Ids /\ g.dentry[p].uuid = d
    BY <1>6, <1>7, HeadOfList
  <1>9. /\ Stored(cache') /\ stored' \in [Dirs -> [Names -> Objects \union {None}]]
        /\ events' \in 0 .. MaxEvents
    <2>1. CASE Entries(g, d)[name] = None
      <3>1. Clear(g, p, name)
        <4>1. SUFFICES ASSUME NEW j \in Live(g) \ g.missed, g.dentry[j].parent = p,
                              g.dentry[j].name = name, ~g.dentry[j].changed
                       PROVE  FALSE
          BY DEF Clear
        <4>2. Agrees(g, j) /\ p # NoDentry
          BY <1>6, <1>8, IdsFacts DEF Good, Agreeing
        <4>3. g.mem[d].entries[name] = g.dentry[j].uuid
          BY <1>8, <4>1, <4>2 DEF Agrees
        <4>4. g.dentry[j].uuid \in Objects
          BY <1>6, DentryFields DEF Good
        <4> QED
          BY <2>1, <4>3, <4>4, SetsAssumption DEF Entries
      <3>2. PICK b : b = SetEntry(g, d, p, name, o)
        OBVIOUS
      <3>3. Good(b)
        BY <1>4, <1>6, <3>1, <3>2, SetEntryIsGood
      <3>4. Store(b, d, d)
        BY <1>3, <1>7, <2>1, <3>2
      <3> QED
        BY <1>4, <3>3, <3>4, StoreIsGood
    <2>2. CASE Entries(g, d)[name] # None
      <3>1. cache' = Done(g) /\ Event(1) /\ stored' = stored
        BY <1>3, <2>2
      <3>2. Good(Done(g)) /\ Done(g).at = NoDentry
        BY <1>6, DoneIsGood
      <3>3. events' \in 0 .. MaxEvents
        BY <1>4, <3>1, EventBound
      <3> QED
        BY <1>4, <3>1, <3>2, <3>3 DEF StoredOK, Stored
    <2> QED
      BY <2>1, <2>2
  <1>10. exists' \subseteq used' /\ used' \subseteq Objects
    BY <1>3, <1>4
  <1>11. QED
    BY <1>9, <1>10 DEF IInv, Stored, StoredOK

LEMMA RemoveKeeps ==
    ASSUME IInv, ecall_fs_remove
    PROVE  IInv'
PROOF
  <1>1. PICK c0 : c0 = cache
    OBVIOUS
  <1>2. PICK i, d, g : i = c0.at /\ d = c0.dentry[i].uuid /\ g = Get(c0, i)
    OBVIOUS
  <1>3. PICK p : p = metadata_get_dentry(g, d)
    OBVIOUS
  <1>4. PICK name \in Names :
            LET o == Entries(g, d)[name]
                c == dentry_delete_child(g, p, name)
            IN /\ InDir(c0, i) /\ g.at # NoDentry /\ used' = used
               /\ IF o = None THEN cache' = Done(c) /\ UNCHANGED <<stored, exists, events>>
                  ELSE IF LastEntry(d, name, o)
                  THEN exists' = exists \ {o} /\ Store(SetEntry(nexus_metadata_free(c, o), d, p, name, None), d, d)
                  ELSE UNCHANGED exists /\ Store(SetEntry(c, d, p, name, None), d, d)
    BY <1>1, <1>2, <1>3 DEF ecall_fs_remove
  <1>5. PICK o : o = Entries(g, d)[name]
    OBVIOUS
  <1>6. PICK c : c = dentry_delete_child(g, p, name)
    OBVIOUS
  <1>7. /\ InDir(c0, i) /\ g.at # NoDentry /\ used' = used
        /\ \/ o = None /\ cache' = Done(c) /\ UNCHANGED <<stored, exists, events>>
           \/ /\ o # None /\ exists' = exists \ {o}
              /\ Store(SetEntry(nexus_metadata_free(c, o), d, p, name, None), d, d)
           \/ o # None /\ exists' = exists /\ Store(SetEntry(c, d, p, name, None), d, d)
    BY <1>4, <1>5, <1>6
  <1>8. /\ Good(c0) /\ i \in Live(c0) /\ StoredOK /\ events \in 0 .. MaxEvents /\ d \in Dirs
        /\ d \in Objects /\ exists \subseteq used /\ used \subseteq Objects
    BY <1>1, <1>2, <1>7 DEF IInv, InDir, Objects
  <1>9. Revalidated(g, c0, i)
    BY <1>2, <1>8, RevalidateIsGood DEF Get
  <1>10. Good(g) /\ i \in Live(g) /\ g.dentry[i].meta /\ d = g.dentry[i].uuid
    BY <1>2, <1>7, <1>8, <1>9 DEF Revalidated, SameShape
  <1>11. p \in Ids
    BY <1>3, <1>10, HeadOfList
  <1>12. Good(c) /\ Clear(c, p, name)
    BY <1>6, <1>10, <1>11, DeleteChildIsGood
  <1>13. o \in Objects \union {None}
    BY <1>5, <1>8, <1>10 DEF Good, Cache, MetaObject, Entries
  <1>14. /\ Stored(cache') /\ stored' \in [Dirs -> [Names -> Objects \union {None}]]
         /\ events' \in 0 .. MaxEvents /\ exists' \subseteq used'
    <2>1. CASE o = None /\ cache' = Done(c) /\ UNCHANGED <<stored, exists, events>>
      <3>1. Good(Done(c)) /\ Done(c).at = NoDentry
        BY <1>12, DoneIsGood
      <3> QED
        BY <1>7, <1>8, <2>1, <3>1 DEF StoredOK, Stored
    <2>2. CASE /\ o # None /\ exists' = exists \ {o}
               /\ Store(SetEntry(nexus_metadata_free(c, o), d, p, name, None), d, d)
      <3>1. PICK f : f = nexus_metadata_free(c, o)
        OBVIOUS
      <3>2. /\ Good(f) /\ SameShape(f, c) /\ f.missed = c.missed
            /\ \A j \in Live(c) : f.dentry[j].changed = c.dentry[j].changed
        BY <1>12, <1>13, <2>2, <3>1, MetadataFreeIsGood
      <3>3. Clear(f, p, name)
        BY <1>12, <3>2, ClearKept
      <3>4. PICK b : b = SetEntry(f, d, p, name, None)
        OBVIOUS
      <3>5. Good(b)
        BY <1>8, <3>2, <3>3, <3>4, SetEntryIsGood
      <3>6. Store(b, d, d)
        BY <2>2, <3>1, <3>4
      <3> QED
        BY <1>7, <1>8, <2>2, <3>5, <3>6, StoreIsGood
    <2>3. CASE o # None /\ exists' = exists /\ Store(SetEntry(c, d, p, name, None), d, d)
      <3>1. PICK b : b = SetEntry(c, d, p, name, None)
        OBVIOUS
      <3>2. Good(b)
        BY <1>8, <1>12, <3>1, SetEntryIsGood
      <3>3. Store(b, d, d)
        BY <2>3, <3>1
      <3> QED
        BY <1>7, <1>8, <2>3, <3>2, <3>3, StoreIsGood
    <2> QED
      BY <1>7, <2>1, <2>2, <2>3
  <1>15. QED
    BY <1>7, <1>8, <1>14 DEF IInv, Stored, StoredOK

LEMMA RenameKeeps ==
    ASSUME IInv, ecall_fs_rename
    PROVE  IInv'
PROOF
  <1>1. PICK c0 : c0 = cache
    OBVIOUS
  <1>2. PICK i, j : i = c0.from /\ j = c0.at
    OBVIOUS
  <1>3. PICK d, e, g : d = c0.dentry[i].uuid /\ e = c0.dentry[j].uuid /\ g = Get(c0, i)
    OBVIOUS
  <1>4. PICK h : h = IF i = j THEN g ELSE Get(g, j)
    OBVIOUS
  <1>5. PICK p, q : p = metadata_get_dentry(h, d) /\ q = metadata_get_dentry(h, e)
    OBVIOUS
  <1>6. PICK name \in Names, name2 \in Names :
            LET o == Entries(h, d)[name]
                c == dentry_delete_child(dentry_delete_child(h, p, name), q, name2)
            IN /\ InDir(c0, i) /\ InDir(c0, j) /\ g.at # NoDentry /\ h.at # NoDentry
               /\ IF o = None THEN cache' = Done(c) /\ UNCHANGED <<stored, events>>
                  ELSE Store(SetEntry(SetEntry(c, d, p, name, None), e, q, name2, o), d, e)
               /\ UNCHANGED <<exists, used>>
    BY <1>1, <1>2, <1>3, <1>4, <1>5 DEF ecall_fs_rename
  <1>7. PICK o : o = Entries(h, d)[name]
    OBVIOUS
  <1>8. PICK a : a = dentry_delete_child(h, p, name)
    OBVIOUS
  <1>9. PICK c : c = dentry_delete_child(a, q, name2)
    OBVIOUS
  <1>10. /\ InDir(c0, i) /\ InDir(c0, j) /\ g.at # NoDentry /\ h.at # NoDentry
         /\ \/ o = None /\ cache' = Done(c) /\ UNCHANGED <<stored, events>>
            \/ Store(SetEntry(SetEntry(c, d, p, name, None), e, q, name2, o), d, e)
         /\ UNCHANGED <<exists, used>>
    BY <1>6, <1>7, <1>8, <1>9
  <1>11. /\ Good(c0) /\ i \in Live(c0) /\ j \in Live(c0) /\ StoredOK /\ events \in 0 .. MaxEvents
         /\ d \in Dirs /\ e \in Dirs /\ d \in Objects /\ e \in Objects
    BY <1>1, <1>3, <1>10 DEF IInv, InDir, Objects
  <1>12. Revalidated(g, c0, i)
    BY <1>3, <1>11, RevalidateIsGood DEF Get
  <1>13. /\ Good(g) /\ i \in Live(g) /\ j \in Live(g) /\ g.dentry[i].meta
         /\ d = g.dentry[i].uuid /\ e = g.dentry[j].uuid
    BY <1>3, <1>10, <1>11, <1>12 DEF Revalidated, SameShape
  <1>14. /\ Good(h) /\ i \in Live(h) /\ j \in Live(h) /\ h.dentry[i].meta /\ h.dentry[j].meta
         /\ d = h.dentry[i].uuid /\ e = h.dentry[j].uuid
    <2>1. CASE i = j
      BY <1>4, <1>13, <2>1
    <2>2. CASE i # j
      <3>1. Revalidated(h, g, j)
        BY <1>4, <1>11, <1>13, <2>2, RevalidateIsGood DEF Get
      <3> QED
        BY <1>10, <1>13, <3>1 DEF Revalidated, SameShape
    <2> QED
      BY <2>1, <2>2
  <1>15. p \in Ids /\ q \in Ids
    BY <1>5, <1>14, HeadOfList
  <1>16. Good(a) /\ Clear(a, p, name)
    BY <1>8, <1>14, <1>15, DeleteChildIsGood
  <1>17. Good(c) /\ Clear(c, q, name2) /\ Clear(c, p, name)
    BY <1>9, <1>15, <1>16, DeleteChildIsGood, IdsFacts
  <1>18. o \in Objects \union {None}
    BY <1>7, <1>11, <1>14 DEF Good, Cache, MetaObject, Entries
  <1>19. /\ Stored(cache') /\ stored' \in [Dirs -> [Names -> Objects \union {None}]]
         /\ events' \in 0 .. MaxEvents
    <2>1. CASE o = None /\ cache' = Done(c) /\ UNCHANGED <<stored, events>>
      <3>1. Good(Done(c)) /\ Done(c).at = NoDentry
        BY <1>17, DoneIsGood
      <3> QED
        BY <1>11, <2>1, <3>1 DEF StoredOK, Stored
    <2>2. CASE Store(SetEntry(SetEntry(c, d, p, name, None), e, q, name2, o), d, e)
      <3>1. PICK f : f = SetEntry(c, d, p, name, None)
        OBVIOUS
      <3>2. Good(f) /\ f.dentry = c.dentry /\ c.missed \subseteq f.missed
        BY <1>11, <1>17, <3>1, SetEntryIsGood
      <3>3. SameShape(f, c)
        BY <3>2 DEF SameShape, Live
      <3>4. Clear(f, q, name2)
        BY <1>17, <3>2, <3>3, ClearKept
      <3>5. PICK b : b = SetEntry(f, e, q, name2, o)
        OBVIOUS
      <3>6. Good(b)
        BY <1>11, <1>18, <3>2, <3>4, <3>5, SetEntryIsGood
      <3>7. Store(b, d, e)
        BY <2>2, <3>1, <3>5
      <3> QED
        BY <1>11, <3>6, <3>7, StoreIsGood
    <2> QED
      BY <1>10, <2>1, <2>2
  <1>20. QED
    BY <1>10, <1>19 DEF IInv, Stored, StoredOK

LEMMA OthersKeep ==
    ASSUME IInv, Others
    PROVE  IInv'
PROOF
  <1>1. PICK d \in Dirs, e \in Dirs, n \in Names, m \in Names :
            \/ \E o \in Objects : OtherCreate(d, n, o)
            \/ OtherRemove(d, n) \/ OtherLink(d, n, e, m) \/ OtherRename(d, n, e, m)
    BY DEF Others
  <1>2. StoredOK /\ exists \subseteq used /\ used \subseteq Objects /\ events \in 0 .. MaxEvents
    BY DEF IInv
  <1>3. events' \in 0 .. MaxEvents
    BY <1>2, EventBound DEF Others
  <1>4. ASSUME NEW ds, Wrote(ds), ds \subseteq Dirs
        PROVE  Good(cache') /\ cache'.at \in Live(cache') \union {NoDentry}
    <2>1. PICK c : c = cache
      OBVIOUS
    <2>2. PICK N : N = {x \in ds : c.mem[x].loaded}
      OBVIOUS
    <2>3. PICK b : b = [c EXCEPT !.newer = @ \union N]
      OBVIOUS
    <2>4. cache' = b
      BY <1>4, <2>1, <2>2, <2>3 DEF Wrote
    <2>5. Good(c) /\ c \in Cache /\ c.at \in Live(c) \union {NoDentry} /\ N \subseteq Objects
      BY <1>4, <2>1, <2>2 DEF IInv, Good, Objects
    <2>6. /\ b \in Cache /\ b.dentry = c.dentry /\ b.mem = c.mem /\ b.missed = c.missed
          /\ b.aliases = c.aliases /\ b.at = c.at
      BY <2>3, <2>5 DEF Cache
    <2>7. Good(b) /\ Live(b) = Live(c)
      BY <2>5, <2>6, SameDentries
    <2> QED
      BY <2>4, <2>5, <2>6, <2>7
  <1>5. /\ StoredOK' /\ exists' \subseteq used' /\ used' \subseteq Objects
        /\ Good(cache') /\ cache'.at \in Live(cache') \union {NoDentry}
    <2>1. ASSUME NEW o \in Objects, OtherCreate(d, n, o)
          PROVE  /\ StoredOK' /\ exists' \subseteq used' /\ used' \subseteq Objects
                 /\ Good(cache') /\ cache'.at \in Live(cache') \union {NoDentry}
      BY <1>2, <1>4, <2>1 DEF OtherCreate, StoredOK
    <2>2. CASE OtherRemove(d, n)
      BY <1>2, <1>4, <2>2 DEF OtherRemove, StoredOK
    <2>3. CASE OtherLink(d, n, e, m)
      <3>1. stored[d][n] \in Objects
        BY <2>3 DEF OtherLink, Objects
      <3> QED
        BY <1>2, <1>4, <2>3, <3>1 DEF OtherLink, StoredOK
    <2>4. CASE OtherRename(d, n, e, m)
      <3>1. stored[d][n] \in Objects \union {None}
        BY <1>2 DEF StoredOK
      <3>2. StoredOK'
        <4>1. PICK v : v = stored[d][n]
          OBVIOUS
        <4>2. PICK s : s = [stored EXCEPT ![d][n] = None]
          OBVIOUS
        <4>3. s \in [Dirs -> [Names -> Objects \union {None}]]
          BY <1>2, <4>2 DEF StoredOK
        <4>4. stored' = [s EXCEPT ![e][m] = v]
          BY <2>4, <4>1, <4>2 DEF OtherRename
        <4> QED
          BY <3>1, <4>1, <4>3, <4>4 DEF StoredOK
      <3> QED
        BY <1>2, <1>4, <2>4, <3>2 DEF OtherRename
    <2> QED
      BY <1>1, <2>1, <2>2, <2>3, <2>4
  <1>6. QED
    BY <1>3, <1>5 DEF IInv

LEMMA NextKeepsIInv == IInv /\ [Next]_vars => IInv'
PROOF
  <1> SUFFICES ASSUME IInv, [Next]_vars PROVE IInv'
    OBVIOUS
  <1>1. CASE UNCHANGED vars
    BY <1>1 DEF IInv, vars, StoredOK
  <1>2. CASE Next
    BY <1>2, BeginKeeps, WalkKeeps, StatKeeps, GiveUpKeeps, CreateKeeps, RemoveKeeps,
       RenameFromKeeps, RenameKeeps, ShrinkKeeps, OthersKeep DEF Next
  <1>3. QED
    BY <1>1, <1>2

LEMMA CacheStaysGood == Spec => []IInv
BY InitIInv, NextKeepsIInv, PTL DEF Spec
-----------------------------------------------------------------------------
LEMMA CountBound ==
    ASSUME NEW c, Good(c), NEW i \in Live(c)
    PROVE  c.dentry[i].count \in 1 .. MaxDentries
PROOF
  <1>1. i \in Ids /\ i \notin Children(c, i)
    BY LiveSubset, IdsFacts DEF Good, Tree, Linked, Children
  <1>2. IsFiniteSet(Ids) /\ Cardinality(Ids) = MaxDentries
    BY BoundsAssumption, FS_Interval DEF Ids
  <1>3. IsFiniteSet(Ids \ {i}) /\ Cardinality(Ids \ {i}) = MaxDentries - 1
    BY <1>1, <1>2, FS_RemoveElement
  <1>4. Children(c, i) \in SUBSET (Ids \ {i})
    BY <1>1, LiveSubset DEF Children
  <1>5. Cardinality(Children(c, i)) <= MaxDentries - 1
    BY <1>3, <1>4, FS_Subset
  <1>6. QED
    BY <1>5, BoundsAssumption, ChildrenFinite DEF Good, Tree, Counted

(* The directories in the datastore, the dentries and their counts have    *)
(* their types; a count never exceeds the dentries there are, and only     *)
(* dentries that are alive are recorded as missed.                         *)
THEOREM TypeCorrect == Spec => []TypeOK
PROOF
  <1>1. IInv => TypeOK
    <2> SUFFICES ASSUME IInv PROVE TypeOK
      OBVIOUS
    <2>1. PICK c : c = cache
      OBVIOUS
    <2>2. Good(c) /\ c \in Cache
      BY <2>1 DEF IInv, Good
    <2>3. c.newer \subseteq Objects /\ c.missed \subseteq Live(c)
      BY <2>2 DEF Good, Agreeing, Cache
    <2>4. \A i \in Live(c) : /\ c.dentry[i].uuid \in Objects
                             /\ c.dentry[i].parent \in Ids \union {NoDentry}
                             /\ c.dentry[i].count \in 1 .. MaxDentries
      BY <2>2, DentryFields, CountBound
    <2> QED
      BY <2>1, <2>3, <2>4 DEF IInv, StoredOK, TypeOK
  <1>2. QED
    BY <1>1, CacheStaysGood, PTL

(* Whatever is walked, created, removed and renamed, whichever objects the *)
(* LRU list drops and whatever other clients write: no dentry refers to    *)
(* one that d_free freed, d_count is one more than the children, and an    *)
(* object's list holds exactly the dentries that have it, each once.       *)
THEOREM TreeStaysSound == Spec => []TreeIsSound
PROOF
  <1>1. IInv => TreeIsSound
    <2> SUFFICES ASSUME IInv PROVE TreeIsSound
      OBVIOUS
    <2>1. PICK c : c = cache
      OBVIOUS
    <2>2. Good(c)
      BY <2>1 DEF IInv
    <2>3. ASSUME NEW i \in Live(c)
          PROVE  /\ c.dentry[i].parent \in Live(c) \union {NoDentry}
                 /\ c.dentry[i].count = 1 + Cardinality(Children(c, i))
                 /\ c.dentry[i].meta => c.mem[c.dentry[i].uuid].loaded
      BY <2>2 DEF Good, Tree, Linked, Counted, Loaded
    <2>4. ASSUME NEW o \in Objects
          PROVE  /\ IsInjective(c.aliases[o])
                 /\ Range(c.aliases[o]) = {i \in Live(c) : c.dentry[i].uuid = o /\ c.dentry[i].meta}
      BY <2>2 DEF Good, Listed, WithMeta
    <2> QED
      BY <2>1, <2>3, <2>4 DEF TreeIsSound
  <1>2. QED
    BY <1>1, CacheStaysGood, PTL

(* A dentry without DENTRY_PARENT_CHANGED that a walk would follow without *)
(* a look at the dirnode is the entry of its parent's dirnode in memory,   *)
(* in every behaviour, but for the dentries that were not told because     *)
(* has_changed was not set or their directory has another dentry.          *)
THEOREM TrustedChildrenAgree == Spec => []ToldChildrenAgree
PROOF
  <1>1. IInv => ToldChildrenAgree
    BY DEF IInv, Good, Agreeing, Agrees, ToldChildrenAgree
  <1>2. QED
    BY <1>1, CacheStaysGood, PTL
=============================================================================

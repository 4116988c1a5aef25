--------------------------- MODULE Dirnode_proofs ---------------------------
(***************************************************************************)
(* Proofs about Dirnode for every set of names, length of their records,   *)
(* capacity of the buckets and number of operations: the counters that     *)
(* dirnode.c and bucket.c keep by hand are right, what was stored reads    *)
(* back, a reader never gets a mixture of buckets, and the files implement *)
(* the abstract Directory, one step of it (or none) for each of theirs.    *)
(***************************************************************************)
EXTENDS Dirnode, FiniteSetTheorems, SequenceTheorems, TLAPS

DirnodeType == [bucket_list : Seq(Bucket), dir_entry_count : Nat, dir_entry_buflen : Nat,
                last_failed_lookup : Names \union {NoName}]
MainType    == [dir_entry_count : Nat, dir_entry_buflen : Nat, records : Seq(Record),
                bucket0 : SUBSET Names]
FileType    == [dir_entries : SUBSET Names, mac : Nat]

(* BucketsShape of any dirnode.                                            *)
Shape(d) ==
    LET b == d.bucket_list IN
    /\ d \in DirnodeType /\ Len(b) >= 1
    /\ \A i \in 1 .. Len(b) : /\ b[i].num_items = Cardinality(b[i].dir_entries)
                              /\ b[i].num_items <= Capacity
                              /\ b[i].size_bytes = Bytes(b[i].dir_entries)
    /\ \A i, j \in 1 .. Len(b) : i # j => /\ b[i].dir_entries \intersect b[j].dir_entries = {}
                                          /\ b[i].uuid # b[j].uuid
    /\ d.dir_entry_count = Cardinality(Entries(d))
    /\ d.dir_entry_buflen = Bytes(Entries(d))

(* UUIDs and MACs were generated before.                                   *)
Ids(list, n) == \A i \in 1 .. Len(list) : list[i].uuid <= n /\ list[i].mac <= n

(* The file of every bucket that is not dirty is the one of its MAC.       *)
FileOf(b) == [dir_entries |-> b.dir_entries, mac |-> b.mac]

OnFile(b, fs) == b.uuid \in DOMAIN fs /\ fs[b.uuid] = FileOf(b)

CleanOnFile(d, fs) ==
    \A i \in 2 .. Len(d.bucket_list) :
        d.bucket_list[i].is_dirty = FALSE => OnFile(d.bucket_list[i], fs)

(* Loads and dirnode_load, of any main file and any bucket files.          *)
LoadsOf(m, fs) ==
    /\ m # Torn
    /\ \A i \in 2 .. Len(m.records) :
          /\ m.records[i].uuid \in DOMAIN fs /\ fs[m.records[i].uuid] # Torn
          /\ fs[m.records[i].uuid].mac = m.records[i].mac

LoadedBucket(m, fs, i) ==
    [uuid |-> m.records[i].uuid,
     dir_entries |-> IF i = 1 THEN m.bucket0 ELSE fs[m.records[i].uuid].dir_entries,
     num_items |-> m.records[i].num_items, size_bytes |-> m.records[i].size_bytes,
     is_dirty |-> FALSE, mac |-> m.records[i].mac]

LoadOf(m, fs) ==
    [bucket_list |-> [i \in DOMAIN m.records |-> LoadedBucket(m, fs, i)],
     dir_entry_count |-> m.dir_entry_count, dir_entry_buflen |-> m.dir_entry_buflen,
     last_failed_lookup |-> NoName]

ReadOf(m, fs) == Entries(LoadOf(m, fs))

Types ==
    /\ is_invalid \in BOOLEAN /\ pc \in {"idle", "delete"}
    /\ \/ main = Torn
       \/ main \in MainType /\ Len(main.records) >= 1 /\ Ids(main.records, next_id)
    /\ \A id \in DOMAIN files : id \in Nat /\ (files[id] = Torn \/ files[id] \in FileType)
    /\ next_id \in 1 .. MaxId
    /\ committed \subseteq Names

Memory ==
    /\ Shape(dirnode) /\ Ids(dirnode.bucket_list, next_id)
    /\ FailedLookupIsMissing
    /\ ~is_invalid => CleanOnFile(dirnode, files)

Storage ==
    /\ LoadsOf(main, files) => /\ Shape(LoadOf(main, files))
                               /\ ReadOf(main, files) \in {committed, Entries(dirnode)}
    /\ Ready => /\ LoadsOf(main, files) /\ ReadOf(main, files) = Entries(dirnode)
                /\ committed = Entries(dirnode)
    /\ pc = "delete" => /\ ~is_invalid /\ committed # Entries(dirnode)
                        /\ LoadsOf(main, files) => ReadOf(main, files) = committed

IInv == Types /\ Memory /\ Storage
-----------------------------------------------------------------------------
(* The lengths of records.                                                 *)

Cells(names) == UNION {{name} \X (1 .. RecLen[name]) : name \in names}

LEMMA CellsMember ==
    ASSUME NEW names, NEW c
    PROVE  c \in Cells(names) <=> \E n \in names : c \in {n} \X (1 .. RecLen[n])
BY DEF Cells

LEMMA CellsOfOne ==
    ASSUME NEW n \in Names
    PROVE  /\ IsFiniteSet({n} \X (1 .. RecLen[n]))
           /\ Cardinality({n} \X (1 .. RecLen[n])) = RecLen[n]
<1>1. RecLen[n] \in Nat
  BY RecLenAssumption
<1>2. IsFiniteSet(1 .. RecLen[n]) /\ Cardinality(1 .. RecLen[n]) = RecLen[n]
  BY <1>1, FS_Interval
<1>3. IsFiniteSet({n}) /\ Cardinality({n}) = 1
  BY FS_Singleton
<1>4. IsFiniteSet({n} \X (1 .. RecLen[n])) /\ Cardinality({n} \X (1 .. RecLen[n])) = 1 * RecLen[n]
  BY <1>2, <1>3, FS_Product
<1> QED
  BY <1>1, <1>4

LEMMA CellsFinite ==
    ASSUME NEW names \in SUBSET Names
    PROVE  IsFiniteSet(Cells(names))
<1> DEFINE rows == {{name} \X (1 .. RecLen[name]) : name \in names}
<1>1. IsFiniteSet(names)
  BY FS_Subset, NamesAssumption
<1>2. IsFiniteSet(rows)
  <2> DEFINE f == [name \in names |-> {name} \X (1 .. RecLen[name])]
  <2>1. f \in Surjection(names, rows)
    BY DEF Surjection
  <2> QED
    BY <1>1, <2>1, FS_Surjection
<1>3. \A r \in rows : IsFiniteSet(r)
  BY CellsOfOne
<1> QED
  BY <1>2, <1>3, FS_UNION DEF Cells

LEMMA BytesNat ==
    ASSUME NEW names \in SUBSET Names
    PROVE  Bytes(names) \in Nat /\ Bytes(names) = Cardinality(Cells(names))
BY CellsFinite, FS_CardinalityType DEF Bytes, Cells

LEMMA BytesOfNone == Bytes({}) = 0
<1>1. Cells({}) = {}
  BY DEF Cells
<1> QED
  BY <1>1, BytesNat, FS_EmptySet

LEMMA BytesAdd ==
    ASSUME NEW names \in SUBSET Names, NEW n \in Names \ names
    PROVE  Bytes(names \union {n}) = Bytes(names) + RecLen[n]
<1> DEFINE one == {n} \X (1 .. RecLen[n])
<1>1. Cells(names \union {n}) = Cells(names) \union one
  BY CellsMember
<1>2. Cells(names) \intersect one = {}
  BY CellsMember
<1>3. /\ IsFiniteSet(Cells(names)) /\ IsFiniteSet(one) /\ Cardinality(one) = RecLen[n]
  BY CellsFinite, CellsOfOne
<1>4. Cardinality(Cells(names) \union one) = Cardinality(Cells(names)) + Cardinality(one) - 0
  BY <1>2, <1>3, FS_Union, FS_EmptySet
<1>5. RecLen[n] \in Nat /\ names \union {n} \in SUBSET Names
  BY RecLenAssumption
<1>6. Bytes(names \union {n}) = Cardinality(Cells(names)) + RecLen[n] - 0
  BY <1>1, <1>3, <1>4, <1>5, BytesNat
<1> QED
  BY <1>5, <1>6, BytesNat

LEMMA BytesRemove ==
    ASSUME NEW names \in SUBSET Names, NEW n \in names
    PROVE  Bytes(names \ {n}) = Bytes(names) - RecLen[n] /\ RecLen[n] \in Nat
<1>1. (names \ {n}) \union {n} = names
  OBVIOUS
<1>2. Bytes(names) = Bytes(names \ {n}) + RecLen[n]
  <2>1. names \ {n} \in SUBSET Names /\ n \in Names \ (names \ {n})
    OBVIOUS
  <2> QED
    BY <1>1, <2>1, BytesAdd
<1> QED
  BY <1>2, BytesNat, RecLenAssumption

LEMMA NamesFinite ==
    ASSUME NEW s \in SUBSET Names
    PROVE  IsFiniteSet(s) /\ Cardinality(s) \in Nat
BY FS_Subset, FS_CardinalityType, NamesAssumption
-----------------------------------------------------------------------------
(* What the operations of dirnode.c do to the list of buckets.             *)

LEMMA EntriesMember ==
    ASSUME NEW d, d.bucket_list \in Seq(Bucket), NEW x
    PROVE  x \in Entries(d) <=> \E i \in 1 .. Len(d.bucket_list) : x \in d.bucket_list[i].dir_entries
BY DEF Entries, Indices

LEMMA EntriesType ==
    ASSUME NEW d, d.bucket_list \in Seq(Bucket)
    PROVE  Entries(d) \in SUBSET Names
<1>1. \A i \in 1 .. Len(d.bucket_list) : d.bucket_list[i] \in Bucket
  OBVIOUS
<1> QED
  BY <1>1, EntriesMember DEF Bucket


(* A dirnode with one bucket replaced.                                     *)
Update(d, i, c, count, buflen) ==
    [d EXCEPT !.bucket_list[i] = c, !.dir_entry_count = count, !.dir_entry_buflen = buflen,
              !.last_failed_lookup = NoName]

LEMMA UpdateFields ==
    ASSUME NEW d \in DirnodeType, NEW i \in 1 .. Len(d.bucket_list), NEW c \in Bucket,
           NEW count \in Nat, NEW buflen \in Nat,
           NEW e, e = Update(d, i, c, count, buflen)
    PROVE  /\ e \in DirnodeType /\ Len(e.bucket_list) = Len(d.bucket_list)
           /\ \A j \in 1 .. Len(d.bucket_list) : j # i => e.bucket_list[j] = d.bucket_list[j]
           /\ e.bucket_list[i] = c
           /\ e.dir_entry_count = count /\ e.dir_entry_buflen = buflen
           /\ e.last_failed_lookup = NoName
<1>1. d.bucket_list \in Seq(Bucket)
  BY DEF DirnodeType
<1>2. /\ e.bucket_list = [d.bucket_list EXCEPT ![i] = c]
      /\ e.dir_entry_count = count /\ e.dir_entry_buflen = buflen
      /\ e.last_failed_lookup = NoName
  BY DEF Update, DirnodeType
<1>3. [d.bucket_list EXCEPT ![i] = c] \in Seq(Bucket)
  BY <1>1
<1>4. e \in DirnodeType
  BY <1>3 DEF Update, DirnodeType
<1>5. Len(e.bucket_list) = Len(d.bucket_list)
  BY <1>1, <1>2
<1>6. /\ e.bucket_list[i] = c
      /\ \A j \in 1 .. Len(d.bucket_list) : j # i => e.bucket_list[j] = d.bucket_list[j]
  BY <1>1, <1>2
<1> QED
  BY <1>2, <1>4, <1>5, <1>6

(* A bucket that may take the place of another: the entries of the dirnode *)
(* change as those of the bucket do.                                       *)
Fits(d, i, c, all) ==
    /\ c.num_items = Cardinality(c.dir_entries) /\ c.num_items <= Capacity
    /\ c.size_bytes = Bytes(c.dir_entries) /\ c.uuid = d.bucket_list[i].uuid
    /\ \A j \in 1 .. Len(d.bucket_list) :
          j # i => d.bucket_list[j].dir_entries \intersect c.dir_entries = {}
    /\ \A x : x \in all <=> \/ x \in c.dir_entries
                            \/ x \in Entries(d) /\ x \notin d.bucket_list[i].dir_entries

LEMMA UpdateShape ==
    ASSUME NEW d, Shape(d), NEW i \in 1 .. Len(d.bucket_list), NEW c \in Bucket,
           NEW count \in Nat, NEW buflen \in Nat, NEW all,
           Fits(d, i, c, all), count = Cardinality(all), buflen = Bytes(all),
           NEW e, e = Update(d, i, c, count, buflen)
    PROVE  Shape(e) /\ Entries(e) = all
<1>1. d \in DirnodeType /\ d.bucket_list \in Seq(Bucket)
  BY DEF Shape, DirnodeType
<1>2. /\ e \in DirnodeType /\ e.bucket_list \in Seq(Bucket)
      /\ Len(e.bucket_list) = Len(d.bucket_list)
      /\ \A j \in 1 .. Len(d.bucket_list) : j # i => e.bucket_list[j] = d.bucket_list[j]
      /\ e.bucket_list[i] = c
      /\ e.dir_entry_count = count /\ e.dir_entry_buflen = buflen
  BY <1>1, UpdateFields DEF DirnodeType
<1>3. Entries(e) = all
  <2>1. ASSUME NEW x, x \in Entries(e)
        PROVE  x \in all
    <3>1. PICK j \in 1 .. Len(d.bucket_list) : x \in e.bucket_list[j].dir_entries
      BY <1>2, <2>1, EntriesMember
    <3>2. CASE j = i
      BY <1>2, <3>1, <3>2 DEF Fits
    <3>3. CASE j # i
      <4>1. x \in d.bucket_list[j].dir_entries
        BY <1>2, <3>1, <3>3
      <4>2. x \notin d.bucket_list[i].dir_entries
        BY <3>3, <4>1 DEF Shape
      <4>3. x \in Entries(d)
        BY <1>1, <4>1, EntriesMember
      <4> QED
        BY <4>2, <4>3 DEF Fits
    <3> QED
      BY <3>2, <3>3
  <2>2. ASSUME NEW x, x \in all
        PROVE  x \in Entries(e)
    <3>1. CASE x \in c.dir_entries
      BY <1>2, <3>1, EntriesMember
    <3>2. CASE x \in Entries(d) /\ x \notin d.bucket_list[i].dir_entries
      <4>1. PICK j \in 1 .. Len(d.bucket_list) : x \in d.bucket_list[j].dir_entries
        BY <1>1, <3>2, EntriesMember
      <4>2. e.bucket_list[j] = d.bucket_list[j]
        BY <1>2, <3>2, <4>1
      <4> QED
        BY <1>2, <4>1, <4>2, EntriesMember
    <3> QED
      BY <2>2, <3>1, <3>2 DEF Fits
  <2> QED
    BY <2>1, <2>2
<1>4. Shape(e)
  <2>1. \A j \in 1 .. Len(e.bucket_list) :
           /\ e.bucket_list[j].num_items = Cardinality(e.bucket_list[j].dir_entries)
           /\ e.bucket_list[j].num_items <= Capacity
           /\ e.bucket_list[j].size_bytes = Bytes(e.bucket_list[j].dir_entries)
    BY <1>2 DEF Shape, Fits
  <2>2. \A j, k \in 1 .. Len(e.bucket_list) : j # k =>
           /\ e.bucket_list[j].dir_entries \intersect e.bucket_list[k].dir_entries = {}
           /\ e.bucket_list[j].uuid # e.bucket_list[k].uuid
    BY <1>2 DEF Shape, Fits
  <2>3. Len(e.bucket_list) >= 1
    BY <1>2 DEF Shape, Fits
  <2> QED
    BY <1>2, <1>3, <2>1, <2>2, <2>3 DEF Shape
<1> QED
  BY <1>3, <1>4

(* A dirnode whose clean buckets are those of another.                     *)
Keeps(d, e) ==
    \A i \in 1 .. Len(e.bucket_list) :
        e.bucket_list[i].is_dirty = FALSE
        => i \in 1 .. Len(d.bucket_list) /\ e.bucket_list[i] = d.bucket_list[i]

Extended(b, name, c) ==
    /\ c \in Bucket /\ c.uuid = b.uuid /\ c.dir_entries = b.dir_entries \union {name}
    /\ c.num_items = b.num_items + 1 /\ c.size_bytes = b.size_bytes + RecLen[name]
    /\ c.is_dirty = TRUE /\ c.mac = b.mac

LEMMA BucketAdd ==
    ASSUME NEW b \in Bucket, NEW name \in Names, NEW c, c = SetDirty(bucket_add_direntry(b, name))
    PROVE  Extended(b, name, c)
<1> DEFINE s == b.dir_entries \union {name}
           n == b.num_items + 1
           m == b.size_bytes + RecLen[name]
<1>1. s \in SUBSET Names /\ n \in Nat /\ m \in Nat
  BY RecLenAssumption DEF Bucket
<1>2. bucket_add_direntry(b, name) = [b EXCEPT !.dir_entries = s, !.num_items = n, !.size_bytes = m]
  BY DEF bucket_add_direntry, Bucket
<1> HIDE DEF s, n, m
<1>3. /\ c \in Bucket /\ c.uuid = b.uuid /\ c.dir_entries = s /\ c.num_items = n
      /\ c.size_bytes = m /\ c.is_dirty = TRUE /\ c.mac = b.mac
  BY <1>1, <1>2 DEF SetDirty, Bucket
<1> QED
  BY <1>3 DEF Extended, s, n, m

LEMMA AddToShape ==
    ASSUME NEW d, Shape(d), NEW i \in 1 .. Len(d.bucket_list), NEW name \in Names \ Entries(d),
           d.bucket_list[i].num_items < Capacity, NEW n \in Nat, Ids(d.bucket_list, n),
           NEW e, e = AddTo(d, i, name)
    PROVE  /\ Shape(e) /\ Ids(e.bucket_list, n) /\ Len(e.bucket_list) = Len(d.bucket_list)
           /\ Entries(e) = Entries(d) \union {name} /\ e.last_failed_lookup = NoName
           /\ e.bucket_list[i].is_dirty
           /\ \A j \in 1 .. Len(d.bucket_list) : j # i => e.bucket_list[j] = d.bucket_list[j]
<1> DEFINE b == d.bucket_list[i]
           c == SetDirty(bucket_add_direntry(b, name))
           count  == d.dir_entry_count + 1
           buflen == d.dir_entry_buflen + RecLen[name]
<1>1. d \in DirnodeType /\ d.bucket_list \in Seq(Bucket) /\ b \in Bucket /\ RecLen[name] \in Nat
  BY RecLenAssumption DEF DirnodeType, Shape
<1>2. /\ b.uuid \in Nat /\ b.dir_entries \in SUBSET Names /\ b.num_items \in Nat
      /\ b.size_bytes \in Nat /\ b.mac \in Nat
  BY <1>1 DEF Bucket
<1>3. count \in Nat /\ buflen \in Nat
  BY <1>1 DEF DirnodeType
<1> c = SetDirty(bucket_add_direntry(b, name))
  OBVIOUS
<1> HIDE DEF c
<1>4. /\ c \in Bucket /\ c.uuid = b.uuid /\ c.dir_entries = b.dir_entries \union {name}
      /\ c.num_items = b.num_items + 1 /\ c.size_bytes = b.size_bytes + RecLen[name]
      /\ c.is_dirty = TRUE /\ c.mac = b.mac
  <2>1. Extended(b, name, c)
    BY <1>1, BucketAdd
  <2> QED
    BY <2>1 DEF Extended
<1>5. e = Update(d, i, c, count, buflen)
  BY <1>1 DEF AddTo, Update, DirnodeType
<1>6. name \notin b.dir_entries /\ Entries(d) \in SUBSET Names
  BY <1>1, EntriesMember, EntriesType
<1>7. /\ c.num_items = Cardinality(c.dir_entries) /\ c.num_items <= Capacity
      /\ c.size_bytes = Bytes(c.dir_entries) /\ c.uuid = d.bucket_list[i].uuid
  <2>1. b.num_items = Cardinality(b.dir_entries) /\ b.size_bytes = Bytes(b.dir_entries)
    BY DEF Shape
  <2>2. Cardinality(b.dir_entries \union {name}) = Cardinality(b.dir_entries) + 1
    BY <1>2, <1>6, NamesFinite, FS_AddElement
  <2>3. Bytes(b.dir_entries \union {name}) = Bytes(b.dir_entries) + RecLen[name]
    BY <1>2, <1>6, BytesAdd
  <2> QED
    BY <1>2, <1>4, <2>1, <2>2, <2>3, CapacityAssumption
<1>8. \A j \in 1 .. Len(d.bucket_list) :
         j # i => d.bucket_list[j].dir_entries \intersect c.dir_entries = {}
  BY <1>1, <1>4, EntriesMember DEF Shape
<1>9. /\ count = Cardinality(Entries(d) \union {name})
      /\ buflen = Bytes(Entries(d) \union {name})
  BY <1>6, NamesFinite, FS_AddElement, BytesAdd DEF Shape
<1>10. \A x : x \in Entries(d) \union {name} <=> \/ x \in c.dir_entries
                                                 \/ x \in Entries(d) /\ x \notin d.bucket_list[i].dir_entries
  <2>1. b.dir_entries \subseteq Entries(d)
    BY <1>1, EntriesMember
  <2>2. c.dir_entries = b.dir_entries \union {name}
    BY <1>4
  <2> QED
    BY <2>1, <2>2
<1> HIDE DEF count, buflen
<1>11. /\ Len(e.bucket_list) = Len(d.bucket_list)
       /\ \A j \in 1 .. Len(d.bucket_list) :
             j # i => e.bucket_list[j] = d.bucket_list[j]
       /\ e.bucket_list[i] = c
       /\ e.last_failed_lookup = NoName
  BY <1>1, <1>3, <1>4, <1>5, UpdateFields
<1>12. Fits(d, i, c, Entries(d) \union {name})
  BY <1>7, <1>8, <1>10 DEF Fits
<1>13. Shape(e) /\ Entries(e) = Entries(d) \union {name}
  <2> DEFINE all == Entries(d) \union {name}
  <2>1. Fits(d, i, c, all) /\ count = Cardinality(all) /\ buflen = Bytes(all) /\ c \in Bucket
    BY <1>4, <1>9, <1>12
  <2> HIDE DEF all
  <2>2. Shape(e) /\ Entries(e) = all
    BY <1>3, <1>5, <2>1, UpdateShape
  <2> QED
    BY <2>2 DEF all
<1>14. Ids(e.bucket_list, n)
  BY <1>4, <1>11 DEF Ids
<1> QED
  BY <1>4, <1>11, <1>13, <1>14

LEMMA LeastOne ==
    ASSUME NEW S \in SUBSET Nat, S # {}
    PROVE  \E i \in S : \A j \in S : i <= j
<1> DEFINE R == OpToRel(<, Nat)
<1>1. \A x, y \in Nat : <<x, y>> \in R <=> x < y
  BY DEF OpToRel
<1>2. IsWellFoundedOn(R, Nat)
  BY NatLessThanWellFounded
<1> HIDE DEF R
<1>3. PICK i \in S : \A j \in S : ~ (<<j, i>> \in R)
  BY <1>2, WFMin
<1>4. ASSUME NEW j \in S PROVE i <= j
  <2>1. i \in Nat /\ j \in Nat
    OBVIOUS
  <2>2. ~ (j < i)
    BY <1>1, <1>3, <2>1
  <2> QED
    BY <2>1, <2>2
<1> QED
  BY <1>4

LEMMA IdsLater ==
    ASSUME NEW n \in Nat, NEW list \in Seq(Bucket), Ids(list, n)
    PROVE  Ids(list, n + 1)
<1> SUFFICES ASSUME NEW i \in 1 .. Len(list)
             PROVE  list[i].uuid <= n + 1 /\ list[i].mac <= n + 1
  BY DEF Ids
<1>1. list[i] \in Bucket
  OBVIOUS
<1>2. list[i].uuid \in Nat /\ list[i].mac \in Nat
  BY <1>1 DEF Bucket
<1> QED
  BY <1>2 DEF Ids

LEMMA AvailableBucket ==
    ASSUME NEW d, Shape(d), NEW n \in Nat, Ids(d.bucket_list, n),
           NEW e, e = get_available_bucket(d, n + 1)
    PROVE  /\ Shape(e) /\ Ids(e.bucket_list, n + 1) /\ Entries(e) = Entries(d)
           /\ AvailableIndex(e) \in 1 .. Len(e.bucket_list)
           /\ e.bucket_list[AvailableIndex(e)].num_items < Capacity
           /\ \A i \in 1 .. Len(e.bucket_list) :
                 i # AvailableIndex(e) => i \in 1 .. Len(d.bucket_list) /\ e.bucket_list[i] = d.bucket_list[i]
<1>1. d \in DirnodeType /\ d.bucket_list \in Seq(Bucket) /\ Len(d.bucket_list) \in Nat
  BY DEF Shape, DirnodeType
<1>2. \A f : f.bucket_list \in Seq(Bucket) =>
         Available(f) = {i \in 1 .. Len(f.bucket_list) : f.bucket_list[i].num_items < Capacity}
  BY DEF Available, Indices
<1>3. CASE Available(d) # {}
  <2>1. e = d
    BY <1>3 DEF get_available_bucket
  <2>2. Available(d) \in SUBSET Nat
    BY <1>1, <1>2
  <2>3. AvailableIndex(d) \in Available(d)
    <3>1. \E i \in Available(d) : \A j \in Available(d) : i <= j
      BY <1>3, <2>2, LeastOne
    <3> QED
      BY <3>1 DEF AvailableIndex
  <2>4. Ids(d.bucket_list, n + 1)
    BY <1>1, IdsLater
  <2>5. AvailableIndex(d) \in 1 .. Len(d.bucket_list)
        /\ d.bucket_list[AvailableIndex(d)].num_items < Capacity
    BY <1>1, <1>2, <2>3
  <2> QED
    BY <2>1, <2>4, <2>5
<1>4. CASE Available(d) = {}
  <2> DEFINE new == bucket_create(n + 1)
             last == Len(d.bucket_list) + 1
  <2>1. /\ new \in Bucket /\ new.dir_entries = {} /\ new.num_items = 0 /\ new.size_bytes = 0
        /\ new.uuid = n + 1 /\ new.mac = 0
    BY DEF bucket_create, Bucket
  <2>2. /\ e \in DirnodeType /\ e.bucket_list = Append(d.bucket_list, new)
        /\ e.dir_entry_count = d.dir_entry_count /\ e.dir_entry_buflen = d.dir_entry_buflen
    <3>1. e = [d EXCEPT !.bucket_list = Append(d.bucket_list, new)]
      BY <1>4 DEF get_available_bucket
    <3>2. Append(d.bucket_list, new) \in Seq(Bucket)
      BY <1>1, <2>1
    <3> HIDE DEF new
    <3> QED
      BY <1>1, <3>1, <3>2 DEF DirnodeType
  <2> HIDE DEF new
  <2>3. /\ e.bucket_list \in Seq(Bucket) /\ Len(e.bucket_list) = last
        /\ e.bucket_list[last] = new
        /\ \A i \in 1 .. Len(d.bucket_list) : e.bucket_list[i] = d.bucket_list[i]
    <3>1. Len(Append(d.bucket_list, new)) = last
      BY <1>1, <2>1
    <3>2. Append(d.bucket_list, new)[last] = new
      BY <1>1, <2>1
    <3>3. \A i \in 1 .. Len(d.bucket_list) : Append(d.bucket_list, new)[i] = d.bucket_list[i]
      BY <1>1, <2>1
    <3>4. Append(d.bucket_list, new) \in Seq(Bucket)
      BY <1>1, <2>1
    <3> QED
      BY <2>2, <3>1, <3>2, <3>3, <3>4
  <2>4. Entries(e) = Entries(d)
    <3>1. \A x : x \in Entries(e) <=> x \in Entries(d)
      <4> SUFFICES ASSUME NEW x PROVE x \in Entries(e) <=> x \in Entries(d)
        OBVIOUS
      <4>1. x \in Entries(e) <=> \E i \in 1 .. last : x \in e.bucket_list[i].dir_entries
        BY <2>3, EntriesMember
      <4>2. x \in Entries(d) <=> \E i \in 1 .. Len(d.bucket_list) : x \in d.bucket_list[i].dir_entries
        BY <1>1, EntriesMember
      <4>3. \A i \in 1 .. last : i = last \/ i \in 1 .. Len(d.bucket_list)
        BY <1>1
      <4>4. \A i \in 1 .. Len(d.bucket_list) : i \in 1 .. last
        BY <1>1
      <4> QED
        BY <2>1, <2>3, <4>1, <4>2, <4>3, <4>4
    <3> QED
      BY <3>1
  <2>5. \A i \in 1 .. last : i = last \/ i \in 1 .. Len(d.bucket_list)
    BY <1>1
  <2>6. Shape(e)
    <3>1. \A i \in 1 .. Len(e.bucket_list) :
             /\ e.bucket_list[i].num_items = Cardinality(e.bucket_list[i].dir_entries)
             /\ e.bucket_list[i].num_items <= Capacity
             /\ e.bucket_list[i].size_bytes = Bytes(e.bucket_list[i].dir_entries)
      <4> SUFFICES ASSUME NEW i \in 1 .. last
                   PROVE  /\ e.bucket_list[i].num_items = Cardinality(e.bucket_list[i].dir_entries)
                          /\ e.bucket_list[i].num_items <= Capacity
                          /\ e.bucket_list[i].size_bytes = Bytes(e.bucket_list[i].dir_entries)
        BY <2>3
      <4>1. CASE i = last
        <5>1. e.bucket_list[i] = new
          BY <2>3, <4>1
        <5>2. Cardinality(new.dir_entries) = 0 /\ Bytes(new.dir_entries) = 0
          <6>1. new.dir_entries = {}
            BY <2>1
          <6> HIDE DEF new
          <6> QED
            BY <6>1, FS_EmptySet, BytesOfNone, Zenon
        <5>3. new.num_items = 0 /\ new.size_bytes = 0 /\ 0 <= Capacity
          BY <2>1, CapacityAssumption
        <5> QED
          BY <5>1, <5>2, <5>3
      <4>2. CASE i \in 1 .. Len(d.bucket_list)
        BY <2>3, <4>2 DEF Shape
      <4> QED
        BY <2>5, <4>1, <4>2
    <3>2. \A i, j \in 1 .. Len(e.bucket_list) : i # j =>
             /\ e.bucket_list[i].dir_entries \intersect e.bucket_list[j].dir_entries = {}
             /\ e.bucket_list[i].uuid # e.bucket_list[j].uuid
      <4>1. \A i \in 1 .. Len(d.bucket_list) : d.bucket_list[i].uuid # n + 1
        <5> SUFFICES ASSUME NEW i \in 1 .. Len(d.bucket_list) PROVE d.bucket_list[i].uuid # n + 1
          OBVIOUS
        <5>1. d.bucket_list[i] \in Bucket
          BY <1>1
        <5> QED
          BY <5>1 DEF Ids, Bucket
      <4> SUFFICES ASSUME NEW i \in 1 .. last, NEW j \in 1 .. last, i # j
                   PROVE  /\ e.bucket_list[i].dir_entries \intersect e.bucket_list[j].dir_entries = {}
                          /\ e.bucket_list[i].uuid # e.bucket_list[j].uuid
        BY <2>3
      <4>2. CASE i \in 1 .. Len(d.bucket_list) /\ j \in 1 .. Len(d.bucket_list)
        BY <2>3, <4>2 DEF Shape
      <4>3. CASE i = last /\ j \in 1 .. Len(d.bucket_list)
        BY <2>1, <2>3, <4>1, <4>3
      <4>4. CASE j = last /\ i \in 1 .. Len(d.bucket_list)
        BY <2>1, <2>3, <4>1, <4>4
      <4> QED
        BY <2>5, <4>2, <4>3, <4>4
    <3> QED
      BY <1>1, <2>2, <2>3, <2>4, <3>1, <3>2 DEF Shape
  <2>7. AvailableIndex(e) = last
    <3>1. \A i \in 1 .. Len(d.bucket_list) : ~(d.bucket_list[i].num_items < Capacity)
      BY <1>1, <1>2, <1>4
    <3>2. Available(e) = {i \in 1 .. last : e.bucket_list[i].num_items < Capacity}
      BY <1>2, <2>3
    <3>3. Available(e) = {last}
      <4>1. \A i \in 1 .. Len(d.bucket_list) : ~(e.bucket_list[i].num_items < Capacity)
        BY <2>3, <3>1
      <4>2. e.bucket_list[last].num_items < Capacity
        BY <2>1, <2>3, CapacityAssumption
      <4>3. \A i \in 1 .. last : i \in 1 .. Len(d.bucket_list) \/ i = last
        BY <2>5
      <4>4. last \in 1 .. last
        BY <1>1
      <4> HIDE DEF last
      <4> QED
        BY <3>2, <4>1, <4>2, <4>3, <4>4
    <3>4. last \in Int
      BY <1>1
    <3> HIDE DEF last
    <3> QED
      BY <3>3, <3>4 DEF AvailableIndex
  <2>8. Ids(e.bucket_list, n + 1)
    <3> SUFFICES ASSUME NEW i \in 1 .. last
                 PROVE  e.bucket_list[i].uuid <= n + 1 /\ e.bucket_list[i].mac <= n + 1
      BY <2>3 DEF Ids
    <3>1. CASE i = last
      BY <2>1, <2>3, <3>1
    <3>2. CASE i \in 1 .. Len(d.bucket_list)
      <4>1. d.bucket_list[i] \in Bucket /\ e.bucket_list[i] = d.bucket_list[i]
        BY <1>1, <2>3, <3>2
      <4>2. d.bucket_list[i].uuid \in Nat /\ d.bucket_list[i].mac \in Nat
        BY <4>1 DEF Bucket
      <4> QED
        BY <3>2, <4>1, <4>2 DEF Ids
    <3> QED
      BY <2>5, <3>1, <3>2
  <2> QED
    BY <1>1, <2>1, <2>3, <2>4, <2>5, <2>6, <2>7, <2>8, CapacityAssumption
<1> QED
  BY <1>3, <1>4

(* __dirnode_add_direntry.                                                 *)
LEMMA AddShape ==
    ASSUME NEW d, Shape(d), NEW n \in Nat, Ids(d.bucket_list, n), NEW name \in Names \ Entries(d),
           NEW e, e = add_direntry(d, name, n + 1)
    PROVE  /\ Shape(e) /\ Ids(e.bucket_list, n + 1) /\ Keeps(d, e)
           /\ Entries(e) = Entries(d) \union {name} /\ e.last_failed_lookup = NoName
<1> DEFINE f == get_available_bucket(d, n + 1)
           k == AvailableIndex(f)
<1>1. f = get_available_bucket(d, n + 1) /\ e = AddTo(f, k, name)
  BY DEF add_direntry
<1> HIDE DEF f
<1>2. /\ Shape(f) /\ Ids(f.bucket_list, n + 1) /\ Entries(f) = Entries(d)
      /\ k \in 1 .. Len(f.bucket_list) /\ f.bucket_list[k].num_items < Capacity
      /\ \A i \in 1 .. Len(f.bucket_list) :
            i # k => i \in 1 .. Len(d.bucket_list) /\ f.bucket_list[i] = d.bucket_list[i]
  BY <1>1, AvailableBucket
<1> HIDE DEF k
<1>3. n + 1 \in Nat /\ name \in Names \ Entries(f)
  BY <1>2
<1>4. /\ Shape(e) /\ Ids(e.bucket_list, n + 1) /\ Len(e.bucket_list) = Len(f.bucket_list)
      /\ Entries(e) = Entries(f) \union {name} /\ e.last_failed_lookup = NoName
      /\ e.bucket_list[k].is_dirty
      /\ \A j \in 1 .. Len(f.bucket_list) : j # k => e.bucket_list[j] = f.bucket_list[j]
  BY <1>1, <1>2, <1>3, AddToShape
<1>5. Keeps(d, e)
  BY <1>2, <1>4 DEF Keeps
<1> QED
  BY <1>2, <1>4, <1>5

Reduced(b, name, c) ==
    /\ c \in Bucket /\ c.uuid = b.uuid /\ c.dir_entries = b.dir_entries \ {name}
    /\ c.num_items = b.num_items - 1 /\ c.size_bytes = b.size_bytes - RecLen[name]
    /\ c.is_dirty = TRUE /\ c.mac = b.mac

LEMMA BucketDel ==
    ASSUME NEW b \in Bucket, NEW name \in Names, b.num_items - 1 \in Nat,
           b.size_bytes - RecLen[name] \in Nat,
           NEW c, c = SetDirty(bucket_del_direntry(b, name))
    PROVE  Reduced(b, name, c)
<1> DEFINE s == b.dir_entries \ {name}
           n == b.num_items - 1
           m == b.size_bytes - RecLen[name]
<1>1. s \in SUBSET Names /\ n \in Nat /\ m \in Nat
  BY DEF Bucket
<1>2. bucket_del_direntry(b, name) = [b EXCEPT !.dir_entries = s, !.num_items = n, !.size_bytes = m]
  BY DEF bucket_del_direntry, Bucket
<1> HIDE DEF s, n, m
<1>3. /\ c \in Bucket /\ c.uuid = b.uuid /\ c.dir_entries = s /\ c.num_items = n
      /\ c.size_bytes = m /\ c.is_dirty = TRUE /\ c.mac = b.mac
  BY <1>1, <1>2 DEF SetDirty, Bucket
<1> QED
  BY <1>3 DEF Reduced, s, n, m

(* __dirnode_del_direntry: the counters do not wrap below zero.            *)
LEMMA DelShape ==
    ASSUME NEW d, Shape(d), NEW n \in Nat, Ids(d.bucket_list, n), NEW name \in Entries(d),
           NEW e, e = del_direntry(d, name)
    PROVE  /\ Shape(e) /\ Ids(e.bucket_list, n) /\ Keeps(d, e)
           /\ Entries(e) = Entries(d) \ {name} /\ e.last_failed_lookup = NoName
<1> DEFINE i == BucketOf(d, name)
           b == d.bucket_list[i]
           c == SetDirty(bucket_del_direntry(b, name))
           count  == d.dir_entry_count - 1
           buflen == d.dir_entry_buflen - RecLen[name]
           all    == Entries(d) \ {name}
<1>1. d \in DirnodeType /\ d.bucket_list \in Seq(Bucket) /\ Entries(d) \in SUBSET Names
  BY EntriesType DEF DirnodeType, Shape
<1>2. i \in 1 .. Len(d.bucket_list) /\ name \in d.bucket_list[i].dir_entries
  <2>1. \E j \in Indices(d) : name \in d.bucket_list[j].dir_entries
    BY <1>1, EntriesMember DEF Indices
  <2>2. i \in Indices(d) /\ name \in d.bucket_list[i].dir_entries
    BY <2>1 DEF BucketOf
  <2> QED
    BY <1>1, <2>2 DEF Indices
<1> HIDE DEF i
<1>3. b \in Bucket /\ RecLen[name] \in Nat /\ name \in Names
  BY <1>1, <1>2, RecLenAssumption
<1>4. /\ b.uuid \in Nat /\ b.dir_entries \in SUBSET Names /\ b.num_items \in Nat
      /\ b.size_bytes \in Nat /\ b.mac \in Nat
  BY <1>3 DEF Bucket
<1>5. /\ b.num_items - 1 \in Nat /\ b.size_bytes - RecLen[name] \in Nat
      /\ b.num_items - 1 = Cardinality(b.dir_entries \ {name})
      /\ b.size_bytes - RecLen[name] = Bytes(b.dir_entries \ {name})
  <2>1. b.num_items = Cardinality(b.dir_entries) /\ b.size_bytes = Bytes(b.dir_entries)
    BY <1>2 DEF Shape
  <2>2. Cardinality(b.dir_entries \ {name}) = Cardinality(b.dir_entries) - 1
    BY <1>2, <1>4, NamesFinite, FS_RemoveElement
  <2>3. Bytes(b.dir_entries \ {name}) = Bytes(b.dir_entries) - RecLen[name]
    BY <1>2, <1>4, BytesRemove
  <2>4. b.dir_entries \ {name} \in SUBSET Names
    BY <1>4
  <2>5. Cardinality(b.dir_entries \ {name}) \in Nat /\ Bytes(b.dir_entries \ {name}) \in Nat
    BY <2>4, NamesFinite, BytesNat
  <2> QED
    BY <2>1, <2>2, <2>3, <2>5
<1>6. /\ count \in Nat /\ count = Cardinality(all) /\ buflen \in Nat /\ buflen = Bytes(all)
  <2>1. Cardinality(all) = Cardinality(Entries(d)) - 1
    BY <1>1, NamesFinite, FS_RemoveElement
  <2>2. Bytes(all) = Bytes(Entries(d)) - RecLen[name]
    BY <1>1, BytesRemove
  <2>3. all \in SUBSET Names
    BY <1>1
  <2>4. Cardinality(all) \in Nat /\ Bytes(all) \in Nat
    BY <2>3, NamesFinite, BytesNat
  <2>5. d.dir_entry_count = Cardinality(Entries(d)) /\ d.dir_entry_buflen = Bytes(Entries(d))
    BY DEF Shape
  <2> QED
    BY <2>1, <2>2, <2>4, <2>5
<1> c = SetDirty(bucket_del_direntry(b, name))
  OBVIOUS
<1>7. e = Update(d, i, c, count, buflen)
  BY <1>1, <1>2 DEF del_direntry, Update, DirnodeType, i
<1> HIDE DEF c
<1>8. Reduced(b, name, c)
  BY <1>3, <1>5, BucketDel
<1>9. Fits(d, i, c, all)
  <2>1. c.dir_entries = b.dir_entries \ {name} /\ c.num_items = b.num_items - 1
    BY <1>8 DEF Reduced
  <2>2. b.num_items <= Capacity /\ Capacity \in Nat
    BY <1>2, CapacityAssumption DEF Shape
  <2>3. /\ c.num_items = Cardinality(c.dir_entries) /\ c.num_items <= Capacity
        /\ c.size_bytes = Bytes(c.dir_entries) /\ c.uuid = d.bucket_list[i].uuid
    BY <1>4, <1>5, <1>8, <2>2 DEF Reduced
  <2>4. \A j \in 1 .. Len(d.bucket_list) :
           j # i => d.bucket_list[j].dir_entries \intersect b.dir_entries = {}
    BY <1>2 DEF Shape
  <2>5. b.dir_entries \subseteq Entries(d)
    BY <1>1, <1>2, EntriesMember
  <2>6. \A x : x \in all <=> \/ x \in c.dir_entries
                             \/ x \in Entries(d) /\ x \notin d.bucket_list[i].dir_entries
    BY <1>2, <2>1, <2>5
  <2>7. \A j \in 1 .. Len(d.bucket_list) :
           j # i => d.bucket_list[j].dir_entries \intersect c.dir_entries = {}
    BY <2>1, <2>4
  <2> QED
    BY <2>3, <2>6, <2>7 DEF Fits
<1>10. c \in Bucket /\ c.is_dirty = TRUE /\ c.uuid = b.uuid /\ c.mac = b.mac
  BY <1>8 DEF Reduced
<1> HIDE DEF count, buflen, all
<1>11. Shape(e) /\ Entries(e) = all
  BY <1>2, <1>6, <1>7, <1>9, <1>10, UpdateShape
<1>12. /\ Len(e.bucket_list) = Len(d.bucket_list)
       /\ \A j \in 1 .. Len(d.bucket_list) : j # i => e.bucket_list[j] = d.bucket_list[j]
       /\ e.bucket_list[i] = c /\ e.last_failed_lookup = NoName
  BY <1>1, <1>2, <1>6, <1>7, <1>10, UpdateFields
<1>13. Ids(e.bucket_list, n)
  BY <1>2, <1>10, <1>12 DEF Ids
<1>14. Keeps(d, e)
  BY <1>10, <1>12 DEF Keeps
<1> QED
  BY <1>11, <1>12, <1>13, <1>14 DEF all

LEMMA KeepsTransitive ==
    ASSUME NEW d, NEW e, NEW f, Keeps(d, e), Keeps(e, f)
    PROVE  Keeps(d, f)
BY DEF Keeps

(* dirnode_rename: with or without an entry of the new name.               *)
LEMMA RenameShape ==
    ASSUME NEW d, Shape(d), NEW n \in Nat, Ids(d.bucket_list, n),
           d.last_failed_lookup \notin Entries(d),
           NEW old \in Entries(d), NEW new \in Names, old # new,
           NEW e, e = dirnode_rename(d, old, new, n + 1)
    PROVE  /\ Shape(e) /\ Ids(e.bucket_list, n + 1) /\ Keeps(d, e)
           /\ Entries(e) = (Entries(d) \ {old}) \union {new} /\ e.last_failed_lookup = NoName
<1> DEFINE c == IF find_by_name(d, new) THEN del_direntry(d, new) ELSE d
           f == del_direntry(c, old)
<1>1. e = add_direntry(f, new, n + 1)
  BY DEF dirnode_rename
<1>2. Shape(c) /\ Ids(c.bucket_list, n) /\ Keeps(d, c) /\ Entries(c) = Entries(d) \ {new}
  <2>1. CASE new \in Entries(d)
    <3>1. c = del_direntry(d, new)
      BY <2>1 DEF find_by_name
    <3> QED
      BY <2>1, <3>1, DelShape
  <2>2. CASE new \notin Entries(d)
    <3>1. c = d
      BY <2>2 DEF find_by_name
    <3>2. Keeps(d, d)
      BY DEF Keeps
    <3> QED
      BY <2>2, <3>1, <3>2
  <2> QED
    BY <2>1, <2>2
<1>3. f = del_direntry(c, old)
  OBVIOUS
<1> HIDE DEF c, f
<1>4. Shape(f) /\ Ids(f.bucket_list, n) /\ Keeps(c, f) /\ Entries(f) = Entries(c) \ {old}
  <2>1. old \in Entries(c)
    BY <1>2
  <2> QED
    BY <1>2, <1>3, <2>1, DelShape
<1>5. new \in Names \ Entries(f)
  BY <1>2, <1>4
<1>6. /\ Shape(e) /\ Ids(e.bucket_list, n + 1) /\ Keeps(f, e)
      /\ Entries(e) = Entries(f) \union {new} /\ e.last_failed_lookup = NoName
  BY <1>1, <1>4, <1>5, AddShape
<1>7. Keeps(d, e)
  BY <1>2, <1>4, <1>6, KeepsTransitive
<1> QED
  BY <1>2, <1>4, <1>6, <1>7
-----------------------------------------------------------------------------
(* The same entries in the same buckets, whatever their MACs.              *)
SameBuckets(d, e) ==
    /\ e \in DirnodeType /\ Len(e.bucket_list) = Len(d.bucket_list)
    /\ \A i \in 1 .. Len(d.bucket_list) :
          /\ e.bucket_list[i].uuid = d.bucket_list[i].uuid
          /\ e.bucket_list[i].dir_entries = d.bucket_list[i].dir_entries
          /\ e.bucket_list[i].num_items = d.bucket_list[i].num_items
          /\ e.bucket_list[i].size_bytes = d.bucket_list[i].size_bytes
    /\ e.dir_entry_count = d.dir_entry_count /\ e.dir_entry_buflen = d.dir_entry_buflen

LEMMA SameShape ==
    ASSUME NEW d, Shape(d), NEW e, SameBuckets(d, e)
    PROVE  Shape(e) /\ Entries(e) = Entries(d)
<1>1. d.bucket_list \in Seq(Bucket) /\ e.bucket_list \in Seq(Bucket)
  BY DEF Shape, SameBuckets, DirnodeType
<1>2. Entries(e) = Entries(d)
  <2>1. \A x : x \in Entries(e) <=> x \in Entries(d)
    BY <1>1, EntriesMember DEF SameBuckets
  <2> QED
    BY <2>1
<1> QED
  BY <1>1, <1>2 DEF Shape, SameBuckets

(* Without a bucket.                                                       *)
LEMMA WithoutElement ==
    ASSUME NEW S, NEW seq \in Seq(S), NEW i \in 1 .. Len(seq)
    PROVE  /\ Without(seq, i) \in Seq(S) /\ Len(Without(seq, i)) = Len(seq) - 1
           /\ \A j \in 1 .. Len(seq) - 1 :
                 Without(seq, i)[j] = IF j < i THEN seq[j] ELSE seq[j + 1]
<1> DEFINE front == SubSeq(seq, 1, i - 1)
           back  == SubSeq(seq, i + 1, Len(seq))
<1>1. Len(seq) \in Nat /\ i \in Nat /\ i >= 1 /\ i <= Len(seq)
  OBVIOUS
<1>2. /\ front \in Seq(S) /\ Len(front) = i - 1
      /\ \A j \in 1 .. i - 1 : front[j] = seq[j]
  BY <1>1
<1>3. back \in Seq(S)
  BY <1>1
<1>4. Len(back) = Len(seq) - i
  BY <1>1
<1>5. \A j \in 1 .. Len(seq) - i : back[j] = seq[j + i]
  BY <1>1
<1>6. Without(seq, i) = front \o back
  BY DEF Without
<1> HIDE DEF front, back
<1>7. Without(seq, i) \in Seq(S) /\ Len(Without(seq, i)) = Len(seq) - 1
  <2>1. front \o back \in Seq(S) /\ Len(front \o back) = Len(front) + Len(back)
    BY <1>2, <1>3, ConcatProperties
  <2>2. Len(front \o back) = (i - 1) + (Len(seq) - i)
    BY <1>2, <1>4, <2>1
  <2> QED
    BY <1>1, <1>6, <2>1, <2>2
<1>8. ASSUME NEW j \in 1 .. Len(seq) - 1
      PROVE  Without(seq, i)[j] = IF j < i THEN seq[j] ELSE seq[j + 1]
  <2>1. CASE j < i
    BY <1>1, <1>2, <1>3, <1>6, <2>1
  <2>2. CASE j >= i
    <3>1. (front \o back)[j] = back[j - (i - 1)]
      BY <1>1, <1>2, <1>3, <1>4, <2>2
    <3>2. j - (i - 1) \in 1 .. Len(seq) - i /\ (j - (i - 1)) + i = j + 1
      BY <1>1, <2>2
    <3>3. back[j - (i - 1)] = seq[(j - (i - 1)) + i]
      BY <1>5, <3>2
    <3> QED
      BY <1>1, <1>6, <2>2, <3>1, <3>2, <3>3
  <2> QED
    BY <1>1, <2>1, <2>2
<1> QED
  BY <1>7, <1>8

Dropped(d, i, e, n) ==
    /\ Shape(e) /\ Ids(e.bucket_list, n) /\ Entries(e) = Entries(d)
    /\ e.last_failed_lookup = d.last_failed_lookup
    /\ Len(e.bucket_list) = Len(d.bucket_list) - 1
    /\ \A j \in 1 .. Len(e.bucket_list) :
          \E k \in 1 .. Len(d.bucket_list) : /\ k # i /\ (j > 1 => k > 1)
                                             /\ e.bucket_list[j] = d.bucket_list[k]

LEMMA DropShape ==
    ASSUME NEW d, Shape(d), NEW n \in Nat, Ids(d.bucket_list, n),
           NEW i \in 2 .. Len(d.bucket_list), d.bucket_list[i].num_items = 0,
           NEW e, e = [d EXCEPT !.bucket_list = Without(@, i)]
    PROVE  Dropped(d, i, e, n)
<1> DEFINE old == d.bucket_list
           K(j) == IF j < i THEN j ELSE j + 1
<1>1. d \in DirnodeType /\ old \in Seq(Bucket) /\ Len(old) \in Nat /\ i \in 1 .. Len(old)
  BY DEF Shape, DirnodeType
<1>2. /\ Without(old, i) \in Seq(Bucket) /\ Len(Without(old, i)) = Len(old) - 1
      /\ \A j \in 1 .. Len(old) - 1 : Without(old, i)[j] = old[K(j)]
  BY <1>1, WithoutElement
<1>3. /\ e \in DirnodeType /\ e.bucket_list = Without(old, i)
      /\ e.dir_entry_count = d.dir_entry_count /\ e.dir_entry_buflen = d.dir_entry_buflen
      /\ e.last_failed_lookup = d.last_failed_lookup
  BY <1>1, <1>2 DEF DirnodeType
<1>4. /\ e.bucket_list \in Seq(Bucket) /\ Len(e.bucket_list) = Len(old) - 1
      /\ \A j \in 1 .. Len(old) - 1 : e.bucket_list[j] = old[K(j)]
  BY <1>2, <1>3
<1>5. /\ \A j \in 1 .. Len(old) - 1 : K(j) \in 1 .. Len(old) /\ K(j) # i /\ (j > 1 => K(j) > 1)
      /\ \A j, k \in 1 .. Len(old) - 1 : j # k => K(j) # K(k)
      /\ \A k \in 1 .. Len(old) : k = i \/ \E j \in 1 .. Len(old) - 1 : K(j) = k
  <2>1. \A j \in 1 .. Len(old) - 1 : K(j) \in 1 .. Len(old) /\ K(j) # i /\ (j > 1 => K(j) > 1)
    BY <1>1
  <2>2. \A j, k \in 1 .. Len(old) - 1 : j # k => K(j) # K(k)
    BY <1>1
  <2>3. ASSUME NEW k \in 1 .. Len(old), k # i PROVE \E j \in 1 .. Len(old) - 1 : K(j) = k
    <3>1. CASE k < i
      <4>1. k \in 1 .. Len(old) - 1 /\ K(k) = k
        BY <1>1, <3>1
      <4> QED
        BY <4>1
    <3>2. CASE k > i
      <4>1. k - 1 \in 1 .. Len(old) - 1 /\ K(k - 1) = k
        BY <1>1, <3>2
      <4> QED
        BY <4>1
    <3> QED
      BY <1>1, <2>3, <3>1, <3>2
  <2> QED
    BY <2>1, <2>2, <2>3
<1>6. d.bucket_list[i].dir_entries = {}
  <2>1. d.bucket_list[i] \in Bucket
    BY <1>1
  <2>2. d.bucket_list[i].dir_entries \in SUBSET Names
    BY <2>1 DEF Bucket
  <2>3. Cardinality(d.bucket_list[i].dir_entries) = 0
    BY <1>1 DEF Shape
  <2> QED
    BY <2>2, <2>3, NamesFinite, FS_EmptySet
<1>7. e.bucket_list[1] = old[1] /\ Len(old) - 1 >= 1
  BY <1>1, <1>4
<1> HIDE DEF K
<1>8. Entries(e) = Entries(d)
  <2>1. ASSUME NEW x, x \in Entries(e) PROVE x \in Entries(d)
    <3>1. PICK j \in 1 .. Len(old) - 1 : x \in e.bucket_list[j].dir_entries
      BY <1>4, <2>1, EntriesMember
    <3>2. K(j) \in 1 .. Len(old) /\ x \in old[K(j)].dir_entries
      BY <1>4, <1>5, <3>1
    <3> QED
      BY <1>1, <3>2, EntriesMember
  <2>2. ASSUME NEW x, x \in Entries(d) PROVE x \in Entries(e)
    <3>1. PICK k \in 1 .. Len(old) : x \in old[k].dir_entries
      BY <1>1, <2>2, EntriesMember
    <3>2. PICK j \in 1 .. Len(old) - 1 : K(j) = k
      BY <1>5, <1>6, <3>1
    <3>3. x \in e.bucket_list[j].dir_entries
      BY <1>4, <3>1, <3>2
    <3> QED
      BY <1>4, <3>3, EntriesMember
  <2> QED
    BY <2>1, <2>2
<1>9. Shape(e)
  <2>1. \A j \in 1 .. Len(e.bucket_list) :
           /\ e.bucket_list[j].num_items = Cardinality(e.bucket_list[j].dir_entries)
           /\ e.bucket_list[j].num_items <= Capacity
           /\ e.bucket_list[j].size_bytes = Bytes(e.bucket_list[j].dir_entries)
    BY <1>4, <1>5 DEF Shape
  <2>2. \A j, k \in 1 .. Len(e.bucket_list) : j # k =>
           /\ e.bucket_list[j].dir_entries \intersect e.bucket_list[k].dir_entries = {}
           /\ e.bucket_list[j].uuid # e.bucket_list[k].uuid
    <3> SUFFICES ASSUME NEW j \in 1 .. Len(old) - 1, NEW k \in 1 .. Len(old) - 1, j # k
                 PROVE  /\ e.bucket_list[j].dir_entries \intersect e.bucket_list[k].dir_entries = {}
                        /\ e.bucket_list[j].uuid # e.bucket_list[k].uuid
      BY <1>4
    <3>1. K(j) \in 1 .. Len(old) /\ K(k) \in 1 .. Len(old) /\ K(j) # K(k)
      BY <1>5
    <3>2. e.bucket_list[j] = old[K(j)] /\ e.bucket_list[k] = old[K(k)]
      BY <1>4
    <3> QED
      BY <3>1, <3>2 DEF Shape
  <2>3. e.dir_entry_count = Cardinality(Entries(e)) /\ e.dir_entry_buflen = Bytes(Entries(e))
    BY <1>3, <1>8 DEF Shape
  <2> QED
    BY <1>3, <1>4, <1>7, <2>1, <2>2, <2>3 DEF Shape
<1>10. Ids(e.bucket_list, n)
  BY <1>4, <1>5 DEF Ids
<1>11. \A j \in 1 .. Len(e.bucket_list) :
          \E k \in 1 .. Len(d.bucket_list) : /\ k # i /\ (j > 1 => k > 1)
                                             /\ e.bucket_list[j] = d.bucket_list[k]
  BY <1>4, <1>5
<1> QED
  BY <1>3, <1>4, <1>8, <1>9, <1>10, <1>11 DEF Dropped
-----------------------------------------------------------------------------
(* Files and what is read from them.                                       *)

LEMMA LoadIs == /\ Loads <=> LoadsOf(main, files)
                /\ Loads' <=> LoadsOf(main', files')
                /\ dirnode_load = LoadOf(main, files)
                /\ dirnode_load' = LoadOf(main', files')
BY DEF Loads, LoadsOf, bucket_loads, dirnode_load, LoadOf, LoadedBucket

LEMMA FileIsNotTorn ==
    ASSUME NEW s, NEW m
    PROVE  [dir_entries |-> s, mac |-> m] # Torn
<1>1. "torn" \in DOMAIN Torn
  BY DEF Torn
<1>2. "torn" \notin DOMAIN [dir_entries |-> s, mac |-> m]
  OBVIOUS
<1> QED
  BY <1>1, <1>2

LEMMA MainIsNotTorn ==
    ASSUME NEW m \in MainType
    PROVE  m # Torn
<1>1. "torn" \in DOMAIN Torn
  BY DEF Torn
<1>2. "torn" \notin DOMAIN m
  BY DEF MainType
<1> QED
  BY <1>1, <1>2

(* A file that is written gets a new MAC: a main file that was written     *)
(* before it does not load any more, or loads what it did.                 *)
Overwrites(fs, gs, n) ==
    \A id \in DOMAIN gs : \/ id \in DOMAIN fs /\ gs[id] = fs[id]
                          \/ gs[id] = Torn
                          \/ gs[id].mac = n + 1

LEMMA StillLoads ==
    ASSUME NEW n \in Nat, NEW m \in MainType, Ids(m.records, n), NEW fs, NEW gs,
           Overwrites(fs, gs, n), LoadsOf(m, gs)
    PROVE  LoadsOf(m, fs) /\ LoadOf(m, gs) = LoadOf(m, fs)
<1>1. m.records \in Seq(Record) /\ DOMAIN m.records = 1 .. Len(m.records) /\ Len(m.records) \in Nat
  BY DEF MainType
<1>2. ASSUME NEW i \in 2 .. Len(m.records)
      PROVE  m.records[i].uuid \in DOMAIN fs /\ gs[m.records[i].uuid] = fs[m.records[i].uuid]
  <2>1. m.records[i] \in Record /\ i \in 1 .. Len(m.records)
    BY <1>1
  <2>2. m.records[i].mac \in Nat /\ m.records[i].mac <= n
    BY <2>1 DEF Record, Ids
  <2>3. gs[m.records[i].uuid].mac # n + 1
    BY <2>2 DEF LoadsOf
  <2> QED
    BY <2>3 DEF LoadsOf, Overwrites
<1>3. LoadsOf(m, fs)
  BY <1>2 DEF LoadsOf
<1>4. \A i \in DOMAIN m.records : LoadedBucket(m, gs, i) = LoadedBucket(m, fs, i)
  <2> SUFFICES ASSUME NEW i \in DOMAIN m.records
               PROVE  LoadedBucket(m, gs, i) = LoadedBucket(m, fs, i)
    OBVIOUS
  <2>1. i = 1 \/ i \in 2 .. Len(m.records)
    BY <1>1
  <2>2. i # 1 => gs[m.records[i].uuid] = fs[m.records[i].uuid]
    BY <1>2, <2>1
  <2> QED
    BY <2>2 DEF LoadedBucket
<1>5. LoadOf(m, gs) = LoadOf(m, fs)
  BY <1>4 DEF LoadOf
<1> QED
  BY <1>3, <1>5

(* What dirnode_serialize writes once the dirty buckets are on file.       *)
LEMMA SerializeLoads ==
    ASSUME NEW d, Shape(d), NEW n \in Nat, Ids(d.bucket_list, n), NEW fs, CleanOnFile(d, fs),
           \A i \in 2 .. Len(d.bucket_list) : d.bucket_list[i].is_dirty = FALSE,
           NEW m, m = dirnode_serialize(d)
    PROVE  /\ m \in MainType /\ Len(m.records) >= 1 /\ Ids(m.records, n)
           /\ LoadsOf(m, fs) /\ Shape(LoadOf(m, fs)) /\ ReadOf(m, fs) = Entries(d)
<1> DEFINE b == d.bucket_list
           l == LoadOf(m, fs)
<1>1. d \in DirnodeType /\ b \in Seq(Bucket) /\ Len(b) \in Nat /\ Len(b) >= 1 /\ DOMAIN b = 1 .. Len(b)
  BY DEF Shape, DirnodeType
<1>2. \A i \in 1 .. Len(b) : b[i] \in Bucket
  BY <1>1
<1>3. /\ m.records = [i \in 1 .. Len(b) |-> bucket_to_record(b[i])] /\ m.bucket0 = b[1].dir_entries
      /\ m.dir_entry_count = d.dir_entry_count /\ m.dir_entry_buflen = d.dir_entry_buflen
      /\ m = [dir_entry_count |-> m.dir_entry_count, dir_entry_buflen |-> m.dir_entry_buflen,
              records |-> m.records, bucket0 |-> m.bucket0]
  BY <1>1 DEF dirnode_serialize, Indices
<1>4. /\ m.records \in Seq(Record) /\ Len(m.records) = Len(b) /\ DOMAIN m.records = 1 .. Len(b)
      /\ \A i \in 1 .. Len(b) : m.records[i] = bucket_to_record(b[i])
  <2>1. \A i \in 1 .. Len(b) : bucket_to_record(b[i]) \in Record
    BY <1>2 DEF bucket_to_record, Record, Bucket
  <2>2. m.records \in [1 .. Len(b) -> Record]
    BY <1>3, <2>1
  <2> QED
    BY <1>1, <1>3, <2>2
<1>5. m \in MainType
  <2>1. b[1].dir_entries \in SUBSET Names
    BY <1>1, <1>2 DEF Bucket
  <2>2. d.dir_entry_count \in Nat /\ d.dir_entry_buflen \in Nat
    BY <1>1 DEF DirnodeType
  <2> QED
    BY <1>3, <1>4, <2>1, <2>2 DEF MainType
<1>6. \A i \in 1 .. Len(b) : /\ m.records[i].uuid = b[i].uuid /\ m.records[i].mac = b[i].mac
                             /\ m.records[i].num_items = b[i].num_items
                             /\ m.records[i].size_bytes = b[i].size_bytes
  <2>1. \A x : /\ bucket_to_record(x).uuid = x.uuid /\ bucket_to_record(x).mac = x.mac
               /\ bucket_to_record(x).num_items = x.num_items
               /\ bucket_to_record(x).size_bytes = x.size_bytes
    BY DEF bucket_to_record
  <2> QED
    BY <1>4, <2>1
<1>7. Ids(m.records, n)
  BY <1>4, <1>6 DEF Ids
<1>8. \A i \in 2 .. Len(b) :
         /\ b[i].uuid \in DOMAIN fs /\ fs[b[i].uuid] # Torn
         /\ fs[b[i].uuid].mac = b[i].mac /\ fs[b[i].uuid].dir_entries = b[i].dir_entries
  <2> SUFFICES ASSUME NEW i \in 2 .. Len(b)
               PROVE  /\ b[i].uuid \in DOMAIN fs /\ fs[b[i].uuid] # Torn
                      /\ fs[b[i].uuid].mac = b[i].mac
                      /\ fs[b[i].uuid].dir_entries = b[i].dir_entries
    OBVIOUS
  <2>1. b[i].uuid \in DOMAIN fs /\ fs[b[i].uuid] = FileOf(b[i])
    BY DEF CleanOnFile, OnFile
  <2>2. /\ FileOf(b[i]) # Torn /\ FileOf(b[i]).mac = b[i].mac
        /\ FileOf(b[i]).dir_entries = b[i].dir_entries
    BY FileIsNotTorn DEF FileOf
  <2> QED
    BY <2>1, <2>2
<1>9. LoadsOf(m, fs)
  <2>1. m # Torn
    BY <1>5, MainIsNotTorn
  <2>2. \A i \in 2 .. Len(b) : i \in 1 .. Len(b)
    BY <1>1
  <2> QED
    BY <1>4, <1>6, <1>8, <2>1, <2>2 DEF LoadsOf
<1>10. SameBuckets(d, l)
  <2>1. /\ l.bucket_list = [i \in 1 .. Len(b) |-> LoadedBucket(m, fs, i)]
        /\ l.dir_entry_count = d.dir_entry_count /\ l.dir_entry_buflen = d.dir_entry_buflen
        /\ l = [bucket_list |-> l.bucket_list, dir_entry_count |-> l.dir_entry_count,
                dir_entry_buflen |-> l.dir_entry_buflen, last_failed_lookup |-> NoName]
    BY <1>3, <1>4 DEF LoadOf
  <2>2. ASSUME NEW i \in 1 .. Len(b)
        PROVE  /\ LoadedBucket(m, fs, i).uuid = b[i].uuid
               /\ LoadedBucket(m, fs, i).dir_entries = b[i].dir_entries
               /\ LoadedBucket(m, fs, i).num_items = b[i].num_items
               /\ LoadedBucket(m, fs, i).size_bytes = b[i].size_bytes
               /\ LoadedBucket(m, fs, i) \in Bucket
    <3>1. i # 1 => i \in 2 .. Len(b)
      BY <1>1
    <3>2. (IF i = 1 THEN m.bucket0 ELSE fs[m.records[i].uuid].dir_entries) = b[i].dir_entries
      BY <1>3, <1>6, <1>8, <3>1
    <3>3. /\ LoadedBucket(m, fs, i).uuid = b[i].uuid
          /\ LoadedBucket(m, fs, i).dir_entries = b[i].dir_entries
          /\ LoadedBucket(m, fs, i).num_items = b[i].num_items
          /\ LoadedBucket(m, fs, i).size_bytes = b[i].size_bytes
      BY <1>6, <3>2 DEF LoadedBucket
    <3>4. /\ b[i].uuid \in Nat /\ b[i].dir_entries \in SUBSET Names /\ b[i].num_items \in Nat
          /\ b[i].size_bytes \in Nat /\ b[i].mac \in Nat
      BY <1>2 DEF Bucket
    <3>5. LoadedBucket(m, fs, i) = [uuid |-> b[i].uuid, dir_entries |-> b[i].dir_entries,
                                    num_items |-> b[i].num_items, size_bytes |-> b[i].size_bytes,
                                    is_dirty |-> FALSE, mac |-> b[i].mac]
      BY <1>6, <3>2 DEF LoadedBucket
    <3>6. LoadedBucket(m, fs, i) \in Bucket
      BY <3>4, <3>5 DEF Bucket
    <3> QED
      BY <3>3, <3>6
  <2> HIDE DEF l
  <2>3. l.bucket_list \in Seq(Bucket) /\ Len(l.bucket_list) = Len(b)
    <3>1. l.bucket_list \in [1 .. Len(b) -> Bucket]
      BY <2>1, <2>2
    <3> QED
      BY <1>1, <2>1, <3>1
  <2>4. \A i \in 1 .. Len(b) : l.bucket_list[i] = LoadedBucket(m, fs, i)
    BY <2>1
  <2>5. d.dir_entry_count \in Nat /\ d.dir_entry_buflen \in Nat
    BY <1>1 DEF DirnodeType
  <2>6. l \in DirnodeType
    BY <2>1, <2>3, <2>5 DEF DirnodeType
  <2> QED
    BY <2>1, <2>2, <2>3, <2>4, <2>6 DEF SameBuckets
<1>11. Shape(l) /\ Entries(l) = Entries(d)
  BY <1>10, SameShape
<1> QED
  BY <1>1, <1>4, <1>5, <1>7, <1>9, <1>11 DEF ReadOf

(* nexus_metadata_load: the buckets that are loaded are on file.           *)
LEMMA LoadedOnFile ==
    ASSUME NEW n \in Nat, NEW m \in MainType, Ids(m.records, n), NEW fs, LoadsOf(m, fs),
           \A id \in DOMAIN fs : fs[id] = Torn \/ fs[id] \in FileType,
           NEW l, l = LoadOf(m, fs)
    PROVE  Ids(l.bucket_list, n) /\ CleanOnFile(l, fs) /\ l.last_failed_lookup = NoName
<1>1. m.records \in Seq(Record) /\ Len(m.records) \in Nat /\ DOMAIN m.records = 1 .. Len(m.records)
  BY DEF MainType
<1>2. /\ l.bucket_list = [i \in 1 .. Len(m.records) |-> LoadedBucket(m, fs, i)]
      /\ l.last_failed_lookup = NoName
  BY <1>1 DEF LoadOf
<1>3. /\ Len(l.bucket_list) = Len(m.records)
      /\ \A i \in 1 .. Len(m.records) : l.bucket_list[i] = LoadedBucket(m, fs, i)
  BY <1>1, <1>2
<1>4. \A i : /\ LoadedBucket(m, fs, i).uuid = m.records[i].uuid
             /\ LoadedBucket(m, fs, i).mac = m.records[i].mac
             /\ i # 1 => LoadedBucket(m, fs, i).dir_entries = fs[m.records[i].uuid].dir_entries
  BY DEF LoadedBucket
<1>6. Ids(l.bucket_list, n)
  BY <1>3, <1>4 DEF Ids
<1>5. ASSUME NEW i \in 2 .. Len(m.records)
      PROVE  OnFile(l.bucket_list[i], fs)
  <2>1. i \in 1 .. Len(m.records) /\ i # 1
    BY <1>1
  <2>2. /\ l.bucket_list[i].uuid = m.records[i].uuid /\ l.bucket_list[i].mac = m.records[i].mac
        /\ l.bucket_list[i].dir_entries = fs[m.records[i].uuid].dir_entries
    BY <1>3, <1>4, <2>1
  <2>3. /\ m.records[i].uuid \in DOMAIN fs /\ fs[m.records[i].uuid] \in FileType
        /\ fs[m.records[i].uuid].mac = m.records[i].mac
    BY DEF LoadsOf
  <2>4. fs[m.records[i].uuid] = [dir_entries |-> fs[m.records[i].uuid].dir_entries,
                                 mac |-> fs[m.records[i].uuid].mac]
    BY <2>3 DEF FileType
  <2> QED
    BY <2>2, <2>3, <2>4 DEF OnFile, FileOf
<1> QED
  BY <1>2, <1>3, <1>5, <1>6 DEF CleanOnFile
-----------------------------------------------------------------------------
(* The steps.                                                              *)

LEMMA NoNameIsMissing ==
    ASSUME NEW d, Shape(d)
    PROVE  NoName \notin Entries(d) /\ Entries(d) \in SUBSET Names /\ Entries(d) # {NoName}
<1>1. Entries(d) \in SUBSET Names
  BY EntriesType DEF Shape, DirnodeType
<1> QED
  BY <1>1, NamesAssumption

LEMMA InitIInv == Init => IInv /\ Read!Init
<1> SUFFICES ASSUME Init PROVE IInv /\ Read!Init
  OBVIOUS
<1> DEFINE b == bucket_create(1)
<1>1. /\ b \in Bucket /\ b.uuid = 1 /\ b.dir_entries = {} /\ b.num_items = 0 /\ b.size_bytes = 0
      /\ b.is_dirty = FALSE /\ b.mac = 0
  BY DEF bucket_create, Bucket
<1>2. /\ dirnode.bucket_list = <<b>> /\ dirnode.dir_entry_count = 0 /\ dirnode.dir_entry_buflen = 0
      /\ dirnode.last_failed_lookup = NoName
      /\ dirnode = [bucket_list |-> <<b>>, dir_entry_count |-> 0, dir_entry_buflen |-> 0,
                    last_failed_lookup |-> NoName]
  BY DEF Init, dirnode_create
<1> HIDE DEF b
<1>3. <<b>> \in Seq(Bucket) /\ Len(<<b>>) = 1 /\ <<b>>[1] = b
  BY <1>1
<1>4. dirnode \in DirnodeType
  BY <1>2, <1>3 DEF DirnodeType
<1>5. Entries(dirnode) = {}
  <2>1. \A x : x \in Entries(dirnode) => \E i \in 1 .. 1 : x \in <<b>>[i].dir_entries
    BY <1>2, <1>3, EntriesMember
  <2> QED
    BY <1>1, <1>3, <2>1
<1>6. Shape(dirnode)
  <2>1. Cardinality({}) = 0 /\ Bytes({}) = 0
    BY FS_EmptySet, BytesOfNone
  <2>2. \A i \in 1 .. 1 : <<b>>[i] = b
    BY <1>3
  <2>3. \A i \in 1 .. 1 : /\ <<b>>[i].num_items = Cardinality(<<b>>[i].dir_entries)
                          /\ <<b>>[i].num_items <= Capacity
                          /\ <<b>>[i].size_bytes = Bytes(<<b>>[i].dir_entries)
    BY <1>1, <2>1, <2>2, CapacityAssumption
  <2> QED
    BY <1>2, <1>3, <1>4, <1>5, <2>1, <2>3 DEF Shape
<1>7. Ids(dirnode.bucket_list, 1)
  BY <1>1, <1>2, <1>3 DEF Ids
<1>8. CleanOnFile(dirnode, files)
  BY <1>2, <1>3 DEF CleanOnFile
<1>9. main = dirnode_serialize(dirnode) /\ next_id = 1 /\ committed = {} /\ pc = "idle" /\ is_invalid = FALSE
  BY DEF Init
<1>10. /\ main \in MainType /\ Len(main.records) >= 1 /\ Ids(main.records, 1)
       /\ LoadsOf(main, files) /\ Shape(LoadOf(main, files)) /\ ReadOf(main, files) = {}
  <2>1. \A i \in 2 .. Len(dirnode.bucket_list) : dirnode.bucket_list[i].is_dirty = FALSE
    BY <1>2, <1>3
  <2> QED
    BY <1>5, <1>6, <1>7, <1>8, <1>9, <2>1, SerializeLoads
<1>11. Types
  <2>1. next_id \in 1 .. MaxId
    BY <1>9, MaxIdAssumption
  <2>2. \A id \in DOMAIN files : FALSE
    BY DEF Init
  <2> QED
    BY <1>9, <1>10, <2>1, <2>2 DEF Types
<1>12. Memory
  BY <1>2, <1>5, <1>6, <1>7, <1>8, <1>9 DEF Memory, FailedLookupIsMissing
<1>13. Storage
  BY <1>5, <1>9, <1>10 DEF Storage, Ready
<1>14. Read!Init
  BY <1>5, <1>9, <1>10, LoadIs DEF Read!Init, ReadOf, Ready
<1> QED
  BY <1>11, <1>12, <1>13, <1>14 DEF IInv

(* What a reader gets from the files.                                      *)
ViewOf(m, fs) == IF LoadsOf(m, fs) THEN ReadOf(m, fs) ELSE {NoName}

Reads == [Read!Next]_(Read!vars)

(* The abstract variables before and after a step.                         *)
LEMMA AbstractState ==
    ASSUME NEW entries, NEW entries2, NEW view, NEW view2,
           entries = Entries(dirnode), entries2 = Entries(dirnode)',
           view = ViewOf(main, files), view2 = ViewOf(main, files)'
    PROVE  /\ Read!vars = <<committed, entries, view, ~Ready>>
           /\ (Read!vars)' = <<committed', entries2, view2, ~Ready'>>
           /\ Read!Start <=> /\ Ready /\ ~Ready' /\ committed' = committed /\ view2 = view
                             /\ entries2 \in Read!Added(committed) \union Read!Removed(committed)
                                                \union Read!Renamed(committed)
           /\ Read!Progress <=> /\ ~Ready /\ view # entries /\ view2 \in {{NoName}, entries}
                                /\ committed' = committed /\ entries2 = entries
                                /\ (~Ready)' = (~Ready)
           /\ Read!Finish <=> /\ ~Ready /\ (~Ready)' = FALSE /\ view2 = entries /\ committed' = entries
                              /\ entries2 = entries
           /\ Read!Lose <=> /\ (~Ready)' = TRUE /\ committed' = committed /\ entries2 = entries
                            /\ view2 = view
           /\ Read!Open <=> /\ ~Ready /\ (~Ready)' = FALSE /\ view # {NoName} /\ committed' = view
                            /\ entries2 = view /\ view2 = view
<1>1. /\ view = IF Loads THEN Entries(dirnode_load) ELSE {NoName}
      /\ view2 = (IF Loads THEN Entries(dirnode_load) ELSE {NoName})'
  BY LoadIs DEF ViewOf, ReadOf
<1> QED
  BY <1>1 DEF Read!vars, Read!Start, Read!Progress, Read!Finish, Read!Lose, Read!Open

LEMMA StutterReads ==
    ASSUME committed' = committed, Entries(dirnode') = Entries(dirnode),
           ViewOf(main', files') = ViewOf(main, files), Ready' <=> Ready
    PROVE  Reads
<1>1. Read!vars = <<committed, Entries(dirnode), ViewOf(main, files), ~Ready>>
  BY AbstractState
<1>2. (Read!vars)' = <<committed', Entries(dirnode'), ViewOf(main', files'), ~Ready'>>
  BY AbstractState
<1>3. (~Ready') = (~Ready)
  OBVIOUS
<1>4. (Read!vars)' = Read!vars
  BY <1>1, <1>2, <1>3
<1> QED
  BY <1>4 DEF Reads

LEMMA ProgressReads ==
    ASSUME ~Ready, ~Ready', committed' = committed, Entries(dirnode') = Entries(dirnode),
           ViewOf(main, files) # Entries(dirnode),
           ViewOf(main', files') \in {{NoName}, Entries(dirnode)}
    PROVE  Reads
<1>1. (~Ready)' = (~Ready)
  OBVIOUS
<1>2. Read!Progress
  BY <1>1, AbstractState
<1> QED
  BY <1>2 DEF Reads, Read!Next

LEMMA RecordIdsLater ==
    ASSUME NEW n \in Nat, NEW m \in MainType, Ids(m.records, n)
    PROVE  Ids(m.records, n + 1)
<1> SUFFICES ASSUME NEW i \in 1 .. Len(m.records)
             PROVE  m.records[i].uuid <= n + 1 /\ m.records[i].mac <= n + 1
  BY DEF Ids
<1>1. m.records[i] \in Record
  BY DEF MainType
<1>2. m.records[i].uuid \in Nat /\ m.records[i].mac \in Nat
  BY <1>1 DEF Record
<1> QED
  BY <1>2 DEF Ids

LEMMA FindStep ==
    ASSUME IInv, NEW name \in Names, dirnode_find_by_name(name)
    PROVE  IInv' /\ Reads
<1>1. /\ dirnode' = MissedLookup(dirnode, name) /\ Ready
      /\ is_invalid' = is_invalid /\ pc' = pc /\ main' = main /\ files' = files
      /\ next_id' = next_id /\ committed' = committed
  BY DEF dirnode_find_by_name
<1>2. Shape(dirnode) /\ dirnode \in DirnodeType /\ Entries(dirnode) \in SUBSET Names
  BY NoNameIsMissing DEF IInv, Memory, Shape
<1>3. /\ dirnode'.bucket_list = dirnode.bucket_list
      /\ dirnode'.dir_entry_count = dirnode.dir_entry_count
      /\ dirnode'.dir_entry_buflen = dirnode.dir_entry_buflen
      /\ dirnode'.last_failed_lookup = IF find_by_name(dirnode, name) THEN NoName ELSE name
      /\ dirnode' \in DirnodeType
  BY <1>1, <1>2 DEF MissedLookup, DirnodeType
<1>4. SameBuckets(dirnode, dirnode')
  BY <1>3 DEF SameBuckets
<1>5. Shape(dirnode') /\ Entries(dirnode') = Entries(dirnode)
  BY <1>2, <1>4, SameShape
<1>6. dirnode'.last_failed_lookup \notin Entries(dirnode')
  BY <1>2, <1>3, <1>5, NoNameIsMissing DEF find_by_name, IInv, Memory, FailedLookupIsMissing
<1>7. Memory'
  BY <1>1, <1>3, <1>5, <1>6 DEF IInv, Memory, FailedLookupIsMissing, CleanOnFile
<1>8. Types'
  BY <1>1 DEF IInv, Types
<1>9. Storage'
  BY <1>1, <1>5 DEF IInv, Storage, Ready
<1>10. Reads
  BY <1>1, <1>5, StutterReads DEF Ready
<1> QED
  BY <1>7, <1>8, <1>9, <1>10 DEF IInv

(* An addition, a removal or a rename in memory.                           *)
LEMMA ModifyStep ==
    ASSUME IInv, Ready, next_id < MaxId, NEW e, Modify(e), Shape(e),
           Ids(e.bucket_list, next_id + 1), Keeps(dirnode, e), e.last_failed_lookup = NoName,
           Entries(e) # Entries(dirnode),
           Entries(e) \in Read!Added(Entries(dirnode)) \union Read!Removed(Entries(dirnode))
                             \union Read!Renamed(Entries(dirnode))
    PROVE  IInv' /\ Reads
<1>1. /\ dirnode' = e /\ pc' = "delete" /\ next_id' = next_id + 1 /\ is_invalid' = is_invalid
      /\ main' = main /\ files' = files /\ committed' = committed /\ is_invalid = FALSE
  BY DEF Modify, Ready, IInv, Types
<1>2. next_id \in Nat /\ next_id + 1 \in 1 .. MaxId
  BY MaxIdAssumption DEF IInv, Types
<1>3. Types'
  <2>1. \/ main' = Torn
        \/ main' \in MainType /\ Len(main'.records) >= 1 /\ Ids(main'.records, next_id + 1)
    <3>1. CASE main = Torn
      BY <1>1, <3>1
    <3>2. CASE main \in MainType /\ Len(main.records) >= 1 /\ Ids(main.records, next_id)
      <4>1. Ids(main.records, next_id + 1)
        BY <1>2, <3>2, RecordIdsLater
      <4> QED
        BY <1>1, <3>2, <4>1
    <3> QED
      BY <3>1, <3>2 DEF IInv, Types
  <2>2. \A id \in DOMAIN files : id \in Nat /\ (files[id] = Torn \/ files[id] \in FileType)
    BY DEF IInv, Types
  <2>3. committed \subseteq Names
    BY DEF IInv, Types
  <2> QED
    BY <1>1, <1>2, <2>1, <2>2, <2>3 DEF Types
<1>4. Memory'
  <2>1. CleanOnFile(e, files)
    BY <1>1 DEF IInv, Memory, CleanOnFile, Keeps
  <2>2. e.last_failed_lookup \notin Entries(e)
    BY NoNameIsMissing
  <2> QED
    BY <1>1, <2>1, <2>2 DEF Memory, FailedLookupIsMissing
<1>5. Storage'
  BY <1>1 DEF IInv, Storage, Ready
<1>6. Read!Start
  BY <1>1, AbstractState DEF IInv, Storage, Ready
<1> QED
  BY <1>3, <1>4, <1>5, <1>6 DEF IInv, Reads, Read!Next

LEMMA OperationStep ==
    ASSUME IInv, NEW name \in Names, NEW newname \in Names,
           dirnode_add(name) \/ dirnode_remove(name) \/ Rename(name, newname)
    PROVE  IInv' /\ Reads
<1> DEFINE E == Entries(dirnode)
<1>1. /\ Shape(dirnode) /\ Ids(dirnode.bucket_list, next_id) /\ next_id \in Nat
      /\ dirnode.last_failed_lookup \notin E
  BY DEF IInv, Memory, Types, FailedLookupIsMissing
<1>2. CASE dirnode_add(name)
  <2> DEFINE e == add_direntry(dirnode, name, next_id + 1)
  <2>1. Ready /\ next_id < MaxId /\ Modify(e) /\ name \notin E
    BY <1>1, <1>2 DEF dirnode_add, find_by_name
  <2>2. e = add_direntry(dirnode, name, next_id + 1)
    OBVIOUS
  <2> HIDE DEF e
  <2>3. /\ Shape(e) /\ Ids(e.bucket_list, next_id + 1) /\ Keeps(dirnode, e)
        /\ Entries(e) = E \union {name} /\ e.last_failed_lookup = NoName
    BY <1>1, <2>1, <2>2, AddShape
  <2>4. Entries(e) # E /\ Entries(e) \in Read!Added(E)
    BY <2>1, <2>3 DEF Read!Added
  <2> QED
    BY <2>1, <2>3, <2>4, ModifyStep
<1>3. CASE dirnode_remove(name)
  <2> DEFINE e == del_direntry(dirnode, name)
  <2>1. Ready /\ next_id < MaxId /\ Modify(e) /\ name \in E
    BY <1>3 DEF dirnode_remove, find_by_name
  <2>2. e = del_direntry(dirnode, name)
    OBVIOUS
  <2> HIDE DEF e
  <2>3. /\ Shape(e) /\ Ids(e.bucket_list, next_id) /\ Keeps(dirnode, e)
        /\ Entries(e) = E \ {name} /\ e.last_failed_lookup = NoName
    BY <1>1, <2>1, <2>2, DelShape
  <2>4. Entries(e) # E /\ Entries(e) \in Read!Removed(E)
    BY <2>1, <2>3 DEF Read!Removed
  <2>5. Ids(e.bucket_list, next_id + 1)
    BY <1>1, <2>3, IdsLater DEF Shape, DirnodeType
  <2> QED
    BY <2>1, <2>3, <2>4, <2>5, ModifyStep
<1>4. CASE Rename(name, newname)
  <2> DEFINE e == dirnode_rename(dirnode, name, newname, next_id + 1)
  <2>1. Ready /\ next_id < MaxId /\ Modify(e) /\ name # newname /\ name \in E
    BY <1>4 DEF Rename, find_by_name
  <2>2. e = dirnode_rename(dirnode, name, newname, next_id + 1)
    OBVIOUS
  <2> HIDE DEF e
  <2>3. /\ Shape(e) /\ Ids(e.bucket_list, next_id + 1) /\ Keeps(dirnode, e)
        /\ Entries(e) = (E \ {name}) \union {newname} /\ e.last_failed_lookup = NoName
    BY <1>1, <2>1, <2>2, RenameShape
  <2>4. Entries(e) # E /\ Entries(e) \in Read!Renamed(E)
    BY <2>1, <2>3 DEF Read!Renamed
  <2> QED
    BY <2>1, <2>3, <2>4, ModifyStep
<1> QED
  BY <1>2, <1>3, <1>4

(* A file is deleted or written before the main file is.                   *)
LEMMA FilesStep ==
    ASSUME IInv, pc = "delete", main' = main, committed' = committed,
           Overwrites(files, files', next_id), Entries(dirnode') = Entries(dirnode),
           is_invalid' \in BOOLEAN, pc' \in {"idle", "delete"},
           pc' = "delete" <=> ~is_invalid'
    PROVE  Storage' /\ Reads
<1>1. /\ ~Ready /\ ~Ready' /\ committed # Entries(dirnode)
      /\ LoadsOf(main, files) => /\ ReadOf(main, files) = committed
                                 /\ Shape(LoadOf(main, files))
  BY DEF IInv, Storage, Ready
<1>2. ASSUME LoadsOf(main, files')
      PROVE  LoadsOf(main, files) /\ LoadOf(main, files') = LoadOf(main, files)
  <2>1. main \in MainType /\ Ids(main.records, next_id) /\ next_id \in Nat
    BY <1>2 DEF IInv, Types, LoadsOf
  <2> QED
    BY <1>2, <2>1, StillLoads
<1>3. Storage'
  BY <1>1, <1>2 DEF Storage, ReadOf
<1>4. CASE ViewOf(main', files') = ViewOf(main, files)
  <2>1. Ready' <=> Ready
    BY <1>1
  <2> QED
    BY <1>3, <1>4, <2>1, StutterReads
<1>5. CASE ViewOf(main', files') # ViewOf(main, files)
  <2>1. ~LoadsOf(main, files') /\ LoadsOf(main, files)
    BY <1>2, <1>5 DEF ViewOf, ReadOf
  <2>2. ViewOf(main', files') = {NoName} /\ ViewOf(main, files) = committed
    BY <1>1, <2>1 DEF ViewOf
  <2> QED
    BY <1>1, <1>3, <2>2, ProgressReads
<1> QED
  BY <1>3, <1>4, <1>5

LEMMA DropStep ==
    ASSUME IInv, delete_empty_bucket
    PROVE  IInv' /\ Reads
<1>1. /\ pc = "delete" /\ is_invalid' = is_invalid /\ pc' = pc /\ main' = main
      /\ next_id' = next_id /\ committed' = committed /\ is_invalid = FALSE
  BY DEF delete_empty_bucket, IInv, Storage, Types
<1>2. PICK i \in Emptied(dirnode) :
         /\ dirnode' = [dirnode EXCEPT !.bucket_list = Without(@, i)]
         /\ \/ files' = [id \in DOMAIN files \ {dirnode.bucket_list[i].uuid} |-> files[id]]
            \/ files' = files
  BY DEF delete_empty_bucket
<1>3. /\ Shape(dirnode) /\ Ids(dirnode.bucket_list, next_id) /\ next_id \in Nat
      /\ dirnode.bucket_list \in Seq(Bucket)
  BY DEF IInv, Memory, Types, Shape, DirnodeType
<1>4. i \in 2 .. Len(dirnode.bucket_list) /\ dirnode.bucket_list[i].num_items = 0
  BY <1>3 DEF Emptied, Indices
<1>5. /\ Shape(dirnode') /\ Ids(dirnode'.bucket_list, next_id) /\ Entries(dirnode') = Entries(dirnode)
      /\ dirnode'.last_failed_lookup = dirnode.last_failed_lookup
      /\ Len(dirnode'.bucket_list) = Len(dirnode.bucket_list) - 1
      /\ \A j \in 1 .. Len(dirnode'.bucket_list) :
            \E k \in 1 .. Len(dirnode.bucket_list) : /\ k # i /\ (j > 1 => k > 1)
                                                     /\ dirnode'.bucket_list[j] = dirnode.bucket_list[k]
  <2>1. Dropped(dirnode, i, dirnode', next_id)
    BY <1>2, <1>3, <1>4, DropShape
  <2> QED
    BY <2>1 DEF Dropped
<1>6. \A id \in DOMAIN files' : id \in DOMAIN files /\ files'[id] = files[id]
  BY <1>2
<1>7. \A id \in DOMAIN files : id # dirnode.bucket_list[i].uuid => id \in DOMAIN files'
  BY <1>2
<1>8. CleanOnFile(dirnode', files')
  <2> SUFFICES ASSUME NEW j \in 2 .. Len(dirnode'.bucket_list),
                      dirnode'.bucket_list[j].is_dirty = FALSE
               PROVE  OnFile(dirnode'.bucket_list[j], files')
    BY DEF CleanOnFile
  <2>1. j \in 1 .. Len(dirnode'.bucket_list) /\ j > 1
    BY <1>3, <1>5
  <2>2. PICK k \in 1 .. Len(dirnode.bucket_list) : /\ k # i /\ (j > 1 => k > 1)
                                                   /\ dirnode'.bucket_list[j] = dirnode.bucket_list[k]
    BY <1>5, <2>1
  <2>3. k \in 2 .. Len(dirnode.bucket_list) /\ dirnode.bucket_list[k].uuid # dirnode.bucket_list[i].uuid
    BY <1>3, <1>4, <2>1, <2>2 DEF Shape
  <2>4. OnFile(dirnode.bucket_list[k], files)
    BY <1>1, <2>2, <2>3 DEF IInv, Memory, CleanOnFile
  <2>5. OnFile(dirnode.bucket_list[k], files')
    BY <1>6, <1>7, <2>3, <2>4 DEF OnFile
  <2> QED
    BY <2>2, <2>5
<1>9. Memory'
  BY <1>1, <1>5, <1>8 DEF IInv, Memory, FailedLookupIsMissing
<1>10. Types'
  BY <1>1, <1>6 DEF IInv, Types
<1>11. Storage' /\ Reads
  <2>1. Overwrites(files, files', next_id)
    BY <1>6 DEF Overwrites
  <2> QED
    BY <1>1, <1>5, <2>1, FilesStep
<1> QED
  BY <1>9, <1>10, <1>11 DEF IInv

LEMMA BucketStoreStep ==
    ASSUME IInv, bucket_store
    PROVE  IInv' /\ Reads
<1> DEFINE d == dirnode
           i == NextDirty
           o == d.bucket_list[i]
           b == Stored(o, next_id + 1)
           new == [dir_entries |-> b.dir_entries, mac |-> next_id + 1]
           Put(file) == files' = [id \in DOMAIN files \union {b.uuid} |->
                                     IF id = b.uuid THEN file ELSE files[id]]
<1>1. /\ pc = "delete" /\ DirtyBuckets(d) # {} /\ next_id < MaxId /\ is_invalid = FALSE
      /\ next_id' = next_id + 1 /\ main' = main /\ committed' = committed
      /\ dirnode' = [d EXCEPT !.bucket_list[i] = b]
      /\ \/ Put(new) /\ is_invalid' = is_invalid /\ pc' = pc
         \/ /\ Put(new) \/ Put(Torn) \/ files' = files
            /\ is_invalid' = TRUE /\ pc' = "idle"
  BY DEF bucket_store, IInv, Storage, Types
<1>2. /\ Shape(d) /\ Ids(d.bucket_list, next_id) /\ next_id \in Nat /\ next_id + 1 \in 1 .. MaxId
      /\ d \in DirnodeType /\ d.bucket_list \in Seq(Bucket)
  BY <1>1, MaxIdAssumption DEF IInv, Memory, Types, Shape, DirnodeType
<1>3. i \in 2 .. Len(d.bucket_list)
  <2>1. DirtyBuckets(d) \in SUBSET Nat /\ DirtyBuckets(d) \subseteq 2 .. Len(d.bucket_list)
    BY <1>2 DEF DirtyBuckets, Indices
  <2>2. \E k \in DirtyBuckets(d) : \A j \in DirtyBuckets(d) : k <= j
    BY <1>1, <2>1, LeastOne
  <2> QED
    BY <2>1, <2>2 DEF NextDirty
<1> HIDE DEF i
<1>4. o \in Bucket /\ i \in 1 .. Len(d.bucket_list)
  BY <1>2, <1>3
<1>5. /\ b \in Bucket /\ b.uuid = o.uuid /\ b.dir_entries = o.dir_entries
      /\ b.num_items = o.num_items /\ b.size_bytes = o.size_bytes
      /\ b.is_dirty = FALSE /\ b.mac = next_id + 1
  <2>1. next_id + 1 \in Nat
    BY <1>2
  <2>2. b = Stored(o, next_id + 1)
    OBVIOUS
  <2> DEFINE n == next_id + 1
  <2>3. o \in Bucket /\ n \in Nat /\ b = Stored(o, n)
    BY <1>4, <2>1, <2>2
  <2> HIDE DEF o, b, n
  <2>4. /\ b \in Bucket /\ b.uuid = o.uuid /\ b.dir_entries = o.dir_entries
        /\ b.num_items = o.num_items /\ b.size_bytes = o.size_bytes
        /\ b.is_dirty = FALSE /\ b.mac = n
    BY <2>3 DEF Stored, Bucket
  <2> QED
    BY <2>4 DEF n
<1>6. b.uuid \in Nat /\ b.dir_entries \in SUBSET Names
  BY <1>5 DEF Bucket
<1> HIDE DEF b
<1>7. /\ dirnode' \in DirnodeType /\ Len(dirnode'.bucket_list) = Len(d.bucket_list)
      /\ \A j \in 1 .. Len(d.bucket_list) : j # i => dirnode'.bucket_list[j] = d.bucket_list[j]
      /\ dirnode'.bucket_list[i] = b
      /\ dirnode'.dir_entry_count = d.dir_entry_count
      /\ dirnode'.dir_entry_buflen = d.dir_entry_buflen
      /\ dirnode'.last_failed_lookup = d.last_failed_lookup
  <2>1. [d.bucket_list EXCEPT ![i] = b] \in Seq(Bucket)
    BY <1>2, <1>4, <1>5
  <2>2. /\ dirnode'.bucket_list = [d.bucket_list EXCEPT ![i] = b]
        /\ dirnode'.dir_entry_count = d.dir_entry_count
        /\ dirnode'.dir_entry_buflen = d.dir_entry_buflen
        /\ dirnode'.last_failed_lookup = d.last_failed_lookup
        /\ dirnode' \in DirnodeType
    BY <1>1, <1>2, <2>1 DEF DirnodeType
  <2> QED
    BY <1>2, <1>4, <2>2
<1>8. SameBuckets(d, dirnode')
  BY <1>4, <1>5, <1>7 DEF SameBuckets
<1>9. Shape(dirnode') /\ Entries(dirnode') = Entries(d)
  BY <1>2, <1>8, SameShape
<1>10. Ids(dirnode'.bucket_list, next_id + 1)
  <2>1. Ids(d.bucket_list, next_id + 1)
    BY <1>2, IdsLater
  <2> QED
    BY <1>2, <1>4, <1>5, <1>7, <2>1 DEF Ids
<1>11. new \in FileType /\ new = FileOf(b) /\ new.mac = next_id + 1
  BY <1>2, <1>5, <1>6 DEF FileType, FileOf
<1>12. \A id \in DOMAIN files' : \/ id \in DOMAIN files /\ files'[id] = files[id]
                                 \/ id = b.uuid /\ files'[id] \in {new, Torn}
  <2>1. CASE Put(new)
    BY <2>1
  <2>2. CASE Put(Torn)
    BY <2>2
  <2>3. CASE files' = files
    BY <2>3
  <2> QED
    BY <1>1, <2>1, <2>2, <2>3
<1>13. Types'
  <2>1. \A id \in DOMAIN files' : id \in Nat /\ (files'[id] = Torn \/ files'[id] \in FileType)
    BY <1>6, <1>11, <1>12 DEF IInv, Types
  <2>2. \/ main = Torn
        \/ main \in MainType /\ Len(main.records) >= 1 /\ Ids(main.records, next_id + 1)
    BY <1>2, RecordIdsLater DEF IInv, Types
  <2>3. is_invalid' \in BOOLEAN /\ pc' \in {"idle", "delete"} /\ committed \subseteq Names
    BY <1>1 DEF IInv, Types
  <2> QED
    BY <1>1, <1>2, <2>1, <2>2, <2>3 DEF Types
<1>14. ~is_invalid' => CleanOnFile(dirnode', files')
  <2> SUFFICES ASSUME ~is_invalid', NEW j \in 2 .. Len(dirnode'.bucket_list),
                      dirnode'.bucket_list[j].is_dirty = FALSE
               PROVE  OnFile(dirnode'.bucket_list[j], files')
    BY DEF CleanOnFile
  <2>1. Put(new)
    BY <1>1
  <2>2. CASE j = i
    BY <1>7, <1>11, <2>1, <2>2 DEF OnFile
  <2>3. CASE j # i
    <3>1. j \in 1 .. Len(d.bucket_list) /\ j \in 2 .. Len(d.bucket_list)
      BY <1>2, <1>7
    <3>2. dirnode'.bucket_list[j] = d.bucket_list[j] /\ d.bucket_list[j].uuid # b.uuid
      BY <1>2, <1>4, <1>5, <1>7, <2>3, <3>1 DEF Shape
    <3>3. OnFile(d.bucket_list[j], files)
      BY <1>1, <3>1, <3>2 DEF IInv, Memory, CleanOnFile
    <3>4. OnFile(d.bucket_list[j], files')
      BY <2>1, <3>2, <3>3 DEF OnFile
    <3> QED
      BY <3>2, <3>4
  <2> QED
    BY <2>2, <2>3
<1>15. Memory'
  BY <1>1, <1>7, <1>9, <1>10, <1>14 DEF IInv, Memory, FailedLookupIsMissing
<1>16. Storage' /\ Reads
  <2>1. Overwrites(files, files', next_id)
    BY <1>11, <1>12 DEF Overwrites
  <2>2. is_invalid' \in BOOLEAN /\ pc' \in {"idle", "delete"} /\ (pc' = "delete" <=> ~is_invalid')
    BY <1>1
  <2> QED
    BY <1>1, <1>9, <2>1, <2>2, FilesStep
<1> QED
  BY <1>13, <1>15, <1>16 DEF IInv

(* The main file is written.                                               *)
LEMMA StoreStep ==
    ASSUME IInv, dirnode_store
    PROVE  IInv' /\ Reads
<1> DEFINE d == dirnode
           l == d.bucket_list
           m == dirnode_serialize(d)
<1>1. /\ pc = "delete" /\ DirtyBuckets(d) = {} /\ is_invalid = FALSE
      /\ dirnode' = [d EXCEPT !.bucket_list[1].is_dirty = FALSE]
      /\ pc' = "idle" /\ files' = files /\ next_id' = next_id
      /\ \/ main' = m /\ committed' = Entries(d) /\ is_invalid' = is_invalid
         \/ main' \in {m, Torn, main} /\ is_invalid' = TRUE /\ committed' = committed
  BY DEF dirnode_store, IInv, Storage, Types
<1>2. /\ Shape(d) /\ Ids(l, next_id) /\ next_id \in Nat /\ d \in DirnodeType /\ l \in Seq(Bucket)
      /\ 1 \in 1 .. Len(l) /\ CleanOnFile(d, files) /\ d.last_failed_lookup \notin Entries(d)
  BY <1>1 DEF IInv, Memory, Types, Shape, DirnodeType, FailedLookupIsMissing
<1>3. \A i \in 2 .. Len(l) : l[i].is_dirty = FALSE
  <2>1. \A i \in 2 .. Len(l) : i \in Indices(d) \ {1} /\ l[i] \in Bucket
    BY <1>2 DEF Indices
  <2> QED
    BY <1>1, <2>1 DEF DirtyBuckets, Bucket
<1>4. /\ m \in MainType /\ Len(m.records) >= 1 /\ Ids(m.records, next_id)
      /\ LoadsOf(m, files) /\ Shape(LoadOf(m, files)) /\ ReadOf(m, files) = Entries(d)
  BY <1>2, <1>3, SerializeLoads
<1> HIDE DEF m
<1> DEFINE b == [l[1] EXCEPT !.is_dirty = FALSE]
<1>5. /\ b \in Bucket /\ b.uuid = l[1].uuid /\ b.dir_entries = l[1].dir_entries
      /\ b.num_items = l[1].num_items /\ b.size_bytes = l[1].size_bytes /\ b.mac = l[1].mac
  <2>1. l[1] \in Bucket
    BY <1>2
  <2> QED
    BY <2>1 DEF Bucket
<1>6. dirnode' = [d EXCEPT !.bucket_list[1] = b]
  BY <1>1
<1> HIDE DEF b
<1>7. /\ dirnode' \in DirnodeType /\ Len(dirnode'.bucket_list) = Len(l)
      /\ \A j \in 1 .. Len(l) : j # 1 => dirnode'.bucket_list[j] = l[j]
      /\ dirnode'.bucket_list[1] = b
      /\ dirnode'.dir_entry_count = d.dir_entry_count
      /\ dirnode'.dir_entry_buflen = d.dir_entry_buflen
      /\ dirnode'.last_failed_lookup = d.last_failed_lookup
  <2>1. [l EXCEPT ![1] = b] \in Seq(Bucket)
    BY <1>2, <1>5
  <2>2. /\ dirnode'.bucket_list = [l EXCEPT ![1] = b]
        /\ dirnode'.dir_entry_count = d.dir_entry_count
        /\ dirnode'.dir_entry_buflen = d.dir_entry_buflen
        /\ dirnode'.last_failed_lookup = d.last_failed_lookup
        /\ dirnode' \in DirnodeType
    BY <1>2, <1>6, <2>1 DEF DirnodeType
  <2> QED
    BY <1>2, <2>2
<1>8. Shape(dirnode') /\ Entries(dirnode') = Entries(d)
  <2>1. SameBuckets(d, dirnode')
    BY <1>2, <1>5, <1>7 DEF SameBuckets
  <2> QED
    BY <1>2, <2>1, SameShape
<1>9. Ids(dirnode'.bucket_list, next_id)
  BY <1>2, <1>5, <1>7 DEF Ids
<1>10. CleanOnFile(dirnode', files')
  <2>1. \A j \in 2 .. Len(l) : dirnode'.bucket_list[j] = l[j]
    BY <1>2, <1>7
  <2> QED
    BY <1>1, <1>2, <1>7, <2>1 DEF CleanOnFile
<1>11. Memory'
  BY <1>1, <1>2, <1>7, <1>8, <1>9, <1>10 DEF Memory, FailedLookupIsMissing
<1>12. Entries(d) \in SUBSET Names /\ Entries(d) # {NoName}
  BY <1>2, NoNameIsMissing
<1>13. Types'
  <2>1. \/ main' = Torn
        \/ main' \in MainType /\ Len(main'.records) >= 1 /\ Ids(main'.records, next_id)
    BY <1>1, <1>4 DEF IInv, Types
  <2>2. committed' \subseteq Names /\ is_invalid' \in BOOLEAN
    BY <1>1, <1>12 DEF IInv, Types
  <2>3. \A id \in DOMAIN files : id \in Nat /\ (files[id] = Torn \/ files[id] \in FileType)
    BY DEF IInv, Types
  <2> QED
    BY <1>1, <2>1, <2>2, <2>3 DEF IInv, Types
<1>14. /\ committed # Entries(d) /\ ~Ready
       /\ LoadsOf(main, files) => /\ ReadOf(main, files) = committed
                                  /\ Shape(LoadOf(main, files))
  BY <1>1 DEF IInv, Storage, Ready
<1>15. ViewOf(main, files) # Entries(d)
  BY <1>12, <1>14 DEF ViewOf
<1>16. CASE main' = m /\ committed' = Entries(d) /\ is_invalid' = is_invalid
  <2>1. Storage'
    BY <1>1, <1>4, <1>8, <1>16 DEF Storage, Ready
  <2>2. ViewOf(main', files') = Entries(d)
    BY <1>1, <1>4, <1>16 DEF ViewOf
  <2>3. (~Ready)' = FALSE
    BY <1>1, <1>16 DEF Ready
  <2>4. Read!Finish
    BY <1>8, <1>14, <1>16, <2>2, <2>3, AbstractState
  <2> QED
    BY <1>11, <1>13, <2>1, <2>4 DEF IInv, Reads, Read!Next
<1>17. CASE main' \in {m, Torn, main} /\ is_invalid' = TRUE /\ committed' = committed
  <2>1. ~Ready' /\ pc' = "idle"
    BY <1>1, <1>17 DEF Ready
  <2>2. CASE main' = m
    <3>1. Storage'
      BY <1>1, <1>4, <1>8, <2>1, <2>2 DEF Storage
    <3>2. ViewOf(main', files') = Entries(d)
      BY <1>1, <1>4, <2>2 DEF ViewOf
    <3>3. Reads
      BY <1>8, <1>14, <1>15, <1>17, <2>1, <3>2, ProgressReads
    <3> QED
      BY <1>11, <1>13, <3>1, <3>3 DEF IInv
  <2>3. CASE main' = Torn
    <3>1. ~LoadsOf(main', files')
      BY <2>3 DEF LoadsOf
    <3>2. Storage'
      BY <2>1, <3>1 DEF Storage
    <3>3. ViewOf(main', files') = {NoName}
      BY <3>1 DEF ViewOf
    <3>4. Reads
      BY <1>8, <1>14, <1>15, <1>17, <2>1, <3>3, ProgressReads
    <3> QED
      BY <1>11, <1>13, <3>2, <3>4 DEF IInv
  <2>4. CASE main' = main
    <3>1. Storage'
      BY <1>1, <1>14, <1>17, <2>1, <2>4 DEF Storage
    <3>2. ViewOf(main', files') = ViewOf(main, files)
      BY <1>1, <2>4
    <3>3. Ready' <=> Ready
      BY <1>14, <2>1
    <3>4. Reads
      BY <1>8, <1>17, <3>2, <3>3, StutterReads
    <3> QED
      BY <1>11, <1>13, <3>1, <3>4 DEF IInv
  <2> QED
    BY <1>17, <2>2, <2>3, <2>4
<1> QED
  BY <1>1, <1>16, <1>17

LEMMA ReloadStep ==
    ASSUME IInv, Reload
    PROVE  IInv' /\ Reads
<1> DEFINE l == LoadOf(main, files)
<1>1. /\ pc = "idle" /\ is_invalid /\ LoadsOf(main, files) /\ dirnode' = l /\ is_invalid' = FALSE
      /\ committed' = Entries(l)
      /\ pc' = pc /\ main' = main /\ files' = files /\ next_id' = next_id
  BY LoadIs DEF Reload
<1>2. Shape(l)
  BY <1>1 DEF IInv, Storage
<1>3. /\ main \in MainType /\ Ids(main.records, next_id) /\ next_id \in Nat
      /\ \A id \in DOMAIN files : files[id] = Torn \/ files[id] \in FileType
  BY <1>1 DEF IInv, Types, LoadsOf
<1>4. l = LoadOf(main, files)
  OBVIOUS
<1> HIDE DEF l
<1>5. Ids(l.bucket_list, next_id) /\ CleanOnFile(l, files) /\ l.last_failed_lookup = NoName
  BY <1>1, <1>3, <1>4, LoadedOnFile
<1>6. NoName \notin Entries(l) /\ Entries(l) \in SUBSET Names /\ Entries(l) # {NoName}
  BY <1>2, NoNameIsMissing
<1>7. Memory'
  BY <1>1, <1>2, <1>5, <1>6 DEF Memory, FailedLookupIsMissing
<1>8. Types'
  BY <1>1, <1>6 DEF IInv, Types
<1>9. ReadOf(main, files) = Entries(l)
  BY <1>4 DEF ReadOf
<1>10. Storage'
  BY <1>1, <1>2, <1>4, <1>9 DEF Storage
<1>11. /\ ViewOf(main, files) = Entries(l) /\ ViewOf(main', files') = Entries(l)
       /\ ~Ready /\ (~Ready)' = FALSE
  BY <1>1, <1>9 DEF ViewOf, Ready
<1>12. Read!Open
  BY <1>1, <1>6, <1>11, AbstractState
<1> QED
  BY <1>7, <1>8, <1>10, <1>12 DEF IInv, Reads, Read!Next

LEMMA CrashStep ==
    ASSUME IInv, Crash
    PROVE  IInv' /\ Reads
<1>1. /\ is_invalid' = TRUE /\ pc' = "idle" /\ dirnode' = dirnode /\ main' = main
      /\ files' = files /\ next_id' = next_id /\ committed' = committed
  BY DEF Crash
<1>2. Memory'
  BY <1>1 DEF IInv, Memory, FailedLookupIsMissing
<1>3. Types'
  BY <1>1 DEF IInv, Types
<1>4. (~Ready)' = TRUE /\ ~Ready'
  BY <1>1 DEF Ready
<1>5. Storage'
  BY <1>1, <1>4 DEF IInv, Storage
<1>6. Read!Lose
  BY <1>1, <1>4, AbstractState
<1> QED
  BY <1>2, <1>3, <1>5, <1>6 DEF IInv, Reads, Read!Next

LEMMA NextStep == IInv /\ [Next]_vars => IInv' /\ [Read!Next]_(Read!vars)
<1> SUFFICES ASSUME IInv, [Next]_vars PROVE IInv' /\ Reads
  BY DEF Reads
<1>1. CASE UNCHANGED vars
  <2>1. /\ dirnode' = dirnode /\ is_invalid' = is_invalid /\ pc' = pc /\ main' = main
        /\ files' = files /\ next_id' = next_id /\ committed' = committed
    BY <1>1 DEF vars
  <2>2. Types' /\ Memory' /\ Storage'
    BY <2>1 DEF IInv, Types, Memory, Storage, FailedLookupIsMissing, Ready
  <2>3. Reads
    BY <2>1, StutterReads DEF Ready
  <2> QED
    BY <2>2, <2>3 DEF IInv
<1>2. CASE \E name \in Names : dirnode_find_by_name(name)
  BY <1>2, FindStep
<1>3. CASE \E name \in Names : dirnode_add(name) \/ dirnode_remove(name)
  BY <1>3, OperationStep
<1>4. CASE \E oldname, newname \in Names : Rename(oldname, newname)
  BY <1>4, OperationStep
<1> QED
  BY <1>1, <1>2, <1>3, <1>4, DropStep, BucketStoreStep, StoreStep, ReloadStep, CrashStep DEF Next

LEMMA Invariance == Spec => []IInv
<1>1. Init => IInv
  BY InitIInv
<1>2. IInv /\ [Next]_vars => IInv'
  BY NextStep
<1> QED
  BY <1>1, <1>2, PTL DEF Spec
-----------------------------------------------------------------------------
(* The dirnode and its files keep their types through every operation,     *)
(* failure and crash: none of the unsigned counters of dirnode.c and       *)
(* bucket.c is ever decremented below zero.                                *)
THEOREM TypeCorrect == Spec => []TypeOK
<1>1. IInv => TypeOK
  BY DEF IInv, Types, Memory, Shape, TypeOK, DirnodeType, MainType, FileType
<1> QED
  BY <1>1, Invariance, PTL

(* However many names there are and whatever their records take: no bucket *)
(* is over BUCKET_CAPACITY, no name is in two buckets, and num_items,      *)
(* size_bytes and the counters of the header are those of the lists, after *)
(* additions, removals, renames, dropped buckets and reloads.              *)
THEOREM ShapeHolds == Spec => []BucketsShape
<1>1. IInv => BucketsShape
  <2> SUFFICES ASSUME Shape(dirnode) PROVE BucketsShape
    BY DEF IInv, Memory
  <2>1. DOMAIN dirnode.bucket_list = 1 .. Len(dirnode.bucket_list)
    BY DEF Shape, DirnodeType
  <2> QED
    BY <2>1 DEF Shape, BucketsShape
<1> QED
  BY <1>1, Invariance, PTL

(* The name that __find_by_name answers from last_failed_lookup is in no   *)
(* bucket, whatever changed the directory since the lookup.                *)
THEOREM FailedLookupsAreMissing == Spec => []FailedLookupIsMissing
<1>1. IInv => FailedLookupIsMissing
  BY DEF IInv, Memory
<1> QED
  BY <1>1, Invariance, PTL

(* After a store that succeeded, and after a reload, the main file and the *)
(* bucket files its records name give the entries of the dirnode.          *)
THEOREM StoresReadBack == Spec => []StoredReadsBack
<1>1. IInv => StoredReadsBack
  BY LoadIs DEF IInv, Storage, StoredReadsBack, ReadOf
<1> QED
  BY <1>1, Invariance, PTL

(* At every moment of a store, and after any failure or crash, a client    *)
(* that loads the directory gets the entries from before the operation or  *)
(* those from after it, and the header counts them.                        *)
THEOREM ReadersSeeOldOrNew == Spec => []LoadsOldOrNew
<1>1. IInv => LoadsOldOrNew
  <2> SUFFICES ASSUME IInv, LoadsOf(main, files)
               PROVE  /\ ReadOf(main, files) \in {committed, Entries(dirnode)}
                      /\ main.dir_entry_count = Cardinality(ReadOf(main, files))
    BY LoadIs DEF LoadsOldOrNew, ReadOf
  <2>1. /\ Shape(LoadOf(main, files))
        /\ ReadOf(main, files) \in {committed, Entries(dirnode)}
    BY DEF IInv, Storage
  <2>2. LoadOf(main, files).dir_entry_count = main.dir_entry_count
    BY DEF LoadOf
  <2> QED
    BY <2>1, <2>2 DEF Shape, ReadOf
<1> QED
  BY <1>1, Invariance, PTL

(* dirnode_store over several bucket files implements the abstract         *)
(* Directory: each deletion or write of a file, each failure, crash and    *)
(* reload is a step of it or changes nothing that a reader can see.        *)
THEOREM Refinement == Spec => ImplementsDirectory
<1>1. Init => Read!Init
  BY InitIInv
<1>2. IInv /\ [Next]_vars => [Read!Next]_(Read!vars)
  BY NextStep
<1> QED
  BY <1>1, <1>2, Invariance, PTL DEF Spec, ImplementsDirectory, Read!Spec
=============================================================================

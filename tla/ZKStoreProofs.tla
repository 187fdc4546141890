---------------------------- MODULE ZKStoreProofs ----------------------------
(***************************************************************************)
(* What ZKStore's calls promise, for any number of clients, names,         *)
(* variants, calls and failed requests.                                    *)
(***************************************************************************)
EXTENDS ZKStore, TLAPS

(* Paths. *)

Segment == STRING \cup {Bucket[n] : n \in Names} \cup Names \cup Variants

BucketPath(n) == Buckets \o <<Bucket[n]>>

LEMMA BucketsType == Buckets \in Seq(Segment) /\ Len(Buckets) \in Nat \ {0}
  BY ZKStoreAssumption DEF Segment

\* The segments of an item's or a variant's path.
LEMMA IdentPathType ==
  ASSUME NEW id \in Idents
  PROVE  /\ IdentPath(id) \in Seq(Segment)
         /\ Len(IdentPath(id)) = Len(Buckets) + IF id.variant = NoVariant THEN 2 ELSE 3
         /\ \A i \in 1 .. Len(Buckets) : IdentPath(id)[i] = Buckets[i]
         /\ IdentPath(id)[Len(Buckets) + 1] = Bucket[id.name]
         /\ IdentPath(id)[Len(Buckets) + 2] = id.name
<1>1. /\ id.name \in Names /\ id.name \in Segment /\ Bucket[id.name] \in Segment
      /\ id.variant # NoVariant => id.variant \in Segment
  BY Zenon DEF Idents, Segment
<1>2. CASE id.variant = NoVariant
  BY <1>1, <1>2, BucketsType DEF IdentPath, identPath
<1>3. CASE id.variant # NoVariant
  BY <1>1, <1>3, BucketsType DEF IdentPath, identPath
<1> QED
  BY <1>2, <1>3, Zenon

\* A path that begins another.
LEMMA Prefix ==
  ASSUME NEW q \in Seq(Segment), NEW i \in 0 .. Len(q)
  PROVE  /\ SubSeq(q, 1, i) \in Seq(Segment) /\ Len(SubSeq(q, 1, i)) = i
         /\ \A j \in 1 .. i : SubSeq(q, 1, i)[j] = q[j]
  OBVIOUS

LEMMA SameSeq ==
  ASSUME NEW p \in Seq(Segment), NEW q \in Seq(Segment), Len(p) = Len(q),
         \A j \in 1 .. Len(p) : p[j] = q[j]
  PROVE  p = q
  OBVIOUS

LEMMA PrefixOfPrefix ==
  ASSUME NEW q \in Seq(Segment), NEW i \in 1 .. Len(q), NEW j \in 0 .. i
  PROVE  SubSeq(SubSeq(q, 1, i), 1, j) = SubSeq(q, 1, j)
<1>1. /\ SubSeq(q, 1, i) \in Seq(Segment) /\ Len(SubSeq(q, 1, i)) = i
      /\ \A k \in 1 .. i : SubSeq(q, 1, i)[k] = q[k]
  BY Prefix
<1> DEFINE r == SubSeq(q, 1, i)
<1>2. /\ SubSeq(r, 1, j) \in Seq(Segment) /\ Len(SubSeq(r, 1, j)) = j
      /\ \A k \in 1 .. j : SubSeq(r, 1, j)[k] = q[k]
  <2> HIDE DEF r
  <2>1. r \in Seq(Segment) /\ Len(r) = i /\ \A k \in 1 .. i : r[k] = q[k]
    BY <1>1, Zenon DEF r
  <2> QED
    BY <2>1
<1>3. /\ SubSeq(q, 1, j) \in Seq(Segment) /\ Len(SubSeq(q, 1, j)) = j
      /\ \A k \in 1 .. j : SubSeq(q, 1, j)[k] = q[k]
  OBVIOUS
<1> HIDE DEF r
<1>4. SubSeq(r, 1, j) = SubSeq(q, 1, j)
  BY <1>2, <1>3, SameSeq, Zenon
<1> QED
  BY <1>4, Zenon DEF r

\* The paths that a store knows, by their lengths.
LEMMA PathsKnown ==
  /\ \A id \in Idents : \A i \in 1 .. Len(IdentPath(id)) :
       /\ SubSeq(IdentPath(id), 1, i) \in Paths /\ Len(SubSeq(IdentPath(id), 1, i)) = i
  /\ \A id \in Idents : /\ IdentPath(id) \in Paths
                        /\ SubSeq(IdentPath(id), 1, Len(IdentPath(id))) = IdentPath(id)
  /\ \A p \in Paths : /\ p \in Seq(Segment) /\ Len(p) \in 1 .. Len(Buckets) + 3
                      /\ Len(p) > 1 => Parent(p) \in Paths /\ Len(Parent(p)) = Len(p) - 1
<1>1. ASSUME NEW id \in Idents, NEW i \in 1 .. Len(IdentPath(id))
      PROVE  /\ SubSeq(IdentPath(id), 1, i) \in Paths
             /\ Len(SubSeq(IdentPath(id), 1, i)) = i
             /\ SubSeq(IdentPath(id), 1, i) \in Seq(Segment)
  BY IdentPathType, Prefix DEF Paths, UpTo
<1>2. ASSUME NEW id \in Idents
      PROVE  /\ IdentPath(id) \in Paths
             /\ SubSeq(IdentPath(id), 1, Len(IdentPath(id))) = IdentPath(id)
  <2>1. /\ IdentPath(id) \in Seq(Segment)
        /\ Len(IdentPath(id)) \in 1 .. Len(IdentPath(id))
    BY IdentPathType, BucketsType
  <2>2. SubSeq(IdentPath(id), 1, Len(IdentPath(id))) = IdentPath(id)
    BY <2>1
  <2> QED
    BY <1>1, <2>1, <2>2, Zenon
<1>3. ASSUME NEW p \in Paths
      PROVE  /\ p \in Seq(Segment) /\ Len(p) \in 1 .. Len(Buckets) + 3
             /\ Len(p) > 1 => Parent(p) \in Paths /\ Len(Parent(p)) = Len(p) - 1
  <2>0. PICK id \in Idents : p \in UpTo(IdentPath(id))
    BY Zenon DEF Paths
  <2>1. PICK i \in 1 .. Len(IdentPath(id)) : p = SubSeq(IdentPath(id), 1, i)
    BY <2>0, Zenon DEF UpTo
  <2>2. Len(IdentPath(id)) \in Nat /\ Len(IdentPath(id)) <= Len(Buckets) + 3
        /\ IdentPath(id) \in Seq(Segment) /\ Len(Buckets) \in Nat
    BY IdentPathType, BucketsType
  <2>3. p \in Seq(Segment) /\ Len(p) = i
    BY <1>1, <2>1, Zenon
  <2>4. ASSUME Len(p) > 1 PROVE Parent(p) \in Paths /\ Len(Parent(p)) = Len(p) - 1
    <3>1. i \in Int /\ i - 1 \in 1 .. Len(IdentPath(id)) /\ i - 1 \in 0 .. i
      BY <2>1, <2>2, <2>3, <2>4
    <3>2. Parent(p) = SubSeq(IdentPath(id), 1, i - 1)
      BY <2>1, <2>2, <2>3, <3>1, PrefixOfPrefix, Zenon DEF Parent
    <3> QED
      BY <1>1, <2>3, <3>1, <3>2, Zenon
  <2> QED
    BY <2>2, <2>3, <2>4
<1> QED
  BY <1>1, <1>2, <1>3, Zenon

\* An item's path has the parent that List looks at, and ends with its name.
LEMMA ItemPathKnown ==
  ASSUME NEW n \in Names
  PROVE  /\ ItemPath(n) \in Paths /\ Len(ItemPath(n)) = Len(Buckets) + 2
         /\ ItemPath(n)[Len(ItemPath(n))] = n
         /\ BucketPath(n) \in Paths /\ Len(BucketPath(n)) = Len(Buckets) + 1
         /\ Parent(ItemPath(n)) = BucketPath(n)
         /\ Buckets \in Paths /\ Parent(BucketPath(n)) = Buckets
<1> DEFINE id == [name |-> n, variant |-> NoVariant]
<1>1. id \in Idents /\ id.name = n /\ id.variant = NoVariant /\ ItemPath(n) = IdentPath(id)
  BY Zenon DEF Idents, ItemPath
<1>2. /\ ItemPath(n) \in Seq(Segment) /\ Len(ItemPath(n)) = Len(Buckets) + 2
      /\ \A i \in 1 .. Len(Buckets) : ItemPath(n)[i] = Buckets[i]
      /\ ItemPath(n)[Len(Buckets) + 1] = Bucket[n]
      /\ ItemPath(n)[Len(Buckets) + 2] = n
  BY <1>1, IdentPathType, Zenon
<1>3. /\ BucketPath(n) \in Seq(Segment) /\ Len(BucketPath(n)) = Len(Buckets) + 1
      /\ \A i \in 1 .. Len(Buckets) : BucketPath(n)[i] = Buckets[i]
      /\ BucketPath(n)[Len(Buckets) + 1] = Bucket[n]
  <2>1. Bucket[n] \in Segment
    BY Zenon DEF Segment
  <2> QED
    BY <2>1, BucketsType DEF BucketPath
<1>4. Parent(ItemPath(n)) = BucketPath(n)
  <2>1. Len(Buckets) + 1 = Len(ItemPath(n)) - 1 /\ Len(Buckets) + 1 \in 0 .. Len(ItemPath(n))
    BY <1>2, BucketsType
  <2>2. /\ Parent(ItemPath(n)) \in Seq(Segment) /\ Len(Parent(ItemPath(n))) = Len(Buckets) + 1
        /\ \A j \in 1 .. Len(Buckets) + 1 : Parent(ItemPath(n))[j] = ItemPath(n)[j]
    BY <1>2, <2>1, Prefix, ZenonT(30) DEF Parent
  <2>3. \A j \in 1 .. Len(Buckets) + 1 : ItemPath(n)[j] = BucketPath(n)[j]
    BY <1>2, <1>3, BucketsType, SMTT(30)
  <2> QED
    BY <1>3, <2>2, <2>3, SameSeq, Zenon
<1>5. Parent(BucketPath(n)) = Buckets
  <2>1. Len(Buckets) = Len(BucketPath(n)) - 1 /\ Len(Buckets) \in 0 .. Len(BucketPath(n))
    BY <1>3, BucketsType
  <2>2. /\ Parent(BucketPath(n)) \in Seq(Segment) /\ Len(Parent(BucketPath(n))) = Len(Buckets)
        /\ \A j \in 1 .. Len(Buckets) : Parent(BucketPath(n))[j] = Buckets[j]
    BY <1>3, <2>1, Prefix, Zenon DEF Parent
  <2> QED
    BY <2>2, BucketsType, SameSeq, Zenon
<1>6. ItemPath(n) \in Paths /\ BucketPath(n) \in Paths /\ Buckets \in Paths
  BY <1>1, <1>2, <1>3, <1>4, <1>5, PathsKnown, BucketsType
<1> QED
  BY <1>2, <1>3, <1>4, <1>5, <1>6, Zenon

\* A path of an item's length is an item's path.
LEMMA ItemPathOnly ==
  ASSUME NEW p \in Paths, Len(p) = Len(Buckets) + 2
  PROVE  \E n \in Names : p = ItemPath(n)
<1>0. PICK id \in Idents : p \in UpTo(IdentPath(id))
  BY Zenon DEF Paths
<1>1. PICK i \in 1 .. Len(IdentPath(id)) : p = SubSeq(IdentPath(id), 1, i)
  BY <1>0, Zenon DEF UpTo
<1>2. i = Len(Buckets) + 2 /\ id.name \in Names
  BY <1>1, PathsKnown, Zenon DEF Idents
<1> DEFINE n == id.name  item == [name |-> n, variant |-> NoVariant]
<1>3. item \in Idents /\ item.name = n /\ item.variant = NoVariant /\ ItemPath(n) = IdentPath(item)
  BY <1>2, Zenon DEF Idents, ItemPath
<1>4. /\ ItemPath(n) \in Seq(Segment) /\ Len(ItemPath(n)) = Len(Buckets) + 2
      /\ \A j \in 1 .. Len(Buckets) + 2 : ItemPath(n)[j] = IdentPath(id)[j]
  <2>1. Len(Buckets) \in Nat
    BY BucketsType, Zenon
  <2>2. /\ ItemPath(n) \in Seq(Segment) /\ Len(ItemPath(n)) = Len(Buckets) + 2
        /\ \A j \in 1 .. Len(Buckets) : ItemPath(n)[j] = Buckets[j]
        /\ ItemPath(n)[Len(Buckets) + 1] = Bucket[n] /\ ItemPath(n)[Len(Buckets) + 2] = n
    BY <1>3, IdentPathType, Zenon
  <2>3. /\ \A j \in 1 .. Len(Buckets) : IdentPath(id)[j] = Buckets[j]
        /\ IdentPath(id)[Len(Buckets) + 1] = Bucket[n] /\ IdentPath(id)[Len(Buckets) + 2] = n
    BY IdentPathType, Zenon
  <2>4. \A j \in 1 .. Len(Buckets) + 2 :
          j \in 1 .. Len(Buckets) \/ j = Len(Buckets) + 1 \/ j = Len(Buckets) + 2
    BY <2>1
  <2> QED
    BY <2>2, <2>3, <2>4, Zenon
<1>5. p \in Seq(Segment) /\ \A j \in 1 .. Len(Buckets) + 2 : p[j] = IdentPath(id)[j]
  BY <1>1, <1>2, IdentPathType, Prefix
<1>6. p = ItemPath(n)
  BY <1>4, <1>5, SameSeq, Zenon
<1> QED
  BY <1>2, <1>6, Zenon

-----------------------------------------------------------------------------
(* The inductive invariant. *)

\* Where c's call has got to, and with which arguments.
PointOf(c) ==
  /\ pc[c] \in PutPoints => op[c].call = "put"
  /\ pc[c] \in DeletePoints => op[c].call = "delete"
  /\ pc[c] \in ListPoints => op[c].call = "list"
  /\ pc[c] # "idle" => ret[c] = "none" /\ seg[c] <= Len(Target(c))
  /\ pc[c] = "exists" => creatingNewItem(op[c].version)
  /\ pc[c] \in {"variants", "delVariants"} => op[c].ident.variant = NoVariant
  /\ pc[c] = "delVariants" => \A p \in todo[c] : Len(p) = Len(Buckets) + 3
  /\ pc[c] = "bucket" => \A p \in todo[c] : Len(p) = Len(Buckets) + 1

\* The znodes form a tree, and those of items and variants have data.
TreeInv ==
  \A p \in Paths : Exists(p) =>
    /\ Len(p) > 1 => Exists(Parent(p))
    /\ IsItemPath(p) <=> znode[p].data # NoData
    /\ znode[p].born <= zxid

\* What h says of a znode is still so, unless the znode is another one by now or got
\* a later version.
KnownOf(h) ==
  LET p == IdentPath(h.ident)
  IN  /\ h.born <= zxid
      /\ Exists(p) /\ znode[p].born = h.born =>
           /\ znode[p].version >= h.version
           /\ h.from = "get" /\ znode[p].version = h.version => znode[p].data = h.data

HeldOf(c) ==
  /\ held[c] # NoHeld => KnownOf(held[c])
  /\ op[c].basis # NoHeld => /\ KnownOf(op[c].basis)
                             /\ op[c].ident = op[c].basis.ident
                             /\ op[c].version = NewVersion(op[c].basis.version)

\* The version that c chose has been replaced for good.
Outdated(c) ==
  LET node == znode[Target(c)]  basis == op[c].basis
  IN  basis # NoHeld /\ node # NoNode /\ node.born = basis.born => node.version > basis.version

ConflictOf(c) ==
  /\ pc[c] \notin {"idle", "mustExist"} => Target(c) \notin touched[c]
  /\ ret[c] = "conflict" => Target(c) \notin touched[c] /\ Outdated(c)

GoneOf(c) ==
  /\ pc[c] # "idle" /\ ~Exists(Target(c)) => saw[c].absent
  /\ Returned(c, "delete", "ok") => saw[c].absent

ListOf(c) ==
  /\ pc[c] # "idle" => saw[c].always \subseteq Items /\ Items \subseteq saw[c].ever
  /\ op[c].call = "list" => found[c] \subseteq saw[c].ever
  /\ pc[c] = "bucket" => \A n \in saw[c].always : n \in found[c] \/ BucketPath(n) \in todo[c]
  /\ Returned(c, "list", "ok") \/ Returned(c, "list", "notFound") =>
       saw[c].always \subseteq found[c]

CallInv(c) == PointOf(c) /\ HeldOf(c) /\ ConflictOf(c) /\ GoneOf(c) /\ ListOf(c)

ZKInv == TypeOK /\ TreeInv /\ \A c \in Clients : CallInv(c)

-----------------------------------------------------------------------------
(* Types. *)

Results == {"none", "ok", "notFound", "conflict", "error"}

LEMMA InitType == Init => TypeOK
<1> SUFFICES ASSUME Init PROVE TypeOK
  BY Zenon
<1>1. workload \in Workloads /\ workload.maxOps \in Nat /\ workload.maxFaults \in Nat
  BY ZKStoreAssumption, Zenon DEF Init
<1>2. (CHOOSE id \in Idents : TRUE) \in Idents
  <2>1. PICK n \in Names : TRUE
    BY ZKStoreAssumption, Zenon
  <2>2. [name |-> n, variant |-> NoVariant] \in Idents
    BY Zenon DEF Idents
  <2> QED
    BY <2>2, Zenon
<1>3. \A c \in Clients : NoOp(c) \in Op
  BY <1>2 DEF NoOp, Op, Unset, Version, Data
<1> QED
  BY <1>1, <1>3 DEF Init, TypeOK, Points

LEMMA GotoType ==
  ASSUME TypeOK, NEW c \in Clients, NEW point \in Points, Goto(c, point)
  PROVE  pc' \in [Clients -> Points] /\ ret' \in [Clients -> Results]
  BY Zenon DEF TypeOK, Goto, Results

LEMMA ReturnType ==
  ASSUME TypeOK, NEW c \in Clients, NEW r \in Results, Return(c, r)
  PROVE  pc' \in [Clients -> Points] /\ ret' \in [Clients -> Results]
  BY Zenon DEF TypeOK, Return, Results, Points

LEMMA FaultType ==
  ASSUME TypeOK, UNCHANGED workload, NEW lost \in MayLose, Fault(lost)
  PROVE  faults' \in 0 .. workload'.maxFaults
<1>1. workload.maxFaults \in Nat
  BY ZKStoreAssumption, Zenon DEF TypeOK
<1>2. CASE lost = TRUE
  BY <1>1, <1>2 DEF TypeOK, MayLose, Fault
<1>3. CASE lost = FALSE
  BY <1>1, <1>3, Zenon DEF TypeOK, MayLose, Fault
<1> QED
  BY <1>2, <1>3, Zenon DEF MayLose

LEMMA ChangeType ==
  ASSUME TypeOK, NEW c \in Clients, NEW p \in Paths, NEW node \in Znode \cup {NoNode},
         Change(c, p, node)
  PROVE  /\ znode' \in [Paths -> Znode \cup {NoNode}]
         /\ touched' \in [Clients -> SUBSET Paths]
         /\ saw' \in [Clients -> [absent : BOOLEAN, always : SUBSET Names, ever : SUBSET Names]]
<1>1. znode' \in [Paths -> Znode \cup {NoNode}] /\ touched' \in [Clients -> SUBSET Paths]
  BY Zenon DEF TypeOK, Change
<1>2. ASSUME NEW d \in Clients
      PROVE  saw'[d] \in [absent : BOOLEAN, always : SUBSET Names, ever : SUBSET Names]
  <2>1. CASE pc[d] = "idle"
    BY <2>1, Zenon DEF TypeOK, Change
  <2>2. CASE pc[d] # "idle"
    <3>1. saw'[d] = [absent |-> saw[d].absent \/ znode'[IdentPath(op[d].ident)] = NoNode,
                     always |-> saw[d].always \cap Items', ever |-> saw[d].ever \cup Items']
      BY <2>2, Zenon DEF Change
    <3>2. /\ (saw[d].absent \/ znode'[IdentPath(op[d].ident)] = NoNode) \in BOOLEAN
          /\ saw[d].always \cap Items' \in SUBSET Names
          /\ saw[d].ever \cup Items' \in SUBSET Names
      BY Zenon DEF TypeOK, Items
    <3> QED
      BY <3>1, <3>2
  <2> QED
    BY <2>1, <2>2, Zenon
<1>3. DOMAIN saw' = Clients /\ saw' = [d \in Clients |-> saw'[d]]
  BY Zenon DEF Change
<1> QED
  BY <1>1, <1>2, <1>3, Zenon

-----------------------------------------------------------------------------
(* Steps, and what they do to the calls of others. *)

SameOf(d) ==
  /\ pc'[d] = pc[d] /\ op'[d] = op[d] /\ seg'[d] = seg[d] /\ todo'[d] = todo[d]
  /\ found'[d] = found[d] /\ ret'[d] = ret[d] /\ held'[d] = held[d]
  /\ touched'[d] = touched[d]

OthersSame(c) == \A d \in Clients \ {c} : SameOf(d)

\* Nothing happens in ZooKeeper, and nothing that d would see.
LEMMA OthersQuiet ==
  ASSUME ZKInv, UNCHANGED <<znode, zxid>>, NEW d \in Clients, SameOf(d), saw'[d] = saw[d]
  PROVE  CallInv(d)'
<1>1. /\ pc'[d] = pc[d] /\ op'[d] = op[d] /\ seg'[d] = seg[d] /\ todo'[d] = todo[d]
      /\ found'[d] = found[d] /\ ret'[d] = ret[d] /\ held'[d] = held[d]
      /\ touched'[d] = touched[d] /\ saw'[d] = saw[d] /\ znode' = znode /\ zxid' = zxid
  BY Zenon DEF SameOf
<1>2. CallInv(d)
  BY Zenon DEF ZKInv
<1>3. PointOf(d)'
  BY <1>1, <1>2, Zenon DEF CallInv, PointOf, Target
<1>4. HeldOf(d)'
  BY <1>1, <1>2, Zenon DEF CallInv, HeldOf, KnownOf, Exists
<1>5. ConflictOf(d)'
  BY <1>1, <1>2, Zenon DEF CallInv, ConflictOf, Outdated, Target
<1>6. GoneOf(d)'
  BY <1>1, <1>2, Zenon DEF CallInv, GoneOf, Returned, Target, Exists
<1>7. ListOf(d)'
  BY <1>1, <1>2, Zenon DEF CallInv, ListOf, Returned, Items, Exists
<1> QED
  BY <1>3, <1>4, <1>5, <1>6, <1>7, Zenon DEF CallInv

LEMMA TreeQuiet ==
  ASSUME ZKInv, UNCHANGED <<znode, zxid>>
  PROVE  TreeInv'
  BY Zenon DEF ZKInv, TreeInv, Exists

\* A step of c's own, with nothing happening in ZooKeeper.
LEMMA QuietStep ==
  ASSUME ZKInv, NEW c \in Clients, TypeOK', OthersSame(c), UNCHANGED <<znode, zxid>>,
         \A d \in Clients \ {c} : saw'[d] = saw[d], CallInv(c)'
  PROVE  ZKInv'
<1>1. \A d \in Clients : CallInv(d)'
  BY OthersQuiet, Zenon DEF OthersSame
<1> QED
  BY <1>1, TreeQuiet, Zenon DEF ZKInv

\* The ways in which a request changes the znode at p: Set, Create and Delete.
Evolves(p, node) ==
  \/ /\ Exists(p) /\ node # NoNode /\ node.version = znode[p].version + 1
     /\ node.born = znode[p].born /\ zxid' = zxid
     /\ node.data # NoData /\ IsItemPath(p)
  \/ /\ ~Exists(p) /\ (Len(p) > 1 => Exists(Parent(p))) /\ zxid' = zxid + 1
     /\ node # NoNode /\ node.version = 0 /\ node.born = zxid + 1
     /\ IsItemPath(p) <=> node.data # NoData
  \/ Exists(p) /\ Children(p) = {} /\ node = NoNode /\ zxid' = zxid

LEMMA KnownStays ==
  ASSUME TypeOK, NEW h \in Held, KnownOf(h), NEW p \in Paths, NEW node \in Znode \cup {NoNode},
         znode' = [znode EXCEPT ![p] = node], Evolves(p, node)
  PROVE  KnownOf(h)'
<1> DEFINE q == IdentPath(h.ident)
<1>1. q \in Paths /\ h.born \in Nat /\ h.version \in Nat
  BY PathsKnown, Zenon DEF Held
<1>2. znode'[q] = IF q = p THEN node ELSE znode[q]
  BY <1>1, Zenon DEF TypeOK
<1>3. zxid \in Nat /\ zxid' \in Nat /\ zxid' >= zxid
  BY DEF TypeOK, Evolves
<1>4. h.born <= zxid'
  BY <1>1, <1>3 DEF KnownOf
<1>5. ASSUME znode'[q] # NoNode, znode'[q].born = h.born
      PROVE  /\ znode'[q].version >= h.version
             /\ h.from = "get" /\ znode'[q].version = h.version => znode'[q].data = h.data
  <2>1. CASE q # p
    BY <1>2, <1>5, <2>1, Zenon DEF KnownOf, Exists
  <2>2. CASE q = p
    <3>1. znode'[q] = node /\ node # NoNode /\ node.born = h.born
      BY <1>2, <1>5, <2>2, Zenon
    <3>2. Exists(q) /\ node.version = znode[q].version + 1 /\ znode[q].born = h.born
      BY <1>1, <1>3, <2>2, <3>1 DEF Evolves, KnownOf
    <3>3. znode[q].version \in Nat /\ znode[q].version >= h.version
      BY <1>1, <3>2, Zenon DEF KnownOf, TypeOK, Znode, Exists
    <3> QED
      BY <1>1, <3>1, <3>2, <3>3
  <2> QED
    BY <2>1, <2>2, Zenon
<1> QED
  BY <1>4, <1>5, Zenon DEF KnownOf, Exists

LEMMA TreeStays ==
  ASSUME ZKInv, NEW p \in Paths, NEW node \in Znode \cup {NoNode},
         znode' = [znode EXCEPT ![p] = node], Evolves(p, node)
  PROVE  TreeInv'
<1>1. \A q \in Paths : znode'[q] = IF q = p THEN node ELSE znode[q]
  BY Zenon DEF ZKInv, TypeOK
<1>2. zxid \in Nat /\ zxid' \in Nat /\ zxid' >= zxid
  BY DEF ZKInv, TypeOK, Evolves
<1> SUFFICES ASSUME NEW q \in Paths, Exists(q)'
             PROVE  /\ Len(q) > 1 => Exists(Parent(q))'
                    /\ IsItemPath(q) <=> znode'[q].data # NoData
                    /\ znode'[q].born <= zxid'
  BY Zenon DEF TreeInv, IsItemPath
<1>3. Len(q) \in Nat /\ (Len(q) > 1 => Parent(q) \in Paths /\ Len(Parent(q)) = Len(q) - 1)
  BY PathsKnown
<1>4. CASE q = p
  <2>1. znode'[q] = node /\ node # NoNode
    BY <1>1, <1>4, Zenon DEF Exists
  <2>2. IsItemPath(q) <=> node.data # NoData
    BY <1>4, <2>1, Zenon DEF Evolves
  <2>3. node.born <= zxid'
    <3>1. CASE Exists(p)
      BY <1>2, <2>1, <3>1, Zenon DEF Evolves, ZKInv, TreeInv
    <3>2. CASE ~Exists(p)
      BY <1>2, <2>1, <3>2 DEF Evolves
    <3> QED
      BY <3>1, <3>2, Zenon
  <2>4. ASSUME Len(q) > 1 PROVE Exists(Parent(q))'
    <3>1. Exists(Parent(q))
      BY <1>4, <2>1, <2>4, Zenon DEF Evolves, ZKInv, TreeInv
    <3>2. Parent(q) # q
      BY <1>3, <2>4
    <3> QED
      BY <1>1, <1>3, <1>4, <2>4, <3>1, <3>2, Zenon DEF Exists
  <2> QED
    BY <2>1, <2>2, <2>3, <2>4, Zenon
<1>5. CASE q # p
  <2>1. znode'[q] = znode[q] /\ Exists(q)
    BY <1>1, <1>5, Zenon DEF Exists
  <2>2. (IsItemPath(q) <=> znode[q].data # NoData) /\ znode[q].born <= zxid
    BY <2>1, Zenon DEF ZKInv, TreeInv
  <2>3. znode[q].born <= zxid'
    <3>1. znode[q].born \in Nat
      BY <2>1, Zenon DEF ZKInv, TypeOK, Znode, Exists
    <3> QED
      BY <1>2, <2>2, <3>1
  <2>4. ASSUME Len(q) > 1 PROVE Exists(Parent(q))'
    <3>1. Exists(Parent(q)) /\ Parent(q) \in Paths
      BY <1>3, <2>1, <2>4, Zenon DEF ZKInv, TreeInv
    <3>2. CASE Parent(q) = p
      <4>1. q \in Children(p)
        BY <1>3, <2>1, <2>4, <3>2 DEF Children
      <4>2. node # NoNode
        BY <4>1, Zenon DEF Evolves
      <4> QED
        BY <1>1, <3>1, <3>2, <4>2, Zenon DEF Exists
    <3> QED
      BY <1>1, <3>1, <3>2, Zenon DEF Exists
  <2> QED
    BY <2>1, <2>2, <2>3, <2>4, Zenon
<1> QED
  BY <1>4, <1>5, Zenon

\* What a call that is going on sees of a change.
LEMMA Sees ==
  ASSUME ZKInv, NEW c \in Clients, NEW p \in Paths, NEW node, Change(c, p, node),
         NEW d \in Clients, pc[d] # "idle"
  PROVE  /\ znode'[Target(d)] = NoNode => saw'[d].absent
         /\ saw'[d].always \subseteq saw[d].always \cap Items'
         /\ saw[d].ever \cup Items' \subseteq saw'[d].ever
<1> DEFINE absent == saw[d].absent \/ znode'[IdentPath(op[d].ident)] = NoNode
<1>1. saw'[d] = [absent |-> absent, always |-> saw[d].always \cap Items',
                 ever |-> saw[d].ever \cup Items']
  BY Zenon DEF Change
<1>2. saw'[d].absent = absent
  <2> HIDE DEF absent
  <2> QED
    BY <1>1
<1>3. saw'[d].always = saw[d].always \cap Items' /\ saw'[d].ever = saw[d].ever \cup Items'
  BY <1>1
<1>4. znode'[Target(d)] = NoNode => saw'[d].absent
  BY <1>2, Zenon DEF Target
<1> QED
  BY <1>3, <1>4, Zenon

LEMMA OutdatedStays ==
  ASSUME TypeOK, NEW p \in Paths, NEW node \in Znode \cup {NoNode},
         znode' = [znode EXCEPT ![p] = node], Evolves(p, node),
         NEW d \in Clients, HeldOf(d), Outdated(d), op'[d] = op[d]
  PROVE  Outdated(d)'
<1> DEFINE q == Target(d)  basis == op[d].basis
<1>1. op[d] \in Op /\ q \in Paths
  BY PathsKnown, Zenon DEF TypeOK, Target, Op
<1>2. znode'[q] = IF q = p THEN node ELSE znode[q]
  BY <1>1, Zenon DEF TypeOK
<1> SUFFICES ASSUME basis # NoHeld, znode'[q] # NoNode, znode'[q].born = basis.born
             PROVE  znode'[q].version > basis.version
  BY Zenon DEF Outdated, Target
<1>3. basis \in Held /\ basis.version \in Nat /\ basis.born \in Nat /\ basis.born <= zxid
  BY <1>1, Zenon DEF Op, Held, HeldOf, KnownOf
<1>4. CASE q # p
  BY <1>2, <1>4, Zenon DEF Outdated
<1>5. CASE q = p
  <2>1. znode'[q] = node /\ node # NoNode /\ node.born = basis.born /\ zxid \in Nat
    BY <1>2, <1>5, Zenon DEF TypeOK
  <2>2. Exists(q) /\ node.version = znode[q].version + 1 /\ znode[q].born = basis.born
    BY <1>3, <1>5, <2>1 DEF Evolves
  <2>3. znode[q].version \in Nat /\ znode[q].version > basis.version
    BY <1>1, <2>2, Zenon DEF Outdated, TypeOK, Znode, Exists
  <2> QED
    BY <1>3, <2>1, <2>2, <2>3
<1> QED
  BY <1>4, <1>5, Zenon

\* A request of c that changes a znode.
LEMMA ChangeStep ==
  ASSUME ZKInv, TypeOK', NEW c \in Clients, pc[c] # "idle", OthersSame(c), op' = op,
         NEW p \in Paths, NEW node \in Znode \cup {NoNode}, Change(c, p, node),
         Evolves(p, node), found'[c] = found[c], op[c].call \in {"put", "delete"},
         held'[c] = held[c] \/ \E h \in Held : held'[c] = h /\ KnownOf(h)',
         op[c].call = "delete" /\ ret'[c] = "ok" => znode'[Target(c)] = NoNode,
         PointOf(c)', ConflictOf(c)'
  PROVE  ZKInv'
<1>1. znode' = [znode EXCEPT ![p] = node]
  BY Zenon DEF Change
<1>2. ASSUME NEW h \in Held, KnownOf(h) PROVE KnownOf(h)'
  BY <1>1, <1>2, KnownStays, Zenon DEF ZKInv
<1>3. ASSUME NEW d \in Clients PROVE HeldOf(d)'
  <2>1. CallInv(d) /\ held[d] \in Held \cup {NoHeld} /\ op[d].basis \in Held \cup {NoHeld}
    BY Zenon DEF ZKInv, TypeOK, Op
  <2>2. held'[d] = held[d] \/ \E h \in Held : held'[d] = h /\ KnownOf(h)'
    BY Zenon DEF OthersSame, SameOf
  <2>3. ASSUME held'[d] # NoHeld PROVE KnownOf(held[d])'
    <3>1. PICK h \in Held : held'[d] = h /\ KnownOf(h)'
      BY <1>2, <2>1, <2>2, <2>3, Zenon DEF CallInv, HeldOf
    <3> QED
      BY <3>1, Zenon DEF KnownOf
  <2>4. op[d].basis # NoHeld => KnownOf(op[d].basis)'
    BY <1>2, <2>1, Zenon DEF CallInv, HeldOf
  <2> QED
    BY <2>1, <2>3, <2>4, Zenon DEF CallInv, HeldOf
<1>4. ASSUME NEW d \in Clients \ {c} PROVE CallInv(d)'
  <2>1. /\ pc'[d] = pc[d] /\ op'[d] = op[d] /\ seg'[d] = seg[d] /\ todo'[d] = todo[d]
        /\ found'[d] = found[d] /\ ret'[d] = ret[d] /\ touched'[d] = touched[d]
    BY Zenon DEF OthersSame, SameOf
  <2>2. PointOf(d) /\ HeldOf(d) /\ ConflictOf(d) /\ GoneOf(d) /\ ListOf(d)
    BY Zenon DEF ZKInv, CallInv
  <2>3. PointOf(d)'
    BY <2>1, <2>2, ZenonT(30) DEF PointOf, Target
  <2>4. ConflictOf(d)'
    BY <1>1, <2>1, <2>2, OutdatedStays, Zenon DEF ConflictOf, Target, ZKInv
  <2>5. CASE pc[d] = "idle"
    <3>1. saw'[d] = saw[d]
      BY <2>5, Zenon DEF Change
    <3> QED
      BY <1>3, <2>1, <2>2, <2>3, <2>4, <2>5, <3>1, Zenon DEF CallInv, GoneOf, ListOf, Returned
  <2>6. CASE pc[d] # "idle"
    <3>1. GoneOf(d)'
      BY <2>1, <2>6, Sees, Zenon DEF GoneOf, Returned, Exists, Target
    <3>2. ListOf(d)'
      BY <2>1, <2>2, <2>6, Sees, Zenon DEF ListOf, Returned
    <3> QED
      BY <1>3, <2>3, <2>4, <3>1, <3>2, Zenon DEF CallInv
  <2> QED
    BY <2>5, <2>6, Zenon
<1>5. CallInv(c)'
  <2>1. GoneOf(c)'
    BY Sees, Zenon DEF GoneOf, Returned, Exists, Target
  <2>2. ListOf(c)'
    <3>1. pc'[c] \notin ListPoints
      BY Zenon DEF PointOf
    <3> QED
      BY <3>1, Sees, Zenon DEF ListOf, Returned, ListPoints
  <2> QED
    BY <1>3, <2>1, <2>2, Zenon DEF CallInv
<1> QED
  BY <1>1, <1>4, <1>5, TreeStays, Zenon DEF ZKInv

-----------------------------------------------------------------------------
(* The actions. *)

LEMMA InitInv == Init => ZKInv
<1> SUFFICES ASSUME Init PROVE ZKInv
  BY Zenon
<1>1. TypeOK /\ TreeInv
  BY InitType, Zenon DEF Init, TreeInv, Exists
<1>2. ASSUME NEW c \in Clients PROVE CallInv(c)
  <2>1. /\ pc[c] = "idle" /\ ret[c] = "none" /\ held[c] = NoHeld
        /\ op[c].call = "none" /\ op[c].basis = NoHeld
    BY Zenon DEF Init, NoOp
  <2> QED
    BY <2>1, Zenon DEF CallInv, PointOf, PutPoints, DeletePoints, ListPoints, HeldOf, ConflictOf,
                GoneOf, ListOf, Returned
<1> QED
  BY <1>1, <1>2, Zenon DEF ZKInv

LEMMA BeginStep ==
  ASSUME ZKInv, UNCHANGED workload, NEW c \in Clients, NEW call \in {"put", "delete", "list"},
         NEW ident \in Idents, NEW version \in Version, NEW basis \in Held \cup {NoHeld},
         NEW point \in Points \ {"idle", "delVariants", "bucket"},
         Begin(c, call, ident, version, basis, point),
         point \in PutPoints => call = "put", point \in DeletePoints => call = "delete",
         point \in ListPoints => call = "list",
         point = "exists" => creatingNewItem(version),
         point = "variants" => ident.variant = NoVariant,
         basis # NoHeld => /\ basis = held[c] /\ ident = basis.ident
                           /\ version = NewVersion(basis.version)
  PROVE  ZKInv'
<1> DEFINE new == [call |-> call, ident |-> ident, version |-> version,
                   data |-> <<c, calls[c]>>, basis |-> basis]
           seen == [absent |-> ~Exists(IdentPath(ident)), always |-> Items, ever |-> Items]
<1>1. TypeOK /\ workload.maxOps \in Nat /\ IdentPath(ident) \in Paths
  BY ZKStoreAssumption, PathsKnown, Zenon DEF ZKInv, TypeOK
<1>2. /\ pc[c] = "idle" /\ calls[c] < workload.maxOps
      /\ calls' = [calls EXCEPT ![c] = @ + 1] /\ op' = [op EXCEPT ![c] = new]
      /\ pc' = [pc EXCEPT ![c] = point] /\ ret' = [ret EXCEPT ![c] = "none"]
      /\ seg' = [seg EXCEPT ![c] = 1] /\ todo' = [todo EXCEPT ![c] = {}]
      /\ found' = [found EXCEPT ![c] = {}] /\ touched' = [touched EXCEPT ![c] = {}]
      /\ saw' = [saw EXCEPT ![c] = seen]
      /\ UNCHANGED <<workload, znode, zxid, faults, held>>
  BY Zenon DEF Begin, zkVars
<1>3. new \in Op
  <2>1. calls[c] \in Nat
    BY <1>1 DEF TypeOK
  <2> QED
    BY <2>1, Zenon DEF Op, Data
<1>4. seen \in [absent : BOOLEAN, always : SUBSET Names, ever : SUBSET Names]
  <2>1. (~Exists(IdentPath(ident))) \in BOOLEAN /\ Items \in SUBSET Names
    BY Zenon DEF Items
  <2> QED
    BY <2>1, Zenon
<1> HIDE DEF seen, new
<1>5. TypeOK'
  <2>1. calls' \in [Clients -> 0 .. workload.maxOps]
    BY <1>1, <1>2, SMTT(30) DEF TypeOK
  <2>2. /\ op' \in [Clients -> Op] /\ pc' \in [Clients -> Points] /\ ret' \in [Clients -> Results]
        /\ seg' \in [Clients -> Nat \ {0}] /\ todo' \in [Clients -> SUBSET Paths]
        /\ found' \in [Clients -> SUBSET Names] /\ touched' \in [Clients -> SUBSET Paths]
    BY <1>1, <1>2, <1>3 DEF TypeOK, Results
  <2>3. saw' \in [Clients -> [absent : BOOLEAN, always : SUBSET Names, ever : SUBSET Names]]
    BY <1>1, <1>2, <1>4, Zenon DEF TypeOK
  <2> QED
    BY <1>1, <1>2, <2>1, <2>2, <2>3, ZenonT(30) DEF TypeOK, Results
<1>6. OthersSame(c) /\ \A d \in Clients \ {c} : saw'[d] = saw[d]
  BY <1>1, <1>2, Zenon DEF TypeOK, OthersSame, SameOf
<1>7. /\ pc'[c] = point /\ ret'[c] = "none" /\ seg'[c] = 1 /\ todo'[c] = {} /\ found'[c] = {}
      /\ touched'[c] = {} /\ saw'[c] = seen /\ op'[c] = new /\ held'[c] = held[c]
  BY <1>1, <1>2, Zenon DEF TypeOK
<1>8. CallInv(c)'
  <2>1. /\ new.call = call /\ new.ident = ident /\ new.version = version /\ new.basis = basis
    BY Zenon DEF new
  <2>2. Len(IdentPath(ident)) \in Nat /\ 1 <= Len(IdentPath(ident))
    BY <1>1, PathsKnown
  <2>3. PointOf(c)'
    BY <1>7, <2>1, <2>2, Zenon DEF PointOf, Target
  <2>4. HeldOf(c)'
    <3>1. held[c] # NoHeld => KnownOf(held[c])
      BY Zenon DEF ZKInv, CallInv, HeldOf
    <3>2. /\ held[c] # NoHeld => KnownOf(held[c])'
          /\ basis # NoHeld => KnownOf(basis)'
      BY <1>2, <1>7, <3>1, Zenon DEF KnownOf, Exists
    <3>3. op'[c].basis = basis /\ op'[c].ident = ident /\ op'[c].version = version
      BY <1>7, <2>1, Zenon
    <3>4. op'[c].basis # NoHeld => KnownOf(op[c].basis)'
      BY <3>2, <3>3, Zenon DEF KnownOf
    <3> QED
      BY <1>7, <3>2, <3>3, <3>4, Zenon DEF HeldOf
  <2>5. ConflictOf(c)'
    BY <1>7, Zenon DEF ConflictOf
  <2>6. GoneOf(c)'
    <3>1. seen.absent = ~Exists(IdentPath(ident))
      BY Zenon DEF seen
    <3>2. Exists(Target(c))' = Exists(IdentPath(ident))
      BY <1>2, <1>7, <2>1, Zenon DEF Exists, Target
    <3> QED
      BY <1>7, <3>1, <3>2, Zenon DEF GoneOf, Returned
  <2>7. ListOf(c)'
    <3>1. seen.always = Items /\ seen.ever = Items /\ Items' = Items
      BY <1>2, Zenon DEF seen, Items, Exists
    <3> QED
      BY <1>7, <3>1, Zenon DEF ListOf, Returned
  <2> QED
    BY <2>3, <2>4, <2>5, <2>6, <2>7, Zenon DEF CallInv
<1> QED
  BY <1>2, <1>5, <1>6, <1>8, QuietStep, Zenon

LEMMA BeginPutStep ==
  ASSUME ZKInv, UNCHANGED workload, NEW c \in Clients, BeginPut(c)
  PROVE  ZKInv'
<1>1. PICK id \in workload.idents :
        \/ Begin(c, "put", id, NewVersion(NoPriorVersion), NoHeld,
                 PutPoint(NewVersion(NoPriorVersion)))
        \/ Begin(c, "put", id, Unset, NoHeld, PutPoint(Unset))
  BY Zenon DEF BeginPut
<1>2. id \in Idents
  BY ZKStoreAssumption, Zenon DEF ZKInv, TypeOK, Idents
<1>3. /\ NewVersion(NoPriorVersion) \in Version /\ Unset \in Version
      /\ PutPoint(NewVersion(NoPriorVersion)) = "exists" /\ PutPoint(Unset) = "set"
      /\ creatingNewItem(NewVersion(NoPriorVersion))
  BY DEF NewVersion, Unset, Version, NoPriorVersion, PutPoint, creatingNewItem
<1>4. /\ {"exists", "set"} \subseteq Points \ {"idle", "delVariants", "bucket"}
      /\ {"exists", "set"} \cap (DeletePoints \cup ListPoints) = {}
  BY Zenon DEF Points, PutPoints, DeletePoints, ListPoints
<1> QED
  BY <1>1, <1>2, <1>3, <1>4, BeginStep, Zenon

LEMMA BeginUpdateStep ==
  ASSUME ZKInv, UNCHANGED workload, NEW c \in Clients, BeginUpdate(c)
  PROVE  ZKInv'
<1> DEFINE version == NewVersion(held[c].version)
<1>1. held[c] # NoHeld /\ Begin(c, "put", held[c].ident, version, held[c], PutPoint(version))
  BY Zenon DEF BeginUpdate
<1>2. held[c] \in Held /\ held[c].ident \in Idents /\ held[c].version \in Nat
  BY <1>1, Zenon DEF ZKInv, TypeOK, Held
<1>3. version \in Version /\ PutPoint(version) = "set"
  BY <1>2 DEF NewVersion, Version, NoPriorVersion, PutPoint, creatingNewItem
<1>4. /\ "set" \in Points \ {"idle", "delVariants", "bucket"}
      /\ "set" \notin DeletePoints \cup ListPoints
  BY Zenon DEF Points, PutPoints, DeletePoints, ListPoints
<1> HIDE DEF version
<1>5. version = NewVersion(held[c].version)
  BY Zenon DEF version
<1> QED
  BY <1>1, <1>2, <1>3, <1>4, <1>5, BeginStep, Zenon

LEMMA BeginDeleteStep ==
  ASSUME ZKInv, UNCHANGED workload, NEW c \in Clients, BeginDelete(c)
  PROVE  ZKInv'
<1>1. /\ {"variants", "delNode"} \subseteq Points \ {"idle", "delVariants", "bucket"}
      /\ {"variants", "delNode"} \cap (PutPoints \cup ListPoints) = {}
      /\ \A id : /\ DeletePoint(id) \in {"variants", "delNode"}
                 /\ DeletePoint(id) = "variants" => id.variant = NoVariant
  BY Zenon DEF Points, PutPoints, DeletePoints, ListPoints, DeletePoint
<1>2. CASE \E id \in workload.idents : Begin(c, "delete", id, Unset, NoHeld, DeletePoint(id))
  <2>1. PICK id \in workload.idents : Begin(c, "delete", id, Unset, NoHeld, DeletePoint(id))
    BY <1>2, Zenon
  <2>2. id \in Idents /\ Unset \in Version
    BY ZKStoreAssumption DEF ZKInv, TypeOK, Idents, Unset, Version
  <2> QED
    BY <1>1, <2>1, <2>2, BeginStep, Zenon
<1>3. CASE /\ held[c] # NoHeld
           /\ Begin(c, "delete", held[c].ident, NewVersion(held[c].version), held[c],
                    DeletePoint(held[c].ident))
  <2>1. held[c] \in Held /\ held[c].ident \in Idents /\ NewVersion(held[c].version) \in Version
    BY <1>3 DEF ZKInv, TypeOK, Held, NewVersion, Version
  <2> QED
    BY <1>1, <1>3, <2>1, BeginStep, ZenonT(30)
<1> QED
  BY <1>2, <1>3, Zenon DEF BeginDelete

LEMMA BeginListStep ==
  ASSUME ZKInv, UNCHANGED workload, NEW c \in Clients, BeginList(c)
  PROVE  ZKInv'
<1>1. op[c].ident \in Idents /\ Unset \in Version
  BY DEF ZKInv, TypeOK, Op, Unset, Version
<1>2. /\ "buckets" \in Points \ {"idle", "delVariants", "bucket"}
      /\ "buckets" \notin PutPoints \cup DeletePoints
  BY Zenon DEF Points, PutPoints, DeletePoints, ListPoints
<1> QED
  BY <1>1, <1>2, BeginStep, Zenon DEF BeginList

\* A version that a client has just got is what there is.
LEMMA NowHeld ==
  ASSUME ZKInv, NEW id \in Idents, Exists(IdentPath(id)), NEW data \in Data,
         NEW from \in {"get", "put"}, from = "get" => data = znode[IdentPath(id)].data
  PROVE  /\ Holding(id, znode[IdentPath(id)], data, from) \in Held
         /\ KnownOf(Holding(id, znode[IdentPath(id)], data, from))
<1>1. IdentPath(id) \in Paths
  BY PathsKnown, Zenon
<1>2. znode[IdentPath(id)] \in Znode /\ znode[IdentPath(id)].born <= zxid
  BY <1>1, Zenon DEF ZKInv, TypeOK, TreeInv, Exists
<1> DEFINE h == Holding(id, znode[IdentPath(id)], data, from)
<1>3. /\ h.ident = id /\ h.version = znode[IdentPath(id)].version /\ h.data = data
      /\ h.born = znode[IdentPath(id)].born /\ h.from = from
  BY Zenon DEF Holding
<1>4. h \in Held
  BY <1>2, Zenon DEF Holding, Held, Znode
<1>5. znode[IdentPath(id)].version \in Nat
  BY <1>2, Zenon DEF Znode
<1> HIDE DEF h
<1>6. KnownOf(h)
  BY <1>2, <1>3, <1>5 DEF KnownOf
<1> QED
  BY <1>4, <1>6, Zenon DEF h

\* A call goes on to its next request, with nothing changed in ZooKeeper.
LEMMA MoveStep ==
  ASSUME ZKInv, NEW c \in Clients, pc[c] # "idle",
         NEW point \in Points \ {"idle", "exists", "variants"}, Goto(c, point),
         UNCHANGED <<workload, znode, zxid, faults, op, calls, held, histVars>>,
         seg' \in [Clients -> Nat \ {0}], todo' \in [Clients -> SUBSET Paths],
         found' \in [Clients -> SUBSET Names],
         \A d \in Clients \ {c} : seg'[d] = seg[d] /\ todo'[d] = todo[d] /\ found'[d] = found[d],
         seg'[c] <= Len(Target(c)), pc[c] # "mustExist",
         point \in PutPoints => pc[c] \in PutPoints,
         point \in DeletePoints => pc[c] \in DeletePoints,
         point \in ListPoints => pc[c] \in ListPoints,
         point = "delVariants" => pc[c] \in {"variants", "delVariants"},
         point = "delVariants" => \A p \in todo'[c] : Len(p) = Len(Buckets) + 3,
         point = "bucket" => \A p \in todo'[c] : Len(p) = Len(Buckets) + 1,
         op[c].call = "list" => found'[c] \subseteq saw[c].ever,
         point = "bucket" => \A n \in saw[c].always : n \in found'[c] \/ BucketPath(n) \in todo'[c]
  PROVE  ZKInv'
<1>1. TypeOK'
  <2>1. pc' \in [Clients -> Points] /\ ret' \in [Clients -> Results]
    BY GotoType, Zenon DEF ZKInv
  <2> QED
    BY <2>1, Zenon DEF ZKInv, TypeOK, histVars, Results
<1>2. OthersSame(c) /\ \A d \in Clients \ {c} : saw'[d] = saw[d]
  BY Zenon DEF Goto, histVars, OthersSame, SameOf, ZKInv, TypeOK
<1>3. /\ pc'[c] = point /\ ret'[c] = ret[c] /\ op'[c] = op[c] /\ held'[c] = held[c]
      /\ touched'[c] = touched[c] /\ saw'[c] = saw[c]
  BY Zenon DEF Goto, histVars, ZKInv, TypeOK
<1>4. PointOf(c) /\ HeldOf(c) /\ ConflictOf(c) /\ GoneOf(c) /\ ListOf(c)
  BY Zenon DEF ZKInv, CallInv
<1>5. PointOf(c)'
  BY <1>3, <1>4, Zenon DEF PointOf, Target
<1>6. HeldOf(c)'
  BY <1>3, <1>4, Zenon DEF HeldOf, KnownOf, Exists
<1>7. ConflictOf(c)'
  BY <1>3, <1>4, Zenon DEF ConflictOf, PointOf, Target
<1>8. GoneOf(c)'
  BY <1>3, <1>4, Zenon DEF GoneOf, Returned, Target, Exists
<1>9. ListOf(c)'
  <2>1. Items' = Items
    BY Zenon DEF Items, Exists
  <2> QED
    BY <1>3, <1>4, <2>1, Zenon DEF ListOf, Returned
<1> QED
  BY <1>1, <1>2, <1>5, <1>6, <1>7, <1>8, <1>9, QuietStep, Zenon DEF CallInv

\* A call returns, with nothing changed in ZooKeeper by its last request.
LEMMA EndStep ==
  ASSUME ZKInv, NEW c \in Clients, pc[c] # "idle",
         NEW result \in Results, Return(c, result),
         UNCHANGED <<workload, znode, zxid, op, seg, calls, histVars>>,
         faults' \in 0 .. workload.maxFaults, todo' \in [Clients -> SUBSET Paths],
         found' \in [Clients -> SUBSET Names],
         \A d \in Clients \ {c} : todo'[d] = todo[d] /\ found'[d] = found[d],
         \/ held' = held
         \/ \E h \in Held : held' = [held EXCEPT ![c] = h] /\ KnownOf(h),
         result = "conflict" => Target(c) \notin touched[c] /\ Outdated(c),
         op[c].call = "delete" /\ result = "ok" => saw[c].absent,
         op[c].call = "list" => found'[c] \subseteq saw[c].ever,
         op[c].call = "list" /\ result \in {"ok", "notFound"} => saw[c].always \subseteq found'[c]
  PROVE  ZKInv'
<1>1. TypeOK'
  <2>1. pc' \in [Clients -> Points] /\ ret' \in [Clients -> Results]
    BY ReturnType, Zenon DEF ZKInv
  <2>2. held' \in [Clients -> Held \cup {NoHeld}]
    BY Zenon DEF ZKInv, TypeOK
  <2> QED
    BY <2>1, <2>2, Zenon DEF ZKInv, TypeOK, histVars, Results
<1>2. OthersSame(c) /\ \A d \in Clients \ {c} : saw'[d] = saw[d]
  BY Zenon DEF Return, histVars, OthersSame, SameOf, ZKInv, TypeOK
<1>3. /\ pc'[c] = "idle" /\ ret'[c] = result /\ op'[c] = op[c]
      /\ touched'[c] = touched[c] /\ saw'[c] = saw[c]
  BY Zenon DEF Return, histVars, ZKInv, TypeOK
<1>4. HeldOf(c) /\ (held'[c] = held[c] \/ \E h \in Held : held'[c] = h /\ KnownOf(h))
  BY Zenon DEF ZKInv, CallInv, TypeOK
<1>5. PointOf(c)'
  BY <1>3, Zenon DEF PointOf, PutPoints, DeletePoints, ListPoints
<1>6. HeldOf(c)'
  <2>1. ASSUME held'[c] # NoHeld PROVE KnownOf(held[c])'
    <3>1. PICK h : held'[c] = h /\ KnownOf(h)
      BY <1>4, <2>1, Zenon DEF HeldOf
    <3> QED
      BY <3>1, Zenon DEF KnownOf, Exists
  <2>2. op[c].basis # NoHeld => KnownOf(op[c].basis)'
    BY <1>3, <1>4, Zenon DEF HeldOf, KnownOf, Exists
  <2> QED
    BY <1>3, <1>4, <2>1, <2>2, Zenon DEF HeldOf
<1>7. ConflictOf(c)'
  BY <1>3, Zenon DEF ConflictOf, Outdated, Target
<1>8. GoneOf(c)'
  BY <1>3, Zenon DEF GoneOf, Returned
<1>9. ListOf(c)'
  BY <1>3, Zenon DEF ListOf, Returned
<1> QED
  BY <1>1, <1>2, <1>5, <1>6, <1>7, <1>8, <1>9, QuietStep, Zenon DEF CallInv

LEMMA GetStep ==
  ASSUME ZKInv, UNCHANGED workload, NEW c \in Clients, Get(c)
  PROVE  ZKInv'
<1>1. PICK id \in workload.idents :
        LET node == znode[IdentPath(id)]
        IN  /\ pc[c] = "idle"
            /\ calls[c] < workload.maxOps
            /\ calls' = [calls EXCEPT ![c] = @ + 1]
            /\ op' = [op EXCEPT ![c] = [call |-> "get", ident |-> id, version |-> Unset,
                                        data |-> <<c, calls[c]>>, basis |-> NoHeld]]
            /\ \/ /\ faults < workload.maxFaults /\ faults' = faults + 1
                  /\ ret' = [ret EXCEPT ![c] = "error"]
                  /\ UNCHANGED held
               \/ /\ node = NoNode
                  /\ ret' = [ret EXCEPT ![c] = "notFound"]
                  /\ UNCHANGED <<faults, held>>
               \/ /\ node # NoNode
                  /\ ret' = [ret EXCEPT ![c] = "ok"]
                  /\ held' = [held EXCEPT ![c] = Holding(id, node, node.data, "get")]
                  /\ UNCHANGED faults
  BY Zenon DEF Get
<1> DEFINE new == [call |-> "get", ident |-> id, version |-> Unset, data |-> <<c, calls[c]>>,
                   basis |-> NoHeld]
<1>2. UNCHANGED <<workload, znode, zxid, pc, seg, todo, found, touched, saw>>
  BY Zenon DEF Get, histVars
<1>3. TypeOK /\ id \in Idents /\ workload.maxOps \in Nat /\ calls[c] \in Nat
  BY ZKStoreAssumption, SMTT(30) DEF ZKInv, TypeOK, Idents
<1>10. faults' \in 0 .. workload.maxFaults
  <2>1. faults \in 0 .. workload.maxFaults /\ workload.maxFaults \in Nat
    BY <1>3, ZKStoreAssumption, Zenon DEF TypeOK
  <2>2. faults' = faults \/ (faults < workload.maxFaults /\ faults' = faults + 1)
    BY <1>1, Zenon
  <2> QED
    BY <2>1, <2>2
<1>4. new \in Op /\ new.call = "get" /\ new.basis = NoHeld /\ op' = [op EXCEPT ![c] = new]
  BY <1>1, <1>3 DEF Op, Data, Unset, Version
<1> HIDE DEF new
<1>5. PICK r \in {"notFound", "ok", "error"} : ret' = [ret EXCEPT ![c] = r]
  BY <1>1, Zenon
<1>6. held' = held \/ \E h \in Held : held' = [held EXCEPT ![c] = h] /\ KnownOf(h)
  <2>1. CASE ~Exists(IdentPath(id))
    BY <1>1, <2>1, Zenon DEF Exists
  <2>2. CASE Exists(IdentPath(id))
    <3> DEFINE node == znode[IdentPath(id)]
    <3>1. held' = held \/ held' = [held EXCEPT ![c] = Holding(id, node, node.data, "get")]
      BY <1>1, Zenon
    <3>2. node.data \in Data
      <4>1. IdentPath(id) \in Paths /\ IsItemPath(IdentPath(id))
        BY <1>3, PathsKnown, IdentPathType, BucketsType DEF IsItemPath
      <4> QED
        BY <1>3, <2>2, <4>1, Zenon DEF ZKInv, TreeInv, TypeOK, Znode, Exists
    <3> QED
      BY <1>3, <2>2, <3>1, <3>2, NowHeld, Zenon
  <2> QED
    BY <2>1, <2>2, Zenon
<1>7. TypeOK'
  <2>1. calls' \in [Clients -> 0 .. workload.maxOps]
    BY <1>1, <1>3 DEF TypeOK
  <2>2. op' \in [Clients -> Op] /\ ret' \in [Clients -> Results]
    BY <1>3, <1>4, <1>5, Zenon DEF TypeOK, Results
  <2>3. held' \in [Clients -> Held \cup {NoHeld}]
    BY <1>3, <1>6, Zenon DEF TypeOK
  <2> QED
    BY <1>2, <1>3, <1>10, <2>1, <2>2, <2>3, ZenonT(30) DEF TypeOK, Results
<1>8. OthersSame(c) /\ \A d \in Clients \ {c} : saw'[d] = saw[d]
  BY <1>2, <1>3, <1>4, <1>5, <1>6, Zenon DEF TypeOK, OthersSame, SameOf
<1>9. CallInv(c)'
  <2>1. /\ pc'[c] = "idle" /\ ret'[c] \in {"notFound", "ok", "error"} /\ op'[c].call = "get"
        /\ op'[c].basis = NoHeld
    BY <1>1, <1>2, <1>3, <1>4, <1>5, Zenon DEF TypeOK
  <2>2. ASSUME held'[c] # NoHeld PROVE KnownOf(held[c])'
    <3>1. PICK h : held'[c] = h /\ KnownOf(h)
      BY <1>3, <1>6, <2>2, Zenon DEF TypeOK, ZKInv, CallInv, HeldOf
    <3> QED
      BY <1>2, <3>1, Zenon DEF KnownOf, Exists
  <2>3. HeldOf(c)'
    BY <2>1, <2>2, Zenon DEF HeldOf
  <2> QED
    BY <2>1, <2>3, Zenon DEF CallInv, PointOf, PutPoints, DeletePoints, ListPoints, ConflictOf,
                      GoneOf, ListOf, Returned
<1> QED
  BY <1>2, <1>7, <1>8, <1>9, QuietStep, Zenon

\* What a call that is going on may count on.
LEMMA Going ==
  ASSUME ZKInv, NEW c \in Clients, pc[c] # "idle"
  PROVE  /\ todo \in [Clients -> SUBSET Paths] /\ found \in [Clients -> SUBSET Names]
         /\ seg \in [Clients -> Nat \ {0}] /\ faults \in 0 .. workload.maxFaults
         /\ seg[c] \in 1 .. Len(Target(c))
         /\ Target(c) = IdentPath(op[c].ident) /\ op[c].ident \in Idents /\ op[c] \in Op
         /\ Target(c) \in Paths /\ IsItemPath(Target(c))
         /\ Len(Target(c)) = Len(Buckets) + IF op[c].ident.variant = NoVariant THEN 2 ELSE 3
         /\ op[c].call = "list" => found[c] \subseteq saw[c].ever
<1>1. TypeOK /\ PointOf(c) /\ ListOf(c)
  BY Zenon DEF ZKInv, CallInv
<1>2. op[c] \in Op /\ op[c].ident \in Idents
  BY <1>1, Zenon DEF TypeOK, Op
<1>3. /\ Target(c) \in Paths
      /\ Len(Target(c)) = Len(Buckets) + IF op[c].ident.variant = NoVariant THEN 2 ELSE 3
  BY <1>2, PathsKnown, IdentPathType, Zenon DEF Target
<1>4. seg[c] \in Nat \ {0} /\ seg[c] <= Len(Target(c))
  BY <1>1, Zenon DEF PointOf, TypeOK
<1> QED
  BY <1>1, <1>2, <1>3, <1>4, BucketsType, SMTT(30) DEF Target, TypeOK, ListOf, IsItemPath

LEMMA RequestFailsStep ==
  ASSUME ZKInv, UNCHANGED workload, NEW c \in Clients, RequestFails(c)
  PROVE  ZKInv'
<1>1. /\ pc[c] # "idle" /\ faults < workload.maxFaults /\ faults' = faults + 1
      /\ Return(c, "error") /\ held' = held /\ todo' = todo /\ found' = found
      /\ UNCHANGED <<workload, znode, zxid, op, seg, calls, histVars>>
  BY Zenon DEF RequestFails
<1>2. workload.maxFaults \in Nat
  BY ZKStoreAssumption, ZenonT(30) DEF ZKInv, TypeOK
<1>3. faults' \in 0 .. workload.maxFaults
  BY <1>1, <1>2, Going
<1>4. "error" \in Results
  BY Zenon DEF Results
<1> QED
  BY <1>1, <1>3, <1>4, Going, EndStep, Zenon

\* The version that a call checks is the one that its client chose.
LEMMA ChosenVersion ==
  ASSUME ZKInv, NEW c \in Clients, op[c].basis # NoHeld
  PROVE  /\ op[c].basis \in Held /\ op[c].basis.version \in Nat
         /\ actualVersion(op[c].version) = op[c].basis.version
         /\ ~creatingNewItem(op[c].version)
         /\ KnownOf(op[c].basis) /\ IdentPath(op[c].basis.ident) = Target(c)
<1>1. op[c].basis \in Held /\ op[c].basis.version \in Nat
  BY Zenon DEF ZKInv, TypeOK, Op, Held
<1>2. /\ KnownOf(op[c].basis) /\ op[c].ident = op[c].basis.ident
      /\ op[c].version = NewVersion(op[c].basis.version)
  BY Zenon DEF ZKInv, CallInv, HeldOf
<1> QED
  BY <1>1, <1>2 DEF actualVersion, creatingNewItem, NewVersion, NoPriorVersion, Target

LEMMA PutExistsStep ==
  ASSUME ZKInv, UNCHANGED workload, NEW c \in Clients, PutExists(c)
  PROVE  ZKInv'
<1>1. /\ pc[c] = "exists" /\ held' = held /\ todo' = todo /\ found' = found
      /\ UNCHANGED <<workload, znode, zxid, faults, op, seg, calls, histVars>>
  BY Zenon DEF PutExists, zkVars
<1>2. op[c].call = "put" /\ creatingNewItem(op[c].version) /\ Target(c) \notin touched[c]
  BY <1>1, Zenon DEF ZKInv, CallInv, PointOf, ConflictOf, PutPoints
<1>3. CASE Exists(Target(c))
  <2>1. Return(c, "conflict") /\ "conflict" \in Results
    BY <1>3, Zenon DEF PutExists, Results
  <2>2. Outdated(c)
    BY <1>2, ChosenVersion, Zenon DEF Outdated
  <2> QED
    BY <1>1, <1>2, <2>1, <2>2, Going, EndStep, Zenon
<1>4. CASE ~Exists(Target(c))
  <2>1. Goto(c, "check")
    BY <1>4, Zenon DEF PutExists
  <2>2. "check" \in Points \ {"idle", "exists", "variants"} /\ "check" \notin DeletePoints \cup ListPoints
        /\ pc[c] \in PutPoints
    BY <1>1, Zenon DEF Points, PutPoints, DeletePoints, ListPoints
  <2>3. seg[c] <= Len(Target(c))
    BY <1>1, Zenon DEF ZKInv, CallInv, PointOf
  <2> QED
    BY <1>1, <1>2, <2>1, <2>2, <2>3, Going, MoveStep, Zenon
<1> QED
  BY <1>3, <1>4, Zenon

\* Another version than the one chosen is a later one.
LEMMA MismatchIsOutdated ==
  ASSUME ZKInv, NEW c \in Clients, Exists(Target(c)), Target(c) \in Paths,
         ~VersionMatches(Target(c), actualVersion(op[c].version))
  PROVE  Outdated(c)
<1> SUFFICES ASSUME op[c].basis # NoHeld, znode[Target(c)].born = op[c].basis.born
             PROVE  znode[Target(c)].version > op[c].basis.version
  BY Zenon DEF Outdated
<1>1. znode[Target(c)].version \in Nat
  BY Zenon DEF ZKInv, TypeOK, Exists, Znode
<1>2. /\ op[c].basis.version \in Nat /\ znode[Target(c)].version # op[c].basis.version
      /\ znode[Target(c)].version >= op[c].basis.version
  BY ChosenVersion, Zenon DEF VersionMatches, KnownOf
<1> QED
  BY <1>1, <1>2

\* A call that returns after a change, other than with a conflict.
LEMMA ChangeEnds ==
  ASSUME ZKInv, UNCHANGED <<workload, op, seg, found, calls>>, NEW c \in Clients, pc[c] # "idle",
         NEW p \in Paths, NEW node \in Znode \cup {NoNode}, Change(c, p, node),
         Evolves(p, node), op[c].call \in {"put", "delete"},
         NEW lost \in MayLose, Fault(lost), NEW result \in {"ok", "error"}, Return(c, result),
         todo' \in [Clients -> SUBSET Paths], \A d \in Clients \ {c} : todo'[d] = todo[d],
         \/ held' = held
         \/ \E h \in Held : held' = [held EXCEPT ![c] = h] /\ KnownOf(h)',
         op[c].call = "delete" /\ result = "ok" => node = NoNode /\ p = Target(c)
  PROVE  ZKInv'
<1>1. TypeOK
  BY Zenon DEF ZKInv
<1>2. /\ znode' = [znode EXCEPT ![p] = node] /\ znode' \in [Paths -> Znode \cup {NoNode}]
      /\ touched' \in [Clients -> SUBSET Paths]
      /\ saw' \in [Clients -> [absent : BOOLEAN, always : SUBSET Names, ever : SUBSET Names]]
  BY <1>1, ChangeType, Zenon DEF Change
<1>3. TypeOK'
  <2>1. pc' \in [Clients -> Points] /\ ret' \in [Clients -> Results]
    BY <1>1, ReturnType, Zenon DEF Results
  <2>2. held' \in [Clients -> Held \cup {NoHeld}]
    BY <1>1, Zenon DEF TypeOK
  <2>3. zxid' \in Nat
    BY <1>1 DEF TypeOK, Evolves
  <2>4. faults' \in 0 .. workload'.maxFaults
    BY <1>1, FaultType, Zenon
  <2> QED
    BY <1>1, <1>2, <2>1, <2>2, <2>3, <2>4, ZenonT(30) DEF TypeOK, Results
<1>4. OthersSame(c)
  BY <1>1, Zenon DEF Return, Change, OthersSame, SameOf, TypeOK
<1>5. pc'[c] = "idle" /\ ret'[c] = result
  BY <1>1, Zenon DEF Return, TypeOK
<1>6. PointOf(c)' /\ ConflictOf(c)'
  BY <1>5, ZenonT(30) DEF PointOf, ConflictOf, PutPoints, DeletePoints, ListPoints
<1>7. op[c].call = "delete" /\ ret'[c] = "ok" => znode'[Target(c)] = NoNode
  BY <1>1, <1>2, <1>5, SMTT(30) DEF TypeOK
<1>8. held'[c] = held[c] \/ \E h \in Held : held'[c] = h /\ KnownOf(h)'
  BY <1>1, Zenon DEF TypeOK
<1> QED
  BY <1>3, <1>4, <1>6, <1>7, <1>8, ChangeStep, Zenon

\* What Set makes of a znode.
LEMMA SetNode ==
  ASSUME NEW z \in Znode, NEW d \in Data
  PROVE  [z EXCEPT !.data = d, !.version = @ + 1]
           = [data |-> d, version |-> z.version + 1, born |-> z.born]
<1>1. PICK a, v, b : z = [data |-> a, version |-> v, born |-> b]
  BY Zenon DEF Znode
<1> DEFINE y == [z EXCEPT !.data = d, !.version = @ + 1]
<1>2. DOMAIN y = {"data", "version", "born"} /\ y = [f \in {"data", "version", "born"} |-> y[f]]
  BY <1>1, Zenon
<1>3. y.data = d /\ y.version = z.version + 1 /\ y.born = z.born
  BY <1>1, Zenon
<1> HIDE DEF y
<1>4. y = [data |-> d, version |-> z.version + 1, born |-> z.born]
  BY <1>2, <1>3, Zenon
<1> QED
  BY <1>4, Zenon DEF y

LEMMA PutSetStep ==
  ASSUME ZKInv, UNCHANGED workload, NEW c \in Clients, PutSet(c)
  PROVE  ZKInv'
<1> DEFINE p == Target(c)
           node == [znode[p] EXCEPT !.data = op[c].data, !.version = @ + 1]
<1>1. pc[c] = "set" /\ UNCHANGED <<workload, zxid, op, seg, todo, found, calls>>
  BY Zenon DEF PutSet
<1>2. op[c].call = "put" /\ p \notin touched[c] /\ p \in Paths
  BY <1>1, Going, Zenon DEF ZKInv, CallInv, PointOf, ConflictOf, PutPoints
<1>3. CASE ~Exists(p) /\ Goto(c, "check") /\ UNCHANGED <<znode, faults, held, histVars>>
  <2>1. "check" \in Points \ {"idle", "exists", "variants"} /\ "check" \notin DeletePoints \cup ListPoints
        /\ pc[c] \in PutPoints
    BY <1>1, Zenon DEF Points, PutPoints, DeletePoints, ListPoints
  <2>2. seg[c] <= Len(Target(c))
    BY <1>1, Zenon DEF ZKInv, CallInv, PointOf
  <2> QED
    BY <1>1, <1>2, <1>3, <2>1, <2>2, Going, MoveStep, Zenon
<1>4. CASE /\ Exists(p) /\ ~VersionMatches(p, actualVersion(op[c].version)) /\ BadVersion(c)
           /\ UNCHANGED <<znode, faults, held, histVars>>
  <2>1. Return(c, "conflict") /\ "conflict" \in Results
    BY <1>4, Zenon DEF BadVersion, Results
  <2>2. Outdated(c)
    BY <1>2, <1>4, MismatchIsOutdated, Zenon
  <2> QED
    BY <1>1, <1>2, <1>4, <2>1, <2>2, Going, EndStep, Zenon
<1>5. CASE /\ Exists(p) /\ VersionMatches(p, actualVersion(op[c].version)) /\ Change(c, p, node)
           /\ \E lost \in MayLose :
                /\ Fault(lost)
                /\ IF lost THEN Return(c, "error") /\ UNCHANGED held ELSE PutReturns(c, node)
  <2>1. PICK lost \in MayLose :
          /\ Fault(lost)
          /\ IF lost THEN Return(c, "error") /\ UNCHANGED held ELSE PutReturns(c, node)
    BY <1>5, ZenonT(30)
  <2>2. /\ node \in Znode /\ node # NoNode /\ node.version = znode[p].version + 1
        /\ node.born = znode[p].born /\ node.data = op[c].data /\ op[c].data \in Data
        /\ node.version \in Nat /\ node.born \in Nat /\ node.born <= zxid
    <3>1. znode[p] \in Znode /\ znode[p].born <= zxid /\ op[c].data \in Data
      BY <1>2, <1>5, Zenon DEF ZKInv, TypeOK, TreeInv, Exists, Op
    <3>2. znode[p] = [data |-> znode[p].data, version |-> znode[p].version, born |-> znode[p].born]
          /\ znode[p].version \in Nat /\ znode[p].born \in Nat
      BY <3>1, Zenon DEF Znode
    <3>3. node = [data |-> op[c].data, version |-> znode[p].version + 1, born |-> znode[p].born]
      BY <3>1, SetNode, ZenonT(30)
    <3> HIDE DEF node
    <3>4. node \in Znode
      BY <3>1, <3>2, <3>3, SMTT(30) DEF Znode
    <3> QED
      BY <3>1, <3>2, <3>3, <3>4, NilAssumption, SMTT(30)
  <2> HIDE DEF node
  <2>3. Evolves(p, node)
    BY <1>1, <1>2, <1>5, <2>2, Going, NilAssumption, Zenon DEF Evolves
  <2>4. \E result \in {"ok", "error"} :
          /\ Return(c, result)
          /\ \/ held' = held
             \/ \E h \in Held : held' = [held EXCEPT ![c] = h] /\ KnownOf(h)'
    <3>1. CASE lost
      BY <2>1, <3>1, Zenon
    <3>2. CASE ~lost
      <4>0. PICK h : h = Holding(op[c].ident, node, op[c].data, "put")
        BY Zenon
      <4>1. Return(c, "ok") /\ held' = [held EXCEPT ![c] = h]
        BY <2>1, <3>2, <4>0, Zenon DEF PutReturns
      <4>2. h \in Held
        BY <1>1, <2>2, <4>0, Going, Zenon DEF Holding, Held
      <4>3. h.ident = op[c].ident /\ h.version = node.version /\ h.born = node.born /\ h.from = "put"
        BY <4>0, Zenon DEF Holding
      <4>4. znode'[p] = node /\ p = IdentPath(op[c].ident)
        BY <1>2, <1>5, <2>2, ZenonT(30) DEF Change, Target, ZKInv, TypeOK
      <4>5. KnownOf(h)'
        BY <1>1, <2>2, <4>3, <4>4, SMTT(30) DEF KnownOf, Exists
      <4> QED
        BY <4>1, <4>2, <4>5, Zenon
    <3> QED
      BY <3>1, <3>2, Zenon
  <2>5. PICK result \in {"ok", "error"} :
          /\ Return(c, result)
          /\ \/ held' = held
             \/ \E h \in Held : held' = [held EXCEPT ![c] = h] /\ KnownOf(h)'
    BY <2>4, Zenon
  <2>6. todo' \in [Clients -> SUBSET Paths]
    BY <1>1, Zenon DEF ZKInv, TypeOK
  <2> QED
    BY <1>1, <1>2, <1>5, <2>1, <2>2, <2>3, <2>5, <2>6, ChangeEnds, ZenonT(30)
<1> QED
  BY <1>3, <1>4, <1>5, Zenon DEF PutSet

\* setFully: where its loop stands, and where it goes.
LEMMA CurrentKnown ==
  ASSUME ZKInv, NEW c \in Clients, pc[c] \in {"check", "create"}
  PROVE  /\ Current(c) \in Paths /\ Len(Current(c)) = seg[c] /\ seg[c] \in 1 .. Len(Target(c))
         /\ IsLast(c) => Current(c) = Target(c)
         /\ op[c].call = "put" /\ Target(c) \notin touched[c] /\ ret[c] = "none"
<1>1. pc[c] # "idle" /\ pc[c] \in PutPoints
  BY Zenon DEF PutPoints
<1>2. /\ Target(c) = IdentPath(op[c].ident) /\ op[c].ident \in Idents
      /\ seg[c] \in 1 .. Len(Target(c))
  BY <1>1, Going, Zenon
<1>3. op[c].call = "put" /\ Target(c) \notin touched[c] /\ ret[c] = "none"
  BY <1>1, Zenon DEF ZKInv, CallInv, PointOf, ConflictOf
<1> QED
  BY <1>2, <1>3, PathsKnown, Zenon DEF Current, IsLast

LEMMA NextSegmentGoes ==
  ASSUME ZKInv, NEW c \in Clients, pc[c] \in {"check", "create"}, NextSegment(c)
  PROVE  \E point \in {"check", "mustExist"} :
           /\ Goto(c, point) /\ (point = "check" => ~IsLast(c))
           /\ seg' \in [Clients -> Nat \ {0}] /\ seg'[c] <= Len(Target(c))
           /\ \A d \in Clients \ {c} : seg'[d] = seg[d]
<1>1. seg \in [Clients -> Nat \ {0}] /\ seg[c] \in 1 .. Len(Target(c)) /\ Len(Target(c)) \in Nat
  BY CurrentKnown, Going, PathsKnown, SMTT(30) DEF ZKInv, TypeOK
<1>2. CASE IsLast(c)
  BY <1>1, <1>2 DEF NextSegment
<1>3. CASE ~IsLast(c)
  <2>1. Goto(c, "check") /\ seg' = [seg EXCEPT ![c] = @ + 1]
    BY <1>3, Zenon DEF NextSegment
  <2>2. seg'[c] = seg[c] + 1 /\ seg[c] # Len(Target(c))
    BY <1>1, <1>3, <2>1, Zenon DEF IsLast
  <2>3. seg' \in [Clients -> Nat \ {0}] /\ seg'[c] <= Len(Target(c))
        /\ \A d \in Clients \ {c} : seg'[d] = seg[d]
    BY <1>1, <2>1, <2>2
  <2> QED
    BY <1>3, <2>1, <2>3, Zenon
<1> QED
  BY <1>2, <1>3, ZenonT(30)

LEMMA NextSegmentStep ==
  ASSUME ZKInv, NEW c \in Clients, pc[c] \in {"check", "create"}, NextSegment(c),
         UNCHANGED <<workload, znode, zxid, faults, op, todo, found, calls, held, histVars>>
  PROVE  ZKInv'
<1>1. PICK point \in {"check", "mustExist"} :
        /\ Goto(c, point)
        /\ seg' \in [Clients -> Nat \ {0}] /\ seg'[c] <= Len(Target(c))
        /\ \A d \in Clients \ {c} : seg'[d] = seg[d]
  BY NextSegmentGoes, Zenon
<1>2. /\ point \in Points \ {"idle", "exists", "variants"} /\ point \notin DeletePoints \cup ListPoints
      /\ pc[c] \in PutPoints /\ pc[c] # "mustExist" /\ pc[c] # "idle"
      /\ point # "bucket" /\ point # "delVariants"
  BY Zenon DEF Points, PutPoints, DeletePoints, ListPoints
<1> QED
  BY <1>1, <1>2, CurrentKnown, Going, MoveStep, Zenon

LEMMA CheckSegmentStep ==
  ASSUME ZKInv, UNCHANGED workload, NEW c \in Clients, CheckSegment(c)
  PROVE  ZKInv'
<1>1. /\ pc[c] = "check"
      /\ UNCHANGED <<workload, znode, zxid, faults, op, todo, found, calls, held, histVars>>
  BY Zenon DEF CheckSegment, zkVars
<1>2. CASE Exists(Current(c))
  BY <1>1, <1>2, NextSegmentStep, Zenon DEF CheckSegment
<1>3. CASE ~Exists(Current(c)) /\ IsLast(c) /\ actualVersion(op[c].version) >= 0
  <2>1. Return(c, "conflict") /\ UNCHANGED seg /\ "conflict" \in Results
    BY <1>3, Zenon DEF CheckSegment, Results
  <2>2. Target(c) \notin touched[c] /\ Outdated(c) /\ op[c].call = "put"
    BY <1>1, <1>3, CurrentKnown, Zenon DEF Outdated, Exists
  <2> QED
    BY <1>1, <2>1, <2>2, Going, EndStep, Zenon
<1>4. CASE ~Exists(Current(c)) /\ ~(IsLast(c) /\ actualVersion(op[c].version) >= 0)
  <2>1. Goto(c, "create") /\ UNCHANGED seg
    BY <1>4, Zenon DEF CheckSegment
  <2>2. /\ "create" \in Points \ {"idle", "exists", "variants"} /\ "create" \notin DeletePoints \cup ListPoints
        /\ pc[c] \in PutPoints
    BY <1>1, Zenon DEF Points, PutPoints, DeletePoints, ListPoints
  <2>3. seg[c] <= Len(Target(c)) /\ op[c].call = "put"
    BY <1>1, CurrentKnown, ZenonT(30) DEF ZKInv, CallInv, PointOf
  <2> QED
    BY <1>1, <2>1, <2>2, <2>3, Going, MoveStep, Zenon
<1> QED
  BY <1>2, <1>3, <1>4, Zenon

LEMMA MustExistStep ==
  ASSUME ZKInv, UNCHANGED workload, NEW c \in Clients, MustExist(c)
  PROVE  ZKInv'
<1>1. /\ pc[c] = "mustExist"
      /\ UNCHANGED <<workload, znode, zxid, faults, op, seg, todo, found, calls, histVars>>
  BY Zenon DEF MustExist, zkVars
<1>2. op[c].call = "put" /\ op[c].data \in Data
  BY <1>1, Zenon DEF ZKInv, CallInv, PointOf, PutPoints, TypeOK, Op
<1>3. CASE Exists(Target(c))
  <2>1. PutReturns(c, znode[Target(c)]) /\ "ok" \in Results
    BY <1>3, Zenon DEF MustExist, Results
  <2>2. PICK h \in Held : held' = [held EXCEPT ![c] = h] /\ KnownOf(h)
    BY <1>1, <1>2, <1>3, <2>1, Going, NowHeld, Zenon DEF PutReturns
  <2> QED
    BY <1>1, <1>2, <2>1, <2>2, Going, EndStep, Zenon DEF PutReturns
<1>4. CASE ~Exists(Target(c))
  <2>1. Return(c, "error") /\ UNCHANGED held /\ "error" \in Results
    BY <1>4, Zenon DEF MustExist, Results
  <2> QED
    BY <1>1, <1>2, <2>1, Going, EndStep, Zenon
<1> QED
  BY <1>3, <1>4, Zenon

\* setFully gives data to items and variants, and to no znode above them.
LEMMA SegmentDataKnown ==
  ASSUME ZKInv, NEW c \in Clients, pc[c] = "create"
  PROVE  /\ SegmentData(c) \in Data \cup {NoData}
         /\ IsItemPath(Current(c)) <=> SegmentData(c) # NoData
<1>1. /\ Len(Current(c)) = seg[c] /\ seg[c] \in 1 .. Len(Target(c))
      /\ Len(Target(c)) = Len(Buckets) + IF op[c].ident.variant = NoVariant THEN 2 ELSE 3
  BY CurrentKnown, Going, ZenonT(30)
<1>2. op[c].data \in Data /\ op[c].data # NoData /\ Len(Buckets) \in Nat
  BY NilAssumption, BucketsType, SMTT(30) DEF ZKInv, TypeOK, Op
<1>3. Len(Target(c)) \in Nat /\ seg[c] \in Nat
  BY <1>1, <1>2, SMTT(30)
<1>4. IsItemPath(Current(c)) <=>
        IsLast(c) \/ (op[c].ident.variant # NoVariant /\ seg[c] = Len(Target(c)) - 1)
  BY <1>1, <1>2, <1>3 DEF IsItemPath, IsLast
<1> QED
  BY <1>2, <1>4, Zenon DEF SegmentData

LEMMA CreateSegmentStep ==
  ASSUME ZKInv, UNCHANGED workload, NEW c \in Clients, CreateSegment(c)
  PROVE  ZKInv'
<1> DEFINE p == Current(c)
<1>1. pc[c] = "create" /\ UNCHANGED <<workload, op, todo, found, calls, held>>
  BY Zenon DEF CreateSegment
<1>2. /\ op[c].call = "put" /\ p \in Paths /\ Len(p) = seg[c]
      /\ Target(c) \notin touched[c] /\ ret[c] = "none"
  BY <1>1, CurrentKnown, Zenon
<1>3. CASE Exists(p) /\ NextSegment(c) /\ UNCHANGED <<zkVars, histVars>>
  BY <1>1, <1>3, NextSegmentStep, Zenon DEF zkVars
<1>4. CASE Return(c, "error") /\ UNCHANGED <<zkVars, seg, histVars>>
  <2>1. UNCHANGED <<znode, zxid, faults>> /\ "error" \in Results
    BY <1>4, Zenon DEF zkVars, Results
  <2> QED
    BY <1>1, <1>2, <1>4, <2>1, Going, EndStep, ZenonT(30)
<1>5. CASE /\ ~Exists(p) /\ (Len(p) > 1 => Exists(Parent(p))) /\ zxid' = zxid + 1
           /\ Change(c, p, [data |-> SegmentData(c), version |-> 0, born |-> zxid'])
           /\ \E lost \in MayLose :
                /\ Fault(lost)
                /\ IF lost THEN Return(c, "error") /\ UNCHANGED seg ELSE NextSegment(c)
  <2>1. PICK lost \in MayLose :
          /\ Fault(lost)
          /\ IF lost THEN Return(c, "error") /\ UNCHANGED seg ELSE NextSegment(c)
    BY <1>5, Zenon
  <2>2. zxid \in Nat /\ zxid' = zxid + 1 /\ TypeOK
    BY <1>5, Zenon DEF ZKInv, TypeOK
  <2>3. PICK node : node = [data |-> SegmentData(c), version |-> 0, born |-> zxid']
    BY Zenon
  <2>4. /\ node \in Znode /\ node # NoNode /\ node.version = 0 /\ node.born = zxid + 1
        /\ node.data = SegmentData(c)
    BY <1>1, <2>2, <2>3, SegmentDataKnown, NilAssumption, SMTT(30) DEF Znode
  <2>5. Evolves(p, node) /\ Change(c, p, node)
    BY <1>1, <1>5, <2>3, <2>4, SegmentDataKnown, ZenonT(30) DEF Evolves
  <2>6. CASE lost
    BY <1>1, <1>2, <2>1, <2>2, <2>4, <2>5, <2>6, ChangeEnds, Going, ZenonT(30)
  <2>7. CASE ~lost
    <3>1. PICK point \in {"check", "mustExist"} :
            /\ Goto(c, point) /\ (point = "check" => ~IsLast(c))
            /\ seg' \in [Clients -> Nat \ {0}] /\ seg'[c] <= Len(Target(c))
            /\ \A d \in Clients \ {c} : seg'[d] = seg[d]
      BY <1>1, <2>1, <2>7, NextSegmentGoes, Zenon
    <3>2. point \in Points /\ point \in PutPoints
      BY Zenon DEF Points, PutPoints
    <3>3. TypeOK'
      <4>1. pc' \in [Clients -> Points] /\ ret' \in [Clients -> Results]
        BY <2>2, <3>1, <3>2, GotoType, Zenon
      <4>2. /\ znode' \in [Paths -> Znode \cup {NoNode}] /\ touched' \in [Clients -> SUBSET Paths]
            /\ saw' \in [Clients -> [absent : BOOLEAN, always : SUBSET Names, ever : SUBSET Names]]
        BY <1>2, <2>2, <2>4, <2>5, ChangeType, Zenon
      <4>3. faults' \in 0 .. workload'.maxFaults
        BY <2>1, <2>2, FaultType, Zenon
      <4> QED
        BY <1>1, <2>2, <3>1, <4>1, <4>2, <4>3, SMTT(30) DEF TypeOK, Results
    <3>4. OthersSame(c)
      BY <1>1, <2>2, <2>5, <3>1, ZenonT(30) DEF OthersSame, SameOf, Change, Goto, TypeOK
    <3>5. /\ pc'[c] = point /\ ret'[c] = "none" /\ touched'[c] = touched[c] \cup {p}
          /\ Target(c)' = Target(c)
      BY <1>1, <1>2, <2>2, <2>5, <3>1, ZenonT(30) DEF Goto, Change, TypeOK, Target
    <3>6. PointOf(c)'
      BY <1>1, <1>2, <3>1, <3>5, Zenon DEF PointOf, DeletePoints, ListPoints
    <3>7. ConflictOf(c)'
      BY <1>2, <3>1, <3>5, Zenon DEF ConflictOf, IsLast
    <3> QED
      BY <1>1, <1>2, <2>4, <2>5, <3>3, <3>4, <3>5, <3>6, <3>7, ChangeStep, ZenonT(30)
  <2> QED
    BY <2>6, <2>7, Zenon
<1> QED
  BY <1>3, <1>4, <1>5, Zenon DEF CreateSegment

LEMMA ChildrenKnown ==
  ASSUME NEW p
  PROVE  Children(p) \subseteq Paths /\ \A q \in Children(p) : Exists(q) /\ Len(q) = Len(p) + 1
  BY Zenon DEF Children

\* A variant has no children.
LEMMA VariantIsLeaf ==
  ASSUME NEW p \in Paths, Len(p) = Len(Buckets) + 3
  PROVE  Children(p) = {}
<1> SUFFICES ASSUME NEW q \in Children(p) PROVE FALSE
  BY Zenon
<1>1. q \in Paths /\ Len(q) = Len(Buckets) + 3 + 1
  BY ChildrenKnown, Zenon
<1>2. Len(q) <= Len(Buckets) + 3 /\ Len(q) \in Nat /\ Len(Buckets) \in Nat
  BY <1>1, PathsKnown, BucketsType, SMTT(30)
<1> QED
  BY <1>1, <1>2

LEMMA DeletePointKnown ==
  ASSUME ZKInv, NEW c \in Clients, pc[c] \in DeletePoints
  PROVE  /\ pc[c] # "idle" /\ pc[c] # "mustExist" /\ op[c].call = "delete" /\ ret[c] = "none"
         /\ Target(c) \notin touched[c] /\ seg[c] <= Len(Target(c)) /\ Target(c) \in Paths
         /\ ~Exists(Target(c)) => saw[c].absent
<1>1. pc[c] # "idle" /\ pc[c] # "mustExist"
  BY Zenon DEF DeletePoints
<1> QED
  BY <1>1, Going, Zenon DEF ZKInv, CallInv, PointOf, ConflictOf, GoneOf

LEMMA DeleteVariantsStep ==
  ASSUME ZKInv, UNCHANGED workload, NEW c \in Clients, DeleteVariants(c)
  PROVE  ZKInv'
<1>1. /\ pc[c] = "variants" /\ pc[c] \in DeletePoints
      /\ UNCHANGED <<workload, znode, zxid, faults, op, seg, found, calls, held, histVars>>
  BY Zenon DEF DeleteVariants, zkVars, DeletePoints
<1>2. CASE Exists(Target(c))
  <2> DEFINE variants == Children(Target(c))
             point == IF variants = {} THEN "delNode" ELSE "delVariants"
  <2>1. todo' = [todo EXCEPT ![c] = variants] /\ Goto(c, point)
    BY <1>2, Zenon DEF DeleteVariants
  <2>2. /\ todo' \in [Clients -> SUBSET Paths] /\ todo'[c] = variants
        /\ \A d \in Clients \ {c} : todo'[d] = todo[d]
    BY <2>1, ChildrenKnown, Zenon DEF ZKInv, TypeOK
  <2>3. \A p \in variants : Len(p) = Len(Buckets) + 3
    <3> SUFFICES ASSUME NEW p \in variants PROVE Len(p) = Len(Buckets) + 3
      BY Zenon
    <3>1. p \in Paths /\ Len(p) = Len(Target(c)) + 1
      BY ChildrenKnown, ZenonT(30)
    <3>2. /\ Len(p) <= Len(Buckets) + 3 /\ Len(Buckets) \in Nat
          /\ Len(Target(c)) \in {Len(Buckets) + 2, Len(Buckets) + 3}
      BY <1>1, <3>1, PathsKnown, BucketsType, Going, SMTT(30)
    <3> QED
      BY <3>1, <3>2
  <2>4. /\ point \in Points \ {"idle", "exists", "variants"} /\ point \notin PutPoints \cup ListPoints
        /\ point # "bucket"
    BY Zenon DEF Points, PutPoints, DeletePoints, ListPoints
  <2> HIDE DEF variants, point
  <2> QED
    BY <1>1, <2>1, <2>2, <2>3, <2>4, DeletePointKnown, Going, MoveStep, ZenonT(30)
<1>3. CASE ~Exists(Target(c))
  <2>1. Return(c, "ok") /\ UNCHANGED todo /\ "ok" \in Results
    BY <1>3, Zenon DEF DeleteVariants, Results
  <2>2. op[c].call = "delete" /\ saw[c].absent
    BY <1>1, <1>3, DeletePointKnown, Zenon
  <2> QED
    BY <1>1, <2>1, <2>2, Going, EndStep, Zenon
<1> QED
  BY <1>2, <1>3, Zenon

LEMMA DeleteVariantStep ==
  ASSUME ZKInv, UNCHANGED workload, NEW c \in Clients, DeleteVariant(c)
  PROVE  ZKInv'
<1>1. /\ pc[c] = "delVariants" /\ pc[c] \in DeletePoints
      /\ UNCHANGED <<workload, zxid, op, seg, found, calls, held>>
  BY Zenon DEF DeleteVariant, DeletePoints
<1>2. PICK p \in todo[c] :
       /\ todo' = [todo EXCEPT ![c] = @ \ {p}]
       /\ \/ /\ ~Exists(p)
             /\ Goto(c, IF todo[c] = {p} THEN "delNode" ELSE "delVariants")
             /\ UNCHANGED <<znode, faults, histVars>>
          \/ /\ Exists(p)
             /\ Change(c, p, NoNode)
             /\ \E lost \in MayLose :
                  /\ Fault(lost)
                  /\ IF lost THEN Return(c, "error")
                     ELSE Goto(c, IF todo[c] = {p} THEN "delNode" ELSE "delVariants")
  BY Zenon DEF DeleteVariant
<1> DEFINE point == IF todo[c] = {p} THEN "delNode" ELSE "delVariants"
<1>3. /\ todo' \in [Clients -> SUBSET Paths] /\ todo'[c] \subseteq todo[c]
      /\ \A d \in Clients \ {c} : todo'[d] = todo[d]
      /\ p \in Paths /\ \A q \in todo[c] : Len(q) = Len(Buckets) + 3
  BY <1>1, <1>2, ZenonT(30) DEF ZKInv, TypeOK, CallInv, PointOf
<1>4. /\ point \in Points \ {"idle", "exists", "variants"} /\ point \notin PutPoints \cup ListPoints
      /\ point # "bucket" /\ point \in DeletePoints
  BY Zenon DEF Points, PutPoints, DeletePoints, ListPoints
<1>5. CASE ~Exists(p) /\ Goto(c, point) /\ UNCHANGED <<znode, faults, histVars>>
  <2> HIDE DEF point
  <2> QED
    BY <1>1, <1>3, <1>4, <1>5, DeletePointKnown, Going, MoveStep, ZenonT(30)
<1>6. CASE /\ Exists(p) /\ Change(c, p, NoNode)
           /\ \E lost \in MayLose : Fault(lost) /\ IF lost THEN Return(c, "error") ELSE Goto(c, point)
  <2>1. PICK lost \in MayLose : Fault(lost) /\ IF lost THEN Return(c, "error") ELSE Goto(c, point)
    BY <1>6, Zenon
  <2>2. Evolves(p, NoNode)
    BY <1>1, <1>3, <1>6, VariantIsLeaf, Zenon DEF Evolves
  <2>3. CASE lost
    BY <1>1, <1>3, <1>6, <2>1, <2>2, <2>3, DeletePointKnown, ChangeEnds, ZenonT(30)
  <2>4. CASE ~lost
    <3> HIDE DEF point
    <3>1. TypeOK /\ Goto(c, point)
      BY <2>1, <2>4, Zenon DEF ZKInv
    <3>2. TypeOK'
      <4>1. pc' \in [Clients -> Points] /\ ret' \in [Clients -> Results]
        BY <1>4, <3>1, GotoType, Zenon
      <4>2. /\ znode' \in [Paths -> Znode \cup {NoNode}] /\ touched' \in [Clients -> SUBSET Paths]
            /\ saw' \in [Clients -> [absent : BOOLEAN, always : SUBSET Names, ever : SUBSET Names]]
        BY <1>3, <1>6, <3>1, ChangeType, Zenon
      <4>3. faults' \in 0 .. workload'.maxFaults
        BY <2>1, <3>1, FaultType, Zenon
      <4> QED
        BY <1>1, <1>3, <3>1, <4>1, <4>2, <4>3, ZenonT(30) DEF TypeOK, Results
    <3>3. OthersSame(c)
      BY <1>1, <1>3, <1>6, <3>1, ZenonT(30) DEF OthersSame, SameOf, Change, Goto, TypeOK
    <3>4. /\ pc'[c] = point /\ ret'[c] = ret[c] /\ touched'[c] = touched[c] \cup {p}
          /\ Target(c)' = Target(c)
      BY <1>1, <1>6, <3>1, Zenon DEF Goto, Change, TypeOK, Target
    <3>5. PointOf(c)'
      <4>1. op[c].ident.variant = NoVariant
        BY <1>1, Zenon DEF ZKInv, CallInv, PointOf
      <4> QED
        BY <1>1, <1>3, <1>4, <3>4, <4>1, DeletePointKnown, ZenonT(30) DEF PointOf
    <3>6. p # Target(c)
      <4>1. Len(p) = Len(Buckets) + 3 
        BY <1>2, <1>3, Zenon
      <4>2. Len(Target(c)) = Len(Buckets) + 2 /\ Len(Buckets) \in Nat
        BY <1>1, Going, BucketsType, ZenonT(30) DEF ZKInv, CallInv, PointOf
      <4> QED
        BY <4>1, <4>2, SMTT(30)
    <3>7. ConflictOf(c)'
      BY <1>1, <3>4, <3>6, DeletePointKnown, Zenon DEF ConflictOf
    <3> QED
      BY <1>1, <1>3, <1>6, <2>2, <3>2, <3>3, <3>4, <3>5, <3>7, DeletePointKnown, ChangeStep, ZenonT(30)
  <2> QED
    BY <2>3, <2>4, Zenon
<1> QED
  BY <1>2, <1>5, <1>6, Zenon

LEMMA DeleteNodeStep ==
  ASSUME ZKInv, UNCHANGED workload, NEW c \in Clients, DeleteNode(c)
  PROVE  ZKInv'
<1> DEFINE p == Target(c)
<1>1. /\ pc[c] = "delNode" /\ pc[c] \in DeletePoints /\ p = Target(c)
      /\ UNCHANGED <<workload, zxid, op, seg, todo, found, calls, held>>
  BY Zenon DEF DeleteNode, DeletePoints
<1>2. p \in Paths /\ todo \in [Clients -> SUBSET Paths]
  BY <1>1, DeletePointKnown, Going, Zenon
<1>3. {"ok", "conflict", "error"} \subseteq Results
  BY Zenon DEF Results
<1>4. CASE ~Exists(p) /\ Return(c, "ok") /\ UNCHANGED <<znode, faults, histVars>>
  BY <1>1, <1>3, <1>4, DeletePointKnown, Going, EndStep, ZenonT(30)
<1>5. CASE /\ Exists(p) /\ ~VersionMatches(p, actualVersion(op[c].version)) /\ Return(c, "conflict")
           /\ UNCHANGED <<znode, faults, histVars>>
  BY <1>1, <1>3, <1>5, DeletePointKnown, MismatchIsOutdated, Going, EndStep, Zenon
<1>6. CASE NotEmpty(c) /\ UNCHANGED <<znode, faults, histVars>>
  BY <1>1, <1>3, <1>6, DeletePointKnown, Going, EndStep, ZenonT(30) DEF NotEmpty
<1>7. CASE /\ Exists(p) /\ Children(p) = {} /\ Change(c, p, NoNode)
           /\ \E lost \in MayLose : Fault(lost) /\ Return(c, IF lost THEN "error" ELSE "ok")
  <2>1. PICK lost \in MayLose : Fault(lost) /\ Return(c, IF lost THEN "error" ELSE "ok")
    BY <1>7, Zenon
  <2>2. PICK result \in {"ok", "error"} : Return(c, result)
    BY <2>1, Zenon
  <2>3. Evolves(p, NoNode)
    BY <1>1, <1>7, Zenon DEF Evolves
  <2> QED
    BY <1>1, <1>2, <1>7, <2>1, <2>2, <2>3, DeletePointKnown, ChangeEnds, ZenonT(30)
<1> QED
  BY <1>4, <1>5, <1>6, <1>7, Zenon DEF DeleteNode

\* An item that exists has its bucket and the buckets above it.
LEMMA ItemHasBucket ==
  ASSUME ZKInv, NEW n \in Items
  PROVE  /\ n \in Names /\ Exists(Buckets) /\ BucketPath(n) \in Children(Buckets)
         /\ ItemPath(n) \in Children(BucketPath(n))
<1>1. n \in Names /\ Exists(ItemPath(n))
  BY Zenon DEF Items
<1>2. /\ ItemPath(n) \in Paths /\ Len(ItemPath(n)) = Len(Buckets) + 2
      /\ BucketPath(n) \in Paths /\ Len(BucketPath(n)) = Len(Buckets) + 1
      /\ Parent(ItemPath(n)) = BucketPath(n)
      /\ Buckets \in Paths /\ Parent(BucketPath(n)) = Buckets /\ Len(Buckets) \in Nat \ {0}
  BY <1>1, ItemPathKnown, BucketsType, Zenon
<1>3. Exists(BucketPath(n))
  BY <1>1, <1>2, SMTT(30) DEF ZKInv, TreeInv
<1>4. Exists(Buckets)
  BY <1>2, <1>3, SMTT(30) DEF ZKInv, TreeInv
<1> QED
  BY <1>1, <1>2, <1>3, <1>4, SMTT(30) DEF Children

LEMMA ListPointKnown ==
  ASSUME ZKInv, NEW c \in Clients, pc[c] \in ListPoints
  PROVE  /\ pc[c] # "idle" /\ pc[c] # "mustExist" /\ op[c].call = "list"
         /\ seg[c] <= Len(Target(c)) /\ found[c] \subseteq saw[c].ever
         /\ saw[c].always \subseteq Items /\ Items \subseteq saw[c].ever
<1>1. pc[c] # "idle" /\ pc[c] # "mustExist"
  BY Zenon DEF ListPoints
<1> QED
  BY <1>1, Zenon DEF ZKInv, CallInv, PointOf, ListOf

LEMMA ListBucketsStep ==
  ASSUME ZKInv, UNCHANGED workload, NEW c \in Clients, ListBuckets(c)
  PROVE  ZKInv'
<1>1. /\ pc[c] = "buckets" /\ pc[c] \in ListPoints
      /\ UNCHANGED <<workload, znode, zxid, faults, op, seg, found, calls, held, histVars>>
  BY Zenon DEF ListBuckets, zkVars, ListPoints
<1>2. "ok" \in Results /\ "notFound" \in Results
  BY Zenon DEF Results
<1>3. CASE Exists(Buckets)
  <2>1. /\ todo' = [todo EXCEPT ![c] = Children(Buckets)]
        /\ IF Children(Buckets) = {} THEN Return(c, "ok") ELSE Goto(c, "bucket")
    BY <1>3, Zenon DEF ListBuckets
  <2>2. /\ todo' \in [Clients -> SUBSET Paths] /\ todo'[c] = Children(Buckets)
        /\ \A d \in Clients \ {c} : todo'[d] = todo[d]
    BY <2>1, ChildrenKnown, Zenon DEF ZKInv, TypeOK
  <2>3. \A n \in saw[c].always : BucketPath(n) \in todo'[c]
    BY <1>1, <2>2, ListPointKnown, ItemHasBucket, Zenon
  <2>4. CASE Children(Buckets) = {}
    <3>1. saw[c].always \subseteq found[c]
      BY <2>2, <2>3, <2>4, Zenon
    <3> QED
      BY <1>1, <1>2, <2>1, <2>2, <2>4, <3>1, ListPointKnown, Going, EndStep, ZenonT(30)
  <2>5. CASE Children(Buckets) # {}
    <3>1. \A p \in todo'[c] : Len(p) = Len(Buckets) + 1
      BY <2>2, ChildrenKnown, Zenon
    <3>2. /\ "bucket" \in Points \ {"idle", "exists", "variants"}
          /\ "bucket" \notin PutPoints \cup DeletePoints
      BY Zenon DEF Points, PutPoints, DeletePoints, ListPoints
    <3> QED
      BY <1>1, <2>1, <2>2, <2>3, <2>5, <3>1, <3>2, ListPointKnown, Going, MoveStep, ZenonT(30)
  <2> QED
    BY <2>4, <2>5, Zenon
<1>4. CASE ~Exists(Buckets)
  <2>1. Return(c, "notFound") /\ UNCHANGED todo
    BY <1>4, Zenon DEF ListBuckets
  <2>2. saw[c].always \subseteq found[c]
    BY <1>1, <1>4, ListPointKnown, ItemHasBucket, ZenonT(30)
  <2> QED
    BY <1>1, <1>2, <2>1, <2>2, ListPointKnown, Going, EndStep, ZenonT(30)
<1> QED
  BY <1>3, <1>4, Zenon

LEMMA ListBucketStep ==
  ASSUME ZKInv, UNCHANGED workload, NEW c \in Clients, ListBucket(c)
  PROVE  ZKInv'
<1>1. /\ pc[c] = "bucket" /\ pc[c] \in ListPoints
      /\ UNCHANGED <<workload, znode, zxid, faults, op, seg, calls, held, histVars>>
  BY Zenon DEF ListBucket, zkVars, ListPoints
<1>2. PICK b \in todo[c] :
        /\ todo' = [todo EXCEPT ![c] = @ \ {b}]
        /\ found' = [found EXCEPT ![c] = @ \cup {q[Len(q)] : q \in Children(b)}]
        /\ IF todo[c] = {b} THEN Return(c, "ok") ELSE Goto(c, "bucket")
  BY Zenon DEF ListBucket
<1> DEFINE listed == {q[Len(q)] : q \in Children(b)}
<1>3. /\ b \in Paths /\ Len(b) = Len(Buckets) + 1
      /\ \A p \in todo[c] : Len(p) = Len(Buckets) + 1
      /\ \A n \in saw[c].always : n \in found[c] \/ BucketPath(n) \in todo[c]
  BY <1>1, <1>2, ZenonT(30) DEF ZKInv, TypeOK, CallInv, PointOf, ListOf
<1>4. listed \subseteq Items
  <2> SUFFICES ASSUME NEW q \in Children(b) PROVE q[Len(q)] \in Items
    BY Zenon
  <2>1. q \in Paths /\ Exists(q) /\ Len(q) = Len(Buckets) + 2
    <3>1. q \in Paths /\ Exists(q) /\ Len(q) = Len(b) + 1
      BY ChildrenKnown, Zenon
    <3> QED
      BY <1>3, <3>1, BucketsType, SMTT(30)
  <2>2. PICK n \in Names : q = ItemPath(n)
    BY <2>1, ItemPathOnly, Zenon
  <2> QED
    BY <2>1, <2>2, ItemPathKnown, Zenon DEF Items
<1>5. \A n \in saw[c].always : BucketPath(n) = b => n \in listed
  <2> SUFFICES ASSUME NEW n \in saw[c].always, BucketPath(n) = b PROVE n \in listed
    BY Zenon
  <2>1. n \in Names /\ ItemPath(n) \in Children(b)
    BY <1>1, ListPointKnown, ItemHasBucket, Zenon
  <2>2. ItemPath(n)[Len(ItemPath(n))] = n
    BY <2>1, ItemPathKnown, Zenon
  <2> QED
    BY <2>1, <2>2, Zenon
<1> HIDE DEF listed
<1>6. /\ found' = [found EXCEPT ![c] = @ \cup listed]
      /\ found \in [Clients -> SUBSET Names] /\ todo \in [Clients -> SUBSET Paths]
      /\ Items \subseteq Names
  BY <1>2, Zenon DEF listed, ZKInv, TypeOK, Items
<1>7. /\ todo' \in [Clients -> SUBSET Paths] /\ todo'[c] = todo[c] \ {b}
      /\ found' \in [Clients -> SUBSET Names] /\ found'[c] = found[c] \cup listed
      /\ \A d \in Clients \ {c} : todo'[d] = todo[d] /\ found'[d] = found[d]
  BY <1>2, <1>4, <1>6, Zenon
<1>8. /\ found'[c] \subseteq saw[c].ever
      /\ \A n \in saw[c].always : n \in found'[c] \/ BucketPath(n) \in todo'[c]
  BY <1>1, <1>3, <1>4, <1>5, <1>7, ListPointKnown, ZenonT(30)
<1>9. CASE todo[c] = {b}
  <2>1. Return(c, "ok") /\ "ok" \in Results
    BY <1>2, <1>9, Zenon DEF Results
  <2>2. saw[c].always \subseteq found'[c]
    BY <1>7, <1>8, <1>9, Zenon
  <2> QED
    BY <1>1, <1>7, <1>8, <2>1, <2>2, ListPointKnown, Going, EndStep, ZenonT(30)
<1>10. CASE todo[c] # {b}
  <2>1. Goto(c, "bucket")
    BY <1>2, <1>10, Zenon
  <2>2. /\ "bucket" \in Points \ {"idle", "exists", "variants"}
        /\ "bucket" \notin PutPoints \cup DeletePoints
    BY Zenon DEF Points, PutPoints, DeletePoints, ListPoints
  <2> QED
    BY <1>1, <1>3, <1>7, <1>8, <2>1, <2>2, ListPointKnown, Going, MoveStep, ZenonT(30)
<1> QED
  BY <1>9, <1>10, Zenon

-----------------------------------------------------------------------------
(* The theorems. *)

LEMMA ZKStep == ZKInv /\ [Next]_vars => ZKInv'
<1> SUFFICES ASSUME ZKInv, [Next]_vars PROVE ZKInv'
  BY Zenon
<1>1. CASE UNCHANGED vars
  <2>1. /\ UNCHANGED <<workload, znode, zxid, faults>>
        /\ UNCHANGED <<pc, op, seg, todo, found, ret, calls, held, touched, saw>>
    BY <1>1, Zenon DEF vars, zkVars, callVars, histVars
  <2>2. TypeOK'
    BY <2>1, Zenon DEF ZKInv, TypeOK
  <2>3. \A c \in Clients : CallInv(c)'
    BY <2>1, OthersQuiet, Zenon DEF SameOf
  <2> QED
    BY <2>1, <2>2, <2>3, TreeQuiet, ZenonT(30) DEF ZKInv
<1>2. CASE Next
  <2>1. PICK c \in Clients :
          \/ BeginPut(c) \/ BeginUpdate(c) \/ BeginDelete(c) \/ BeginList(c)
          \/ Get(c) \/ Put(c) \/ Delete(c) \/ List(c) \/ RequestFails(c)
    BY <1>2, Zenon DEF Next
  <2>2. UNCHANGED workload
    BY <1>2, Zenon DEF Next
  <2>3. CASE BeginPut(c) \/ BeginUpdate(c) \/ BeginDelete(c) \/ BeginList(c) \/ Get(c)
    BY <2>2, <2>3, BeginPutStep, BeginUpdateStep, BeginDeleteStep, BeginListStep, GetStep, ZenonT(30)
  <2>4. CASE Put(c)
    BY <2>2, <2>4, PutExistsStep, PutSetStep, CheckSegmentStep, CreateSegmentStep, MustExistStep, ZenonT(30)
       DEF Put
  <2>5. CASE Delete(c) \/ List(c) \/ RequestFails(c)
    BY <2>2, <2>5, DeleteVariantsStep, DeleteVariantStep, DeleteNodeStep, ListBucketsStep,
       ListBucketStep, RequestFailsStep, ZenonT(30) DEF Delete, List
  <2> QED
    BY <2>1, <2>3, <2>4, <2>5, ZenonT(30)
<1> QED
  BY <1>1, <1>2, Zenon

LEMMA ZKInvariant == Spec => []ZKInv
  BY InitInv, ZKStep, PTL DEF Spec

\* The znodes are well typed and a tree, however the requests of setFully and deleteItem
\* interleave, and setFully (and Set) give data to all items and variants and to nothing
\* else.
THEOREM StoreIsWellFormed == Spec => []WellFormed
<1>1. ZKInv => WellFormed
  BY Zenon DEF ZKInv, WellFormed, TreeInv
<1> QED
  BY <1>1, ZKInvariant, PTL

\* Put and Delete return ErrVersionConflict only for a version that is gone for good,
\* and leave the znode alone.
THEOREM ConflictsAreReal == Spec => []ConflictIsReal
<1>1. ASSUME ZKInv, NEW c \in Clients, ret[c] = "conflict"
      PROVE  LET node == znode[Target(c)]  basis == op[c].basis
             IN  /\ Target(c) \notin touched[c]
                 /\ \/ basis = NoHeld \/ node = NoNode
                    \/ node.born # basis.born \/ node.version # basis.version
  <2>1. Target(c) \notin touched[c] /\ Outdated(c)
    BY <1>1, ZenonT(30) DEF ZKInv, CallInv, ConflictOf
  <2>2. ASSUME op[c].basis # NoHeld, znode[Target(c)] # NoNode,
               znode[Target(c)].born = op[c].basis.born
        PROVE  znode[Target(c)].version # op[c].basis.version
    <3>1. Target(c) \in Paths
      BY <1>1, PathsKnown, ZenonT(30) DEF Target, ZKInv, TypeOK, Op
    <3>2. znode[Target(c)].version \in Nat /\ op[c].basis.version \in Nat
      BY <1>1, <2>2, <3>1, ChosenVersion, ZenonT(30) DEF ZKInv, TypeOK, Znode
    <3> QED
      BY <2>1, <2>2, <3>2, SMTT(30) DEF Outdated
  <2> QED
    BY <2>1, <2>2, Zenon
<1>2. ZKInv => ConflictIsReal
  BY <1>1, Zenon DEF ConflictIsReal
<1> QED
  BY <1>2, ZKInvariant, PTL

\* A Delete that returns nil (deleteItem, deleteVariant) has seen the znode gone.
THEOREM DeletedItemsWereGone == Spec => []DeletedWasGone
<1>1. ZKInv => DeletedWasGone
  BY Zenon DEF ZKInv, CallInv, GoneOf, DeletedWasGone
<1> QED
  BY <1>1, ZKInvariant, PTL

\* List returns all items that were there throughout, and none that never was.
THEOREM ListsArePlausible == Spec => []ListIsPlausible
<1>1. ZKInv => ListIsPlausible
  BY Zenon DEF ZKInv, CallInv, ListOf, ListIsPlausible, Returned
<1> QED
  BY <1>1, ZKInvariant, PTL

\* A call that waits for the answer to Set ends with this answer or an error.
LEMMA SetEnds ==
  ASSUME TypeOK, Next, NEW c \in Clients, pc[c] = "set", pc'[c] = "idle"
  PROVE  PutSet(c) \/ RequestFails(c)
<1>1. PICK d \in Clients :
        \/ BeginPut(d) \/ BeginUpdate(d) \/ BeginDelete(d) \/ BeginList(d)
        \/ Get(d) \/ Put(d) \/ Delete(d) \/ List(d) \/ RequestFails(d)
  BY Zenon DEF Next
<1>2. ASSUME NEW point, pc' = [pc EXCEPT ![d] = point] PROVE d = c
  BY <1>2, Zenon DEF TypeOK
<1>3. CASE BeginPut(d) \/ BeginUpdate(d) \/ BeginDelete(d) \/ BeginList(d) \/ Get(d)
  <2>1. pc[d] = "idle"
    BY <1>3, ZenonT(30) DEF BeginPut, BeginUpdate, BeginDelete, BeginList, Begin, Get
  <2>2. pc' = pc \/ \E point : pc' = [pc EXCEPT ![d] = point]
    BY <1>3, ZenonT(30) DEF BeginPut, BeginUpdate, BeginDelete, BeginList, Begin, Get
  <2> QED
    BY <1>2, <2>1, <2>2, ZenonT(30)
<1>4. CASE Put(d)
  <2>1. \E point : pc' = [pc EXCEPT ![d] = point]
    BY <1>4, ZenonT(30) DEF Put, PutExists, PutSet, CheckSegment, CreateSegment, MustExist, NextSegment,
                PutReturns, BadVersion, Goto, Return
  <2> QED
    BY <1>2, <1>4, <2>1, ZenonT(30) DEF Put, PutExists, CheckSegment, CreateSegment, MustExist
<1>5. CASE Delete(d) \/ List(d)
  <2>1. \E point : pc' = [pc EXCEPT ![d] = point]
    BY <1>5, Zenon DEF Delete, DeleteVariants, DeleteVariant, DeleteNode, NotEmpty, List, ListBuckets,
                ListBucket, Goto, Return
  <2> QED
    BY <1>2, <1>5, <2>1, ZenonT(30) DEF Delete, DeleteVariants, DeleteVariant, DeleteNode, List, ListBuckets,
                            ListBucket
<1>6. CASE RequestFails(d)
  BY <1>2, <1>6, Zenon DEF RequestFails, Return
<1> QED
  BY <1>1, <1>3, <1>4, <1>5, <1>6, ZenonT(30)

\* Put with the version that Get returned replaces what Get returned (Set's version check).
THEOREM NoUpdateIsLost == Spec => NoLostUpdate
<1> DEFINE Kept(c) ==
      LET p == Target(c)  basis == op[c].basis
      IN  /\ pc[c] = "set" /\ pc'[c] = "idle" /\ ret'[c] = "ok"
          /\ basis # NoHeld /\ basis.from = "get" /\ basis.born = znode[p].born
          => znode[p].data = basis.data
<1>1. ASSUME ZKInv, Next, NEW c \in Clients, pc[c] = "set", pc'[c] = "idle", ret'[c] = "ok",
             op[c].basis # NoHeld, op[c].basis.from = "get",
             op[c].basis.born = znode[Target(c)].born
      PROVE  znode[Target(c)].data = op[c].basis.data
  <2>1. TypeOK
    BY <1>1, Zenon DEF ZKInv
  <2>2. ~RequestFails(c)
    BY <1>1, <2>1, Zenon DEF RequestFails, Return, TypeOK
  <2>3. PutSet(c)
    BY <1>1, <2>1, <2>2, SetEnds, Zenon
  <2>4. Exists(Target(c)) /\ VersionMatches(Target(c), actualVersion(op[c].version))
    <3>1. ~Goto(c, "check")
      BY <1>1, <2>1, Zenon DEF Goto, TypeOK
    <3>2. ~BadVersion(c)
      BY <1>1, <2>1, ZenonT(30) DEF BadVersion, Return, TypeOK
    <3> QED
      BY <2>3, <3>1, <3>2, Zenon DEF PutSet
  <2>5. znode[Target(c)].version = op[c].basis.version
    BY <1>1, <2>4, ChosenVersion, SMTT(30) DEF VersionMatches
  <2> QED
    BY <1>1, <2>4, <2>5, ChosenVersion, Zenon DEF KnownOf
<1>2. ZKInv /\ [Next]_vars => [\A c \in Clients : Kept(c)]_vars
  BY <1>1, Zenon
<1> QED
  BY <1>2, ZKInvariant, PTL DEF Spec, NoLostUpdate
=============================================================================

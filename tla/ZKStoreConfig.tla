--------------------------- MODULE ZKStoreConfig ---------------------------
(***************************************************************************)
(* How NewStore (src/zkstore/store.go) configures a store: it starts with  *)
(* the defaults and applies the options of src/zkstore/options.go in the   *)
(* order given.  A name's bucket comes from hash.go.                       *)
(***************************************************************************)
EXTENDS ZKPath, TLC, Slices

CONSTANTS
  Names, Variants, Categories,   \* texts
  BasePaths,      \* values for OptBasePath: [empty, absolute, clean, path]
  NumBuckets,     \* values for OptNumHashBuckets
  Hashers,        \* values for OptHashProviderFunc: [Names -> digests]
  ZnodeNames,     \* values for OptBucketsZnodeName: texts
  ACLs,           \* values for OptACL: sets of ACL entries
  DefaultHasher, DefaultNumHashBuckets, DefaultBucketsZnodeName, DefaultZKACL,
  NilHasher,      \* the nil HashProviderFunc
  MaxOptions      \* bound on the number of options

\* What a caller may pass for a name, a variant or a category: the path segments that
\* path.Join gets from it, and what the checks of validate.go would find wrong.
Texts == [segs : Seq(STRING), flaws : SUBSET {"empty", "spaced", "illegal", "unclean"}]

\* A name that matches validNameRE is one segment, an empty one none.  A digest is a
\* sequence of bytes.
ASSUME ConfigAssumption ==
  /\ DefaultNumHashBuckets \in Nat \ {0}
  /\ \A b \in BasePaths : b.path \in Seq(STRING)
  /\ NumBuckets \subseteq Int
  /\ NilHasher \notin Hashers
  /\ Names \cup Variants \cup Categories \cup ZnodeNames \subseteq Texts
  /\ \A t \in Names \cup Variants \cup ZnodeNames :
       t.flaws \cap {"spaced", "illegal"} = {} \/ "empty" \in t.flaws =>
         t.flaws \subseteq {"empty"} /\ Len(t.segs) = IF "empty" \in t.flaws THEN 0 ELSE 1
  /\ Hashers \cup {DefaultHasher} \subseteq [Names -> Seq(0 .. 255)]
  /\ DefaultBucketsZnodeName \in STRING
  /\ MaxOptions \in Nat

VARIABLES
  store,    \* the store that NewStore builds
  result,   \* "building", or what NewStore returned
  wanted,   \* history: the last value asked for in each option
  options   \* number of options applied

vars == <<store, result, wanted, options>>

\* the fields of Store, bucketFunc by the arguments it was made from
Store == [basePath : {b.path : b \in BasePaths} \cup {<<>>},
          bucketsZnodeName : STRING,
          acls : ACLs \cup {DefaultZKACL},
          hashBuckets : Nat \ {0},
          hashProviderFunc : Hashers \cup {DefaultHasher},
          bucketFunc : (Nat \ {0}) \X (Hashers \cup {DefaultHasher})]

-----------------------------------------------------------------------------
(* Hashing. *)

\* binary.Uvarint: seven bits a byte, the last one below 128.  The second component
\* is the number of bytes read, 0 if the buffer ends too early, and negative if the
\* number needs more than 64 bits.
Uvarint(buf) ==
  LET ends == {i \in 1 .. Len(buf) : buf[i] < 128}
      n    == CHOOSE i \in ends : \A j \in ends : i <= j
      sum[i \in 0 .. n] == IF i = 0 THEN 0
                           ELSE sum[i - 1] + (buf[i] % 128) * 128 ^ (i - 1)
  IN  IF ends = {} THEN <<0, 0>>
      ELSE IF n > 10 \/ (n = 10 /\ buf[n] > 1) THEN <<0, -n>>
      ELSE <<sum[n], n>>

\* HashProvider decodes at most eight bytes of the digest.
Cut(digest) == IF Len(digest) > 8 THEN SubSeq(digest, 1, 8) ELSE digest

HashProvider(digest) == Uvarint(Cut(digest))

hashBytesToBucket(bucketCount, hash) == hash % bucketCount

\* the bucket of a name, as its znode is called
bucketOf(s, name) ==
  ToString(hashBytesToBucket(s.bucketFunc[1], HashProvider(s.bucketFunc[2][name])[1]))

-----------------------------------------------------------------------------
(* Validation (validate.go, location.go, ident.go). *)

\* Mutant: the expression that names must match is not tried.
ValidateNamedLoosely(name, required) ==
  /\ "spaced" \notin name.flaws
  /\ "empty" \in name.flaws => ~required

ValidateNamed(name, required) ==
  /\ "spaced" \notin name.flaws
  /\ IF "empty" \in name.flaws THEN ~required ELSE "illegal" \notin name.flaws

ValidateCategory(category) == category.flaws \cap {"empty", "illegal", "unclean"} = {}

LocationValidate(id) == ValidateNamed(id.name, TRUE) /\ ValidateCategory(id.category)

IdentValidate(id) == LocationValidate(id) /\ ValidateNamed(id.variant, FALSE)

-----------------------------------------------------------------------------
(* Paths. *)

\* bucketsPath refuses a category that ends with the name of the buckets znode.
GoodCategory(s, category) ==
  category.segs = <<>> \/ category.segs[Len(category.segs)] # s.bucketsZnodeName

Idents == [category : Categories, name : Names, variant : Variants]

\* The bucket of a name in a category.
BucketPath(s, category, name) ==
  bucketsPath(s.basePath, category.segs, s.bucketsZnodeName) \o <<bucketOf(s, name)>>

PathOf(s, id) ==
  identPath(bucketsPath(s.basePath, id.category.segs, s.bucketsZnodeName),
            bucketOf(s, id.name), id.name.segs, id.variant.segs)

-----------------------------------------------------------------------------
(* NewStore and its options. *)

Init ==
  /\ store = [basePath |-> <<>>, bucketsZnodeName |-> DefaultBucketsZnodeName,
              acls |-> DefaultZKACL,
              hashBuckets |-> DefaultNumHashBuckets, hashProviderFunc |-> DefaultHasher,
              bucketFunc |-> <<DefaultNumHashBuckets, DefaultHasher>>]
  /\ result = "building"
  /\ wanted = [basePath |-> <<>>, bucketsZnodeName |-> DefaultBucketsZnodeName,
               acls |-> DefaultZKACL,
               hashBuckets |-> DefaultNumHashBuckets, hashProviderFunc |-> DefaultHasher]
  /\ options = 0

\* The next option is applied.
Apply == result = "building" /\ options < MaxOptions /\ options' = options + 1

\* optError: NewStore returns ErrIllegalOption and no store.
optError == result' = "ErrIllegalOption" /\ UNCHANGED <<store, wanted>>

\* A nil StoreOpt changes nothing.
nilOpt == UNCHANGED <<store, result, wanted>>

OptBasePath(b) ==
  /\ Apply
  /\ IF b.empty THEN nilOpt
     ELSE IF ~b.absolute \/ ~b.clean THEN optError
     ELSE /\ store' = [store EXCEPT !.basePath = b.path]
          /\ wanted' = [wanted EXCEPT !.basePath = b.path]
          /\ UNCHANGED result

OptNumHashBuckets(n) ==
  /\ Apply
  /\ IF n = 0 THEN nilOpt
     ELSE IF n < 0 THEN optError
     ELSE /\ store' = [store EXCEPT !.hashBuckets = n,
                                    !.bucketFunc = <<n, store.hashProviderFunc>>]
          /\ wanted' = [wanted EXCEPT !.hashBuckets = n]
          /\ UNCHANGED result

\* Mutant: the bucket count goes back to the default.
OptHashProviderFuncDefault(h) ==
  /\ Apply
  /\ IF h = NilHasher THEN nilOpt
     ELSE /\ store' = [store EXCEPT !.hashProviderFunc = h,
                                    !.bucketFunc = <<DefaultNumHashBuckets, h>>]
          /\ wanted' = [wanted EXCEPT !.hashProviderFunc = h]
          /\ UNCHANGED result

OptHashProviderFunc(h) ==
  /\ Apply
  /\ IF h = NilHasher THEN nilOpt
     ELSE /\ store' = [store EXCEPT !.hashProviderFunc = h,
                                    !.bucketFunc = <<store.hashBuckets, h>>]
          /\ wanted' = [wanted EXCEPT !.hashProviderFunc = h]
          /\ UNCHANGED result

OptBucketsZnodeName(z) ==
  /\ Apply
  /\ IF ~ValidateNamed(z, TRUE) THEN optError
     ELSE /\ store' = [store EXCEPT !.bucketsZnodeName = z.segs[1]]
          /\ wanted' = [wanted EXCEPT !.bucketsZnodeName = z.segs[1]]
          /\ UNCHANGED result

OptACL(acl) ==
  /\ Apply
  /\ IF acl = {} THEN nilOpt
     ELSE /\ store' = [store EXCEPT !.acls = acl]
          /\ wanted' = [wanted EXCEPT !.acls = acl]
          /\ UNCHANGED result

\* All options are applied and NewStore returns the store.
NewStore ==
  /\ result = "building"
  /\ result' = "ok"
  /\ UNCHANGED <<store, wanted, options>>

Next ==
  \/ \E b \in BasePaths : OptBasePath(b)
  \/ \E n \in NumBuckets : OptNumHashBuckets(n)
  \/ \E h \in Hashers \cup {NilHasher} : OptHashProviderFunc(h)
  \/ \E z \in ZnodeNames : OptBucketsZnodeName(z)
  \/ \E acl \in ACLs : OptACL(acl)
  \/ NewStore

Spec == Init /\ [][Next]_vars

-----------------------------------------------------------------------------
(* Properties. *)

TypeOK ==
  /\ store \in Store
  /\ result \in {"building", "ok", "ErrIllegalOption"}
  /\ options \in 0 .. MaxOptions

\* Options may come in any order, repeated or not: the store ends up with the last
\* value asked for in each, and its bucket function with both values it depends on.
\* NewStore's comment says that the fields "MUST match what's passed to bucketFunc()".
LastOptionWins ==
  /\ store.basePath = wanted.basePath
  /\ store.bucketsZnodeName = wanted.bucketsZnodeName
  /\ store.acls = wanted.acls
  /\ store.bucketFunc = <<wanted.hashBuckets, wanted.hashProviderFunc>>

\* A category that does not run through a znode with the name of the buckets znode.
\* bucketsPath only refuses one that ends there.
PlainCategory(s, category) ==
  \A i \in DOMAIN category.segs : category.segs[i] # s.bucketsZnodeName

\* However a store is configured, every ident that it accepts has a znode (hash.go says
\* that an overflow of the hash "should never happen since we cap the length"), and two
\* live in one znode only if they are the same, up to a leading slash of the category.
\* No item's znode is one that leads to the buckets of a plain category: the category's
\* own, one above it, its buckets znode or a bucket.  (A category such as a/buckets/0/n
\* is accepted, and is the znode of the item n in bucket 0 of a.)
IdentsHaveOwnZnodes ==
  result = "ok" =>
    LET ids     == {id \in Idents : IdentValidate(id) /\ GoodCategory(store, id.category)}
        znodes  == {<<PathOf(store, id), id.category.segs, id.name, id.variant>> : id \in ids}
        plain   == {c \in Categories : PlainCategory(store, c)}
        buckets == UNION {{BucketPath(store, c, n) : n \in Names} : c \in plain}
    IN  /\ \A id \in ids : HashProvider(store.bucketFunc[2][id.name])[2] >= 0
        /\ \A y, z \in znodes : y[1] = z[1] => y = z
        /\ \A y \in znodes, b \in buckets : ~StartsWith(b, y[1])
=============================================================================

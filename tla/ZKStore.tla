------------------------------ MODULE ZKStore ------------------------------
(***************************************************************************)
(* The store of src/zkstore/store.go: clients that call Put, Get, Delete   *)
(* and List of stores connected to one ZooKeeper.  Every request to        *)
(* ZooKeeper is a step of its own, so the calls of different clients       *)
(* interleave between any two requests.  A request may fail before it      *)
(* reaches the server, or have its effect and lose its answer.             *)
(*                                                                         *)
(* One category is modelled; its items differ in name and variant.         *)
(***************************************************************************)
EXTENDS ZKPath, FiniteSets

CONSTANTS
  Clients, Names, Variants,
  NoVariant,   \* the empty Variant
  Buckets,     \* the bucketsPath of the category
  Bucket,      \* Bucket[n]: the bucket that bucketFunc gives the name n
  Workloads,   \* what clients do: the calls they make, on which idents, and the
               \* bounds on their number (for each client) and on failed requests
  NoNode,      \* a znode that does not exist
  NoData,      \* the nil data of a znode
  NoHeld       \* a client that holds no version

\* Put expecting no prior version, with no version and with the version that the
\* client holds; Delete with no version and with the one held.
OpKinds == {"get", "create", "put", "update", "delete", "deleteHeld", "list"}

ASSUME ZKStoreAssumption ==
  /\ Buckets \in Seq(STRING) /\ Buckets # <<>>
  /\ Names # {} /\ NoVariant \notin Variants
  /\ DOMAIN Bucket = Names
  /\ \A w \in Workloads :
       /\ w.ops \subseteq OpKinds
       /\ w.idents \subseteq [name : Names, variant : Variants \cup {NoVariant}]
       /\ w.maxOps \in Nat /\ w.maxFaults \in Nat

VARIABLES
  workload, \* the one of Workloads that this behaviour is about
  znode,    \* znode[p]: the znode at path p
  zxid,     \* number of znodes created so far
  faults,   \* number of requests that failed
  pc,       \* pc[c]: the request that c's call makes next, or "idle"
  op,       \* op[c]: the arguments of c's call
  seg,      \* seg[c]: the segment that setFully has come to
  todo,     \* todo[c]: paths that deleteItem and List still have to visit
  found,    \* found[c]: the names that List has found
  ret,      \* ret[c]: how c's last call returned
  calls,    \* calls[c]: number of calls c has made
  held,     \* held[c]: what c knows from the Ident that Get or Put returned last
  touched,  \* history: the znodes that c's call created, set or deleted
  saw       \* history: what was true of the store while c's call went on

zkVars   == <<znode, zxid, faults>>
callVars == <<pc, op, seg, todo, found, ret, calls>>
histVars == <<touched, saw>>
vars     == <<workload, zkVars, callVars, held, histVars>>

Idents == [name : Names, variant : Variants \cup {NoVariant}]

IdentPath(id) ==
  identPath(Buckets, Bucket[id.name], <<id.name>>,
            IF id.variant = NoVariant THEN <<>> ELSE <<id.variant>>)

ItemPath(n) == IdentPath([name |-> n, variant |-> NoVariant])

\* the ancestors of p, p included
UpTo(p) == {SubSeq(p, 1, i) : i \in 1 .. Len(p)}

Paths == UNION {UpTo(IdentPath(id)) : id \in Idents}

Parent(p) == SubSeq(p, 1, Len(p) - 1)

\* every Put stores a datum of its own
Data == Clients \X Nat

Znode == [data : Data \cup {NoData}, version : Nat, born : Nat]

-----------------------------------------------------------------------------
(* Versions (ident.go). *)

Version == [value : Int, hasVersion : BOOLEAN]

NewVersion(v) == [value |-> v, hasVersion |-> TRUE]

Unset == [value |-> 0, hasVersion |-> FALSE]

NoPriorVersion == -1

\* Mutant: the version is never checked.
actualVersionIgnored(version) == -1

\* ZooKeeper takes -1 to mean any version.
actualVersion(version) == IF version.hasVersion THEN version.value ELSE -1

creatingNewItem(version) == version.hasVersion /\ version.value = NoPriorVersion

-----------------------------------------------------------------------------
(* The state. *)

Held == [ident : Idents, version : Nat, born : Nat, data : Data, from : {"get", "put"}]

\* basis: what the client knew of the item when it chose the version
Op == [call : {"none", "get", "put", "delete", "list"}, ident : Idents,
       version : Version, data : Data, basis : Held \cup {NoHeld}]

ASSUME NilAssumption == NoNode \notin Znode /\ NoData \notin Data /\ NoHeld \notin Held

PutPoints    == {"exists", "set", "check", "create", "mustExist"}
DeletePoints == {"variants", "delVariants", "delNode"}
ListPoints   == {"buckets", "bucket"}
Points       == {"idle"} \cup PutPoints \cup DeletePoints \cup ListPoints

TypeOK ==
  /\ workload \in Workloads
  /\ znode \in [Paths -> Znode \cup {NoNode}]
  /\ zxid \in Nat
  /\ faults \in 0 .. workload.maxFaults
  /\ pc \in [Clients -> Points]
  /\ op \in [Clients -> Op]
  /\ seg \in [Clients -> Nat \ {0}]
  /\ todo \in [Clients -> SUBSET Paths]
  /\ found \in [Clients -> SUBSET Names]
  /\ ret \in [Clients -> {"none", "ok", "notFound", "conflict", "error"}]
  /\ calls \in [Clients -> 0 .. workload.maxOps]
  /\ held \in [Clients -> Held \cup {NoHeld}]
  /\ touched \in [Clients -> SUBSET Paths]
  /\ saw \in [Clients -> [absent : BOOLEAN, always : SUBSET Names, ever : SUBSET Names]]

Exists(p) == znode[p] # NoNode

Items == {n \in Names : Exists(ItemPath(n))}

NoOp(c) == [call |-> "none", ident |-> CHOOSE id \in Idents : TRUE, version |-> Unset,
            data |-> <<c, 0>>, basis |-> NoHeld]

Init ==
  /\ workload \in Workloads
  /\ znode = [p \in Paths |-> NoNode]
  /\ zxid = 0
  /\ faults = 0
  /\ pc = [c \in Clients |-> "idle"]
  /\ op = [c \in Clients |-> NoOp(c)]
  /\ seg = [c \in Clients |-> 1]
  /\ todo = [c \in Clients |-> {}]
  /\ found = [c \in Clients |-> {}]
  /\ ret = [c \in Clients |-> "none"]
  /\ calls = [c \in Clients |-> 0]
  /\ held = [c \in Clients |-> NoHeld]
  /\ touched = [c \in Clients |-> {}]
  /\ saw = [c \in Clients |-> [absent |-> FALSE, always |-> {}, ever |-> {}]]

-----------------------------------------------------------------------------
(* ZooKeeper (external to src/zkstore). *)

Children(p) == {q \in Paths : Exists(q) /\ Len(q) = Len(p) + 1 /\ Parent(q) = p}

VersionMatches(p, v) == v = -1 \/ v = znode[p].version

\* A request of c changes the znode at p; the calls that are going on see it.
Change(c, p, node) ==
  /\ znode' = [znode EXCEPT ![p] = node]
  /\ touched' = [touched EXCEPT ![c] = @ \cup {p}]
  /\ saw' = [d \in Clients |->
               IF pc[d] = "idle" THEN saw[d]
               ELSE [absent |-> saw[d].absent \/ znode'[IdentPath(op[d].ident)] = NoNode,
                     always |-> saw[d].always \cap Items',
                     ever   |-> saw[d].ever \cup Items']]

\* Whether the answer to a request gets lost, which counts as a fault.
MayLose == IF faults < workload.maxFaults THEN BOOLEAN ELSE {FALSE}

Fault(lost) == faults' = IF lost THEN faults + 1 ELSE faults

-----------------------------------------------------------------------------
(* Calls. *)

Goto(c, point) == pc' = [pc EXCEPT ![c] = point] /\ UNCHANGED ret

Return(c, result) ==
  /\ pc' = [pc EXCEPT ![c] = "idle"]
  /\ ret' = [ret EXCEPT ![c] = result]

\* c calls the store.  Nothing happens in ZooKeeper yet.
Begin(c, call, ident, version, basis, point) ==
  /\ pc[c] = "idle"
  /\ calls[c] < workload.maxOps
  /\ calls' = [calls EXCEPT ![c] = @ + 1]
  /\ op' = [op EXCEPT ![c] = [call |-> call, ident |-> ident, version |-> version,
                              data |-> <<c, calls[c]>>, basis |-> basis]]
  /\ pc' = [pc EXCEPT ![c] = point]
  /\ ret' = [ret EXCEPT ![c] = "none"]
  /\ seg' = [seg EXCEPT ![c] = 1]
  /\ todo' = [todo EXCEPT ![c] = {}]
  /\ found' = [found EXCEPT ![c] = {}]
  /\ touched' = [touched EXCEPT ![c] = {}]
  /\ saw' = [saw EXCEPT ![c] = [absent |-> ~Exists(IdentPath(ident)),
                                always |-> Items, ever |-> Items]]
  /\ UNCHANGED <<zkVars, held>>

\* Put: an explicitly new item is looked for first, any other is set directly.
PutPoint(version) == IF creatingNewItem(version) THEN "exists" ELSE "set"

BeginPut(c) ==
  \E id \in workload.idents :
    \/ /\ "create" \in workload.ops
       /\ Begin(c, "put", id, NewVersion(NoPriorVersion), NoHeld,
                PutPoint(NewVersion(NoPriorVersion)))
    \/ /\ "put" \in workload.ops
       /\ Begin(c, "put", id, Unset, NoHeld, PutPoint(Unset))

\* Put of an item with the version that an earlier call returned.
BeginUpdate(c) ==
  /\ "update" \in workload.ops
  /\ held[c] # NoHeld
  /\ LET version == NewVersion(held[c].version)
     IN  Begin(c, "put", held[c].ident, version, held[c], PutPoint(version))

\* Delete: a variant is deleted directly, an item after its variants.
DeletePoint(id) == IF id.variant = NoVariant THEN "variants" ELSE "delNode"

BeginDelete(c) ==
  \/ /\ "delete" \in workload.ops
     /\ \E id \in workload.idents : Begin(c, "delete", id, Unset, NoHeld, DeletePoint(id))
  \/ /\ "deleteHeld" \in workload.ops
     /\ held[c] # NoHeld
     /\ Begin(c, "delete", held[c].ident, NewVersion(held[c].version), held[c],
              DeletePoint(held[c].ident))

BeginList(c) ==
  /\ "list" \in workload.ops
  /\ Begin(c, "list", op[c].ident, Unset, NoHeld, "buckets")

\* Mutant: every error is taken for a conflict.
RequestFailsAsConflict(c) ==
  /\ pc[c] # "idle"
  /\ faults < workload.maxFaults
  /\ faults' = faults + 1
  /\ Return(c, "conflict")
  /\ UNCHANGED <<znode, zxid, op, seg, todo, found, calls, held, histVars>>

\* A request fails without reaching the server; every call returns the error.
RequestFails(c) ==
  /\ pc[c] # "idle"
  /\ faults < workload.maxFaults
  /\ faults' = faults + 1
  /\ Return(c, "error")
  /\ UNCHANGED <<znode, zxid, op, seg, todo, found, calls, held, histVars>>

-----------------------------------------------------------------------------
(* Get. *)

\* What a client holds after a call that returned the version of the znode at id.
Holding(id, node, data, from) ==
  [ident |-> id, version |-> node.version, born |-> node.born, data |-> data,
   from |-> from]

\* Get makes one request, which may fail, so the call is one step.
Get(c) ==
  /\ "get" \in workload.ops
  /\ \E id \in workload.idents :
       LET node == znode[IdentPath(id)]
       IN  /\ pc[c] = "idle"
           /\ calls[c] < workload.maxOps
           /\ calls' = [calls EXCEPT ![c] = @ + 1]
           /\ op' = [op EXCEPT ![c] = [call |-> "get", ident |-> id, version |-> Unset,
                                       data |-> <<c, calls[c]>>, basis |-> NoHeld]]
           /\ \/ /\ faults < workload.maxFaults /\ faults' = faults + 1
                 /\ ret' = [ret EXCEPT ![c] = "error"]
                 /\ UNCHANGED held
              \/ /\ node = NoNode
                 /\ ret' = [ret EXCEPT ![c] = "notFound"]
                 /\ UNCHANGED <<faults, held>>
              \/ /\ node # NoNode
                 /\ ret' = [ret EXCEPT ![c] = "ok"]
                 /\ held' = [held EXCEPT ![c] = Holding(id, node, node.data, "get")]
                 /\ UNCHANGED faults
  /\ UNCHANGED <<znode, zxid, pc, seg, todo, found, histVars>>

-----------------------------------------------------------------------------
(* Put. *)

Target(c) == IdentPath(op[c].ident)

\* Put with NoPriorVersion looks whether the znode exists.
PutExists(c) ==
  /\ pc[c] = "exists"
  /\ IF Exists(Target(c)) THEN Return(c, "conflict") ELSE Goto(c, "check")
  /\ UNCHANGED <<zkVars, op, seg, todo, found, calls, held, histVars>>

\* Put returns the Ident with the version of node.
PutReturns(c, node) ==
  /\ Return(c, "ok")
  /\ held' = [held EXCEPT ![c] = Holding(op[c].ident, node, op[c].data, "put")]

\* Set finds another version.
BadVersion(c) == Return(c, "conflict")

\* The Set request, which checks the version.
PutSet(c) ==
  /\ pc[c] = "set"
  /\ LET p    == Target(c)
         node == [znode[p] EXCEPT !.data = op[c].data, !.version = @ + 1]
     IN  \/ /\ ~Exists(p)
            /\ Goto(c, "check")
            /\ UNCHANGED <<znode, faults, held, histVars>>
         \/ /\ Exists(p)
            /\ ~VersionMatches(p, actualVersion(op[c].version))
            /\ BadVersion(c)
            /\ UNCHANGED <<znode, faults, held, histVars>>
         \/ /\ Exists(p)
            /\ VersionMatches(p, actualVersion(op[c].version))
            /\ Change(c, p, node)
            /\ \E lost \in MayLose :
                 /\ Fault(lost)
                 /\ IF lost THEN Return(c, "error") /\ UNCHANGED held
                            ELSE PutReturns(c, node)
  /\ UNCHANGED <<zxid, op, seg, todo, found, calls>>

\* setFully: the path up to the segment it has come to.
Current(c) == SubSeq(Target(c), 1, seg[c])

IsLast(c) == seg[c] = Len(Target(c))

\* The loop of setFully goes on, or ends.
NextSegment(c) ==
  IF IsLast(c)
    THEN Goto(c, "mustExist") /\ UNCHANGED seg
    ELSE Goto(c, "check") /\ seg' = [seg EXCEPT ![c] = @ + 1]

CheckSegment(c) ==
  /\ pc[c] = "check"
  /\ IF Exists(Current(c)) THEN NextSegment(c)
     ELSE /\ IF IsLast(c) /\ actualVersion(op[c].version) >= 0
               THEN Return(c, "conflict")
               ELSE Goto(c, "create")
          /\ UNCHANGED seg
  /\ UNCHANGED <<zkVars, op, todo, found, calls, held, histVars>>

\* Mutant: the parent of a new variant is created empty.
SegmentDataLast(c) == IF IsLast(c) THEN op[c].data ELSE NoData

\* The data goes to the item, and to the parent of a variant if that is new too.
SegmentData(c) ==
  IF IsLast(c) \/ (op[c].ident.variant # NoVariant /\ seg[c] = Len(Target(c)) - 1)
    THEN op[c].data ELSE NoData

\* A znode that exists by now is no error, a missing parent is.
CreateSegment(c) ==
  /\ pc[c] = "create"
  /\ LET p == Current(c)
     IN  \/ /\ Exists(p)
            /\ NextSegment(c)
            /\ UNCHANGED <<zkVars, histVars>>
         \/ /\ ~Exists(p) /\ Len(p) > 1 /\ ~Exists(Parent(p))
            /\ Return(c, "error")
            /\ UNCHANGED <<zkVars, seg, histVars>>
         \/ /\ ~Exists(p) /\ (Len(p) > 1 => Exists(Parent(p)))
            /\ zxid' = zxid + 1
            /\ Change(c, p, [data |-> SegmentData(c), version |-> 0, born |-> zxid'])
            /\ \E lost \in MayLose :
                 /\ Fault(lost)
                 /\ IF lost THEN Return(c, "error") /\ UNCHANGED seg ELSE NextSegment(c)
  /\ UNCHANGED <<op, todo, found, calls, held>>

\* mustExist, with which setFully ends.
MustExist(c) ==
  /\ pc[c] = "mustExist"
  /\ IF Exists(Target(c)) THEN PutReturns(c, znode[Target(c)])
                          ELSE Return(c, "error") /\ UNCHANGED held
  /\ UNCHANGED <<zkVars, op, seg, todo, found, calls, histVars>>

Put(c) == \/ PutExists(c) \/ PutSet(c) \/ CheckSegment(c) \/ CreateSegment(c)
          \/ MustExist(c)

-----------------------------------------------------------------------------
(* Delete. *)

\* deleteItem lists the variants of the item.
DeleteVariants(c) ==
  /\ pc[c] = "variants"
  /\ IF Exists(Target(c))
       THEN LET variants == Children(Target(c))
            IN  /\ todo' = [todo EXCEPT ![c] = variants]
                /\ Goto(c, IF variants = {} THEN "delNode" ELSE "delVariants")
       ELSE Return(c, "ok") /\ UNCHANGED todo
  /\ UNCHANGED <<zkVars, op, seg, found, calls, held, histVars>>

\* It deletes them one by one, whatever their versions.
DeleteVariant(c) ==
  /\ pc[c] = "delVariants"
  /\ \E p \in todo[c] :
       /\ todo' = [todo EXCEPT ![c] = @ \ {p}]
       /\ \/ /\ ~Exists(p)
             /\ Goto(c, IF todo[c] = {p} THEN "delNode" ELSE "delVariants")
             /\ UNCHANGED <<znode, faults, histVars>>
          \/ /\ Exists(p)
             /\ Change(c, p, NoNode)
             /\ \E lost \in MayLose :
                  /\ Fault(lost)
                  /\ IF lost THEN Return(c, "error")
                     ELSE Goto(c, IF todo[c] = {p} THEN "delNode" ELSE "delVariants")
  /\ UNCHANGED <<zxid, op, seg, found, calls, held>>

\* Mutant: an item that got a new variant counts as deleted.
NotEmptyIgnored(c) == Return(c, "ok")

\* The item got a new variant after deleteItem listed them.
NotEmpty(c) == Return(c, "error")

\* The last request of deleteItem, and the only one of deleteVariant.  A znode that
\* is gone already is no error.
DeleteNode(c) ==
  /\ pc[c] = "delNode"
  /\ LET p == Target(c)
     IN  \/ /\ ~Exists(p)
            /\ Return(c, "ok")
            /\ UNCHANGED <<znode, faults, histVars>>
         \/ /\ Exists(p) /\ ~VersionMatches(p, actualVersion(op[c].version))
            /\ Return(c, "conflict")
            /\ UNCHANGED <<znode, faults, histVars>>
         \/ /\ Exists(p) /\ VersionMatches(p, actualVersion(op[c].version))
            /\ Children(p) # {}
            /\ NotEmpty(c)
            /\ UNCHANGED <<znode, faults, histVars>>
         \/ /\ Exists(p) /\ VersionMatches(p, actualVersion(op[c].version))
            /\ Children(p) = {}
            /\ Change(c, p, NoNode)
            /\ \E lost \in MayLose :
                 Fault(lost) /\ Return(c, IF lost THEN "error" ELSE "ok")
  /\ UNCHANGED <<zxid, op, seg, todo, found, calls, held>>

Delete(c) == DeleteVariants(c) \/ DeleteVariant(c) \/ DeleteNode(c)

-----------------------------------------------------------------------------
(* List. *)

ListBuckets(c) ==
  /\ pc[c] = "buckets"
  /\ IF Exists(Buckets)
       THEN LET buckets == Children(Buckets)
            IN  /\ todo' = [todo EXCEPT ![c] = buckets]
                /\ IF buckets = {} THEN Return(c, "ok") ELSE Goto(c, "bucket")
       ELSE Return(c, "notFound") /\ UNCHANGED todo
  /\ UNCHANGED <<zkVars, op, seg, found, calls, held, histVars>>

\* Mutant: List ends after the first bucket.
ListFirstBucket(c) ==
  /\ pc[c] = "bucket"
  /\ \E b \in todo[c] :
       /\ todo' = [todo EXCEPT ![c] = @ \ {b}]
       /\ found' = [found EXCEPT ![c] = @ \cup {q[Len(q)] : q \in Children(b)}]
       /\ Return(c, "ok")
  /\ UNCHANGED <<zkVars, op, seg, calls, held, histVars>>

\* The items of one bucket; a bucket that is gone has none.
ListBucket(c) ==
  /\ pc[c] = "bucket"
  /\ \E b \in todo[c] :
       /\ todo' = [todo EXCEPT ![c] = @ \ {b}]
       /\ found' = [found EXCEPT ![c] = @ \cup {q[Len(q)] : q \in Children(b)}]
       /\ IF todo[c] = {b} THEN Return(c, "ok") ELSE Goto(c, "bucket")
  /\ UNCHANGED <<zkVars, op, seg, calls, held, histVars>>

List(c) == ListBuckets(c) \/ ListBucket(c)

-----------------------------------------------------------------------------

Next ==
  /\ UNCHANGED workload
  /\ \E c \in Clients :
       \/ BeginPut(c) \/ BeginUpdate(c) \/ BeginDelete(c) \/ BeginList(c)
       \/ Get(c) \/ Put(c) \/ Delete(c) \/ List(c) \/ RequestFails(c)

Spec == Init /\ [][Next]_vars

-----------------------------------------------------------------------------
(* Properties. *)

\* c's last call was a Put, a Delete, ... and returned result.
Returned(c, call, result) == op[c].call = call /\ pc[c] = "idle" /\ ret[c] = result

IsItemPath(p) == Len(p) >= Len(Buckets) + 2

\* The state is well typed, the znodes are a tree whatever requests of other clients come
\* between those of setFully and deleteItem, and setFully gives data to items and variants
\* only, and to all of them: the parent of a new variant is created with the variant's
\* data, and the znodes above the items stay empty.
WellFormed ==
  /\ TypeOK
  /\ \A p \in Paths : Exists(p) => /\ IsItemPath(p) <=> znode[p].data # NoData
                                   /\ Len(p) > 1 => Exists(Parent(p))

\* Optimistic locking: a Put with a version that Get returned replaces exactly the
\* data that Get returned, unless the item was deleted and created anew in between.
NoLostUpdate ==
  [][\A c \in Clients :
       LET p == Target(c)  basis == op[c].basis
       IN  /\ pc[c] = "set" /\ pc'[c] = "idle" /\ ret'[c] = "ok"
           /\ basis # NoHeld /\ basis.from = "get" /\ basis.born = znode[p].born
           => znode[p].data = basis.data]_vars

\* A call that reports ErrVersionConflict has left the znode of its ident alone, and
\* if the client holds the version it is right: that version of the item is gone for
\* good.  So a client that reads again and retries makes progress unless another one
\* did.
ConflictIsReal ==
  \A c \in Clients :
    LET node == znode[Target(c)]  basis == op[c].basis
    IN  ret[c] = "conflict" =>
          /\ Target(c) \notin touched[c]
          /\ \/ basis = NoHeld \/ node = NoNode
             \/ node.born # basis.born \/ node.version # basis.version

\* A Delete that returns nil has seen the item gone, with all its variants: at some
\* moment of the call the znode did not exist, whoever deleted it.
DeletedWasGone ==
  \A c \in Clients : Returned(c, "delete", "ok") => saw[c].absent

\* List is not atomic, but it lists every item that existed throughout the call, and
\* none that existed at no moment of it.  ErrNotFound counts as the empty list.
ListIsPlausible ==
  \A c \in Clients :
    Returned(c, "list", "ok") \/ Returned(c, "list", "notFound") =>
      saw[c].always \subseteq found[c] /\ found[c] \subseteq saw[c].ever

\* A Put that succeeds has written its data.  The README: with NoPriorVersion "this
\* Put() must create the item and it will return ErrVersionConflict if the node
\* already exists"; without a version it creates the item or overwrites it.
PutIsStored == \A c \in Clients : Returned(c, "put", "ok") => Target(c) \in touched[c]
=============================================================================

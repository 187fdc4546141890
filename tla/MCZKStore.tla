----------------------------- MODULE MCZKStore -----------------------------
EXTENDS ZKStore, TLC

\* Each name has a bucket of its own.
MCBuckets == <<"buckets">>
MCBucket  == [n \in Names |-> n]

\* Any two calls of each client on one item and its variants, with a fault.
OneItem == [ops |-> OpKinds \ {"list"},
            idents |-> {id \in Idents : id.name = CHOOSE n \in Names : TRUE},
            maxOps |-> 2, maxFaults |-> 1]

\* Three calls of each client on items in different buckets.
Listing == [ops |-> {"put", "delete", "list"},
            idents |-> {id \in Idents : id.variant = NoVariant},
            maxOps |-> 3, maxFaults |-> 0]

\* One item, created once by each client.
Creating == [ops |-> {"create"}, idents |-> OneItem.idents \cap Listing.idents,
             maxOps |-> 1, maxFaults |-> 0]

MCWorkloads    == {OneItem, Listing}
MCOnlyCreating == {Creating}

Symmetry == Permutations(Clients)
=============================================================================

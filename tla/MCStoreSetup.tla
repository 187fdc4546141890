-------------------------- MODULE MCStoreSetup ----------------------------
EXTENDS StoreSetup

Text(segs, flaws) == [segs |-> segs, flaws |-> flaws]

\* "0", "n", "0/n", " n" and ""; categories with one to four segments, some that run
\* through a buckets znode, the root, and one that path.Clean changes.
MCNames == {Text(<<"0">>, {}), Text(<<"n">>, {}), Text(<<"0", "n">>, {"illegal"}),
            Text(<<"n">>, {"spaced", "illegal"}), Text(<<>>, {"empty"})}

MCVariants == {Text(<<"0">>, {}), Text(<<"n">>, {}), Text(<<>>, {"empty"})}

MCCategories == {Text(<<"a">>, {}), Text(<<"a", "buckets">>, {}), Text(<<"a", "0">>, {}),
                 Text(<<"a", "buckets", "0">>, {}), Text(<<"a", "buckets", "0", "n">>, {}),
                 Text(<<>>, {}), Text(<<"a">>, {"unclean"})}

MCBasePaths == {[empty |-> TRUE, absolute |-> FALSE, clean |-> FALSE, path |-> <<>>],
                [empty |-> FALSE, absolute |-> FALSE, clean |-> TRUE, path |-> <<"a">>],
                [empty |-> FALSE, absolute |-> TRUE, clean |-> FALSE, path |-> <<"a">>],
                [empty |-> FALSE, absolute |-> TRUE, clean |-> TRUE, path |-> <<"a">>],
                [empty |-> FALSE, absolute |-> TRUE, clean |-> TRUE, path |-> <<>>]}

MCNumBuckets == {-1, 0, 1, 3}

MCZnodeNames == {Text(<<" ">>, {"spaced", "illegal"}), Text(<<>>, {"empty"}),
                 Text(<<"0">>, {}), Text(<<"n">>, {})}

\* Digests that decode to small numbers, that never end, and that end in the tenth
\* byte; a checksum shorter than eight bytes.
Fill(k, b) == [i \in 1 .. k |-> b]
MCDefaultHasher == [n \in Names |-> IF n.segs = <<"0">> THEN <<3>> \o Fill(15, 7)
                                               ELSE <<129, 1>> \o Fill(14, 0)]
MCHashers == {[n \in Names |-> Fill(16, 128)],
              [n \in Names |-> Fill(9, 128) \o <<2>> \o Fill(6, 0)],
              [n \in Names |-> IF n.segs = <<"0">> THEN <<130, 2, 1, 1>> ELSE <<255, 255, 255, 255>>]}
=============================================================================

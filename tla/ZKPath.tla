------------------------------- MODULE ZKPath -------------------------------
(***************************************************************************)
(* The znode paths of src/zkstore/store.go.  A path is the sequence of its *)
(* segments below "/", so path.Join is concatenation: /a/buckets/7/n is    *)
(* <<a, buckets, 7, n>>.                                                   *)
(***************************************************************************)
EXTENDS Integers, Sequences

\* bucketsPath, for a category that it accepts.
bucketsPath(basePath, category, bucketsZnodeName) ==
  basePath \o category \o <<bucketsZnodeName>>

\* identPath; name and variant are sequences of segments too, so that path.Join
\* leaves out an empty variant.
identPath(buckets, bucket, name, variant) == buckets \o <<bucket>> \o name \o variant
=============================================================================

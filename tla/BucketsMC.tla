----------------------------- MODULE BucketsMC ------------------------------
(* Buckets over values on both sides of 0, the edge of a bucket. *)
EXTENDS Buckets

SmallValues == -1 .. 2
=============================================================================

----------------------------- MODULE MCCacheFile -----------------------------
(***************************************************************************)
(* Two chunks, one twice as large as the other.  Both fit under the larger *)
(* limit and only one under the smaller, so that chunks are evicted and a  *)
(* restart can shrink the cache.                                           *)
(***************************************************************************)
EXTENDS CacheFile

CONSTANTS a, b

Contents == {Raw(a), Raw(b)}
Lengths == [d \in Contents |-> IF d = Raw(b) THEN 2 ELSE 1]
=============================================================================

-------------------------- MODULE MCRocksBackend --------------------------
(* One reader and the writer it follows, and a writer on a stream of its own. *)
EXTENDS RocksBackend, TLC

CONSTANTS w1, w2, r1, s1, s2

Shared == w1 :> s1 @@ w2 :> s2 @@ r1 :> s1

===========================================================================

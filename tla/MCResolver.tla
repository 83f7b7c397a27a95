----------------------------- MODULE MCResolver -----------------------------
(* Instances of Resolver for TLC: model values for addresses, blocks and   *)
(* threads, which are interchangeable.                                     *)
EXTENDS Resolver, TLC

ResolverSymmetry == Permutations(Addr) \cup Permutations(Block) \cup Permutations(Worker)
=============================================================================

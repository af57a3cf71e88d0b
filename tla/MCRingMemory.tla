---------------------------- MODULE MCRingMemory ----------------------------
(* RingMemory with function pointers of two bytes and a ring of sixteen. *)
EXTENDS RingMemory

MCLambdas == {[size |-> 1, align |-> 1], [size |-> 4, align |-> 4]}
MCArguments ==
  {[kind |-> "string", len |-> 3, align |-> 1], [kind |-> "string", len |-> 12, align |-> 1],
   [kind |-> "vcopy", len |-> 4, align |-> 4]}
=============================================================================

---------------------------- MODULE MCInference ----------------------------
(* Small instances of Inference. *)
EXTENDS Inference

OneService == << "a" >>

TwoServices == << "a", "b" >>

\* The upper bound left open, the lower one left open, both pinned to zero.
ThreeWishes == {[min |-> Unset, max |-> 1], [min |-> 1, max |-> Unset], [min |-> 0, max |-> 0]}

OneWish == {[min |-> 1, max |-> Unset]}

==============================================================================

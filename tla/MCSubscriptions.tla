-------------------------- MODULE MCSubscriptions --------------------------
(* Instances of Subscriptions for TLC.                                     *)
EXTENDS Subscriptions

\* UA_UInt32Range values of the server configuration.
OneToTwo == [min |-> 1, max |-> 2]
OneToOne == [min |-> 1, max |-> 1]
ThreeToThree == [min |-> 3, max |-> 3]

\* The two values of a node are alike.
Symmetry == Permutations(Values)

=============================================================================

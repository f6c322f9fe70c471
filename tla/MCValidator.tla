----------------------------- MODULE MCValidator -----------------------------
(* Small instances of Validator for TLC. *)
EXTENDS Validator, TLC

\* No action names an instance, so the members are interchangeable.
MCSymmetry == Permutations(Instances)

=============================================================================

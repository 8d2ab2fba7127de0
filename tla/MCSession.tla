------------------------------ MODULE MCSession ------------------------------
(* Instances of Session for TLC. *)
EXTENDS Session, TLC

SymSlots == Permutations(Slots)
SymAll == Permutations(Slots) \cup Permutations(Roles) \cup Permutations(Browsers)
=============================================================================

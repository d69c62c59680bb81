----------------------------- MODULE MCIrpQueue -----------------------------
(***************************************************************************)
(* IrpQueue for TLC.  IRPs of the same kind are interchangeable.           *)
(***************************************************************************)
EXTENDS IrpQueue, TLC

Symmetric == Permutations(Cancellable) \cup Permutations(Irps \ Cancellable)

=============================================================================

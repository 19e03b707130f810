-------------------------------- MODULE MCListing --------------------------------
(* Listing with interchangeable rows. *)
EXTENDS Listing, TLC

RowSymmetry == Permutations(Rows)
=================================================================================

-------------------------- MODULE MCEnclaveRegistry --------------------------
(***************************************************************************)
(* Keys of two bytes a coordinate.  They share coordinates, so that half a *)
(* comparison would not tell them apart, and one has a leading zero (the   *)
(* last byte here, as the enclave holds its key in little endian).         *)
(***************************************************************************)
EXTENDS EnclaveRegistry

TwoByteKeys ==
  {[x |-> <<1, 2>>, y |-> <<3, 4>>], [x |-> <<1, 2>>, y |-> <<4, 3>>],
   [x |-> <<5, 6>>, y |-> <<7, 0>>]}
=============================================================================

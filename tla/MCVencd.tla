------------------------------ MODULE MCVencd ------------------------------
(***************************************************************************)
(* Vencd with two buffers and units around the sizes that matter for an    *)
(* MTU of four bytes of payload: exactly the payload, one byte more, and   *)
(* three fragments; with runs of zeros where fragments are cut.            *)
(***************************************************************************)
EXTENDS Vencd

MCCoded ==
  {<<103, 0, 0, 3>>, <<65, 1, 0, 0, 3>>, <<101, 0, 1, 0, 0, 3>>}
=============================================================================

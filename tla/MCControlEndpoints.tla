------------------------- MODULE MCControlEndpoints -------------------------
(***************************************************************************)
(* ControlEndpoints on a window of two registers and a program memory of   *)
(* one word.  The  addresses reach below, into and past both windows, and  *)
(* one is not a multiple of four; the buffer address needs more bits than  *)
(* a register has.                                                         *)
(***************************************************************************)
EXTENDS ControlEndpoints

MCAddresses == {4, 8, 14, 40}
MCValues    == {1}
MCPrograms  == {<<61>>, <<62, 63>>}
MCFilters   == {<<2>>}
MCBuffers   == {70}
=============================================================================

----------------------------- MODULE MCFraming -----------------------------
(* A small instance of Framing: two bytes to a field, two fields.          *)
EXTENDS Framing

CONSTANTS a, b

(* Ordinary, both separators in one field, both replacement bytes, empty   *)
(* first, last and alone, one byte too many for a field, one byte too many *)
(* for a packet.                                                           *)
Contents ==
  {<<>>, <<<<a>>, <<b>>>>, <<<<Pipe, NL>>>>, <<<<EscNL, EscPipe>>>>,
   <<<<>>, <<a>>>>, <<<<>>>>,
   <<<<NL, b, a>>>>, <<<<a, b>>, <<b>>>>}
=============================================================================

--------------------------- MODULE MCReviewScreen ---------------------------
(***************************************************************************)
(* The messages of MCClearSigning with one more text to change to, which   *)
(* is UTF-8 and not ASCII, in either or both copies of the chain           *)
(* identifier.                                                             *)
(***************************************************************************)
EXTENDS MCClearSigning, ReviewScreen

MCNonAscii == {"not ascii"}

MCFactTextLen == "not ascii" :> 11 @@ MCTextLen
=============================================================================

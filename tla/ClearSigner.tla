---------------------------- MODULE ClearSigner ----------------------------
(***************************************************************************)
(* What the clear-signing core promises, without its buffers and chunks.   *)
(* A host opens an offer by declaring a path and a total length, extends   *)
(* it and submits its last bytes; a complete and acceptable offer becomes  *)
(* reviewed; a signature is released for a reviewed offer only, for exactly *)
(* its path and bytes; and whatever else happens abandons the offer whole. *)
(***************************************************************************)
EXTENDS Naturals, Sequences

CONSTANTS
    Path,           \* the derivation paths of the signing profile
    NoPath,         \* the path of a signer that holds no offer
    Byte,           \* the bytes a frame is made of
    MaxFrameLen,    \* the longest frame that may be offered
    Acceptable      \* the <<path, frame>> pairs that may be shown for review

VARIABLES
    offer,          \* the path, the declared total and the bytes so far
    reviewed,       \* whether the offer is complete, accepted and on display
    released        \* the signature the last step handed out, if any

vars == <<offer, reviewed, released>>

Bytes == UNION {[1..n -> Byte] : n \in 1..MaxFrameLen}

NoOffer == [path |-> NoPath, total |-> 0, bytes |-> <<>>]

NoSignature == [path |-> NoPath, frame |-> <<>>]

Init ==
    /\ offer = NoOffer
    /\ reviewed = FALSE
    /\ released = NoSignature

Open ==
    /\ offer = NoOffer
    /\ \E p \in Path, total \in 1..MaxFrameLen, bytes \in Bytes :
          /\ Len(bytes) < total
          /\ offer' = [path |-> p, total |-> total, bytes |-> bytes]
    /\ reviewed' = FALSE
    /\ released' = NoSignature

Extend ==
    /\ offer # NoOffer
    /\ ~reviewed
    /\ \E bytes \in Bytes :
          /\ Len(offer.bytes) + Len(bytes) < offer.total
          /\ offer' = [offer EXCEPT !.bytes = @ \o bytes]
    /\ reviewed' = FALSE
    /\ released' = NoSignature

Submit ==
    /\ offer # NoOffer
    /\ ~reviewed
    /\ \E bytes \in Bytes :
          /\ Len(offer.bytes) + Len(bytes) = offer.total
          /\ <<offer.path, offer.bytes \o bytes>> \in Acceptable
          /\ offer' = [offer EXCEPT !.bytes = @ \o bytes]
    /\ reviewed' = TRUE
    /\ released' = NoSignature

Abandon ==
    /\ offer' = NoOffer
    /\ reviewed' = FALSE
    /\ released' = NoSignature

Sign ==
    /\ reviewed
    /\ released' = [path |-> offer.path, frame |-> offer.bytes]
    /\ offer' = NoOffer
    /\ reviewed' = FALSE

Next == Open \/ Extend \/ Submit \/ Abandon \/ Sign

Spec == Init /\ [][Next]_vars
=============================================================================

-------------------------------- MODULE Device --------------------------------
(***************************************************************************)
(* The whole device: the event loop and the session of DeviceLoop, with    *)
(* the decoders, the policy and the formatter of ReviewFacts in place of   *)
(* what DeviceLoop leaves open about them.                                 *)
(***************************************************************************)
EXTENDS DeviceLoop, ReviewFacts

CONSTANT Meaning        \* what the bytes of each frame are to the decoders

ASSUME MeaningAssumption ==
    /\ Meaning \in [Frame -> ByteString]
    /\ NoReview = None
    /\ Inspect = [frame \in Frame |-> Inspected(Meaning[frame], NoKey)]

\* A key is a hexadecimal text of 64 characters, which always fits.
ASSUME FormatAssumption == Displayable = Key \cup {r \in Review : Formats(r)}

\* What the review screen shows of the review the user agreed to.
FactsApproved == Facts(approved.review)

-----------------------------------------------------------------------------
(* Properties. *)

\* From the screen to the wire: whoever reads the facts and agrees gets a
\* signature over the one frame they spell out, by the key of the sender they
\* name, whatever came in between.
SignsTheFactsShown ==
    \A p \in Path, frame \in Frame :
       wire.data = Signature(p, frame) =>
         /\ Meaning[frame] = Rebuilt(ReviewOf(FactsApproved))
         /\ KeyOf[p] = ReviewOf(FactsApproved).sender

=============================================================================

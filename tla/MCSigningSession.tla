-------------------------- MODULE MCSigningSession --------------------------
(***************************************************************************)
(* A small device: frames of at most four bytes, chunks of at most two, so *)
(* that a frame takes FIRST, at most two CONTINUE and LAST; two good paths *)
(* and one that does not decode; and commands that meet every check of     *)
(* every handler on both of its sides.                                     *)
(***************************************************************************)
EXTENDS SigningSession

CONSTANTS p1, p2, malformed, k1, k2

MCByte == 0..2
MCPath == {p1, p2}
MCEncodedPath == {p1, p2, malformed}
MCPathOf == [e \in MCEncodedPath |-> IF e = malformed THEN NoPath ELSE e]
MCKey == {k1, k2}
MCKeyOf == [p \in MCPath |-> IF p = p1 THEN k1 ELSE k2]

MCFrame == UNION {[1..n -> MCByte] : n \in 1..MaxFrameLen}

\* A frame is shown as itself: a signature over any other bytes than those
\* reviewed cannot pass for the right one.
MCReview == MCFrame

\* The first byte tells a frame from other bytes, the second a transaction, the
\* last is the sender; the payload is all of a frame that begins with 0 and all
\* but the first byte of one that begins with 1, so that a frame may fill the
\* buffer and be within the bound of the payload or not; and one kind of
\* transaction is not recognized.
MCInspect ==
    [f \in MCFrame |->
        [frame |-> f[1] # 2,
         payload_len |-> IF f[1] = 1 THEN Len(f) - 1 ELSE Len(f),
         transaction |-> Len(f) = 1 \/ f[2] # 2,
         sender |-> IF f[Len(f)] = 1 THEN k1 ELSE k2,
         review |-> IF Len(f) > 1 /\ f[1] = 1 /\ f[2] = 1 THEN NoReview ELSE f]]

Chunks == UNION {[1..n -> MCByte] : n \in 0..2} \cup {<<0, 1, 0>>}

Header(cla, ins, first, second) ==
    [cla : {cla}, ins : {ins}, p1 : first, p2 : second]

With(headers, totals, paths, chunks) ==
    {[cla |-> h.cla, ins |-> h.ins, p1 |-> h.p1, p2 |-> h.p2,
      total |-> t, path |-> p, chunk |-> c] :
        h \in headers, t \in totals, p \in paths, c \in chunks}

MCCommand ==
    With(Header(0, SIGN_TRANSACTION, {FIRST}, {0})
           \cup Header(CLA, 8, {0}, {0})
           \cup Header(CLA, SIGN_TRANSACTION, {3}, {0})
           \cup Header(CLA, SIGN_TRANSACTION, {CONTINUE}, {1}),
         {0}, {malformed}, {<<1>>})
      \cup With(Header(CLA, GET_CONFIGURATION, {0, 1}, {0, 1})
                  \cup Header(CLA, RESET_SIGNING, {0, 1}, {0, 1}),
                {0}, {malformed}, {<<>>, <<1>>})
      \cup With(Header(CLA, VERIFY_PUBLIC_KEY, {0, 1}, {0, 1}),
                {0}, MCEncodedPath, {<<>>})
      \cup With(Header(CLA, SIGN_TRANSACTION, {FIRST}, {0}),
                0..(MaxFrameLen + 1), MCEncodedPath, Chunks)
      \cup With(Header(CLA, SIGN_TRANSACTION, {CONTINUE, LAST}, {0}),
                {0}, {malformed}, Chunks)
=============================================================================

---------------------------- MODULE DerivationPath ----------------------------
(***************************************************************************)
(* decode_path and the components the adapter derives a key from           *)
(* (crates/sunrise-edge-ledger-core/src/path.rs and                        *)
(* crates/sunrise-edge-ledger-app/src/derivation.rs).  A component is a    *)
(* big-endian number of Width bytes whose highest bit marks it hardened;   *)
(* the base and the width are constants.                                   *)
(***************************************************************************)
EXTENDS Bytes

CONSTANTS
    Width,          \* the bytes of a component, 4 in the code
    PURPOSE,        \* 44 in the code
    COIN_TYPE,      \* 21333 in the code
    Wire            \* the byte strings that arrive where a path is expected

HARDENED_BIT == Power(Base, Width) \div 2

ASSUME ComponentAssumption ==
    /\ Base = 2 * (Base \div 2)
    /\ Width \in Nat \ {0}
    /\ {PURPOSE, COIN_TYPE} \subseteq 0..(HARDENED_BIT - 1)
    /\ Wire \subseteq Seq(Byte)

PATH_DEPTH == 5
PATH_ENCODED_LEN == 1 + PATH_DEPTH * Width

VARIABLES
    bytes,
    decoding,       \* what is done next, or how decoding ended
    account,        \* the DerivationPath
    components      \* what the SDK is asked to derive a key from

pathVars == <<bytes, decoding, account, components>>

-----------------------------------------------------------------------------
\* Forgets the depth byte.
Component_Slip(i) == BigEndian(SubSeq(bytes, 1 + (i - 1) * Width, i * Width))

\* component(i), with i counted from 1.
Component(i) == BigEndian(SubSeq(bytes, 2 + (i - 1) * Width, 1 + i * Width))

IsHardened(n) == (n \div HARDENED_BIT) % 2 = 1

Unhardened(n) == n % HARDENED_BIT

Hardened(n) == Unhardened(n) + HARDENED_BIT

\* Looks at the first three components only.
AllHardened_Slip == \A i \in 1..3 : IsHardened(Component(i))

AllHardened == \A i \in 1..PATH_DEPTH : IsHardened(Component(i))

\* The first check that fails, in the order the code makes them.
PathStatus ==
    IF Len(bytes) # PATH_ENCODED_LEN THEN "WrongLength"
    ELSE IF bytes[1] # PATH_DEPTH THEN "WrongDepth"
    ELSE IF ~AllHardened THEN "NotHardened"
    ELSE IF Unhardened(Component(1)) # PURPOSE THEN "WrongPurpose"
    ELSE IF Unhardened(Component(2)) # COIN_TYPE THEN "WrongCoinType"
    ELSE IF Unhardened(Component(4)) # 0 THEN "WrongChange"
    ELSE IF Unhardened(Component(5)) # 0 THEN "WrongAddressIndex"
    ELSE "decoded"

PathInit ==
    /\ bytes \in Wire
    /\ decoding = "decode"
    /\ account = 0
    /\ components = <<>>

DecodePath ==
    /\ decoding = "decode"
    /\ decoding' = PathStatus
    /\ account' = IF PathStatus = "decoded" THEN Unhardened(Component(3)) ELSE account
    /\ UNCHANGED <<bytes, components>>

\* to_bip32_components, as the deriver and the signer call it.
Derive ==
    /\ decoding = "decoded"
    /\ components' = <<Hardened(PURPOSE), Hardened(COIN_TYPE), Hardened(account),
                       Hardened(0), Hardened(0)>>
    /\ decoding' = "derived"
    /\ UNCHANGED <<bytes, account>>

PathNext == DecodePath \/ Derive

PathSpec == PathInit /\ [][PathNext]_pathVars

-----------------------------------------------------------------------------
(* Properties. *)

\* The wire format of a path: its depth and each of its components.
Encoded(path) ==
    <<PATH_DEPTH>> \o ToBigEndian(path[1], Width) \o ToBigEndian(path[2], Width)
      \o ToBigEndian(path[3], Width) \o ToBigEndian(path[4], Width)
      \o ToBigEndian(path[5], Width)

\* Keys are derived from the very components the host sent, all of them
\* hardened, and from nothing else: no two encodings lead to one key, and what
\* the decoder takes off a component the conversion puts back.
DerivesWhatWasSent ==
    decoding = "derived" =>
        /\ Encoded(components) = bytes
        /\ \A i \in DOMAIN components : IsHardened(components[i])

\* A byte string is refused only if it is no account of the profile: every
\* account has a path, the highest one too.
EveryAccountHasAPath ==
    decoding \notin {"decode", "decoded", "derived"} =>
        \A a \in 0..(HARDENED_BIT - 1) :
           bytes # Encoded(<<Hardened(PURPOSE), Hardened(COIN_TYPE), Hardened(a),
                             Hardened(0), Hardened(0)>>)

=============================================================================

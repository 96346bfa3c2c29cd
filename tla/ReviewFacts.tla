----------------------------- MODULE ReviewFacts -----------------------------
(***************************************************************************)
(* The 32 facts a transaction review shows                                 *)
(* (crates/sunrise-edge-ledger-app/src/review_ui.rs) and what a reader can *)
(* tell from them.                                                         *)
(*                                                                         *)
(* A rendered value is its kind, what it was rendered from and its length. *)
(* That a rendering of one kind is read back without loss is FactText's    *)
(* part.  The typed errors are one: the adapter maps each to               *)
(* InternalFailure.                                                        *)
(***************************************************************************)
EXTENDS Decoders

CONSTANTS
    MaxFactLen,     \* MAX_FACT_LEN, 96 in the code
    NonAscii        \* the texts that are not ASCII

\* A digest with the longest label fits into a fact, and so do the texts that
\* recognize compares with constants.  These and the labels are ASCII.
ASSUME FactLenAssumption ==
    /\ MaxFactLen \in Nat
    /\ MaxFactLen >= 75
    /\ \A text \in {Policy.chain_id, Policy.entrypoint, TRANSACTION_V1_MESSAGE_TYPE} :
          TextLen[text] <= MaxFactLen /\ text \notin NonAscii
    /\ {"ed25519", "secp256k1", "read", "write", "consume", "present"} \cap NonAscii = {}

\* The label of the amount is the name of no other fact.
ASSUME LabelAssumption ==
    Policy.args_label \notin
      {"chain_id", "protocol_version", "epoch", "message_type", "scheme", "sender", "nonce",
       "module_id", "module_version", "module_digest", "entrypoint", "gas_limit",
       "manifest_count", "fee_payment", "fee_asset", "fee_max", "fee_object_id",
       "fee_object_version", "fee_object_digest"}

-----------------------------------------------------------------------------
(* Labels (types.rs). *)

Label(text, len) == [text |-> text, len |-> len]

HashLabel == <<Label("sha2-256", 8), Label("sha3-256", 8), Label("blake3-256", 10)>>

SchemeLabel == <<Label("ed25519", 7), Label("secp256k1", 9)>>

ModeLabel == <<Label("read", 4), Label("write", 5), Label("consume", 7)>>

-----------------------------------------------------------------------------
(* BoundedFactStr *)

Rendered(kind, of, len) == [kind |-> kind, of |-> of, len |-> len]

FromStr(t) == Rendered("text", t, TextLen[t])

FromLabel(label) == Rendered("text", label.text, label.len)

\* At most twenty digits: the one rendering that checks nothing.
FromU64(n) == Rendered("decimal", n, 20)

\* Everything shown in hexadecimal has 32 bytes.
FromHex(bytes) == Rendered("hex", bytes, 64)

FromDigest(d) ==
    Rendered("digest", <<HashLabel[d.algorithm].text, d.bytes>>,
             HashLabel[d.algorithm].len + 1 + 64)

\* Nothing is cut: what does not fit or is not ASCII is an error.
Representable(value) ==
    /\ value.len <= MaxFactLen
    /\ value.kind = "text" => value.of \notin NonAscii

-----------------------------------------------------------------------------
(* format_review_facts *)

Fact(name, value) == [name |-> name, value |-> value]

Access == <<"access[0]", "access[1]", "access[2]">>

AccessFacts(i, line) ==
    <<Fact(<<Access[i], "mode">>, FromLabel(ModeLabel[line.mode])),
      Fact(<<Access[i], "object_id">>, FromHex(line.object_ref.id)),
      Fact(<<Access[i], "version">>, FromU64(line.object_ref.version)),
      Fact(<<Access[i], "digest">>, FromDigest(line.object_ref.digest))>>

\* Shows the gas limit as the highest fee.
FeeFacts_Slip(r) ==
    <<Fact(<<"fee_payment">>, FromLabel(Label("present", 7))),
      Fact(<<"fee_asset">>, FromHex(r.fee.asset_id)),
      Fact(<<"fee_max">>, FromU64(r.gas_limit)),
      Fact(<<"fee_object_id">>, FromHex(r.fee.fee_object.id)),
      Fact(<<"fee_object_version">>, FromU64(r.fee.fee_object.version)),
      Fact(<<"fee_object_digest">>, FromDigest(r.fee.fee_object.digest))>>

FeeFacts(r) ==
    <<Fact(<<"fee_payment">>, FromLabel(Label("present", 7))),
      Fact(<<"fee_asset">>, FromHex(r.fee.asset_id)),
      Fact(<<"fee_max">>, FromU64(r.fee.max_fee)),
      Fact(<<"fee_object_id">>, FromHex(r.fee.fee_object.id)),
      Fact(<<"fee_object_version">>, FromU64(r.fee.fee_object.version)),
      Fact(<<"fee_object_digest">>, FromDigest(r.fee.fee_object.digest))>>

ContextFacts(r) ==
    <<Fact(<<"chain_id">>, FromStr(r.chain_id)),
      Fact(<<"protocol_version">>, FromU64(r.protocol_version)),
      Fact(<<"epoch">>, FromU64(r.epoch)),
      Fact(<<"message_type">>, FromStr(r.message_type)),
      Fact(<<"scheme">>, FromLabel(SchemeLabel[r.scheme])),
      Fact(<<"sender">>, FromHex(r.sender)),
      Fact(<<"nonce">>, FromU64(r.nonce)),
      Fact(<<"module_id">>, FromHex(r.module.id)),
      Fact(<<"module_version">>, FromU64(r.module.version)),
      Fact(<<"module_digest">>, FromDigest(r.module.digest)),
      Fact(<<"entrypoint">>, FromStr(r.entrypoint)),
      Fact(<<r.amount_label>>, FromU64(r.amount)),
      Fact(<<"gas_limit">>, FromU64(r.gas_limit)),
      Fact(<<"manifest_count">>, FromU64(Len(r.access_entries)))>>

Facts(r) ==
    ContextFacts(r)
      \o AccessFacts(1, r.access_entries[1])
      \o AccessFacts(2, r.access_entries[2])
      \o AccessFacts(3, r.access_entries[3])
      \o FeeFacts(r)

\* format_review_facts returns Ok.
Formats(r) ==
    /\ Len(r.access_entries) = 3
    /\ r.fee # None
    /\ \A i \in DOMAIN Facts(r) : Representable(Facts(r)[i].value)

-----------------------------------------------------------------------------
(* A reader of the screen looks facts up by their names and knows the labels. *)

Read(facts, name) ==
    LET i == CHOOSE i \in DOMAIN facts : facts[i].name = name
    IN  facts[i].value.of

Labelled(labels, text) == CHOOSE n \in DOMAIN labels : labels[n].text = text

ReadDigest(facts, name) ==
    [algorithm |-> Labelled(HashLabel, Read(facts, name)[1]),
     bytes |-> Read(facts, name)[2]]

ReadRef(facts, id, version, digest) ==
    [id |-> Read(facts, id), version |-> Read(facts, version),
     digest |-> ReadDigest(facts, digest)]

ReadAccess(facts, i) ==
    [object_ref |-> ReadRef(facts, <<Access[i], "object_id">>,
                            <<Access[i], "version">>, <<Access[i], "digest">>),
     mode |-> Labelled(ModeLabel, Read(facts, <<Access[i], "mode">>))]

\* The review the reader takes the facts for.
ReviewOf(facts) ==
    [chain_id |-> Read(facts, <<"chain_id">>),
     protocol_version |-> Read(facts, <<"protocol_version">>),
     epoch |-> Read(facts, <<"epoch">>),
     message_type |-> Read(facts, <<"message_type">>),
     scheme |-> Labelled(SchemeLabel, Read(facts, <<"scheme">>)),
     sender |-> Read(facts, <<"sender">>),
     nonce |-> Read(facts, <<"nonce">>),
     module |-> ReadRef(facts, <<"module_id">>, <<"module_version">>, <<"module_digest">>),
     entrypoint |-> Read(facts, <<"entrypoint">>),
     amount |-> Read(facts, <<Policy.args_label>>),
     amount_label |-> Policy.args_label,
     gas_limit |-> Read(facts, <<"gas_limit">>),
     access_entries |-> [i \in 1..Read(facts, <<"manifest_count">>) |-> ReadAccess(facts, i)],
     fee |-> [asset_id |-> Read(facts, <<"fee_asset">>),
              max_fee |-> Read(facts, <<"fee_max">>),
              fee_object |-> ReadRef(facts, <<"fee_object_id">>,
                                     <<"fee_object_version">>, <<"fee_object_digest">>)]]

=============================================================================

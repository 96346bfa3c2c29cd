--------------------------- MODULE MCClearSigning ---------------------------
(***************************************************************************)
(* The messages are the transfers, everything that differs from one of     *)
(* them in one place (a number, a text, a length, a type, a version, a     *)
(* field dropped, added or renumbered, at any depth of nesting), every     *)
(* change of a value together with one of the values of the outer frame,   *)
(* and manifests of fewer and more entries.                                *)
(***************************************************************************)
EXTENDS ClearSigning, MCParts, TLC

MCTextLen ==
    "sunrise-local-devnet" :> 20 @@ "transaction-v1" :> 14 @@ "transfer" :> 8
      @@ "other" :> 5 @@ "" :> 0 @@ " " :> 1 @@ "not utf-8" :> 4 @@ "longest" :> 64 @@ "too long" :> 65

MCNotUtf8 == {"not utf-8"}
MCBlankText == {"", " "}

MCRef(n) ==
    [id |-> n, version |-> n \div 2, digest |-> [algorithm |-> (n % 3) + 1, bytes |-> n]]

MCPolicy ==
    [chain_id |-> "sunrise-local-devnet", protocol_version |-> 3, epoch |-> 0,
     module_ref |-> MCRef(9), entrypoint |-> "transfer",
     args_type_id |-> 61442, args_version |-> 1, args_field_id |-> 1,
     args_label |-> "amount", fee_asset_id |-> 5]

MCReview(sender, nonce, amount, gas_limit, max_fee, objects) ==
    [chain_id |-> MCPolicy.chain_id, protocol_version |-> 3, epoch |-> 0,
     message_type |-> "transaction-v1", scheme |-> 1, sender |-> sender, nonce |-> nonce,
     module |-> MCRef(9), entrypoint |-> "transfer", amount |-> amount,
     amount_label |-> "amount", gas_limit |-> gas_limit,
     access_entries |-> [i \in 1..Len(objects) |->
                            [object_ref |-> MCRef(objects[i]), mode |-> 2]],
     fee |-> [asset_id |-> 5, max_fee |-> max_fee, fee_object |-> MCRef(objects[1])]]

MCSigner == 7

MCTransfer ==
    {MCReview(MCSigner, nonce, amount, gas, fee, objects) :
        nonce \in {0, 1}, amount \in {1, 2}, gas \in {0, 1}, fee \in {0, 1},
        objects \in {<<1, 2, 3>>, <<2, 1, 3>>, <<3, 4, 9>>}}

\* The objects are 1, 2 and 4: one more than 1 makes a duplicate.
MCModel == Rebuilt(MCReview(MCSigner, 1, 1, 1, 1, <<1, 2, 4>>))

ValueChanges(bytes) ==
    IF "text" \in DOMAIN bytes
    THEN {Text(t) : t \in DOMAIN TextLen \ {bytes.text}}
    ELSE {Number(n, bytes.len) : n \in {0, bytes.value + 1} \ {bytes.value}}

IsNested(bytes) == "fields" \in DOMAIN bytes

With(f, id, bytes) ==
    Canonical(f.type_id, f.version, [f.fields EXCEPT ![id] = bytes])

Without(f, id) ==
    Canonical(f.type_id, f.version, Restrict(f.fields, DOMAIN f.fields \ {id}))

RECURSIVE Revalued(_)
Revalued(bytes) ==
    IF ~IsNested(bytes) THEN ValueChanges(bytes)
    ELSE UNION {{With(bytes, id, b) : b \in Revalued(bytes.fields[id])} :
                   id \in DOMAIN bytes.fields}

Misshapen(f) ==
    {Number(0, f.len), [f EXCEPT !.type_id = @ + 1], [f EXCEPT !.version = @ + 1],
     Canonical(f.type_id, f.version, 12 :> Number(0, 8) @@ f.fields)}
      \cup {Without(f, id) : id \in DOMAIN f.fields}
      \cup {Canonical(f.type_id, f.version, 12 :> f.fields[id] @@ Without(f, id).fields) :
               id \in DOMAIN f.fields}

RECURSIVE Reshaped(_)
Reshaped(bytes) ==
    IF ~IsNested(bytes)
    THEN IF "text" \in DOMAIN bytes THEN {} ELSE {Number(bytes.value, bytes.len + 1)}
    ELSE Misshapen(bytes)
           \cup UNION {{With(bytes, id, b) : b \in Reshaped(bytes.fields[id])} :
                          id \in DOMAIN bytes.fields}

\* A change of what the signature frame itself says.
Retold(f) == UNION {{With(f, id, b) : b \in ValueChanges(f.fields[id])} : id \in 1..5}

Entries(n) == MCReview(MCSigner, 1, 1, 1, 1, [i \in 1..n |-> i])

\* A payload of more than MaxPayloadLen bytes with four entries, and one of fewer
\* bytes with five.
LongPayload == Rebuilt([Entries(4) EXCEPT !.chain_id = "longest", !.entrypoint = "longest"])
ManyEntries == Rebuilt([Entries(5) EXCEPT !.fee = None])

MCMessage ==
    {Rebuilt(r) : r \in MCTransfer}
      \cup Reshaped(MCModel)
      \cup Revalued(MCModel)
      \cup UNION {Retold(m) : m \in Revalued(MCModel)}
      \cup {Rebuilt(Entries(n)) : n \in {1, 2, 4}}
      \cup {LongPayload, ManyEntries}

MCByteString == WithParts(MCMessage)
=============================================================================

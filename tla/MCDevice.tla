------------------------------- MODULE MCDevice -------------------------------
(***************************************************************************)
(* The commands of MCSigningSession.  The frames of two bytes are two      *)
(* transfers by each of two senders and the first of them with one thing   *)
(* wrong; frames of other lengths are no frames, or transfers on a chain   *)
(* whose name cannot be displayed.                                         *)
(***************************************************************************)
EXTENDS Device, MCSigningSession, MCParts, TLC

MCTextLen ==
    "sunrise-local-devnet" :> 20 @@ "not ascii" :> 11 @@ "transaction-v1" :> 14
      @@ "transfer" :> 8 @@ "other" :> 5

MCNone == [none |-> TRUE]

Ref(n) == [id |-> n, version |-> n + 1, digest |-> [algorithm |-> n, bytes |-> n + 2]]

MCPolicy ==
    [chain_id |-> "sunrise-local-devnet", protocol_version |-> 3, epoch |-> 0,
     module_ref |-> Ref(1), entrypoint |-> "transfer",
     args_type_id |-> 61442, args_version |-> 1, args_field_id |-> 1,
     args_label |-> "amount", fee_asset_id |-> 5]

Transfer(sender, amount, max_fee) ==
    [chain_id |-> MCPolicy.chain_id, protocol_version |-> 3, epoch |-> 0,
     message_type |-> "transaction-v1", scheme |-> 1, sender |-> sender, nonce |-> 6,
     module |-> Ref(1), entrypoint |-> "transfer", amount |-> amount,
     amount_label |-> "amount", gas_limit |-> 9,
     access_entries |-> [i \in 1..3 |-> [object_ref |-> Ref(i), mode |-> 2]],
     fee |-> [asset_id |-> 5, max_fee |-> max_fee, fee_object |-> Ref(1)]]

Base == Transfer(k1, 3, 4)

MCMeaning ==
    [f \in MCFrame |->
        CASE Len(f) = 1 -> Number(0, 1)
          [] Len(f) = 3 -> Rebuilt([Base EXCEPT !.chain_id = "not ascii", !.nonce = f[1]])
          [] OTHER ->
               CASE f[2] = 1 -> Rebuilt(Transfer(k2, 3, f[1]))
                 [] f = <<0, 0>> -> Rebuilt(Base)
                 [] f = <<1, 0>> -> Rebuilt(Transfer(k1, 4, 3))
                 [] f = <<2, 0>> -> Rebuilt([Base EXCEPT !.scheme = 2])
                 [] f = <<0, 2>> -> Rebuilt([Base EXCEPT !.fee = MCNone])
                 [] f = <<1, 2>> -> Rebuilt([Base EXCEPT !.amount = 0])
                 [] f = <<2, 2>> -> Rebuilt([Base EXCEPT !.entrypoint = "other"])]

MCByteString == WithParts({MCMeaning[f] : f \in MCFrame})

MCInspected == [f \in MCFrame |-> Inspected(MCMeaning[f], NoKey)]

MCReviews == {MCInspected[f].review : f \in MCFrame} \ {MCNone}

MCDisplayable == MCKey \cup {r \in MCReviews : Formats(r)}
=============================================================================

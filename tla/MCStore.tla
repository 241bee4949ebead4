------------------------------ MODULE MCStore ------------------------------
(***************************************************************************)
(* An instance of LmdbStore: two identifiers, one the beginning of the     *)
(* other, one with two versions of its second event, one Hab name that     *)
(* both use, an escrow beside the logs, and another message under the SAID *)
(* of an event.                                                            *)
(***************************************************************************)
EXTENDS LmdbStore

CONSTANTS A, B, a0, a1, a2, b0

Short == <<A>>
Long  == <<A, B>>

Places2 == (a0 :> <<Short, 0>>) @@ (a1 :> <<Short, 1>>) @@ (a2 :> <<Short, 1>>) @@ (b0 :> <<Long, 0>>)

Identifiers == {Short, Long}

Call(d, sigs) ==
  [prefix |-> Places2[d][1], sn |-> Places2[d][2], said |-> d, event |-> EventOf(d), sigs |-> sigs]

StoreCalls ==
  {Call(a0, SigsOf(a0)), Call(a1, SigsOf(a1)), Call(a2, Absent), Call(b0, SigsOf(b0))}

OtherPuts ==
  {[table |-> "ooes", key |-> <<Short, 1>>, value |-> EventOf(a1)],
   [table |-> "evts", key |-> a1, value |-> OtherOf(a1)]}

StoreConfigs ==
  {[no_sync |-> FALSE, write_map |-> FALSE], [no_sync |-> TRUE, write_map |-> FALSE],
   [no_sync |-> FALSE, write_map |-> TRUE]}

\* Bound: nothing is said of a store after a crash that tore a transaction
NotTorn == ~torn
=============================================================================

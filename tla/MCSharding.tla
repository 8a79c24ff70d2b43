---------------------------- MODULE MCSharding ----------------------------
(* Instances of Sharding: two devices that support the same ABIs, and two   *)
(* that do not.                                                             *)
EXTENDS Sharding, TLC

CONSTANTS d1, d2

MCDevices == {d1, d2}
Five      == <<"a", "b", "c", "d", "e">>
Alike     == [d \in MCDevices |-> Five]
Unlike    == d1 :> <<"a32", "b32">> @@ d2 :> <<"a32", "a64", "b32">>
=============================================================================

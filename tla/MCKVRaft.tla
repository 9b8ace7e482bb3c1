------------------------------ MODULE MCKVRaft ------------------------------
(***************************************************************************)
(* Instances of KVRaft for TLC.  Two clerks call once each; what makes     *)
(* them meet are their retries, which put an operation into the log again. *)
(***************************************************************************)
EXTENDS KVRaft, TLC

CONSTANTS c1, c2

ReadAndWrite == c1 :> <<"Append">> @@ c2 :> <<"Get">>
TwoWrites == c1 :> <<"Append">> @@ c2 :> <<"Append">>

Symmetry == Permutations(Server)

\* With TwoWrites the clerks are interchangeable, too.
WritersSymmetry == Permutations(Server) \union Permutations(Client)
=============================================================================

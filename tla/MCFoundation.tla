---------------------------- MODULE MCFoundation ----------------------------
(***************************************************************************)
(* Three instances in one run, of what the services and their tests stand  *)
(* on: a peer that delivers committed entries on applyCh, the network that *)
(* delivers calls and replies, and the checker that judges the tests'      *)
(* histories.                                                              *)
(***************************************************************************)
EXTENDS RaftApply, LabRpc, Porcupine, TLC

VARIABLE instance    \* which one runs

-----------------------------------------------------------------------------
(* All histories of three operations on one key or two: puts and appends   *)
(* of one value, and gets of what the others on the key can make of it or  *)
(* cannot.                                                                 *)

Writes ==
    {[Op |-> "put", Value |-> <<"x">>, Output |-> <<>>],
     [Op |-> "append", Value |-> <<"x">>, Output |-> <<>>]}
Reads(outputs) == [Op : {"get"}, Value : {<<>>}, Output : outputs]

\* The instants of n calls and returns: distinct, and in the order of the returns, in which
\* the tests log operations.
Times(n) ==
    {t \in [1..n -> {x \in (1..2 * n) \X (1..2 * n) : x[1] < x[2]}] :
        /\ \A k \in 1..(n - 1) : t[k][2] < t[k + 1][2]
        /\ {t[k][1] : k \in 1..n} \union {t[k][2] : k \in 1..n} = 1..2 * n}

Timed(n, inputs, keys) ==
    {[k \in 1..n |-> i[k] @@ [Key |-> key[k], Call |-> t[k][1], Return |-> t[k][2]]] :
        i \in inputs, key \in keys, t \in Times(n)}

Histories ==
    LET one == Writes \union Reads({<<>>, <<"x">>, <<"x", "x">>})
        two == Writes \union Reads({<<>>, <<"x">>})
    IN  Timed(3, [1..3 -> one], {<<"a", "a", "a">>}) \union
        Timed(3, [1..3 -> two], {<<"a", "a", "b">>, <<"a", "b", "a">>, <<"a", "b", "b">>})
-----------------------------------------------------------------------------
\* No check: as after one that is over.
NoCheck ==
    /\ history = <<>> /\ entries = <<>> /\ verbose = FALSE /\ search = <<>>
    /\ kill = FALSE /\ ok = TRUE /\ timedOut = FALSE
    /\ received = {} /\ looping = FALSE /\ verdict = "Ok"

MCInit ==
    /\ Init /\ NetworkInit
    /\ \/ instance \in {"delivery", "network"} /\ NoCheck
       \/ instance = "checker" /\ CheckInit

\* The steps of the delivery that respect NoGoingBack; RaftApply_goingback.cfg has the others.
MCNext ==
    \/ /\ instance = "delivery" /\ Next
       /\ RestoreSnapshot => db \subseteq db'
       /\ UNCHANGED <<networkVars, checkVars, instance>>
    \/ instance = "network" /\ NetworkNext /\ UNCHANGED <<vars, checkVars, instance>>
    \/ instance = "checker" /\ CheckNext /\ UNCHANGED <<vars, networkVars, instance>>

\* Only the instance that runs has something to be fair to.
MCSpec ==
    /\ MCInit /\ [][MCNext]_<<vars, networkVars, checkVars, instance>>
    /\ NetworkFairness /\ CheckFairness
=============================================================================

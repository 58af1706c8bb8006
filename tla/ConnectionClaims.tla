-------------------------- MODULE ConnectionClaims --------------------------
(***************************************************************************)
(* What a comment says of the network side of a node, as a property the    *)
(* code does not have.                                                     *)
(***************************************************************************)
EXTENDS Connection

(* main.cpp:78, "Netorking test over console echo ... gethosts|,           *)
(* getblocks|1,": a console that connects is accepted some time, if the    *)
(* consoles before it go away and it stays.  But when a console goes       *)
(* away go() never leaves its loop (Connection.cpp:417, 422).              *)
ConsolesAccepted ==
    \A p \in Consoles :
        (p \in Range(backlog)) ~> (serving = p \/ peer[p] # "open")
=============================================================================

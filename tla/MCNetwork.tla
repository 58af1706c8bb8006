----------------------------- MODULE MCNetwork -----------------------------
(***************************************************************************)
(* A server with or without a builder, one node and one console.           *)
(***************************************************************************)
EXTENDS Network

CONSTANTS g1, w1, Alice, Bob

Pay(from, to, n, ok) ==
    [sender |-> from, receiver |-> to, amount |-> n, signed |-> ok]

a1 == Pay(Alice, Bob, 1, TRUE)
b2 == Pay(Bob, Alice, 2, TRUE)
forged == Pay(Bob, Alice, 2, FALSE)

MCTransactions == {a1, b2, forged}
MCWirePairs == {<<a1, b2>>, <<a1, forged>>}
MCStartPairs == {<<a1, b2>>}
MCStartPools == {{b2}}

(* No builder; a builder whose pool is never big enough; one that takes    *)
(* one transaction.                                                        *)
MCSetups == {<<FALSE, 1>>, <<TRUE, -1>>, <<TRUE, 1>>}
MCMaxTransactions == {-1, 1}

MCGenesis == <<CreateGenesisBlock(g1)>>
MCSecond ==
    [index |-> 2, prevHash |-> g1, currHash |-> g1, txs |-> <<a1, b2>>]
MCStartChains == {MCGenesis, AddBlock(MCGenesis, MCSecond)}

(* 12 is beyond every end, but the 1 it may be cut to is what is behind    *)
(* the genesis block.                                                      *)
MCStarts == {12}
=============================================================================

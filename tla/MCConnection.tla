---------------------------- MODULE MCConnection ----------------------------
(***************************************************************************)
(* A small instance of Connection: a server and two consoles.              *)
(***************************************************************************)
EXTENDS ConnectionClaims

CONSTANTS g1, w1, Alice, Bob

Pay(from, to, n, ok) ==
    [sender |-> from, receiver |-> to, amount |-> n, signed |-> ok]

good == <<Pay(Alice, Bob, 1, TRUE), Pay(Bob, Alice, 2, TRUE)>>
bad == <<Pay(Alice, Bob, 1, TRUE), Pay(Bob, Alice, 2, FALSE)>>

MCWirePairs == {good, bad}

MCGenesis == <<CreateGenesisBlock(g1)>>
MCSecond == [index |-> 2, prevHash |-> g1, currHash |-> g1, txs |-> good]
MCStartChains == {MCGenesis, AddBlock(MCGenesis, MCSecond)}
=============================================================================

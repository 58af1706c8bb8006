------------------------------- MODULE MCNode -------------------------------
(***************************************************************************)
(* Small instances of Node.  Two users, four signed transactions of three  *)
(* amounts - so that distinct transactions are equivalent - a fifth of NaN *)
(* and one whose signature does not verify.                                *)
(***************************************************************************)
EXTENDS NodeClaims

CONSTANTS Alice, Bob, g1, g2

Pay(from, to, n, ok) ==
    [sender |-> from, receiver |-> to, amount |-> n, signed |-> ok]

a1 == Pay(Alice, Bob, 1, TRUE)
b1 == Pay(Bob, Alice, 1, TRUE)
b2 == Pay(Bob, Alice, 2, TRUE)
a3 == Pay(Alice, Bob, 3, TRUE)
bn == Pay(Bob, Alice, NaN, TRUE)
forged == Pay(Bob, Alice, 1, FALSE)

MCTransactions == {a1, b1, b2, a3, bn, forged}
MCWirePairs == {<<a1, b2>>, <<bn, a1>>, <<a1, forged>>}
MCStartPools == {{}, {b1, b2, a3}}
(* Alice has received 2, Bob 3.                                            *)
MCStartPairs == {<<b2, a3>>}

MCMaxTransactions == {-1, 0, 1, 2, 3}
=============================================================================

----------------------------- MODULE MCExchange -----------------------------
(***************************************************************************)
(* Two users, two blocks, amounts on either side of every edge of a buffer *)
(* of six bytes that shows two decimals: 1.50 leaves a byte, 12.50 fills   *)
(* it, 123.12 and 123.19 lose a digit that a float does not need and one   *)
(* that it needs, 123.00 loses a zero, 12344.00 the point, 123456.00 a     *)
(* tenth of its value.                                                     *)
(***************************************************************************)
EXTENDS Exchange, TLC

CONSTANTS k1, k2, home, lan, bad

(* Floats of so few bits that from 100.00 on they are a 16th apart, and    *)
(* from 10000.00 on they are 8 apart.                                      *)
MCstof(n) ==
    CASE n < 10000   -> n
      [] n < 1000000 -> (25 * ((4 * n + 12) \div 25) + 1) \div 4
      [] OTHER       -> 800 * ((n + 400) \div 800)

MCKeys == {k1, k2}
KeySymmetry == Permutations(MCKeys)

(* One port below and one beyond the range, and an address with a '-'.     *)
MCOwnHost == [address |-> <<Address(home)>>, port |-> 9999]
MCHosts == {[address |-> <<Address(home)>>, port |-> 0],
            [address |-> <<Address(lan)>>, port |-> -1],
            [address |-> <<Address(lan), Dash, Address(bad)>>, port |-> 65000],
            [address |-> <<Address(bad)>>, port |-> 69000]}

(* No delimiter in the bytes, or one in one place.                         *)
MCStales ==
    {s \in [0..MAX_TRANSACTIONS -> Stale] :
        Cardinality({i \in DOMAIN s : s[i] # Other}) <= 1}

MCBlockAmounts ==
    <<<<{150, 1250, 12312, 12319, 1234400, 12345600, -150}, {150, 12300}, {1250}>>,
      <<{12312}, {150}>>>>
MCPoolAmounts == {150, 12312, 12319, -150}
=============================================================================

----------------------------- MODULE MCModOrder -----------------------------
(***************************************************************************)
(* All numbers of six bits, all factors, and all odd moduli from half the  *)
(* width on, as the order and the field's prime are: with those the        *)
(* carries happen.  A few small moduli are taken too, because they need    *)
(* the fewest turns in the middle and the most at the end.                 *)
(***************************************************************************)
EXTENDS ModOrder

OddModuli == {m \in 33..61 : m % 2 = 1} \cup {3, 5, 9}

=============================================================================

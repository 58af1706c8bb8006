--------------------------- MODULE TransactionSet ---------------------------
(***************************************************************************)
(* The pools of a node are std::set<Transaction>, ordered by               *)
(*                                                                         *)
(*     operator<(left, right)  ==  left.amount < right.amount              *)
(*                                                                         *)
(* (Transaction.cpp:20-22).  For every algorithm that is given this order  *)
(* - insert, erase, set_intersection - two transactions are therefore the  *)
(* same element as soon as neither amount is smaller, whoever sends them.  *)
(* This module is the arithmetic of such sets: a pool is an ordinary TLA+  *)
(* set of transaction records, and each operator is the std:: algorithm    *)
(* under that equivalence.                                                 *)
(*                                                                         *)
(* An amount is a float: an integer here, or NaN, which std::stof reads    *)
(* from "nan".  No comparison with NaN holds, so to a set under this order *)
(* a NaN is equivalent to everything.                                      *)
(***************************************************************************)
EXTENDS Integers

CONSTANT NaN    \* the float that is not a number

ASSUME NaNAssumption == NaN \notin Int

(* The operators < and + of float.                                         *)
Below(a, b) == a # NaN /\ b # NaN /\ a < b

Plus(a, b) == IF NaN \in {a, b} THEN NaN ELSE a + b

(* operator<: the order the pools are kept in.                             *)
Less(left, right) == Below(left.amount, right.amount)

(* What std::set takes for equality: neither is less than the other.       *)
Equivalent(s, t) == ~Less(s, t) /\ ~Less(t, s)

(* count(t) > 0: the pool already holds an element equivalent to t.        *)
Holds(pool, t) == \E s \in pool : Equivalent(s, t)

(* Mutant of Insert: a container that keeps equivalent elements apart.     *)
InsertMulti(pool, t) == pool \cup {t}

(* insert(t) keeps the resident element when there is an equivalent one.   *)
Insert(pool, t) == IF Holds(pool, t) THEN pool ELSE pool \cup {t}

(* erase(t) for every t in gone: removes what is equivalent, not only what *)
(* is equal.                                                               *)
EraseAll(pool, gone) == {s \in pool : ~Holds(gone, s)}

(* Mutant of Intersection: by equality, not by the order of the pools.     *)
IntersectionByValue(A, B) == A \cap B

(* set_intersection(A, B): the elements it copies come from A.  B may list *)
(* several equivalent transactions, the result is the same.  A pool with a *)
(* NaN holds nothing else: it matches the first element of A, and then B   *)
(* is exhausted.                                                           *)
Intersection(A, B) ==
    IF \E b \in B : b.amount = NaN
    THEN {a \in A : \A s \in A : ~Less(s, a)}
    ELSE {a \in A : Holds(B, a)}

(* A pool the container can be in: no two elements are equivalent.         *)
IsPool(pool) == \A s, t \in pool : Equivalent(s, t) => s = t
=============================================================================

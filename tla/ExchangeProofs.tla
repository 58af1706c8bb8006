--------------------------- MODULE ExchangeProofs ---------------------------
(***************************************************************************)
(* Proofs about Exchange, for every set of keys and hosts, every amount    *)
(* and every size of the buffers.                                          *)
(***************************************************************************)
EXTENDS Exchange, Facts

User == [key : Keys, address : Keys]

(* Every object's address belongs to its key: then it can sign.            *)
UsersInv ==
    /\ users \in Seq(User)
    /\ \A i \in DOMAIN users : users[i].key = users[i].address

LEMMA CanSign ==
    ASSUME NEW user, user.key = user.address, NEW receiver, NEW n
    PROVE  CheckSignature(CreateTransaction(user, receiver, n))
BY DEF CheckSignature, CreateTransaction

LEMMA AmountsAreInts == Amounts \subseteq Int
<1>1. \A i \in DOMAIN BlockAmounts : BlockAmounts[i] \in Seq(SUBSET Int)
  BY AmountsAssumption
<1>2. \A i \in DOMAIN BlockAmounts : \A k \in DOMAIN BlockAmounts[i] :
          BlockAmounts[i][k] \subseteq Int
  BY <1>1
<1>3. ASSUME NEW n \in Amounts, n \notin PoolAmounts PROVE n \in Int
  <2>1. PICK i \in DOMAIN BlockAmounts : n \in UNION Range(BlockAmounts[i])
    BY <1>3 DEF Amounts, Range
  <2>2. PICK k \in DOMAIN BlockAmounts[i] : n \in BlockAmounts[i][k]
    BY <2>1 DEF Range
  <2> QED BY <1>2, <2>2
<1> QED BY <1>3, AmountsAssumption

LEMMA Created ==
    ASSUME NEW user \in User, NEW receiver \in Keys, NEW n \in Int
    PROVE  IsTransaction(CreateTransaction(user, receiver, n))
<1> DEFINE t == CreateTransaction(user, receiver, n)
<1>1. /\ t.sender = user.address /\ t.receiver = receiver /\ t.amount = n
      /\ t.signature[1].r = user.key
  BY DEF CreateTransaction, CreateSignature
<1>2. user = [key |-> user.key, address |-> user.address]
  BY DEF User
<1> HIDE DEF t
<1>3. t = CreateTransaction([key |-> t.signature[1].r, address |-> t.sender],
                            t.receiver, t.amount)
  BY <1>1, <1>2 DEF t
<1> QED BY <1>1, <1>3 DEF IsTransaction, User, t

(* A new User, a copy and an assignment keep key and address together      *)
(* (User.cpp:15-52).                                                       *)
LEMMA UsersInductive ==
    /\ Init => UsersInv
    /\ UsersInv /\ [Next]_vars => UsersInv'
<1>1. Init => UsersInv
  BY DEF Init, UsersInv
<1>2. ASSUME UsersInv, [Next]_vars PROVE UsersInv'
  <2>1. ASSUME NEW k \in Keys, users' = Append(users, AssignPrivatePublicKey(k))
        PROVE  UsersInv'
    <3>1. AssignPrivatePublicKey(k) \in User
      BY DEF AssignPrivatePublicKey, User
    <3>2. /\ users' \in Seq(User)
          /\ Len(users) \in Nat /\ DOMAIN users = 1..Len(users)
          /\ DOMAIN users' = 1..Len(users) + 1
          /\ \A i \in 1..Len(users) : users'[i] = users[i]
          /\ users'[Len(users) + 1] = AssignPrivatePublicKey(k)
      <4> DEFINE u == AssignPrivatePublicKey(k)
      <4>1. users \in Seq(User) /\ u \in User /\ users' = Append(users, u)
        BY <1>2, <2>1, <3>1 DEF UsersInv
      <4> HIDE DEF u
      <4>2. /\ users' \in Seq(User)
            /\ Len(users') = Len(users) + 1
            /\ \A i \in 1..Len(users) : users'[i] = users[i]
            /\ users'[Len(users) + 1] = u
        BY <4>1, AppendProperties
      <4>3. /\ Len(users) \in Nat /\ DOMAIN users = 1..Len(users)
            /\ DOMAIN users' = 1..Len(users')
        BY <4>1, <4>2, LenProperties
      <4> QED BY <4>2, <4>3 DEF u
    <3>3. ASSUME NEW i \in DOMAIN users' PROVE users'[i].key = users'[i].address
      <4>1. CASE i \in 1..Len(users)
        BY <1>2, <3>2, <4>1 DEF UsersInv
      <4>2. CASE i = Len(users) + 1
        BY <3>2, <4>2 DEF AssignPrivatePublicKey
      <4> QED BY <3>2, <4>1, <4>2
    <3> QED BY <3>2, <3>3 DEF UsersInv
  <2>2. ASSUME NEW i \in DOMAIN users, NEW j \in DOMAIN users, AssignUser(i, j)
        PROVE  UsersInv'
    <3>1. users[j] \in User /\ users' = [users EXCEPT ![i] = users[j]]
      BY <1>2, <2>2 DEF UsersInv, AssignUser
    <3>2. users' \in Seq(User) /\ DOMAIN users' = DOMAIN users
      BY <1>2, <3>1, ExceptSeq, LenProperties DEF UsersInv
    <3> QED BY <1>2, <3>1, <3>2 DEF UsersInv
  <2>3. CASE UNCHANGED users
    BY <1>2, <2>3 DEF UsersInv
  <2> QED BY <1>2, <2>1, <2>2, <2>3
          DEF Next, CreateUser, CopyUser, Copied, Pay, AppendBlock, AddHost,
              Reply, ReadsText, ReadsPacket, vars
<1> QED BY <1>1, <1>2

(* Whoever signs, and however often users were copied and assigned: the    *)
(* signature is accepted under the address it is sent with.                *)
THEOREM UsersCanSign == Spec => []OwnTransactionsVerify
<1>1. UsersInv => OwnTransactionsVerify
  BY CanSign DEF UsersInv, OwnTransactionsVerify
<1> QED BY <1>1, UsersInductive, PTL DEF Spec

(* What is in pool and block has the shape CreateTransaction gives it.     *)
HeldInv ==
    /\ OwnHost \in knownHosts /\ knownHosts \subseteq Hosts \cup {OwnHost}
    /\ \A t \in pending : IsTransaction(t)
    /\ IsPool(pending)
    /\ IsSequence(block) /\ \A i \in DOMAIN block : IsTransaction(block[i])
    /\ process \in {"running", "ended"}

LEMMA PaidIsTransaction ==
    ASSUME UsersInv, NEW i \in DOMAIN users, NEW j \in DOMAIN users,
           NEW n \in Amounts
    PROVE  IsTransaction(CreateTransaction(users[i], users[j].address, n))
<1>1. users \in Seq(User) /\ DOMAIN users = 1..Len(users)
  BY LenProperties DEF UsersInv
<1>2. users[i] \in User /\ users[j] \in User
  BY <1>1, ElementOfSeq
<1>3. users[j].address \in Keys /\ n \in Int
  BY <1>2, AmountsAreInts DEF User
<1> QED BY <1>2, <1>3, Created

LEMMA HeldInductive ==
    /\ Init => HeldInv
    /\ UsersInv /\ HeldInv /\ [Next]_vars => HeldInv'
<1>1. Init => HeldInv
  <2>1. IsSequence(<<>>)
    BY DEF IsSequence
  <2> QED BY <2>1 DEF Init, HeldInv, IsPool
<1>2. ASSUME UsersInv, HeldInv, [Next]_vars PROVE HeldInv'
  <2>1. ASSUME NEW i \in DOMAIN users, NEW j \in DOMAIN users, NEW n \in Amounts,
               Pay(i, j, n)
        PROVE  HeldInv'
    <3> DEFINE t == CreateTransaction(users[i], users[j].address, n)
    <3>1. IsTransaction(t)
      BY <1>2, PaidIsTransaction
    <3>2. /\ knownHosts' = knownHosts
          /\ process' \in {process, "ended"}
          /\ pending' \in {pending, Insert(pending, t)}
          /\ block' \in {block, Append(block, t)}
      BY <2>1 DEF Pay
    <3> HIDE DEF t
    <3>3. (\A u \in pending' : IsTransaction(u)) /\ IsPool(pending')
      <4>1. CASE pending' = Insert(pending, t)
        BY <1>2, <3>1, <4>1
        DEF HeldInv, Insert, Holds, IsPool, Equivalent
      <4> QED BY <1>2, <3>2, <4>1 DEF HeldInv
    <3>4. IsSequence(block') /\ \A k \in DOMAIN block' : IsTransaction(block'[k])
      <4>1. CASE block' = Append(block, t)
        <5>1. /\ IsSequence(block')
              /\ DOMAIN block = 1..Len(block) /\ Len(block) \in Nat
              /\ DOMAIN block' = 1..Len(block) + 1
              /\ \A k \in 1..Len(block) : block'[k] = block[k]
              /\ block'[Len(block) + 1] = t
          BY <1>2, <4>1, AppendToSequence DEF HeldInv
        <5>2. ASSUME NEW k \in 1..Len(block) + 1 PROVE IsTransaction(block'[k])
          <6>1. CASE k \in 1..Len(block)
            BY <1>2, <5>1, <6>1 DEF HeldInv
          <6>2. CASE k = Len(block) + 1
            BY <3>1, <5>1, <6>2
          <6> QED BY <5>1, <6>1, <6>2
        <5> QED BY <5>1, <5>2
      <4> QED BY <1>2, <3>2, <4>1 DEF HeldInv
    <3> QED BY <1>2, <3>2, <3>3, <3>4 DEF HeldInv
  <2>2. CASE AppendBlock
    <3>1. IsSequence(<<>>)
      BY DEF IsSequence
    <3> QED BY <1>2, <2>2, <3>1 DEF AppendBlock, HeldInv
  <2>3. ASSUME NEW h \in Hosts, AddHost(h) PROVE HeldInv'
    BY <1>2, <2>3 DEF AddHost, HeldInv
  <2>4. CASE UNCHANGED held /\ process' \in {process, "running", "ended"}
    BY <1>2, <2>4 DEF held, HeldInv
  <2>5. \/ \E i, j \in DOMAIN users : \E n \in Amounts : Pay(i, j, n)
        \/ AppendBlock
        \/ \E h \in Hosts : AddHost(h)
        \/ UNCHANGED held /\ process' \in {process, "running", "ended"}
    BY <1>2 DEF Next, CreateUser, CopyUser, AssignUser, Reply, ReplyBlocks,
                ReplyTransactions, ReplyHosts, ReadsText, ReadsPacket, vars
  <2> QED BY <2>1, <2>2, <2>3, <2>4, <2>5
<1> QED BY <1>1, <1>2

(* Pool and block hold what users created, and the pool one transaction    *)
(* for each amount.                                                        *)
THEOREM ExchangeTypes == Spec => []TypeOK
<1>1. UsersInv /\ HeldInv => TypeOK
  <2> SUFFICES ASSUME UsersInv, HeldInv PROVE TypeOK
    OBVIOUS
  <2>1. \A t \in Range(block) : IsTransaction(t)
    BY DEF HeldInv, Range
  <2> QED BY <2>1 DEF UsersInv, HeldInv, TypeOK, User
<1> QED BY <1>1, UsersInductive, HeldInductive, PTL DEF Spec

---------------------------------------------------------------------------
(* Texts: sequences of atoms, and how they are put together.               *)

LEMMA EmptyText == IsSequence(<<>>) /\ Len(<<>>) = 0
BY DEF IsSequence

LEMMA OneAtom ==
    ASSUME NEW x
    PROVE  IsSequence(<<x>>) /\ Len(<<x>>) = 1 /\ <<x>>[1] = x /\ <<x>> # <<>>
<1>1. <<x>> \in Seq({x})
  OBVIOUS
<1> QED BY <1>1, OfItsElements

(* Text behind text: a name for \o, whose meaning the provers then leave    *)
(* alone until it is cited.                                                *)
Cat(a, b) == a \o b

(* What two texts make together is a text.                                 *)
LEMMA ConcatText ==
    ASSUME NEW a, IsSequence(a), NEW b, IsSequence(b)
    PROVE  IsSequence(Cat(a, b)) /\ Len(Cat(a, b)) = Len(a) + Len(b)
           /\ Len(a) \in Nat /\ Len(b) \in Nat
BY ConcatSequences, Zenon DEF Cat

Follows(a, b, c) ==
    /\ \A i \in 1..Len(a) : c[i] = a[i]
    /\ \A i \in 1..Len(b) : c[Len(a) + i] = b[i]

(* The atoms of the first and, behind them, those of the second.           *)
LEMMA ConcatAtoms ==
    ASSUME NEW a, IsSequence(a), NEW b, IsSequence(b)
    PROVE  Follows(a, b, Cat(a, b))
<1> DEFINE c == Cat(a, b)
<1>1. IsSequence(a) /\ IsSequence(b) /\ c = a \o b
  BY DEF Cat
<1> HIDE DEF c
<1>2. Follows(a, b, c)
  BY <1>1, ConcatSequences DEF Follows
<1> QED BY <1>2 DEF c

(* It does not matter which two of three are put together first.           *)
LEMMA Regroup ==
    ASSUME NEW a, IsSequence(a), NEW b, IsSequence(b), NEW c, IsSequence(c)
    PROVE  Cat(Cat(a, b), c) = Cat(a, Cat(b, c))
<1> DEFINE S == Range(a) \cup Range(b) \cup Range(c)
<1>1. a \in Seq(S) /\ b \in Seq(S) /\ c \in Seq(S)
  BY SeqMonotonic, Range(a) \subseteq S, Range(b) \subseteq S, Range(c) \subseteq S
     DEF IsSequence
<1> HIDE DEF S
<1>2. (a \o b) \o c = a \o (b \o c)
  BY <1>1, ConcatAssociative
<1> QED BY <1>2, Zenon DEF Cat

LEMMA NothingAdded ==
    ASSUME NEW a, IsSequence(a)
    PROVE  Cat(<<>>, a) = a /\ Cat(a, <<>>) = a
BY ConcatEmptySeq DEF IsSequence, Cat

LEMMA CatOne ==
    ASSUME NEW c, IsSequence(c), NEW e
    PROVE  Cat(c, <<e>>) = Append(c, e)
BY AppendAsConcat DEF Cat

(* Two texts of the same atoms are one text.                               *)
LEMMA SameTexts ==
    ASSUME NEW a, IsSequence(a), NEW b, IsSequence(b), Len(a) = Len(b),
           \A i \in 1..Len(a) : a[i] = b[i]
    PROVE  a = b
BY SeqEqual DEF IsSequence

(* The last atom is taken off. *)
LEMMA LastAtom ==
    ASSUME NEW a, IsSequence(a), NEW n \in Nat, Len(a) = n + 1
    PROVE  \E b, x : IsSequence(b) /\ Len(b) = n /\ a = Append(b, x)
<1> DEFINE S == Range(a)
           b == SubSeq(a, 1, n)
           x == a[n + 1]
<1>1. a \in Seq(S) /\ \A i \in 1..n + 1 : a[i] \in S
  BY ElementOfSeq DEF IsSequence
<1>2. b \in Seq(S) /\ Len(b) = n /\ \A i \in 1..n : b[i] = a[i]
  <2>1. \A i \in 1..n : a[i] \in S
    BY <1>1
  <2> HIDE DEF S
  <2> QED BY <2>1, SubSeqProperties
<1>3. x \in S
  BY <1>1
<1> HIDE DEF S, b
<1>4. Append(b, x) \in Seq(S) /\ Len(Append(b, x)) = n + 1
      /\ (\A i \in 1..n : Append(b, x)[i] = a[i]) /\ Append(b, x)[n + 1] = x
  BY <1>2, <1>3, AppendProperties
<1>5. a = Append(b, x)
  <2>1. ASSUME NEW i \in 1..n + 1 PROVE a[i] = Append(b, x)[i]
    <3>1. CASE i \in 1..n
      BY <1>4, <3>1
    <3>2. CASE i = n + 1
      BY <1>4, <3>2
    <3>3. i \in 1..n \/ i = n + 1
      OBVIOUS
    <3> QED BY <3>1, <3>2, <3>3, Zenon
  <2> HIDE DEF x
  <2> QED BY <1>1, <1>4, <2>1, SeqEqual
<1>6. IsSequence(b)
  BY <1>2, OfItsElements
<1> QED BY <1>2, <1>5, <1>6

---------------------------------------------------------------------------
(* unpack_data, atom by atom. *)
CutRec(t, d) ==
    CHOOSE res : res = [n \in 0..Len(t) |->
          IF n = 0 THEN << <<>> >>
          ELSE LET found == res[n - 1]
               IN  IF t[n] = d THEN Append(found, <<>>)
                   ELSE [found EXCEPT ![Len(found)] = Append(@, t[n])]]

Next1(found, x, d) ==
    IF x = d THEN Append(found, <<>>)
    ELSE [found EXCEPT ![Len(found)] = Append(@, x)]

LEMMA CutDef == ASSUME NEW t, NEW d PROVE unpack_data(t, d) = CutRec(t, d)[Len(t)]
BY DEF unpack_data, CutRec

NonEmpty(U) == {c \in Seq(Seq(U)) : Len(c) # 0}

(* The loop of unpack_data, atom by atom; the pieces are never none.       *)
LEMMA CutRecIs ==
    ASSUME NEW t, IsSequence(t), NEW d
    PROVE  /\ CutRec(t, d)[0] = << <<>> >>
           /\ \A n \in 1..Len(t) : CutRec(t, d)[n] = Next1(CutRec(t, d)[n - 1], t[n], d)
           /\ \A n \in 0..Len(t) : CutRec(t, d)[n] \in NonEmpty(Range(t))
           /\ Len(t) \in Nat
<1> DEFINE U == Range(t)
           S == NonEmpty(U)
           N == Len(t)
           e == << <<>> >>
           step == [n \in 1..N |-> [c \in S |-> Next1(c, t[n], d)]]
<1>1. N \in Nat /\ \A n \in 1..N : t[n] \in U
  BY ElementOfSeq, LenProperties DEF IsSequence
<1> HIDE DEF U
<1>2. e \in S
  BY DEF NonEmpty
<1>3. ASSUME NEW c \in S, NEW x \in U PROVE Next1(c, x, d) \in S
  <2>1. c \in Seq(Seq(U)) /\ Len(c) \in Nat /\ Len(c) # 0 /\ Len(c) \in 1..Len(c)
    BY <1>3, LenProperties DEF NonEmpty
  <2>2. <<>> \in Seq(U) /\ c[Len(c)] \in Seq(U) /\ Append(c[Len(c)], x) \in Seq(U)
    BY <2>1, ElementOfSeq, AppendProperties
  <2>3. Append(c, <<>>) \in Seq(Seq(U)) /\ Len(Append(c, <<>>)) = Len(c) + 1
    BY <2>1, <2>2, AppendProperties
  <2>4. /\ [c EXCEPT ![Len(c)] = Append(c[Len(c)], x)] \in Seq(Seq(U))
        /\ Len([c EXCEPT ![Len(c)] = Append(c[Len(c)], x)]) = Len(c)
    BY <2>1, <2>2, ExceptSeq
  <2> QED BY <2>1, <2>3, <2>4 DEF NonEmpty, Next1
<1> HIDE DEF e, S
<1>4. step \in [1..N -> [S -> S]]
  BY <1>1, <1>3
<1> HIDE DEF step
<1>5. PICK f : Iterates(f, 0..N, S, e, step)
  BY <1>1, <1>2, <1>4, FiniteRecursion
<1>6. f \in [0..N -> S] /\ \A n \in 0..N : f[n] = IF n = 0 THEN e ELSE step[n][f[n - 1]]
  BY <1>5 DEF Iterates
<1>7. ASSUME NEW n \in 1..N PROVE f[n] = Next1(f[n - 1], t[n], d) /\ f[n - 1] \in S
  <2>1. n - 1 \in 0..N /\ n \in 0..N /\ n # 0
    BY <1>1
  <2>2. f[n - 1] \in S /\ f[n] = step[n][f[n - 1]]
    BY <1>6, <2>1
  <2> QED BY <2>2 DEF step
<1>8. f = [n \in 0..N |->
          IF n = 0 THEN << <<>> >>
          ELSE LET found == f[n - 1]
               IN  IF t[n] = d THEN Append(found, <<>>)
                   ELSE [found EXCEPT ![Len(found)] = Append(@, t[n])]]
  <2>1. ASSUME NEW n \in 0..N
        PROVE f[n] = IF n = 0 THEN << <<>> >>
          ELSE LET found == f[n - 1]
               IN  IF t[n] = d THEN Append(found, <<>>)
                   ELSE [found EXCEPT ![Len(found)] = Append(@, t[n])]
    <3>1. CASE n = 0
      BY <1>6, <1>1, <3>1 DEF e
    <3>2. CASE n # 0
      <4>1. n \in 1..N
        BY <1>1, <3>2
      <4> QED BY <1>7, <4>1, <3>2 DEF Next1
    <3> QED BY <3>1, <3>2
  <2> QED BY <1>6, <2>1
<1>9. CutRec(t, d) = [n \in 0..N |->
          IF n = 0 THEN << <<>> >>
          ELSE LET found == CutRec(t, d)[n - 1]
               IN  IF t[n] = d THEN Append(found, <<>>)
                   ELSE [found EXCEPT ![Len(found)] = Append(@, t[n])]]
  BY <1>8 DEF CutRec
<1> DEFINE g == CutRec(t, d)
<1> HIDE DEF g
<1>10. g = [n \in 0..N |->
          IF n = 0 THEN << <<>> >>
          ELSE LET found == g[n - 1]
               IN  IF t[n] = d THEN Append(found, <<>>)
                   ELSE [found EXCEPT ![Len(found)] = Append(@, t[n])]]
  BY <1>9 DEF g
<1>11. g[0] = << <<>> >> /\ \A n \in 1..N : g[n] = Next1(g[n - 1], t[n], d)
  <2>1. 0 \in 0..N /\ \A n \in 1..N : n \in 0..N /\ n # 0
    BY <1>1
  <2>2. \A n \in 0..N : g[n] = IF n = 0 THEN << <<>> >>
          ELSE LET found == g[n - 1]
               IN  IF t[n] = d THEN Append(found, <<>>)
                   ELSE [found EXCEPT ![Len(found)] = Append(@, t[n])]
    BY <1>10
  <2> QED BY <2>1, <2>2 DEF Next1
<1>12. 0..N \subseteq {n \in 0..N : g[n] \in S}
  <2> DEFINE T == {n \in 0..N : g[n] \in S}
  <2>1. 0 \in T
    BY <1>1, <1>2, <1>11 DEF e
  <2>2. ASSUME NEW n \in 0..N - 1, n \in T PROVE n + 1 \in T
    <3>1. n + 1 \in 1..N /\ (n + 1) - 1 = n /\ n + 1 \in 0..N
      BY <1>1
    <3>2. g[n + 1] = Next1(g[n], t[n + 1], d)
      BY <1>11, <3>1
    <3> QED BY <1>1, <1>3, <2>2, <3>1, <3>2
  <2> HIDE DEF T
  <2>3. 0..N \subseteq T
    BY <1>1, <2>1, <2>2, InductionUpTo
  <2> QED BY <2>3 DEF T
<1> QED BY <1>1, <1>11, <1>12 DEF g, S, U

---------------------------------------------------------------------------
(* Cutting at a delimiter.                                                 *)

LEMMA CutOne == ASSUME NEW d PROVE unpack_data(<<>>, d) = << <<>> >>
<1>1. IsSequence(<<>>) /\ Len(<<>>) = 0
  BY EmptyText
<1> QED BY <1>1, CutRecIs, CutDef

(* One more atom either opens a piece or goes to the last one.             *)
LEMMA CutAppend ==
    ASSUME NEW t, IsSequence(t), NEW x, NEW d
    PROVE  unpack_data(Append(t, x), d) = Next1(unpack_data(t, d), x, d)
<1> DEFINE u == Append(t, x)
           f == CutRec(t, d)
           g == CutRec(u, d)
           N == Len(t)
<1>1. /\ IsSequence(u) /\ N \in Nat /\ Len(u) = N + 1
      /\ \A i \in 1..N : u[i] = t[i]
      /\ u[N + 1] = x
  BY AppendToSequence
<1> HIDE DEF u
<1>2. f[0] = << <<>> >> /\ \A n \in 1..N : f[n] = Next1(f[n - 1], t[n], d)
  BY CutRecIs
<1>3. g[0] = << <<>> >> /\ \A n \in 1..N + 1 : g[n] = Next1(g[n - 1], u[n], d)
  BY <1>1, CutRecIs
<1> HIDE DEF f, g
<1>4. f[N] = g[N]
  <2> DEFINE T == {n \in 0..N : f[n] = g[n]}
  <2>1. 0 \in T
    <3>1. 0 \in 0..N
      BY <1>1
    <3>2. f[0] = g[0]
      BY <1>2, <1>3, Zenon
    <3> QED BY <3>1, <3>2
  <2>2. ASSUME NEW n \in 0..N - 1, n \in T PROVE n + 1 \in T
    <3>1. n + 1 \in 1..N /\ (n + 1) - 1 = n /\ n + 1 \in 0..N /\ n + 1 \in 1..N + 1
      BY <1>1
    <3>2. f[n + 1] = Next1(f[n], t[n + 1], d) /\ g[n + 1] = Next1(g[n], t[n + 1], d)
      BY <1>1, <1>2, <1>3, <3>1
    <3> QED BY <2>2, <3>1, <3>2
  <2> HIDE DEF T
  <2>3. 0..N \subseteq T
    <3> HIDE DEF N
    <3> QED BY <1>1, <2>1, <2>2, InductionUpTo
  <2>4. N \in 0..N
    BY <1>1
  <2> QED BY <2>3, <2>4 DEF T
<1>5. g[N + 1] = Next1(g[N], x, d)
  <2>1. N + 1 \in 1..N + 1 /\ (N + 1) - 1 = N
    BY <1>1
  <2> QED BY <1>1, <1>3, <2>1
<1>6. unpack_data(u, d) = g[N + 1] /\ unpack_data(t, d) = f[N]
  BY <1>1, CutDef DEF f, g
<1> QED BY <1>4, <1>5, <1>6 DEF u

(* A sequence of texts that is not empty. *)
Cuts(c) == IsSequence(c) /\ Len(c) # 0 /\ \A i \in 1..Len(c) : IsSequence(c[i])

(* There is always a piece, and every piece is a text.                     *)
LEMMA CutShape ==
    ASSUME NEW t, IsSequence(t), NEW d
    PROVE  Cuts(unpack_data(t, d))
<1> DEFINE c == unpack_data(t, d)
           U == Range(t)
<1>1. c \in NonEmpty(U)
  <2>1. Len(t) \in 0..Len(t)
    BY CutRecIs
  <2> QED BY <2>1, CutRecIs, CutDef
<1> HIDE DEF c, U
<1>2. c \in Seq(Seq(U)) /\ Len(c) # 0
  BY <1>1 DEF NonEmpty
<1>3. IsSequence(c)
  BY <1>2, OfItsElements
<1>4. \A i \in 1..Len(c) : IsSequence(c[i])
  BY <1>2, ElementOfSeq, OfItsElements
<1> QED BY <1>2, <1>3, <1>4 DEF Cuts, c

LEMMA Next1Shape ==
    ASSUME NEW c, Cuts(c), NEW x, NEW d
    PROVE  /\ Len(c) \in Nat /\ Len(c) # 0
           /\ x = d => /\ Len(Next1(c, x, d)) = Len(c) + 1
                       /\ \A i \in 1..Len(c) : Next1(c, x, d)[i] = c[i]
                       /\ Next1(c, x, d)[Len(c) + 1] = <<>>
           /\ x # d => /\ Len(Next1(c, x, d)) = Len(c)
                       /\ \A i \in 1..Len(c) - 1 : Next1(c, x, d)[i] = c[i]
                       /\ Next1(c, x, d)[Len(c)] = Append(c[Len(c)], x)
           /\ IsSequence(Next1(c, x, d))
<1>1. IsSequence(c) /\ Len(c) # 0
  BY DEF Cuts
<1>2. Len(c) \in Nat /\ Len(c) \in 1..Len(c)
  BY <1>1, LenProperties DEF IsSequence
<1>3. CASE x = d
  <2>1. Next1(c, x, d) = Append(c, <<>>)
    BY <1>3 DEF Next1
  <2> QED BY <1>1, <1>2, <1>3, <2>1, AppendToSequence
<1>4. CASE x # d
  <2> DEFINE e == Append(c[Len(c)], x)
             b == [c EXCEPT ![Len(c)] = e]
  <2>1. Next1(c, x, d) = b
    BY <1>4 DEF Next1
  <2>2. IsSequence(b) /\ Len(b) = Len(c) /\ b[Len(c)] = e
        /\ \A j \in 1..Len(c) : j # Len(c) => b[j] = c[j]
    <3> HIDE DEF e
    <3> QED BY <1>1, <1>2, ExceptSequence
  <2>3. \A i \in 1..Len(c) - 1 : i \in 1..Len(c) /\ i # Len(c)
    BY <1>2
  <2> HIDE DEF b
  <2>4. \A i \in 1..Len(c) - 1 : b[i] = c[i]
    BY <2>2, <2>3
  <2> QED BY <1>1, <1>2, <1>4, <2>1, <2>2, <2>4 DEF e
<1> QED BY <1>3, <1>4

(* Only the last piece changes, whatever pieces come before it.            *)
LEMMA Next1Behind ==
    ASSUME NEW a, Cuts(a), NEW c, Cuts(c), NEW x, NEW d
    PROVE  Next1(Cat(a, c), x, d) = Cat(a, Next1(c, x, d))
<1> DEFINE m == Len(a)
           n == Len(c)
           ac == Cat(a, c)
           p == Next1(ac, x, d)
           q == Next1(c, x, d)
           r == Cat(a, q)
<1>1. IsSequence(a) /\ IsSequence(c) /\ m # 0 /\ n # 0
  BY DEF Cuts
<1>2. /\ IsSequence(ac) /\ Len(ac) = m + n /\ m \in Nat /\ n \in Nat
      /\ \A i \in 1..m : ac[i] = a[i]
      /\ \A i \in 1..n : ac[m + i] = c[i]
  <2>1. IsSequence(ac) /\ Len(ac) = m + n /\ m \in Nat /\ n \in Nat
    BY <1>1, ConcatText
  <2>0. Follows(a, c, ac)
    BY <1>1, ConcatAtoms
  <2> HIDE DEF ac
  <2>2. /\ \A i \in 1..m : ac[i] = a[i]
        /\ \A i \in 1..n : ac[m + i] = c[i]
    BY <2>0 DEF Follows
  <2> HIDE DEF ac, m, n
  <2> QED BY <2>1, <2>2
<1> HIDE DEF ac
<1>3. Cuts(ac)
  <2>1. ASSUME NEW i \in 1..m + n PROVE IsSequence(ac[i])
    <3>1. CASE i \in 1..m
      BY <1>2, <3>1 DEF Cuts
    <3>2. CASE i \notin 1..m
      <4>1. i - m \in 1..n /\ m + (i - m) = i
        BY <1>2, <3>2
      <4>2. ac[i] = c[i - m]
        BY <1>2, <4>1
      <4> QED BY <4>1, <4>2 DEF Cuts
    <3> QED BY <3>1, <3>2
  <2> QED BY <1>1, <1>2, <2>1 DEF Cuts
<1>4. /\ x = d => /\ Len(p) = m + n + 1
                  /\ \A i \in 1..m + n : p[i] = ac[i]
                  /\ p[m + n + 1] = <<>>
      /\ x # d => /\ Len(p) = m + n
                  /\ \A i \in 1..m + n - 1 : p[i] = ac[i]
                  /\ p[m + n] = Append(ac[m + n], x)
      /\ IsSequence(p)
  BY <1>2, <1>3, Next1Shape
<1>5. /\ x = d => /\ Len(q) = n + 1
                  /\ \A i \in 1..n : q[i] = c[i]
                  /\ q[n + 1] = <<>>
      /\ x # d => /\ Len(q) = n
                  /\ \A i \in 1..n - 1 : q[i] = c[i]
                  /\ q[n] = Append(c[n], x)
      /\ IsSequence(q)
  BY Next1Shape
<1> HIDE DEF p, q
<1>6. /\ IsSequence(r) /\ Len(r) = m + Len(q) /\ Len(q) \in Nat
      /\ \A i \in 1..m : r[i] = a[i]
      /\ \A i \in 1..Len(q) : r[m + i] = q[i]
  <2>1. IsSequence(r) /\ Len(r) = m + Len(q) /\ Len(q) \in Nat
    BY <1>1, <1>5, ConcatText
  <2>0. Follows(a, q, r)
    BY <1>1, <1>5, ConcatAtoms
  <2> HIDE DEF r
  <2>2. /\ \A i \in 1..m : r[i] = a[i]
        /\ \A i \in 1..Len(q) : r[m + i] = q[i]
    BY <2>0 DEF Follows
  <2> HIDE DEF r, m
  <2> QED BY <2>1, <2>2
<1> HIDE DEF r, m, n
<1>7. Len(p) = Len(r)
  BY <1>2, <1>4, <1>5, <1>6
<1>8. ASSUME NEW i \in 1..Len(p) PROVE p[i] = r[i]
  <2>1. CASE i \in 1..m
    <3>1. r[i] = a[i] /\ ac[i] = a[i]
      BY <1>2, <1>6, <2>1
    <3>2. i \in 1..m + n /\ i \in 1..m + n - 1
      BY <1>1, <1>2, <2>1
    <3>3. p[i] = ac[i]
      BY <1>4, <3>2
    <3> QED BY <3>1, <3>3
  <2>2. CASE i \notin 1..m
    <3> DEFINE j == i - m
    <3>1. j \in 1..Len(q) /\ m + j = i
      BY <1>2, <1>6, <1>7, <2>2
    <3>2. r[i] = q[j]
      BY <1>6, <3>1
    <3>3. CASE x = d /\ j = n + 1
      BY <1>4, <1>5, <3>1, <3>2, <3>3, <1>2
    <3>4. CASE x # d /\ j = n
      <4>1. p[i] = Append(ac[m + n], x) /\ q[j] = Append(c[n], x)
        BY <1>4, <1>5, <3>1, <3>4, <1>2
      <4>2. ac[m + n] = c[n]
        BY <1>1, <1>2
      <4> QED BY <3>2, <4>1, <4>2
    <3>5. CASE ~(x = d /\ j = n + 1) /\ ~(x # d /\ j = n)
      <4>1. j \in 1..n /\ (x # d => j \in 1..n - 1)
        BY <1>2, <1>5, <3>1, <3>5
      <4>2. i \in 1..m + n /\ (x # d => i \in 1..m + n - 1)
        BY <1>2, <3>1, <4>1
      <4>3. p[i] = ac[i] /\ q[j] = c[j]
        <5>1. CASE x = d
          BY <1>4, <1>5, <4>1, <4>2, <5>1
        <5>2. CASE x # d
          BY <1>4, <1>5, <4>1, <4>2, <5>2
        <5> QED BY <5>1, <5>2
      <4>4. ac[m + j] = c[j]
        BY <1>2, <4>1
      <4> QED BY <3>1, <3>2, <4>3, <4>4
    <3> QED BY <3>3, <3>4, <3>5
  <2> QED BY <2>1, <2>2
<1>9. p = r
  BY <1>4, <1>6, <1>7, <1>8, SameTexts
<1> QED BY <1>9 DEF p, q, r, ac

(* Text is cut at every delimiter: on either side for itself. *)
LEMMA CutSplit ==
    ASSUME NEW a, IsSequence(a), NEW b, IsSequence(b), NEW d
    PROVE  unpack_data(Cat(a, Cat(<<d>>, b)), d) = Cat(unpack_data(a, d), unpack_data(b, d))
<1> DEFINE S == Range(b)
           Good(v) == unpack_data(Cat(a, Cat(<<d>>, v)), d)
             = Cat(unpack_data(a, d), unpack_data(v, d))
           T == {n \in Nat : \A v \in Seq(S) : Len(v) = n => Good(v)}
<1>1. 0 \in T
  <2>1. ASSUME NEW v \in Seq(S), Len(v) = 0 PROVE Good(v)
    <3>1. v = <<>>
      BY <2>1, SeqOfLengthZero
    <3>2. Cat(a, Cat(<<d>>, v)) = Append(a, d)
      BY <3>1, OneAtom, NothingAdded, CatOne
    <3>3. unpack_data(v, d) = << <<>> >>
      BY <3>1, CutOne
    <3>4. unpack_data(Append(a, d), d) = Append(unpack_data(a, d), <<>>)
      BY CutAppend DEF Next1
    <3>5. IsSequence(unpack_data(a, d))
      BY CutShape DEF Cuts
    <3>6. Cat(unpack_data(a, d), << <<>> >>) = Append(unpack_data(a, d), <<>>)
      BY <3>5, CatOne
    <3> QED BY <3>2, <3>3, <3>4, <3>6
  <2> QED BY <2>1
<1>2. ASSUME NEW n \in Nat, n \in T PROVE n + 1 \in T
  <2>1. ASSUME NEW v \in Seq(S), Len(v) = n + 1 PROVE Good(v)
    <3>1. PICK w, x : IsSequence(w) /\ Len(w) = n /\ v = Append(w, x)
      BY <2>1, LastAtom, OfItsElements
    <3>2. w \in Seq(S)
      <4>1. Range(w) \subseteq S
        <5>1. DOMAIN w = 1..n /\ DOMAIN v = 1..n + 1 /\ \A i \in 1..n : v[i] = w[i]
          BY <3>1, AppendToSequence
        <5>2. \A i \in 1..n + 1 : v[i] \in S
          BY <2>1, <5>1, ElementOfSeq
        <5> HIDE DEF S
        <5> QED BY <5>1, <5>2 DEF Range
      <4> HIDE DEF S
      <4> QED BY <3>1, <4>1, SeqMonotonic DEF IsSequence
    <3>3. unpack_data(Cat(a, Cat(<<d>>, w)), d) = Cat(unpack_data(a, d), unpack_data(w, d))
      BY <1>2, <3>1, <3>2
    <3> DEFINE aw == Cat(a, Cat(<<d>>, w))
    <3>4. IsSequence(aw) /\ IsSequence(Cat(<<d>>, w))
      BY <3>1, OneAtom, ConcatText
    <3>5. Cat(a, Cat(<<d>>, v)) = Append(aw, x)
      <4>1. v = Cat(w, <<x>>)
        BY <3>1, CatOne
      <4>2. Cat(<<d>>, v) = Cat(Cat(<<d>>, w), <<x>>)
        BY <3>1, <4>1, OneAtom, Regroup
      <4>3. Cat(a, Cat(<<d>>, v)) = Cat(aw, <<x>>)
        <5> DEFINE dw == Cat(<<d>>, w)
        <5>1. IsSequence(dw) /\ IsSequence(<<x>>) /\ Cat(<<d>>, v) = Cat(dw, <<x>>)
          BY <3>4, <4>2, OneAtom
        <5> HIDE DEF dw
        <5>2. Cat(a, Cat(dw, <<x>>)) = Cat(Cat(a, dw), <<x>>)
          BY <5>1, Regroup
        <5> QED BY <5>1, <5>2 DEF dw
      <4> QED BY <3>4, <4>3, CatOne
    <3>6. unpack_data(Append(aw, x), d) = Next1(unpack_data(aw, d), x, d)
      BY <3>4, CutAppend
    <3>7. unpack_data(v, d) = Next1(unpack_data(w, d), x, d)
      BY <3>1, CutAppend
    <3>8. Cuts(unpack_data(a, d)) /\ Cuts(unpack_data(w, d))
      BY <3>1, CutShape
    <3>9. Next1(Cat(unpack_data(a, d), unpack_data(w, d)), x, d)
          = Cat(unpack_data(a, d), Next1(unpack_data(w, d), x, d))
      BY <3>8, Next1Behind
    <3> HIDE DEF aw
    <3> QED BY <3>3, <3>5, <3>6, <3>7, <3>9 DEF aw
  <2> HIDE DEF Good
  <2> QED BY <2>1
<1> HIDE DEF T
<1>3. Nat \subseteq T
  BY <1>1, <1>2, Induction
<1>4. b \in Seq(S) /\ Len(b) \in Nat
  BY LenProperties DEF IsSequence
<1>5. Good(b)
  <2> HIDE DEF Good, S
  <2> QED BY <1>3, <1>4 DEF T
<1> QED BY <1>5

Plain(t, d) == \A i \in 1..Len(t) : t[i] # d

(* Without the delimiter a text is its only piece.                         *)
LEMMA CutPlain ==
    ASSUME NEW a, IsSequence(a), NEW d, Plain(a, d)
    PROVE  unpack_data(a, d) = <<a>>
<1> DEFINE S == Range(a)
           Good(v) == Plain(v, d) => unpack_data(v, d) = <<v>>
           T == {n \in Nat : \A v \in Seq(S) : Len(v) = n => Good(v)}
<1>1. 0 \in T
  <2>1. ASSUME NEW v \in Seq(S), Len(v) = 0 PROVE Good(v)
    <3>1. v = <<>>
      BY <2>1, SeqOfLengthZero
    <3> QED BY <3>1, CutOne
  <2> QED BY <2>1
<1>2. ASSUME NEW n \in Nat, n \in T PROVE n + 1 \in T
  <2>1. ASSUME NEW v \in Seq(S), Len(v) = n + 1, Plain(v, d)
        PROVE  unpack_data(v, d) = <<v>>
    <3>1. PICK w, x : IsSequence(w) /\ Len(w) = n /\ v = Append(w, x)
      BY <2>1, LastAtom, OfItsElements
    <3>0. DOMAIN w = 1..n /\ DOMAIN v = 1..n + 1 /\ (\A i \in 1..n : v[i] = w[i]) /\ v[n + 1] = x
      BY <3>1, AppendToSequence
    <3>2. w \in Seq(S)
      <4>1. Range(w) \subseteq S
        <5>2. \A i \in 1..n + 1 : v[i] \in S
          BY <2>1, <3>0, ElementOfSeq
        <5> HIDE DEF S
        <5> QED BY <3>0, <5>2 DEF Range
      <4> HIDE DEF S
      <4> QED BY <3>1, <4>1, SeqMonotonic DEF IsSequence
    <3>3. Plain(w, d) /\ x # d
      BY <2>1, <3>0, <3>1 DEF Plain
    <3>4. unpack_data(w, d) = <<w>>
      BY <1>2, <3>1, <3>2, <3>3
    <3>5. unpack_data(v, d) = Next1(<<w>>, x, d)
      BY <3>1, <3>4, CutAppend
    <3>6. Next1(<<w>>, x, d) = <<Append(w, x)>>
      BY <3>3 DEF Next1
    <3> QED BY <3>1, <3>5, <3>6
  <2>2. \A v \in Seq(S) : Len(v) = n + 1 => Good(v)
    <3> HIDE DEF S
    <3> QED BY <2>1
  <2> HIDE DEF Good
  <2> QED BY <2>2
<1> HIDE DEF T
<1>3. Nat \subseteq T
  BY <1>1, <1>2, Induction
<1>4. a \in Seq(S) /\ Len(a) \in Nat
  BY LenProperties DEF IsSequence
<1>5. Good(a)
  <2> HIDE DEF Good, S
  <2> QED BY <1>3, <1>4 DEF T
<1> QED BY <1>5

---------------------------------------------------------------------------
(* The first line of a text, up to a '-', and its fields between the '|'.  *)

(* A text has no delimiter, or a first one. *)
LEMMA FirstCut ==
    ASSUME NEW t, IsSequence(t), NEW d, ~Plain(t, d)
    PROVE  \E p, q : /\ IsSequence(p) /\ IsSequence(q) /\ Plain(p, d)
                     /\ t = Cat(p, Cat(<<d>>, q))
<1> DEFINE S == Range(t)
           N == Len(t)
           K == {i \in Nat : i \in 1..N /\ t[i] = d}
<1>1. t \in Seq(S) /\ N \in Nat /\ \A i \in 1..N : t[i] \in S
  BY ElementOfSeq, LenProperties DEF IsSequence
<1>2. PICK k \in K : \A i \in K : k <= i
  <2>1. K \in SUBSET Nat /\ K # {}
    BY <1>1 DEF Plain
  <2> HIDE DEF K
  <2> QED BY <2>1, LeastNumber
<1>3. k \in 1..N /\ t[k] = d /\ \A i \in 1..k - 1 : t[i] # d
  BY <1>1, <1>2
<1> DEFINE p == SubSeq(t, 1, k - 1)
           q == SubSeq(t, k + 1, N)
<1>4. /\ IsSequence(p) /\ Len(p) = k - 1 /\ \A i \in 1..k - 1 : p[i] = t[i]
      /\ IsSequence(q) /\ Len(q) = N - k /\ \A i \in 1..N - k : q[i] = t[k + i]
  <2>1. (\A i \in 1..k - 1 : t[i] \in S) /\ k - 1 \in Int /\ (1 <= k - 1 \/ k - 1 = 0)
    BY <1>1, <1>3
  <2>2. p \in Seq(S) /\ Len(p) = k - 1 /\ \A i \in 1..k - 1 : p[i] = t[i]
    <3> HIDE DEF S
    <3> QED BY <2>1, SubSeqProperties
  <2>3. k \in 0..N
    BY <1>1, <1>3
  <2>4. IsSequence(q) /\ Len(q) = N - k /\ \A i \in 1..Len(q) : q[i] = t[k + i]
    BY <2>3, SuffixOfSequence
  <2> QED BY <2>2, <2>4, OfItsElements
<1> HIDE DEF p, q
<1> DEFINE dq == Cat(<<d>>, q)
           u == Cat(p, dq)
<1>5. IsSequence(dq) /\ Len(dq) = 1 + (N - k) /\ dq[1] = d
      /\ \A i \in 1..N - k : dq[1 + i] = q[i]
  <2>1. IsSequence(<<d>>) /\ Len(<<d>>) = 1 /\ <<d>>[1] = d
    BY OneAtom
  <2>2. IsSequence(dq) /\ Len(dq) = 1 + Len(q)
    BY <1>4, <2>1, ConcatText
  <2>3. Follows(<<d>>, q, dq)
    BY <1>4, <2>1, ConcatAtoms
  <2> HIDE DEF dq
  <2>4. /\ \A i \in 1..Len(<<d>>) : dq[i] = <<d>>[i]
        /\ \A i \in 1..Len(q) : dq[Len(<<d>>) + i] = q[i]
    BY <2>3 DEF Follows
  <2> QED BY <1>4, <2>1, <2>2, <2>4
<1> HIDE DEF dq
<1>6. IsSequence(u) /\ Len(u) = (k - 1) + (1 + (N - k))
      /\ (\A i \in 1..k - 1 : u[i] = p[i])
      /\ \A i \in 1..1 + (N - k) : u[(k - 1) + i] = dq[i]
  <2>1. IsSequence(u) /\ Len(u) = Len(p) + Len(dq)
    BY <1>4, <1>5, ConcatText
  <2>0. Follows(p, dq, u)
    BY <1>4, <1>5, ConcatAtoms
  <2> HIDE DEF u
  <2>2. (\A i \in 1..Len(p) : u[i] = p[i])
        /\ \A i \in 1..Len(dq) : u[Len(p) + i] = dq[i]
    BY <2>0 DEF Follows
  <2> HIDE DEF u
  <2> QED BY <1>4, <1>5, <2>1, <2>2
<1> HIDE DEF u, S
<1>7. Len(u) = N
  BY <1>1, <1>3, <1>6
<1>8. ASSUME NEW i \in 1..N PROVE u[i] = t[i]
  <2>1. CASE i < k
    BY <1>4, <1>6, <1>3, <2>1
  <2>2. CASE i = k
    <3>1. 1 \in 1..1 + (N - k) /\ (k - 1) + 1 = k
      BY <1>1, <1>3
    <3> QED BY <1>3, <1>5, <1>6, <2>2, <3>1
  <2>3. CASE i > k
    <3>1. i - k \in 1..N - k /\ 1 + (i - k) \in 1..1 + (N - k)
          /\ (k - 1) + (1 + (i - k)) = i /\ k + (i - k) = i
      BY <1>1, <1>3, <2>3
    <3>2. u[(k - 1) + (1 + (i - k))] = dq[1 + (i - k)] /\ dq[1 + (i - k)] = q[i - k]
          /\ q[i - k] = t[k + (i - k)]
      BY <1>4, <1>5, <1>6, <3>1
    <3> QED BY <3>1, <3>2
  <2> QED BY <1>1, <1>3, <2>1, <2>2, <2>3
<1>9. t = u
  BY <1>6, <1>7, <1>8, SameTexts
<1>10. Plain(p, d)
  BY <1>3, <1>4 DEF Plain
<1> QED BY <1>4, <1>9, <1>10 DEF u, dq

(* A delimiter is in one part or in the other.                             *)
LEMMA PlainConcat ==
    ASSUME NEW a, IsSequence(a), NEW b, IsSequence(b), NEW d
    PROVE  Plain(Cat(a, b), d) <=> Plain(a, d) /\ Plain(b, d)
<1> DEFINE c == Cat(a, b)
<1>1. /\ Len(c) = Len(a) + Len(b) /\ Len(a) \in Nat /\ Len(b) \in Nat
      /\ \A i \in 1..Len(a) : c[i] = a[i]
      /\ \A i \in 1..Len(b) : c[Len(a) + i] = b[i]
  <2>1. Len(c) = Len(a) + Len(b) /\ Len(a) \in Nat /\ Len(b) \in Nat
    BY ConcatText
  <2>0. Follows(a, b, c)
    BY ConcatAtoms
  <2> HIDE DEF c
  <2>2. /\ \A i \in 1..Len(a) : c[i] = a[i]
        /\ \A i \in 1..Len(b) : c[Len(a) + i] = b[i]
    BY <2>0 DEF Follows
  <2> HIDE DEF c
  <2> QED BY <2>1, <2>2
<1> HIDE DEF c
<1>2. ASSUME Plain(a, d), Plain(b, d), NEW i \in 1..Len(c) PROVE c[i] # d
  <2>1. CASE i <= Len(a)
    BY <1>1, <1>2, <2>1 DEF Plain
  <2>2. CASE i > Len(a)
    <3>1. i - Len(a) \in 1..Len(b) /\ Len(a) + (i - Len(a)) = i
      BY <1>1, <2>2
    <3> QED BY <1>1, <1>2, <3>1 DEF Plain
  <2> QED BY <1>1, <2>1, <2>2
<1>3. ASSUME Plain(c, d) PROVE Plain(a, d) /\ Plain(b, d)
  <2>1. \A i \in 1..Len(a) : i \in 1..Len(c)
    BY <1>1
  <2>2. \A i \in 1..Len(b) : Len(a) + i \in 1..Len(c)
    BY <1>1
  <2> QED BY <1>1, <1>3, <2>1, <2>2 DEF Plain
<1> QED BY <1>2, <1>3 DEF Plain, c

LEMMA PlainAtom == ASSUME NEW x, NEW d, x # d PROVE Plain(<<x>>, d)
BY OneAtom DEF Plain

LEMMA FirstOfConcat ==
    ASSUME NEW x, NEW c, IsSequence(c)
    PROVE  /\ (Cat(<<x>>, c))[1] = x
           /\ Len(Cat(<<x>>, c)) = 1 + Len(c)
           /\ \A i \in 1..Len(c) : (Cat(<<x>>, c))[1 + i] = c[i]
           /\ IsSequence(Cat(<<x>>, c))
           /\ Len(c) \in Nat
<1> DEFINE o == <<x>>
           u == Cat(o, c)
<1>1. IsSequence(o) /\ Len(o) = 1 /\ o[1] = x
  BY OneAtom
<1> HIDE DEF o
<1>2. IsSequence(u) /\ Len(u) = Len(o) + Len(c) /\ Len(c) \in Nat
  BY <1>1, ConcatText
<1>5. Follows(o, c, u)
  BY <1>1, ConcatAtoms
<1> HIDE DEF u
<1>3. /\ \A i \in 1..Len(o) : u[i] = o[i]
      /\ \A i \in 1..Len(c) : u[Len(o) + i] = c[i]
  BY <1>5 DEF Follows
<1>4. 1 \in 1..Len(o)
  BY <1>1
<1> QED BY <1>1, <1>2, <1>3, <1>4 DEF u, o

(* The first piece ends at the first delimiter.                            *)
LEMMA CutFirst ==
    ASSUME NEW x, IsSequence(x), NEW d, Plain(x, d), NEW y, IsSequence(y)
    PROVE  unpack_data(Cat(x, Cat(<<d>>, y)), d) = Cat(<<x>>, unpack_data(y, d))
<1>1. unpack_data(Cat(x, Cat(<<d>>, y)), d) = Cat(unpack_data(x, d), unpack_data(y, d))
  BY CutSplit
<1>2. unpack_data(x, d) = <<x>>
  BY CutPlain, Zenon
<1> QED BY <1>1, <1>2, Zenon

---------------------------------------------------------------------------
Line(t) == unpack_data(t, Dash)[1]
Fields(t) == unpack_data(Line(t), Bar)

(* The first line ends at the first '-',                                   *)
LEMMA LineDash ==
    ASSUME NEW x, IsSequence(x), Plain(x, Dash), NEW y, IsSequence(y)
    PROVE  Line(Cat(x, Cat(<<Dash>>, y))) = x
<1>1. unpack_data(Cat(x, Cat(<<Dash>>, y)), Dash) = Cat(<<x>>, unpack_data(y, Dash))
  BY CutFirst, Zenon
<1>2. IsSequence(unpack_data(y, Dash))
  BY CutShape DEF Cuts
<1>3. (Cat(<<x>>, unpack_data(y, Dash)))[1] = x
  BY <1>2, FirstOfConcat
<1> QED BY <1>1, <1>3 DEF Line

(* and is everything where there is none.                                  *)
LEMMA LineAll ==
    ASSUME NEW x, IsSequence(x), Plain(x, Dash)
    PROVE  Line(x) = x
BY CutPlain DEF Line

(* What has no '-' stays in front of the line.                             *)
LEMMA LineBehind ==
    ASSUME NEW x, IsSequence(x), Plain(x, Dash), NEW y, IsSequence(y)
    PROVE  Line(Cat(x, y)) = Cat(x, Line(y))
<1>1. CASE Plain(y, Dash)
  BY <1>1, ConcatText, PlainConcat, LineAll
<1>2. CASE ~Plain(y, Dash)
  <2>1. PICK p, q : /\ IsSequence(p) /\ IsSequence(q) /\ Plain(p, Dash)
                    /\ y = Cat(p, Cat(<<Dash>>, q))
    BY <1>2, FirstCut
  <2>2. Line(y) = p
    BY <2>1, LineDash
  <2> DEFINE dq == Cat(<<Dash>>, q)
  <2>3. IsSequence(dq)
    BY <2>1, OneAtom, ConcatText
  <2>4. Cat(x, Cat(p, dq)) = Cat(Cat(x, p), dq)
    <3>1. IsSequence(x) /\ IsSequence(p) /\ IsSequence(dq)
      BY <2>1, <2>3
    <3> HIDE DEF dq
    <3> QED BY <3>1, Regroup
  <2>5. IsSequence(Cat(x, p)) /\ Plain(Cat(x, p), Dash)
    BY <2>1, ConcatText, PlainConcat
  <2>6. Line(Cat(Cat(x, p), dq)) = Cat(x, p)
    BY <2>1, <2>5, LineDash
  <2> HIDE DEF dq
  <2> QED BY <2>1, <2>2, <2>4, <2>6 DEF dq
<1> QED BY <1>1, <1>2

LEMMA LineIsText ==
    ASSUME NEW t, IsSequence(t)
    PROVE  IsSequence(Line(t)) /\ Plain(Line(t), Dash)
<1>1. CASE Plain(t, Dash)
  BY <1>1, LineAll
<1>2. CASE ~Plain(t, Dash)
  <2>1. PICK p, q : /\ IsSequence(p) /\ IsSequence(q) /\ Plain(p, Dash)
                    /\ t = Cat(p, Cat(<<Dash>>, q))
    BY <1>2, FirstCut
  <2> QED BY <2>1, LineDash
<1> QED BY <1>1, <1>2

LEMMA FieldsShape ==
    ASSUME NEW t, IsSequence(t)
    PROVE  Cuts(Fields(t)) /\ IsSequence(Fields(t)) /\ Len(Fields(t)) \in Nat \ {0}
<1>1. Cuts(Fields(t))
  BY LineIsText, CutShape DEF Fields
<1>2. IsSequence(Fields(t)) /\ Len(Fields(t)) # 0
  BY <1>1 DEF Cuts
<1> QED BY <1>1, <1>2, LenProperties DEF IsSequence

Free(x) == IsSequence(x) /\ Plain(x, Bar) /\ Plain(x, Dash)

LEMMA BarIsNoDash == Bar # Dash
BY DEF Bar, Dash

(* A '|' ends a field,                                                     *)
LEMMA FieldsBar ==
    ASSUME NEW x, Free(x), NEW y, IsSequence(y)
    PROVE  Fields(Cat(x, Cat(<<Bar>>, y))) = Cat(<<x>>, Fields(y))
<1> DEFINE b == <<Bar>>
           l == Line(y)
<1>1. IsSequence(x) /\ Plain(x, Dash) /\ Plain(x, Bar) /\ IsSequence(b) /\ Plain(b, Dash)
  BY OneAtom, PlainAtom, BarIsNoDash DEF Free
<1>2. IsSequence(l)
  BY LineIsText
<1> HIDE DEF b, l
<1>3. IsSequence(Cat(b, y)) /\ Line(Cat(b, y)) = Cat(b, l)
  BY <1>1, ConcatText, LineBehind DEF l
<1>4. Line(Cat(x, Cat(b, y))) = Cat(x, Cat(b, l))
  BY <1>1, <1>3, LineBehind
<1>5. unpack_data(Cat(x, Cat(b, l)), Bar) = Cat(<<x>>, unpack_data(l, Bar))
  BY <1>1, <1>2, CutFirst, Zenon DEF b
<1> QED BY <1>4, <1>5 DEF Fields, b, l

(* a '-' ends the fields,                                                  *)
LEMMA FieldsDash ==
    ASSUME NEW x, Free(x), NEW y, IsSequence(y)
    PROVE  Fields(Cat(x, Cat(<<Dash>>, y))) = <<x>>
BY LineDash, CutPlain DEF Fields, Free

(* and what has neither is a field of its own.                             *)
LEMMA FieldsAll ==
    ASSUME NEW x, Free(x)
    PROVE  Fields(x) = <<x>>
BY LineAll, CutPlain DEF Fields, Free

---------------------------------------------------------------------------
(* A field and what follows it; the text of a transaction.                 *)

(* A field, the '|' behind it, and what follows. *)
Cell(x, y) == Cat(x, Cat(<<Bar>>, y))

LEMMA CellIsText ==
    ASSUME NEW x, IsSequence(x), NEW y, IsSequence(y)
    PROVE  IsSequence(Cell(x, y))
<1>1. IsSequence(<<Bar>>)
  BY OneAtom
<1>2. IsSequence(Cat(<<Bar>>, y))
  BY <1>1, ConcatText
<1> QED BY <1>2, ConcatText DEF Cell

LEMMA FieldsCell ==
    ASSUME NEW x, Free(x), NEW y, IsSequence(y)
    PROVE  Fields(Cell(x, y)) = Cat(<<x>>, Fields(y))
BY FieldsBar DEF Cell

LEMMA TwoAtoms ==
    ASSUME NEW a, NEW y, IsSequence(y)
    PROVE  Cat(<<a, Bar>>, y) = Cell(<<a>>, y)
<1>1. <<a, Bar>> = Cat(<<a>>, <<Bar>>)
  BY DEF Cat
<1>2. IsSequence(<<a>>) /\ IsSequence(<<Bar>>)
  BY OneAtom
<1>3. Cat(Cat(<<a>>, <<Bar>>), y) = Cat(<<a>>, Cat(<<Bar>>, y))
  BY <1>2, Regroup
<1> QED BY <1>1, <1>3 DEF Cell

LEMMA TwoAtomsText == ASSUME NEW a, NEW b PROVE IsSequence(<<a, b>>)
<1>1. <<a, b>> \in Seq({a, b})
  OBVIOUS
<1> QED BY <1>1, OfItsElements

LEMMA FourAtoms ==
    ASSUME NEW a, NEW b, NEW y, IsSequence(y)
    PROVE  /\ Cat(<<a, Bar, b, Bar>>, y) = Cell(<<a>>, Cell(<<b>>, y))
           /\ IsSequence(<<a, Bar, b, Bar>>)
<1> DEFINE p == <<a, Bar>>
           q == <<b, Bar>>
           t == <<a, Bar, b, Bar>>
<1>1. t = Cat(p, q)
  BY DEF Cat
<1>2. IsSequence(p) /\ IsSequence(q)
  BY TwoAtomsText
<1>3. IsSequence(<<b>>)
  BY OneAtom
<1>4. IsSequence(Cell(<<b>>, y)) /\ Cat(q, y) = Cell(<<b>>, y)
  BY <1>3, CellIsText, TwoAtoms
<1>5. Cat(p, Cell(<<b>>, y)) = Cell(<<a>>, Cell(<<b>>, y))
  BY <1>4, TwoAtoms
<1> HIDE DEF p, q, t
<1>6. Cat(Cat(p, q), y) = Cat(p, Cat(q, y)) /\ IsSequence(Cat(p, q))
  BY <1>2, Regroup, ConcatText
<1> QED BY <1>1, <1>4, <1>5, <1>6 DEF t

LEMMA FiveAtoms ==
    ASSUME NEW a, NEW b, NEW y, IsSequence(y)
    PROVE  /\ Cat(<<Bar, a, Bar, b, Bar>>, y) = Cat(<<Bar>>, Cell(<<a>>, Cell(<<b>>, y)))
           /\ IsSequence(<<Bar, a, Bar, b, Bar>>)
<1> DEFINE p == <<Bar>>
           q == <<a, Bar, b, Bar>>
           t == <<Bar, a, Bar, b, Bar>>
<1>1. t = Cat(p, q)
  BY DEF Cat
<1>2. IsSequence(p) /\ IsSequence(q) /\ Cat(q, y) = Cell(<<a>>, Cell(<<b>>, y))
  BY OneAtom, FourAtoms
<1> HIDE DEF p, q, t
<1>6. Cat(Cat(p, q), y) = Cat(p, Cat(q, y)) /\ IsSequence(Cat(p, q))
  BY <1>2, Regroup, ConcatText
<1> QED BY <1>1, <1>2, <1>6 DEF t, p

LEMMA TenAtoms ==
    ASSUME NEW a, NEW b, NEW s, NEW c, NEW d, NEW y, IsSequence(y)
    PROVE  /\ Cat(<<Bar, a, Bar, b, s, Bar, c, Bar, d, Bar>>, y)
              = Cat(<<Bar>>, Cell(<<a>>, Cell(<<b, s>>, Cell(<<c>>, Cell(<<d>>, y)))))
           /\ IsSequence(<<Bar, a, Bar, b, s, Bar, c, Bar, d, Bar>>)
<1> DEFINE p == <<Bar>>
           q == <<a, Bar>>
           r == <<b, s>>
           u == <<Bar>>
           v == <<c, Bar, d, Bar>>
           t == <<Bar, a, Bar, b, s, Bar, c, Bar, d, Bar>>
           y1 == Cell(<<c>>, Cell(<<d>>, y))
           uv == Cat(u, v)
           ruv == Cat(r, uv)
           qruv == Cat(q, ruv)
<1>1. t = Cat(p, qruv)
  BY DEF Cat
<1>2. IsSequence(p) /\ IsSequence(q) /\ IsSequence(r) /\ IsSequence(u)
  BY OneAtom, TwoAtomsText
<1>3. IsSequence(v) /\ Cat(v, y) = y1
  BY FourAtoms
<1>4. IsSequence(y1)
  BY OneAtom, CellIsText
<1> HIDE DEF p, q, r, u, v, t, y1
<1>5. IsSequence(uv) /\ Cat(uv, y) = Cat(u, y1) /\ IsSequence(Cat(u, y1))
  BY <1>2, <1>3, <1>4, Regroup, ConcatText
<1> HIDE DEF uv
<1>6. IsSequence(ruv) /\ Cat(ruv, y) = Cat(r, Cat(u, y1)) /\ IsSequence(Cat(ruv, y))
  BY <1>2, <1>5, Regroup, ConcatText
<1> HIDE DEF ruv
<1>7. IsSequence(qruv) /\ Cat(qruv, y) = Cat(q, Cat(ruv, y))
  BY <1>2, <1>6, Regroup, ConcatText
<1> HIDE DEF qruv
<1>8. IsSequence(t) /\ Cat(t, y) = Cat(p, Cat(qruv, y))
  BY <1>1, <1>2, <1>7, Regroup, ConcatText
<1>9. Cat(r, Cat(u, y1)) = Cell(<<b, s>>, y1)
  BY DEF Cell, r, u
<1>10. Cat(q, Cat(ruv, y)) = Cell(<<a>>, Cat(ruv, y))
  BY <1>6, TwoAtoms DEF q
<1> QED BY <1>6, <1>7, <1>8, <1>9, <1>10 DEF t, p, y1

---------------------------------------------------------------------------
LEMMA AmountText_Text ==
    ASSUME NEW n, NEW st
    PROVE  IsSequence(AmountText(n, st))
<1>1. CASE n < 0
  BY <1>1, TwoAtomsText DEF AmountText
<1>2. CASE ~(n < 0)
  <2> DEFINE r == IF Printed(n) + 1 < BufferLen THEN <<st>> ELSE <<>>
  <2>1. IsSequence(r)
    BY OneAtom, EmptyText
  <2>2. AmountText(n, st) = Cat(<<Num(Kept(n))>>, r)
    BY <1>2 DEF AmountText, Cat
  <2> HIDE DEF r
  <2> QED BY <2>1, <2>2, OneAtom, ConcatText
<1> QED BY <1>1, <1>2

(* A transaction is packed to five cells, whatever follows it.             *)
LEMMA TransactionText ==
    ASSUME NEW t, NEW st, NEW y, IsSequence(y)
    PROVE  /\ IsSequence(GetTransactionMetadata(t, st))
           /\ Cat(GetTransactionMetadata(t, st), y)
              = Cell(<<Hex(t.sender)>>, Cell(<<Hex(t.receiver)>>,
                    Cell(AmountText(t.amount, st),
                         Cell(<<Hex(t.signature[1])>>, Cell(<<Hex(t.signature[2])>>, y)))))
<1> DEFINE a == Hex(t.sender)
           b == Hex(t.receiver)
           c == Hex(t.signature[1])
           d == Hex(t.signature[2])
           m == AmountText(t.amount, st)
           p == <<a, Bar, b, Bar>>
           q == <<Bar, c, Bar, d, Bar>>
           g == GetTransactionMetadata(t, st)
           y1 == Cell(<<c>>, Cell(<<d>>, y))
<1>1. g = Cat(Cat(p, m), q)
  BY DEF GetTransactionMetadata, Cat
<1>2. IsSequence(m)
  BY AmountText_Text
<1> HIDE DEF m, g, a, b, c, d
<1>3. IsSequence(p) /\ IsSequence(q) /\ Cat(q, y) = Cat(<<Bar>>, y1)
  <2>1. IsSequence(p)
    BY FourAtoms
  <2>2. IsSequence(q) /\ Cat(q, y) = Cat(<<Bar>>, y1)
    BY FiveAtoms
  <2> QED BY <2>1, <2>2
<1>4. IsSequence(y1)
  BY OneAtom, CellIsText
<1> HIDE DEF y1, q
<1>5. IsSequence(Cell(m, y1))
  BY <1>2, <1>4, CellIsText
<1>6. Cat(p, Cell(m, y1)) = Cell(<<a>>, Cell(<<b>>, Cell(m, y1)))
  BY <1>5, FourAtoms
<1> HIDE DEF p
<1>7. IsSequence(Cat(p, m)) /\ IsSequence(Cat(<<Bar>>, y1))
  BY <1>2, <1>3, <1>4, OneAtom, ConcatText
<1>8. IsSequence(g) /\ Cat(g, y) = Cat(Cat(p, m), Cat(q, y))
  BY <1>1, <1>3, <1>7, Regroup, ConcatText
<1>9. Cat(Cat(p, m), Cat(<<Bar>>, y1)) = Cat(p, Cat(m, Cat(<<Bar>>, y1)))
  BY <1>2, <1>3, <1>7, Regroup
<1> QED BY <1>3, <1>6, <1>8, <1>9 DEF Cell, g, m, y1, a, b, c, d

---------------------------------------------------------------------------
(* The fields of a transaction.  Only its amount can contain a delimiter:  *)
(* a minus sign, or a byte behind a short text that nobody wrote.          *)

(* The first of the fields f is x, the others are c. *)
Heads(x, c, f) ==
    /\ Len(c) \in Nat /\ Len(f) = 1 + Len(c)
    /\ f[1] = x /\ \A i \in 1..Len(c) : f[1 + i] = c[i]

LEMMA FirstField ==
    ASSUME NEW x, NEW c, IsSequence(c)
    PROVE  Heads(x, c, Cat(<<x>>, c)) /\ IsSequence(Cat(<<x>>, c))
<1>1. Len(c) \in Nat
  BY DEF IsSequence
<1>2. /\ (Cat(<<x>>, c))[1] = x /\ Len(Cat(<<x>>, c)) = 1 + Len(c)
      /\ \A i \in 1..Len(c) : (Cat(<<x>>, c))[1 + i] = c[i]
      /\ IsSequence(Cat(<<x>>, c))
  BY FirstOfConcat
<1> QED BY <1>1, <1>2 DEF Heads

LEMMA TwoHeads ==
    ASSUME NEW f, NEW x1, NEW c1, Heads(x1, c1, f), NEW x2, NEW c2, Heads(x2, c2, c1)
    PROVE  /\ Len(c2) \in Nat /\ Len(f) = 2 + Len(c2) /\ f[1] = x1 /\ f[2] = x2
           /\ \A i \in 1..Len(c2) : f[2 + i] = c2[i]
<1>1. /\ Len(c2) \in Nat /\ Len(c1) = 1 + Len(c2) /\ Len(f) = 1 + Len(c1)
      /\ f[1] = x1 /\ c1[1] = x2
      /\ \A i \in 1..Len(c1) : f[1 + i] = c1[i]
      /\ \A i \in 1..Len(c2) : c1[1 + i] = c2[i]
  BY DEF Heads
<1>2. f[2] = c1[1]
  <2>1. 1 \in 1..Len(c1) /\ 1 + 1 = 2
    BY <1>1
  <2> QED BY <1>1, <2>1
<1>3. ASSUME NEW i \in 1..Len(c2) PROVE f[2 + i] = c2[i]
  <2>1. 1 + i \in 1..Len(c1) /\ 1 + (1 + i) = 2 + i
    BY <1>1
  <2>2. f[1 + (1 + i)] = c1[1 + i] /\ c1[1 + i] = c2[i]
    BY <1>1, <2>1
  <2> QED BY <2>1, <2>2
<1> QED BY <1>1, <1>2, <1>3

(* Five fields, one after the other, and the rest behind them.             *)
LEMMA FiveHeads ==
    ASSUME NEW f, NEW x1, NEW c1, Heads(x1, c1, f), NEW x2, NEW c2, Heads(x2, c2, c1),
           NEW x3, NEW c3, Heads(x3, c3, c2), NEW x4, NEW c4, Heads(x4, c4, c3),
           NEW x5, NEW c5, Heads(x5, c5, c4)
    PROVE  /\ Len(c5) \in Nat /\ Len(f) = 5 + Len(c5)
           /\ f[1] = x1 /\ f[2] = x2 /\ f[3] = x3 /\ f[4] = x4 /\ f[5] = x5
           /\ \A i \in 1..Len(c5) : f[5 + i] = c5[i]
<1>1. /\ Len(c2) \in Nat /\ Len(f) = 2 + Len(c2) /\ f[1] = x1 /\ f[2] = x2
      /\ \A i \in 1..Len(c2) : f[2 + i] = c2[i]
  BY TwoHeads
<1>2. /\ Len(c4) \in Nat /\ Len(c2) = 2 + Len(c4) /\ c2[1] = x3 /\ c2[2] = x4
      /\ \A i \in 1..Len(c4) : c2[2 + i] = c4[i]
  BY TwoHeads
<1>3. Len(c5) \in Nat /\ Len(c4) = 1 + Len(c5) /\ c4[1] = x5
      /\ \A i \in 1..Len(c5) : c4[1 + i] = c5[i]
  BY DEF Heads
<1>4. f[3] = c2[1] /\ f[4] = c2[2] /\ f[5] = c2[3] /\ c2[3] = c4[1]
  <2>1. /\ 1 \in 1..Len(c2) /\ 2 \in 1..Len(c2) /\ 3 \in 1..Len(c2) /\ 1 \in 1..Len(c4)
        /\ 2 + 1 = 3 /\ 2 + 2 = 4 /\ 2 + 3 = 5
    BY <1>1, <1>2, <1>3
  <2>2. f[2 + 1] = c2[1] /\ f[2 + 2] = c2[2] /\ f[2 + 3] = c2[3] /\ c2[2 + 1] = c4[1]
    BY <1>1, <1>2, <2>1
  <2> QED BY <2>1, <2>2
<1>5. ASSUME NEW i \in 1..Len(c5) PROVE f[5 + i] = c5[i]
  <2>1. 1 + i \in 1..Len(c4) /\ 3 + i \in 1..Len(c2) /\ 2 + (1 + i) = 3 + i /\ 2 + (3 + i) = 5 + i
    BY <1>2, <1>3
  <2>2. f[2 + (3 + i)] = c2[3 + i] /\ c2[2 + (1 + i)] = c4[1 + i] /\ c4[1 + i] = c5[i]
    BY <1>1, <1>2, <1>3, <2>1
  <2> QED BY <2>1, <2>2
<1> QED BY <1>1, <1>2, <1>3, <1>4, <1>5

---------------------------------------------------------------------------
(* Atoms are no delimiters unless they are. *)
IsFree(x) == x # Bar /\ x # Dash

(* Atoms are told apart by their kind; only two are delimiters.            *)
LEMMA Kinds ==
    /\ \A h : IsFree(Hex(h)) /\ IsHex(<<Hex(h)>>) /\ <<Hex(h)>>[1].hex = h
    /\ \A n : IsFree(Num(n)) /\ ~("hex" \in DOMAIN Num(n)) /\ "num" \in DOMAIN Num(n)
       /\ Num(n).num = n
    /\ \A a : IsFree(Address(a)) /\ Address(a).address = a /\ "num" \notin DOMAIN Address(a)
    /\ \A w : IsFree(Word(w))
    /\ IsFree(Other) /\ ~("hex" \in DOMAIN Other) /\ ~("hex" \in DOMAIN Bar)
       /\ ~("hex" \in DOMAIN Dash)
    /\ Bar # Dash /\ Other # Bar /\ Other # Dash
BY DEF IsFree, Bar, Dash, Hex, Num, Address, Word, Other, IsHex

LEMMA FreeAtom ==
    ASSUME NEW x, IsFree(x)
    PROVE  Free(<<x>>)
BY OneAtom, PlainAtom DEF Free, IsFree

LEMMA FreeConcat ==
    ASSUME NEW a, Free(a), NEW b, Free(b)
    PROVE  Free(Cat(a, b))
BY ConcatText, PlainConcat DEF Free

LEMMA FreeNothing == Free(<<>>)
BY EmptyText DEF Free, Plain

GoodAmount(n, st) == n >= 0 /\ (Printed(n) + 1 < BufferLen => st = Other)

(* What stands for an amount. *)
LEMMA AmountField ==
    ASSUME NEW n \in Int, NEW st \in Stale, NEW m, m = AmountText(n, st)
    PROVE  /\ IsSequence(m)
           /\ GoodAmount(n, st) => Free(m) /\ m # <<>> /\ m[1] = Num(Kept(n))
           /\ ~GoodAmount(n, st) =>
                 \/ \E x : IsFree(x) /\ m = Cat(<<Dash>>, <<x>>)
                 \/ \E x : m = Cat(<<Num(x)>>, <<Dash>>)
                 \/ \E x : m = Cat(<<Num(x)>>, <<Bar>>)
           /\ m # <<>> /\ ~("hex" \in DOMAIN m[1])
<1>0. IsSequence(m)
  BY AmountText_Text
<1>1. CASE n < 0
  <2>1. m = <<Dash, Num(Kept(-n))>>
    BY <1>1 DEF AmountText
  <2>2. <<Dash, Num(Kept(-n))>> = Cat(<<Dash>>, <<Num(Kept(-n))>>)
    BY DEF Cat
  <2>3. m[1] = Dash /\ m # <<>>
    BY <2>1
  <2>4. ~GoodAmount(n, st)
    BY <1>1 DEF GoodAmount
  <2>5. IsFree(Num(Kept(-n))) /\ ~("hex" \in DOMAIN Dash)
    BY Kinds
  <2> QED BY <1>0, <2>1, <2>2, <2>3, <2>4, <2>5
<1>2. CASE n >= 0
  <2> DEFINE r == IF Printed(n) + 1 < BufferLen THEN <<st>> ELSE <<>>
             k == <<Num(Kept(n))>>
  <2>1. m = Cat(k, r)
    BY <1>2 DEF AmountText, Cat
  <2>2. IsSequence(r)
    BY OneAtom, EmptyText
  <2>3. m[1] = Num(Kept(n)) /\ Len(m) = 1 + Len(r) /\ Len(r) \in Nat
    <3> HIDE DEF r
    <3> QED BY <2>1, <2>2, FirstOfConcat
  <2>4. m # <<>>
    <3> HIDE DEF r
    <3> QED BY <2>3, EmptyText
  <2>5. ~("hex" \in DOMAIN m[1])
    BY <2>3, Kinds
  <2>6. ASSUME GoodAmount(n, st) PROVE Free(m)
    <3>1. Free(r)
      <4>1. CASE Printed(n) + 1 < BufferLen
        <5>1. st = Other
          BY <2>6, <4>1 DEF GoodAmount
        <5> QED BY <4>1, <5>1, FreeAtom, Kinds
      <4>2. CASE ~(Printed(n) + 1 < BufferLen)
        BY <4>2, FreeNothing
      <4> QED BY <4>1, <4>2
    <3>2. Free(k)
      BY FreeAtom, Kinds
    <3> HIDE DEF r, k
    <3> QED BY <2>1, <3>1, <3>2, FreeConcat
  <2>7. ASSUME ~GoodAmount(n, st)
        PROVE  \/ \E x : m = Cat(<<Num(x)>>, <<Dash>>)
               \/ \E x : m = Cat(<<Num(x)>>, <<Bar>>)
    <3>1. Printed(n) + 1 < BufferLen /\ st # Other
      BY <1>2, <2>7 DEF GoodAmount
    <3>2. st = Bar \/ st = Dash
      BY <3>1 DEF Stale
    <3>3. m = Cat(<<Num(Kept(n))>>, <<st>>)
      BY <2>1, <3>1
    <3> QED BY <3>2, <3>3
  <2> QED BY <1>0, <2>3, <2>4, <2>5, <2>6, <2>7
<1>3. n < 0 \/ n >= 0
  OBVIOUS
<1> QED BY <1>1, <1>2, <1>3, Zenon

---------------------------------------------------------------------------
(* The fields f of a transaction with y behind it.                         *)
ReadsTransaction(t, st, y, f) ==
    /\ GoodAmount(t.amount, st) =>
          /\ Len(Fields(y)) \in Nat \ {0} /\ Len(f) = 5 + Len(Fields(y))
          /\ f[1] = <<Hex(t.sender)>> /\ f[2] = <<Hex(t.receiver)>>
          /\ f[3] = AmountText(t.amount, st)
          /\ f[4] = <<Hex(t.signature[1])>> /\ f[5] = <<Hex(t.signature[2])>>
          /\ \A i \in 1..Len(Fields(y)) : f[5 + i] = Fields(y)[i]
    /\ ~GoodAmount(t.amount, st) => Len(f) < 4 \/ f[4] = <<>>

(* A transaction is unpacked to its five fields and those behind it, or,   *)
(* with a delimiter in its amount, to fewer or to an empty fourth one.     *)
LEMMA TransactionFields ==
    ASSUME NEW t, t.amount \in Int, NEW st \in Stale, NEW y, IsSequence(y)
    PROVE  ReadsTransaction(t, st, y, Fields(Cat(GetTransactionMetadata(t, st), y)))
<1> DEFINE a == <<Hex(t.sender)>>
           b == <<Hex(t.receiver)>>
           c == <<Hex(t.signature[1])>>
           d == <<Hex(t.signature[2])>>
           m == AmountText(t.amount, st)
           g == Cat(GetTransactionMetadata(t, st), y)
           y5 == Cell(d, y)
           y4 == Cell(c, y5)
           y3 == Cell(m, y4)
           y2 == Cell(b, y3)
           good == GoodAmount(t.amount, st)
<1>1. Free(a) /\ Free(b) /\ Free(c) /\ Free(d)
  BY FreeAtom, Kinds
<1>2. IsSequence(a) /\ IsSequence(b) /\ IsSequence(c) /\ IsSequence(d) /\ IsSequence(m)
  BY OneAtom, AmountText_Text
<1>3. g = Cell(a, y2)
  BY TransactionText
<1> USE <1>1
<1>9. /\ good => Free(m)
      /\ ~good => \/ \E x : IsFree(x) /\ m = Cat(<<Dash>>, <<x>>)
                  \/ \E x : m = Cat(<<Num(x)>>, <<Dash>>)
                  \/ \E x : m = Cat(<<Num(x)>>, <<Bar>>)
  <2> HIDE DEF m, good
  <2>1. m = AmountText(t.amount, st) /\ (good <=> GoodAmount(t.amount, st))
    BY DEF m, good
  <2>2. PICK n \in Int : n = t.amount
    OBVIOUS
  <2>3. good => Free(m)
    BY <2>1, <2>2, AmountField
  <2>4. ~good => \/ \E x : IsFree(x) /\ m = Cat(<<Dash>>, <<x>>)
                 \/ \E x : m = Cat(<<Num(x)>>, <<Dash>>)
                 \/ \E x : m = Cat(<<Num(x)>>, <<Bar>>)
    BY <2>1, <2>2, AmountField
  <2> QED BY <2>3, <2>4
<1> HIDE DEF a, b, c, d, m, g, good
<1>4. IsSequence(y5) /\ IsSequence(y4) /\ IsSequence(y3) /\ IsSequence(y2)
  BY <1>2, CellIsText
<1>5. Fields(g) = Cat(<<a>>, Fields(y2)) /\ Fields(y2) = Cat(<<b>>, Fields(y3))
      /\ Fields(y4) = Cat(<<c>>, Fields(y5)) /\ Fields(y5) = Cat(<<d>>, Fields(y))
  BY <1>3, <1>4, FieldsCell
<1> HIDE DEF y2, y5, y4
<1>6. IsSequence(Fields(y)) /\ IsSequence(Fields(y5)) /\ IsSequence(Fields(y4))
      /\ IsSequence(Fields(y3)) /\ IsSequence(Fields(y2)) /\ Len(Fields(y)) \in Nat \ {0}
  BY <1>4, FieldsShape
<1>7. Heads(a, Fields(y2), Fields(g)) /\ Heads(b, Fields(y3), Fields(y2))
      /\ Heads(c, Fields(y5), Fields(y4)) /\ Heads(d, Fields(y), Fields(y5))
  BY <1>5, <1>6, FirstField
<1>8. CASE good
  <2>1. Fields(y3) = Cat(<<m>>, Fields(y4))
    BY <1>4, <1>8, <1>9, FieldsCell
  <2>2. Heads(m, Fields(y4), Fields(y3))
    BY <1>6, <2>1, FirstField
  <2> QED BY <1>6, <1>7, <1>8, <2>2, FiveHeads DEF ReadsTransaction, a, b, c, d, m, good, g
<1>10. CASE ~good
  <2>0. IsSequence(Cat(<<Bar>>, y4))
    BY <1>4, OneAtom, ConcatText
  <2>1. /\ Len(Fields(g)) = 2 + Len(Fields(y3))
        /\ \A i \in 1..Len(Fields(y3)) : Fields(g)[2 + i] = Fields(y3)[i]
    BY <1>7, TwoHeads
  <2> DEFINE by4 == Cat(<<Bar>>, y4)
  <2>9. y3 = Cat(m, by4)
    BY DEF Cell
  <2> HIDE DEF y3, by4
  <2>2. ASSUME NEW x, IsFree(x), m = Cat(<<Dash>>, <<x>>) PROVE Len(Fields(g)) < 4
    <3>1. y3 = Cat(<<Dash>>, Cat(<<x>>, by4)) /\ IsSequence(Cat(<<x>>, by4))
      BY <2>0, <2>2, <2>9, OneAtom, Regroup, ConcatText DEF by4
    <3> DEFINE z == Cat(<<x>>, by4)
               dz == Cat(<<Dash>>, z)
    <3>2. IsSequence(dz)
      BY <3>1, OneAtom, ConcatText
    <3>3. Cat(<<>>, dz) = dz
      BY <3>2, NothingAdded
    <3> HIDE DEF z
    <3>4. Fields(Cat(<<>>, Cat(<<Dash>>, z))) = << <<>> >>
      BY <3>1, FreeNothing, FieldsDash DEF z
    <3>5. Fields(y3) = << <<>> >>
      BY <3>1, <3>3, <3>4 DEF z
    <3>6. Len(Fields(y3)) = 1
      BY <3>5
    <3> QED BY <2>1, <3>6
  <2>3. ASSUME NEW x, m = Cat(<<Num(x)>>, <<Dash>>) PROVE Len(Fields(g)) < 4
    <3>1. y3 = Cat(<<Num(x)>>, Cat(<<Dash>>, by4))
      BY <2>0, <2>3, <2>9, OneAtom, Regroup DEF by4
    <3>2. Free(<<Num(x)>>)
      BY Kinds, FreeAtom
    <3>3. Fields(y3) = << <<Num(x)>> >>
      BY <2>0, <3>1, <3>2, FieldsDash DEF by4
    <3>4. Len(Fields(y3)) = 1
      BY <3>3
    <3> QED BY <2>1, <3>4
  <2>4. ASSUME NEW x, m = Cat(<<Num(x)>>, <<Bar>>) PROVE Fields(g)[4] = <<>>
    <3>1. y3 = Cat(<<Num(x)>>, Cat(<<Bar>>, by4))
      BY <2>0, <2>4, <2>9, OneAtom, Regroup DEF by4
    <3>2. Free(<<Num(x)>>)
      BY Kinds, FreeAtom
    <3>3. Fields(y3) = Cat(<< <<Num(x)>> >>, Fields(by4))
      BY <2>0, <3>1, <3>2, FieldsBar DEF by4
    <3>4. by4 = Cat(<<>>, by4)
      BY <2>0, NothingAdded DEF by4
    <3>5. Fields(Cat(<<>>, Cat(<<Bar>>, y4))) = Cat(<< <<>> >>, Fields(y4))
      BY <1>4, FreeNothing, FieldsBar
    <3>6. Fields(by4) = Cat(<< <<>> >>, Fields(y4))
      BY <3>4, <3>5 DEF by4
    <3>7. Heads(<<>>, Fields(y4), Fields(by4)) /\ IsSequence(Fields(by4))
      BY <1>6, <3>6, FirstField
    <3>8. Heads(<<Num(x)>>, Fields(by4), Fields(y3))
      BY <3>3, <3>7, FirstField
    <3>9. Fields(y3)[2] = <<>> /\ 2 \in 1..Len(Fields(y3))
      <4>1. Fields(y3)[2] = <<>> /\ Len(Fields(y3)) = 2 + Len(Fields(y4))
              /\ Len(Fields(y4)) \in Nat
        BY <3>7, <3>8, TwoHeads
      <4> QED BY <4>1
    <3>10. Fields(g)[2 + 2] = <<>>
      BY <2>1, <3>9
    <3> QED BY <3>10
  <2> QED BY <1>9, <1>10, <2>2, <2>3, <2>4 DEF ReadsTransaction, good, g
<1> QED BY <1>8, <1>10 DEF g

---------------------------------------------------------------------------
(* What is read from these fields, and lists that are put together.        *)

(* A transaction as its reader has it.                                     *)
ReadAs(t) ==
    [sender    |-> t.sender,
     receiver  |-> t.receiver,
     amount    |-> stof(Kept(t.amount)),
     signature |-> <<t.signature[1], t.signature[2]>>]

(* Behind p others, the fields f are the fields c.                         *)
Shifted(f, p, c) ==
    /\ Len(c) \in Nat /\ Len(f) = p + Len(c)
    /\ \A i \in 1..Len(c) : f[p + i] = c[i]

(* The assertions and conversions of the reader let exactly the good       *)
(* amounts pass, and then it reads what was packed, but for the amount.    *)
LEMMA TransactionHeld ==
    ASSUME NEW t, t.amount \in Int, NEW st \in Stale, NEW y, NEW c,
           ReadsTransaction(t, st, y, c), NEW p \in Nat, NEW f, Shifted(f, p, c)
    PROVE  /\ HoldsTransaction(f, p + 1) <=> GoodAmount(t.amount, st)
           /\ GoodAmount(t.amount, st) => TransactionAt(f, p + 1) = ReadAs(t)
<1> DEFINE m == AmountText(t.amount, st)
           good == GoodAmount(t.amount, st)
<1>0. m = AmountText(t.amount, st) /\ (good <=> GoodAmount(t.amount, st))
  OBVIOUS
<1>4. /\ Len(c) \in Nat /\ Len(f) = p + Len(c)
      /\ \A i \in 1..Len(c) : f[p + i] = c[i]
  BY DEF Shifted
<1> USE <1>4
<1> HIDE DEF m, good
<1>1. good => m # <<>> /\ m[1] = Num(Kept(t.amount))
  BY <1>0, AmountField
<1>2. ASSUME good PROVE HoldsTransaction(f, p + 1) /\ TransactionAt(f, p + 1) = ReadAs(t)
  <2>1. /\ Len(Fields(y)) \in Nat \ {0} /\ Len(c) = 5 + Len(Fields(y))
        /\ c[1] = <<Hex(t.sender)>> /\ c[2] = <<Hex(t.receiver)>>
        /\ c[3] = m
        /\ c[4] = <<Hex(t.signature[1])>> /\ c[5] = <<Hex(t.signature[2])>>
    BY <1>0, <1>2 DEF ReadsTransaction
  <2>2. f[p + 1] = c[1] /\ f[p + 2] = c[2] /\ f[p + 3] = c[3] /\ f[p + 4] = c[4]
          /\ f[p + 5] = c[5]
    <3>1. \A i \in {1, 2, 3, 4, 5} : i \in 1..Len(c)
      BY <2>1
    <3>2. \A i \in 1..Len(c) : f[p + i] = c[i]
      BY <1>4
    <3> QED BY ONLY <3>1, <3>2
  <2>3. p + 1 + 4 = p + 5 /\ p + 1 + 3 = p + 4 /\ p + 1 + 2 = p + 3 /\ p + 1 + 1 = p + 2
    OBVIOUS
  <2>4. Len(f) >= p + 5
    BY <2>1
  <2>5. IsNum(m) /\ m[1].num = Kept(t.amount)
    BY <1>1, <1>2, Kinds DEF IsNum
  <2>6. /\ IsHex(c[1]) /\ IsHex(c[2]) /\ IsHex(c[4]) /\ IsHex(c[5])
        /\ c[1][1].hex = t.sender /\ c[2][1].hex = t.receiver
        /\ c[4][1].hex = t.signature[1] /\ c[5][1].hex = t.signature[2]
    BY <2>1, Kinds
  <2>7. HoldsTransaction(f, p + 1)
    BY <2>1, <2>2, <2>3, <2>4, <2>5, <2>6 DEF HoldsTransaction
  <2>8. TransactionAt(f, p + 1) = ReadAs(t)
    BY <2>1, <2>2, <2>3, <2>5, <2>6 DEF TransactionAt, ReadAs
  <2> QED BY <2>7, <2>8
<1>3. ASSUME ~good, HoldsTransaction(f, p + 1) PROVE FALSE
  <2>1. Len(f) >= p + 1 + 4 /\ IsHex(f[p + 1 + 3])
    BY <1>3 DEF HoldsTransaction
  <2>2. p + 1 + 3 = p + 4 /\ Len(c) >= 5
    BY <2>1
  <2>3. c[4] = <<>>
    BY <1>0, <1>3, <2>2 DEF ReadsTransaction
  <2>4. f[p + 4] = <<>>
    BY <2>2, <2>3
  <2> QED BY <2>1, <2>2, <2>4 DEF IsHex
<1> QED BY <1>0, <1>2, <1>3

---------------------------------------------------------------------------
(* What the loop of FlattenSeq has joined after i turns.                   *)
Joins(g, s) ==
    /\ \A i \in 1..Len(s) : IsSequence(g[i])
    /\ g[1] = s[1]
    /\ \A i \in 2..Len(s) : g[i] = Cat(g[i - 1], s[i])

FlattenRec(s) ==
    CHOOSE flatten : flatten = [i \in 1..Len(s) |->
        IF i = 1 THEN s[i] ELSE flatten[i-1] \o s[i]]

(* FlattenSeq puts the texts together from the left.                       *)
LEMMA FlattenIs ==
    ASSUME NEW s, Len(s) \in Nat \ {0}, \A i \in 1..Len(s) : IsSequence(s[i])
    PROVE  \E g : Joins(g, s) /\ FlattenSeq(s) = g[Len(s)]
<1> DEFINE N == Len(s)
           U == UNION {Range(s[i]) : i \in 1..N}
           S == Seq(U)
           M == N - 1
           step == [n \in 1..M |-> [v \in S |-> v \o s[n + 1]]]
<1>1. \A i \in 1..N : s[i] \in S
  <2>1. ASSUME NEW i \in 1..N PROVE s[i] \in S
    <3>1. Range(s[i]) \subseteq U
      OBVIOUS
    <3>2. s[i] \in Seq(Range(s[i]))
      BY DEF IsSequence
    <3> HIDE DEF U
    <3> QED BY <3>1, <3>2, SeqMonotonic
  <2> QED BY <2>1
<1> HIDE DEF U
<1>2. M \in Nat /\ \A n \in 1..M : n + 1 \in 1..N
  OBVIOUS
<1>3. step \in [1..M -> [S -> S]]
  <2>1. ASSUME NEW n \in 1..M, NEW v \in S PROVE v \o s[n + 1] \in S
    <3>1. s[n + 1] \in S
      BY <1>1, <1>2
    <3> QED BY <3>1, ConcatProperties
  <2> QED BY <2>1
<1>4. s[1] \in S
  BY <1>1
<1>5. \A n \in 1..M, v \in S : step[n][v] = v \o s[n + 1]
  OBVIOUS
<1> HIDE DEF step, M, S
<1>6. PICK h : Iterates(h, 0..M, S, s[1], step)
  BY <1>2, <1>3, <1>4, FiniteRecursion
<1>7. h \in [0..M -> S] /\ h[0] = s[1] /\ \A n \in 1..M : h[n] = h[n - 1] \o s[n + 1]
  <2>1. h \in [0..M -> S] /\ \A n \in 0..M : h[n] = IF n = 0 THEN s[1] ELSE step[n][h[n - 1]]
    BY <1>6 DEF Iterates
  <2>2. ASSUME NEW n \in 1..M PROVE h[n] = h[n - 1] \o s[n + 1]
    <3>1. n \in 0..M /\ n # 0 /\ n - 1 \in 0..M
      BY <1>2
    <3>2. h[n - 1] \in S /\ h[n] = step[n][h[n - 1]]
      BY <2>1, <3>1
    <3> QED BY <1>5, <3>2
  <2>3. 0 \in 0..M
    BY <1>2
  <2> QED BY <2>1, <2>2, <2>3
<1> DEFINE k == [i \in 1..N |-> h[i - 1]]
<1>8. k = [i \in 1..N |-> IF i = 1 THEN s[i] ELSE k[i-1] \o s[i]]
  <2>1. ASSUME NEW i \in 1..N PROVE k[i] = IF i = 1 THEN s[i] ELSE k[i-1] \o s[i]
    <3>1. CASE i = 1
      BY <1>7, <3>1
    <3>2. CASE i # 1
      <4>1. i - 1 \in 1..M /\ i - 1 \in 1..N /\ (i - 1) + 1 = i
        BY <3>2 DEF M
      <4>2. h[i - 1] = h[(i - 1) - 1] \o s[(i - 1) + 1]
        BY <1>7, <4>1
      <4>3. k[i] = h[i - 1] /\ k[i - 1] = h[(i - 1) - 1]
        BY <4>1
      <4> HIDE DEF k
      <4>4. k[i] = k[i - 1] \o s[i]
        BY <4>1, <4>2, <4>3, Zenon
      <4> QED BY <3>2, <4>4, Zenon
    <3> QED BY <3>1, <3>2
  <2> QED BY <2>1
<1> HIDE DEF k
<1> DEFINE g == FlattenRec(s)
<1>9. g = [i \in 1..N |-> IF i = 1 THEN s[i] ELSE g[i-1] \o s[i]]
  BY <1>8 DEF FlattenRec
<1>10. FlattenSeq(s) = g[N]
  BY DEF FlattenSeq, FlattenRec
<1> HIDE DEF g
<1>11. g[1] = s[1] /\ \A i \in 2..N : g[i] = Cat(g[i - 1], s[i])
  <2>1. \A i \in 1..N : g[i] = IF i = 1 THEN s[i] ELSE g[i-1] \o s[i]
    BY <1>9
  <2>2. ASSUME NEW i \in 2..N PROVE g[i] = Cat(g[i - 1], s[i])
    <3>1. i \in 1..N /\ i # 1
      OBVIOUS
    <3>2. g[i] = g[i - 1] \o s[i]
      BY <2>1, <3>1, Zenon
    <3> QED BY <3>2, Zenon DEF Cat
  <2> QED BY <2>1, <2>2
<1>12. \A i \in 1..N : IsSequence(g[i])
  <2> DEFINE T == {n \in Nat : n + 1 \in 1..N => IsSequence(g[n + 1])}
  <2>1. 0 \in T
    BY <1>11
  <2>2. ASSUME NEW n \in Nat, n \in T PROVE n + 1 \in T
    <3>1. ASSUME (n + 1) + 1 \in 1..N PROVE IsSequence(g[(n + 1) + 1])
      <4>1. n + 1 \in 1..N /\ (n + 1) + 1 \in 2..N /\ ((n + 1) + 1) - 1 = n + 1
        BY <3>1
      <4>2. IsSequence(g[n + 1]) /\ IsSequence(s[(n + 1) + 1])
        BY <2>2, <3>1, <4>1
      <4>3. g[(n + 1) + 1] = Cat(g[n + 1], s[(n + 1) + 1])
        BY <1>11, <4>1
      <4> QED BY <4>2, <4>3, ConcatText
    <3> QED BY <3>1
  <2> HIDE DEF T
  <2>3. Nat \subseteq T
    BY <2>1, <2>2, Induction
  <2>4. ASSUME NEW i \in 1..N PROVE IsSequence(g[i])
    <3>1. i - 1 \in Nat /\ (i - 1) + 1 = i
      OBVIOUS
    <3>2. i - 1 \in T
      BY <2>3, <3>1
    <3>3. (i - 1) + 1 \in 1..N => IsSequence(g[(i - 1) + 1])
      BY <3>2 DEF T
    <3> QED BY <3>1, <3>3
  <2> QED BY <2>4
<1> QED BY <1>10, <1>11, <1>12 DEF Joins, N

---------------------------------------------------------------------------
(* The fields of a block.                                                  *)

BlockCells(b, stale, y) ==
    Cell(<<Num(b.index)>>, Cell(<<Num(0), stale[0]>>,
        Cell(<<Hex(b.prevHash)>>, Cell(<<Hex(b.currHash)>>,
             Cat(GetTransactionMetadata(b.txs[1], stale[1]),
                 Cat(GetTransactionMetadata(b.txs[2], stale[2]), y))))))

(* A block is packed to four cells and its first two transactions.         *)
LEMMA BlockText ==
    ASSUME NEW b, NEW stale, NEW y, IsSequence(y)
    PROVE  /\ IsSequence(GetBlockMetaData(b, stale))
           /\ Cat(GetBlockMetaData(b, stale), y) = Cat(<<Bar>>, BlockCells(b, stale, y))
<1> DEFINE p == <<Bar, Num(b.index), Bar, Num(0), stale[0], Bar,
                  Hex(b.prevHash), Bar, Hex(b.currHash), Bar>>
           s == [i \in 1..MAX_TRANSACTIONS |-> GetTransactionMetadata(b.txs[i], stale[i])]
           t1 == GetTransactionMetadata(b.txs[1], stale[1])
           t2 == GetTransactionMetadata(b.txs[2], stale[2])
           g == GetBlockMetaData(b, stale)
<1>1. g = Cat(p, FlattenSeq(s))
  BY DEF GetBlockMetaData, Cat
<1>2. IsSequence(t1) /\ IsSequence(t2)
  BY EmptyText, TransactionText
<1>3. IsSequence(p)
  BY TenAtoms
<1>4. Len(s) = 2 /\ s[1] = t1 /\ s[2] = t2
  BY DEF MAX_TRANSACTIONS
<1> HIDE DEF s, t1, t2, g
<1>5. FlattenSeq(s) = Cat(t1, t2)
  <2>1. Len(s) \in Nat \ {0} /\ \A i \in 1..Len(s) : IsSequence(s[i])
    BY <1>2, <1>4
  <2>2. PICK h : Joins(h, s) /\ FlattenSeq(s) = h[Len(s)]
    BY <2>1, FlattenIs
  <2>3. h[1] = s[1] /\ h[2] = Cat(h[2 - 1], s[2])
    BY <1>4, <2>2 DEF Joins
  <2>4. 2 - 1 = 1
    OBVIOUS
  <2> QED BY <1>4, <2>2, <2>3, <2>4
<1> DEFINE t12 == Cat(t1, t2)
           t2y == Cat(t2, y)
           z == Cat(t1, t2y)
<1>6. IsSequence(t12) /\ IsSequence(t2y) /\ IsSequence(z) /\ Cat(t12, y) = z
  BY <1>2, Regroup, ConcatText
<1>7. Cat(p, z) = Cat(<<Bar>>, Cell(<<Num(b.index)>>, Cell(<<Num(0), stale[0]>>,
                    Cell(<<Hex(b.prevHash)>>, Cell(<<Hex(b.currHash)>>, z)))))
  <2> HIDE DEF z
  <2> QED BY <1>6, TenAtoms
<1> HIDE DEF p, t12, z
<1>8. IsSequence(g) /\ Cat(g, y) = Cat(p, z)
  BY <1>1, <1>3, <1>5, <1>6, Regroup, ConcatText DEF t12
<1> QED BY <1>7, <1>8 DEF g, z, t1, t2, BlockCells

---------------------------------------------------------------------------
(* The block arrives in a form that can be read.                           *)
GoodBlock(b, stale) ==
    /\ stale[0] = Other
    /\ \A i \in 1..MAX_TRANSACTIONS : GoodAmount(b.txs[i].amount, stale[i])

BlockReadAs(b) ==
    [index |-> b.index, prevHash |-> b.prevHash, currHash |-> b.currHash,
     txs |-> [i \in 1..MAX_TRANSACTIONS |-> ReadAs(b.txs[i])]]

(* The reader of a block accepts exactly the good ones, and reads what was *)
(* packed; the fields behind are those of the rest.                        *)
LEMMA BlockFields ==
    ASSUME NEW w, Free(w), NEW b, \A i \in 1..MAX_TRANSACTIONS : b.txs[i].amount \in Int,
           NEW stale \in [0..MAX_TRANSACTIONS -> Stale], NEW y, IsSequence(y),
           NEW f, f = Fields(Cat(w, Cat(GetBlockMetaData(b, stale), y)))
    PROVE  /\ HoldsBlock(f) <=> GoodBlock(b, stale)
           /\ GoodBlock(b, stale) => /\ BlockAt(f) = BlockReadAs(b)
                                     /\ Shifted(f, 15, Fields(y))
<1> DEFINE a1 == <<Num(b.index)>>
           z == <<Num(0), stale[0]>>
           a2 == <<Hex(b.prevHash)>>
           a3 == <<Hex(b.currHash)>>
           t1 == b.txs[1]
           t2 == b.txs[2]
           y2 == Cat(GetTransactionMetadata(t2, stale[2]), y)
           y1 == Cat(GetTransactionMetadata(t1, stale[1]), y2)
           c4 == Cell(a3, y1)
           c3 == Cell(a2, c4)
           c2 == Cell(z, c3)
           c1 == Cell(a1, c2)
           g1 == GoodAmount(t1.amount, stale[1])
           g2 == GoodAmount(t2.amount, stale[2])
<1>1. /\ Free(a1) /\ Free(a2) /\ Free(a3)
      /\ IsSequence(a1) /\ IsSequence(a2) /\ IsSequence(a3) /\ IsSequence(z)
  BY Kinds, FreeAtom, TwoAtomsText DEF Free
<1>2. t1.amount \in Int /\ t2.amount \in Int /\ stale[0] \in Stale /\ stale[1] \in Stale
        /\ stale[2] \in Stale
  BY DEF MAX_TRANSACTIONS
<1>3. Cat(GetBlockMetaData(b, stale), y) = Cat(<<Bar>>, c1)
  <2> HIDE DEF c1
  <2>1. Cat(GetBlockMetaData(b, stale), y) = Cat(<<Bar>>, BlockCells(b, stale, y))
    BY BlockText
  <2>2. BlockCells(b, stale, y) = c1
    BY DEF BlockCells, c1
  <2> QED BY <2>1, <2>2
<1> HIDE DEF a1, a2, a3, z, t1, t2
<1>4. IsSequence(y2) /\ IsSequence(y1)
  BY TransactionText, ConcatText
<1>5. /\ ReadsTransaction(t1, stale[1], y2, Fields(y1))
      /\ ReadsTransaction(t2, stale[2], y, Fields(y2))
  BY <1>2, <1>4, TransactionFields
<1> HIDE DEF y2, y1
<1>6. IsSequence(c4) /\ IsSequence(c3) /\ IsSequence(c2) /\ IsSequence(c1)
  BY <1>1, <1>4, CellIsText
<1>7. f = Fields(Cell(w, c1))
  BY <1>3 DEF Cell
<1> HIDE DEF c1, c2, c3, c4
<1>8. /\ Fields(Cell(w, c1)) = Cat(<<w>>, Fields(c1))
      /\ Fields(c1) = Cat(<<a1>>, Fields(c2))
      /\ Fields(c3) = Cat(<<a2>>, Fields(c4))
      /\ Fields(c4) = Cat(<<a3>>, Fields(y1))
  BY <1>1, <1>4, <1>6, FieldsCell DEF c1, c3, c4
<1>9. /\ IsSequence(Fields(c1)) /\ IsSequence(Fields(c2)) /\ IsSequence(Fields(c3))
      /\ IsSequence(Fields(c4)) /\ IsSequence(Fields(y1)) /\ IsSequence(Fields(y2))
      /\ Len(Fields(y1)) \in Nat /\ Len(Fields(y2)) \in Nat
  BY <1>4, <1>6, FieldsShape
<1>10. /\ Heads(w, Fields(c1), f) /\ Heads(a1, Fields(c2), Fields(c1))
       /\ Heads(a2, Fields(c4), Fields(c3)) /\ Heads(a3, Fields(y1), Fields(c4))
  BY <1>7, <1>8, <1>9, FirstField
<1>11. /\ Len(f) = 2 + Len(Fields(c2)) /\ f[1] = w /\ f[2] = a1
       /\ \A i \in 1..Len(Fields(c2)) : f[2 + i] = Fields(c2)[i]
  BY <1>10, TwoHeads
<1>12. GoodBlock(b, stale) <=> stale[0] = Other /\ g1 /\ g2
  <2>1. 1..MAX_TRANSACTIONS = {1, 2}
    BY DEF MAX_TRANSACTIONS
  <2> QED BY <2>1 DEF GoodBlock, t1, t2
<1>13. HoldsBlock(f) <=> /\ Len(f) >= 5 /\ IsNum(f[2]) /\ IsNum(f[3])
                         /\ IsHex(f[4]) /\ IsHex(f[5])
                         /\ HoldsTransaction(f, 5 + 1) /\ HoldsTransaction(f, 10 + 1)
  <2>1. 0..MAX_TRANSACTIONS - 1 = {0, 1} /\ 6 + 5 * 0 = 5 + 1 /\ 6 + 5 * 1 = 10 + 1
    BY DEF MAX_TRANSACTIONS
  <2> QED BY <2>1, Zenon DEF HoldsBlock
<1> HIDE DEF g1, g2
<1>14. CASE stale[0] = Other
  <2>1. Free(z)
    <3>1. z = Cat(<<Num(0)>>, <<Other>>)
      BY <1>14 DEF z, Cat
    <3>2. Free(<<Num(0)>>) /\ Free(<<Other>>)
      BY Kinds, FreeAtom
    <3> QED BY <3>1, <3>2, FreeConcat
  <2>2. Fields(c2) = Cat(<<z>>, Fields(c3))
    BY <1>6, <2>1, FieldsCell DEF c2
  <2>3. Heads(z, Fields(c3), Fields(c2))
    BY <1>9, <2>2, FirstField
  <2>4. /\ Len(f) = 5 + Len(Fields(y1))
        /\ f[1] = w /\ f[2] = a1 /\ f[3] = z /\ f[4] = a2 /\ f[5] = a3
        /\ \A i \in 1..Len(Fields(y1)) : f[5 + i] = Fields(y1)[i]
    BY <1>10, <2>3, FiveHeads
  <2>5. IsNum(f[2]) /\ IsNum(f[3]) /\ IsHex(f[4]) /\ IsHex(f[5])
        /\ f[2][1].num = b.index /\ f[4][1].hex = b.prevHash /\ f[5][1].hex = b.currHash
    <3>1. z[1] = Num(0) /\ z # <<>>
      BY DEF z
    <3>2. IsNum(a1) /\ a1[1].num = b.index
      BY Kinds DEF IsNum, a1
    <3>3. IsNum(z)
      BY <3>1, Kinds DEF IsNum
    <3>4. IsHex(a2) /\ IsHex(a3) /\ a2[1].hex = b.prevHash /\ a3[1].hex = b.currHash
      BY Kinds DEF a2, a3
    <3> QED BY <2>4, <3>2, <3>3, <3>4
  <2>6. /\ HoldsTransaction(f, 5 + 1) <=> g1
        /\ g1 => TransactionAt(f, 5 + 1) = ReadAs(t1)
    <3>1. 5 \in Nat /\ Shifted(f, 5, Fields(y1))
      BY <1>9, <2>4 DEF Shifted
    <3> QED BY <1>2, <1>5, <3>1, TransactionHeld DEF g1
  <2>7. ASSUME g1
        PROVE  /\ HoldsTransaction(f, 10 + 1) <=> g2
               /\ g2 => TransactionAt(f, 10 + 1) = ReadAs(t2)
    <3>1. /\ Len(Fields(y1)) = 5 + Len(Fields(y2))
          /\ \A i \in 1..Len(Fields(y2)) : Fields(y1)[5 + i] = Fields(y2)[i]
      BY <1>5, <2>7 DEF ReadsTransaction, g1
    <3>2. Len(f) = 10 + Len(Fields(y2))
      BY <1>9, <2>4, <3>1
    <3>3. ASSUME NEW i \in 1..Len(Fields(y2)) PROVE f[10 + i] = Fields(y2)[i]
      <4>1. 5 + i \in 1..Len(Fields(y1)) /\ 5 + (5 + i) = 10 + i
        BY <1>9, <3>1
      <4>2. f[5 + (5 + i)] = Fields(y1)[5 + i] /\ Fields(y1)[5 + i] = Fields(y2)[i]
        BY <2>4, <3>1, <4>1
      <4> QED BY <4>1, <4>2
    <3>4. 10 \in Nat /\ Shifted(f, 10, Fields(y2))
      BY <1>9, <3>2, <3>3 DEF Shifted
    <3> QED BY <1>2, <1>5, <3>4, TransactionHeld DEF g2
  <2>8. HoldsBlock(f) <=> GoodBlock(b, stale)
    <3>1. Len(f) >= 5
      BY <1>9, <2>4
    <3> QED BY <1>12, <1>13, <1>14, <2>5, <2>6, <2>7, <3>1
  <2>9. ASSUME GoodBlock(b, stale) PROVE BlockAt(f) = BlockReadAs(b)
    <3>1. TransactionAt(f, 6) = ReadAs(t1) /\ TransactionAt(f, 11) = ReadAs(t2)
      BY <1>12, <2>6, <2>7, <2>9
    <3>2. [i \in 1..MAX_TRANSACTIONS |-> TransactionAt(f, 1 + 5 * i)]
          = [i \in 1..MAX_TRANSACTIONS |-> ReadAs(b.txs[i])]
      <4>1. 1..MAX_TRANSACTIONS = {1, 2} /\ 1 + 5 * 1 = 6 /\ 1 + 5 * 2 = 11
        BY DEF MAX_TRANSACTIONS
      <4>2. ASSUME NEW i \in 1..MAX_TRANSACTIONS
            PROVE  TransactionAt(f, 1 + 5 * i) = ReadAs(b.txs[i])
        <5>1. CASE i = 1
          BY <3>1, <4>1, <5>1 DEF t1
        <5>2. CASE i = 2
          BY <3>1, <4>1, <5>2 DEF t2
        <5> QED BY <4>1, <5>1, <5>2
      <4> QED BY <4>2
    <3> QED BY <2>5, <3>2 DEF BlockAt, BlockReadAs
  <2>10. ASSUME GoodBlock(b, stale) PROVE Shifted(f, 15, Fields(y))
    <3>1. /\ Len(Fields(y1)) = 5 + Len(Fields(y2))
          /\ \A i \in 1..Len(Fields(y2)) : Fields(y1)[5 + i] = Fields(y2)[i]
      BY <1>5, <1>12, <2>10 DEF ReadsTransaction, g1
    <3>2. /\ Len(Fields(y2)) = 5 + Len(Fields(y)) /\ Len(Fields(y)) \in Nat
          /\ \A i \in 1..Len(Fields(y)) : Fields(y2)[5 + i] = Fields(y)[i]
      BY <1>5, <1>12, <2>10 DEF ReadsTransaction, g2
    <3>3. Len(f) = 15 + Len(Fields(y))
      BY <1>9, <2>4, <3>1, <3>2
    <3>4. ASSUME NEW i \in 1..Len(Fields(y)) PROVE f[15 + i] = Fields(y)[i]
      <4>1. /\ 5 + i \in 1..Len(Fields(y2)) /\ 5 + (5 + i) = 10 + i /\ 5 + (10 + i) = 15 + i
            /\ 10 + i \in 1..Len(Fields(y1))
        BY <3>1, <3>2
      <4>2. f[5 + (10 + i)] = Fields(y1)[10 + i]
        BY <2>4, <4>1
      <4>3. Fields(y1)[5 + (5 + i)] = Fields(y2)[5 + i] /\ Fields(y2)[5 + i] = Fields(y)[i]
        BY <3>1, <3>2, <4>1
      <4> QED BY <4>1, <4>2, <4>3
    <3> QED BY <3>2, <3>3, <3>4 DEF Shifted
  <2> QED BY <2>8, <2>9, <2>10
<1>15. CASE stale[0] # Other
  <2> DEFINE bc == Cat(<<Bar>>, c3)
             x == <<Num(0)>>
  <2>1. IsSequence(bc)
    BY <1>6, OneAtom, ConcatText
  <2>2. c2 = Cat(x, Cat(<<stale[0]>>, bc))
    <3>1. z = Cat(x, <<stale[0]>>)
      BY DEF z, Cat
    <3>2. IsSequence(x) /\ IsSequence(<<stale[0]>>)
      BY OneAtom
    <3> HIDE DEF x
    <3> QED BY <2>1, <3>1, <3>2, Regroup DEF c2, Cell
  <2>3. Free(x)
    BY Kinds, FreeAtom
  <2> HIDE DEF x
  <2>4. CASE stale[0] = Dash
    <3>1. Fields(c2) = <<x>>
      <4> HIDE DEF bc
      <4> QED BY <2>1, <2>2, <2>3, <2>4, FieldsDash
    <3>2. Len(Fields(c2)) = 1
      BY <3>1
    <3> QED BY <1>11, <1>12, <1>13, <1>15, <3>2
  <2>5. CASE stale[0] = Bar
    <3>1. Fields(c2) = Cat(<<x>>, Fields(bc))
      <4> HIDE DEF bc
      <4> QED BY <2>1, <2>2, <2>3, <2>5, FieldsBar
    <3>2. bc = Cat(<<>>, bc)
      BY <2>1, NothingAdded
    <3>3. Fields(Cat(<<>>, Cat(<<Bar>>, c3))) = Cat(<< <<>> >>, Fields(c3))
      BY <1>6, FreeNothing, FieldsBar
    <3>4. Fields(bc) = Cat(<< <<>> >>, Fields(c3))
      BY <3>2, <3>3
    <3> HIDE DEF bc
    <3>5. Heads(<<>>, Fields(c3), Fields(bc)) /\ IsSequence(Fields(bc))
      BY <1>9, <3>4, FirstField
    <3>6. Heads(x, Fields(bc), Fields(c2))
      BY <3>1, <3>5, FirstField
    <3>7. Fields(c2)[2] = <<>> /\ Len(Fields(c2)) = 2 + Len(Fields(c3)) /\ Len(Fields(c3)) \in Nat
      BY <3>5, <3>6, TwoHeads
    <3>8. f[2 + 2] = <<>>
      BY <1>11, <3>7
    <3>9. ~IsHex(f[4])
      BY <3>8 DEF IsHex
    <3> QED BY <1>12, <1>13, <1>15, <3>9
  <2> QED BY <1>2, <1>15, <2>4, <2>5 DEF Stale
<1> QED BY <1>12, <1>14, <1>15

---------------------------------------------------------------------------
(* The list of items with a '-' between them, and the pieces it is cut into. *)

(* The first item of a text stands behind the command.                     *)
Lead(w, i) == IF i = 1 THEN w ELSE <<>>

Texts(texts) == Len(texts) \in Nat /\ DOMAIN texts = 1..Len(texts)
  /\ \A i \in 1..Len(texts) : IsSequence(texts[i])

(* A joined text is built up like this, as well: a '-' and the next item.  *)
JoinedUp(v, w, texts) ==
    /\ \A i \in 1..Len(texts) : IsSequence(v[i])
    /\ v[1] = Cat(w, texts[1])
    /\ \A i \in 2..Len(texts) : v[i] = Cat(v[i - 1], Cat(<<Dash>>, texts[i]))

(* The list with a '-' between the items, built up from the left.          *)
LEMMA JoinedIs ==
    ASSUME NEW w, IsSequence(w), NEW texts, Texts(texts), Len(texts) # 0
    PROVE  /\ IsSequence(Joined(texts))
           /\ \E v : JoinedUp(v, w, texts) /\ Cat(w, Joined(texts)) = v[Len(texts)]
<1> DEFINE n == Len(texts)
           s == [i \in DOMAIN texts |->
                   IF i = Len(texts) THEN texts[i] ELSE Append(texts[i], Dash)]
           r == [i \in 1..n |-> IF i = 1 THEN Cat(w, texts[1]) ELSE Cat(<<Dash>>, texts[i])]
<1>1. n \in Nat \ {0} /\ DOMAIN texts = 1..n /\ \A i \in 1..n : IsSequence(texts[i])
  BY DEF Texts
<1>2. Len(s) = n /\ \A i \in 1..n : s[i] = IF i = n THEN texts[i] ELSE Append(texts[i], Dash)
  BY <1>1
<1>3. Len(r) = n /\ r[1] = Cat(w, texts[1]) /\ \A i \in 2..n : r[i] = Cat(<<Dash>>, texts[i])
  BY <1>1
<1>4. Joined(texts) = FlattenSeq(s)
  BY DEF Joined
<1> HIDE DEF s, r, n
<1>5. ASSUME NEW i \in 1..n PROVE IsSequence(s[i])
  <2>1. IsSequence(texts[i])
    BY <1>1
  <2>2. IsSequence(Append(texts[i], Dash))
    BY <2>1, AppendToSequence
  <2> QED BY <1>2, <2>1, <2>2
<1>6. \A i \in 1..n : IsSequence(r[i])
  <2>1. IsSequence(<<Dash>>) /\ 1 \in 1..n
    BY <1>1, OneAtom
  <2>2. \A i \in 1..n : i = 1 \/ i \in 2..n
    BY <1>1
  <2>3. ASSUME NEW i \in 1..n PROVE IsSequence(r[i])
    <3>1. IsSequence(texts[i]) /\ IsSequence(texts[1])
      BY <1>1, <2>1
    <3>2. IsSequence(Cat(w, texts[1])) /\ IsSequence(Cat(<<Dash>>, texts[i]))
      BY <2>1, <3>1, ConcatText
    <3>3. CASE i = 1
      BY <1>3, <3>2, <3>3
    <3>4. CASE i \in 2..n
      BY <1>3, <3>2, <3>4
    <3> QED BY <2>2, <3>3, <3>4
  <2> QED BY <2>3
<1>7. PICK g : Joins(g, s) /\ FlattenSeq(s) = g[n]
  BY <1>1, <1>2, <1>5, FlattenIs
<1>8. PICK v : Joins(v, r) /\ FlattenSeq(r) = v[n]
  BY <1>1, <1>3, <1>6, FlattenIs
<1>9. /\ \A i \in 1..n : IsSequence(g[i]) /\ IsSequence(v[i])
      /\ g[1] = s[1] /\ \A i \in 2..n : g[i] = Cat(g[i - 1], s[i])
      /\ v[1] = Cat(w, texts[1]) /\ \A i \in 2..n : v[i] = Cat(v[i - 1], Cat(<<Dash>>, texts[i]))
  BY <1>2, <1>3, <1>7, <1>8 DEF Joins
<1>10. \A i \in 1..n - 1 : Cat(w, g[i]) = Cat(v[i], <<Dash>>)
  <2> DEFINE T == {k \in Nat : k + 1 \in 1..n - 1 => Cat(w, g[k + 1]) = Cat(v[k + 1], <<Dash>>)}
  <2>1. 0 \in T
    <3>1. ASSUME 1 \in 1..n - 1 PROVE Cat(w, g[1]) = Cat(v[1], <<Dash>>)
      <4>1. 1 \in 1..n /\ 1 # n
        BY <1>1, <3>1
      <4>2. g[1] = Append(texts[1], Dash) /\ IsSequence(texts[1])
        BY <1>1, <1>2, <1>9, <4>1
      <4>3. g[1] = Cat(texts[1], <<Dash>>)
        BY <4>2, CatOne
      <4> QED BY <1>9, <4>2, <4>3, OneAtom, Regroup
    <3> QED BY <3>1
  <2>2. ASSUME NEW k \in Nat, k \in T PROVE k + 1 \in T
    <3>1. ASSUME (k + 1) + 1 \in 1..n - 1
          PROVE  Cat(w, g[(k + 1) + 1]) = Cat(v[(k + 1) + 1], <<Dash>>)
      <4> DEFINE j == k + 1
                 t == texts[j + 1]
                 d == <<Dash>>
      <4>1. j \in 1..n - 1 /\ j \in 1..n /\ j + 1 \in 1..n /\ j + 1 # n /\ j + 1 \in 2..n
              /\ (j + 1) - 1 = j
        BY <1>1, <3>1
      <4>2. Cat(w, g[j]) = Cat(v[j], d)
        BY <2>2, <4>1
      <4> HIDE DEF j
      <4>3. s[j + 1] = Append(t, Dash) /\ IsSequence(t) /\ IsSequence(g[j])
              /\ IsSequence(v[j]) /\ IsSequence(d)
        BY <1>1, <1>2, <1>9, <4>1, OneAtom
      <4>4. g[j + 1] = Cat(g[j], s[j + 1]) /\ v[j + 1] = Cat(v[j], Cat(d, t))
        BY <1>9, <4>1
      <4> HIDE DEF t
      <4>5. s[j + 1] = Cat(t, d)
        BY <4>3, CatOne
      <4> HIDE DEF d
      <4>6. Cat(w, Cat(g[j], Cat(t, d))) = Cat(Cat(v[j], d), Cat(t, d))
        BY <4>2, <4>3, Regroup, ConcatText
      <4>7. Cat(Cat(v[j], d), Cat(t, d)) = Cat(v[j], Cat(d, Cat(t, d)))
            /\ Cat(d, Cat(t, d)) = Cat(Cat(d, t), d)
            /\ Cat(v[j], Cat(Cat(d, t), d)) = Cat(Cat(v[j], Cat(d, t)), d)
        <5>1. IsSequence(Cat(t, d)) /\ IsSequence(Cat(d, t))
          BY <4>3, ConcatText
        <5>2. Cat(Cat(v[j], d), Cat(t, d)) = Cat(v[j], Cat(d, Cat(t, d)))
          BY <4>3, <5>1, Regroup
        <5>3. Cat(d, Cat(t, d)) = Cat(Cat(d, t), d)
          BY <4>3, Regroup
        <5>4. Cat(v[j], Cat(Cat(d, t), d)) = Cat(Cat(v[j], Cat(d, t)), d)
          BY <4>3, <5>1, Regroup
        <5> QED BY <5>2, <5>3, <5>4
      <4> QED BY <4>4, <4>5, <4>6, <4>7 DEF j, d
    <3> QED BY <3>1
  <2> HIDE DEF T
  <2>3. Nat \subseteq T
    BY <2>1, <2>2, Induction
  <2>4. ASSUME NEW i \in 1..n - 1 PROVE Cat(w, g[i]) = Cat(v[i], <<Dash>>)
    <3>1. i - 1 \in Nat /\ (i - 1) + 1 = i
      BY <1>1
    <3>2. i - 1 \in T
      BY <2>3, <3>1
    <3>3. (i - 1) + 1 \in 1..n - 1 => Cat(w, g[(i - 1) + 1]) = Cat(v[(i - 1) + 1], <<Dash>>)
      BY <3>2 DEF T
    <3> QED BY <3>1, <3>3
  <2> QED BY <2>4
<1>11. Cat(w, g[n]) = v[n]
  <2>1. CASE n = 1
    BY <1>2, <1>9, <2>1
  <2>2. CASE n # 1
    <3> DEFINE j == n - 1
               t == texts[n]
               d == <<Dash>>
    <3>1. j \in 1..n - 1 /\ j \in 1..n /\ n \in 1..n /\ n \in 2..n
      BY <1>1, <2>2
    <3>2. Cat(w, g[j]) = Cat(v[j], d)
      BY <1>10, <3>1
    <3>3. g[n] = Cat(g[j], s[n]) /\ v[n] = Cat(v[j], Cat(d, t)) /\ s[n] = t
      BY <1>2, <1>9, <3>1
    <3>4. IsSequence(g[j]) /\ IsSequence(v[j]) /\ IsSequence(t) /\ IsSequence(d)
      BY <1>1, <1>9, <3>1, OneAtom
    <3> HIDE DEF j, t, d
    <3>5. Cat(w, Cat(g[j], t)) = Cat(Cat(v[j], d), t)
            /\ Cat(Cat(v[j], d), t) = Cat(v[j], Cat(d, t))
      BY <3>2, <3>4, Regroup
    <3> QED BY <3>3, <3>5
  <2> QED BY <2>1, <2>2
<1>12. JoinedUp(v, w, texts)
  BY <1>9 DEF JoinedUp, n
<1>13. IsSequence(g[n])
  BY <1>1, <1>9
<1> QED BY <1>4, <1>7, <1>11, <1>12, <1>13 DEF n

(* Every piece of the one is a piece of the other.                         *)
Within(e, c) == \A k \in 1..Len(e) : \E j \in 1..Len(c) : c[j] = e[k]

(* Where a text is joined it is cut: what an item is cut into is among the *)
(* pieces, its first line too, and items without a '-' are the pieces.     *)
CutsInto(c, w, texts) ==
    /\ \A i \in 1..Len(texts) : Within(unpack_data(Cat(Lead(w, i), texts[i]), Dash), c)
    /\ \A i \in 1..Len(texts) : \E j \in 1..Len(c) : c[j] = Line(Cat(Lead(w, i), texts[i]))
    /\ (\A i \in 1..Len(texts) : Plain(Cat(Lead(w, i), texts[i]), Dash)) =>
          /\ Len(c) = Len(texts)
          /\ \A i \in 1..Len(texts) : c[i] = Cat(Lead(w, i), texts[i])

(* Cut at '-', it has the pieces of each item among its own, and the items *)
(* for pieces if no item contains a '-'.                                   *)
LEMMA JoinedPieces ==
    ASSUME NEW w, IsSequence(w), NEW texts, Texts(texts), Len(texts) # 0,
           NEW c, c = unpack_data(Cat(w, Joined(texts)), Dash)
    PROVE  CutsInto(c, w, texts)
<1> DEFINE n == Len(texts)
           s == [i \in 1..n |-> Cat(Lead(w, i), texts[i])]
<1>1. n \in Nat \ {0} /\ \A i \in 1..n : IsSequence(texts[i])
  BY DEF Texts
<1>2. PICK v : JoinedUp(v, w, texts) /\ Cat(w, Joined(texts)) = v[n]
  BY JoinedIs
<1>3. /\ \A i \in 1..n : s[i] = Cat(Lead(w, i), texts[i])
      /\ s[1] = Cat(w, texts[1]) /\ \A i \in 2..n : s[i] = texts[i]
  <2>1. \A i \in 2..n : Cat(<<>>, texts[i]) = texts[i] /\ i # 1 /\ i \in 1..n
    BY <1>1, NothingAdded
  <2> QED BY <1>1, <2>1 DEF Lead
<1> HIDE DEF s, n
<1>4. \A i \in 1..n : IsSequence(s[i]) /\ IsSequence(v[i])
  <2>1. ASSUME NEW i \in 1..n PROVE IsSequence(s[i])
    <3>1. IsSequence(texts[i]) /\ 1 \in 1..n
      BY <1>1
    <3>2. IsSequence(texts[1])
      BY <1>1, <3>1
    <3>3. IsSequence(Cat(w, texts[1]))
      BY <3>2, ConcatText
    <3>4. CASE i = 1
      BY <1>3, <3>3, <3>4
    <3>5. CASE i \in 2..n
      BY <1>3, <3>1, <3>5
    <3> QED BY <1>1, <3>4, <3>5
  <2>2. \A i \in 1..n : IsSequence(v[i])
    BY <1>2 DEF JoinedUp, n
  <2> QED BY <2>1, <2>2
<1> DEFINE d(i) == unpack_data(v[i], Dash)
           e(i) == unpack_data(s[i], Dash)
<1>5. d(1) = e(1) /\ \A i \in 2..n : d(i) = Cat(d(i - 1), e(i))
  <2>1. v[1] = s[1]
    BY <1>2, <1>3 DEF JoinedUp
  <2>2. ASSUME NEW i \in 2..n PROVE d(i) = Cat(d(i - 1), e(i))
    <3>1. i \in 1..n /\ i - 1 \in 1..n
      BY <1>1
    <3>2. v[i] = Cat(v[i - 1], Cat(<<Dash>>, s[i]))
      BY <1>2, <1>3 DEF JoinedUp, n
    <3> QED BY <1>4, <3>1, <3>2, CutSplit
  <2> QED BY <2>1, <2>2
<1>6. \A i \in 1..n : IsSequence(d(i)) /\ IsSequence(e(i)) /\ Len(e(i)) \in Nat \ {0}
        /\ e(i)[1] = Line(s[i])
                      /\ Len(d(i)) \in Nat
  <2>1. ASSUME NEW i \in 1..n PROVE Cuts(d(i)) /\ Cuts(e(i))
    BY <1>4, CutShape
  <2> QED BY <2>1, LenProperties DEF Cuts, IsSequence, Line
<1>7. \A i \in 1..n : Plain(s[i], Dash) => e(i) = <<s[i]>>
  BY <1>4, CutPlain
<1> HIDE DEF d, e
<1>8. ASSUME NEW i \in 2..n
      PROVE  /\ Len(d(i)) = Len(d(i - 1)) + Len(e(i))
             /\ \A k \in 1..Len(d(i - 1)) : d(i)[k] = d(i - 1)[k]
             /\ \A k \in 1..Len(e(i)) : d(i)[Len(d(i - 1)) + k] = e(i)[k]
  <2>1. i \in 1..n /\ i - 1 \in 1..n
    BY <1>1
  <2>2. IsSequence(d(i - 1)) /\ IsSequence(e(i)) /\ d(i) = Cat(d(i - 1), e(i))
    BY <1>5, <1>6, <2>1
  <2>3. Len(d(i)) = Len(d(i - 1)) + Len(e(i)) /\ Follows(d(i - 1), e(i), d(i))
    BY <2>2, ConcatText, ConcatAtoms
  <2> QED BY <2>3 DEF Follows
<1>9. \A i \in 1..n : \A k \in 1..i : Within(e(k), d(i))
  <2> DEFINE T == {m \in Nat : m + 1 \in 1..n => \A k \in 1..m + 1 : Within(e(k), d(m + 1))}
  <2>1. 0 \in T
    <3>1. 1 \in 1..n /\ Within(e(1), d(1))
      BY <1>1, <1>5 DEF Within
    <3>2. \A k \in 1..0 + 1 : k = 1
      OBVIOUS
    <3> QED BY <3>1, <3>2
  <2>2. ASSUME NEW m \in Nat, m \in T PROVE m + 1 \in T
    <3>1. ASSUME (m + 1) + 1 \in 1..n, NEW k \in 1..(m + 1) + 1
          PROVE  Within(e(k), d((m + 1) + 1))
      <4> DEFINE i == (m + 1) + 1
      <4>1. i \in 2..n /\ i \in 1..n /\ m + 1 \in 1..n /\ i - 1 = m + 1
        BY <1>1, <3>1
      <4> HIDE DEF i
      <4>2. Len(d(i - 1)) \in Nat /\ Len(e(i)) \in Nat \ {0}
        BY <1>6, <4>1
      <4>3. ASSUME k \in 1..m + 1 PROVE Within(e(k), d(i))
        <5>1. Within(e(k), d(i - 1))
          BY <2>2, <4>1, <4>3
        <5>2. ASSUME NEW l \in 1..Len(e(k)) PROVE \E j \in 1..Len(d(i)) : d(i)[j] = e(k)[l]
          <6>1. PICK j \in 1..Len(d(i - 1)) : d(i - 1)[j] = e(k)[l]
            BY <5>1 DEF Within
          <6>2. j \in 1..Len(d(i)) /\ d(i)[j] = e(k)[l]
            BY <1>8, <4>1, <4>2, <6>1
          <6> QED BY <6>2
        <5> QED BY <5>2 DEF Within
      <4>4. Within(e(i), d(i))
        <5>1. ASSUME NEW l \in 1..Len(e(i)) PROVE \E j \in 1..Len(d(i)) : d(i)[j] = e(i)[l]
          <6> DEFINE j == Len(d(i - 1)) + l
          <6>1. j \in 1..Len(d(i)) /\ d(i)[j] = e(i)[l]
            BY <1>8, <4>1, <4>2
          <6> HIDE DEF j
          <6> QED BY <6>1
        <5> QED BY <5>1 DEF Within
      <4>5. k \in 1..m + 1 \/ k = i
        BY <3>1 DEF i
      <4> QED BY <4>3, <4>4, <4>5 DEF i
    <3> QED BY <3>1
  <2> HIDE DEF T
  <2>3. Nat \subseteq T
    BY <2>1, <2>2, Induction
  <2>4. ASSUME NEW i \in 1..n, NEW k \in 1..i
        PROVE  Within(e(k), d(i))
    <3>1. i - 1 \in Nat /\ (i - 1) + 1 = i
      BY <1>1
    <3>2. i - 1 \in T
      BY <2>3, <3>1
    <3>3. (i - 1) + 1 \in 1..n =>
              \A kk \in 1..(i - 1) + 1 : Within(e(kk), d((i - 1) + 1))
      BY <3>2 DEF T
    <3> QED BY <3>1, <3>3
  <2> QED BY <2>4
<1>10. ASSUME \A i \in 1..n : Plain(s[i], Dash)
       PROVE  \A i \in 1..n : Len(d(i)) = i /\ \A k \in 1..i : d(i)[k] = s[k]
  <2> DEFINE T == {m \in Nat : m + 1 \in 1..n =>
                      Len(d(m + 1)) = m + 1 /\ \A k \in 1..m + 1 : d(m + 1)[k] = s[k]}
  <2>1. 0 \in T
    <3>1. 1 \in 1..n /\ d(1) = <<s[1]>>
      BY <1>1, <1>5, <1>7, <1>10
    <3>2. Len(d(1)) = 1 /\ d(1)[1] = s[1]
      BY <3>1
    <3>3. \A k \in 1..0 + 1 : k = 1
      OBVIOUS
    <3> QED BY <3>2, <3>3
  <2>2. ASSUME NEW m \in Nat, m \in T PROVE m + 1 \in T
    <3>1. ASSUME (m + 1) + 1 \in 1..n
          PROVE  /\ Len(d((m + 1) + 1)) = (m + 1) + 1
                 /\ \A k \in 1..(m + 1) + 1 : d((m + 1) + 1)[k] = s[k]
      <4> DEFINE i == (m + 1) + 1
      <4>1. i \in 2..n /\ i \in 1..n /\ m + 1 \in 1..n /\ i - 1 = m + 1
        BY <1>1, <3>1
      <4>2. Len(d(i - 1)) = i - 1 /\ \A k \in 1..i - 1 : d(i - 1)[k] = s[k]
        BY <2>2, <4>1
      <4> HIDE DEF i
      <4>3. e(i) = <<s[i]>>
        BY <1>7, <1>10, <4>1
      <4>4. Len(e(i)) = 1 /\ e(i)[1] = s[i]
        BY <4>3
      <4>7. /\ Len(d(i)) = Len(d(i - 1)) + Len(e(i))
            /\ \A k \in 1..Len(d(i - 1)) : d(i)[k] = d(i - 1)[k]
            /\ \A k \in 1..Len(e(i)) : d(i)[Len(d(i - 1)) + k] = e(i)[k]
        BY <1>8, <4>1
      <4>5. Len(d(i)) = i
        BY <4>1, <4>2, <4>4, <4>7
      <4>6. ASSUME NEW k \in 1..i PROVE d(i)[k] = s[k]
        <5>1. CASE k \in 1..i - 1
          BY <4>7, <4>2, <5>1
        <5>2. CASE k = i
          <6>1. d(i)[Len(d(i - 1)) + 1] = e(i)[1]
            <7>1. 1 \in 1..Len(e(i))
              BY <4>4
            <7> QED BY <4>7, <7>1
          <6>2. Len(d(i - 1)) + 1 = i
            BY <4>1, <4>2
          <6> QED BY <4>4, <5>2, <6>1, <6>2
        <5> QED BY <4>1, <5>1, <5>2
      <4> QED BY <4>5, <4>6 DEF i
    <3> QED BY <3>1
  <2> HIDE DEF T
  <2>3. Nat \subseteq T
    BY <2>1, <2>2, Induction
  <2>4. ASSUME NEW i \in 1..n
        PROVE  Len(d(i)) = i /\ \A k \in 1..i : d(i)[k] = s[k]
    <3>1. i - 1 \in Nat /\ (i - 1) + 1 = i
      BY <1>1
    <3>2. i - 1 \in T
      BY <2>3, <3>1
    <3>3. (i - 1) + 1 \in 1..n =>
              Len(d((i - 1) + 1)) = (i - 1) + 1
                /\ \A k \in 1..(i - 1) + 1 : d((i - 1) + 1)[k] = s[k]
      BY <3>2 DEF T
    <3> QED BY <3>1, <3>3
  <2> QED BY <2>4
<1>11. c = d(n) /\ n \in 1..n
  BY <1>1, <1>2 DEF d, n
<1>12. ASSUME NEW i \in 1..n
       PROVE  Within(e(i), c) /\ \E j \in 1..Len(c) : c[j] = Line(s[i])
  <2>1. Within(e(i), c)
    <3>1. i \in 1..n /\ n \in 1..n
      BY <1>1
    <3> QED BY <1>9, <1>11, <3>1
  <2>2. 1 \in 1..Len(e(i)) /\ e(i)[1] = Line(s[i])
    BY <1>6
  <2>3. \E j \in 1..Len(c) : c[j] = e(i)[1]
    BY <2>1, <2>2 DEF Within
  <2> QED BY <2>1, <2>2, <2>3
<1>13. ASSUME \A i \in 1..n : Plain(s[i], Dash)
       PROVE  Len(c) = n /\ \A i \in 1..n : c[i] = s[i]
  BY <1>10, <1>11, <1>13
<1>14. \A i \in 1..n : Within(unpack_data(Cat(Lead(w, i), texts[i]), Dash), c)
  <2>1. \A i \in 1..n : e(i) = unpack_data(Cat(Lead(w, i), texts[i]), Dash)
    BY <1>3 DEF e
  <2> QED BY <1>12, <2>1
<1> QED BY <1>3, <1>12, <1>13, <1>14 DEF n, CutsInto

---------------------------------------------------------------------------
(* Where an item is without a '-'.                                         *)

(* A longer text has the same pieces but for the last, and perhaps more;   *)
(* without a further delimiter the last one grows.                         *)
Grows(c, e, z, d) ==
    /\ Len(e) >= Len(c)
    /\ \A i \in 1..Len(c) - 1 : e[i] = c[i]
    /\ Plain(z, d) => Len(e) = Len(c) /\ e[Len(c)] = Cat(c[Len(c)], z)
    /\ ~Plain(z, d) => Len(e) > Len(c)

LEMMA CutGrows ==
    ASSUME NEW a, IsSequence(a), NEW z, IsSequence(z), NEW d
    PROVE  Grows(unpack_data(a, d), unpack_data(Cat(a, z), d), z, d)
<1> DEFINE S == Range(z)
           c == unpack_data(a, d)
           Good(v) == Grows(c, unpack_data(Cat(a, v), d), v, d)
           T == {n \in Nat : \A v \in Seq(S) : Len(v) = n => Good(v)}
<1>0. IsSequence(c) /\ Len(c) \in Nat \ {0} /\ \A i \in 1..Len(c) : IsSequence(c[i])
  BY CutShape, LenProperties DEF Cuts, IsSequence
<1>1. 0 \in T
  <2>1. ASSUME NEW v \in Seq(S), Len(v) = 0 PROVE Good(v)
    <3>1. v = <<>>
      BY <2>1, SeqOfLengthZero
    <3>2. Cat(a, v) = a /\ Plain(v, d) /\ Cat(c[Len(c)], v) = c[Len(c)]
      BY <1>0, <2>1, <3>1, NothingAdded DEF Plain
    <3> HIDE DEF c
    <3> QED BY <1>0, <3>2 DEF Grows, c
  <2> QED BY <2>1
<1>2. ASSUME NEW n \in Nat, n \in T PROVE n + 1 \in T
  <2>1. ASSUME NEW v \in Seq(S), Len(v) = n + 1 PROVE Good(v)
    <3>1. PICK w, x : IsSequence(w) /\ Len(w) = n /\ v = Append(w, x)
      BY <2>1, LastAtom, OfItsElements
    <3>0. DOMAIN w = 1..n /\ DOMAIN v = 1..n + 1 /\ (\A i \in 1..n : v[i] = w[i]) /\ v[n + 1] = x
      BY <3>1, AppendToSequence
    <3>2. w \in Seq(S)
      <4>1. Range(w) \subseteq S
        <5>2. \A i \in 1..n + 1 : v[i] \in S
          BY <2>1, <3>0, ElementOfSeq
        <5> HIDE DEF S
        <5> QED BY <3>0, <5>2 DEF Range
      <4> HIDE DEF S
      <4> QED BY <3>1, <4>1, SeqMonotonic DEF IsSequence
    <3> DEFINE e == unpack_data(Cat(a, w), d)
               f == unpack_data(Cat(a, v), d)
    <3>3. Grows(c, e, w, d)
      BY <1>2, <3>1, <3>2
    <3>4. IsSequence(Cat(a, w))
      BY <3>1, ConcatText
    <3>5. Cat(a, v) = Append(Cat(a, w), x)
      <4>1. v = Cat(w, <<x>>) /\ IsSequence(<<x>>)
        BY <3>1, CatOne, OneAtom
      <4>2. Cat(a, v) = Cat(Cat(a, w), <<x>>)
        BY <3>1, <4>1, Regroup
      <4> QED BY <3>4, <4>2, CatOne
    <3>6. f = Next1(e, x, d) /\ Cuts(e)
      BY <3>4, <3>5, CutAppend, CutShape
    <3>7. Plain(v, d) <=> Plain(w, d) /\ x # d
      BY <2>1, <3>0, <3>1 DEF Plain
    <3> HIDE DEF e, f, c
    <3>8. /\ Len(e) \in Nat /\ Len(e) # 0
          /\ x = d => /\ Len(f) = Len(e) + 1 /\ \A i \in 1..Len(e) : f[i] = e[i]
          /\ x # d => /\ Len(f) = Len(e)
                      /\ \A i \in 1..Len(e) - 1 : f[i] = e[i]
                      /\ f[Len(e)] = Append(e[Len(e)], x)
      BY <3>6, Next1Shape
    <3>9. Len(e) >= Len(c) /\ (\A i \in 1..Len(c) - 1 : e[i] = c[i])
            /\ (~Plain(w, d) => Len(e) > Len(c))
      BY <3>3 DEF Grows
    <3>10. Len(f) >= Len(c) /\ \A i \in 1..Len(c) - 1 : f[i] = c[i]
      <4>1. ASSUME NEW i \in 1..Len(c) - 1 PROVE f[i] = c[i]
        <5>1. i \in 1..Len(e) /\ i \in 1..Len(e) - 1 /\ e[i] = c[i]
          BY <1>0, <3>8, <3>9
        <5> QED BY <3>8, <5>1
      <4> QED BY <1>0, <3>8, <3>9, <4>1
    <3>11. ASSUME Plain(v, d) PROVE Len(f) = Len(c) /\ f[Len(c)] = Cat(c[Len(c)], v)
      <4>1. Len(e) = Len(c) /\ e[Len(c)] = Cat(c[Len(c)], w) /\ x # d
        BY <3>3, <3>7, <3>11 DEF Grows
      <4>2. Len(f) = Len(c) /\ f[Len(c)] = Append(Cat(c[Len(c)], w), x)
        BY <3>8, <4>1
      <4>3. IsSequence(c[Len(c)])
        BY <1>0
      <4> DEFINE l == c[Len(c)]
      <4> HIDE DEF l
      <4>4. IsSequence(l) /\ IsSequence(w) /\ IsSequence(<<x>>) /\ v = Cat(w, <<x>>)
        BY <3>1, <4>3, CatOne, OneAtom DEF l
      <4>5. Append(Cat(l, w), x) = Cat(Cat(l, w), <<x>>)
              /\ Cat(Cat(l, w), <<x>>) = Cat(l, Cat(w, <<x>>))
        <5>1. IsSequence(Cat(l, w))
          BY <4>4, ConcatText
        <5> QED BY <4>4, <5>1, CatOne, Regroup
      <4> QED BY <4>2, <4>4, <4>5 DEF l
    <3>12. ASSUME ~Plain(v, d) PROVE Len(f) > Len(c)
      <4>1. CASE x = d
        BY <1>0, <3>8, <3>9, <4>1
      <4>2. CASE x # d
        BY <1>0, <3>7, <3>8, <3>9, <3>12, <4>2
      <4> QED BY <4>1, <4>2
    <3> QED BY <3>10, <3>11, <3>12 DEF Grows, f
  <2> HIDE DEF Good
  <2> QED BY <2>1
<1> HIDE DEF T
<1>3. Nat \subseteq T
  BY <1>1, <1>2, Induction
<1>4. z \in Seq(S) /\ Len(z) \in Nat
  BY LenProperties DEF IsSequence
<1>5. Good(z)
  <2> HIDE DEF Good, S
  <2> QED BY <1>3, <1>4 DEF T
<1> QED BY <1>5

(* Behind a free cell, only the rest can have a '-'.                       *)
LEMMA PlainCell ==
    ASSUME NEW x, Free(x), NEW y, IsSequence(y)
    PROVE  Plain(Cell(x, y), Dash) <=> Plain(y, Dash)
<1>1. IsSequence(x) /\ Plain(x, Dash) /\ IsSequence(<<Bar>>) /\ Plain(<<Bar>>, Dash)
  BY OneAtom, PlainAtom, BarIsNoDash DEF Free
<1>2. IsSequence(Cat(<<Bar>>, y))
  BY <1>1, ConcatText
<1>3. Plain(Cat(<<Bar>>, y), Dash) <=> Plain(y, Dash)
  BY <1>1, PlainConcat
<1>4. Plain(Cat(x, Cat(<<Bar>>, y)), Dash) <=> Plain(Cat(<<Bar>>, y), Dash)
  BY <1>1, <1>2, PlainConcat
<1> QED BY <1>3, <1>4 DEF Cell

LEMMA PlainTransaction ==
    ASSUME NEW t, t.amount \in Int, NEW st \in Stale, GoodAmount(t.amount, st),
           NEW y, IsSequence(y)
    PROVE  Plain(Cat(GetTransactionMetadata(t, st), y), Dash) <=> Plain(y, Dash)
<1> DEFINE a == <<Hex(t.sender)>>
           b == <<Hex(t.receiver)>>
           c == <<Hex(t.signature[1])>>
           d == <<Hex(t.signature[2])>>
           m == AmountText(t.amount, st)
           y4 == Cell(d, y)
           y3 == Cell(c, y4)
           y2 == Cell(m, y3)
           y1 == Cell(b, y2)
<1>1. Free(a) /\ Free(b) /\ Free(c) /\ Free(d)
  BY Kinds, FreeAtom
<1>2. Free(m)
  BY AmountField
<1>3. Cat(GetTransactionMetadata(t, st), y) = Cell(a, y1)
  BY TransactionText
<1> HIDE DEF a, b, c, d, m
<1>4. IsSequence(y4) /\ IsSequence(y3) /\ IsSequence(y2) /\ IsSequence(y1)
  BY <1>1, <1>2, CellIsText DEF Free
<1>5. (Plain(y4, Dash) <=> Plain(y, Dash))
  BY <1>1, <1>2, <1>4, PlainCell
<1> HIDE DEF y4
<1>6. (Plain(y3, Dash) <=> Plain(y4, Dash))
  BY <1>1, <1>2, <1>4, PlainCell
<1> HIDE DEF y3
<1>7. (Plain(y2, Dash) <=> Plain(y3, Dash))
  BY <1>1, <1>2, <1>4, PlainCell
<1> HIDE DEF y2
<1>8. (Plain(y1, Dash) <=> Plain(y2, Dash))
  BY <1>1, <1>2, <1>4, PlainCell
<1> HIDE DEF y1
<1>9. Plain(Cell(a, y1), Dash) <=> Plain(y1, Dash)
  BY <1>1, <1>4, PlainCell
<1> QED BY <1>3, <1>5, <1>6, <1>7, <1>8, <1>9

LEMMA PlainBlock ==
    ASSUME NEW b, \A i \in 1..MAX_TRANSACTIONS : b.txs[i].amount \in Int,
           NEW stale \in [0..MAX_TRANSACTIONS -> Stale], GoodBlock(b, stale),
           NEW y, IsSequence(y)
    PROVE  Plain(Cat(GetBlockMetaData(b, stale), y), Dash) <=> Plain(y, Dash)
<1> DEFINE t1 == b.txs[1]
           t2 == b.txs[2]
           a1 == <<Num(b.index)>>
           a2 == <<Hex(b.prevHash)>>
           a3 == <<Hex(b.currHash)>>
           z  == <<Num(0), stale[0]>>
           y2 == Cat(GetTransactionMetadata(t2, stale[2]), y)
           y1 == Cat(GetTransactionMetadata(t1, stale[1]), y2)
           c4 == Cell(a3, y1)
           c3 == Cell(a2, c4)
           c2 == Cell(z, c3)
           c1 == Cell(a1, c2)
<1>1. Free(a1) /\ Free(a2) /\ Free(a3)
  BY Kinds, FreeAtom
<1>2. /\ t1.amount \in Int /\ t2.amount \in Int /\ stale[1] \in Stale /\ stale[2] \in Stale
      /\ stale[0] = Other /\ GoodAmount(t1.amount, stale[1]) /\ GoodAmount(t2.amount, stale[2])
  BY DEF MAX_TRANSACTIONS, GoodBlock
<1>3. Free(z)
  <2>1. z = Cat(<<Num(0)>>, <<Other>>)
    BY <1>2 DEF z, Cat
  <2>2. Free(<<Num(0)>>) /\ Free(<<Other>>)
    BY Kinds, FreeAtom
  <2> QED BY <2>1, <2>2, FreeConcat
<1>4. Cat(GetBlockMetaData(b, stale), y) = Cell(<<>>, c1)
  <2>1. Cat(GetBlockMetaData(b, stale), y) = Cat(<<Bar>>, BlockCells(b, stale, y))
    BY BlockText
  <2>2. BlockCells(b, stale, y) = c1
    BY DEF BlockCells, c1
  <2>3. IsSequence(y2) /\ IsSequence(y1)
    BY TransactionText, ConcatText
  <2>4. IsSequence(c1)
    <3> HIDE DEF a1, a2, a3, z, y1
    <3>1. IsSequence(c4)
      BY <1>1, <2>3, CellIsText DEF Free
    <3> HIDE DEF c4
    <3>2. IsSequence(c3)
      BY <1>1, <3>1, CellIsText DEF Free
    <3> HIDE DEF c3
    <3>3. IsSequence(c2)
      BY <1>3, <3>2, CellIsText DEF Free
    <3> HIDE DEF c2
    <3> QED BY <1>1, <3>3, CellIsText DEF Free
  <2> HIDE DEF c1
  <2>5. IsSequence(Cat(<<Bar>>, c1))
    BY <2>4, OneAtom, ConcatText
  <2> QED BY <2>1, <2>2, <2>5, NothingAdded DEF Cell
<1> HIDE DEF a1, a2, a3, z, t1, t2
<1>5. IsSequence(y2) /\ IsSequence(y1)
  BY TransactionText, ConcatText
<1>6. Plain(y2, Dash) <=> Plain(y, Dash)
  BY <1>2, PlainTransaction
<1> HIDE DEF y2
<1>7. Plain(y1, Dash) <=> Plain(y2, Dash)
  BY <1>2, <1>5, PlainTransaction
<1> HIDE DEF y1
<1>8. IsSequence(c4) /\ IsSequence(c3) /\ IsSequence(c2) /\ IsSequence(c1)
  BY <1>1, <1>3, <1>5, CellIsText DEF Free
<1>9. Plain(c4, Dash) <=> Plain(y1, Dash)
  BY <1>1, <1>5, PlainCell
<1> HIDE DEF c4
<1>10. Plain(c3, Dash) <=> Plain(c4, Dash)
  BY <1>1, <1>8, PlainCell
<1> HIDE DEF c3
<1>11. Plain(c2, Dash) <=> Plain(c3, Dash)
  BY <1>3, <1>8, PlainCell
<1> HIDE DEF c2
<1>12. Plain(c1, Dash) <=> Plain(c2, Dash)
  BY <1>1, <1>8, PlainCell
<1> HIDE DEF c1
<1>13. Plain(Cell(<<>>, c1), Dash) <=> Plain(c1, Dash)
  BY <1>8, FreeNothing, PlainCell
<1> QED BY <1>4, <1>6, <1>7, <1>9, <1>10, <1>11, <1>12, <1>13

---------------------------------------------------------------------------
(* How long a text is on the wire.                                         *)

(* A text is its first k atoms and the others.                             *)
LEMMA CutAt ==
    ASSUME NEW t, IsSequence(t), NEW k \in 0..Len(t)
    PROVE  /\ IsSequence(SubSeq(t, 1, k)) /\ Len(SubSeq(t, 1, k)) = k
           /\ \E z : IsSequence(z) /\ Len(z) = Len(t) - k /\ t = Cat(SubSeq(t, 1, k), z)
<1> DEFINE S == Range(t)
           p == SubSeq(t, 1, k)
           z == SubSeq(t, k + 1, Len(t))
<1>1. Len(t) \in Nat /\ \A i \in 1..Len(t) : t[i] \in S
  BY ElementOfSeq, LenProperties DEF IsSequence
<1>2. p \in Seq(S) /\ Len(p) = k /\ \A i \in 1..k : p[i] = t[i]
  <2> HIDE DEF S
  <2>1. \A i \in 1..k : t[i] \in S
    BY <1>1
  <2> QED BY <1>1, <2>1, SubSeqProperties
<1>3. IsSequence(p)
  BY <1>2, OfItsElements
<1>4. IsSequence(z) /\ Len(z) = Len(t) - k /\ \A i \in 1..Len(z) : z[i] = t[k + i]
  BY SuffixOfSequence
<1> HIDE DEF p, z
<1>5. Follows(p, z, Cat(p, z)) /\ IsSequence(Cat(p, z)) /\ Len(Cat(p, z)) = Len(p) + Len(z)
  BY <1>3, <1>4, ConcatAtoms, ConcatText
<1> DEFINE pz == Cat(p, z)
<1>6. (\A i \in 1..Len(p) : pz[i] = p[i]) /\ \A i \in 1..Len(z) : pz[Len(p) + i] = z[i]
  BY <1>5 DEF Follows
<1>7. Len(pz) = Len(t)
  BY <1>1, <1>2, <1>4, <1>5
<1> HIDE DEF pz
<1>8. ASSUME NEW i \in 1..Len(t) PROVE t[i] = pz[i]
  <2>1. CASE i \in 1..k
    BY <1>2, <1>6, <2>1
  <2>2. CASE i \notin 1..k
    <3>1. i - k \in 1..Len(z) /\ k + (i - k) = i
      BY <1>1, <1>4, <2>2
    <3>2. t[k + (i - k)] = z[i - k]
      <4>1. \A j \in 1..Len(z) : z[j] = t[k + j]
        BY <1>4
      <4> QED BY <3>1, <4>1
    <3>3. pz[k + (i - k)] = z[i - k]
      <4>1. \A j \in 1..Len(z) : pz[k + j] = z[j]
        BY <1>2, <1>6
      <4> QED BY <3>1, <4>1
    <3> QED BY <3>1, <3>2, <3>3
  <2> QED BY <2>1, <2>2
<1>9. t = pz
  BY <1>5, <1>7, <1>8, SameTexts DEF pz
<1> QED BY <1>3, <1>2, <1>4, <1>9 DEF p, pz

(* A text is cut at one place in one way only.                             *)
LEMMA SameBehind ==
    ASSUME NEW a, IsSequence(a), NEW b, IsSequence(b), NEW c, IsSequence(c), NEW d, IsSequence(d),
           Len(a) = Len(c), Cat(a, b) = Cat(c, d)
    PROVE  a = c /\ b = d
<1> DEFINE t == Cat(a, b)
<1>1. Follows(a, b, t) /\ Follows(c, d, t) /\ Len(t) = Len(a) + Len(b) /\ Len(t) = Len(c) + Len(d)
      /\ Len(a) \in Nat /\ Len(b) \in Nat /\ Len(d) \in Nat
  BY ConcatAtoms, ConcatText
<1> HIDE DEF t
<1>2. (\A i \in 1..Len(a) : a[i] = c[i]) /\ \A i \in 1..Len(b) : b[i] = d[i]
  <2>1. (\A i \in 1..Len(a) : t[i] = a[i]) /\ \A i \in 1..Len(b) : t[Len(a) + i] = b[i]
    BY <1>1 DEF Follows
  <2>2. (\A i \in 1..Len(c) : t[i] = c[i]) /\ \A i \in 1..Len(d) : t[Len(c) + i] = d[i]
    BY <1>1 DEF Follows
  <2>3. Len(b) = Len(d)
    BY <1>1
  <2> QED BY <2>1, <2>2, <2>3
<1>3. Len(b) = Len(d)
  BY <1>1
<1> QED BY <1>2, <1>3, SameTexts

(* Of two ways to divide a text, the later one goes on behind the first.   *)
LEMMA TwoCuts ==
    ASSUME NEW a, IsSequence(a), NEW b, IsSequence(b), NEW c, IsSequence(c), NEW d, IsSequence(d),
           Len(a) <= Len(c), Cat(a, b) = Cat(c, d)
    PROVE  \E z : IsSequence(z) /\ Len(z) = Len(c) - Len(a) /\ c = Cat(a, z) /\ b = Cat(z, d)
<1> DEFINE p == SubSeq(c, 1, Len(a))
<1>1. Len(a) \in 0..Len(c)
  BY ConcatText
<1>2. IsSequence(p) /\ Len(p) = Len(a)
  BY <1>1, CutAt
<1>3. PICK z : IsSequence(z) /\ Len(z) = Len(c) - Len(a) /\ c = Cat(p, z)
  BY <1>1, CutAt
<1> HIDE DEF p
<1>4. Cat(a, b) = Cat(p, Cat(z, d)) /\ IsSequence(Cat(z, d))
  BY <1>2, <1>3, Regroup, ConcatText
<1>5. a = p /\ b = Cat(z, d)
  <2> DEFINE zd == Cat(z, d)
  <2>1. IsSequence(zd) /\ Cat(a, b) = Cat(p, zd)
    BY <1>4
  <2> HIDE DEF zd
  <2>2. a = p /\ b = zd
    BY <1>2, <2>1, SameBehind
  <2> QED BY <2>2 DEF zd
<1> QED BY <1>3, <1>5

---------------------------------------------------------------------------
(* Of the bytes of a text, its parts have theirs.                          *)
Hexes(t) == {i \in DOMAIN t : "hex" \in DOMAIN t[i]}

(* Lengths add up.                                                         *)
LEMMA MinLengthConcat ==
    ASSUME NEW a, IsSequence(a), NEW b, IsSequence(b)
    PROVE  /\ MinLength(a) \in Nat /\ MinLength(b) \in Nat
           /\ MinLength(Cat(a, b)) = MinLength(a) + MinLength(b)
<1> DEFINE c == Cat(a, b)
           n == Len(a)
           m == Len(b)
           f == [i \in Hexes(b) |-> n + i]
           B == {i \in n + 1..n + m : "hex" \in DOMAIN c[i]}
<1>1. n \in Nat /\ m \in Nat /\ Len(c) = n + m /\ IsSequence(c) /\ Follows(a, b, c)
  BY ConcatText, ConcatAtoms
<1>2. DOMAIN a = 1..n /\ DOMAIN b = 1..m /\ DOMAIN c = 1..n + m
  BY <1>1, LenProperties DEF IsSequence
<1>3. (\A i \in 1..n : c[i] = a[i]) /\ \A i \in 1..m : c[n + i] = b[i]
  BY <1>1 DEF Follows
<1>4. IsFiniteSet(Hexes(a)) /\ IsFiniteSet(Hexes(b)) /\ IsFiniteSet(B)
  <2>1. IsFiniteSet(1..n) /\ IsFiniteSet(1..m) /\ IsFiniteSet(n + 1..n + m)
    BY <1>1, FS_Interval
  <2>2. Hexes(a) \in SUBSET (1..n) /\ Hexes(b) \in SUBSET (1..m) /\ B \in SUBSET (n + 1..n + m)
    BY <1>2 DEF Hexes
  <2> HIDE DEF B
  <2> QED BY <2>1, <2>2, FS_Subset
<1> HIDE DEF c, n, m
<1>5. Cardinality(B) = Cardinality(Hexes(b))
  <2>1. f \in [Hexes(b) -> B]
    <3>1. ASSUME NEW i \in Hexes(b) PROVE n + i \in B
      BY <1>1, <1>2, <1>3 DEF Hexes
    <3> QED BY <3>1
  <2>2. ASSUME NEW i \in Hexes(b), NEW j \in Hexes(b), f[i] = f[j] PROVE i = j
    BY <1>1, <1>2, <2>2 DEF Hexes
  <2>3. ASSUME NEW j \in B PROVE \E i \in Hexes(b) : f[i] = j
    <3>1. j - n \in 1..m /\ n + (j - n) = j
      BY <1>1
    <3>2. j - n \in Hexes(b)
      BY <1>2, <1>3, <3>1 DEF Hexes
    <3> QED BY <3>1, <3>2
  <2> HIDE DEF f, B
  <2>4. f \in Bijection(Hexes(b), B)
    BY <2>1, <2>2, <2>3 DEF Bijection, Injection, Surjection, IsInjective
  <2>5. ExistsBijection(Hexes(b), B)
    BY <2>4 DEF ExistsBijection
  <2> QED BY <1>4, <2>5, FS_Bijection
<1>6. Hexes(c) = Hexes(a) \cup B /\ Hexes(a) \cap B = {}
  BY <1>1, <1>2, <1>3 DEF Hexes
<1> HIDE DEF B
<1>7. Cardinality(Hexes(c)) = Cardinality(Hexes(a)) + Cardinality(B)
  <2>1. Cardinality({}) = 0
    BY FS_EmptySet
  <2>2. Cardinality(Hexes(a)) \in Nat /\ Cardinality(B) \in Nat
    BY <1>4, FS_CardinalityType
  <2>3. Cardinality(Hexes(a) \cup B)
          = Cardinality(Hexes(a)) + Cardinality(B) - Cardinality(Hexes(a) \cap B)
    BY <1>4, FS_Union
  <2>4. Cardinality(Hexes(a) \cap B) = 0 /\ Cardinality(Hexes(c)) = Cardinality(Hexes(a) \cup B)
    BY <1>6, <2>1
  <2> QED BY <2>2, <2>3, <2>4
<1>8. Cardinality(Hexes(a)) \in Nat /\ Cardinality(Hexes(b)) \in Nat
  BY <1>4, FS_CardinalityType
<1>9. /\ MinLength(a) = n + 63 * Cardinality(Hexes(a))
      /\ MinLength(b) = m + 63 * Cardinality(Hexes(b))
      /\ MinLength(c) = Len(c) + 63 * Cardinality(Hexes(c))
  BY DEF MinLength, Hexes, n, m
<1>10. PICK p \in Nat, q \in Nat : p = Cardinality(Hexes(a)) /\ q = Cardinality(Hexes(b))
  BY <1>8
<1>11. MinLength(a) = n + 63 * p /\ MinLength(b) = m + 63 * q
       /\ MinLength(c) = n + m + 63 * (p + q)
  BY <1>1, <1>5, <1>7, <1>9, <1>10
<1> HIDE DEF n, m, c
<1>12. MinLength(a) \in Nat /\ MinLength(b) \in Nat
       /\ MinLength(c) = MinLength(a) + MinLength(b)
  <2>1. PICK v \in Nat, w \in Nat : v = 63 * p /\ w = 63 * q
    BY <1>10
  <2>2. 63 * (p + q) = v + w
    BY <1>10, <2>1
  <2>3. n \in Nat /\ m \in Nat
    BY <1>1
  <2>4. n + v \in Nat /\ m + w \in Nat /\ n + m + (v + w) = (n + v) + (m + w)
    BY <2>1, <2>3
  <2> QED BY <1>11, <2>1, <2>2, <2>4
<1> QED BY <1>12 DEF c

LEMMA MinLengthAtom ==
    ASSUME NEW x
    PROVE  MinLength(<<x>>) >= 1 /\ ("hex" \in DOMAIN x => MinLength(<<x>>) = 64)
           /\ MinLength(<<x>>) \in Nat
<1> DEFINE H == Hexes(<<x>>)
<1>1. DOMAIN <<x>> = {1} /\ Len(<<x>>) = 1 /\ <<x>>[1] = x
  OBVIOUS
<1>2. H = IF "hex" \in DOMAIN x THEN {1} ELSE {}
  BY <1>1 DEF Hexes
<1>3. Cardinality({1}) = 1 /\ Cardinality({}) = 0
  BY FS_EmptySet, FS_Singleton
<1>4. MinLength(<<x>>) = 1 + 63 * Cardinality(H)
  BY <1>1 DEF MinLength, Hexes
<1> HIDE DEF H
<1> QED BY <1>2, <1>3, <1>4

LEMMA MinLengthCell ==
    ASSUME NEW x, IsSequence(x), NEW y, IsSequence(y)
    PROVE  /\ MinLength(Cell(x, y)) >= MinLength(x) + MinLength(y)
           /\ MinLength(Cell(x, y)) \in Nat /\ MinLength(x) \in Nat /\ MinLength(y) \in Nat
<1> DEFINE by == Cat(<<Bar>>, y)
<1>1. IsSequence(by) /\ IsSequence(<<Bar>>)
  BY OneAtom, ConcatText
<1>2. MinLength(by) = MinLength(<<Bar>>) + MinLength(y) /\ MinLength(<<Bar>>) \in Nat
        /\ MinLength(y) \in Nat
  BY <1>1, MinLengthConcat
<1> HIDE DEF by
<1>3. MinLength(Cat(x, by)) = MinLength(x) + MinLength(by) /\ MinLength(x) \in Nat
  BY <1>1, MinLengthConcat
<1> QED BY <1>2, <1>3 DEF Cell, by

LEMMA MinLengthHex ==
    ASSUME NEW h, NEW y, IsSequence(y)
    PROVE  /\ MinLength(Cell(<<Hex(h)>>, y)) >= 64 + MinLength(y)
           /\ MinLength(Cell(<<Hex(h)>>, y)) \in Nat /\ MinLength(y) \in Nat
<1>1. "hex" \in DOMAIN Hex(h)
  BY DEF Hex
<1>2. MinLength(<<Hex(h)>>) = 64
  BY <1>1, MinLengthAtom
<1>3. IsSequence(<<Hex(h)>>)
  BY OneAtom
<1> QED BY <1>2, <1>3, MinLengthCell

(* Four numbers of 64 digits in each transaction,                          *)
LEMMA MinLengthTransaction ==
    ASSUME NEW t, NEW st, NEW y, IsSequence(y)
    PROVE  /\ MinLength(Cat(GetTransactionMetadata(t, st), y)) >= 256 + MinLength(y)
           /\ MinLength(Cat(GetTransactionMetadata(t, st), y)) \in Nat /\ MinLength(y) \in Nat
<1> DEFINE m == AmountText(t.amount, st)
           y4 == Cell(<<Hex(t.signature[2])>>, y)
           y3 == Cell(<<Hex(t.signature[1])>>, y4)
           y2 == Cell(m, y3)
           y1 == Cell(<<Hex(t.receiver)>>, y2)
           y0 == Cell(<<Hex(t.sender)>>, y1)
<1>1. Cat(GetTransactionMetadata(t, st), y) = y0
  BY TransactionText
<1>2. IsSequence(m)
  BY AmountText_Text
<1>3. IsSequence(y4) /\ MinLength(y4) >= 64 + MinLength(y) /\ MinLength(y4) \in Nat
        /\ MinLength(y) \in Nat
  BY MinLengthHex, CellIsText, OneAtom
<1> HIDE DEF y4, m
<1>4. IsSequence(y3) /\ MinLength(y3) >= 64 + MinLength(y4) /\ MinLength(y3) \in Nat
  BY <1>3, MinLengthHex, CellIsText, OneAtom
<1> HIDE DEF y3
<1>5. IsSequence(y2) /\ MinLength(y2) >= MinLength(m) + MinLength(y3)
        /\ MinLength(m) \in Nat /\ MinLength(y2) \in Nat
  BY <1>2, <1>4, MinLengthCell, CellIsText
<1> HIDE DEF y2
<1>6. IsSequence(y1) /\ MinLength(y1) >= 64 + MinLength(y2) /\ MinLength(y1) \in Nat
  BY <1>5, MinLengthHex, CellIsText, OneAtom
<1> HIDE DEF y1
<1>7. MinLength(y0) >= 64 + MinLength(y1) /\ MinLength(y0) \in Nat
  BY <1>6, MinLengthHex
<1> HIDE DEF y0
<1> QED BY <1>1, <1>3, <1>4, <1>5, <1>6, <1>7

(* ten in each block.                                                      *)
LEMMA MinLengthBlock ==
    ASSUME NEW b, NEW stale, NEW y, IsSequence(y)
    PROVE  /\ MinLength(Cat(GetBlockMetaData(b, stale), y)) >= 640 + MinLength(y)
           /\ MinLength(Cat(GetBlockMetaData(b, stale), y)) \in Nat /\ MinLength(y) \in Nat
<1> DEFINE y2 == Cat(GetTransactionMetadata(b.txs[2], stale[2]), y)
           y1 == Cat(GetTransactionMetadata(b.txs[1], stale[1]), y2)
           c4 == Cell(<<Hex(b.currHash)>>, y1)
           c3 == Cell(<<Hex(b.prevHash)>>, c4)
           c2 == Cell(<<Num(0), stale[0]>>, c3)
           c1 == Cell(<<Num(b.index)>>, c2)
<1>1. Cat(GetBlockMetaData(b, stale), y) = Cat(<<Bar>>, c1)
  <2> HIDE DEF c1
  <2>1. Cat(GetBlockMetaData(b, stale), y) = Cat(<<Bar>>, BlockCells(b, stale, y))
    BY BlockText
  <2>2. BlockCells(b, stale, y) = c1
    BY DEF BlockCells, c1
  <2> QED BY <2>1, <2>2
<1>2. IsSequence(y2) /\ MinLength(y2) >= 256 + MinLength(y) /\ MinLength(y2) \in Nat
        /\ MinLength(y) \in Nat
  <2>1. IsSequence(GetTransactionMetadata(b.txs[2], stale[2]))
    BY TransactionText
  <2>2. IsSequence(y2)
    BY <2>1, ConcatText
  <2> QED BY <2>2, MinLengthTransaction
<1> HIDE DEF y2
<1>3. IsSequence(y1) /\ MinLength(y1) >= 256 + MinLength(y2) /\ MinLength(y1) \in Nat
  <2>1. IsSequence(GetTransactionMetadata(b.txs[1], stale[1]))
    BY TransactionText
  <2>2. IsSequence(y1)
    BY <1>2, <2>1, ConcatText
  <2> QED BY <1>2, <2>2, MinLengthTransaction
<1> HIDE DEF y1
<1>4. IsSequence(c4) /\ MinLength(c4) >= 64 + MinLength(y1) /\ MinLength(c4) \in Nat
  BY <1>3, MinLengthHex, CellIsText, OneAtom
<1> HIDE DEF c4
<1>5. IsSequence(c3) /\ MinLength(c3) >= 64 + MinLength(c4) /\ MinLength(c3) \in Nat
  BY <1>4, MinLengthHex, CellIsText, OneAtom
<1> HIDE DEF c3
<1>6. IsSequence(c2) /\ MinLength(c2) >= MinLength(c3) /\ MinLength(c2) \in Nat
  <2> DEFINE z == <<Num(0), stale[0]>>
  <2>1. IsSequence(z)
    BY TwoAtomsText
  <2> HIDE DEF z
  <2>2. IsSequence(Cell(z, c3)) /\ MinLength(Cell(z, c3)) >= MinLength(z) + MinLength(c3)
        /\ MinLength(Cell(z, c3)) \in Nat /\ MinLength(z) \in Nat
    BY <1>5, <2>1, MinLengthCell, CellIsText
  <2>3. MinLength(Cell(z, c3)) >= MinLength(c3)
    BY <1>5, <2>2
  <2> QED BY <2>2, <2>3 DEF z
<1> HIDE DEF c2
<1>7. IsSequence(c1) /\ MinLength(c1) >= MinLength(c2) /\ MinLength(c1) \in Nat
  <2> DEFINE z == <<Num(b.index)>>
  <2>1. IsSequence(z)
    BY OneAtom
  <2> HIDE DEF z
  <2>2. IsSequence(Cell(z, c2)) /\ MinLength(Cell(z, c2)) >= MinLength(z) + MinLength(c2)
        /\ MinLength(Cell(z, c2)) \in Nat /\ MinLength(z) \in Nat
    BY <1>6, <2>1, MinLengthCell, CellIsText
  <2>3. MinLength(Cell(z, c2)) >= MinLength(c2)
    BY <1>6, <2>2
  <2> QED BY <2>2, <2>3 DEF z
<1> HIDE DEF c1
<1>8. MinLength(Cat(<<Bar>>, c1)) = MinLength(<<Bar>>) + MinLength(c1)
        /\ MinLength(<<Bar>>) \in Nat
  BY <1>7, OneAtom, MinLengthConcat
<1> QED BY <1>1, <1>2, <1>3, <1>4, <1>5, <1>6, <1>7, <1>8

---------------------------------------------------------------------------
(* A packet that ends within a block.                                      *)

(* A joined text begins with its first items.                              *)
LEMMA JoinedFirst ==
    ASSUME NEW w, IsSequence(w), NEW texts, Texts(texts), Len(texts) # 0
    PROVE  /\ Len(texts) = 1 => Cat(w, Joined(texts)) = Cat(w, texts[1])
           /\ Len(texts) # 1 =>
                 \E r : /\ IsSequence(r)
                        /\ Cat(w, Joined(texts))
                           = Cat(Cat(w, texts[1]), Cat(<<Dash>>, Cat(texts[2], r)))
<1> DEFINE n == Len(texts)
           d == <<Dash>>
           a == Cat(w, texts[1])
           b == texts[2]
<1>1. n \in Nat \ {0} /\ \A i \in 1..n : IsSequence(texts[i])
  BY DEF Texts
<1>2. PICK v : JoinedUp(v, w, texts) /\ Cat(w, Joined(texts)) = v[n]
  BY JoinedIs
<1>3. v[1] = a /\ \A i \in 2..n : v[i] = Cat(v[i - 1], Cat(d, texts[i]))
  BY <1>2 DEF JoinedUp
<1>4. ASSUME n # 1 PROVE \E r : IsSequence(r) /\ v[n] = Cat(a, Cat(d, Cat(b, r)))
  <2>10. n \in Nat /\ n >= 2 /\ 2 \in 2..n
    <3>1. \A k \in Nat \ {0} : k # 1 => k \in Nat /\ k >= 2 /\ 2 \in 2..k
      OBVIOUS
    <3>2. n \in Nat \ {0} /\ n # 1
      BY <1>1, <1>4
    <3> HIDE DEF n
    <3> QED BY <3>1, <3>2
  <2>0. IsSequence(a) /\ IsSequence(b) /\ IsSequence(d) /\ 2 \in 2..n
    <3>0. 1 \in 1..n /\ 2 \in 1..n
      BY <2>10
    <3>1. IsSequence(texts[1]) /\ IsSequence(b)
      BY <1>1, <3>0
    <3>2. IsSequence(a)
      BY <3>1, ConcatText
    <3>3. IsSequence(d)
      BY OneAtom
    <3> QED BY <2>10, <3>1, <3>2, <3>3
  <2>9. v[2] = Cat(a, Cat(d, b))
    <3>1. v[2] = Cat(v[2 - 1], Cat(d, texts[2]))
      BY <1>3, <2>0
    <3> QED BY <1>3, <3>1
  <2> HIDE DEF a, b, d, n
  <2> DEFINE Good(m) == \E r : IsSequence(r) /\ v[m] = Cat(a, Cat(d, Cat(b, r)))
             T == {m \in Nat : m + 2 \in 2..n => Good(m + 2)}
  <2>1. 0 \in T
    <3>1. v[0 + 2] = Cat(a, Cat(d, Cat(b, <<>>))) /\ IsSequence(<<>>)
      BY <2>0, <2>9, NothingAdded, EmptyText
    <3> QED BY <3>1
  <2>2. ASSUME NEW m \in Nat, m \in T PROVE m + 1 \in T
    <3>1. ASSUME (m + 1) + 2 \in 2..n PROVE Good((m + 1) + 2)
      <4> DEFINE k == (m + 1) + 2
      <4>1. m + 2 \in 2..n /\ k \in 2..n /\ k - 1 = m + 2 /\ k \in 1..n
        BY <1>1, <3>1
      <4>2. PICK r : IsSequence(r) /\ v[m + 2] = Cat(a, Cat(d, Cat(b, r)))
        BY <2>2, <4>1
      <4> HIDE DEF k
      <4> DEFINE x == Cat(d, texts[k])
      <4>3. IsSequence(x) /\ v[k] = Cat(v[m + 2], x)
        <5>1. IsSequence(texts[k])
          BY <1>1, <4>1 DEF n
        <5> QED BY <1>3, <2>0, <4>1, <5>1, ConcatText
      <4> HIDE DEF x
      <4>4. IsSequence(Cat(b, r)) /\ IsSequence(Cat(r, x))
        BY <2>0, <4>2, <4>3, ConcatText
      <4>5. IsSequence(Cat(d, Cat(b, r)))
        BY <2>0, <4>4, ConcatText
      <4>6. Cat(Cat(a, Cat(d, Cat(b, r))), x) = Cat(a, Cat(Cat(d, Cat(b, r)), x))
        BY <2>0, <4>3, <4>5, Regroup
      <4>7. Cat(Cat(d, Cat(b, r)), x) = Cat(d, Cat(Cat(b, r), x))
        BY <2>0, <4>3, <4>4, Regroup
      <4>8. Cat(Cat(b, r), x) = Cat(b, Cat(r, x))
        BY <2>0, <4>2, <4>3, Regroup
      <4>9. v[k] = Cat(a, Cat(d, Cat(b, Cat(r, x))))
        BY <4>2, <4>3, <4>6, <4>7, <4>8
      <4> QED BY <4>4, <4>9 DEF k
    <3> HIDE DEF Good
    <3> QED BY <3>1
  <2> HIDE DEF T
  <2>3. Nat \subseteq T
    BY <2>1, <2>2, Induction
  <2>4. n - 2 \in T /\ (n - 2) + 2 = n /\ n \in 2..n
    BY <2>10, <2>3
  <2>5. (n - 2) + 2 \in 2..n => Good((n - 2) + 2)
    BY <2>4 DEF T
  <2>6. Good(n)
    <3> HIDE DEF Good
    <3> QED BY <2>4, <2>5
  <2> QED BY <2>6
<1> QED BY <1>2, <1>3, <1>4

(* The fields of a whole block are enough for its first transaction.       *)
LEMMA EnoughForOne ==
    ASSUME NEW n \in Nat, n >= 15
    PROVE  n >= 10
  OBVIOUS

(* What fields a block takes.                                              *)
LEMMA HeldByFirstFields ==
    ASSUME NEW f, NEW g, Len(f) \in Nat, Len(g) \in Nat, Len(f) >= 15, Len(g) >= 15,
           \A i \in 1..15 : f[i] = g[i]
    PROVE  HoldsBlock(f) <=> HoldsBlock(g)
<1>1. 0..MAX_TRANSACTIONS - 1 = {0, 1}
  BY DEF MAX_TRANSACTIONS
<1>2. /\ f[2] = g[2] /\ f[3] = g[3] /\ f[4] = g[4] /\ f[5] = g[5]
  OBVIOUS
<1>3. HoldsTransaction(f, 6) <=> HoldsTransaction(g, 6)
  <2>1. /\ f[6] = g[6] /\ f[7] = g[7] /\ f[8] = g[8] /\ f[9] = g[9] /\ f[10] = g[10]
        /\ Len(f) >= 10 /\ Len(g) >= 10
    <3>1. Len(f) >= 10 /\ Len(g) >= 10
      BY EnoughForOne, Zenon
    <3>2. 6 \in 1..15 /\ 7 \in 1..15 /\ 8 \in 1..15 /\ 9 \in 1..15 /\ 10 \in 1..15
      OBVIOUS
    <3> QED BY <3>1, <3>2, Zenon
  <2>2. 6 + 1 = 7 /\ 6 + 2 = 8 /\ 6 + 3 = 9 /\ 6 + 4 = 10
    OBVIOUS
  <2> QED BY <2>1, <2>2, Zenon DEF HoldsTransaction
<1>7. HoldsTransaction(f, 11) <=> HoldsTransaction(g, 11)
  <2>1. /\ f[11] = g[11] /\ f[12] = g[12] /\ f[13] = g[13] /\ f[14] = g[14]
        /\ f[15] = g[15] /\ Len(f) >= 15 /\ Len(g) >= 15
    <3>1. 11 \in 1..15 /\ 12 \in 1..15 /\ 13 \in 1..15 /\ 14 \in 1..15 /\ 15 \in 1..15
      OBVIOUS
    <3> QED BY <3>1, Zenon
  <2>2. 11 + 1 = 12 /\ 11 + 2 = 13 /\ 11 + 3 = 14 /\ 11 + 4 = 15
    OBVIOUS
  <2> QED BY <2>1, <2>2, Zenon DEF HoldsTransaction
<1>4. 6 + 5 * 0 = 6 /\ 6 + 5 * 1 = 11
  OBVIOUS
<1>5. (\A i \in 0..MAX_TRANSACTIONS - 1 : HoldsTransaction(f, 6 + 5 * i))
      <=> \A i \in 0..MAX_TRANSACTIONS - 1 : HoldsTransaction(g, 6 + 5 * i)
  BY <1>1, <1>3, <1>4, <1>7
<1>6. Len(f) >= 5 /\ Len(g) >= 5
  <2> DEFINE n == Len(f)
             m == Len(g)
  <2>1. n \in Nat /\ m \in Nat /\ n >= 15 /\ m >= 15
    OBVIOUS
  <2> HIDE DEF n, m
  <2>2. n >= 5 /\ m >= 5
    BY <2>1
  <2> QED BY <2>2 DEF n, m
<1> QED BY <1>2, <1>5, <1>6, Zenon DEF HoldsBlock

(* A block that is read has fifteen fields, the last of them a number of   *)
(* 64 digits.                                                              *)
LEMMA BlockIsLong ==
    ASSUME NEW f, HoldsBlock(f), Len(f) \in Nat
    PROVE  Len(f) >= 15 /\ IsHex(f[15])
<1>1. HoldsTransaction(f, 6 + 5 * 1) /\ 6 + 5 * 1 = 11
  BY DEF HoldsBlock, MAX_TRANSACTIONS
<1>2. HoldsTransaction(f, 11)
  BY <1>1
<1>3. Len(f) >= 11 + 4 /\ IsHex(f[11 + 4])
  BY <1>2 DEF HoldsTransaction
<1> QED BY <1>3

(* A block that is cut is not read, not even from what is left of it.      *)
LEMMA ShortBlock ==
    ASSUME NEW w, Free(w), NEW b, \A i \in 1..MAX_TRANSACTIONS : b.txs[i].amount \in Int,
           NEW stale \in [0..MAX_TRANSACTIONS -> Stale],
           NEW p, IsSequence(p), NEW z, IsSequence(z), Len(z) # 0,
           Cat(p, z) = Cat(w, GetBlockMetaData(b, stale))
    PROVE  ~HoldsBlock(Fields(Cat(p, <<Other>>)))
<1> DEFINE s == GetBlockMetaData(b, stale)
           o == <<Other>>
           f == Fields(Cat(p, o))
           g == Fields(Cat(p, z))
           c == unpack_data(p, Bar)
<1> SUFFICES ASSUME HoldsBlock(f) PROVE FALSE
  OBVIOUS
<1>1. IsSequence(o) /\ Plain(o, Dash) /\ Plain(o, Bar) /\ Free(w) /\ IsSequence(w)
  BY Kinds, OneAtom, PlainAtom DEF Free
<1>2. IsSequence(Cat(p, o)) /\ IsSequence(Cat(p, z))
  BY <1>1, ConcatText
<1>3. Len(f) \in Nat /\ Len(g) \in Nat
  BY <1>2, FieldsShape
<1>4. Len(f) >= 15 /\ IsHex(f[15])
  BY <1>3, BlockIsLong
<1>5. IsSequence(s) /\ Cat(s, <<>>) = s /\ IsSequence(<<>>)
  BY BlockText, EmptyText, NothingAdded
<1>6. /\ HoldsBlock(g) <=> GoodBlock(b, stale)
      /\ GoodBlock(b, stale) => Shifted(g, 15, Fields(<<>>))
  <2>1. g = Fields(Cat(w, Cat(s, <<>>)))
    BY <1>5
  <2> QED BY <1>5, <2>1, BlockFields
<1>7. Fields(<<>>) = << <<>> >>
  BY FreeNothing, FieldsAll
<1>8. GoodBlock(b, stale) => Plain(Cat(p, z), Dash)
  <2>1. GoodBlock(b, stale) => (Plain(Cat(s, <<>>), Dash) <=> Plain(<<>>, Dash))
    BY <1>5, PlainBlock
  <2>2. Plain(<<>>, Dash) /\ Plain(w, Dash)
    BY FreeNothing DEF Free
  <2>3. Plain(Cat(w, s), Dash) <=> Plain(w, Dash) /\ Plain(s, Dash)
    BY <1>1, <1>5, PlainConcat
  <2> QED BY <1>5, <2>1, <2>2, <2>3
<1>9. Plain(Cat(p, z), Dash) => Plain(p, Dash)
  BY PlainConcat
<1> HIDE DEF s, o
<1>10. ASSUME ~Plain(p, Dash) PROVE f = g
  <2>1. PICK p1, p2 : IsSequence(p1) /\ IsSequence(p2) /\ Plain(p1, Dash)
          /\ p = Cat(p1, Cat(<<Dash>>, p2))
    BY <1>10, FirstCut
  <2>2. ASSUME NEW y, IsSequence(y) PROVE Line(Cat(p, y)) = p1
    <3> DEFINE d == <<Dash>>
    <3>1. IsSequence(d)
      BY OneAtom
    <3>2. p = Cat(p1, Cat(d, p2))
      BY <2>1
    <3> HIDE DEF d
    <3>3. IsSequence(Cat(d, p2)) /\ IsSequence(Cat(p2, y))
      BY <2>1, <2>2, <3>1, ConcatText
    <3>4. Cat(p, y) = Cat(p1, Cat(Cat(d, p2), y))
      BY <2>1, <2>2, <3>2, <3>3, Regroup
    <3>5. Cat(Cat(d, p2), y) = Cat(d, Cat(p2, y))
      BY <2>1, <2>2, <3>1, Regroup
    <3>6. Cat(p, y) = Cat(p1, Cat(d, Cat(p2, y)))
      BY <3>4, <3>5
    <3> QED BY <2>1, <3>3, <3>6, LineDash DEF d
  <2>3. Line(Cat(p, o)) = Line(Cat(p, z))
    BY <1>1, <2>2
  <2> QED BY <2>3 DEF Fields
<1>11. Plain(p, Dash)
  <2>1. CASE ~Plain(p, Dash)
    <3> HIDE DEF f, g
    <3> QED BY <1>6, <1>8, <1>9, <1>10, <2>1
  <2> QED BY <2>1
<1>12. f = unpack_data(Cat(p, o), Bar)
  <2>1. Plain(Cat(p, o), Dash)
    BY <1>1, <1>11, PlainConcat
  <2>2. Line(Cat(p, o)) = Cat(p, o)
    BY <1>2, <2>1, LineAll
  <2> QED BY <2>2 DEF Fields
<1>13. Grows(c, f, o, Bar)
  BY <1>1, <1>12, CutGrows
<1>14. IsSequence(c) /\ Len(c) \in Nat \ {0} /\ \A i \in 1..Len(c) : IsSequence(c[i])
  BY CutShape, LenProperties DEF Cuts, IsSequence
<1> HIDE DEF f, c
<1>15. Len(f) = Len(c) /\ f[Len(c)] = Cat(c[Len(c)], o) /\ \A i \in 1..Len(c) - 1 : f[i] = c[i]
  BY <1>1, <1>13 DEF Grows
<1>16. ~IsHex(f[Len(c)])
  <2> DEFINE l == c[Len(c)]
             x == Cat(l, o)
  <2>1. IsSequence(l) /\ Len(l) \in Nat
    BY <1>14, LenProperties DEF IsSequence
  <2>2. Len(x) = Len(l) + 1 /\ Follows(l, o, x)
    <3>1. Len(o) = 1
      BY OneAtom DEF o
    <3> HIDE DEF l
    <3>2. Len(Cat(l, o)) = Len(l) + Len(o) /\ Follows(l, o, Cat(l, o))
      BY <1>1, <2>1, ConcatText, ConcatAtoms
    <3> QED BY <3>1, <3>2
  <2>3. x[Len(l) + 1] = Other
    <3>1. 1 \in 1..Len(o) /\ o[1] = Other
      BY OneAtom DEF o
    <3> QED BY <2>2, <3>1 DEF Follows
  <2> HIDE DEF x, l
  <2>4. ASSUME Len(x) = 1 PROVE x[1] = Other
    BY <2>1, <2>2, <2>3, <2>4
  <2>5. ~IsHex(x)
    BY <2>4, Kinds DEF IsHex
  <2> QED BY <1>15, <2>5 DEF x, l
<1>17. Len(c) >= 16
  BY <1>3, <1>4, <1>14, <1>15, <1>16
<1>18. GoodBlock(b, stale)
  <2>1. CASE Plain(z, Dash)
    <3>1. Plain(Cat(p, z), Dash)
      BY <1>11, <2>1, PlainConcat
    <3>2. g = unpack_data(Cat(p, z), Bar)
      <4>1. Line(Cat(p, z)) = Cat(p, z)
        BY <1>2, <3>1, LineAll
      <4> QED BY <4>1 DEF Fields
    <3>3. Grows(c, g, z, Bar)
      BY <3>2, CutGrows DEF c
    <3> HIDE DEF g
    <3>4. Len(g) >= Len(c) /\ \A i \in 1..Len(c) - 1 : g[i] = c[i]
      BY <3>3 DEF Grows
    <3>5. \A i \in 1..15 : f[i] = g[i]
      BY <1>14, <1>15, <1>17, <3>4
    <3>6. Len(f) >= 15 /\ Len(g) >= 15
      BY <1>3, <1>4, <1>14, <1>17, <3>4
    <3>7. HoldsBlock(g)
      BY <1>3, <3>5, <3>6, HeldByFirstFields
    <3> QED BY <1>6, <3>7
  <2>2. CASE ~Plain(z, Dash)
    <3>1. PICK z1, z2 : IsSequence(z1) /\ IsSequence(z2) /\ Plain(z1, Dash)
            /\ z = Cat(z1, Cat(<<Dash>>, z2))
      BY <2>2, FirstCut
    <3>2. IsSequence(Cat(p, z1)) /\ Plain(Cat(p, z1), Dash) /\ IsSequence(Cat(<<Dash>>, z2))
      BY <1>11, <3>1, ConcatText, PlainConcat, OneAtom
    <3>3. Cat(p, z) = Cat(Cat(p, z1), Cat(<<Dash>>, z2))
      BY <3>1, <3>2, Regroup
    <3>4. g = unpack_data(Cat(p, z1), Bar)
      <4>1. Line(Cat(p, z)) = Cat(p, z1)
        BY <3>1, <3>2, <3>3, LineDash
      <4> QED BY <4>1 DEF Fields
    <3>5. Grows(c, g, z1, Bar)
      BY <3>1, <3>4, CutGrows DEF c
    <3> HIDE DEF g
    <3>6. Len(g) >= Len(c) /\ \A i \in 1..Len(c) - 1 : g[i] = c[i]
      BY <3>5 DEF Grows
    <3>7. \A i \in 1..15 : f[i] = g[i]
      BY <1>14, <1>15, <1>17, <3>6
    <3>8. Len(f) >= 15 /\ Len(g) >= 15
      BY <1>3, <1>4, <1>14, <1>17, <3>6
    <3>9. HoldsBlock(g)
      BY <1>3, <3>7, <3>8, HeldByFirstFields
    <3> QED BY <1>6, <3>9
  <2> QED BY <2>1, <2>2
<1>19. Len(g) = 16 /\ g[16] = <<>>
  <2>1. Shifted(g, 15, << <<>> >>)
    BY <1>6, <1>7, <1>18
  <2> HIDE DEF g
  <2>2. Len(<< <<>> >>) = 1 /\ << <<>> >>[1] = <<>> /\ 1 \in 1..1
    OBVIOUS
  <2>3. Len(g) = 15 + 1 /\ g[15 + 1] = <<>>
    BY <2>1, <2>2 DEF Shifted
  <2> QED BY <2>3
<1>20. Grows(c, g, z, Bar)
  <2>1. Line(Cat(p, z)) = Cat(p, z)
    BY <1>2, <1>8, <1>18, LineAll
  <2> QED BY <2>1, CutGrows DEF Fields, c
<1> HIDE DEF g
<1>21. Len(g) >= Len(c) /\ (Plain(z, Bar) => Len(g) = Len(c) /\ g[Len(c)] = Cat(c[Len(c)], z))
       /\ (~Plain(z, Bar) => Len(g) > Len(c))
  BY <1>20 DEF Grows
<1>22. Len(c) = 16 /\ Plain(z, Bar)
  BY <1>14, <1>17, <1>19, <1>21
<1>23. Cat(c[16], z) = <<>> /\ IsSequence(c[16])
  BY <1>14, <1>19, <1>21, <1>22
<1>24. Len(Cat(c[16], z)) = Len(c[16]) + Len(z) /\ Len(c[16]) \in Nat /\ Len(z) \in Nat
  BY <1>23, ConcatText
<1>25. Len(Cat(c[16], z)) = 0
  BY <1>23
<1> QED BY <1>24, <1>25

---------------------------------------------------------------------------
(* Blocks in a packet.                                                     *)

(* Of the blocks of a reply that is cut to a packet, only the first can be *)
(* read, and only alone.                                                   *)
IntAmounts(b) == \A i \in 1..MAX_TRANSACTIONS : b.txs[i].amount \in Int

BlockTexts(blocks, stale) == [i \in DOMAIN blocks |-> GetBlockMetaData(blocks[i], stale)]

BlocksText(w, blocks, stale) == Cat(w, Joined(BlockTexts(blocks, stale)))

LEMMA BlockTextsAre ==
    ASSUME NEW blocks, IsSequence(blocks), Len(blocks) # 0, NEW stale,
           NEW texts, texts = BlockTexts(blocks, stale)
    PROVE  /\ Texts(texts) /\ Len(texts) # 0 /\ Len(texts) = Len(blocks)
           /\ \A i \in 1..Len(blocks) : texts[i] = GetBlockMetaData(blocks[i], stale)
           /\ Len(blocks) \in Nat \ {0}
<1> DEFINE n == Len(blocks)
<1>1. DOMAIN blocks = 1..n /\ n \in Nat \ {0}
  BY LenProperties DEF IsSequence
<1> HIDE DEF n
<1>2. DOMAIN texts = 1..n /\ Len(texts) = n
        /\ \A i \in 1..n : texts[i] = GetBlockMetaData(blocks[i], stale)
  BY <1>1 DEF BlockTexts
<1>3. ASSUME NEW i \in 1..n PROVE IsSequence(texts[i])
  <2>1. IsSequence(GetBlockMetaData(blocks[i], stale))
    BY BlockText, EmptyText
  <2> QED BY <1>2, <2>1
<1> QED BY <1>1, <1>2, <1>3 DEF Texts, n

(* What is cut off a packet is never missed by a part that can be read:    *)
(* the packet holds the first block whole and nothing else, or the reading *)
(* ends the process.                                                       *)
LEMMA BlockPacket ==
    ASSUME NEW w, Free(w), NEW blocks, IsSequence(blocks), Len(blocks) # 0,
           \A i \in 1..Len(blocks) : IntAmounts(blocks[i]),
           NEW stale \in [0..MAX_TRANSACTIONS -> Stale],
           NEW text, text = BlocksText(w, blocks, stale),
           NEW k \in 0..Len(text), Fits(text, k),
           NEW c, c = unpack_data(get_packet(text, k), Dash),
           \A j \in 1..Len(c) : HoldsBlock(unpack_data(c[j], Bar))
    PROVE  Len(c) = 1 /\ BlockAt(unpack_data(c[1], Bar)) = BlockReadAs(blocks[1])
<1> DEFINE n == Len(blocks)
           texts == BlockTexts(blocks, stale)
           b == blocks[1]
           s == GetBlockMetaData(b, stale)
           ws == Cat(w, s)
           p == SubSeq(text, 1, k)
           o == <<Other>>
           d == <<Dash>>
<1>1. DOMAIN blocks = 1..n /\ n \in Nat \ {0} /\ 1 \in 1..n
  BY LenProperties DEF IsSequence
<1>2. /\ Texts(texts) /\ Len(texts) # 0 /\ Len(texts) = n
      /\ \A i \in 1..n : texts[i] = GetBlockMetaData(blocks[i], stale)
  BY BlockTextsAre
<1>4. IsSequence(s) /\ IsSequence(w) /\ IsSequence(ws) /\ IsSequence(o) /\ IsSequence(d)
  BY BlockText, EmptyText, OneAtom, ConcatText DEF Free
<1>5. /\ n = 1 => text = ws
      /\ n # 1 => \E r : /\ IsSequence(r)
                         /\ text = Cat(ws, Cat(d, Cat(GetBlockMetaData(blocks[2], stale), r)))
  <2>1. text = Cat(w, Joined(texts))
    BY DEF BlocksText
  <2>2. texts[1] = s /\ (n # 1 => texts[2] = GetBlockMetaData(blocks[2], stale))
    <3>1. n # 1 => 2 \in 1..n
      BY <1>1
    <3> QED BY <1>1, <1>2, <3>1
  <2> DEFINE s2 == GetBlockMetaData(blocks[2], stale)
  <2> HIDE DEF texts, s, s2
  <2>3. Len(texts) = 1 => text = Cat(w, texts[1])
    BY <1>2, <1>4, <2>1, JoinedFirst
  <2>4. Len(texts) # 1 =>
           \E r : /\ IsSequence(r)
                  /\ text = Cat(Cat(w, texts[1]), Cat(<<Dash>>, Cat(texts[2], r)))
    BY <1>2, <1>4, <2>1, JoinedFirst
  <2> QED BY <1>2, <2>2, <2>3, <2>4 DEF s2
<1> HIDE DEF texts, ws
<1>6. IsSequence(text)
  <2>1. CASE n = 1
    BY <1>4, <1>5, <2>1
  <2>2. CASE n # 1
    <3> DEFINE s2 == GetBlockMetaData(blocks[2], stale)
    <3>1. PICK r : IsSequence(r) /\ text = Cat(ws, Cat(d, Cat(s2, r)))
      BY <1>5, <2>2
    <3>2. IsSequence(s2)
      BY BlockText, EmptyText
    <3> HIDE DEF s2
    <3>3. IsSequence(Cat(s2, r))
      BY <3>1, <3>2, ConcatText
    <3>4. IsSequence(Cat(d, Cat(s2, r)))
      BY <1>4, <3>3, ConcatText
    <3> QED BY <1>4, <3>1, <3>4, ConcatText
  <2> QED BY <2>1, <2>2
<1>7. IsSequence(p) /\ Len(p) = k
  BY <1>6, CutAt
<1>8. PICK z : IsSequence(z) /\ text = Cat(p, z)
  BY <1>6, CutAt
<1>9. get_packet(text, k) = Cat(p, o) /\ IsSequence(Cat(p, o))
  BY <1>4, <1>7, CatOne, ConcatText DEF get_packet
<1>10. MinLength(p) <= PacketLen
  BY DEF Fits
<1> HIDE DEF p, o
<1>11. /\ Cuts(c) /\ Len(c) \in Nat \ {0} /\ IsSequence(c) /\ 1 \in 1..Len(c)
       /\ c[1] = Line(Cat(p, o))
  <2>1. Cuts(c)
    BY <1>9, CutShape
  <2>2. Len(c) \in Nat \ {0}
    BY <2>1, LenProperties DEF Cuts, IsSequence
  <2> QED BY <1>9, <2>1, <2>2 DEF Cuts, Line
<1>12. HoldsBlock(Fields(Cat(p, o)))
  BY <1>11 DEF Fields
<1>13. Len(ws) <= Len(p)
  <2> SUFFICES ASSUME ~(Len(ws) <= Len(p)) PROVE FALSE
    OBVIOUS
  <2>1. PICK y : IsSequence(y) /\ text = Cat(ws, y)
    <3>1. CASE n = 1
      BY <1>4, <1>5, <3>1, NothingAdded, EmptyText
    <3>2. CASE n # 1
      <4> DEFINE s2 == GetBlockMetaData(blocks[2], stale)
      <4>1. PICK r : IsSequence(r) /\ text = Cat(ws, Cat(d, Cat(s2, r)))
        BY <1>5, <3>2
      <4>2. IsSequence(s2)
        BY BlockText, EmptyText
      <4> HIDE DEF s2
      <4>3. IsSequence(Cat(s2, r))
        BY <4>1, <4>2, ConcatText
      <4>4. IsSequence(Cat(d, Cat(s2, r)))
        BY <1>4, <4>3, ConcatText
      <4> QED BY <4>1, <4>4
    <3> QED BY <3>1, <3>2
  <2>2. Len(p) \in Nat /\ Len(ws) \in Nat
    BY <1>4, <1>7, ConcatText
  <2>3. Len(p) <= Len(ws) /\ Len(ws) - Len(p) # 0
    BY <2>2
  <2>7. Cat(p, z) = Cat(ws, y)
    BY <1>8, <2>1
  <2>4. PICK x : IsSequence(x) /\ Len(x) = Len(ws) - Len(p) /\ ws = Cat(p, x)
    <3>1. IsSequence(p) /\ IsSequence(z) /\ IsSequence(ws) /\ IsSequence(y)
      BY <1>4, <1>7, <1>8, <2>1
    <3> HIDE DEF s, b, d, n
    <3> QED BY <2>3, <2>7, <3>1, TwoCuts
  <2>5. Len(x) # 0 /\ Cat(p, x) = Cat(w, GetBlockMetaData(b, stale))
    BY <2>3, <2>4 DEF ws
  <2>6. ~HoldsBlock(Fields(Cat(p, <<Other>>)))
    <3>1. \A i \in 1..MAX_TRANSACTIONS : b.txs[i].amount \in Int
      BY <1>1 DEF IntAmounts
    <3> HIDE DEF b, s
    <3> QED BY <1>7, <2>4, <2>5, <3>1, ShortBlock
  <2> QED BY <1>12, <2>6 DEF o
<1>14. PICK q : IsSequence(q) /\ p = Cat(ws, q)
  <2>1. ASSUME NEW y, IsSequence(y), text = Cat(ws, y)
        PROVE  \E q : IsSequence(q) /\ p = Cat(ws, q)
    <3>1. Cat(ws, y) = Cat(p, z)
      BY <1>8, <2>1
    <3>2. IsSequence(p) /\ IsSequence(z) /\ IsSequence(ws) /\ IsSequence(y)
      BY <1>4, <1>7, <1>8, <2>1
    <3> HIDE DEF s, b, d, n
    <3>3. PICK x : IsSequence(x) /\ Len(x) = Len(p) - Len(ws) /\ p = Cat(ws, x) /\ y = Cat(x, z)
      BY <1>13, <3>1, <3>2, TwoCuts
    <3> QED BY <3>3
  <2>2. CASE n = 1
    BY <1>4, <1>5, <2>1, <2>2, NothingAdded, EmptyText
  <2>3. CASE n # 1
    <3> DEFINE s2 == GetBlockMetaData(blocks[2], stale)
    <3>1. PICK r : IsSequence(r) /\ text = Cat(ws, Cat(d, Cat(s2, r)))
      BY <1>5, <2>3
    <3>2. IsSequence(s2)
      BY BlockText, EmptyText
    <3> HIDE DEF s2
    <3>3. IsSequence(Cat(s2, r))
      BY <3>1, <3>2, ConcatText
    <3>4. IsSequence(Cat(d, Cat(s2, r)))
      BY <1>4, <3>3, ConcatText
    <3> QED BY <2>1, <3>1, <3>4
  <2> QED BY <2>2, <2>3
<1>15. Cat(p, o) = Cat(w, Cat(s, Cat(q, o))) /\ IsSequence(Cat(q, o))
         /\ Cat(p, o) = Cat(ws, Cat(q, o))
  <2>1. IsSequence(Cat(q, o))
    BY <1>4, <1>14, ConcatText
  <2>2. Cat(p, o) = Cat(ws, Cat(q, o))
    BY <1>4, <1>14, Regroup
  <2> DEFINE qo == Cat(q, o)
  <2> HIDE DEF s, qo
  <2>3. Cat(Cat(w, s), qo) = Cat(w, Cat(s, qo))
    BY <1>4, <2>1, Regroup DEF qo
  <2> QED BY <2>1, <2>2, <2>3 DEF ws, qo
<1>16. GoodBlock(b, stale) /\ BlockAt(Fields(Cat(p, o))) = BlockReadAs(b)
  <2>1. \A i \in 1..MAX_TRANSACTIONS : b.txs[i].amount \in Int
    BY <1>1 DEF IntAmounts
  <2>2. Fields(Cat(p, o)) = Fields(Cat(w, Cat(GetBlockMetaData(b, stale), Cat(q, o))))
    BY <1>15
  <2> DEFINE f == Fields(Cat(p, o))
             y == Cat(q, o)
  <2>3. IsSequence(y) /\ f = Fields(Cat(w, Cat(GetBlockMetaData(b, stale), y)))
    BY <1>15, <2>2
  <2> HIDE DEF b, f, y
  <2>4. HoldsBlock(f) <=> GoodBlock(b, stale)
    BY <2>1, <2>3, BlockFields
  <2>5. GoodBlock(b, stale) => BlockAt(f) = BlockReadAs(b)
    BY <2>1, <2>3, BlockFields
  <2> QED BY <1>12, <2>4, <2>5 DEF f
<1>17. Plain(ws, Dash)
  <2>1. \A i \in 1..MAX_TRANSACTIONS : b.txs[i].amount \in Int
    BY <1>1 DEF IntAmounts
  <2>2. Plain(Cat(s, <<>>), Dash) <=> Plain(<<>>, Dash)
    <3> HIDE DEF b
    <3> QED BY <1>16, <2>1, EmptyText, PlainBlock
  <2>3. Plain(<<>>, Dash) /\ Plain(w, Dash) /\ Cat(s, <<>>) = s
    BY <1>4, FreeNothing, NothingAdded DEF Free
  <2> HIDE DEF s
  <2>4. Plain(Cat(w, s), Dash) <=> Plain(w, Dash) /\ Plain(s, Dash)
    BY <1>4, PlainConcat
  <2> QED BY <2>2, <2>3, <2>4 DEF ws
<1> HIDE DEF s
<1>18. Plain(o, Dash)
  BY Kinds, PlainAtom DEF o
<1>19. CASE q = <<>>
  <2>1. Cat(p, o) = Cat(ws, o)
    BY <1>4, <1>14, <1>19, NothingAdded
  <2>2. Plain(Cat(p, o), Dash)
    BY <1>4, <1>17, <1>18, <2>1, PlainConcat
  <2>3. c = <<Cat(p, o)>>
    BY <1>9, <2>2, CutPlain
  <2>4. Len(c) = 1
    BY <2>3
  <2> QED BY <1>11, <1>16, <2>4 DEF Fields
<1>20. CASE q # <<>>
  <2>1. IsSequence(q) /\ Len(q) \in Nat \ {0}
    BY <1>14, <1>20, SeqOfLengthZero, LenProperties DEF IsSequence
  <2>2. n # 1
    <3> SUFFICES ASSUME n = 1 PROVE FALSE
      OBVIOUS
    <3>1. Len(text) = Len(ws) /\ Len(text) = Len(p) + Len(z) /\ Len(p) = Len(ws) + Len(q)
      BY <1>4, <1>5, <1>7, <1>8, <1>14, ConcatText
    <3>2. Len(ws) \in Nat /\ Len(z) \in Nat
      BY <1>4, <1>8, ConcatText
    <3> QED BY <2>1, <3>1, <3>2
  <2> DEFINE b2 == blocks[2]
             s2 == GetBlockMetaData(b2, stale)
  <2>3. PICK r : IsSequence(r) /\ text = Cat(ws, Cat(d, Cat(s2, r)))
    BY <1>5, <2>2
  <2>4. IsSequence(s2) /\ 2 \in 1..n
    BY <1>1, <2>2, BlockText, EmptyText
  <2>5. \A i \in 1..MAX_TRANSACTIONS : b2.txs[i].amount \in Int
    BY <2>4 DEF IntAmounts
  <2> HIDE DEF s2, b2
  <2>6. IsSequence(Cat(s2, r))
    BY <2>3, <2>4, ConcatText
  <2> DEFINE sr == Cat(s2, r)
             dsr == Cat(d, sr)
  <2>7. IsSequence(dsr) /\ IsSequence(Cat(q, z)) /\ IsSequence(sr)
    BY <1>4, <1>8, <2>1, <2>6, ConcatText
  <2>8. Cat(ws, Cat(q, z)) = Cat(ws, dsr)
    <3>1. Cat(Cat(ws, q), z) = Cat(ws, Cat(q, z))
      BY <1>4, <1>8, <2>1, Regroup
    <3> QED BY <1>8, <1>14, <2>3, <3>1
  <2> HIDE DEF sr, dsr
  <2>9. Cat(q, z) = dsr
    <3> DEFINE qz == Cat(q, z)
    <3>1. IsSequence(qz) /\ Cat(ws, qz) = Cat(ws, dsr)
      BY <2>7, <2>8
    <3> HIDE DEF qz
    <3>2. qz = dsr
      BY <1>4, <2>7, <3>1, SameBehind
    <3> QED BY <3>2 DEF qz
  <2>10. PICK q2 : IsSequence(q2) /\ q = Cat(d, q2) /\ sr = Cat(q2, z)
    <3>1. Len(d) = 1 /\ Len(d) <= Len(q)
      BY <2>1, OneAtom
    <3>2. Cat(d, sr) = Cat(q, z)
      BY <2>9 DEF dsr
    <3>3. \E x : IsSequence(x) /\ Len(x) = Len(q) - Len(d) /\ q = Cat(d, x) /\ sr = Cat(x, z)
      <4>1. IsSequence(d) /\ IsSequence(sr) /\ IsSequence(q) /\ IsSequence(z)
        BY <1>4, <1>8, <2>1, <2>7
      <4>2. Len(d) <= Len(q)
        BY <3>1
      <4> HIDE DEF d
      <4> QED BY <3>2, <4>1, <4>2, TwoCuts
    <3> QED BY <3>3
  <2>11. IsSequence(Cat(q2, o)) /\ Cat(p, o) = Cat(ws, Cat(d, Cat(q2, o)))
    <3>1. IsSequence(Cat(q2, o)) /\ IsSequence(Cat(d, q2))
      BY <1>4, <2>10, ConcatText
    <3>2. Cat(q, o) = Cat(d, Cat(q2, o))
      <4> HIDE DEF d
      <4> QED BY <1>4, <2>10, Regroup
    <3> QED BY <1>15, <3>1, <3>2
  <2> DEFINE qo == Cat(q2, o)
             e == unpack_data(qo, Dash)
  <2>12. IsSequence(qo) /\ c = Cat(<<ws>>, e) /\ IsSequence(e) /\ Len(e) \in Nat \ {0}
    <3>1. IsSequence(qo) /\ get_packet(text, k) = Cat(ws, Cat(<<Dash>>, qo))
      BY <1>9, <2>11
    <3> HIDE DEF qo
    <3>2. c = Cat(<<ws>>, e)
      BY <1>4, <1>17, <3>1, CutFirst
    <3>3. Cuts(e)
      BY <3>1, CutShape
    <3> QED BY <3>1, <3>2, <3>3, LenProperties DEF Cuts, IsSequence
  <2>13. HoldsBlock(Fields(qo))
    <3> HIDE DEF qo
    <3>1. Line(qo) = e[1]
      BY DEF Line
    <3> HIDE DEF e
    <3>2. 1 \in 1..Len(e)
      BY <2>12
    <3>3. c[1 + 1] = e[1] /\ Len(c) = 1 + Len(e)
      BY <2>12, <3>2, FirstOfConcat
    <3>4. 1 + 1 \in 1..Len(c)
      BY <2>12, <3>3
    <3>5. HoldsBlock(unpack_data(e[1], Bar))
      BY <3>3, <3>4
    <3> QED BY <3>1, <3>5 DEF Fields
  <2> HIDE DEF e
  <2>14. Len(s2) <= Len(q2)
    <3> SUFFICES ASSUME ~(Len(s2) <= Len(q2)) PROVE FALSE
      OBVIOUS
    <3>1. Len(q2) \in Nat /\ Len(s2) \in Nat
      BY <2>4, <2>10, ConcatText
    <3>2. Len(q2) <= Len(s2) /\ Len(s2) - Len(q2) # 0
      BY <3>1
    <3>3. Cat(q2, z) = Cat(s2, r)
      BY <2>10 DEF sr
    <3>4. PICK x : IsSequence(x) /\ Len(x) = Len(s2) - Len(q2) /\ s2 = Cat(q2, x)
      BY <1>8, <2>3, <2>4, <2>10, <3>2, <3>3, TwoCuts
    <3>5. Len(x) # 0 /\ Cat(q2, x) = Cat(<<>>, GetBlockMetaData(b2, stale))
      BY <2>4, <3>2, <3>4, NothingAdded DEF s2
    <3>6. ~HoldsBlock(Fields(Cat(q2, <<Other>>)))
      BY <2>5, <2>10, <3>4, <3>5, FreeNothing, ShortBlock
    <3> QED BY <2>13, <3>6 DEF o
  <2>15. PICK q3 : IsSequence(q3) /\ q2 = Cat(s2, q3)
    <3>1. Cat(s2, r) = Cat(q2, z)
      BY <2>10 DEF sr
    <3> QED BY <1>8, <2>3, <2>4, <2>10, <2>14, <3>1, TwoCuts
  <2>16. MinLength(q2) >= 640 /\ MinLength(q2) \in Nat
    <3>1. MinLength(Cat(s2, q3)) >= 640 + MinLength(q3) /\ MinLength(Cat(s2, q3)) \in Nat
            /\ MinLength(q3) \in Nat
      BY <2>15, MinLengthBlock DEF s2
    <3>2. MinLength(q2) >= 640 + MinLength(q3)
      BY <2>15, <3>1
    <3> QED BY <2>15, <3>1, <3>2
  <2>17. MinLength(q) >= 641 /\ MinLength(q) \in Nat
    <3>1. MinLength(d) >= 1 /\ MinLength(d) \in Nat
      BY MinLengthAtom
    <3> HIDE DEF d
    <3>2. MinLength(Cat(d, q2)) = MinLength(d) + MinLength(q2)
      BY <1>4, <2>10, MinLengthConcat
    <3> QED BY <2>10, <2>16, <3>1, <3>2
  <2>18. MinLength(ws) >= 640 /\ MinLength(ws) \in Nat
    <3>1. MinLength(s) >= 640 /\ MinLength(s) \in Nat
      <4>1. MinLength(Cat(s, <<>>)) >= 640 + MinLength(<<>>)
              /\ MinLength(Cat(s, <<>>)) \in Nat /\ MinLength(<<>>) \in Nat
        BY EmptyText, MinLengthBlock DEF s
      <4>2. Cat(s, <<>>) = s
        BY <1>4, NothingAdded
      <4> QED BY <4>1, <4>2
    <3>2. MinLength(Cat(w, s)) = MinLength(w) + MinLength(s) /\ MinLength(w) \in Nat
      BY <1>4, MinLengthConcat
    <3> QED BY <3>1, <3>2 DEF ws
  <2>19. MinLength(p) = MinLength(ws) + MinLength(q)
    BY <1>4, <1>14, MinLengthConcat
  <2>20. MinLength(p) >= 1281 /\ PacketLen \in Nat /\ PacketLen <= 1280
    BY <2>17, <2>18, <2>19, PacketAssumption
  <2>21. FALSE
    BY <1>10, <2>17, <2>18, <2>19, <2>20
  <2> QED BY <2>21
<1> QED BY <1>19, <1>20

---------------------------------------------------------------------------
(* Whole replies: blocks, and transactions as the tests pack them.         *)

(* The pieces of a text are the fields of its lines.                       *)
LEMMA PiecesAre ==
    ASSUME NEW text, IsSequence(text), NEW c, c = unpack_data(text, Dash)
    PROVE  /\ Cuts(c) /\ Len(c) \in Nat \ {0} /\ IsSequence(c)
           /\ DOMAIN c = 1..Len(c) /\ DOMAIN Pieces(text) = 1..Len(c)
           /\ \A i \in 1..Len(c) : Pieces(text)[i] = unpack_data(c[i], Bar)
<1>1. Cuts(c)
  BY CutShape
<1>2. IsSequence(c) /\ DOMAIN c = 1..Len(c) /\ Len(c) \in Nat \ {0}
  BY <1>1, LenProperties DEF Cuts, IsSequence
<1>3. Pieces(text) = [i \in DOMAIN c |-> unpack_data(c[i], Bar)]
  BY DEF Pieces
<1> QED BY <1>1, <1>2, <1>3

(* Nothing but the command.                                                *)
LEMMA NoPieces ==
    ASSUME NEW w, Free(w)
    PROVE  /\ DOMAIN Pieces(w) = {1} /\ Len(Pieces(w)[1]) = 1
           /\ BlocksIn(w) = Dies /\ cmd_transactions_test(w) = Dies
<1> DEFINE q == Pieces(w)
<1>1. unpack_data(w, Dash) = <<w>>
  BY CutPlain DEF Free
<1>2. Pieces(w) = [i \in DOMAIN <<w>> |-> unpack_data(<<w>>[i], Bar)]
  BY <1>1 DEF Pieces
<1>3. unpack_data(w, Bar) = <<w>>
  BY CutPlain DEF Free
<1>4. DOMAIN q = {1} /\ q[1] = <<w>>
  BY <1>2, <1>3
<1> HIDE DEF q
<1>5. Len(q[1]) = 1
  BY <1>4
<1>6. ~HoldsBlock(q[1]) /\ ~HoldsTransaction(q[1], 2)
  BY <1>5 DEF HoldsBlock, HoldsTransaction
<1>7. BlocksIn(w) = Dies
  <2>1. ~\A i \in DOMAIN q : HoldsBlock(q[i])
    BY <1>4, <1>6
  <2> QED BY <2>1 DEF BlocksIn, q
<1>8. cmd_transactions_test(w) = Dies
  <2>1. ~\A i \in DOMAIN q : HoldsTransaction(q[i], 2)
    BY <1>4, <1>6
  <2> QED BY <2>1 DEF cmd_transactions_test, q
<1> QED BY <1>4, <1>5, <1>7, <1>8 DEF q

(* Only the first item has the command word in front of it.                *)
LEMMA LeadFree ==
    ASSUME NEW w, Free(w), NEW i
    PROVE  Free(Lead(w, i)) /\ IsSequence(Lead(w, i)) /\ Plain(Lead(w, i), Dash)
BY FreeNothing DEF Lead, Free

(* The blocks of a reply are read, all of them or none.                    *)
LEMMA BlocksRead ==
    ASSUME NEW w, Free(w), NEW blocks, IsSequence(blocks), Len(blocks) # 0,
           \A i \in 1..Len(blocks) : IntAmounts(blocks[i]),
           NEW stale \in [0..MAX_TRANSACTIONS -> Stale],
           NEW text, text = BlocksText(w, blocks, stale)
    PROVE  BlocksIn(text) =
             IF \A i \in 1..Len(blocks) : GoodBlock(blocks[i], stale)
             THEN Returns([i \in 1..Len(blocks) |-> BlockReadAs(blocks[i])])
             ELSE Dies
<1> DEFINE n == Len(blocks)
           texts == BlockTexts(blocks, stale)
           c == unpack_data(text, Dash)
           s(i) == Cat(Lead(w, i), texts[i])
           q == Pieces(text)
<1>1. /\ Texts(texts) /\ Len(texts) # 0 /\ Len(texts) = n /\ n \in Nat \ {0}
      /\ \A i \in 1..n : texts[i] = GetBlockMetaData(blocks[i], stale)
  BY BlockTextsAre
<1>2. text = Cat(w, Joined(texts)) /\ IsSequence(w)
  BY DEF BlocksText, Free
<1> HIDE DEF texts
<1>3. IsSequence(text)
  BY <1>1, <1>2, JoinedIs, ConcatText
<1>4. /\ Len(c) \in Nat \ {0} /\ DOMAIN q = 1..Len(c)
      /\ \A i \in 1..Len(c) : q[i] = unpack_data(c[i], Bar)
  BY <1>3, PiecesAre
<1>5. /\ \A i \in 1..n : \E j \in 1..Len(c) : c[j] = Line(s(i))
      /\ (\A i \in 1..n : Plain(s(i), Dash)) => Len(c) = n /\ \A i \in 1..n : c[i] = s(i)
  <2>1. c = unpack_data(Cat(w, Joined(texts)), Dash)
    BY <1>2
  <2> HIDE DEF c, n
  <2>2. CutsInto(c, w, texts)
    BY <1>1, <1>2, <2>1, JoinedPieces
  <2> QED BY <1>1, <2>2 DEF CutsInto
<1> HIDE DEF c, q, n
<1>6. ASSUME NEW i \in 1..n
      PROVE  /\ HoldsBlock(Fields(s(i))) <=> GoodBlock(blocks[i], stale)
             /\ GoodBlock(blocks[i], stale) => /\ BlockAt(Fields(s(i))) = BlockReadAs(blocks[i])
                                               /\ Plain(s(i), Dash) /\ IsSequence(s(i))
  <2> DEFINE b == blocks[i]
             t == GetBlockMetaData(b, stale)
             l == Lead(w, i)
  <2>1. \A k \in 1..MAX_TRANSACTIONS : b.txs[k].amount \in Int
    BY DEF IntAmounts, n
  <2>2. Free(l) /\ IsSequence(l) /\ Plain(l, Dash)
    BY LeadFree
  <2>3. IsSequence(t) /\ Cat(t, <<>>) = t /\ IsSequence(<<>>)
    BY BlockText, EmptyText, NothingAdded
  <2>4. s(i) = Cat(l, t) /\ Fields(s(i)) = Fields(Cat(l, Cat(t, <<>>)))
    BY <1>1, <2>3
  <2> HIDE DEF l, b
  <2>5. /\ HoldsBlock(Fields(Cat(l, Cat(t, <<>>)))) <=> GoodBlock(b, stale)
        /\ GoodBlock(b, stale) => BlockAt(Fields(Cat(l, Cat(t, <<>>)))) = BlockReadAs(b)
    BY <2>1, <2>2, <2>3, BlockFields
  <2>6. GoodBlock(b, stale) => Plain(t, Dash)
    <3>1. GoodBlock(b, stale) => (Plain(Cat(t, <<>>), Dash) <=> Plain(<<>>, Dash))
      BY <2>1, <2>3, PlainBlock
    <3> QED BY <2>3, <3>1, FreeNothing DEF Free
  <2> HIDE DEF t
  <2>7. IsSequence(Cat(l, t)) /\ (Plain(Cat(l, t), Dash) <=> Plain(l, Dash) /\ Plain(t, Dash))
    BY <2>2, <2>3, ConcatText, PlainConcat
  <2>8. IsSequence(s(i)) /\ (GoodBlock(b, stale) => Plain(s(i), Dash))
    BY <2>2, <2>4, <2>6, <2>7
  <2> HIDE DEF s
  <2> QED BY <2>4, <2>5, <2>8 DEF b
<1>7. CASE \A i \in 1..n : GoodBlock(blocks[i], stale)
  <2>1. Len(c) = n /\ \A i \in 1..n : c[i] = s(i)
    BY <1>5, <1>6, <1>7
  <2>2. ASSUME NEW i \in 1..n PROVE q[i] = Fields(s(i))
    <3>1. Line(s(i)) = s(i)
      BY <1>6, <1>7, LineAll
    <3>2. q[i] = unpack_data(s(i), Bar)
      BY <1>4, <2>1
    <3> QED BY <3>1, <3>2 DEF Fields
  <2>3. \A i \in 1..n : HoldsBlock(q[i]) /\ BlockAt(q[i]) = BlockReadAs(blocks[i])
    BY <1>6, <1>7, <2>2
  <2>4. DOMAIN q = 1..n
    BY <1>4, <2>1
  <2>5. [i \in DOMAIN q |-> BlockAt(q[i])] = [i \in 1..n |-> BlockReadAs(blocks[i])]
    BY <2>3, <2>4
  <2>6. BlocksIn(text) = Returns([i \in DOMAIN q |-> BlockAt(q[i])])
    BY <2>3, <2>4 DEF BlocksIn, q
  <2> QED BY <1>7, <2>5, <2>6 DEF n
<1>8. CASE ~\A i \in 1..n : GoodBlock(blocks[i], stale)
  <2>1. PICK i \in 1..n : ~GoodBlock(blocks[i], stale)
    BY <1>8
  <2>2. PICK j \in 1..Len(c) : c[j] = Line(s(i))
    BY <1>5
  <2>3. q[j] = Fields(s(i)) /\ j \in DOMAIN q
    BY <1>4, <2>2 DEF Fields
  <2>4. ~HoldsBlock(q[j])
    BY <1>6, <2>1, <2>3
  <2>5. BlocksIn(text) = Dies
    BY <2>3, <2>4 DEF BlocksIn, q
  <2> QED BY <1>8, <2>5 DEF n
<1> QED BY <1>7, <1>8

---------------------------------------------------------------------------
TransactionTexts(ts, st) == [i \in DOMAIN ts |-> <<Bar>> \o GetTransactionMetadata(ts[i], st)]

TransactionsText(w, ts, st) == Cat(w, Joined(TransactionTexts(ts, st)))

LEMMA TransactionTextsAre ==
    ASSUME NEW ts, IsSequence(ts), Len(ts) # 0, NEW st,
           NEW texts, texts = TransactionTexts(ts, st)
    PROVE  /\ Texts(texts) /\ Len(texts) # 0 /\ Len(texts) = Len(ts)
           /\ \A i \in 1..Len(ts) : texts[i] = Cat(<<Bar>>, GetTransactionMetadata(ts[i], st))
           /\ Len(ts) \in Nat \ {0}
<1> DEFINE n == Len(ts)
<1>1. DOMAIN ts = 1..n /\ n \in Nat \ {0}
  BY LenProperties DEF IsSequence
<1> HIDE DEF n
<1>2. /\ DOMAIN texts = 1..n /\ Len(texts) = n
      /\ \A i \in 1..n : texts[i] = Cat(<<Bar>>, GetTransactionMetadata(ts[i], st))
  BY <1>1 DEF TransactionTexts, Cat
<1>3. ASSUME NEW i \in 1..n PROVE IsSequence(texts[i])
  <2>1. IsSequence(GetTransactionMetadata(ts[i], st))
    BY TransactionText, EmptyText
  <2> QED BY <1>2, <2>1, OneAtom, ConcatText
<1> QED BY <1>1, <1>2, <1>3 DEF Texts, n

(* A list of transactions in the format of the tests is read, too.         *)
LEMMA TransactionsRead ==
    ASSUME NEW w, Free(w), NEW ts, IsSequence(ts), Len(ts) # 0,
           \A i \in 1..Len(ts) : ts[i].amount \in Int,
           NEW st \in Stale, NEW text, text = TransactionsText(w, ts, st)
    PROVE  cmd_transactions_test(text) =
             IF \A i \in 1..Len(ts) : GoodAmount(ts[i].amount, st)
             THEN Returns(Reverse([i \in 1..Len(ts) |-> ReadAs(ts[i])]))
             ELSE Dies
<1> DEFINE n == Len(ts)
           texts == TransactionTexts(ts, st)
           c == unpack_data(text, Dash)
           s(i) == Cat(Lead(w, i), texts[i])
           q == Pieces(text)
           Good(i) == GoodAmount(ts[i].amount, st)
<1>1. /\ Texts(texts) /\ Len(texts) # 0 /\ Len(texts) = n /\ n \in Nat \ {0}
      /\ \A i \in 1..n : texts[i] = Cat(<<Bar>>, GetTransactionMetadata(ts[i], st))
  BY TransactionTextsAre
<1>2. text = Cat(w, Joined(texts)) /\ IsSequence(w)
  BY DEF TransactionsText, Free
<1> HIDE DEF texts
<1>3. IsSequence(text)
  BY <1>1, <1>2, JoinedIs, ConcatText
<1>4. /\ Len(c) \in Nat \ {0} /\ DOMAIN q = 1..Len(c)
      /\ \A i \in 1..Len(c) : q[i] = unpack_data(c[i], Bar)
  BY <1>3, PiecesAre
<1>5. /\ \A i \in 1..n : \E j \in 1..Len(c) : c[j] = Line(s(i))
      /\ (\A i \in 1..n : Plain(s(i), Dash)) => Len(c) = n /\ \A i \in 1..n : c[i] = s(i)
  <2>1. c = unpack_data(Cat(w, Joined(texts)), Dash)
    BY <1>2
  <2> HIDE DEF c, n
  <2>2. CutsInto(c, w, texts)
    BY <1>1, <1>2, <2>1, JoinedPieces
  <2> QED BY <1>1, <2>2 DEF CutsInto
<1> HIDE DEF c, q, n, Good
<1>6. ASSUME NEW i \in 1..n
      PROVE  /\ HoldsTransaction(Fields(s(i)), 2) <=> Good(i)
             /\ Good(i) => /\ TransactionAt(Fields(s(i)), 2) = ReadAs(ts[i])
                           /\ Plain(s(i), Dash) /\ IsSequence(s(i))
  <2> DEFINE t == ts[i]
             m == GetTransactionMetadata(t, st)
             l == Lead(w, i)
             f == Fields(Cat(l, Cat(<<Bar>>, m)))
  <2>1. t.amount \in Int
    BY DEF n
  <2>2. Free(l) /\ IsSequence(l) /\ Plain(l, Dash)
    BY LeadFree
  <2>3. IsSequence(m) /\ Cat(m, <<>>) = m /\ IsSequence(<<>>)
    <3>1. IsSequence(<<>>)
      BY EmptyText
    <3>2. IsSequence(m)
      BY <3>1, TransactionText
    <3> HIDE DEF m
    <3> QED BY <3>1, <3>2, NothingAdded
  <2>4. s(i) = Cat(l, Cat(<<Bar>>, m))
    BY <1>1
  <2> HIDE DEF l, t
  <2>5. ReadsTransaction(t, st, <<>>, Fields(Cat(m, <<>>)))
    BY <2>1, <2>3, TransactionFields
  <2>6. Good(i) => Plain(m, Dash)
    <3>1. Good(i) => (Plain(Cat(m, <<>>), Dash) <=> Plain(<<>>, Dash))
      BY <2>1, <2>3, PlainTransaction DEF Good, t
    <3> QED BY <2>3, <3>1, FreeNothing DEF Free
  <2> HIDE DEF m
  <2>7. f = Cat(<<l>>, Fields(m)) /\ IsSequence(Fields(m)) /\ Len(Fields(m)) \in Nat
    BY <2>2, <2>3, FieldsBar, FieldsShape
  <2>8. Shifted(f, 1, Fields(m)) /\ 1 \in Nat
    <3> DEFINE g == Fields(m)
    <3>1. f = Cat(<<l>>, g) /\ IsSequence(g) /\ Len(g) \in Nat
      BY <2>7
    <3> HIDE DEF g
    <3>2. Heads(l, g, f)
      BY <3>1, FirstField
    <3>3. Shifted(f, 1, g)
      BY <3>2 DEF Shifted, Heads
    <3> QED BY <3>3 DEF g
  <2> HIDE DEF f
  <2>9. /\ HoldsTransaction(f, 1 + 1) <=> GoodAmount(t.amount, st)
        /\ GoodAmount(t.amount, st) => TransactionAt(f, 1 + 1) = ReadAs(t)
    BY <2>1, <2>3, <2>5, <2>8, TransactionHeld
  <2>10. 1 + 1 = 2 /\ Fields(s(i)) = f /\ (Good(i) <=> GoodAmount(t.amount, st))
    BY <2>4 DEF f, Good, t
  <2>11. IsSequence(s(i)) /\ (Good(i) => Plain(s(i), Dash))
    <3>1. IsSequence(<<Bar>>) /\ Plain(<<Bar>>, Dash)
      BY OneAtom, PlainAtom, BarIsNoDash
    <3> DEFINE bm == Cat(<<Bar>>, m)
    <3>2. IsSequence(bm) /\ (Plain(bm, Dash) <=> Plain(m, Dash))
      BY <2>3, <3>1, ConcatText, PlainConcat
    <3> HIDE DEF bm
    <3>3. IsSequence(Cat(l, bm)) /\ (Plain(Cat(l, bm), Dash) <=> Plain(l, Dash)
            /\ Plain(bm, Dash))
      BY <2>2, <3>2, ConcatText, PlainConcat
    <3> HIDE DEF s
    <3> QED BY <2>2, <2>4, <2>6, <3>2, <3>3 DEF bm
  <2> HIDE DEF s
  <2> QED BY <2>9, <2>10, <2>11 DEF t
<1>7. CASE \A i \in 1..n : Good(i)
  <2>1. Len(c) = n /\ \A i \in 1..n : c[i] = s(i)
    BY <1>5, <1>6, <1>7
  <2>2. ASSUME NEW i \in 1..n PROVE q[i] = Fields(s(i))
    <3>1. Line(s(i)) = s(i)
      BY <1>6, <1>7, LineAll
    <3>2. q[i] = unpack_data(s(i), Bar)
      BY <1>4, <2>1
    <3> QED BY <3>1, <3>2 DEF Fields
  <2>3. \A i \in 1..n : HoldsTransaction(q[i], 2) /\ TransactionAt(q[i], 2) = ReadAs(ts[i])
    BY <1>6, <1>7, <2>2
  <2>4. DOMAIN q = 1..n
    BY <1>4, <2>1
  <2>5. [i \in DOMAIN q |-> TransactionAt(q[i], 2)] = [i \in 1..n |-> ReadAs(ts[i])]
    BY <2>3, <2>4
  <2>6. cmd_transactions_test(text)
          = Returns(Reverse([i \in DOMAIN q |-> TransactionAt(q[i], 2)]))
    BY <2>3, <2>4 DEF cmd_transactions_test, q
  <2> QED BY <1>7, <2>5, <2>6 DEF n, Good
<1>8. CASE ~\A i \in 1..n : Good(i)
  <2>1. PICK i \in 1..n : ~Good(i)
    BY <1>8
  <2>2. PICK j \in 1..Len(c) : c[j] = Line(s(i))
    BY <1>5
  <2>3. q[j] = Fields(s(i)) /\ j \in DOMAIN q
    BY <1>4, <2>2 DEF Fields
  <2>4. ~HoldsTransaction(q[j], 2)
    BY <1>6, <2>1, <2>3
  <2>5. cmd_transactions_test(text) = Dies
    BY <2>3, <2>4 DEF cmd_transactions_test, q
  <2> QED BY <1>8, <2>5 DEF n, Good
<1> QED BY <1>7, <1>8

---------------------------------------------------------------------------
(* Transactions as they are sent.                                          *)

(* Where an amount stands, no address or half of a signature is read.      *)
LEMMA AmountIsNoHex ==
    ASSUME NEW n \in Int, NEW st \in Stale, NEW y, IsSequence(y)
    PROVE  Len(Fields(Cell(AmountText(n, st), y))) \in Nat \ {0}
           /\ ~IsHex(Fields(Cell(AmountText(n, st), y))[1])
<1> DEFINE m == AmountText(n, st)
           f == Fields(Cell(m, y))
           by == Cat(<<Bar>>, y)
<1>1. /\ IsSequence(m)
      /\ GoodAmount(n, st) => Free(m) /\ m # <<>> /\ m[1] = Num(Kept(n))
      /\ ~GoodAmount(n, st) =>
            \/ \E x : IsFree(x) /\ m = Cat(<<Dash>>, <<x>>)
            \/ \E x : m = Cat(<<Num(x)>>, <<Dash>>)
            \/ \E x : m = Cat(<<Num(x)>>, <<Bar>>)
  BY AmountField
<1> HIDE DEF m
<1>2. IsSequence(by) /\ IsSequence(Cell(m, y)) /\ Cell(m, y) = Cat(m, by)
  BY <1>1, OneAtom, ConcatText, CellIsText DEF Cell
<1>3. Len(f) \in Nat \ {0}
  BY <1>2, FieldsShape
<1>4. \A x : ~IsHex(<<Num(x)>>) /\ ~IsHex(<<>>)
  BY Kinds DEF IsHex
<1> HIDE DEF by
<1>5. ASSUME GoodAmount(n, st) PROVE ~IsHex(f[1])
  <2>1. f = Cat(<<m>>, Fields(y)) /\ IsSequence(Fields(y))
    BY <1>1, <1>5, FieldsCell, FieldsShape
  <2>2. Heads(m, Fields(y), f)
    BY <2>1, FirstField
  <2>3. f[1] = m /\ m[1] = Num(Kept(n))
    BY <1>1, <1>5, <2>2 DEF Heads
  <2>4. ~IsHex(m)
    BY <2>3, Kinds DEF IsHex
  <2> QED BY <2>3, <2>4
<1>6. ASSUME NEW x, m = Cat(<<Dash>>, <<x>>)
      PROVE  ~IsHex(f[1])
  <2> DEFINE xb == Cat(<<x>>, by)
             d == <<Dash>>
  <2>1. IsSequence(xb) /\ IsSequence(<<x>>) /\ IsSequence(d)
    BY <1>2, OneAtom, ConcatText
  <2>2. Cat(m, by) = Cat(d, xb)
    <3> HIDE DEF d
    <3>1. Cat(Cat(d, <<x>>), by) = Cat(d, Cat(<<x>>, by))
      BY <1>2, <2>1, Regroup
    <3> QED BY <1>6, <3>1 DEF d
  <2> HIDE DEF xb
  <2>3. Cat(<<>>, Cat(d, xb)) = Cat(d, xb)
    <3> HIDE DEF d
    <3> QED BY <2>1, ConcatText, NothingAdded
  <2>4. f = << <<>> >>
    BY <1>2, <2>1, <2>2, <2>3, FreeNothing, FieldsDash
  <2> HIDE DEF f
  <2>5. f[1] = <<>>
    BY <2>4
  <2> QED BY <1>4, <2>5
<1>7. ASSUME NEW x, NEW d, d \in {Dash, Bar}, m = Cat(<<Num(x)>>, <<d>>)
      PROVE  ~IsHex(f[1])
  <2> DEFINE v == <<Num(x)>>
             e == <<d>>
  <2>1. IsSequence(v) /\ IsSequence(e) /\ Free(v)
    BY OneAtom, Kinds, FreeAtom
  <2>2. Cat(m, by) = Cat(v, Cat(e, by))
    <3> HIDE DEF v, e
    <3>1. Cat(Cat(v, e), by) = Cat(v, Cat(e, by))
      BY <1>2, <2>1, Regroup
    <3> QED BY <1>7, <3>1 DEF v, e
  <2>3. CASE d = Dash
    <3>1. f = <<v>>
      <4> HIDE DEF v
      <4> QED BY <1>2, <2>1, <2>2, <2>3, FieldsDash
    <3> QED BY <1>4, <3>1
  <2>4. CASE d = Bar
    <3>1. f = Cat(<<v>>, Fields(by)) /\ IsSequence(Fields(by))
      <4> HIDE DEF v
      <4> QED BY <1>2, <2>1, <2>2, <2>4, FieldsBar, FieldsShape
    <3> HIDE DEF v, f
    <3>2. f[1] = v
      BY <3>1, FirstField DEF Heads
    <3> QED BY <1>4, <3>2 DEF v
  <2> QED BY <1>7, <2>3, <2>4
<1>8. ~IsHex(f[1])
  <2> HIDE DEF f
  <2> QED BY <1>1, <1>5, <1>6, <1>7
<1> QED BY <1>3, <1>8 DEF m

SentTexts(ts, st) == [i \in DOMAIN ts |-> GetTransactionMetadata(ts[i], st)]

SentText(w, ts, st) == Cat(w, Joined(SentTexts(ts, st)))

LEMMA SentTextsAre ==
    ASSUME NEW ts, IsSequence(ts), Len(ts) # 0, NEW st,
           NEW texts, texts = SentTexts(ts, st)
    PROVE  /\ Texts(texts) /\ Len(texts) # 0 /\ Len(texts) = Len(ts)
           /\ \A i \in 1..Len(ts) : texts[i] = GetTransactionMetadata(ts[i], st)
           /\ Len(ts) \in Nat \ {0}
<1> DEFINE n == Len(ts)
<1>1. DOMAIN ts = 1..n /\ n \in Nat \ {0}
  BY LenProperties DEF IsSequence
<1> HIDE DEF n
<1>2. /\ DOMAIN texts = 1..n /\ Len(texts) = n
      /\ \A i \in 1..n : texts[i] = GetTransactionMetadata(ts[i], st)
  BY <1>1 DEF SentTexts
<1>3. ASSUME NEW i \in 1..n PROVE IsSequence(texts[i])
  <2>1. IsSequence(GetTransactionMetadata(ts[i], st))
    BY TransactionText, EmptyText
  <2> QED BY <1>2, <2>1
<1> QED BY <1>1, <1>2, <1>3 DEF Texts, n

(* The format that is sent has no '|' behind the command: the amount is    *)
(* where the second address is looked for.                                 *)
LEMMA SentTransactionsDie ==
    ASSUME NEW w, Free(w), NEW ts, IsSequence(ts), Len(ts) # 0,
           \A i \in 1..Len(ts) : ts[i].amount \in Int,
           NEW st \in Stale, NEW text, text = SentText(w, ts, st)
    PROVE  cmd_transactions_test(text) = Dies
<1> DEFINE n == Len(ts)
           texts == SentTexts(ts, st)
           c == unpack_data(text, Dash)
           q == Pieces(text)
           t == ts[1]
           m == GetTransactionMetadata(t, st)
           f == Fields(Cat(w, m))
<1>1. /\ Texts(texts) /\ Len(texts) # 0 /\ Len(texts) = n /\ n \in Nat \ {0} /\ 1 \in 1..n
      /\ texts[1] = m
  <2>1. /\ Texts(texts) /\ Len(texts) # 0 /\ Len(texts) = n /\ n \in Nat \ {0}
        /\ \A i \in 1..n : texts[i] = GetTransactionMetadata(ts[i], st)
    BY SentTextsAre
  <2> HIDE DEF texts, n
  <2>2. 1 \in 1..n
    BY <2>1
  <2> QED BY <2>1, <2>2
<1>2. text = Cat(w, Joined(texts)) /\ IsSequence(w)
  BY DEF SentText, Free
<1> HIDE DEF texts
<1>3. IsSequence(text)
  BY <1>1, <1>2, JoinedIs, ConcatText
<1>4. /\ Len(c) \in Nat \ {0} /\ DOMAIN q = 1..Len(c)
      /\ \A i \in 1..Len(c) : q[i] = unpack_data(c[i], Bar)
  BY <1>3, PiecesAre
<1>5. PICK j \in 1..Len(c) : c[j] = Line(Cat(w, m))
  <2>1. c = unpack_data(Cat(w, Joined(texts)), Dash)
    BY <1>2
  <2> HIDE DEF c, n, m
  <2>2. CutsInto(c, w, texts)
    BY <1>1, <1>2, <2>1, JoinedPieces
  <2>3. 1 \in 1..Len(texts) /\ Lead(w, 1) = w
    BY <1>1 DEF Lead
  <2>4. \E j \in 1..Len(c) : c[j] = Line(Cat(Lead(w, 1), texts[1]))
    BY <2>2, <2>3 DEF CutsInto
  <2> QED BY <1>1, <2>3, <2>4
<1>6. q[j] = f /\ j \in DOMAIN q
  BY <1>4, <1>5 DEF Fields
<1>7. ~HoldsTransaction(f, 2)
  <2> DEFINE a1 == <<Hex(t.sender)>>
             a2 == <<Hex(t.receiver)>>
             y0 == Cell(<<Hex(t.signature[1])>>, Cell(<<Hex(t.signature[2])>>, <<>>))
             y1 == Cell(AmountText(t.amount, st), y0)
             y2 == Cell(a2, y1)
             wa == Cat(w, a1)
  <2>1. t.amount \in Int /\ IsSequence(m) /\ Cat(m, <<>>) = m
    <3>1. t.amount \in Int
      BY <1>1
    <3>2. IsSequence(m)
      BY TransactionText, EmptyText
    <3> HIDE DEF m
    <3> QED BY <3>1, <3>2, NothingAdded
  <2>2. Cat(m, <<>>) = Cell(a1, y2)
    <3> HIDE DEF t
    <3>1. IsSequence(<<>>)
      BY EmptyText
    <3>2. Cat(GetTransactionMetadata(t, st), <<>>)
          = Cell(<<Hex(t.sender)>>, Cell(<<Hex(t.receiver)>>,
                Cell(AmountText(t.amount, st),
                     Cell(<<Hex(t.signature[1])>>, Cell(<<Hex(t.signature[2])>>, <<>>)))))
      BY <3>1, TransactionText
    <3> QED BY <3>2
  <2>3. Free(a1) /\ Free(a2) /\ IsSequence(a1)
    BY Kinds, FreeAtom DEF Free
  <2>4. IsSequence(y0)
    BY OneAtom, EmptyText, CellIsText
  <2> HIDE DEF y0
  <2>5. IsSequence(y1) /\ IsSequence(Fields(y1)) /\ ~IsHex(Fields(y1)[1])
          /\ Len(Fields(y1)) \in Nat \ {0}
    <3>1. IsSequence(AmountText(t.amount, st))
      BY AmountText_Text
    <3>2. IsSequence(y1)
      BY <2>4, <3>1, CellIsText
    <3> HIDE DEF t
    <3> QED BY <2>1, <2>4, <3>2, AmountIsNoHex, FieldsShape
  <2> HIDE DEF y1, t, m
  <2>6. IsSequence(y2) /\ Fields(y2) = Cat(<<a2>>, Fields(y1)) /\ IsSequence(Fields(y2))
    BY <2>3, <2>5, CellIsText, FieldsCell, FieldsShape DEF Free
  <2> HIDE DEF a1, a2, y2
  <2>7. Free(wa) /\ Cat(w, m) = Cell(wa, y2)
    <3>1. Free(wa)
      BY <2>3, FreeConcat
    <3> DEFINE by == Cat(<<Bar>>, y2)
    <3>2. IsSequence(by)
      BY <2>6, OneAtom, ConcatText
    <3>3. m = Cat(a1, by)
      BY <2>1, <2>2 DEF Cell
    <3> HIDE DEF by
    <3>4. Cat(Cat(w, a1), by) = Cat(w, Cat(a1, by))
      BY <1>2, <2>3, <3>2, Regroup
    <3> QED BY <3>1, <3>3, <3>4 DEF Cell, by
  <2> HIDE DEF wa
  <2>8. f = Cat(<<wa>>, Fields(y2))
    BY <2>6, <2>7, FieldsCell
  <2> HIDE DEF f
  <2>9. Heads(wa, Fields(y2), f) /\ Heads(a2, Fields(y1), Fields(y2))
    BY <2>5, <2>6, <2>8, FirstField
  <2>10. f[2 + 1] = Fields(y1)[1]
    <3>1. \A i \in 1..Len(Fields(y1)) : f[2 + i] = Fields(y1)[i]
      BY <2>9, TwoHeads
    <3>2. 1 \in 1..Len(Fields(y1))
      BY <2>5
    <3> QED BY <3>1, <3>2
  <2>11. ~IsHex(f[2 + 1])
    BY <2>5, <2>10
  <2> QED BY <2>11 DEF HoldsTransaction
<1> HIDE DEF f
<1>8. cmd_transactions_test(text) = Dies
  BY <1>6, <1>7 DEF cmd_transactions_test, q
<1> QED BY <1>8

---------------------------------------------------------------------------
(* Hosts.                                                                  *)

IsHost(h) == h.port \in Int /\ IsSequence(h.address) /\ Plain(h.address, Bar)

HostTexts(hosts) ==
    [i \in DOMAIN hosts |->
        <<Bar>> \o Signed(hosts[i].port) \o <<Bar>> \o hosts[i].address \o <<Bar>>]

HostsText(w, hosts) == Cat(w, Joined(HostTexts(hosts)))

(* A port is one number, a negative one with a '-' in front.               *)
LEMMA SignedText ==
    ASSUME NEW n \in Int
    PROVE  /\ IsSequence(Signed(n))
           /\ n >= 0 => Signed(n) = <<Num(n)>>
           /\ n < 0 => \E x : IsFree(x) /\ Signed(n) = Cat(<<Dash>>, <<x>>)
<1>1. CASE n < 0
  <2>1. Signed(n) = <<Dash, Num(-n)>> /\ ~(n >= 0)
    BY <1>1 DEF Signed
  <2>2. Signed(n) = Cat(<<Dash>>, <<Num(-n)>>)
    BY <2>1 DEF Cat
  <2>3. IsFree(Num(-n)) /\ IsSequence(Signed(n))
    BY <2>1, Kinds, TwoAtomsText
  <2> QED BY <1>1, <2>1, <2>2, <2>3
<1>2. CASE ~(n < 0)
  <2>1. Signed(n) = <<Num(n)>>
    BY <1>2 DEF Signed
  <2>2. IsSequence(Signed(n))
    BY <2>1, OneAtom
  <2> QED BY <1>2, <2>1, <2>2
<1> QED BY <1>1, <1>2

LEMMA HostText ==
    ASSUME NEW n \in Int, NEW a, IsSequence(a)
    PROVE  /\ <<Bar>> \o Signed(n) \o <<Bar>> \o a \o <<Bar>>
              = Cat(<<Bar>>, Cell(Signed(n), Cell(a, <<>>)))
           /\ IsSequence(Cell(Signed(n), Cell(a, <<>>)))
           /\ IsSequence(Cell(a, <<>>))
<1> DEFINE s == Signed(n)
           b == <<Bar>>
           y == Cell(a, <<>>)
           sb == Cat(b, s)
           u == Cat(sb, b)
           by == Cat(b, y)
<1>1. IsSequence(s) /\ IsSequence(b) /\ IsSequence(<<>>)
  BY SignedText, OneAtom, EmptyText
<1>2. IsSequence(y)
  BY <1>1, CellIsText
<1>3. y = Cat(a, b)
  <2>1. Cat(b, <<>>) = b
    <3> HIDE DEF b
    <3> QED BY <1>1, NothingAdded
  <2> QED BY <2>1 DEF Cell
<1>4. <<Bar>> \o Signed(n) \o <<Bar>> \o a \o <<Bar>> = Cat(Cat(u, a), b)
  BY DEF Cat
<1>5. s = Signed(n) /\ b = <<Bar>> /\ y = Cell(a, <<>>)
  OBVIOUS
<1>6. Cell(s, y) = Cat(s, by)
  BY DEF Cell
<1> HIDE DEF s, b, y
<1>7. IsSequence(sb) /\ IsSequence(u) /\ IsSequence(by)
  BY <1>1, <1>2, ConcatText
<1>8. Cat(Cat(u, a), b) = Cat(u, y)
  <2> HIDE DEF u
  <2> QED BY <1>1, <1>3, <1>7, Regroup
<1>9. Cat(u, y) = Cat(sb, by)
  <2> HIDE DEF sb
  <2> QED BY <1>1, <1>2, <1>7, Regroup
<1>10. Cat(sb, by) = Cat(b, Cat(s, by))
  <2> HIDE DEF by
  <2> QED BY <1>1, <1>7, Regroup
<1>11. IsSequence(Cell(s, y))
  BY <1>1, <1>2, CellIsText
<1> QED BY <1>2, <1>4, <1>5, <1>6, <1>8, <1>9, <1>10, <1>11

LEMMA HostTextsAre ==
    ASSUME NEW hosts, IsSequence(hosts), Len(hosts) # 0,
           \A i \in 1..Len(hosts) : IsHost(hosts[i]),
           NEW texts, texts = HostTexts(hosts)
    PROVE  /\ Texts(texts) /\ Len(texts) # 0 /\ Len(texts) = Len(hosts)
           /\ \A i \in 1..Len(hosts) :
                 texts[i] = Cat(<<Bar>>, Cell(Signed(hosts[i].port),
                                              Cell(hosts[i].address, <<>>)))
           /\ Len(hosts) \in Nat \ {0}
<1> DEFINE n == Len(hosts)
           e(i) == Cat(<<Bar>>, Cell(Signed(hosts[i].port), Cell(hosts[i].address, <<>>)))
<1>1. DOMAIN hosts = 1..n /\ n \in Nat \ {0} /\ \A i \in 1..n : IsHost(hosts[i])
  BY LenProperties DEF IsSequence
<1> HIDE DEF n
<1>2. /\ DOMAIN texts = 1..n /\ Len(texts) = n
      /\ \A i \in 1..n : texts[i]
         = <<Bar>> \o Signed(hosts[i].port) \o <<Bar>> \o hosts[i].address \o <<Bar>>
  <2> DEFINE x(i) == <<Bar>> \o Signed(hosts[i].port) \o <<Bar>> \o hosts[i].address \o <<Bar>>
  <2>1. texts = [i \in DOMAIN hosts |-> x(i)]
    BY DEF HostTexts
  <2> HIDE DEF x
  <2>2. DOMAIN texts = 1..n /\ Len(texts) = n /\ \A i \in 1..n : texts[i] = x(i)
    BY <1>1, <2>1
  <2> QED BY <2>2 DEF x
<1>3. ASSUME NEW i \in 1..n PROVE texts[i] = e(i) /\ IsSequence(texts[i])
  <2> DEFINE p == hosts[i].port
             a == hosts[i].address
  <2>1. /\ p \in Int /\ IsSequence(a)
        /\ texts[i] = <<Bar>> \o Signed(p) \o <<Bar>> \o a \o <<Bar>>
    BY <1>1, <1>2 DEF IsHost
  <2> HIDE DEF p, a
  <2>2. texts[i] = Cat(<<Bar>>, Cell(Signed(p), Cell(a, <<>>)))
        /\ IsSequence(Cell(Signed(p), Cell(a, <<>>)))
    BY <2>1, HostText
  <2>3. IsSequence(texts[i])
    BY <2>2, OneAtom, ConcatText
  <2> QED BY <2>2, <2>3 DEF p, a
<1> HIDE DEF e
<1>4. \A i \in 1..n : texts[i] = e(i)
  BY <1>3
<1>5. Texts(texts)
  BY <1>1, <1>2, <1>3 DEF Texts
<1> QED BY <1>1, <1>2, <1>4, <1>5 DEF n, e

HoldsHost(f) == Len(f) >= 3 /\ IsNum(f[2])
HostAt(f) == [port |-> f[2][1].num, address |-> f[3]]

(* An address with a '-' is cut there,                                     *)
LEMMA DashInside ==
    ASSUME NEW a, IsSequence(a), Plain(a, Bar), ~Plain(a, Dash)
    PROVE  \E p, q : /\ Free(p) /\ IsSequence(q) /\ Plain(q, Bar)
                     /\ Cell(a, <<>>) = Cat(p, Cat(<<Dash>>, Cell(q, <<>>)))
<1>1. PICK p, q : /\ IsSequence(p) /\ IsSequence(q) /\ Plain(p, Dash)
                  /\ a = Cat(p, Cat(<<Dash>>, q))
  BY FirstCut
<1> DEFINE d == <<Dash>>
           b == Cat(<<Bar>>, <<>>)
           dq == Cat(d, q)
           qb == Cat(q, b)
<1>2. IsSequence(d) /\ IsSequence(b)
  BY OneAtom, EmptyText, ConcatText
<1>3. Cell(a, <<>>) = Cat(Cat(p, dq), b) /\ Cell(q, <<>>) = qb
  BY <1>1 DEF Cell
<1> HIDE DEF b
<1>4. IsSequence(dq) /\ IsSequence(qb)
  <2> HIDE DEF d
  <2> QED BY <1>1, <1>2, ConcatText
<1>5. Plain(p, Bar) /\ Plain(q, Bar)
  <2>1. Plain(Cat(p, dq), Bar)
    BY <1>1
  <2>2. Plain(p, Bar) /\ Plain(dq, Bar)
    <3> HIDE DEF dq
    <3> QED BY <1>1, <1>4, <2>1, PlainConcat
  <2> HIDE DEF d
  <2> QED BY <1>1, <1>2, <2>2, PlainConcat
<1>6. Cat(Cat(p, dq), b) = Cat(p, Cat(dq, b))
  <2> HIDE DEF dq
  <2> QED BY <1>1, <1>2, <1>4, Regroup
<1>7. Cat(dq, b) = Cat(d, qb)
  <2> HIDE DEF d
  <2> QED BY <1>1, <1>2, Regroup
<1>8. Free(p)
  BY <1>1, <1>5 DEF Free
<1> QED BY <1>1, <1>3, <1>5, <1>6, <1>7, <1>8

(* and what is left of it has too few fields, however often it is cut.     *)
LEMMA RestOfHost ==
    ASSUME NEW a, IsSequence(a), Plain(a, Bar)
    PROVE  ~HoldsHost(Fields(Cell(a, <<>>)))
<1> DEFINE f == Fields(Cell(a, <<>>))
<1>1. CASE Plain(a, Dash)
  <2>1. Free(a)
    BY <1>1 DEF Free
  <2>2. f = Cat(<<a>>, Fields(<<>>)) /\ Fields(<<>>) = << <<>> >>
    BY <2>1, EmptyText, FieldsCell, FreeNothing, FieldsAll
  <2>3. IsSequence(Fields(<<>>)) /\ Len(Fields(<<>>)) = 1
    BY <2>2, OneAtom
  <2>4. Heads(a, Fields(<<>>), f)
    <3> HIDE DEF f
    <3> QED BY <2>2, <2>3, FirstField
  <2>5. Len(f) = 2
    <3> DEFINE e == Fields(<<>>)
    <3>1. Heads(a, e, f) /\ Len(e) = 1
      BY <2>3, <2>4
    <3> HIDE DEF e, f
    <3> QED BY <3>1 DEF Heads
  <2> HIDE DEF f
  <2>6. ~HoldsHost(f)
    BY <2>5 DEF HoldsHost
  <2> QED BY <2>6 DEF f
<1>2. CASE ~Plain(a, Dash)
  <2>1. PICK p, q : /\ Free(p) /\ IsSequence(q)
                    /\ Cell(a, <<>>) = Cat(p, Cat(<<Dash>>, Cell(q, <<>>)))
    BY <1>2, DashInside
  <2>2. IsSequence(Cell(q, <<>>))
    BY <2>1, EmptyText, CellIsText
  <2>3. f = <<p>>
    BY <2>1, <2>2, FieldsDash
  <2> HIDE DEF f
  <2>4. ~HoldsHost(f)
    BY <2>3, OneAtom DEF HoldsHost
  <2> QED BY <2>4 DEF f
<1> QED BY <1>1, <1>2

(* A text that ends behind a '-' with the text z.                          *)
EndsWith(s, z) == \E x : IsSequence(x) /\ s = Cat(x, Cat(<<Dash>>, z))

LEMMA EndsBehind ==
    ASSUME NEW s, NEW z, IsSequence(z), EndsWith(s, z), NEW x, IsSequence(x)
    PROVE  EndsWith(Cell(x, s), z)
<1> DEFINE b == <<Bar>>
           dz == Cat(<<Dash>>, z)
<1>1. PICK y : IsSequence(y) /\ s = Cat(y, dz)
  BY DEF EndsWith
<1>2. IsSequence(b) /\ IsSequence(dz)
  BY OneAtom, ConcatText
<1>3. Cell(x, s) = Cat(x, Cat(b, s))
  BY DEF Cell
<1> DEFINE yb == Cat(b, y)
<1> HIDE DEF b, dz
<1>4. Cat(b, s) = Cat(yb, dz) /\ IsSequence(yb)
  BY <1>1, <1>2, Regroup, ConcatText
<1> HIDE DEF yb
<1>5. Cell(x, s) = Cat(Cat(x, yb), dz) /\ IsSequence(Cat(x, yb))
  BY <1>2, <1>3, <1>4, Regroup, ConcatText
<1> QED BY <1>5 DEF EndsWith, dz

(* The first line of what is behind a '-' is a piece of the text.          *)
LEMMA PieceBehind ==
    ASSUME NEW s, NEW z, IsSequence(z), EndsWith(s, z), NEW c, c = unpack_data(s, Dash)
    PROVE  \E k \in 1..Len(c) : c[k] = Line(z)
<1>1. PICK x : IsSequence(x) /\ s = Cat(x, Cat(<<Dash>>, z))
  BY DEF EndsWith
<1> DEFINE d == unpack_data(x, Dash)
           e == unpack_data(z, Dash)
<1>2. c = Cat(d, e)
  BY <1>1, CutSplit
<1>3. Cuts(d) /\ Cuts(e)
  BY <1>1, CutShape
<1>4. e[1] = Line(z)
  BY DEF Line
<1> HIDE DEF d, e
<1>5. /\ IsSequence(d) /\ Len(d) \in Nat /\ IsSequence(e) /\ Len(e) \in Nat \ {0}
  BY <1>3, LenProperties DEF Cuts, IsSequence
<1>6. Len(c) = Len(d) + Len(e) /\ Follows(d, e, c)
  BY <1>2, <1>5, ConcatText, ConcatAtoms
<1> DEFINE k == Len(d) + 1
<1>7. k \in 1..Len(c) /\ c[k] = e[1]
  <2>1. 1 \in 1..Len(e) /\ k \in 1..Len(c)
    BY <1>5, <1>6
  <2> QED BY <1>6, <2>1 DEF Follows
<1> HIDE DEF k
<1> QED BY <1>4, <1>7

(* What is read of a host in the format of the tests: the host, or a piece *)
(* that holds none.                                                        *)
LEMMA HostFields ==
    ASSUME NEW l, Free(l), NEW n \in Int, NEW a, IsSequence(a), Plain(a, Bar),
           NEW s, s = Cat(l, Cat(<<Bar>>, Cell(Signed(n), Cell(a, <<>>)))),
           NEW c, c = unpack_data(s, Dash)
    PROVE  /\ n >= 0 /\ Plain(a, Dash) =>
                 /\ HoldsHost(Fields(s))
                 /\ HostAt(Fields(s)) = [port |-> n, address |-> a]
                 /\ Plain(s, Dash)
           /\ ~(n >= 0 /\ Plain(a, Dash)) =>
                 \E k \in 1..Len(c) : ~HoldsHost(unpack_data(c[k], Bar))
           /\ IsSequence(s)
<1> DEFINE v == a
           y == Cell(v, <<>>)
           sy == Cell(Signed(n), y)
           f == Fields(s)
<1>1. IsSequence(sy) /\ IsSequence(y) /\ IsSequence(Signed(n)) /\ IsSequence(<<>>)
  BY HostText, SignedText, EmptyText
<1>2. s = Cell(l, sy) /\ IsSequence(l)
  BY DEF Cell, Free
<1>3. IsSequence(s)
  <2> HIDE DEF sy
  <2> QED BY <1>1, <1>2, CellIsText
<1>4. f = Cat(<<l>>, Fields(sy)) /\ IsSequence(Fields(sy)) /\ Len(Fields(sy)) \in Nat
  <2> HIDE DEF sy
  <2> QED BY <1>1, <1>2, FieldsCell, FieldsShape
<1>5. Heads(l, Fields(sy), f)
  <2> HIDE DEF sy, f
  <2> QED BY <1>4, FirstField
<1>6. CASE n >= 0 /\ Plain(a, Dash)
  <2> DEFINE u == <<Num(n)>>
  <2>0. Free(v)
    BY <1>6 DEF Free
  <2>1. Signed(n) = u /\ Free(u)
    BY <1>6, SignedText, Kinds, FreeAtom
  <2>2. Fields(y) = Cat(<<v>>, Fields(<<>>)) /\ IsSequence(Fields(<<>>)) /\ IsSequence(Fields(y))
    <3> HIDE DEF v
    <3> QED BY <1>1, <2>0, FieldsCell, FieldsShape
  <2>3. Fields(sy) = Cat(<<u>>, Fields(y))
    <3> HIDE DEF y, u
    <3> QED BY <1>1, <2>1, FieldsCell
  <2>4. Heads(v, Fields(<<>>), Fields(y)) /\ Heads(u, Fields(y), Fields(sy))
    <3> HIDE DEF v, u, y, sy
    <3> QED BY <2>2, <2>3, FirstField
  <2>5. Fields(<<>>) = << <<>> >>
    BY FreeNothing, FieldsAll
  <2>6. Len(f) >= 3 /\ f[2] = u /\ f[3] = v
    <3> HIDE DEF v, u, y, sy, f
    <3>1. /\ Len(Fields(y)) \in Nat /\ Len(f) = 2 + Len(Fields(y)) /\ f[2] = u
          /\ \A i \in 1..Len(Fields(y)) : f[2 + i] = Fields(y)[i]
      BY <1>5, <2>4, TwoHeads
    <3>2. Len(Fields(y)) = 1 + Len(Fields(<<>>)) /\ Fields(y)[1] = v /\ Len(Fields(<<>>)) \in Nat
      BY <2>4 DEF Heads
    <3>3. 1 \in 1..Len(Fields(y)) /\ 2 + 1 = 3 /\ Len(f) >= 3
      BY <3>1, <3>2
    <3>4. f[2 + 1] = Fields(y)[1]
      BY <3>1, <3>3
    <3> QED BY <3>1, <3>2, <3>3, <3>4
  <2>7. HoldsHost(f) /\ HostAt(f) = [port |-> n, address |-> a]
    <3> HIDE DEF f
    <3>1. IsNum(u) /\ u[1].num = n
      BY Kinds DEF IsNum
    <3> QED BY <2>6, <3>1 DEF HoldsHost, HostAt
  <2>8. Plain(s, Dash)
    <3>1. Plain(y, Dash) <=> Plain(<<>>, Dash)
      <4> HIDE DEF v
      <4> QED BY <1>1, <2>0, PlainCell
    <3>2. Plain(sy, Dash) <=> Plain(y, Dash)
      <4> HIDE DEF y, u
      <4> QED BY <1>1, <2>1, PlainCell
    <3>3. Plain(Cell(l, sy), Dash) <=> Plain(sy, Dash)
      <4> HIDE DEF sy
      <4> QED BY <1>1, PlainCell
    <3>4. Plain(<<>>, Dash)
      BY FreeNothing DEF Free
    <3> HIDE DEF sy, y
    <3> QED BY <1>2, <3>1, <3>2, <3>3, <3>4
  <2> QED BY <1>3, <1>6, <2>7, <2>8
<1>7. CASE n < 0
  <2>1. PICK x : IsFree(x) /\ Signed(n) = Cat(<<Dash>>, <<x>>)
    BY <1>7, SignedText
  <2> DEFINE d == <<Dash>>
             by == Cat(<<Bar>>, y)
             xb == Cat(<<x>>, by)
  <2>2. IsSequence(d) /\ IsSequence(<<x>>) /\ IsSequence(by)
    <3> HIDE DEF y
    <3> QED BY <1>1, OneAtom, ConcatText
  <2>3. sy = Cat(Signed(n), by)
    BY DEF Cell
  <2>4. Cat(Cat(d, <<x>>), by) = Cat(d, xb) /\ IsSequence(xb)
    <3> HIDE DEF d, by
    <3> QED BY <2>2, Regroup, ConcatText
  <2>5. sy = Cat(<<>>, Cat(d, xb))
    <3>1. sy = Cat(d, xb)
      <4> HIDE DEF sy, by, xb
      <4> QED BY <2>1, <2>3, <2>4
    <3> HIDE DEF d, xb, sy
    <3>2. IsSequence(Cat(d, xb))
      BY <2>2, <2>4, ConcatText
    <3> QED BY <3>1, <3>2, NothingAdded
  <2>6. Fields(sy) = << <<>> >>
    <3> HIDE DEF xb, sy
    <3> QED BY <2>4, <2>5, FreeNothing, FieldsDash
  <2>7. Len(Fields(sy)) = 1
    BY <2>6
  <2>8. Len(f) = 2
    <3> HIDE DEF f, sy
    <3> QED BY <1>5, <2>7 DEF Heads
  <2> HIDE DEF f
  <2>9. ~HoldsHost(f)
    BY <2>8 DEF HoldsHost
  <2>10. f = unpack_data(c[1], Bar) /\ 1 \in 1..Len(c)
    <3>1. Cuts(c)
      BY <1>3, CutShape
    <3>2. Len(c) \in Nat \ {0}
      BY <3>1, LenProperties DEF Cuts, IsSequence
    <3> QED BY <3>2 DEF f, Fields, Line
  <2>11. ~(n >= 0 /\ Plain(a, Dash))
    BY <1>7
  <2> QED BY <1>3, <2>9, <2>10, <2>11
<1>8. CASE n >= 0 /\ ~Plain(a, Dash)
  <2>1. PICK p, q : /\ Free(p) /\ IsSequence(q) /\ Plain(q, Bar)
                    /\ Cell(a, <<>>) = Cat(p, Cat(<<Dash>>, Cell(q, <<>>)))
    BY <1>8, DashInside
  <2> DEFINE z == Cell(q, <<>>)
  <2>2. IsSequence(z)
    BY <1>1, <2>1, CellIsText
  <2>3. ~HoldsHost(Fields(z))
    BY <2>1, RestOfHost
  <2> HIDE DEF z
  <2>4. EndsWith(y, z)
    BY <2>1 DEF EndsWith, Free, z
  <2> HIDE DEF y
  <2>5. EndsWith(sy, z)
    BY <1>1, <2>2, <2>4, EndsBehind
  <2> HIDE DEF sy
  <2>6. EndsWith(s, z)
    BY <1>2, <2>2, <2>5, EndsBehind
  <2>7. PICK k \in 1..Len(c) : c[k] = Line(z)
    BY <2>2, <2>6, PieceBehind
  <2>8. unpack_data(c[k], Bar) = Fields(z)
    BY <2>7 DEF Fields
  <2> QED BY <1>3, <1>8, <2>3, <2>8
<1> QED BY <1>6, <1>7, <1>8

(* The test of each piece, and what is read of it.                         *)
LEMMA HostsInDef ==
    ASSUME NEW text, NEW q, q = Pieces(text)
    PROVE  cmd_hosts_test(text) =
              IF \A i \in DOMAIN q : HoldsHost(q[i])
              THEN Returns([i \in DOMAIN q |-> HostAt(q[i])])
              ELSE Dies
BY DEF cmd_hosts_test, HoldsHost, HostAt

(* A list of hosts in the format of the tests is read unless a port is     *)
(* negative or an address holds a '-'.                                     *)
LEMMA HostsRead ==
    ASSUME NEW w, Free(w), NEW hosts, IsSequence(hosts), Len(hosts) # 0,
           \A i \in 1..Len(hosts) : IsHost(hosts[i]),
           NEW text, text = HostsText(w, hosts)
    PROVE  cmd_hosts_test(text) =
             IF \A i \in 1..Len(hosts) : hosts[i].port >= 0 /\ Plain(hosts[i].address, Dash)
             THEN Returns([i \in 1..Len(hosts) |->
                              [port |-> hosts[i].port, address |-> hosts[i].address]])
             ELSE Dies
<1> DEFINE n == Len(hosts)
           texts == HostTexts(hosts)
           c == unpack_data(text, Dash)
           s(i) == Cat(Lead(w, i), texts[i])
           q == Pieces(text)
           Good(i) == hosts[i].port >= 0 /\ Plain(hosts[i].address, Dash)
           item(i) == [port |-> hosts[i].port, address |-> hosts[i].address]
<1>1. /\ Texts(texts) /\ Len(texts) # 0 /\ Len(texts) = n /\ n \in Nat \ {0}
      /\ \A i \in 1..n :
            texts[i] = Cat(<<Bar>>, Cell(Signed(hosts[i].port), Cell(hosts[i].address, <<>>)))
  BY HostTextsAre
<1>2. text = Cat(w, Joined(texts)) /\ IsSequence(w)
  BY DEF HostsText, Free
<1> HIDE DEF texts
<1>3. IsSequence(text)
  BY <1>1, <1>2, JoinedIs, ConcatText
<1>4. /\ Len(c) \in Nat \ {0} /\ DOMAIN q = 1..Len(c)
      /\ \A i \in 1..Len(c) : q[i] = unpack_data(c[i], Bar)
  BY <1>3, PiecesAre
<1>5. /\ \A i \in 1..n : Within(unpack_data(s(i), Dash), c)
      /\ (\A i \in 1..n : Plain(s(i), Dash)) => Len(c) = n /\ \A i \in 1..n : c[i] = s(i)
  <2>1. c = unpack_data(Cat(w, Joined(texts)), Dash)
    BY <1>2
  <2> HIDE DEF c, n
  <2>2. CutsInto(c, w, texts)
    BY <1>1, <1>2, <2>1, JoinedPieces
  <2> QED BY <1>1, <2>2 DEF CutsInto
<1> DEFINE Cut(i) == unpack_data(s(i), Dash)
<1>6. ASSUME NEW i \in 1..n
      PROVE  /\ Good(i) => /\ HoldsHost(Fields(s(i))) /\ HostAt(Fields(s(i))) = item(i)
                           /\ Plain(s(i), Dash)
             /\ ~Good(i) => \E k \in 1..Len(Cut(i)) : ~HoldsHost(unpack_data(Cut(i)[k], Bar))
             /\ IsSequence(s(i))
  <2> DEFINE p == hosts[i].port
             a == hosts[i].address
             l == Lead(w, i)
             u == s(i)
             cu == unpack_data(u, Dash)
  <2>1. p \in Int /\ IsSequence(a) /\ Plain(a, Bar) /\ Free(l)
    BY LeadFree DEF IsHost
  <2>2. u = Cat(l, Cat(<<Bar>>, Cell(Signed(p), Cell(a, <<>>))))
    BY <1>1
  <2>3. cu = unpack_data(u, Dash)
    OBVIOUS
  <2> HIDE DEF p, a, l, u, cu
  <2>4. p >= 0 /\ Plain(a, Dash) =>
           /\ HoldsHost(Fields(u)) /\ HostAt(Fields(u)) = [port |-> p, address |-> a]
           /\ Plain(u, Dash)
    BY <2>1, <2>2, <2>3, HostFields
  <2>5. ~(p >= 0 /\ Plain(a, Dash)) =>
           \E k \in 1..Len(cu) : ~HoldsHost(unpack_data(cu[k], Bar))
    BY <2>1, <2>2, <2>3, HostFields
  <2>6. IsSequence(u)
    BY <2>1, <2>2, <2>3, HostFields
  <2> QED BY <2>4, <2>5, <2>6 DEF p, a, u, cu
<1> HIDE DEF Cut
<1> HIDE DEF c, q, n, Good, item
<1>7. CASE \A i \in 1..n : Good(i)
  <2>1. Len(c) = n /\ \A i \in 1..n : c[i] = s(i)
    BY <1>5, <1>6, <1>7
  <2>2. ASSUME NEW i \in 1..n PROVE q[i] = Fields(s(i))
    <3>1. Line(s(i)) = s(i)
      BY <1>6, <1>7, LineAll
    <3>2. q[i] = unpack_data(s(i), Bar)
      BY <1>4, <2>1
    <3> QED BY <3>1, <3>2 DEF Fields
  <2>3. \A i \in 1..n : HoldsHost(q[i]) /\ HostAt(q[i]) = item(i)
    BY <1>6, <1>7, <2>2
  <2>4. DOMAIN q = 1..n
    BY <1>4, <2>1
  <2>5. [i \in DOMAIN q |-> HostAt(q[i])] = [i \in 1..n |-> item(i)]
    BY <2>3, <2>4
  <2>6. cmd_hosts_test(text) = Returns([i \in DOMAIN q |-> HostAt(q[i])])
    <3>1. \A i \in DOMAIN q : HoldsHost(q[i])
      BY <2>3, <2>4
    <3>2. q = Pieces(text)
      BY DEF q
    <3> QED BY <3>1, <3>2, HostsInDef
  <2>7. cmd_hosts_test(text) = Returns([i \in 1..n |-> item(i)])
    BY <2>5, <2>6
  <2> QED BY <1>7, <2>7 DEF n, Good, item
<1>8. CASE ~\A i \in 1..n : Good(i)
  <2>1. PICK i \in 1..n : ~Good(i)
    BY <1>8
  <2>2. PICK k \in 1..Len(Cut(i)) : ~HoldsHost(unpack_data(Cut(i)[k], Bar))
    BY <1>6, <2>1
  <2>3. PICK j \in 1..Len(c) : c[j] = Cut(i)[k]
    BY <1>5 DEF Within, Cut
  <2>4. j \in DOMAIN q /\ ~HoldsHost(q[j])
    BY <1>4, <2>2, <2>3
  <2>5. cmd_hosts_test(text) = Dies
    <3>1. q = Pieces(text)
      BY DEF q
    <3> QED BY <2>4, <3>1, HostsInDef
  <2> QED BY <1>8, <2>5 DEF n, Good
<1> QED BY <1>7, <1>8

SentHostTexts(hosts) ==
    [i \in DOMAIN hosts |->
        Signed(hosts[i].port) \o <<Bar>> \o hosts[i].address \o <<Dash>>]

SentHostsText(w, hosts) == Cat(w, FlattenSeq(SentHostTexts(hosts)))

(* The list that is sent has a '-' behind every host, and behind the last  *)
(* one an empty piece.                                                     *)
LEMMA SentHostsDie ==
    ASSUME NEW w, IsSequence(w), NEW hosts, IsSequence(hosts), Len(hosts) # 0,
           \A i \in 1..Len(hosts) : IsHost(hosts[i]),
           NEW text, text = SentHostsText(w, hosts)
    PROVE  /\ cmd_hosts_test(text) = Dies
           /\ \E y : IsSequence(y) /\ text = Cat(w, y)
<1> DEFINE n == Len(hosts)
           s == SentHostTexts(hosts)
           h(i) == Cat(Cat(Signed(hosts[i].port), <<Bar>>), hosts[i].address)
           d == <<Dash>>
           c == unpack_data(text, Dash)
           q == Pieces(text)
<1>1. DOMAIN hosts = 1..n /\ n \in Nat \ {0} /\ n \in 1..n
        /\ \A i \in 1..n : IsHost(hosts[i])
  <2>1. DOMAIN hosts = 1..n /\ n \in Nat /\ n # 0 /\ \A i \in 1..n : IsHost(hosts[i])
    BY LenProperties DEF IsSequence
  <2> HIDE DEF n
  <2> QED BY <2>1
<1> HIDE DEF n
<1>2. /\ DOMAIN s = 1..n /\ Len(s) = n
      /\ \A i \in 1..n :
            s[i] = Signed(hosts[i].port) \o <<Bar>> \o hosts[i].address \o <<Dash>>
  <2> DEFINE x(i) == Signed(hosts[i].port) \o <<Bar>> \o hosts[i].address \o <<Dash>>
  <2>1. s = [i \in DOMAIN hosts |-> x(i)]
    BY DEF SentHostTexts
  <2> HIDE DEF x, s
  <2>2. DOMAIN s = 1..n /\ Len(s) = n /\ \A i \in 1..n : s[i] = x(i)
    BY <1>1, <2>1
  <2> QED BY <2>2 DEF x
<1> HIDE DEF s
<1>3. ASSUME NEW i \in 1..n PROVE s[i] = Cat(h(i), d) /\ IsSequence(h(i)) /\ IsSequence(s[i])
  <2> DEFINE p == Signed(hosts[i].port)
             a == hosts[i].address
             pb == Cat(p, <<Bar>>)
  <2>1. IsSequence(p) /\ IsSequence(<<Bar>>) /\ IsSequence(a) /\ IsSequence(d)
    BY <1>1, SignedText, OneAtom DEF IsHost
  <2>2. s[i] = Cat(Cat(pb, a), d)
    BY <1>2 DEF Cat
  <2>3. h(i) = Cat(pb, a)
    OBVIOUS
  <2> HIDE DEF a, d, h
  <2>4. IsSequence(pb)
    <3> HIDE DEF p
    <3> QED BY <2>1, ConcatText
  <2> HIDE DEF pb
  <2>5. IsSequence(h(i))
    BY <2>1, <2>3, <2>4, ConcatText
  <2>6. s[i] = Cat(h(i), d)
    BY <2>2, <2>3
  <2>7. IsSequence(s[i])
    BY <2>1, <2>5, <2>6, ConcatText
  <2> QED BY <2>5, <2>6, <2>7
<1> HIDE DEF h
<1>4. PICK g : Joins(g, s) /\ FlattenSeq(s) = g[n]
  BY <1>1, <1>2, <1>3, FlattenIs
<1>5. \E x : IsSequence(x) /\ g[n] = Cat(x, d)
  <2>1. CASE n = 1
    BY <1>1, <1>3, <1>4, <2>1 DEF Joins
  <2>2. CASE n # 1
    <3>1. n - 1 \in 1..n /\ n \in 2..n
      BY <1>1, <2>2
    <3>2. IsSequence(g[n - 1]) /\ g[n] = Cat(g[n - 1], s[n])
      BY <1>2, <1>4, <3>1 DEF Joins
    <3>3. s[n] = Cat(h(n), d) /\ IsSequence(h(n)) /\ IsSequence(d)
      BY <1>1, <1>3, OneAtom
    <3> DEFINE e == g[n - 1]
               hn == h(n)
    <3> HIDE DEF d, e, hn
    <3>4. Cat(e, Cat(hn, d)) = Cat(Cat(e, hn), d) /\ IsSequence(Cat(e, hn))
      BY <3>2, <3>3, Regroup, ConcatText DEF e, hn
    <3> QED BY <3>2, <3>3, <3>4 DEF e, hn
  <2> QED BY <2>1, <2>2
<1>6. PICK x : IsSequence(x) /\ g[n] = Cat(x, d)
  BY <1>5
<1>7. IsSequence(d) /\ IsSequence(Cat(w, x)) /\ text = Cat(Cat(w, x), d)
  <2>1. text = Cat(w, g[n])
    BY <1>4 DEF SentHostsText, s
  <2>2. IsSequence(d)
    BY OneAtom
  <2> HIDE DEF d
  <2> QED BY <1>6, <2>1, <2>2, Regroup, ConcatText
<1> DEFINE wx == Cat(w, x)
           cx == unpack_data(wx, Dash)
<1>8. IsSequence(wx) /\ text = Append(wx, Dash)
  <2>1. IsSequence(wx) /\ text = Cat(wx, <<Dash>>)
    BY <1>7
  <2> HIDE DEF wx
  <2> QED BY <2>1, CatOne
<1> HIDE DEF wx
<1>9. c = Next1(cx, Dash, Dash) /\ Cuts(cx)
  BY <1>8, CutAppend, CutShape
<1>10. Len(c) = Len(cx) + 1 /\ c[Len(cx) + 1] = <<>> /\ Len(cx) \in Nat
  <2> HIDE DEF c, cx
  <2> QED BY <1>9, Next1Shape
<1>11. IsSequence(text)
  BY <1>7, ConcatText
<1>12. /\ DOMAIN q = 1..Len(c)
       /\ \A i \in 1..Len(c) : q[i] = unpack_data(c[i], Bar)
  BY <1>11, PiecesAre
<1> HIDE DEF c, cx, q
<1>13. Len(c) \in DOMAIN q /\ q[Len(c)] = << <<>> >>
  <2>1. Len(c) \in 1..Len(c) /\ c[Len(c)] = <<>>
    BY <1>10
  <2> QED BY <1>12, <2>1, CutOne
<1>14. ~HoldsHost(q[Len(c)])
  <2>1. Len(q[Len(c)]) = 1
    BY <1>13
  <2> QED BY <2>1 DEF HoldsHost
<1>15. q = Pieces(text)
  BY DEF q
<1>16. cmd_hosts_test(text) = Dies
  BY <1>13, <1>14, <1>15, HostsInDef
<1>17. \E y : IsSequence(y) /\ text = Cat(w, y)
  <2>1. IsSequence(d)
    BY OneAtom
  <2> HIDE DEF d
  <2>2. IsSequence(g[n])
    BY <1>6, <2>1, ConcatText
  <2>3. text = Cat(w, g[n])
    BY <1>4 DEF SentHostsText, s
  <2> QED BY <2>2, <2>3
<1> QED BY <1>16, <1>17

---------------------------------------------------------------------------
(* The digits of an amount.                                                *)

(* The powers of ten.                                                      *)
LEMMA PowersOfTen ==
    /\ TenTo[0] = 1
    /\ \A d \in Nat : TenTo[d] \in Nat \ {0} /\ TenTo[d + 1] = 10 * TenTo[d]
<1> DEFINE step == [d \in Nat |-> [v \in Nat |-> 10 * v]]
<1>1. step \in [Nat -> [Nat -> Nat]] /\ 1 \in Nat
  OBVIOUS
<1>2. PICK f : Iterates(f, Nat, Nat, 1, step)
  <2> HIDE DEF step
  <2> QED BY <1>1, Recursion
<1>3. f \in [Nat -> Nat] /\ \A d \in Nat : f[d] = IF d = 0 THEN 1 ELSE step[d][f[d - 1]]
  BY <1>2 DEF Iterates
<1>4. \A d \in Nat : f[d] = IF d = 0 THEN 1 ELSE 10 * f[d - 1]
  <2>1. ASSUME NEW d \in Nat, d # 0 PROVE step[d][f[d - 1]] = 10 * f[d - 1]
    <3>1. d - 1 \in Nat
      BY <2>1
    <3>2. f[d - 1] \in Nat
      BY <1>3, <3>1
    <3> QED BY <3>2
  <2> HIDE DEF step
  <2> QED BY <1>3, <2>1
<1>5. f = [d \in Nat |-> IF d = 0 THEN 1 ELSE 10 * f[d - 1]]
  BY <1>3, <1>4
<1>6. TenTo = [d \in Nat |-> IF d = 0 THEN 1 ELSE 10 * TenTo[d - 1]]
  BY <1>5 DEF TenTo
<1>7. TenTo[0] = 1 /\ \A d \in Nat : TenTo[d + 1] = 10 * TenTo[d]
  <2>1. \A d \in Nat : TenTo[d] = IF d = 0 THEN 1 ELSE 10 * TenTo[d - 1]
    BY <1>6
  <2>2. \A d \in Nat : d + 1 \in Nat /\ d + 1 # 0 /\ (d + 1) - 1 = d
    OBVIOUS
  <2> QED BY <2>1, <2>2
<1> DEFINE T == {d \in Nat : TenTo[d] \in Nat \ {0}}
<1>8. 0 \in T
  BY <1>7
<1>9. ASSUME NEW d \in Nat, d \in T PROVE d + 1 \in T
  BY <1>7, <1>9
<1> HIDE DEF T
<1>10. Nat \subseteq T
  BY <1>8, <1>9, Induction
<1>11. \A d \in Nat : TenTo[d] \in Nat \ {0}
  BY <1>10 DEF T
<1> QED BY <1>7, <1>11

(* Exponents add up.                                                       *)
LEMMA PowersOfTenAdd ==
    ASSUME NEW m \in Nat, NEW n \in Nat
    PROVE  TenTo[m + n] = TenTo[m] * TenTo[n]
<1> DEFINE T == {k \in Nat : TenTo[m + k] = TenTo[m] * TenTo[k]}
<1>0. \A d \in Nat : TenTo[d] \in Nat
  BY PowersOfTen
<1>1. 0 \in T
  BY <1>0, PowersOfTen
<1>2. ASSUME NEW k \in Nat, k \in T PROVE k + 1 \in T
  <2>1. TenTo[m + k] = TenTo[m] * TenTo[k]
    BY <1>2
  <2>2. m + k \in Nat /\ m + (k + 1) = (m + k) + 1
    OBVIOUS
  <2>3. TenTo[m + (k + 1)] = 10 * TenTo[m + k] /\ TenTo[k + 1] = 10 * TenTo[k]
    BY <2>2, PowersOfTen
  <2>4. TenTo[m] \in Nat /\ TenTo[k] \in Nat
    BY <1>0
  <2>5. TenTo[m + (k + 1)] = TenTo[m] * TenTo[k + 1]
    BY <2>1, <2>3, <2>4
  <2> QED BY <2>5
<1> HIDE DEF T
<1>3. Nat \subseteq T
  BY <1>1, <1>2, Induction
<1> QED BY <1>3 DEF T

(* Each power is at least ten times the one before.                        *)
LEMMA PowersOfTenGrow ==
    ASSUME NEW m \in Nat, NEW n \in Nat, m <= n
    PROVE  TenTo[m] <= TenTo[n] /\ (m < n => 10 * TenTo[m] <= TenTo[n])
<1> DEFINE k == n - m
<1>1. k \in Nat /\ m + k = n
  OBVIOUS
<1> HIDE DEF k
<1>2. TenTo[n] = TenTo[m] * TenTo[k]
  BY <1>1, PowersOfTenAdd
<1>3. TenTo[m] \in Nat \ {0} /\ TenTo[k] \in Nat \ {0}
  BY <1>1, PowersOfTen
<1>4. TenTo[m] * TenTo[k] >= TenTo[m]
  BY <1>3
<1>5. ASSUME m < n PROVE 10 * TenTo[m] <= TenTo[n]
  <2>1. k - 1 \in Nat /\ (k - 1) + 1 = k
    BY <1>1, <1>5
  <2>2. TenTo[k] = 10 * TenTo[k - 1] /\ TenTo[k - 1] \in Nat \ {0}
    <3>1. TenTo[(k - 1) + 1] = 10 * TenTo[k - 1]
      BY <2>1, PowersOfTen
    <3> QED BY <2>1, <3>1, PowersOfTen
  <2> DEFINE a == TenTo[m]
             b == TenTo[k - 1]
  <2>3. a \in Nat \ {0} /\ b \in Nat \ {0} /\ TenTo[n] = a * (10 * b)
    BY <1>2, <1>3, <2>2
  <2> HIDE DEF a, b
  <2>4. a * (10 * b) = 10 * (a * b) /\ a * b >= a
    BY <2>3
  <2>5. 10 * a <= TenTo[n]
    BY <2>3, <2>4
  <2> QED BY <2>5 DEF a
<1> QED BY <1>2, <1>3, <1>4, <1>5

(* So many digits, and no fewer, make the number.                          *)
LEMMA DigitsAre ==
    ASSUME NEW n \in Nat, NEW d, d = Digits(n)
    PROVE  d \in Nat \ {0} /\ n < TenTo[d] /\ (d > 1 => n >= TenTo[d - 1])
<1> DEFINE K == {k \in Nat : k >= 1 /\ n < TenTo[k]}
           T == {k \in Nat : k < TenTo[k]}
<1>1. 0 \in T
  BY PowersOfTen
<1>2. ASSUME NEW k \in Nat, k \in T PROVE k + 1 \in T
  BY <1>2, PowersOfTen
<1> HIDE DEF T
<1>3. Nat \subseteq T
  BY <1>1, <1>2, Induction
<1>4. n + 1 \in K
  <2>1. n + 1 \in T
    BY <1>3
  <2>2. n + 1 < TenTo[n + 1] /\ TenTo[n + 1] \in Nat
    BY <2>1, PowersOfTen DEF T
  <2> QED BY <2>2
<1>5. PICK k \in K : \A j \in K : k <= j
  <2>1. K \in SUBSET Nat /\ K # {}
    BY <1>4
  <2> HIDE DEF K
  <2> QED BY <2>1, LeastNumber
<1>6. k \in 1..n + 1 /\ n < TenTo[k]
  BY <1>4, <1>5
<1>7. k > 1 => n >= TenTo[k - 1]
  <2>1. ASSUME k > 1 PROVE n >= TenTo[k - 1]
    <3>1. k - 1 \in Nat /\ k - 1 >= 1 /\ k - 1 \notin K
      BY <1>5, <1>6, <2>1
    <3>2. TenTo[k - 1] \in Nat
      BY <3>1, PowersOfTen
    <3> QED BY <3>1, <3>2
  <2> QED BY <2>1
<1>8. d = CHOOSE x \in 1..n + 1 : /\ n < TenTo[x]
                                  /\ x > 1 => n >= TenTo[x - 1]
  BY DEF Digits
<1>9. d \in 1..n + 1 /\ n < TenTo[d] /\ (d > 1 => n >= TenTo[d - 1])
  <2> HIDE DEF K
  <2> QED BY <1>6, <1>7, <1>8
<1> QED BY <1>9

(* At most m digits are those of a number below the m-th power.            *)
LEMMA DigitsAtMost ==
    ASSUME NEW n \in Nat, NEW m \in Nat \ {0}
    PROVE  Digits(n) <= m <=> n < TenTo[m]
<1> DEFINE d == Digits(n)
<1>1. d \in Nat \ {0} /\ n < TenTo[d] /\ (d > 1 => n >= TenTo[d - 1])
  BY DigitsAre
<1> HIDE DEF d
<1>2. TenTo[d] \in Nat /\ TenTo[m] \in Nat
  BY <1>1, PowersOfTen
<1>3. ASSUME d <= m PROVE n < TenTo[m]
  <2>1. TenTo[d] <= TenTo[m]
    BY <1>1, <1>3, PowersOfTenGrow
  <2> QED BY <1>1, <1>2, <2>1
<1>4. ASSUME ~(d <= m) PROVE ~(n < TenTo[m])
  <2>1. d - 1 \in Nat /\ m <= d - 1 /\ d > 1
    BY <1>1, <1>4
  <2>2. TenTo[m] <= TenTo[d - 1] /\ TenTo[d - 1] \in Nat
    BY <2>1, PowersOfTenGrow, PowersOfTen
  <2> QED BY <1>1, <1>2, <2>1, <2>2
<1> QED BY <1>3, <1>4 DEF d

LEMMA QuotientBelow ==
    ASSUME NEW n \in Nat, NEW a \in Nat \ {0}, NEW b \in Nat
    PROVE  /\ n \div a \in Nat
           /\ n \div a < b <=> n < a * b
<1> DEFINE q == n \div a
           r == n % a
<1>1. q \in Nat /\ r \in 0..a - 1 /\ n = a * q + r
  OBVIOUS
<1> HIDE DEF q, r
<1>2. ASSUME q < b PROVE n < a * b
  <2>1. q + 1 <= b
    BY <1>1, <1>2
  <2>2. a * (q + 1) <= a * b
    BY <1>1, <2>1
  <2>3. a * (q + 1) = a * q + a
    BY <1>1
  <2>4. a * q \in Nat /\ a * b \in Nat
    BY <1>1
  <2> QED BY <1>1, <2>2, <2>3, <2>4
<1>3. ASSUME ~(q < b) PROVE ~(n < a * b)
  <2>1. a * b <= a * q
    BY <1>1, <1>3
  <2>2. a * q \in Nat /\ a * b \in Nat
    BY <1>1
  <2> QED BY <1>1, <2>1, <2>2
<1> QED BY <1>1, <1>2, <1>3 DEF q

(* A short amount leaves bytes of its buffer as they were: of fewer digits *)
(* than the buffer has places but three.                                   *)
LEMMA GoodIsUndivided ==
    ASSUME NEW n \in Int, NEW st
    PROVE  GoodAmount(n, st) <=> Undivided(n, st)
<1>1. CASE n < 0
  BY <1>1 DEF GoodAmount, Undivided
<1>2. CASE ~(n < 0)
  <2> DEFINE q == n \div TenTo[Decimals]
             m == BufferLen - 3 - Decimals
             t == TenTo[Decimals]
  <2>1. Decimals \in Nat /\ BufferLen \in Nat /\ m \in Nat \ {0}
          /\ m + Decimals = BufferLen - 3 /\ n \in Nat
    BY <1>2, BufferAssumption
  <2>2. t \in Nat \ {0} /\ TenTo[m] \in Nat
    BY <2>1, PowersOfTen
  <2>3. q \in Nat /\ (q < TenTo[m] <=> n < t * TenTo[m])
    BY <2>1, <2>2, QuotientBelow
  <2>4. TenTo[BufferLen - 3] = TenTo[m] * t
    <3>1. TenTo[m + Decimals] = TenTo[m] * TenTo[Decimals]
      BY <2>1, PowersOfTenAdd
    <3> QED BY <2>1, <3>1
  <2>5. TenTo[m] * t = t * TenTo[m]
    BY <2>2
  <2>6. Printed(n) = Digits(q) + 1 + Decimals
    BY DEF Printed
  <2> HIDE DEF q, m, t
  <2>7. Digits(q) <= m <=> q < TenTo[m]
    BY <2>1, <2>3, DigitsAtMost
  <2>8. Digits(q) \in Nat
    BY <2>3, DigitsAre
  <2>9. Printed(n) + 1 < BufferLen <=> Digits(q) <= m
    BY <2>1, <2>6, <2>8 DEF m
  <2>10. Printed(n) + 1 < BufferLen <=> n < TenTo[BufferLen - 3]
    BY <2>3, <2>4, <2>5, <2>7, <2>9
  <2> QED BY <1>2, <2>10 DEF GoodAmount, Undivided
<1> QED BY <1>1, <1>2

(* Quotient and remainder, and when nothing remains.                       *)
LEMMA Division ==
    ASSUME NEW n \in Nat, NEW a \in Nat \ {0}
    PROVE  /\ n \div a \in Nat /\ n % a \in 0..a - 1
           /\ n = (n \div a) * a + (n % a)
           /\ n - (n % a) = n <=> n % a = 0
           /\ (n \div a) * a = n <=> n % a = 0
<1> DEFINE q == n \div a
           r == n % a
<1>1. q \in Int /\ r \in 0..a - 1 /\ n = a * q + r
  OBVIOUS
<1>2. q \in Nat
  BY QuotientBelow
<1> HIDE DEF q, r
<1>3. n = q * a + r /\ (n - r = n <=> r = 0) /\ (q * a = n <=> r = 0)
  <2>1. q * a \in Nat /\ q * a = a * q
    BY <1>2
  <2> QED BY <1>1, <2>1
<1> QED BY <1>1, <1>2, <1>3 DEF q, r

(* From what snprintf keeps of an amount the amount is restored exactly if *)
(* it is so from some number of decimals that fit in the buffer together   *)
(* with the whole part.                                                    *)
LEMMA KeptIsRestored ==
    ASSUME NEW n \in Amounts \cap Nat
    PROVE  stof(Kept(n)) = n <=> Restored(n)
<1> DEFINE q == n \div TenTo[Decimals]
           g == Digits(q)
           over == IF g + 1 + Decimals < BufferLen THEN 0
                   ELSE (g + 1 + Decimals) - BufferLen + 1
           K == IF over <= Decimals THEN n - (n % TenTo[over])
                ELSE (n \div TenTo[over - 1]) * TenTo[Decimals]
<1>1. /\ Decimals \in Nat /\ BufferLen \in Nat /\ BufferLen > Decimals + 3
      /\ TenTo[Decimals] \in Nat \ {0}
  BY BufferAssumption, PowersOfTen
<1>2. q \in Nat
  BY <1>1, QuotientBelow
<1>3. g \in Nat \ {0} /\ q < TenTo[g] /\ (g > 1 => q >= TenTo[g - 1])
  BY <1>2, DigitsAre
<1>4. Kept(n) = K
  BY DEF Kept, Overlong, Printed
<1> DEFINE T(d) == Truncated(n, d)
           S == \E d \in 0..Decimals : /\ stof(T(d)) = n
                                       /\ g + (IF d = 0 THEN 0 ELSE d + 1) < BufferLen
<1>5. Restored(n) <=> S
  BY DEF Restored
<1>5a. /\ stof(n) = n
       /\ \A d \in 0..Decimals : stof(T(d)) = n => \A e \in d..Decimals : stof(T(e)) = n
       /\ 2 * Kept(n) < n => stof(Kept(n)) # n
  BY FloatAssumption
<1>5b. \A d \in 0..Decimals : T(d) = n - (n % TenTo[Decimals - d])
  BY DEF Truncated
<1> HIDE DEF T
<1>0. \A a \in Nat \ {0} :
         /\ n \div a \in Nat /\ n % a \in Nat
         /\ n = (n \div a) * a + (n % a)
         /\ (n \div a) * a = n <=> n % a = 0
  <2> SUFFICES ASSUME NEW a \in Nat \ {0}
               PROVE  /\ n \div a \in Nat /\ n % a \in Nat
                      /\ n = (n \div a) * a + (n % a)
                      /\ (n \div a) * a = n <=> n % a = 0
    OBVIOUS
  <2>1. \A k \in 0..a - 1 : k \in Nat
    OBVIOUS
  <2> QED BY <2>1, Division
<1>6. n = q * TenTo[Decimals] + (n % TenTo[Decimals]) /\ n % TenTo[Decimals] \in Nat
  <2> DEFINE a == TenTo[Decimals]
  <2>1. a \in Nat \ {0}
    BY <1>1
  <2> HIDE DEF a
  <2>2. n = (n \div a) * a + (n % a) /\ n % a \in Nat
    BY <1>0, <2>1
  <2> QED BY <2>2 DEF a
<1> HIDE DEF q, g
<1>7. over \in Nat
  BY <1>1, <1>3
<1>8. \A d \in Nat : TenTo[d] \in Nat \ {0}
  BY PowersOfTen
<1>9. n % 1 = 0
  <2>1. n % 1 \in 0..1 - 1
    BY Division
  <2> QED BY <2>1
<1>10. CASE over = 0
  <2>1. K = n
    BY <1>1, <1>9, <1>10, PowersOfTen
  <2>2. S
    <3>1. Decimals \in 0..Decimals /\ Decimals - Decimals = 0
      BY <1>1
    <3>2. g + (IF Decimals = 0 THEN 0 ELSE Decimals + 1) < BufferLen
      BY <1>1, <1>3, <1>10
    <3>3. T(Decimals) = n
      <4>1. T(Decimals) = n - (n % TenTo[0])
        BY <1>5b, <3>1
      <4> QED BY <1>9, <4>1, PowersOfTen
    <3> QED BY <1>5a, <3>1, <3>2, <3>3
  <2> HIDE DEF S, K
  <2> QED BY <1>4, <1>5, <1>5a, <2>1, <2>2
<1>11. CASE over # 0 /\ over <= Decimals
  <2>1. K = n - (n % TenTo[over]) /\ over = (g + 1 + Decimals) - BufferLen + 1
    BY <1>11
  <2> DEFINE d == Decimals - over
  <2>2. d \in 0..Decimals /\ Decimals - d = over
    BY <1>1, <1>7, <1>11
  <2>3. T(d) = n - (n % TenTo[Decimals - d])
    BY <1>5b, <2>2
  <2>4. K = T(d)
    BY <2>1, <2>2, <2>3
  <2> HIDE DEF K, d
  <2>5. ASSUME stof(T(d)) = n PROVE S
    <3>1. g + (IF d = 0 THEN 0 ELSE d + 1) < BufferLen
      <4> HIDE DEF over
      <4>1. g = over + BufferLen - 2 - Decimals
        BY <1>1, <1>3, <1>7, <2>1
      <4> QED BY <1>1, <1>3, <1>7, <2>2, <4>1, <1>11
    <3> QED BY <2>2, <2>5, <3>1
  <2>6. ASSUME S PROVE stof(T(d)) = n
    <3>1. PICK e \in 0..Decimals : /\ stof(T(e)) = n
                                   /\ g + (IF e = 0 THEN 0 ELSE e + 1) < BufferLen
      BY <2>6
    <3>2. d \in e..Decimals
      <4> HIDE DEF over
      <4> QED BY <1>1, <1>3, <1>7, <1>11, <2>1, <2>2, <3>1
    <3> QED BY <1>5a, <3>1, <3>2
  <2> HIDE DEF S
  <2> QED BY <1>4, <1>5, <2>4, <2>5, <2>6
<1>12. CASE over = Decimals + 1
  <2>1. g = BufferLen - 1 /\ over - 1 = Decimals
    BY <1>1, <1>3, <1>12
  <2>2. K = q * TenTo[Decimals]
    BY <1>1, <1>12, <2>1 DEF q
  <2>3. K = T(0)
    <3> DEFINE a == TenTo[Decimals]
               m == n \div a
               r == n % a
    <3>1. a \in Nat \ {0} /\ K = m * a /\ T(0) = n - r
      <4>1. 0 \in 0..Decimals /\ Decimals - 0 = Decimals
        BY <1>1
      <4>2. T(0) = n - (n % TenTo[Decimals - 0])
        BY <1>5b, <4>1
      <4> QED BY <1>1, <2>2, <4>1, <4>2 DEF q
    <3> HIDE DEF a, K
    <3>2. m \in Nat /\ n = m * a + r /\ r \in Nat
      BY <1>0, <3>1
    <3> HIDE DEF m, r
    <3>3. m * a \in Nat
      BY <3>1, <3>2
    <3> QED BY <3>1, <3>2, <3>3
  <2>4. S <=> stof(T(0)) = n
    <3>1. ASSUME S PROVE stof(T(0)) = n
      <4>1. PICK d \in 0..Decimals : /\ stof(T(d)) = n
                                     /\ g + (IF d = 0 THEN 0 ELSE d + 1) < BufferLen
        BY <3>1
      <4>2. d = 0
        BY <1>1, <2>1, <4>1
      <4> QED BY <4>1, <4>2
    <3>2. ASSUME stof(T(0)) = n PROVE S
      <4>1. 0 \in 0..Decimals /\ g + 0 < BufferLen
        BY <1>1, <2>1
      <4> QED BY <3>2, <4>1
    <3> HIDE DEF S
    <3> QED BY <3>1, <3>2
  <2> HIDE DEF S, K
  <2> QED BY <1>4, <1>5, <2>3, <2>4
<1>13. CASE over > Decimals + 1
  <2>1. g >= BufferLen /\ over - 1 \in Nat /\ Decimals < over - 1 /\ over > Decimals /\ g > 1
    BY <1>1, <1>3, <1>7, <1>13
  <2>2. ~S
    BY <1>1, <1>3, <2>1
  <2> DEFINE a == TenTo[Decimals]
             b == TenTo[over - 1]
             c == TenTo[g - 1]
             r == n % a
             m == n \div b
  <2>3. K = m * a
    <3>1. ~(over <= Decimals)
      BY <1>1, <1>7, <2>1
    <3> QED BY <3>1
  <2>4. a \in Nat \ {0} /\ b \in Nat \ {0} /\ 10 * a <= b /\ c \in Nat \ {0} /\ q >= c
    <3>1. g - 1 \in Nat
      BY <1>3
    <3> QED BY <1>1, <1>3, <1>8, <2>1, <3>1, PowersOfTenGrow
  <2>5. m \in Nat /\ n = m * b + (n % b) /\ n % b \in Nat
    <3> HIDE DEF b
    <3> QED BY <1>0, <2>4
  <2>6. n = q * a + r /\ r \in Nat
    BY <1>6
  <2> HIDE DEF a, b, c, r, m, K, over
  <2>7. n > 0
    <3>1. q >= 1 /\ a >= 1 /\ q \in Nat /\ a \in Nat
      BY <1>2, <2>4
    <3>2. \A x, y \in Nat : x >= 1 /\ y >= 1 => x * y >= 1 /\ x * y \in Nat
      OBVIOUS
    <3>3. q * a >= 1 /\ q * a \in Nat
      BY <3>1, <3>2
    <3> QED BY <2>6, <3>3
  <2>8. 2 * (m * a) < n
    <3>1. CASE m = 0
      BY <2>4, <2>7, <3>1
    <3>2. CASE m > 0
      <4>1. m * b >= m * (10 * a)
        BY <2>4, <2>5
      <4>2. m * (10 * a) = 10 * (m * a) /\ m * a \in Nat /\ m * a > 0
        BY <2>4, <2>5, <3>2
      <4>3. m * b > 2 * (m * a) /\ m * b \in Nat
        BY <2>4, <2>5, <4>1, <4>2
      <4> HIDE DEF K
      <4> QED BY <2>5, <4>2, <4>3
    <3> QED BY <2>5, <3>1, <3>2
  <2>9. 2 * Kept(n) < n
    BY <1>4, <2>3, <2>8 DEF K
  <2> HIDE DEF S
  <2> QED BY <1>5, <1>5a, <2>2, <2>9
<1>14. over = 0 \/ (over # 0 /\ over <= Decimals) \/ over = Decimals + 1 \/ over > Decimals + 1
  BY <1>1, <1>7
<1> QED BY <1>10, <1>11, <1>12, <1>13, <1>14

---------------------------------------------------------------------------
(* The order in which pool and hosts are gone through.                     *)

Lists(ts, S) ==
    /\ IsSequence(ts) /\ Len(ts) \in Nat /\ DOMAIN ts = 1..Len(ts)
    /\ Range(ts) = S

(* A set that is listed without repetition, as long as it is, is listed    *)
(* completely.                                                             *)
LEMMA ListedOnce ==
    ASSUME NEW S, IsFiniteSet(S), NEW ts \in [1..Cardinality(S) -> S], IsInjective(ts)
    PROVE  Lists(ts, S) /\ Len(ts) = Cardinality(S)
<1> DEFINE n == Cardinality(S)
<1>1. n \in Nat /\ Cardinality(1..n) = n
  <2>1. n \in Nat
    BY FS_CardinalityType
  <2> HIDE DEF n
  <2> QED BY <2>1, FS_Interval
<1>2. ts \in Injection(1..n, S)
  BY DEF Injection
<1>3. ts \in Surjection(1..n, S)
  <2> HIDE DEF n
  <2>1. n = Cardinality(S)
    BY DEF n
  <2> QED BY <1>1, <1>2, <2>1, FS_Injection
<1>4. \A s \in S : \E i \in 1..n : ts[i] = s
  BY <1>3 DEF Surjection
<1>5. Range(ts) = S
  <2>1. DOMAIN ts = 1..n /\ \A i \in 1..n : ts[i] \in S
    OBVIOUS
  <2> HIDE DEF n
  <2> QED BY <1>4, <2>1 DEF Range
<1>6. ts \in Seq(S) /\ Len(ts) = n /\ DOMAIN ts = 1..n
  <2>1. ts \in [1..n -> S]
    OBVIOUS
  <2> HIDE DEF n
  <2>2. ts \in Seq(S)
    BY <1>1, <2>1
  <2> QED BY <1>1, <2>1, <2>2, LenProperties
<1>7. IsSequence(ts)
  BY <1>6, OfItsElements
<1> HIDE DEF n
<1>8. Len(ts) \in Nat /\ DOMAIN ts = 1..Len(ts)
  BY <1>1, <1>6
<1> QED BY <1>5, <1>6, <1>7, <1>8 DEF Lists, n

(* So SetToSeq lists all hosts.                                            *)
LEMMA HostsInSomeOrder ==
    ASSUME NEW S, IsFiniteSet(S)
    PROVE  Lists(SetToSeq(S), S) /\ Len(SetToSeq(S)) = Cardinality(S)
<1>1. PICK f \in [1..Cardinality(S) -> S] : IsInjective(f)
  <2>1. ExistsBijection(1..Cardinality(S), S)
    BY FS_CardinalityType
  <2> QED BY <2>1 DEF ExistsBijection, Bijection, Injection
<1>2. SetToSeq(S) \in [1..Cardinality(S) -> S] /\ IsInjective(SetToSeq(S))
  BY <1>1 DEF SetToSeq
<1> QED BY <1>2, ListedOnce

(* Amounts that are numbers have the order of the numbers.                 *)
LEMMA OrderOfNumbers ==
    ASSUME NEW s, NEW t, s.amount \in Int, t.amount \in Int
    PROVE  /\ Less(s, t) <=> s.amount < t.amount
           /\ Equivalent(s, t) <=> s.amount = t.amount
<1>1. s.amount # NaN /\ t.amount # NaN
  BY NaNAssumption
<1>2. Less(s, t) <=> s.amount < t.amount
  BY <1>1 DEF Less, Below
<1>3. Less(t, s) <=> t.amount < s.amount
  BY <1>1 DEF Less, Below
<1> QED BY <1>2, <1>3 DEF Equivalent

(* The pool, in the order of the amounts: each transaction has the place   *)
(* of the number of those before it.                                       *)
LEMMA PoolInOrder ==
    ASSUME NEW S, IsFiniteSet(S), IsPool(S), \A t \in S : t.amount \in Int
    PROVE  Lists(InOrder(S), S) /\ Len(InOrder(S)) = Cardinality(S)
<1> DEFINE n == Cardinality(S)
           Before(t) == {u \in S : Less(u, t)}
           rank == [t \in S |-> Cardinality(Before(t)) + 1]
<1>0. /\ \A s, t, r \in S : Less(s, t) /\ Less(t, r) => Less(s, r)
      /\ \A s \in S : ~Less(s, s)
  <2>1. \A s, t \in S : Less(s, t) <=> s.amount < t.amount
    BY OrderOfNumbers
  <2> QED BY <2>1
<1>1. n \in Nat /\ IsFiniteSet(1..n) /\ Cardinality(1..n) = n
  <2>1. n \in Nat
    BY FS_CardinalityType
  <2> HIDE DEF n
  <2>2. IsFiniteSet(1..n) /\ Cardinality(1..n) = n
    BY <2>1, FS_Interval
  <2> QED BY <2>1, <2>2
<1>2. ASSUME NEW t \in S
      PROVE  /\ IsFiniteSet(Before(t)) /\ Cardinality(Before(t)) \in Nat
             /\ Cardinality(Before(t)) < n
  <2>1. Before(t) \in SUBSET S /\ t \notin Before(t)
    BY <1>0
  <2> HIDE DEF Before
  <2>2. /\ IsFiniteSet(Before(t)) /\ Cardinality(Before(t)) <= n
        /\ Cardinality(Before(t)) # n
    BY <2>1, FS_Subset
  <2>3. Cardinality(Before(t)) \in Nat
    BY <2>2, FS_CardinalityType
  <2> HIDE DEF n
  <2> QED BY <1>1, <2>2, <2>3
<1>3. ASSUME NEW s \in S, NEW t \in S, Less(s, t)
      PROVE  rank[s] < rank[t]
  <2>1. Before(s) \in SUBSET Before(t) /\ s \in Before(t) /\ s \notin Before(s)
    BY <1>0, <1>3
  <2> HIDE DEF Before
  <2>2. /\ Cardinality(Before(s)) <= Cardinality(Before(t))
        /\ Cardinality(Before(s)) # Cardinality(Before(t))
    BY <1>2, <2>1, FS_Subset
  <2> DEFINE a == Cardinality(Before(s))
             b == Cardinality(Before(t))
  <2>3. a \in Nat /\ b \in Nat /\ rank[s] = a + 1 /\ rank[t] = b + 1 /\ a <= b /\ a # b
    BY <1>2, <2>2
  <2> HIDE DEF a, b, rank
  <2> QED BY <2>3
<1>4. \A s, t \in S : s # t => Less(s, t) \/ Less(t, s)
  BY DEF IsPool, Equivalent
<1>5. rank \in [S -> 1..n]
  <2>1. ASSUME NEW t \in S PROVE rank[t] \in 1..n
    <3> DEFINE a == Cardinality(Before(t))
    <3>1. a \in Nat /\ a < n /\ rank[t] = a + 1
      BY <1>2
    <3> HIDE DEF a, n, rank, Before
    <3> QED BY <1>1, <3>1
  <2> HIDE DEF n
  <2>2. rank = [t \in S |-> rank[t]]
    OBVIOUS
  <2> HIDE DEF rank
  <2> QED BY <2>1, <2>2
<1>6. \A t \in S : rank[t] \in 1..n
  <2> HIDE DEF n, rank
  <2> QED BY <1>5
<1> HIDE DEF rank, Before
<1>7. IsInjective(rank)
  <2>1. DOMAIN rank = S
    BY <1>5
  <2>2. ASSUME NEW s \in S, NEW t \in S, rank[s] = rank[t] PROVE s = t
    <3> HIDE DEF n
    <3>1. rank[s] \in Int /\ rank[t] \in Int
      BY <1>1, <1>6
    <3> QED BY <1>3, <1>4, <2>2, <3>1
  <2> QED BY <2>1, <2>2 DEF IsInjective
<1>8. rank \in Surjection(S, 1..n)
  <2>1. rank \in Injection(S, 1..n)
    BY <1>5, <1>7 DEF Injection
  <2>2. n = Cardinality(S)
    OBVIOUS
  <2> HIDE DEF n
  <2> QED BY <1>1, <2>1, <2>2, FS_Injection
<1> DEFINE ts == [i \in 1..n |-> CHOOSE t \in S : rank[t] = i]
<1>9. \A i \in 1..n : ts[i] \in S /\ rank[ts[i]] = i
  <2> HIDE DEF n
  <2>1. ASSUME NEW i \in 1..n PROVE \E t \in S : rank[t] = i
    BY <1>8 DEF Surjection
  <2> QED BY <2>1
<1>10. ts \in [1..n -> S]
  <2> HIDE DEF n
  <2> QED BY <1>9
<1>11. ASSUME NEW i \in 1..n, NEW j \in 1..n, i < j PROVE Less(ts[i], ts[j])
  <2> HIDE DEF n, ts
  <2>1. ts[i] # ts[j]
    BY <1>1, <1>9, <1>11
  <2>2. ~Less(ts[j], ts[i])
    <3>1. ASSUME Less(ts[j], ts[i]) PROVE FALSE
      <4>1. rank[ts[j]] < rank[ts[i]]
        BY <1>3, <1>9, <3>1
      <4>2. j < i
        BY <1>9, <4>1
      <4> QED BY <1>1, <1>11, <4>2
    <3> QED BY <3>1
  <2> QED BY <1>4, <1>9, <2>1, <2>2
<1> DEFINE Ordered(f) == \A i, j \in DOMAIN f : i < j => Less(f[i], f[j])
<1>12. Ordered(ts)
  <2>1. DOMAIN ts = 1..n
    OBVIOUS
  <2> HIDE DEF n, ts
  <2> QED BY <1>11, <2>1
<1>13. InOrder(S) = CHOOSE f \in [1..n -> S] : Ordered(f)
  BY DEF InOrder
<1> DEFINE os == InOrder(S)
<1>14. os \in [1..n -> S] /\ Ordered(os)
  <2> HIDE DEF n, ts, Ordered
  <2> QED BY <1>10, <1>12, <1>13
<1>15. IsInjective(os)
  <2> HIDE DEF os
  <2>1. DOMAIN os = 1..n
    BY <1>14
  <2> HIDE DEF n
  <2>2. ASSUME NEW i \in 1..n, NEW j \in 1..n, i < j, os[i] = os[j] PROVE FALSE
    <3>1. Less(os[i], os[j]) /\ os[i] \in S
      BY <1>14, <2>1, <2>2
    <3> QED BY <1>0, <2>2, <3>1
  <2>3. \A i, j \in 1..n : i < j \/ j < i \/ i = j
    BY <1>1
  <2> QED BY <2>1, <2>2, <2>3 DEF IsInjective
<1> QED BY <1>14, <1>15, ListedOnce

---------------------------------------------------------------------------
(* Signed transactions and settled blocks, and what arrives of them.       *)

(* What a user with an address of his own has signed.                      *)
Sealed(t) ==
    /\ t.amount \in Amounts \cap Int
    /\ t = CreateTransaction([key |-> t.sender, address |-> t.sender], t.receiver, t.amount)

(* The fields of a signed transaction.                                     *)
LEMMA SealedFields ==
    ASSUME NEW t, Sealed(t)
    PROVE  /\ t = [sender |-> t.sender, receiver |-> t.receiver, amount |-> t.amount,
                   signature |-> t.signature]
           /\ t.signature = CreateSignature(t.sender,
                                HashTransaction(t.sender, t.receiver, t.amount))
           /\ t.signature = <<t.signature[1], t.signature[2]>>
<1> DEFINE user == [key |-> t.sender, address |-> t.sender]
           sig == CreateSignature(t.sender, HashTransaction(t.sender, t.receiver, t.amount))
<1>1. t = CreateTransaction(user, t.receiver, t.amount) /\ user.key = t.sender
        /\ user.address = t.sender
  BY DEF Sealed
<1>2. t = [sender |-> user.address, receiver |-> t.receiver, amount |-> t.amount,
           signature |-> CreateSignature(user.key,
                             HashTransaction(user.address, t.receiver, t.amount))]
  <2> HIDE DEF user
  <2> QED BY <1>1 DEF CreateTransaction
<1>3. t = [sender |-> t.sender, receiver |-> t.receiver, amount |-> t.amount, signature |-> sig]
  <2> HIDE DEF sig
  <2> QED BY <1>1, <1>2 DEF sig
<1>4. sig = <<sig[1], sig[2]>>
  BY DEF CreateSignature
<1> HIDE DEF sig
<1>5. t.signature = sig
  BY <1>3
<1> QED BY <1>3, <1>4, <1>5 DEF sig

(* The signature is that of the amount as it was: what arrives with        *)
(* another one is not accepted.                                            *)
LEMMA SealedRead ==
    ASSUME NEW t, Sealed(t)
    PROVE  /\ stof(Kept(t.amount)) = t.amount => ReadAs(t) = t
           /\ CheckSignature(ReadAs(t)) <=> stof(Kept(t.amount)) = t.amount
<1> DEFINE m == stof(Kept(t.amount))
           u == ReadAs(t)
<1>1. u = [sender |-> t.sender, receiver |-> t.receiver, amount |-> m,
           signature |-> <<t.signature[1], t.signature[2]>>]
  BY DEF ReadAs
<1>2. /\ t = [sender |-> t.sender, receiver |-> t.receiver, amount |-> t.amount,
              signature |-> t.signature]
      /\ t.signature = CreateSignature(t.sender,
                            HashTransaction(t.sender, t.receiver, t.amount))
      /\ t.signature = <<t.signature[1], t.signature[2]>>
  BY SealedFields
<1> HIDE DEF m, u
<1>3. /\ u.sender = t.sender /\ u.receiver = t.receiver /\ u.amount = m
      /\ u.signature = t.signature
  BY <1>1, <1>2
<1>4. m = t.amount => u = t
  BY <1>1, <1>2
<1>5. CheckSignature(u) <=>
        CreateSignature(t.sender, HashTransaction(t.sender, t.receiver, t.amount))
        = CreateSignature(t.sender, HashTransaction(t.sender, t.receiver, m))
  BY <1>2, <1>3 DEF CheckSignature
<1>6. CreateSignature(t.sender, HashTransaction(t.sender, t.receiver, t.amount))
        = CreateSignature(t.sender, HashTransaction(t.sender, t.receiver, m))
      => t.amount = m
  <2> DEFINE a == CreateSignature(t.sender, HashTransaction(t.sender, t.receiver, t.amount))
             b == CreateSignature(t.sender, HashTransaction(t.sender, t.receiver, m))
  <2>1. a[1].of.digits = t.amount /\ b[1].of.digits = m
    BY DEF CreateSignature, HashTransaction
  <2> HIDE DEF a, b
  <2>2. a = b => t.amount = m
    BY <2>1
  <2> QED BY <2>2 DEF a, b
<1> QED BY <1>4, <1>5, <1>6 DEF m, u

(* A block as it is in a chain.                                            *)
Settled(b) ==
    /\ b = [index |-> b.index, prevHash |-> b.prevHash, currHash |-> b.currHash, txs |-> b.txs]
    /\ IsSequence(b.txs)
    /\ \A i \in 1..Len(b.txs) : Sealed(b.txs[i])

(* One that can be packed.                                                 *)
Packable(b) == Settled(b) /\ Len(b.txs) \in Nat /\ Len(b.txs) >= MAX_TRANSACTIONS

AsPacked(b) == [b EXCEPT !.txs = SubSeq(@, 1, MAX_TRANSACTIONS)]

BlockShown(b) ==
    \A i \in 1..MAX_TRANSACTIONS : stof(Kept(b.txs[i].amount)) = b.txs[i].amount

(* The two transactions that are packed are signed.                        *)
LEMMA PackableSealed ==
    ASSUME NEW b, Packable(b)
    PROVE  IntAmounts(b) /\ \A i \in 1..MAX_TRANSACTIONS : Sealed(b.txs[i])
<1>1. \A i \in 1..MAX_TRANSACTIONS : i \in 1..Len(b.txs)
  BY DEF Packable, MAX_TRANSACTIONS
<1>2. \A i \in 1..MAX_TRANSACTIONS : Sealed(b.txs[i])
  BY <1>1 DEF Packable, Settled
<1> QED BY <1>2 DEF IntAmounts, Sealed

(* If both amounts are restored, the block is read as it was, with two     *)
(* transactions; otherwise a signature is refused.                         *)
LEMMA BlockArrives ==
    ASSUME NEW b, Packable(b)
    PROVE  /\ BlockShown(b) => BlockReadAs(b) = AsPacked(b)
           /\ (\A i \in 1..MAX_TRANSACTIONS : CheckSignature(BlockReadAs(b).txs[i]))
              <=> BlockShown(b)
<1> DEFINE r == [i \in 1..MAX_TRANSACTIONS |-> ReadAs(b.txs[i])]
<1>1. \A i \in 1..MAX_TRANSACTIONS : Sealed(b.txs[i])
  BY PackableSealed
<1>2. BlockReadAs(b).txs = r
  BY DEF BlockReadAs
<1>3. \A i \in 1..MAX_TRANSACTIONS : CheckSignature(r[i])
        <=> stof(Kept(b.txs[i].amount)) = b.txs[i].amount
  BY <1>1, SealedRead
<1>4. ASSUME BlockShown(b) PROVE BlockReadAs(b) = AsPacked(b)
  <2>1. \A i \in 1..MAX_TRANSACTIONS : ReadAs(b.txs[i]) = b.txs[i]
    BY <1>1, <1>4, SealedRead DEF BlockShown
  <2>2. r = [i \in 1..MAX_TRANSACTIONS |-> b.txs[i]]
    BY <2>1
  <2>3. SubSeq(b.txs, 1, MAX_TRANSACTIONS) = [i \in 1..MAX_TRANSACTIONS |-> b.txs[i]]
    BY DEF MAX_TRANSACTIONS
  <2> DEFINE s == SubSeq(b.txs, 1, MAX_TRANSACTIONS)
  <2>4. r = s
    BY <2>2, <2>3
  <2>5. BlockReadAs(b)
          = [index |-> b.index, prevHash |-> b.prevHash, currHash |-> b.currHash, txs |-> r]
    BY DEF BlockReadAs
  <2>6. AsPacked(b) = [b EXCEPT !.txs = s]
    BY DEF AsPacked
  <2>7. b = [index |-> b.index, prevHash |-> b.prevHash, currHash |-> b.currHash, txs |-> b.txs]
    BY DEF Packable, Settled
  <2> HIDE DEF r, s
  <2>8. [b EXCEPT !.txs = s]
        = [index |-> b.index, prevHash |-> b.prevHash, currHash |-> b.currHash, txs |-> s]
    BY <2>7
  <2> QED BY <2>4, <2>5, <2>6, <2>8
<1> HIDE DEF r
<1>5. (\A i \in 1..MAX_TRANSACTIONS : CheckSignature(BlockReadAs(b).txs[i])) <=> BlockShown(b)
  BY <1>2, <1>3 DEF BlockShown
<1> QED BY <1>4, <1>5

---------------------------------------------------------------------------
(* The reply of cmd_getblocks and its reader.                              *)

LEMMA Outcomes ==
    /\ Dies.alive = FALSE /\ Dies.items = <<>> /\ Range(Dies.items) = {}
    /\ \A s : Returns(s).alive = TRUE /\ Returns(s).items = s
<1>1. Dies.items = <<>> /\ Dies.alive = FALSE
  BY DEF Dies
<1>2. Range(<<>>) = {}
  BY DEF Range
<1>3. \A s : Returns(s).alive = TRUE /\ Returns(s).items = s
  BY DEF Returns
<1> QED BY <1>1, <1>2, <1>3

LEMMA UnpackBlocksDef ==
    ASSUME NEW text, NEW outcome, outcome = BlocksIn(text)
    PROVE  unpack_blocks(text) =
              IF \A b \in Range(outcome.items) :
                    \A i \in 1..MAX_TRANSACTIONS : CheckSignature(b.txs[i])
              THEN outcome ELSE Dies
BY DEF unpack_blocks

LEMMA UnpackDies ==
    ASSUME NEW text, BlocksIn(text) = Dies
    PROVE  unpack_blocks(text) = Dies
BY UnpackBlocksDef

(* A list of nothing is packed to the word alone.                          *)
LEMMA JoinedNothing ==
    ASSUME NEW texts, texts = <<>>, NEW w, IsSequence(w)
    PROVE  Cat(w, Joined(texts)) = w
<1> DEFINE s == [i \in DOMAIN texts |-> IF i
      = Len(texts) THEN texts[i] ELSE Append(texts[i], Dash)]
<1>1. s = <<>>
  BY DOMAIN texts = {}
<1>2. Joined(texts) = FlattenSeq(s)
  BY DEF Joined
<1> HIDE DEF s
<1>3. FlattenSeq(s) = s
  <2>1. Len(s) = 0
    BY <1>1
  <2> QED BY <2>1 DEF FlattenSeq
<1> QED BY <1>1, <1>2, <1>3, NothingAdded

LEMMA EmptyList ==
    ASSUME NEW s, IsSequence(s), Len(s) = 0
    PROVE  s = <<>> /\ DOMAIN s = {}
<1>1. s = <<>>
  BY SeqOfLengthZero DEF IsSequence
<1> QED BY <1>1

LEMMA WordIsFree == ASSUME NEW w PROVE Free(<<Word(w)>>) /\ IsSequence(<<Word(w)>>)
<1>1. IsFree(Word(w))
  BY Kinds
<1>2. Free(<<Word(w)>>)
  BY <1>1, FreeAtom
<1> QED BY <1>2 DEF Free

BlocksWord == <<Word("blocks")>>

(* A reply is the word and the list, and without a block the word alone.   *)
LEMMA BlocksAsText ==
    ASSUME NEW blocks, IsSequence(blocks), NEW stale,
           NEW text, text = cmd_getblocks(blocks, stale)
    PROVE  /\ text = BlocksText(BlocksWord, blocks, stale)
           /\ Len(blocks) = 0 => text = BlocksWord
           /\ IsSequence(text) /\ Free(BlocksWord) /\ IsSequence(BlocksWord)
<1>1. text = BlocksText(BlocksWord, blocks, stale)
  BY DEF cmd_getblocks, BlocksText, BlockTexts, Cat, BlocksWord
<1>2. Free(BlocksWord) /\ IsSequence(BlocksWord)
  BY WordIsFree DEF BlocksWord
<1> DEFINE texts == BlockTexts(blocks, stale)
           w == BlocksWord
<1>3. CASE Len(blocks) = 0
  <2>1. texts = <<>>
    BY <1>3, EmptyList DEF BlockTexts
  <2> HIDE DEF texts, w
  <2>2. Cat(w, Joined(texts)) = w
    BY <1>2, <2>1, JoinedNothing DEF w
  <2> QED BY <1>1, <1>2, <2>2 DEF BlocksText, texts, w
<1>4. CASE Len(blocks) # 0
  <2>1. Texts(texts) /\ Len(texts) # 0
    BY <1>4, BlockTextsAre
  <2> HIDE DEF texts, w
  <2>2. IsSequence(Joined(texts))
    BY <1>2, <2>1, JoinedIs DEF w
  <2>3. IsSequence(Cat(w, Joined(texts)))
    BY <1>2, <2>2, ConcatText DEF w
  <2> QED BY <1>1, <1>2, <1>4, <2>3 DEF BlocksText, texts, w
<1> QED BY <1>3, <1>4

(* The whole reply, read as unpack_blocks does.                            *)
LEMMA BlocksReply ==
    ASSUME NEW blocks, IsSequence(blocks), \A i \in 1..Len(blocks) : Packable(blocks[i]),
           NEW stale \in [0..MAX_TRANSACTIONS -> Stale],
           NEW text, text = cmd_getblocks(blocks, stale)
    PROVE  unpack_blocks(text) =
              IF /\ Len(blocks) # 0
                 /\ \A i \in 1..Len(blocks) : GoodBlock(blocks[i], stale) /\ BlockShown(blocks[i])
              THEN Returns([i \in 1..Len(blocks) |-> AsPacked(blocks[i])])
              ELSE Dies
<1>1. /\ text = BlocksText(BlocksWord, blocks, stale)
      /\ Len(blocks) = 0 => text = BlocksWord
      /\ Free(BlocksWord)
  BY BlocksAsText
<1>2. CASE Len(blocks) = 0
  <2>1. BlocksIn(text) = Dies
    BY <1>1, <1>2, NoPieces
  <2> QED BY <1>2, <2>1, UnpackDies
<1>3. CASE Len(blocks) # 0
  <2> DEFINE good == \A i \in 1..Len(blocks) : GoodBlock(blocks[i], stale)
             read == [i \in 1..Len(blocks) |-> BlockReadAs(blocks[i])]
             sent == [i \in 1..Len(blocks) |-> AsPacked(blocks[i])]
             shown == \A i \in 1..Len(blocks) : BlockShown(blocks[i])
  <2>1. \A i \in 1..Len(blocks) : IntAmounts(blocks[i])
    BY PackableSealed
  <2>2. BlocksIn(text) = IF good THEN Returns(read) ELSE Dies
    BY <1>1, <1>3, <2>1, BlocksRead
  <2>3. CASE ~good
    BY <2>2, <2>3, UnpackDies
  <2>4. CASE good
    <3>1. BlocksIn(text) = Returns(read) /\ BlocksIn(text).items = read
      BY <2>2, <2>4, Outcomes
    <3>2. (\A b \in Range(read) : \A i \in 1..MAX_TRANSACTIONS : CheckSignature(b.txs[i]))
            <=> shown
      <4>1. Range(read) = {BlockReadAs(blocks[i]) : i \in 1..Len(blocks)}
        BY DEF Range
      <4>2. \A j \in 1..Len(blocks) :
               (\A i \in 1..MAX_TRANSACTIONS : CheckSignature(BlockReadAs(blocks[j]).txs[i]))
               <=> BlockShown(blocks[j])
        BY BlockArrives
      <4> HIDE DEF read
      <4> QED BY <4>1, <4>2
    <3>3. shown => read = sent
      BY BlockArrives
    <3> HIDE DEF read, sent, shown
    <3>4. unpack_blocks(text) = IF shown THEN Returns(read) ELSE Dies
      BY <3>1, <3>2, UnpackBlocksDef
    <3>5. unpack_blocks(text) = IF shown THEN Returns(sent) ELSE Dies
      BY <3>3, <3>4
    <3> QED BY <1>3, <2>4, <3>5 DEF shown, sent
  <2> QED BY <2>3, <2>4
<1> QED BY <1>2, <1>3

LEMMA PacketIsText ==
    ASSUME NEW text, IsSequence(text), NEW k \in 0..Len(text)
    PROVE  /\ IsSequence(get_packet(text, k)) /\ IsSequence(SubSeq(text, 1, k))
           /\ get_packet(text, k) = Cat(SubSeq(text, 1, k), <<Other>>)
<1>1. IsSequence(SubSeq(text, 1, k))
  BY CutAt
<1>2. get_packet(text, k) = Cat(SubSeq(text, 1, k), <<Other>>)
  BY <1>1, CatOne DEF get_packet
<1>3. IsSequence(Cat(SubSeq(text, 1, k), <<Other>>))
  BY <1>1, OneAtom, ConcatText
<1> QED BY <1>1, <1>2, <1>3

(* What unpack_blocks makes of one packet.                                 *)
LEMMA BlocksInPacket ==
    ASSUME NEW blocks, IsSequence(blocks), Len(blocks) # 0,
           \A i \in 1..Len(blocks) : Packable(blocks[i]),
           NEW stale \in [0..MAX_TRANSACTIONS -> Stale],
           NEW text, text = cmd_getblocks(blocks, stale),
           NEW k \in 0..Len(text), Fits(text, k),
           NEW outcome, outcome = unpack_blocks(get_packet(text, k))
    PROVE  \/ outcome = Dies
           \/ /\ Len(outcome.items) = 1 /\ DOMAIN outcome.items = {1}
              /\ outcome.items[1] = AsPacked(blocks[1])
<1> DEFINE t == get_packet(text, k)
           c == unpack_data(t, Dash)
           q == Pieces(t)
<1>1. /\ text = BlocksText(BlocksWord, blocks, stale) /\ IsSequence(text)
      /\ Free(BlocksWord)
  BY BlocksAsText
<1>2. IsSequence(t)
  BY <1>1, PacketIsText
<1>3. /\ Len(c) \in Nat \ {0} /\ DOMAIN q = 1..Len(c)
      /\ \A i \in 1..Len(c) : q[i] = unpack_data(c[i], Bar)
  <2> HIDE DEF t
  <2> QED BY <1>2, PiecesAre
<1>4. BlocksIn(t) = IF \A i \in DOMAIN q : HoldsBlock(q[i])
                    THEN Returns([i \in DOMAIN q |-> BlockAt(q[i])]) ELSE Dies
  BY DEF BlocksIn
<1>5. CASE \A i \in DOMAIN q : HoldsBlock(q[i])
  <2> HIDE DEF q
  <2>1. \A j \in 1..Len(c) : HoldsBlock(unpack_data(c[j], Bar))
    BY <1>3, <1>5
  <2>2. \A i \in 1..Len(blocks) : IntAmounts(blocks[i])
    BY PackableSealed
  <2>3. Len(c) = 1 /\ BlockAt(unpack_data(c[1], Bar)) = BlockReadAs(blocks[1])
    BY <1>1, <2>1, <2>2, BlockPacket
  <2> HIDE DEF c, t
  <2>4. DOMAIN q = 1..1 /\ BlockAt(q[1]) = BlockReadAs(blocks[1])
    BY <1>3, <2>3
  <2> DEFINE items == [i \in 1..1 |-> BlockReadAs(blocks[1])]
  <2>5. BlocksIn(t) = Returns(items)
    <3>1. \A i \in 1..1 : BlockAt(q[i]) = BlockReadAs(blocks[1])
      BY <2>4
    <3> QED BY <1>4, <1>5, <2>4, <3>1
  <2>6. Len(items) = 1 /\ DOMAIN items = {1} /\ items[1] = BlockReadAs(blocks[1])
    BY 1..1 = {1}
  <2>7. Range(items) = {BlockReadAs(blocks[1])}
    BY 1..1 = {1} DEF Range
  <2> HIDE DEF items
  <2>8. unpack_blocks(t) =
           IF \A i \in 1..MAX_TRANSACTIONS : CheckSignature(BlockReadAs(blocks[1]).txs[i])
           THEN Returns(items) ELSE Dies
    <3>1. BlocksIn(t).items = items
      BY <2>5, Outcomes
    <3> QED BY <2>5, <2>7, <3>1, UnpackBlocksDef
  <2>9. Packable(blocks[1])
    <3>1. Len(blocks) \in Nat
      BY AppendToSequence
    <3>2. 1 \in 1..Len(blocks)
      BY <3>1
    <3> QED BY <3>2
  <2>10. CASE BlockShown(blocks[1])
    <3>1. unpack_blocks(t) = Returns(items) /\ BlockReadAs(blocks[1]) = AsPacked(blocks[1])
      BY <2>8, <2>9, <2>10, BlockArrives
    <3>2. outcome.items = items
      BY <3>1, Outcomes DEF t
    <3> QED BY <2>6, <3>1, <3>2
  <2>11. CASE ~BlockShown(blocks[1])
    <3>1. unpack_blocks(t) = Dies
      BY <2>8, <2>9, <2>11, BlockArrives
    <3> QED BY <3>1 DEF t
  <2> QED BY <2>10, <2>11
<1>6. CASE ~(\A i \in DOMAIN q : HoldsBlock(q[i]))
  <2> HIDE DEF q, t
  <2>1. BlocksIn(t) = Dies
    BY <1>4, <1>6
  <2>2. unpack_blocks(t) = Dies
    BY <2>1, UnpackDies
  <2> QED BY <2>2 DEF t
<1> QED BY <1>5, <1>6

---------------------------------------------------------------------------
(* The other two replies and their readers.                                *)

(* The first field of a text begins as the text does.                      *)
LEMMA FirstFieldBegins ==
    ASSUME NEW x, NEW r, IsSequence(r), NEW d, x # d
    PROVE  unpack_data(Cat(<<x>>, r), d)[1][1] = x
<1>1. Plain(<<x>>, d) /\ IsSequence(<<x>>)
  BY PlainAtom, OneAtom
<1>2. CASE Plain(r, d)
  <2>1. Plain(Cat(<<x>>, r), d) /\ IsSequence(Cat(<<x>>, r))
    BY <1>1, <1>2, PlainConcat, ConcatText
  <2>2. unpack_data(Cat(<<x>>, r), d) = <<Cat(<<x>>, r)>>
    BY <2>1, CutPlain
  <2>3. (Cat(<<x>>, r))[1] = x
    BY FirstOfConcat
  <2> QED BY <2>2, <2>3
<1>3. CASE ~Plain(r, d)
  <2>1. PICK p, q : /\ IsSequence(p) /\ IsSequence(q) /\ Plain(p, d)
                    /\ r = Cat(p, Cat(<<d>>, q))
    BY <1>3, FirstCut
  <2> DEFINE f == Cat(<<x>>, p)
             dq == Cat(<<d>>, q)
  <2>2. IsSequence(f) /\ Plain(f, d) /\ f[1] = x
    BY <1>1, <2>1, PlainConcat, ConcatText, FirstOfConcat
  <2>3. IsSequence(dq)
    BY <2>1, OneAtom, ConcatText
  <2>4. Cat(<<x>>, r) = Cat(f, dq)
    <3>1. Cat(<<x>>, Cat(p, dq)) = Cat(Cat(<<x>>, p), dq)
      <4> HIDE DEF dq
      <4> QED BY <1>1, <2>1, <2>3, Regroup
    <3> QED BY <2>1, <3>1
  <2> HIDE DEF f
  <2>5. unpack_data(Cat(f, dq), d) = Cat(<<f>>, unpack_data(q, d))
    BY <2>1, <2>2, CutFirst
  <2>6. IsSequence(unpack_data(q, d))
    BY <2>1, CutShape DEF Cuts
  <2>7. (Cat(<<f>>, unpack_data(q, d)))[1] = f
    BY <2>6, FirstOfConcat
  <2> QED BY <2>2, <2>4, <2>5, <2>7
<1> QED BY <1>2, <1>3

(* do_command takes none of the other replies for one it knows.            *)
LEMMA OtherCommand ==
    ASSUME NEW w, Word(w) # Word("blocks"), NEW y, IsSequence(y),
           NEW text, text = Cat(<<Word(w)>>, y), NEW k \in 1..Len(text)
    PROVE  unpack_data(get_packet(text, k), Bar)[1] # BlocksWord
<1>1. IsSequence(text) /\ Len(text) = 1 + Len(y) /\ Len(y) \in Nat /\ IsSequence(<<Word(w)>>)
  BY FirstOfConcat, OneAtom
<1>2. k \in 0..Len(text) /\ k >= 1
  BY <1>1
<1> DEFINE p == SubSeq(text, 1, k)
<1>3. /\ IsSequence(p) /\ Len(p) = k
      /\ get_packet(text, k) = Cat(p, <<Other>>)
  BY <1>1, <1>2, CutAt, PacketIsText
<1>4. PICK z : IsSequence(z) /\ text = Cat(p, z)
  BY <1>1, <1>2, CutAt
<1> HIDE DEF p
<1>5. PICK r : IsSequence(r) /\ p = Cat(<<Word(w)>>, r)
  <2>1. Len(<<Word(w)>>) <= Len(p) /\ Cat(<<Word(w)>>, y) = Cat(p, z)
    BY <1>1, <1>2, <1>3, <1>4, OneAtom
  <2> DEFINE v == <<Word(w)>>
  <2>2. IsSequence(v) /\ Len(v) <= Len(p) /\ Cat(v, y) = Cat(p, z)
    BY <1>1, <2>1
  <2> HIDE DEF v
  <2>3. \E r : IsSequence(r) /\ Len(r) = Len(p) - Len(v) /\ p = Cat(v, r) /\ y = Cat(r, z)
    BY <1>3, <1>4, <2>2, TwoCuts
  <2> QED BY <2>3 DEF v
<1> DEFINE o == <<Other>>
<1>6. IsSequence(o)
  BY OneAtom
<1>7. IsSequence(Cat(r, o))
  BY <1>5, <1>6, ConcatText
<1>8. get_packet(text, k) = Cat(<<Word(w)>>, Cat(r, o))
  <2>1. get_packet(text, k) = Cat(Cat(<<Word(w)>>, r), o)
    BY <1>3, <1>5
  <2> HIDE DEF o
  <2> QED BY <1>1, <1>5, <1>6, <2>1, Regroup
<1>9. Word(w) # Bar
  BY Kinds DEF IsFree
<1> DEFINE ro == Cat(r, o)
<1> HIDE DEF ro, o
<1>10. unpack_data(Cat(<<Word(w)>>, ro), Bar)[1][1] = Word(w)
  <2> HIDE DEF Word
  <2> QED BY <1>7, <1>9, FirstFieldBegins DEF ro
<1>11. BlocksWord[1] = Word("blocks")
  BY DEF BlocksWord
<1> QED BY <1>8, <1>10, <1>11 DEF ro

(* Nor does it know a reply that is the word alone.                        *)
LEMMA WordAlone ==
    ASSUME NEW text, text = BlocksWord, NEW k \in 1..Len(text)
    PROVE  unpack_data(get_packet(text, k), Bar)[1] # BlocksWord
<1>1. Len(text) = 1
  BY DEF BlocksWord
<1>2. k = 1 /\ k \in 0..Len(text)
  BY <1>1
<1>3. Free(BlocksWord) /\ IsSequence(BlocksWord) /\ Free(<<Other>>) /\ IsSequence(<<Other>>)
  BY WordIsFree, Kinds, FreeAtom, OneAtom DEF BlocksWord
<1>4. SubSeq(text, 1, k) = text
  <2> DEFINE s == SubSeq(text, 1, k)
  <2>1. IsSequence(s) /\ Len(s) = Len(text) /\ Len(text) = 1
    BY <1>1, <1>2, <1>3, CutAt
  <2>2. \A i \in 1..1 : s[i] = text[i]
    BY <1>2
  <2> HIDE DEF s
  <2>3. s = text
    BY <1>3, <2>1, <2>2, SameTexts
  <2> QED BY <2>3 DEF s
<1> DEFINE t == Cat(BlocksWord, <<Other>>)
<1>5. get_packet(text, k) = t
  BY <1>2, <1>3, <1>4, PacketIsText
<1>6. Free(t) /\ Len(t) = 2
  <2>1. Free(t) /\ Len(t) = Len(BlocksWord) + Len(<<Other>>)
    BY <1>3, FreeConcat, ConcatText
  <2> QED BY <1>1, <2>1, OneAtom
<1> HIDE DEF t
<1>7. unpack_data(t, Bar) = <<t>>
  BY <1>6, CutPlain DEF Free
<1>8. t # BlocksWord
  BY <1>1, <1>6
<1> QED BY <1>5, <1>7, <1>8

LEMMA OtherWords == Word("transactions") # Word("blocks") /\ Word("hosts") # Word("blocks")
<1>1. "transactions" # "blocks" /\ "hosts" # "blocks"
  OBVIOUS
<1>2. \A v : Word(v).word = v
  BY DEF Word
<1> QED BY <1>1, <1>2

TransactionsWord == <<Word("transactions")>>

(* The list of transactions that is sent.                                  *)
LEMMA SentAsText ==
    ASSUME NEW ts, IsSequence(ts), NEW st,
           NEW text, text = cmd_gettransactions(ts, st)
    PROVE  /\ text = SentText(TransactionsWord, ts, st)
           /\ Len(ts) = 0 => text = TransactionsWord
           /\ \E y : IsSequence(y) /\ text = Cat(TransactionsWord, y)
<1> DEFINE texts == SentTexts(ts, st)
           w == TransactionsWord
<1>1. text = Cat(w, Joined(texts)) /\ text = SentText(TransactionsWord, ts, st)
  BY DEF cmd_gettransactions, SentText, SentTexts, Cat, TransactionsWord
<1>2. Free(w) /\ IsSequence(w)
  BY WordIsFree DEF TransactionsWord
<1>3. CASE Len(ts) = 0
  <2>1. texts = <<>>
    BY <1>3, EmptyList DEF SentTexts
  <2> HIDE DEF texts, w
  <2>2. text = w /\ Cat(w, <<>>) = w
    BY <1>1, <1>2, <2>1, JoinedNothing, NothingAdded
  <2>3. text = Cat(w, <<>>) /\ IsSequence(<<>>)
    BY <2>2, EmptyText
  <2> QED BY <1>1, <2>2, <2>3 DEF w
<1>4. CASE Len(ts) # 0
  <2>1. Texts(texts) /\ Len(texts) # 0
    BY <1>4, SentTextsAre
  <2> HIDE DEF texts, w
  <2>2. IsSequence(Joined(texts))
    BY <1>2, <2>1, JoinedIs
  <2> QED BY <1>1, <1>4, <2>2 DEF w
<1> QED BY <1>3, <1>4

LEMMA SentRead ==
    ASSUME NEW ts, IsSequence(ts), \A i \in 1..Len(ts) : ts[i].amount \in Int,
           NEW st \in Stale
    PROVE  cmd_transactions_test(cmd_gettransactions(ts, st)) = Dies
<1>1. Free(TransactionsWord)
  BY WordIsFree DEF TransactionsWord
<1> DEFINE text == cmd_gettransactions(ts, st)
<1>2. text = SentText(TransactionsWord, ts, st) /\ (Len(ts) = 0 => text = TransactionsWord)
  BY SentAsText
<1> HIDE DEF text
<1>3. cmd_transactions_test(text) = Dies
  <2>1. CASE Len(ts) = 0
    BY <1>1, <1>2, <2>1, NoPieces
  <2>2. CASE Len(ts) # 0
    BY <1>1, <1>2, <2>2, SentTransactionsDie
  <2> QED BY <2>1, <2>2
<1> QED BY <1>3 DEF text

(* The list of transactions in the form of the tests.                      *)
LEMMA TestRead ==
    ASSUME NEW ts, IsSequence(ts), \A i \in 1..Len(ts) : ts[i].amount \in Int,
           NEW st \in Stale
    PROVE  cmd_transactions_test(cmd_gettransaction_test(ts, st)) =
              IF Len(ts) # 0 /\ \A i \in 1..Len(ts) : GoodAmount(ts[i].amount, st)
              THEN Returns(Reverse([i \in 1..Len(ts) |-> ReadAs(ts[i])]))
              ELSE Dies
<1> DEFINE text == cmd_gettransaction_test(ts, st)
           texts == TransactionTexts(ts, st)
           w == TransactionsWord
<1>1. Free(w) /\ IsSequence(w)
  BY WordIsFree DEF TransactionsWord
<1>2. text = TransactionsText(w, ts, st)
  BY DEF cmd_gettransaction_test, TransactionsText, TransactionTexts, Cat, TransactionsWord
<1>3. CASE Len(ts) = 0
  <2>1. texts = <<>>
    BY <1>3, EmptyList DEF TransactionTexts
  <2> HIDE DEF texts, text, w
  <2>2. text = w
    BY <1>1, <1>2, <2>1, JoinedNothing DEF TransactionsText, texts
  <2>3. cmd_transactions_test(text) = Dies
    BY <1>1, <2>2, NoPieces
  <2> QED BY <1>3, <2>3 DEF text
<1>4. CASE Len(ts) # 0
  <2> HIDE DEF text, w
  <2>1. cmd_transactions_test(text) =
              IF \A i \in 1..Len(ts) : GoodAmount(ts[i].amount, st)
              THEN Returns(Reverse([i \in 1..Len(ts) |-> ReadAs(ts[i])]))
              ELSE Dies
    BY <1>1, <1>2, <1>4, TransactionsRead
  <2> QED BY <1>4, <2>1 DEF text
<1> QED BY <1>3, <1>4

HostsWord == <<Word("hosts")>>

LEMMA SentHostsRead ==
    ASSUME NEW hosts, IsSequence(hosts), Len(hosts) # 0,
           \A i \in 1..Len(hosts) : IsHost(hosts[i]),
           NEW text, text = cmd_gethosts(hosts)
    PROVE  /\ cmd_hosts_test(text) = Dies
           /\ \E y : IsSequence(y) /\ text = Cat(HostsWord, y)
<1>1. text = SentHostsText(HostsWord, hosts)
  BY DEF cmd_gethosts, SentHostsText, SentHostTexts, Cat, HostsWord
<1>2. IsSequence(HostsWord)
  BY WordIsFree DEF HostsWord
<1> QED BY <1>1, <1>2, SentHostsDie

LEMMA TestHostsRead ==
    ASSUME NEW hosts, IsSequence(hosts), Len(hosts) # 0,
           \A i \in 1..Len(hosts) : IsHost(hosts[i]),
           NEW text, text = cmd_gethosts_test(hosts)
    PROVE  cmd_hosts_test(text) =
             IF \A i \in 1..Len(hosts) : hosts[i].port >= 0 /\ Plain(hosts[i].address, Dash)
             THEN Returns([i \in 1..Len(hosts) |->
                              [port |-> hosts[i].port, address |-> hosts[i].address]])
             ELSE Dies
<1>1. text = HostsText(HostsWord, hosts)
  BY DEF cmd_gethosts_test, HostsText, HostTexts, Cat, HostsWord
<1>2. Free(HostsWord)
  BY WordIsFree DEF HostsWord
<1> QED BY <1>1, <1>2, HostsRead

---------------------------------------------------------------------------
(* The states of Exchange: what the node holds.                            *)

(* What is paid, pooled, stored in a block and linked to the chain is      *)
(* signed by its sender; pool and hosts are finite.                        *)
SealedInv ==
    /\ IsFiniteSet(pending) /\ \A t \in pending : Sealed(t)
    /\ \A i \in 1..Len(block) : Sealed(block[i])
    /\ IsSequence(chain) /\ \A i \in 1..Len(chain) : Settled(chain[i])
    /\ IsFiniteSet(knownHosts)

(* A user's own transaction is signed by its sender.                       *)
LEMMA PaidIsSealed ==
    ASSUME UsersInv, NEW i \in DOMAIN users, NEW j \in DOMAIN users,
           NEW n \in Amounts, NEW t,
           t = CreateTransaction(users[i], users[j].address, n)
    PROVE  Sealed(t)
<1> DEFINE u == users[i]
           r == users[j].address
<1>1. u \in User /\ u.key = u.address
  <2>1. users \in Seq(User) /\ DOMAIN users = 1..Len(users)
    BY LenProperties DEF UsersInv
  <2> QED BY <2>1, ElementOfSeq DEF UsersInv
<1>2. u = [key |-> u.key, address |-> u.address]
  BY <1>1 DEF User
<1>3. n \in Amounts \cap Int
  BY AmountsAreInts
<1>4. t = CreateTransaction(u, r, n)
  OBVIOUS
<1> HIDE DEF u, r
<1>5. t.sender = u.address /\ t.receiver = r /\ t.amount = n
  BY <1>4 DEF CreateTransaction
<1>6. u = [key |-> t.sender, address |-> t.sender]
  BY <1>1, <1>2, <1>5
<1> QED BY <1>3, <1>4, <1>5, <1>6 DEF Sealed

(* AddBlock changes the two hashes only.                                   *)
LEMMA LinkedIsSettled ==
    ASSUME NEW b, Settled(b), NEW c
    PROVE  Settled(Relinked(c, b))
<1> DEFINE p == GetLastBlock(c).currHash
           l == [index |-> b.index, prevHash |-> p, currHash |-> b.currHash, txs |-> b.txs]
           h == HashBlock(l)
           r == Relinked(c, b)
<1>1. r = [l EXCEPT !.currHash = h]
  BY DEF Relinked
<1> HIDE DEF p, h, r
<1>2. r = [index |-> b.index, prevHash |-> p, currHash |-> h, txs |-> b.txs]
  BY <1>1
<1>3. r.index = b.index /\ r.prevHash = p /\ r.currHash = h /\ r.txs = b.txs
  BY <1>2
<1>4. Settled(r)
  BY <1>2, <1>3 DEF Settled
<1> QED BY <1>4 DEF r

LEMMA GenesisIsSettled == Settled(CreateGenesisBlock(Hash0))
<1> DEFINE g == CreateGenesisBlock(Hash0)
<1>1. g.txs = <<>> /\ g = [index |-> g.index, prevHash |-> g.prevHash,
                           currHash |-> g.currHash, txs |-> g.txs]
  BY DEF CreateGenesisBlock
<1> HIDE DEF g
<1>2. IsSequence(g.txs) /\ Len(g.txs) = 0
  BY <1>1, EmptyText
<1>3. Settled(g)
  BY <1>1, <1>2 DEF Settled
<1> QED BY <1>3 DEF g

LEMMA ChainGrows ==
    ASSUME NEW c, IsSequence(c), \A i \in 1..Len(c) : Settled(c[i]), NEW b, Settled(b),
           NEW d, d = Append(c, b)
    PROVE  IsSequence(d) /\ \A i \in 1..Len(d) : Settled(d[i])
<1>1. /\ IsSequence(d) /\ Len(c) \in Nat /\ Len(d) = Len(c) + 1
      /\ \A i \in 1..Len(c) : d[i] = c[i]
      /\ d[Len(c) + 1] = b
  BY AppendToSequence
<1>2. ASSUME NEW i \in 1..Len(d) PROVE Settled(d[i])
  <2>1. i \in 1..Len(c) \/ i = Len(c) + 1
    BY <1>1
  <2> QED BY <1>1, <2>1
<1> QED BY <1>1, <1>2

(* Every step keeps what the node holds signed and finite.                 *)
LEMMA SealedInductive ==
    /\ Init => SealedInv
    /\ UsersInv /\ HeldInv /\ SealedInv /\ [Next]_vars => SealedInv'
<1>1. Init => SealedInv
  <2> SUFFICES ASSUME Init PROVE SealedInv
    OBVIOUS
  <2>1. IsFiniteSet(pending) /\ IsFiniteSet(knownHosts)
    BY FS_EmptySet, FS_Singleton DEF Init
  <2> DEFINE g == CreateGenesisBlock(Hash0)
  <2>2. Settled(g)
    BY GenesisIsSettled
  <2> HIDE DEF g
  <2>3. chain = <<g>>
    BY DEF Init, g
  <2>4. IsSequence(chain) /\ Len(chain) = 1 /\ chain[1] = g
    BY <2>3, OneAtom
  <2>5. \A i \in 1..Len(chain) : Settled(chain[i])
    BY <2>2, <2>4
  <2>6. pending = {} /\ Len(block) = 0
    BY EmptyText DEF Init
  <2> QED BY <2>1, <2>4, <2>5, <2>6 DEF SealedInv
<1>2. ASSUME UsersInv, HeldInv, SealedInv, [Next]_vars PROVE SealedInv'
  <2>1. ASSUME NEW i \in DOMAIN users, NEW j \in DOMAIN users, NEW n \in Amounts,
               Pay(i, j, n)
        PROVE  SealedInv'
    <3> DEFINE t == CreateTransaction(users[i], users[j].address, n)
    <3>1. Sealed(t)
      BY <1>2, PaidIsSealed
    <3>2. /\ knownHosts' = knownHosts /\ chain' = chain
          /\ pending' \in {pending, Insert(pending, t)}
          /\ block' \in {block, Append(block, t)}
      BY <2>1 DEF Pay
    <3> HIDE DEF t
    <3>3. IsFiniteSet(pending') /\ \A u \in pending' : Sealed(u)
      <4>1. pending' = pending \/ pending' = pending \cup {t}
        BY <3>2 DEF Insert
      <4>2. IsFiniteSet(pending \cup {t})
        BY <1>2, FS_AddElement DEF SealedInv
      <4> QED BY <1>2, <3>1, <4>1, <4>2 DEF SealedInv
    <3>4. \A k \in 1..Len(block') : Sealed(block'[k])
      <4>1. CASE block' = Append(block, t)
        <5>1. /\ Len(block) \in Nat /\ Len(block') = Len(block) + 1
              /\ \A k \in 1..Len(block) : block'[k] = block[k]
              /\ block'[Len(block) + 1] = t
          BY <1>2, <4>1, AppendToSequence DEF HeldInv
        <5>2. ASSUME NEW k \in 1..Len(block') PROVE Sealed(block'[k])
          <6>1. k \in 1..Len(block) \/ k = Len(block) + 1
            BY <5>1
          <6> QED BY <1>2, <3>1, <5>1, <6>1 DEF SealedInv
        <5> QED BY <5>2
      <4> QED BY <1>2, <3>2, <4>1 DEF SealedInv
    <3> QED BY <1>2, <3>2, <3>3, <3>4 DEF SealedInv
  <2>2. CASE AppendBlock
    <3> DEFINE b == [index |-> Len(chain) + 1, prevHash |-> Hash0,
                     currHash |-> Hash0, txs |-> block]
    <3>1. /\ chain' \in {SimpleAddBlock(chain, b), AddBlock(chain, b)}
          /\ block' = <<>> /\ pending' = pending /\ knownHosts' = knownHosts
      BY <2>2 DEF AppendBlock
    <3>2. b = [index |-> b.index, prevHash |-> b.prevHash, currHash |-> b.currHash, txs |-> b.txs]
          /\ b.txs = block
      OBVIOUS
    <3> HIDE DEF b
    <3>3. Settled(b)
      BY <1>2, <3>2 DEF SealedInv, HeldInv, Settled
    <3>4. PICK a : Settled(a) /\ chain' = Append(chain, a)
      BY <3>1, <3>3, LinkedIsSettled DEF SimpleAddBlock, AddBlock
    <3>5. IsSequence(chain') /\ \A i \in 1..Len(chain') : Settled(chain'[i])
      BY <1>2, <3>4, ChainGrows DEF SealedInv
    <3>6. Len(block') = 0
      BY <3>1, EmptyText
    <3> QED BY <1>2, <3>1, <3>5, <3>6 DEF SealedInv
  <2>3. ASSUME NEW h \in Hosts, AddHost(h) PROVE SealedInv'
    <3>1. IsFiniteSet(knownHosts \cup {h})
      BY <1>2, FS_AddElement DEF SealedInv
    <3> QED BY <1>2, <2>3, <3>1 DEF AddHost, SealedInv
  <2>4. CASE UNCHANGED held
    BY <1>2, <2>4 DEF held, SealedInv
  <2>5. \/ \E i, j \in DOMAIN users : \E n \in Amounts : Pay(i, j, n)
        \/ AppendBlock
        \/ \E h \in Hosts : AddHost(h)
        \/ UNCHANGED held
    BY <1>2 DEF Next, CreateUser, CopyUser, AssignUser, Reply,
                ReadsText, ReadsPacket, vars
  <2> QED BY <2>1, <2>2, <2>3, <2>4, <2>5
<1> QED BY <1>1, <1>2

---------------------------------------------------------------------------
(* What is sent and what is received.                                      *)

(* A reply is what the handler makes of what the node holds.               *)
Packed ==
    /\ reply.stale \in [0..MAX_TRANSACTIONS -> Stale]
    /\ reply.live \in BOOLEAN
    /\ IsSequence(reply.sent)
    /\ request = "getblocks" =>
          /\ reply.live
          /\ \A i \in 1..Len(reply.sent) : Packable(reply.sent[i])
          /\ reply.text = cmd_getblocks(reply.sent, reply.stale)
    /\ request = "getrans" =>
          /\ \A i \in 1..Len(reply.sent) : Sealed(reply.sent[i])
          /\ reply.text = IF reply.live THEN cmd_gettransactions(reply.sent, reply.stale[1])
                          ELSE cmd_gettransaction_test(reply.sent, reply.stale[1])
    /\ request = "gethosts" =>
          /\ Lists(reply.sent, knownHosts)
          /\ reply.text = IF reply.live THEN cmd_gethosts(reply.sent)
                          ELSE cmd_gethosts_test(reply.sent)

PackedInv ==
    /\ request \in {"getblocks", "gethosts", "getrans"}
    /\ reply # <<>> => Packed

FromPacket(text) ==
    IF unpack_data(text, Bar)[1] = BlocksWord THEN Read(text) ELSE Returns(<<>>)

(* What was received is that reply, read in one of the two ways.           *)
TakenInv ==
    received # <<>> =>
        /\ reply # <<>>
        /\ \/ received = Taken("text", Read(reply.text))
           \/ \E k \in 1..Len(reply.text) :
                 /\ reply.live /\ Fits(reply.text, k)
                 /\ received = Taken("packet", FromPacket(get_packet(reply.text, k)))

Nothing ==
    /\ reply = <<>> /\ UNCHANGED <<request, reply, received>>

StepsOfReply ==
    \/ Nothing
    \/ \E stale \in Stales : Reply(stale)
    \/ ReadsText
    \/ reply # <<>> /\ \E k \in 1..Len(reply.text) : ReadsPacket(k)
    \/ UNCHANGED <<request, knownHosts, reply, received>>

(* Nothing changes under a reply: before it is sent nothing is received,   *)
(* and afterwards nothing else happens.                                    *)
LEMMA StepsAre == [Next]_vars => StepsOfReply
<1> SUFFICES ASSUME [Next]_vars PROVE StepsOfReply
  OBVIOUS
<1>1. ASSUME NEW k \in Keys, CreateUser(k) PROVE Nothing
  BY <1>1 DEF CreateUser, UsersCome, Nothing
<1>2. ASSUME NEW k \in Keys, NEW i \in DOMAIN users, CopyUser(i, k) PROVE Nothing
  BY <1>2 DEF CopyUser, UsersCome, Nothing
<1>3. ASSUME NEW i \in DOMAIN users, NEW j \in DOMAIN users, AssignUser(i, j) PROVE Nothing
  BY <1>3 DEF AssignUser, UsersCome, Nothing
<1>4. ASSUME NEW i \in DOMAIN users, NEW j \in DOMAIN users, NEW n \in Amounts, Pay(i, j, n)
      PROVE  Nothing
  BY <1>4 DEF Pay, Nothing
<1>5. CASE AppendBlock
  BY <1>5 DEF AppendBlock, Nothing, StepsOfReply
<1>6. ASSUME NEW h \in Hosts, AddHost(h) PROVE Nothing
  BY <1>6 DEF AddHost, Nothing
<1>7. CASE UNCHANGED vars
  BY <1>7 DEF vars, held, StepsOfReply
<1> QED BY <1>1, <1>2, <1>3, <1>4, <1>5, <1>6, <1>7 DEF Next, StepsOfReply

LEMMA StaleIs == ASSUME NEW stale \in Stales PROVE stale \in [0..MAX_TRANSACTIONS -> Stale]
BY StalesAssumption

(* The reply to "getblocks" holds blocks with at least two transactions,   *)
LEMMA BlocksPacked ==
    ASSUME SealedInv, NEW stale \in Stales, NEW n \in 0..Len(chain),
           request = "getblocks", UNCHANGED request, reply = <<>>, ReplyBlocks(n, stale)
    PROVE  PackedInv'
<1> DEFINE blocks == GetSubChain(chain, n)
<1>1. IsSequence(chain) /\ \A i \in 1..Len(chain) : Settled(chain[i])
  BY DEF SealedInv
<1>2. Len(chain) \in Nat
  BY <1>1, AppendToSequence
<1>3. /\ IsSequence(blocks) /\ Len(blocks) = Len(chain) - n
      /\ \A i \in 1..Len(blocks) : blocks[i] = chain[n + i]
  BY <1>1, SuffixOfSequence DEF GetSubChain
<1>4. DOMAIN blocks = 1..Len(blocks)
  BY <1>3, AppendToSequence
<1>5. CASE UNCHANGED reply
  BY <1>5 DEF PackedInv
<1>6. CASE ~UNCHANGED reply
  <2> HIDE DEF blocks
  <2>1. /\ \A i \in DOMAIN blocks : ~(Len(blocks[i].txs) < MAX_TRANSACTIONS)
        /\ reply' = [sent |-> blocks, live |-> TRUE, stale |-> stale,
                     text |-> cmd_getblocks(blocks, stale)]
    BY <1>6 DEF ReplyBlocks, blocks
  <2>2. ASSUME NEW i \in 1..Len(blocks) PROVE Packable(blocks[i])
    <3>1. n + i \in 1..Len(chain) /\ blocks[i] = chain[n + i]
      BY <1>2, <1>3
    <3>2. Settled(blocks[i])
      BY <1>1, <3>1
    <3>3. Len(blocks[i].txs) \in Nat
      BY <3>2, AppendToSequence DEF Settled
    <3> QED BY <1>4, <2>1, <3>2, <3>3 DEF Packable, MAX_TRANSACTIONS
  <2>3. /\ reply'.sent = blocks /\ reply'.live = TRUE /\ reply'.stale = stale
        /\ reply'.text = cmd_getblocks(blocks, stale)
    BY <2>1
  <2>4. stale \in [0..MAX_TRANSACTIONS -> Stale]
    BY StaleIs
  <2>5. "getblocks" # "gethosts" /\ "getblocks" # "getrans"
    OBVIOUS
  <2>6. Packed'
    <3> HIDE DEF MAX_TRANSACTIONS
    <3> QED BY <1>3, <2>2, <2>3, <2>4, <2>5 DEF Packed
  <2> QED BY <2>6 DEF PackedInv
<1> QED BY <1>5, <1>6

(* that to "getrans" the pool,                                             *)
LEMMA TransactionsPacked ==
    ASSUME HeldInv, SealedInv, NEW stale \in Stales, NEW l \in BOOLEAN,
           request = "getrans", UNCHANGED request, ReplyTransactions(l, stale)
    PROVE  PackedInv'
<1> DEFINE ts == InOrder(pending)
<1>1. Lists(ts, pending)
  <2>1. IsFiniteSet(pending) /\ IsPool(pending) /\ \A t \in pending : t.amount \in Int
    BY DEF SealedInv, HeldInv, Sealed
  <2> QED BY <2>1, PoolInOrder
<1>2. reply' = [sent |-> ts, live |-> l, stale |-> stale,
                text |-> IF l THEN cmd_gettransactions(ts, stale[1])
                         ELSE cmd_gettransaction_test(ts, stale[1])]
  BY DEF ReplyTransactions
<1> HIDE DEF ts
<1>3. /\ reply'.sent = ts /\ reply'.live = l /\ reply'.stale = stale
      /\ reply'.text = IF l THEN cmd_gettransactions(ts, stale[1])
                       ELSE cmd_gettransaction_test(ts, stale[1])
  BY <1>2
<1>4. \A i \in 1..Len(ts) : Sealed(ts[i])
  BY <1>1 DEF Lists, Range, SealedInv
<1>5. stale \in [0..MAX_TRANSACTIONS -> Stale] /\ "getrans" # "gethosts"
        /\ "getrans" # "getblocks"
  BY StaleIs
<1>6. Packed'
  BY <1>1, <1>3, <1>4, <1>5 DEF Packed, Lists
<1> QED BY <1>6 DEF PackedInv

(* and that to "gethosts" all known hosts.                                 *)
LEMMA HostsPacked ==
    ASSUME SealedInv, NEW stale \in Stales, NEW l \in BOOLEAN,
           request = "gethosts", UNCHANGED <<request, knownHosts>>, ReplyHosts(l, stale)
    PROVE  PackedInv'
<1> DEFINE hs == SetToSeq(knownHosts)
<1>1. Lists(hs, knownHosts)
  BY HostsInSomeOrder DEF SealedInv
<1>2. reply' = [sent |-> hs, live |-> l, stale |-> stale,
                text |-> IF l THEN cmd_gethosts(hs) ELSE cmd_gethosts_test(hs)]
  BY DEF ReplyHosts
<1> HIDE DEF hs
<1>3. /\ reply'.sent = hs /\ reply'.live = l /\ reply'.stale = stale
      /\ reply'.text = IF l THEN cmd_gethosts(hs) ELSE cmd_gethosts_test(hs)
  BY <1>2
<1>4. stale \in [0..MAX_TRANSACTIONS -> Stale] /\ "gethosts" # "getrans"
        /\ "gethosts" # "getblocks"
  BY StaleIs
<1>5. Packed'
  BY <1>1, <1>3, <1>4 DEF Packed, Lists
<1> QED BY <1>5 DEF PackedInv

(* Every step keeps the reply what the handler made, and what is received  *)
(* one of its two readings.                                                *)
LEMMA PackedInductive ==
    /\ Init => PackedInv /\ TakenInv
    /\ HeldInv /\ SealedInv /\ PackedInv /\ TakenInv /\ [Next]_vars => PackedInv' /\ TakenInv'
<1>1. Init => PackedInv /\ TakenInv
  BY DEF Init, PackedInv, TakenInv
<1>2. ASSUME HeldInv, SealedInv, PackedInv, TakenInv, [Next]_vars
      PROVE  PackedInv' /\ TakenInv'
  <2>1. CASE Nothing
    BY <1>2, <2>1 DEF Nothing, PackedInv, TakenInv
  <2>2. ASSUME NEW stale \in Stales, Reply(stale) PROVE PackedInv' /\ TakenInv'
    <3>1. /\ reply = <<>> /\ UNCHANGED <<request, knownHosts, received>>
          /\ \/ request = "getblocks" /\ \E n \in 0..Len(chain) : ReplyBlocks(n, stale)
             \/ request = "getrans" /\ \E l \in BOOLEAN : ReplyTransactions(l, stale)
             \/ request = "gethosts" /\ \E l \in BOOLEAN : ReplyHosts(l, stale)
      BY <2>2 DEF Reply, held
    <3>2. TakenInv'
      BY <1>2, <3>1 DEF TakenInv
    <3>3. PackedInv'
      BY <1>2, <3>1, BlocksPacked, TransactionsPacked, HostsPacked
    <3> QED BY <3>2, <3>3
  <2>3. CASE UNCHANGED <<request, knownHosts, reply>>
    <3>1. PackedInv'
      BY <1>2, <2>3 DEF PackedInv, Packed
    <3>2. CASE UNCHANGED received
      <4>1. Read(reply.text)' = Read(reply.text)
        BY <2>3 DEF Read
      <4>2. \A k : FromPacket(get_packet(reply.text, k))' = FromPacket(get_packet(reply.text, k))
        BY <2>3 DEF FromPacket, Read
      <4>3. TakenInv'
        BY <1>2, <2>3, <3>2, <4>1, <4>2 DEF TakenInv
      <4> QED BY <3>1, <4>3
    <3>3. CASE ReadsText
      <4>1. reply # <<>> /\ received' = Taken("text", Read(reply.text))
        BY <3>3 DEF ReadsText
      <4>2. Read(reply.text)' = Read(reply.text)
        BY <2>3 DEF Read
      <4>3. received' = Taken("text", Read(reply.text)') /\ reply' # <<>>
        BY <2>3, <4>1, <4>2
      <4> QED BY <3>1, <4>3 DEF TakenInv
    <3>4. ASSUME NEW k \in 1..Len(reply.text), ReadsPacket(k) PROVE TakenInv'
      <4>1. /\ reply # <<>> /\ reply.live /\ Fits(reply.text, k)
            /\ received' = Taken("packet", FromPacket(get_packet(reply.text, k)))
        BY <3>4 DEF ReadsPacket, FromPacket, BlocksWord
      <4>2. FromPacket(get_packet(reply.text, k))' = FromPacket(get_packet(reply.text, k))
        BY <2>3 DEF FromPacket, Read
      <4> QED BY <2>3, <4>1, <4>2 DEF TakenInv
    <3>5. \/ UNCHANGED received \/ ReadsText
          \/ \E k \in 1..Len(reply.text) : ReadsPacket(k)
          \/ Nothing \/ \E stale \in Stales : Reply(stale)
      BY <1>2, StepsAre DEF StepsOfReply
    <3>6. CASE Nothing \/ \E stale \in Stales : Reply(stale)
      BY <2>1, <2>2, <3>6
    <3> QED BY <3>1, <3>2, <3>3, <3>4, <3>5, <3>6
  <2>4. ReadsText \/ (\E k \in 1..Len(reply.text) : ReadsPacket(k))
            => UNCHANGED <<request, knownHosts, reply>>
    BY DEF ReadsText, ReadsPacket, held
  <2> QED BY <1>2, <2>1, <2>2, <2>3, <2>4, StepsAre DEF StepsOfReply
<1> QED BY <1>1, <1>2

---------------------------------------------------------------------------
(* What arrives.                                                           *)

LEMMA TakenFields ==
    ASSUME NEW way, NEW outcome
    PROVE  /\ Taken(way, outcome).way = way
           /\ Taken(way, outcome).alive = outcome.alive
           /\ Taken(way, outcome).items = outcome.items
BY DEF Taken

(* A block that its text carries, in the words of Readable.                *)
LEMMA GoodShown ==
    ASSUME NEW b, Packable(b), NEW stale
    PROVE  GoodBlock(b, stale) /\ BlockShown(b)
           <=> /\ stale[0] = Other
               /\ \A i \in 1..MAX_TRANSACTIONS :
                     Undivided(b.txs[i].amount, stale[i]) /\ Restored(b.txs[i].amount)
<1>1. \A i \in 1..MAX_TRANSACTIONS : b.txs[i].amount \in Amounts \cap Int
  BY PackableSealed DEF Sealed
<1>2. ASSUME NEW i \in 1..MAX_TRANSACTIONS
      PROVE  /\ GoodAmount(b.txs[i].amount, stale[i])
             /\ stof(Kept(b.txs[i].amount)) = b.txs[i].amount
             <=> Undivided(b.txs[i].amount, stale[i]) /\ Restored(b.txs[i].amount)
  <2> DEFINE n == b.txs[i].amount
  <2>1. n \in Int /\ n \in Amounts
    BY <1>1
  <2> HIDE DEF n
  <2>2. GoodAmount(n, stale[i]) <=> Undivided(n, stale[i])
    BY <2>1, GoodIsUndivided
  <2>3. GoodAmount(n, stale[i]) => n \in Nat
    BY <2>1 DEF GoodAmount
  <2>4. n \in Nat => (stof(Kept(n)) = n <=> Restored(n))
    BY <2>1, KeptIsRestored
  <2> QED BY <2>2, <2>3, <2>4 DEF n
<1> QED BY <1>2 DEF GoodBlock, BlockShown

(* The three replies, one by one.                                          *)
LEMMA BlocksArrive ==
    ASSUME Packed, TakenInv, received # <<>>, request = "getblocks"
    PROVE  ArrivesAsSent /\ ReadExactlyWhen
<1> DEFINE sent == reply.sent
           stale == reply.stale
           text == reply.text
           n == Len(sent)
           items == [i \in 1..n |-> AsPacked(sent[i])]
<1>1. /\ IsSequence(sent) /\ stale \in [0..MAX_TRANSACTIONS -> Stale]
      /\ \A i \in 1..Len(sent) : Packable(sent[i])
      /\ text = cmd_getblocks(sent, stale)
  BY DEF Packed
<1>2. n \in Nat /\ DOMAIN sent = 1..n
  BY <1>1, AppendToSequence
<1>3. Expected = items
  <2>1. Expected = [i \in DOMAIN sent |-> AsPacked(sent[i])]
    BY DEF Expected, AsPacked
  <2> HIDE DEF sent
  <2> QED BY <1>2, <2>1
<1>4. Len(Expected) = n /\ \A i \in 1..n : Expected[i] = AsPacked(sent[i])
  <2> HIDE DEF sent, n
  <2> QED BY <1>2, <1>3
<1> DEFINE ok == /\ n # 0
                 /\ \A i \in 1..n : GoodBlock(sent[i], stale) /\ BlockShown(sent[i])
<1>5. Readable <=> ok
  <2>1. Readable <=> /\ sent # <<>>
                     /\ stale[0] = Other
                     /\ \A b \in Range(sent) : \A i \in 1..MAX_TRANSACTIONS :
                           /\ Undivided(b.txs[i].amount, stale[i])
                           /\ Restored(b.txs[i].amount)
    BY DEF Readable
  <2>2. Range(sent) = {sent[i] : i \in 1..n}
    <3> HIDE DEF sent, n
    <3> QED BY <1>2 DEF Range
  <2>3. sent # <<>> <=> n # 0
    <3> HIDE DEF sent
    <3> QED BY <1>1, EmptyList, EmptyText
  <2> HIDE DEF sent, stale
  <2>4. n # 0 => 1 \in 1..n
    BY <1>2
  <2> HIDE DEF n
  <2>5. \A j \in 1..n : GoodBlock(sent[j], stale) /\ BlockShown(sent[j])
           <=> /\ stale[0] = Other
               /\ \A i \in 1..MAX_TRANSACTIONS :
                     /\ Undivided(sent[j].txs[i].amount, stale[i])
                     /\ Restored(sent[j].txs[i].amount)
    BY <1>1, GoodShown DEF n
  <2>6. ASSUME Readable PROVE ok
    BY <2>1, <2>2, <2>3, <2>5, <2>6
  <2>7. ASSUME ok PROVE Readable
    BY <2>1, <2>2, <2>3, <2>4, <2>5, <2>7
  <2> QED BY <2>6, <2>7
<1>6. \A t : Read(t) = unpack_blocks(t)
  BY DEF Read
<1>7. CASE received = Taken("text", Read(text))
  <2> DEFINE outcome == unpack_blocks(text)
  <2>1. outcome = IF ok THEN Returns(items) ELSE Dies
    BY <1>1, BlocksReply
  <2>2. /\ received.way = "text" /\ received.alive = outcome.alive
        /\ received.items = outcome.items
    BY <1>6, <1>7, TakenFields
  <2> HIDE DEF outcome, items, ok, sent, n, text
  <2>3. CASE ok
    <3>1. received.alive = TRUE /\ received.items = Expected
      BY <1>3, <2>1, <2>2, <2>3, Outcomes
    <3>2. DOMAIN received.items = 1..n /\ Len(received.items) = n
      BY <1>2, <1>3, <1>4, <3>1 DEF items
    <3>3. ArrivesAsSent
      BY <1>2, <1>4, <2>2, <3>1, <3>2 DEF ArrivesAsSent
    <3>4. ReadExactlyWhen
      BY <1>5, <2>2, <2>3, <3>1, <3>2 DEF ReadExactlyWhen, n, sent
    <3> QED BY <3>3, <3>4
  <2>4. CASE ~ok
    <3>1. received.alive = FALSE /\ received.items = <<>>
      BY <2>1, <2>2, <2>4, Outcomes
    <3>2. Len(received.items) = 0 /\ DOMAIN received.items = {}
      BY <3>1
    <3>3. ArrivesAsSent
      BY <1>2, <1>4, <2>2, <3>2 DEF ArrivesAsSent
    <3>4. ReadExactlyWhen
      BY <1>5, <2>4, <3>1 DEF ReadExactlyWhen
    <3> QED BY <3>3, <3>4
  <2> QED BY <2>3, <2>4
<1>8. ASSUME NEW k \in 1..Len(text), Fits(text, k),
             received = Taken("packet", FromPacket(get_packet(text, k)))
      PROVE  ArrivesAsSent /\ ReadExactlyWhen
  <2> DEFINE outcome == FromPacket(get_packet(text, k))
  <2>1. received.way = "packet" /\ received.items = outcome.items
    BY <1>8, TakenFields
  <2>2. ReadExactlyWhen
    BY <2>1 DEF ReadExactlyWhen
  <2>3. \/ outcome.items = <<>>
        \/ /\ n # 0 /\ Len(outcome.items) = 1 /\ DOMAIN outcome.items = {1}
           /\ outcome.items[1] = AsPacked(sent[1])
    <3>1. CASE unpack_data(get_packet(text, k), Bar)[1] # BlocksWord
      <4>1. outcome = Returns(<<>>)
        BY <3>1 DEF FromPacket
      <4> HIDE DEF outcome
      <4> QED BY <4>1, Outcomes
    <3>2. CASE unpack_data(get_packet(text, k), Bar)[1] = BlocksWord
      <4>1. outcome = unpack_blocks(get_packet(text, k))
        BY <1>6, <3>2 DEF FromPacket
      <4>2. n # 0
        <5>1. n = 0 => text = BlocksWord
          BY <1>1, BlocksAsText
        <5> HIDE DEF text
        <5> QED BY <1>8, <3>2, <5>1, WordAlone
      <4>3. k \in 0..Len(text)
        <5>1. IsSequence(text)
          BY <1>1, BlocksAsText
        <5> HIDE DEF text
        <5>2. Len(text) \in Nat
          BY <5>1, AppendToSequence
        <5> QED BY <1>8, <5>2
      <4> HIDE DEF outcome
      <4>4. \/ outcome = Dies
            \/ /\ Len(outcome.items) = 1 /\ DOMAIN outcome.items = {1}
               /\ outcome.items[1] = AsPacked(sent[1])
        <5> HIDE DEF sent, stale, text
        <5> QED BY <1>1, <1>8, <4>1, <4>2, <4>3, BlocksInPacket DEF n
      <4> QED BY <4>2, <4>4, Outcomes
    <3> QED BY <3>1, <3>2
  <2> HIDE DEF outcome, sent, n
  <2>4. ArrivesAsSent
    <3>1. CASE outcome.items = <<>>
      <4>1. Len(received.items) = 0 /\ DOMAIN received.items = {}
        BY <2>1, <3>1
      <4> QED BY <1>2, <1>4, <4>1 DEF ArrivesAsSent
    <3>2. CASE /\ n # 0 /\ Len(outcome.items) = 1 /\ DOMAIN outcome.items = {1}
               /\ outcome.items[1] = AsPacked(sent[1])
      <4>1. Expected[1] = AsPacked(sent[1]) /\ 1 <= n
        BY <1>2, <1>4, <3>2
      <4> QED BY <1>4, <2>1, <3>2, <4>1 DEF ArrivesAsSent
    <3> QED BY <2>3, <3>1, <3>2
  <2> QED BY <2>2, <2>4
<1> QED BY <1>7, <1>8 DEF TakenInv

(* Nothing comes of a packet that do_command has no word for.              *)
LEMMA NothingTaken ==
    ASSUME NEW text, received = Taken("packet", FromPacket(text)),
           unpack_data(text, Bar)[1] # BlocksWord, Len(Expected) \in Nat
    PROVE  ArrivesAsSent /\ ReadExactlyWhen
<1>1. FromPacket(text) = Returns(<<>>)
  BY DEF FromPacket
<1>2. received.way = "packet" /\ received.items = <<>>
  BY <1>1, TakenFields, Outcomes
<1>3. Len(received.items) = 0 /\ DOMAIN received.items = {}
  BY <1>2
<1>4. ArrivesAsSent
  BY <1>3 DEF ArrivesAsSent
<1>5. ReadExactlyWhen
  BY <1>2 DEF ReadExactlyWhen
<1> QED BY <1>4, <1>5

(* Nor of a reading that ends the process, which is right where the reply  *)
(* is not a readable one.                                                  *)
LEMMA EndedReading ==
    ASSUME received = Taken("text", Dies), Len(Expected) \in Nat, ~Readable
    PROVE  ArrivesAsSent /\ ReadExactlyWhen
<1>2. received.way = "text" /\ received.items = <<>> /\ received.alive = FALSE
  BY TakenFields, Outcomes
<1>3. Len(received.items) = 0 /\ DOMAIN received.items = {}
  BY <1>2
<1>4. ArrivesAsSent
  BY <1>2, <1>3 DEF ArrivesAsSent
<1>5. ReadExactlyWhen
  BY <1>2 DEF ReadExactlyWhen
<1> QED BY <1>4, <1>5

LEMMA TransactionsArrive ==
    ASSUME Packed, TakenInv, received # <<>>, request = "getrans"
    PROVE  ArrivesAsSent /\ ReadExactlyWhen
<1> DEFINE sent == reply.sent
           st == reply.stale[1]
           text == reply.text
           n == Len(sent)
<1>1. /\ IsSequence(sent) /\ reply.stale \in [0..MAX_TRANSACTIONS -> Stale]
      /\ reply.live \in BOOLEAN
      /\ \A i \in 1..Len(sent) : Sealed(sent[i])
      /\ text = IF reply.live THEN cmd_gettransactions(sent, st)
                ELSE cmd_gettransaction_test(sent, st)
  BY DEF Packed
<1>2. n \in Nat /\ DOMAIN sent = 1..n /\ \A i \in 1..n : sent[i].amount \in Int
  BY <1>1, AppendToSequence DEF Sealed
<1>3. st \in Stale
  BY <1>1 DEF MAX_TRANSACTIONS
<1>4. Expected = Reverse(sent)
  BY DEF Expected
<1>5. Len(Expected) = n /\ \A i \in 1..n : Expected[i] = sent[(n - i) + 1]
  <2>1. Expected = [i \in 1..n |-> sent[(n - i) + 1]]
    BY <1>4 DEF Reverse
  <2> HIDE DEF sent, n
  <2> QED BY <1>2, <2>1
<1>6. \A t : Read(t) = cmd_transactions_test(t)
  BY DEF Read
<1> DEFINE good == n # 0 /\ \A i \in 1..n : GoodAmount(sent[i].amount, st)
<1>7. Readable <=> good /\ ~reply.live
  <2>1. Readable <=> /\ sent # <<>> /\ ~reply.live
                     /\ \A t \in Range(sent) : Undivided(t.amount, st)
    BY DEF Readable
  <2>2. Range(sent) = {sent[i] : i \in 1..n}
    <3> HIDE DEF sent, n
    <3> QED BY <1>2 DEF Range
  <2>3. sent # <<>> <=> n # 0
    <3> HIDE DEF sent
    <3> QED BY <1>1, EmptyList, EmptyText
  <2> HIDE DEF sent, st, n
  <2>4. \A i \in 1..n : GoodAmount(sent[i].amount, st) <=> Undivided(sent[i].amount, st)
    BY <1>2, GoodIsUndivided
  <2> QED BY <2>1, <2>2, <2>3, <2>4
<1>8. CASE received = Taken("text", Read(text))
  <2>1. CASE reply.live
    <3>1. Read(text) = Dies
      <4>1. text = cmd_gettransactions(sent, st)
        BY <1>1, <2>1
      <4> HIDE DEF sent, st, text
      <4> QED BY <1>1, <1>2, <1>3, <1>6, <4>1, SentRead DEF n
    <3> QED BY <1>2, <1>5, <1>7, <1>8, <2>1, <3>1, EndedReading
  <2>2. CASE ~reply.live
    <3> DEFINE r == [i \in 1..n |-> ReadAs(sent[i])]
    <3>1. Read(text) = IF good THEN Returns(Reverse(r)) ELSE Dies
      <4>1. text = cmd_gettransaction_test(sent, st)
        BY <1>1, <2>2
      <4> HIDE DEF sent, st, text
      <4> QED BY <1>1, <1>2, <1>3, <1>6, <4>1, TestRead DEF n
    <3>2. CASE ~good
      <4> HIDE DEF good, text, r
      <4> QED BY <1>2, <1>5, <1>7, <1>8, <3>1, <3>2, EndedReading
    <3>3. CASE good
      <4>1. received.way = "text" /\ received.alive = TRUE /\ received.items = Reverse(r)
        <5> HIDE DEF good, text, r
        <5> QED BY <1>8, <3>1, <3>3, TakenFields, Outcomes
      <4>2. Reverse(r) = [i \in 1..n |-> ReadAs(sent[(n - i) + 1])]
        <5> HIDE DEF sent, n
        <5>1. Len(r) = n
          BY <1>2
        <5>2. \A i \in 1..n : (n - i) + 1 \in 1..n
          BY <1>2
        <5>3. \A i \in 1..n : r[(n - i) + 1] = ReadAs(sent[(n - i) + 1])
          BY <5>2
        <5>4. Reverse(r) = [i \in 1..n |-> r[(n - i) + 1]]
          <6> HIDE DEF r
          <6> QED BY <5>1 DEF Reverse
        <5> HIDE DEF r
        <5> QED BY <5>3, <5>4
      <4>3. \A i \in 1..n : (n - i) + 1 \in 1..n
        <5> HIDE DEF n
        <5> QED BY <1>2
      <4>4. /\ DOMAIN received.items = 1..n /\ Len(received.items) = n
            /\ \A i \in 1..n : received.items[i] = ReadAs(sent[(n - i) + 1])
        <5> HIDE DEF n, sent, r
        <5> QED BY <1>2, <4>1, <4>2
      <4> HIDE DEF n, sent, r, good
      <4>5. ASSUME NEW i \in 1..n
            PROVE  received.items[i] = Expected[i] \/ ~CheckSignature(received.items[i])
        <5> DEFINE t == sent[(n - i) + 1]
        <5>1. Sealed(t) /\ Expected[i] = t /\ received.items[i] = ReadAs(t)
          BY <1>1, <1>5, <4>3, <4>4 DEF n
        <5> HIDE DEF t
        <5> QED BY <5>1, SealedRead
      <4>6. ArrivesAsSent
        BY <1>2, <1>5, <4>1, <4>4, <4>5 DEF ArrivesAsSent
      <4>7. ReadExactlyWhen
        BY <1>7, <2>2, <3>3, <4>1, <4>4 DEF ReadExactlyWhen, n, sent
      <4> QED BY <4>6, <4>7
    <3> QED BY <3>2, <3>3
  <2> QED BY <2>1, <2>2
<1>9. ASSUME NEW k \in 1..Len(text), reply.live,
             received = Taken("packet", FromPacket(get_packet(text, k)))
      PROVE  ArrivesAsSent /\ ReadExactlyWhen
  <2>1. text = cmd_gettransactions(sent, st)
    BY <1>1, <1>9
  <2> HIDE DEF sent, st, text
  <2>2. PICK y : IsSequence(y) /\ text = Cat(<<Word("transactions")>>, y)
    BY <1>1, <2>1, SentAsText DEF TransactionsWord
  <2>3. unpack_data(get_packet(text, k), Bar)[1] # BlocksWord
    BY <1>9, <2>2, OtherWords, OtherCommand
  <2> QED BY <1>2, <1>5, <1>9, <2>3, NothingTaken
<1> QED BY <1>8, <1>9 DEF TakenInv

LEMMA HostsArrive ==
    ASSUME HeldInv, Packed, TakenInv, received # <<>>, request = "gethosts"
    PROVE  ArrivesAsSent /\ ReadExactlyWhen
<1> DEFINE sent == reply.sent
           text == reply.text
           n == Len(sent)
<1>1. /\ Lists(sent, knownHosts) /\ reply.live \in BOOLEAN
      /\ text = IF reply.live THEN cmd_gethosts(sent) ELSE cmd_gethosts_test(sent)
  BY DEF Packed
<1>2. /\ IsSequence(sent) /\ n \in Nat /\ DOMAIN sent = 1..n
      /\ knownHosts = {sent[i] : i \in 1..n}
  <2> HIDE DEF sent
  <2> QED BY <1>1 DEF Lists, Range
<1>3. n # 0
  <2>1. OwnHost \in knownHosts
    BY DEF HeldInv
  <2> HIDE DEF sent, n
  <2>2. PICK i \in 1..n : TRUE
    BY <1>2, <2>1
  <2> QED BY <1>2, <2>2
<1>4. \A i \in 1..n : /\ IsHost(sent[i])
                      /\ sent[i] = [port |-> sent[i].port, address |-> sent[i].address]
                      /\ Plain(sent[i].address, Dash) <=> Dash \notin Range(sent[i].address)
  <2> HIDE DEF sent, n
  <2>1. ASSUME NEW i \in 1..n
        PROVE  /\ IsHost(sent[i])
               /\ sent[i] = [port |-> sent[i].port, address |-> sent[i].address]
               /\ Plain(sent[i].address, Dash) <=> Dash \notin Range(sent[i].address)
    <3> DEFINE h == sent[i]
    <3>1. h \in Hosts \cup {OwnHost}
      BY <1>2 DEF HeldInv
    <3>2. /\ h.port \in Int /\ h = [address |-> h.address, port |-> h.port]
          /\ IsSequence(h.address) /\ Bar \notin Range(h.address)
      <4> HIDE DEF h
      <4> QED BY <3>1, HostsAssumption DEF IsSequence
    <3>3. h = [port |-> h.port, address |-> h.address]
      <4> HIDE DEF h
      <4> QED BY <3>2
    <3>4. \A d : Plain(h.address, d) <=> d \notin Range(h.address)
      <4> HIDE DEF h
      <4>1. DOMAIN h.address = 1..Len(h.address)
        BY <3>2, AppendToSequence
      <4> QED BY <4>1 DEF Plain, Range
    <3> HIDE DEF h
    <3>5. IsHost(h)
      BY <3>2, <3>4 DEF IsHost
    <3> QED BY <3>3, <3>4, <3>5 DEF h
  <2> QED BY <2>1
<1>5. Expected = sent
  BY DEF Expected
<1>6. \A t : Read(t) = cmd_hosts_test(t)
  BY DEF Read
<1>7. Readable <=> /\ ~reply.live
                   /\ \A i \in 1..n : sent[i].port >= 0 /\ Plain(sent[i].address, Dash)
  <2>1. Readable <=> /\ ~reply.live
                     /\ \A h \in knownHosts : h.port >= 0 /\ Dash \notin Range(h.address)
    BY DEF Readable
  <2> HIDE DEF sent, n
  <2> QED BY <1>2, <1>4, <2>1
<1>8. Len(Expected) = n
  BY <1>5
<1>9. CASE received = Taken("text", Read(text))
  <2>1. CASE reply.live
    <3>1. Read(text) = Dies
      <4>1. text = cmd_gethosts(sent)
        BY <1>1, <2>1
      <4> HIDE DEF sent, text
      <4> QED BY <1>2, <1>3, <1>4, <1>6, <4>1, SentHostsRead DEF n
    <3> QED BY <1>2, <1>7, <1>8, <1>9, <2>1, <3>1, EndedReading
  <2>2. CASE ~reply.live
    <3> DEFINE good == \A i \in 1..n : sent[i].port >= 0 /\ Plain(sent[i].address, Dash)
               r == [i \in 1..n |-> [port |-> sent[i].port, address |-> sent[i].address]]
    <3>1. Read(text) = IF good THEN Returns(r) ELSE Dies
      <4>1. text = cmd_gethosts_test(sent)
        BY <1>1, <2>2
      <4> HIDE DEF sent, text
      <4> QED BY <1>2, <1>3, <1>4, <1>6, <4>1, TestHostsRead DEF n
    <3>2. CASE ~good
      <4> HIDE DEF text, r
      <4> QED BY <1>2, <1>7, <1>8, <1>9, <3>1, <3>2, EndedReading
    <3>3. CASE good
      <4>1. received.way = "text" /\ received.alive = TRUE /\ received.items = r
        <5> HIDE DEF good, text, r
        <5> QED BY <1>9, <3>1, <3>3, TakenFields, Outcomes
      <4>2. \A i \in 1..n : r[i] = sent[i]
        <5> HIDE DEF sent, n
        <5> QED BY <1>4
      <4>3. DOMAIN r = 1..n /\ Len(r) = n
        <5> HIDE DEF n
        <5> QED BY <1>2
      <4> HIDE DEF n, sent, r
      <4>4. ArrivesAsSent
        BY <1>2, <1>5, <1>8, <4>1, <4>2, <4>3 DEF ArrivesAsSent
      <4>5. ReadExactlyWhen
        BY <1>7, <2>2, <3>3, <4>1, <4>3 DEF ReadExactlyWhen, n, sent
      <4> QED BY <4>4, <4>5
    <3> QED BY <3>2, <3>3
  <2> QED BY <2>1, <2>2
<1>10. ASSUME NEW k \in 1..Len(text), reply.live,
              received = Taken("packet", FromPacket(get_packet(text, k)))
       PROVE  ArrivesAsSent /\ ReadExactlyWhen
  <2>1. text = cmd_gethosts(sent)
    BY <1>1, <1>10
  <2>2. \A i \in 1..Len(sent) : IsHost(sent[i])
    BY <1>4
  <2> HIDE DEF sent, text
  <2>3. PICK y : IsSequence(y) /\ text = Cat(<<Word("hosts")>>, y)
    BY <1>2, <1>3, <2>1, <2>2, SentHostsRead DEF HostsWord, n
  <2>4. unpack_data(get_packet(text, k), Bar)[1] # BlocksWord
    BY <1>10, <2>3, OtherWords, OtherCommand
  <2> QED BY <1>2, <1>8, <1>10, <2>4, NothingTaken
<1> QED BY <1>9, <1>10 DEF TakenInv

(* All of them.                                                            *)
LEMMA Arrives ==
    ASSUME HeldInv, PackedInv, TakenInv
    PROVE  ArrivesAsSent /\ ReadExactlyWhen
<1>1. CASE received = <<>>
  BY <1>1 DEF ArrivesAsSent, ReadExactlyWhen
<1>2. CASE received # <<>>
  <2>1. Packed /\ request \in {"getblocks", "gethosts", "getrans"}
    BY <1>2 DEF TakenInv, PackedInv
  <2> QED BY <1>2, <2>1, BlocksArrive, TransactionsArrive, HostsArrive
<1> QED BY <1>1, <1>2

(* Whatever keys, hosts and amounts there are, however long the buffer of  *)
(* an amount is, wherever a packet ends and whatever stands in the bytes   *)
(* that nobody wrote: items arrive in order, without a gap and unchanged,  *)
(* except for a transaction whose amount has lost digits that make another *)
(* float, and whose signature is then refused; and one packet never brings *)
(* more than one block (Connection.cpp:79-98, 370-405, Block.cpp:90-103,   *)
(* Transaction.cpp:36).                                                    *)
THEOREM ItemsArriveAsSent == Spec => []ArrivesAsSent
<1>1. HeldInv /\ PackedInv /\ TakenInv => ArrivesAsSent
  BY Arrives
<1> QED BY <1>1, UsersInductive, HeldInductive, SealedInductive, PackedInductive, PTL DEF Spec

(* A whole reply is read exactly if it holds an item, no amount or port is *)
(* negative, no address holds a '-', no byte that nobody wrote is a        *)
(* delimiter, and, for blocks, stof restores every amount from the digits  *)
(* that fit in the buffer; it then brings as many items as were sent.      *)
(* What cmd_gethosts and cmd_gettransactions really send never is          *)
(* (Connection.cpp:159-181, 300-316, 387, Transaction.cpp:36, Node.cpp:    *)
(* 73-80).                                                                 *)
THEOREM RepliesAreReadable == Spec => []ReadExactlyWhen
<1>1. HeldInv /\ PackedInv /\ TakenInv => ReadExactlyWhen
  BY Arrives
<1> QED BY <1>1, UsersInductive, HeldInductive, SealedInductive, PackedInductive, PTL DEF Spec
=============================================================================

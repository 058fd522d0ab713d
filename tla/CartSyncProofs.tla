--------------------------- MODULE CartSyncProofs ---------------------------
(***************************************************************************)
(* For any items, taps, faults and bound: the state is typed, the page is  *)
(* the server's at rest, a navigation leaves nothing behind, and the       *)
(* server has in the end what was tapped.                                  *)
(***************************************************************************)
EXTENDS CartSyncProperties, DataFacts

-----------------------------------------------------------------------------
(* What the operators on carts and operations give.                        *)

\* How much of an item is in a cart: a sum, hence a number.
Quantities(c, i) == [l \in OfItem(c, i) |-> c[l].quantity]

LEMMA QuantityIsSum ==
  ASSUME NEW c, Cart(c), NEW i
  PROVE  /\ IsFiniteSet(OfItem(c, i)) /\ Quantities(c, i) \in [OfItem(c, i) -> Nat]
         /\ Quantity(c, i) = SumOf(Quantities(c, i), OfItem(c, i))
<1> DEFINE S == OfItem(c, i)
           h == Quantities(c, i)
           P(f) == f = [s \in SUBSET S |->
                          IF s = {} THEN 0
                          ELSE c[CHOOSE x \in s : TRUE].quantity + f[s \ {CHOOSE x \in s : TRUE}]]
           q == CHOOSE f : P(f)
<1>1. S \subseteq DOMAIN c /\ \A l \in S : c[l].quantity \in Nat BY DEF Cart, Line, OfItem
<1>2. IsFiniteSet(S) BY <1>1, FS_Subset DEF Cart
<1>3. h \in [S -> Nat] /\ \A l \in S : h[l] = c[l].quantity BY <1>1 DEF Quantities
<1>4. Quantity(c, i) = q[S] BY DEF Quantity, MapThenSumSet, MapThenFoldSet, S
<1> HIDE DEF S, h
<1>5. \A s \in SUBSET S : s # {} => (CHOOSE x \in s : TRUE) \in S OBVIOUS
<1>6. \A f : IsFold(f, S, h) <=> P(f)
  <2> SUFFICES ASSUME NEW f PROVE IsFold(f, S, h) <=> P(f) OBVIOUS
  <2>1. [s \in SUBSET S |->
           IF s = {} THEN 0 ELSE h[CHOOSE x \in s : TRUE] + f[s \ {CHOOSE x \in s : TRUE}]] =
        [s \in SUBSET S |->
           IF s = {} THEN 0
           ELSE c[CHOOSE x \in s : TRUE].quantity + f[s \ {CHOOSE x \in s : TRUE}]]
    BY <1>3, <1>5
  <2> QED BY <2>1 DEF IsFold
<1>7. \E f : P(f)
  <2>1. PICK f : IsFold(f, S, h) BY <1>2, <1>3, FoldExists
  <2> HIDE DEF P
  <2> QED BY <1>6, <2>1
<1>8. P(q)
  <2> HIDE DEF P
  <2> QED BY <1>7
<1> HIDE DEF P, q
<1>9. q[S] = SumOf(h, S) BY <1>2, <1>3, <1>6, <1>8, SumIs
<1> QED BY <1>2, <1>3, <1>4, <1>9 DEF S, h

\* So it is a number.
LEMMA QuantityIsNumber ==
  ASSUME NEW c, Cart(c), NEW i
  PROVE  Quantity(c, i) \in Nat
<1> DEFINE h == Quantities(c, i)
           S == OfItem(c, i)
<1>1. IsFiniteSet(S) /\ h \in [S -> Nat] /\ Quantity(c, i) = SumOf(h, S) BY QuantityIsSum
<1> HIDE DEF h, S
<1> QED BY <1>1, SumIs

\* What is sent is gathered one by one.
LEMMA SendableSteps ==
  ASSUME NEW ops \in Seq(Operation)
  PROVE  \E q : /\ q[0] = <<>> /\ q[Len(ops)] = Sendable(ops)
                /\ \A k \in 0..Len(ops) : q[k] \in Seq({ops[n] : n \in DOMAIN ops})
                /\ \A k \in 1..Len(ops) :
                     q[k] = IF ops[k].type = "removeLine" /\ ops[k].line <= 0 THEN q[k - 1]
                            ELSE Append(q[k - 1], ops[k])
<1> DEFINE N == Len(ops)
           S == Seq({ops[n] : n \in DOMAIN ops})
           skip(k) == ops[k].type = "removeLine" /\ ops[k].line <= 0
           g == [k \in 1..N |-> [t \in S |-> IF skip(k) THEN t ELSE Append(t, ops[k])]]
           P(f) == f = [n \in 0..N |->
                          IF n = 0 THEN <<>>
                          ELSE IF ops[n].type = "removeLine" /\ ops[n].line <= 0 THEN f[n - 1]
                          ELSE Append(f[n - 1], ops[n])]
           q == CHOOSE f : P(f)
<1>1. N \in Nat /\ DOMAIN ops = 1..N /\ \A k \in 1..N : ops[k] \in {ops[n] : n \in DOMAIN ops}
  OBVIOUS
<1>2. <<>> \in S OBVIOUS
<1>3. \A k \in 1..N : \A t \in S : Append(t, ops[k]) \in S BY <1>1
<1>4. g \in [1..N -> [S -> S]]
  <2> HIDE DEF S
  <2> QED BY <1>3
<1>5. PICK f \in [0..N -> S] : IsIteration(f, N, <<>>, g)
  <2> HIDE DEF g, S, N
  <2> QED BY <1>1, <1>2, <1>4, IterationExists
<1>6. \A n \in 1..N : g[n][f[n - 1]] = IF skip(n) THEN f[n - 1] ELSE Append(f[n - 1], ops[n])
  <2> HIDE DEF S
  <2> QED BY <1>1
<1>7. f = [n \in 0..N |-> IF n = 0 THEN <<>> ELSE g[n][f[n - 1]]] BY <1>5 DEF IsIteration
<1>8. P(f)
  <2> HIDE DEF g, N, S
  <2>1. \A n \in 0..N : f[n] = IF n = 0 THEN <<>>
                               ELSE IF ops[n].type = "removeLine" /\ ops[n].line <= 0 THEN f[n - 1]
                               ELSE Append(f[n - 1], ops[n])
    <3> TAKE n \in 0..N
    <3>1. f[n] = IF n = 0 THEN <<>> ELSE g[n][f[n - 1]] BY <1>7
    <3>2. n # 0 => n \in 1..N BY <1>1
    <3> QED BY <1>6, <3>1, <3>2
  <2>2. f = [n \in 0..N |-> f[n]] BY <1>7
  <2> QED BY <2>1, <2>2
<1>9. P(q)
  <2> HIDE DEF P
  <2> QED BY <1>8
<1>10. Sendable(ops) = q[N] BY DEF Sendable
<1>11. q[0] = <<>> /\ \A k \in 1..N : q[k] = IF skip(k) THEN q[k - 1] ELSE Append(q[k - 1], ops[k])
  <2> HIDE DEF q, N
  <2>1. \A n \in 0..N : q[n] = IF n = 0 THEN <<>>
                               ELSE IF ops[n].type = "removeLine" /\ ops[n].line <= 0 THEN q[n - 1]
                               ELSE Append(q[n - 1], ops[n])
    BY <1>9
  <2> QED BY <1>1, <2>1
<1> HIDE DEF q
<1>12. \A k \in 0..N : q[k] \in S
  <2>1. \A k \in 1..N : q[k - 1] \in S => q[k] \in S
    <3> HIDE DEF S
    <3> QED BY <1>3, <1>11
  <2> HIDE DEF S, N
  <2> QED BY <1>1, <1>2, <1>11, <2>1, StepsStay
<1>13. /\ q[0] = <<>> /\ q[N] = Sendable(ops) /\ \A k \in 0..N : q[k] \in S
       /\ \A k \in 1..N : q[k] = IF skip(k) THEN q[k - 1] ELSE Append(q[k - 1], ops[k])
  <2> HIDE DEF S, N, skip
  <2> QED BY <1>10, <1>11, <1>12
<1> HIDE DEF S, N
<1> QED BY <1>13 DEF S, N

\* It is what is pending, but for the lines the server never saw that are gone.
LEMMA SendableIs ==
  ASSUME NEW ops \in Seq(Operation)
  PROVE  /\ Sendable(ops) \in Seq({ops[n] : n \in DOMAIN ops})
         /\ Sendable(ops) = <<>> =>
              \A n \in DOMAIN ops : ops[n].type = "removeLine" /\ ops[n].line <= 0
<1> DEFINE N == Len(ops)
           S == Seq({ops[n] : n \in DOMAIN ops})
           skip(k) == ops[k].type = "removeLine" /\ ops[k].line <= 0
<1>1. N \in Nat /\ DOMAIN ops = 1..N /\ \A k \in 1..N : ops[k] \in {ops[n] : n \in DOMAIN ops}
  OBVIOUS
<1>2. PICK q : /\ q[0] = <<>> /\ q[N] = Sendable(ops) /\ \A k \in 0..N : q[k] \in S
               /\ \A k \in 1..N : q[k] = IF skip(k) THEN q[k - 1] ELSE Append(q[k - 1], ops[k])
  BY SendableSteps
<1>3. ASSUME q[N] = <<>> PROVE \A n \in 1..N : skip(n)
  <2>1. ASSUME NEW k \in 1..N, q[k] = <<>> PROVE q[k - 1] = <<>> /\ skip(k)
    <3>1. q[k - 1] \in S
      <4> HIDE DEF S, N
      <4> QED BY <1>1, <1>2
    <3>2. Append(q[k - 1], ops[k]) # <<>>
      <4> DEFINE R == {ops[n] : n \in DOMAIN ops}
      <4>1. q[k - 1] \in Seq(R) /\ ops[k] \in R BY <1>1, <3>1
      <4> HIDE DEF R
      <4> QED BY <4>1, AppendProperties
    <3> HIDE DEF S, skip
    <3> QED BY <1>2, <2>1, <3>2
  <2> DEFINE T == {m \in Nat : \A n \in 0..N : N - n = m => q[n] = <<>>}
  <2> HIDE DEF skip, S, N
  <2>2. 0 \in T
    <3>1. \A n \in 0..N : N - n = 0 => n = N BY <1>1
    <3> QED BY <1>3, <3>1
  <2>3. ASSUME NEW m \in Nat, m \in T PROVE m + 1 \in T
    <3> SUFFICES ASSUME NEW n \in 0..N, N - n = m + 1 PROVE q[n] = <<>> OBVIOUS
    <3>1. n + 1 \in 1..N /\ N - (n + 1) = m /\ (n + 1) - 1 = n BY <1>1
    <3>2. q[n + 1] = <<>> BY <2>3, <3>1
    <3> QED BY <2>1, <3>1, <3>2
  <2>4. Nat \subseteq T
    <3> HIDE DEF T
    <3> QED BY <2>2, <2>3, Induction
  <2>5. \A n \in 1..N : q[n] = <<>>
    <3> TAKE n \in 1..N
    <3>1. N - n \in Nat /\ n \in 0..N BY <1>1
    <3>2. N - n \in T
      <4> HIDE DEF T
      <4> QED BY <2>4, <3>1
    <3> QED BY <3>1, <3>2
  <2> QED BY <2>1, <2>5
<1>4. Sendable(ops) \in S
  <2> HIDE DEF S, N
  <2> QED BY <1>1, <1>2
<1>5. Sendable(ops) = <<>> => \A n \in DOMAIN ops : skip(n)
  <2> HIDE DEF skip, N
  <2> QED BY <1>1, <1>2, <1>3
<1> QED BY <1>4, <1>5, Zenon

\* A line that is put in a cart, changed or taken out leaves a cart.
LEMMA PutIsCart ==
  ASSUME NEW c, Cart(c), NEW l \in Int, NEW i \in Item, NEW n \in Nat \ {0}
  PROVE  Cart(Put(c, l, i, n))
<1> DEFINE p == Put(c, l, i, n)
<1>1. /\ p = [k \in DOMAIN c \cup {l} |-> IF k = l THEN [item |-> i, quantity |-> n] ELSE c[k]]
      /\ [item |-> i, quantity |-> n] \in Line
  BY DEF Put, Line
<1>2. IsFiniteSet(DOMAIN c \cup {l}) BY FS_AddElement DEF Cart
<1>3. \A k \in DOMAIN c : c[k] \in Line BY DEF Cart
<1> HIDE DEF p
<1>4. p \in [DOMAIN c \cup {l} -> Line] /\ DOMAIN p = DOMAIN c \cup {l} BY <1>1, <1>3
<1> QED BY <1>2, <1>4 DEF Cart, p

\* A changed line has its new quantity, or is gone when that is 0; the others stay.
LEMMA UpdateIs ==
  ASSUME NEW c, NEW l \in DOMAIN c, NEW n \in Int
  PROVE  /\ DOMAIN optimisticUpdateCartItemQuantity(c, l, n) =
              IF n <= 0 THEN DOMAIN c \ {l} ELSE DOMAIN c
         /\ n > 0 => optimisticUpdateCartItemQuantity(c, l, n)[l] =
                       [item |-> c[l].item, quantity |-> n]
         /\ \A k \in DOMAIN c \ {l} : optimisticUpdateCartItemQuantity(c, l, n)[k] = c[k]
BY DEF optimisticUpdateCartItemQuantity, Put

\* So a cart stays one.
LEMMA UpdateIsCart ==
  ASSUME NEW c, Cart(c), NEW l \in DOMAIN c, NEW n \in Int
  PROVE  Cart(optimisticUpdateCartItemQuantity(c, l, n))
<1>1. l \in Int /\ c[l].item \in Item BY DEF Cart, Line
<1>2. CASE n <= 0
  <2>1. IsFiniteSet(DOMAIN c \ {l}) BY FS_RemoveElement DEF Cart
  <2>2. optimisticUpdateCartItemQuantity(c, l, n) = [k \in DOMAIN c \ {l} |-> c[k]]
    BY <1>2 DEF optimisticUpdateCartItemQuantity
  <2> QED BY <1>2, <2>1, <2>2 DEF Cart
<1>3. CASE n > 0
  <2> DEFINE i == c[l].item
  <2>1. optimisticUpdateCartItemQuantity(c, l, n) = Put(c, l, i, n)
    BY <1>3 DEF optimisticUpdateCartItemQuantity
  <2>2. n \in Nat \ {0} /\ i \in Item BY <1>1, <1>3
  <2> HIDE DEF i
  <2>3. Cart(Put(c, l, i, n)) BY <1>1, <2>2, PutIsCart
  <2> QED BY <2>1, <2>3
<1> QED BY <1>2, <1>3

\* The empty cart is one.
LEMMA EmptyIsCart == Cart(EmptyCart) /\ DOMAIN EmptyCart = {}
BY FS_EmptySet DEF Cart, EmptyCart

\* What the server has made of a batch so far.
Served ==
  {r \in [cart : UNION {[D -> Line] : D \in SUBSET Int}, made : Nat, refusals : SUBSET Item] :
     Cart(r.cart) /\ DOMAIN r.cart \subseteq 1..r.made}

\* What a batch starts from on the server.
LEMMA ServedIs ==
  ASSUME NEW c, Cart(c), NEW n \in Nat, DOMAIN c \subseteq 1..n, NEW s \in SUBSET Item
  PROVE  Result(c, n, s) \in Served
<1>1. c \in UNION {[D -> Line] : D \in SUBSET Int} BY DEF Cart
<1> QED BY <1>1 DEF Result, Served

\* An addition goes to a line that the item has, or to a new one.
LEMMA AddToIs ==
  ASSUME NEW r \in Served, NEW i \in Item, NEW n \in Nat \ {0}
  PROVE  /\ AddTo(r, i, n) \in Served
         /\ OfItem(AddTo(r, i, n).cart, i) # {}
         /\ \A l \in DOMAIN r.cart : /\ l \in DOMAIN AddTo(r, i, n).cart
                                     /\ AddTo(r, i, n).cart[l].item = r.cart[l].item
                                     /\ r.cart[l].quantity <= AddTo(r, i, n).cart[l].quantity
<1> DEFINE a == AddTo(r, i, n)
<1>1. /\ Cart(r.cart) /\ r.made \in Nat /\ r.refusals \in SUBSET Item
      /\ DOMAIN r.cart \subseteq 1..r.made
  BY DEF Served
<1>2. \A l \in DOMAIN r.cart : r.cart[l].quantity \in Nat \ {0} /\ r.cart[l].item \in Item /\ l \in Int
  BY <1>1 DEF Cart, Line
<1>3. CASE OfItem(r.cart, i) = {}
  <2> DEFINE p == Put(r.cart, r.made + 1, i, n)
  <2>1. a = Result(p, r.made + 1, r.refusals) BY <1>3 DEF AddTo
  <2>2. r.made + 1 \notin DOMAIN r.cart /\ r.made + 1 \in Int BY <1>1
  <2>3. /\ Cart(p) /\ DOMAIN p = DOMAIN r.cart \cup {r.made + 1}
        /\ p[r.made + 1] = [item |-> i, quantity |-> n]
        /\ \A k \in DOMAIN r.cart : p[k] = r.cart[k]
    <3> DEFINE c == r.cart
               l == r.made + 1
    <3>1. l \in Int /\ Cart(c) BY <1>1, <2>2
    <3> HIDE DEF l, c
    <3>2. Cart(Put(c, l, i, n)) BY <3>1, PutIsCart
    <3>3. /\ DOMAIN Put(c, l, i, n) = DOMAIN c \cup {l}
          /\ Put(c, l, i, n)[l] = [item |-> i, quantity |-> n]
          /\ \A k \in DOMAIN c : k # l => Put(c, l, i, n)[k] = c[k]
      BY DEF Put
    <3>4. p = Put(c, l, i, n) BY DEF c, l
    <3> HIDE DEF p
    <3>5. l \notin DOMAIN c BY <2>2 DEF c, l
    <3>6. /\ DOMAIN p = DOMAIN c \cup {l} /\ p[l] = [item |-> i, quantity |-> n]
          /\ \A k \in DOMAIN c : p[k] = c[k]
      BY <3>3, <3>4, <3>5
    <3> QED BY <3>2, <3>4, <3>6 DEF c, l
  <2> HIDE DEF p
  <2>4. a \in Served BY <1>1, <2>1, <2>3, ServedIs
  <2>5. a.cart = p BY <2>1 DEF Result
  <2>6. r.made + 1 \in OfItem(p, i) BY <2>3 DEF OfItem
  <2> HIDE DEF a
  <2>7. OfItem(a.cart, i) # {} BY <2>5, <2>6
  <2>8. \A l \in DOMAIN r.cart : /\ l \in DOMAIN a.cart /\ a.cart[l].item = r.cart[l].item
                                 /\ r.cart[l].quantity <= a.cart[l].quantity
    BY <1>2, <2>3, <2>5
  <2> QED BY <2>4, <2>7, <2>8 DEF a
<1>4. CASE OfItem(r.cart, i) # {}
  <2>1. PICK l : l \in OfItem(r.cart, i) /\ a = Result(Put(r.cart, l, i, r.cart[l].quantity + n), r.made, r.refusals)
    BY <1>4 DEF AddTo
  <2> DEFINE p == Put(r.cart, l, i, r.cart[l].quantity + n)
  <2>2. l \in DOMAIN r.cart /\ r.cart[l].item = i BY <2>1 DEF OfItem
  <2>3. r.cart[l].quantity + n \in Nat \ {0} BY <1>2, <2>2
  <2>4. /\ Cart(p) /\ DOMAIN p = DOMAIN r.cart
        /\ p[l] = [item |-> i, quantity |-> r.cart[l].quantity + n]
        /\ \A k \in DOMAIN r.cart : k # l => p[k] = r.cart[k]
    <3> DEFINE c == r.cart
               m == r.cart[l].quantity + n
    <3>1. m \in Nat \ {0} /\ l \in Int /\ Cart(c) BY <1>1, <1>2, <2>2, <2>3
    <3> HIDE DEF m, c
    <3>2. Cart(Put(c, l, i, m)) BY <3>1, PutIsCart
    <3>3. /\ DOMAIN Put(c, l, i, m) = DOMAIN c \cup {l}
          /\ Put(c, l, i, m)[l] = [item |-> i, quantity |-> m]
          /\ \A k \in DOMAIN c : k # l => Put(c, l, i, m)[k] = c[k]
      BY DEF Put
    <3>4. p = Put(c, l, i, m) /\ l \in DOMAIN c BY <2>2 DEF c, m
    <3> HIDE DEF p
    <3>5. DOMAIN c \cup {l} = DOMAIN c BY <3>4
    <3>6. /\ DOMAIN p = DOMAIN c /\ p[l] = [item |-> i, quantity |-> m]
          /\ \A k \in DOMAIN c : k # l => p[k] = c[k]
      BY <3>3, <3>4, <3>5
    <3> QED BY <3>2, <3>4, <3>6 DEF c, m
  <2>5. a = Result(p, r.made, r.refusals) BY <2>1
  <2> HIDE DEF p
  <2>6. a \in Served BY <1>1, <2>4, <2>5, ServedIs
  <2>7. a.cart = p BY <2>5 DEF Result
  <2>8. l \in OfItem(p, i) BY <2>2, <2>4 DEF OfItem
  <2> HIDE DEF a
  <2>9. OfItem(a.cart, i) # {} BY <2>7, <2>8
  <2>10. \A k \in DOMAIN r.cart : /\ k \in DOMAIN a.cart /\ a.cart[k].item = r.cart[k].item
                                  /\ r.cart[k].quantity <= a.cart[k].quantity
    BY <1>2, <2>2, <2>4, <2>7
  <2> QED BY <2>6, <2>9, <2>10 DEF a
<1> QED BY <1>3, <1>4

\* An operation leaves the server with a cart whose lines it has numbered.
LEMMA ApplyIs ==
  ASSUME NEW r \in Served, NEW o \in Meant
  PROVE  Apply(r, o) \in Served
<1>1. /\ Cart(r.cart) /\ r.made \in Nat /\ r.refusals \in SUBSET Item
      /\ DOMAIN r.cart \subseteq 1..r.made
  BY DEF Served
<1>2. o.item \in Item /\ o.quantity \in Nat /\ (o.type = "addItem" => o.quantity # 0)
  BY DEF Meant, Operation
<1>3. CASE o.type = "addItem"
  <2>1. Apply(r, o) = AddTo(r, o.item, o.quantity) BY <1>3 DEF Apply
  <2> QED BY <1>2, <1>3, <2>1, AddToIs
<1>4. CASE o.type # "addItem" /\ o.line \notin DOMAIN r.cart
  <2>1. Apply(r, o) = [r EXCEPT !.refusals = @ \cup {o.item}] BY <1>4 DEF Apply
  <2> QED BY <1>2, <2>1 DEF Served
<1>5. CASE o.type # "addItem" /\ o.line \in DOMAIN r.cart
  <2> DEFINE c == optimisticUpdateCartItemQuantity(r.cart, o.line, o.quantity)
  <2>1. Apply(r, o) = [r EXCEPT !.cart = c] BY <1>5 DEF Apply
  <2>2. Cart(c) /\ DOMAIN c \subseteq DOMAIN r.cart
    <3> DEFINE d == r.cart
               l == o.line
               n == o.quantity
    <3>1. l \in DOMAIN d /\ n \in Int /\ Cart(d) BY <1>1, <1>2, <1>5
    <3> HIDE DEF d, l, n
    <3>2. Cart(optimisticUpdateCartItemQuantity(d, l, n)) BY <3>1, UpdateIsCart
    <3>3. DOMAIN optimisticUpdateCartItemQuantity(d, l, n) \subseteq DOMAIN d BY <3>1, UpdateIs
    <3> QED BY <3>2, <3>3 DEF d, l, n
  <2> HIDE DEF c
  <2>3. c \in UNION {[D -> Line] : D \in SUBSET Int} BY <2>2 DEF Cart
  <2> QED BY <1>1, <2>1, <2>2, <2>3 DEF Served
<1> QED BY <1>3, <1>4, <1>5

\* So has it after any number of them, one after the other.
LEMMA BatchSteps ==
  ASSUME Typing, NEW N \in 0..Len(batch), NEW refused
  PROVE  \E q : /\ q[0] = Result(server, made, {}) /\ q[N] = ApplyAll(N, refused)
                /\ \A k \in 0..N : q[k] \in Served
                /\ \A k \in 1..N : q[k] = IF batch[k].line \in refused THEN q[k - 1]
                                          ELSE Apply(q[k - 1], batch[k])
<1> DEFINE b == Result(server, made, {})
           skip(k) == batch[k].line \in refused
           g == [k \in 1..N |-> [r \in Served |-> IF skip(k) THEN r ELSE Apply(r, batch[k])]]
           P(f) == f = [k \in 0..N |->
                          IF k = 0 THEN Result(server, made, {})
                          ELSE IF batch[k].line \in refused THEN f[k - 1]
                          ELSE Apply(f[k - 1], batch[k])]
           q == CHOOSE f : P(f)
<1>1. N \in Nat /\ \A k \in 1..N : batch[k] \in Meant BY DEF Typing
<1>2. b \in Served BY ServedIs DEF Typing, TypeOK
<1>3. \A k \in 1..N : \A r \in Served : Apply(r, batch[k]) \in Served BY <1>1, ApplyIs
<1>4. g \in [1..N -> [Served -> Served]] BY <1>3
<1>5. PICK f \in [0..N -> Served] : IsIteration(f, N, b, g)
  <2> HIDE DEF g, b
  <2> QED BY <1>1, <1>2, <1>4, IterationExists
<1>6. \A k \in 1..N : g[k][f[k - 1]] = IF skip(k) THEN f[k - 1] ELSE Apply(f[k - 1], batch[k])
  BY <1>1
<1>7. f = [k \in 0..N |-> IF k = 0 THEN b ELSE g[k][f[k - 1]]] BY <1>5 DEF IsIteration
<1>8. P(f)
  <2> HIDE DEF g
  <2>1. \A k \in 0..N : f[k] = IF k = 0 THEN Result(server, made, {})
                               ELSE IF batch[k].line \in refused THEN f[k - 1]
                               ELSE Apply(f[k - 1], batch[k])
    <3> TAKE k \in 0..N
    <3>1. f[k] = IF k = 0 THEN b ELSE g[k][f[k - 1]] BY <1>7
    <3>2. k # 0 => k \in 1..N BY <1>1
    <3> QED BY <1>6, <3>1, <3>2
  <2>2. f = [k \in 0..N |-> f[k]] BY <1>7
  <2> QED BY <2>1, <2>2
<1>9. P(q)
  <2> HIDE DEF P
  <2> QED BY <1>8
<1>10. ApplyAll(N, refused) = q[N] BY DEF ApplyAll
<1> HIDE DEF q
<1>11. q[0] = b /\ \A k \in 1..N : q[k] = IF skip(k) THEN q[k - 1] ELSE Apply(q[k - 1], batch[k])
  <2>1. \A k \in 0..N : q[k] = IF k = 0 THEN Result(server, made, {})
                               ELSE IF batch[k].line \in refused THEN q[k - 1]
                               ELSE Apply(q[k - 1], batch[k])
    BY <1>9
  <2> QED BY <1>1, <2>1
<1>12. \A k \in 1..N : q[k - 1] \in Served => q[k] \in Served
  <2> HIDE DEF b
  <2> QED BY <1>3, <1>11
<1>13. \A k \in 0..N : q[k] \in Served
  <2> HIDE DEF b
  <2> QED BY <1>1, <1>2, <1>11, <1>12, StepsStay
<1> QED BY <1>1, <1>10, <1>11, <1>13

\* So it is in the end.
LEMMA ApplyAllIs ==
  ASSUME Typing, NEW N \in 0..Len(batch), NEW refused
  PROVE  ApplyAll(N, refused) \in Served
<1>1. PICK q : /\ q[0] = Result(server, made, {}) /\ q[N] = ApplyAll(N, refused)
               /\ \A k \in 0..N : q[k] \in Served
  BY BatchSteps
<1>2. N \in 0..N BY DEF Typing
<1> QED BY <1>1, <1>2

\* Of finitely many lines one has the lowest id.
LEMMA MinIs ==
  ASSUME NEW S \in SUBSET Int, IsFiniteSet(S), S # {}
  PROVE  Min(S) \in S
<1> DEFINE T == {m \in Nat : \A s \in SUBSET S : Cardinality(s) = m + 1 =>
                               \E x \in s : \A y \in s : x <= y}
<1>0. \A s \in SUBSET S : IsFiniteSet(s) /\ Cardinality(s) \in Nat BY FS_Subset, FS_CardinalityType
<1>1. 0 \in T
  <2> SUFFICES ASSUME NEW s \in SUBSET S, Cardinality(s) = 1 PROVE \E x \in s : \A y \in s : x <= y
    OBVIOUS
  <2>1. PICK x : s = {x} BY <1>0, FS_Singleton
  <2> QED BY <2>1
<1>2. ASSUME NEW m \in Nat, m \in T PROVE m + 1 \in T
  <2> SUFFICES ASSUME NEW s \in SUBSET S, Cardinality(s) = m + 2
               PROVE  \E x \in s : \A y \in s : x <= y
    OBVIOUS
  <2>1. PICK z : z \in s BY <1>0, FS_EmptySet
  <2>2. Cardinality(s \ {z}) = m + 1 BY <1>0, <2>1, FS_RemoveElement
  <2>3. PICK x \in s \ {z} : \A y \in s \ {z} : x <= y BY <1>2, <2>2
  <2>4. CASE z <= x
    <3>1. \A y \in s : z <= y BY <2>1, <2>3, <2>4
    <3> QED BY <2>1, <3>1
  <2>5. CASE x <= z
    <3>1. \A y \in s : x <= y BY <2>3, <2>5
    <3> QED BY <3>1
  <2> QED BY <2>1, <2>3, <2>4, <2>5
<1>3. Nat \subseteq T
  <2> HIDE DEF T
  <2> QED BY <1>1, <1>2, Induction
<1>4. Cardinality(S) - 1 \in Nat BY <1>0, FS_EmptySet
<1>5. Cardinality(S) - 1 \in T
  <2> HIDE DEF T
  <2> QED BY <1>3, <1>4
<1>6. \E x \in S : \A y \in S : x <= y BY <1>0, <1>4, <1>5
<1> QED BY <1>6 DEF Min

\* What an answer is merged to is a cart.
LEMMA MergeIsCart ==
  ASSUME NEW s, Cart(s), NEW l, Cart(l)
  PROVE  Cart(mergeServerCartWithLocalPending(s, l))
<1> DEFINE K == {m \in DOMAIN l \ DOMAIN s : m > 0 \/ OfItem(s, l[m].item) = {}}
           more(k) == l[Min(Above(s, l, k))].quantity
           p == [k \in DOMAIN s \cup K |-> IF k \notin DOMAIN s THEN l[k]
                                            ELSE IF Above(s, l, k) = {} THEN s[k]
                                            ELSE [s[k] EXCEPT !.quantity = more(k)]]
<1>1. mergeServerCartWithLocalPending(s, l) = p BY DEF mergeServerCartWithLocalPending
<1>2. IsFiniteSet(K) /\ K \subseteq DOMAIN l BY FS_Subset DEF Cart
<1>3. IsFiniteSet(DOMAIN s \cup K) /\ DOMAIN s \cup K \subseteq Int BY <1>2, FS_Union DEF Cart
<1>4. \A k \in DOMAIN s : s[k] \in Line BY DEF Cart
<1>5. \A k \in K : l[k] \in Line BY <1>2 DEF Cart
<1>6. ASSUME NEW k \in DOMAIN s, Above(s, l, k) # {}
      PROVE  [s[k] EXCEPT !.quantity = more(k)] \in Line
  <2> DEFINE S == Above(s, l, k)
  <2>1. S \subseteq DOMAIN l BY DEF Above
  <2>2. IsFiniteSet(S) /\ S \in SUBSET Int BY <2>1, FS_Subset DEF Cart
  <2> HIDE DEF S
  <2>3. Min(S) \in DOMAIN l BY <1>6, <2>1, <2>2, MinIs DEF S
  <2>4. more(k) \in Nat \ {0} BY <2>3 DEF Cart, Line, S
  <2> HIDE DEF more
  <2> QED BY <1>4, <2>4 DEF Line
<1> HIDE DEF more, K
<1>7. p \in [DOMAIN s \cup K -> Line] /\ DOMAIN p = DOMAIN s \cup K BY <1>4, <1>5, <1>6
<1> QED BY <1>1, <1>3, <1>7 DEF Cart

-----------------------------------------------------------------------------
(* The state is typed.                                                     *)

Element == {Batch} \cup (Int \X Configured)

CartsTyped == /\ Cart(shown) /\ Cart(server) /\ Cart(answer)
              /\ made \in Nat /\ DOMAIN server \subseteq 1..made
TapsTyped  == /\ taps \in 0..MaxTaps /\ timer \in BOOLEAN
              /\ pending \in Seq(Meant) /\ batch \in Seq(Meant)
BackTyped  == /\ confirmed = <<>> \/ \E c : Cart(c) /\ confirmed = <<c>>
              /\ pending # <<>> \/ batch # <<>> => confirmed # <<>>
QueueTyped == /\ waiting \in Seq({"timer", "navigation"}) /\ queue \in Seq(Element)
              /\ phase \in {"start", "sent", "answered", "refused", "lost"}
              /\ leaving \in [at : {"page", "waiting", "flushing", "queue"}, ahead : Nat, since : Nat]
HistoryTyped == wanted \in [Item -> Nat] /\ contended \subseteq Item /\ heard \in BOOLEAN

\* The parts of Typing.
LEMMA TypingParts ==
  Typing <=> CartsTyped /\ TapsTyped /\ BackTyped /\ QueueTyped /\ HistoryTyped
<1>1. \A c : Cart(c) => CartOf(c) BY DEF Cart, CartOf
<1>2. Meant \subseteq Operation BY DEF Meant
<1>3. \A s \in Seq(Meant) : s \in Seq(Operation) BY <1>2, SeqMonotonic
<1>4. ASSUME BackTyped
      PROVE  /\ Len(confirmed) <= 1 /\ \A n \in DOMAIN confirmed : CartOf(confirmed[n])
             /\ confirmed # <<>> => Cart(Head(confirmed)) /\ confirmed = <<Head(confirmed)>>
  <2>1. CASE confirmed = <<>> BY <2>1
  <2>2. CASE confirmed # <<>>
    <3>1. PICK c : Cart(c) /\ confirmed = <<c>> BY <1>4, <2>2 DEF BackTyped
    <3> QED BY <1>1, <3>1
  <2> QED BY <2>1, <2>2
<1>5. Typing => CartsTyped BY DEF Typing, TypeOK, CartsTyped
<1>6. Typing => TapsTyped BY DEF Typing, TypeOK, TapsTyped
<1>7. Typing => BackTyped BY DEF Typing, BackTyped
<1>8. Typing => QueueTyped BY DEF Typing, TypeOK, QueueTyped, Element
<1>9. Typing => HistoryTyped BY DEF Typing, TypeOK, HistoryTyped
<1>10. ASSUME CartsTyped, TapsTyped, BackTyped, QueueTyped, HistoryTyped PROVE Typing
  <2>1. TypeOK
    <3>1. CartOf(shown) /\ CartOf(server) /\ CartOf(answer) BY <1>1, <1>10 DEF CartsTyped
    <3>2. pending \in Seq(Operation) /\ batch \in Seq(Operation) BY <1>3, <1>10 DEF TapsTyped
    <3> HIDE DEF CartOf
    <3> QED BY <1>4, <1>10, <3>1, <3>2
        DEF TypeOK, CartsTyped, TapsTyped, QueueTyped, HistoryTyped, Element
  <2> QED BY <1>4, <1>10, <2>1 DEF Typing, CartsTyped, TapsTyped, BackTyped
<1> QED BY <1>5, <1>6, <1>7, <1>8, <1>9, <1>10

\* An operation for a tap is one, and takes its place among those that are pending.
LEMMA OperationIs ==
  ASSUME Typing, NEW c, Cart(c), NEW l \in Int, NEW i \in Item
  PROVE  OperationFor(c, l, i) \in Meant
<1> DEFINE o == OperationFor(c, l, i)
<1>1. taps + 1 \in Nat BY CartSyncAssumption DEF Typing, TypeOK
<1>2. l \in DOMAIN c => c[l].quantity \in Nat \ {0} BY DEF Cart, Line
<1>3. /\ o.type = "addItem" => o.line < 0
      /\ o.type = "setQuantity" => o.line >= 0
      /\ o.quantity = 0 <=> o.type = "removeLine"
      /\ o \in Operation
  BY <1>1, <1>2 DEF OperationFor, Operation
<1> QED BY <1>3 DEF Meant

\* What two operations on a line are merged to means one thing again.
LEMMA CoalesceIs ==
  ASSUME NEW ops \in Seq(Meant), NEW o \in Meant
  PROVE  /\ Coalesce(ops, o) \in Seq(Meant)
         /\ \A n \in DOMAIN Coalesce(ops, o) :
              LET p == Coalesce(ops, o)[n]
              IN  \/ p.line = o.line /\ p.type = o.type /\ p.quantity = o.quantity
                     /\ p.since \in {o.since} \cup {ops[k].since : k \in DOMAIN ops}
                  \/ \E k \in DOMAIN ops : p = ops[k] /\ p.line # o.line
         /\ Coalesce(ops, o) # <<>>
         /\ {Coalesce(ops, o)[n].line : n \in DOMAIN Coalesce(ops, o)} =
              {ops[n].line : n \in DOMAIN ops} \cup {o.line}
<1> DEFINE C == Coalesce(ops, o)
           N == Len(ops)
<1>1. N \in Nat /\ DOMAIN ops = 1..N /\ \A n \in 1..N : ops[n] \in Meant OBVIOUS
<1>2. \A m \in Meant : m = [type |-> m.type, line |-> m.line, item |-> m.item,
                            quantity |-> m.quantity, since |-> m.since]
  BY DEF Meant, Operation
<1>3. CASE \E n \in DOMAIN ops : ops[n].line = o.line
  <2>1. C = [n \in DOMAIN ops |->
               IF ops[n].line = o.line THEN [o EXCEPT !.since = ops[n].since] ELSE ops[n]]
    BY <1>3 DEF Coalesce
  <2> HIDE DEF C
  <2>2. ASSUME NEW n \in 1..N, ops[n].line = o.line
        PROVE  /\ C[n] \in Meant /\ C[n].line = o.line /\ C[n].type = o.type
               /\ C[n].quantity = o.quantity /\ C[n].since = ops[n].since
    <3>1. C[n] = [o EXCEPT !.since = ops[n].since] BY <1>1, <2>1, <2>2
    <3>2. ops[n].since \in Nat BY <1>1 DEF Meant, Operation
    <3> QED BY <3>1, <3>2 DEF Meant, Operation
  <2>3. \A n \in 1..N : ops[n].line # o.line => C[n] = ops[n] BY <1>1, <2>1
  <2>4. DOMAIN C = 1..N /\ C = [n \in 1..N |-> C[n]] BY <1>1, <2>1
  <2>5. \A n \in 1..N : C[n] \in Meant BY <1>1, <2>2, <2>3
  <2>6. C \in [1..N -> Meant]
    <3> HIDE DEF N
    <3> QED BY <2>4, <2>5
  <2>7. C \in Seq(Meant) BY <1>1, <2>6, SeqDef
  <2>8. C # <<>> BY <1>1, <1>3, <2>4
  <2>9. \A n \in DOMAIN C : LET p == C[n]
              IN  \/ p.line = o.line /\ p.type = o.type /\ p.quantity = o.quantity
                     /\ p.since \in {o.since} \cup {ops[k].since : k \in DOMAIN ops}
                  \/ \E k \in DOMAIN ops : p = ops[k] /\ p.line # o.line
    <3> HIDE DEF N
    <3> QED BY <1>1, <2>2, <2>3, <2>4
  <2>10. \A n \in 1..N : C[n].line = ops[n].line BY <2>2, <2>3
  <2>11. {C[n].line : n \in DOMAIN C} = {ops[n].line : n \in DOMAIN ops} \cup {o.line}
    <3> HIDE DEF N
    <3> QED BY <1>1, <1>3, <2>4, <2>10
  <2> QED BY <2>7, <2>8, <2>9, <2>11 DEF C
<1>4. CASE ~\E n \in DOMAIN ops : ops[n].line = o.line
  <2>1. C = Append(ops, o) BY <1>4 DEF Coalesce
  <2>2. /\ C \in Seq(Meant) /\ C # <<>> /\ Len(C) = N + 1 /\ DOMAIN C = 1..(N + 1)
        /\ \A n \in 1..N : C[n] = ops[n]
        /\ C[N + 1] = o
    BY <2>1, AppendProperties
  <2> HIDE DEF C, N
  <2>3. \A n \in DOMAIN C : LET p == C[n]
              IN  \/ p.line = o.line /\ p.type = o.type /\ p.quantity = o.quantity
                     /\ p.since \in {o.since} \cup {ops[k].since : k \in DOMAIN ops}
                  \/ \E k \in DOMAIN ops : p = ops[k] /\ p.line # o.line
    BY <1>1, <1>4, <2>2
  <2>4. {C[n].line : n \in DOMAIN C} = {ops[n].line : n \in DOMAIN ops} \cup {o.line}
    <3>1. ASSUME NEW x \in {C[n].line : n \in DOMAIN C}
          PROVE  x \in {ops[n].line : n \in DOMAIN ops} \cup {o.line}
      <4>1. PICK n \in 1..(N + 1) : x = C[n].line BY <2>2, <3>1
      <4>2. n \in 1..N \/ n = N + 1 BY <1>1
      <4> QED BY <1>1, <2>2, <4>1, <4>2
    <3>2. ASSUME NEW x \in {ops[n].line : n \in DOMAIN ops} \cup {o.line}
          PROVE  x \in {C[n].line : n \in DOMAIN C}
      <4>1. CASE x = o.line
        <5>1. N + 1 \in DOMAIN C /\ x = C[N + 1].line BY <1>1, <2>2, <4>1
        <5> QED BY <5>1
      <4>2. CASE x \in {ops[n].line : n \in DOMAIN ops}
        <5>1. PICK n \in 1..N : x = ops[n].line BY <1>1, <4>2
        <5>2. n \in DOMAIN C /\ x = C[n].line BY <1>1, <2>2, <5>1
        <5> QED BY <5>2
      <4> QED BY <4>1, <4>2
    <3> QED BY <3>1, <3>2
  <2> QED BY <2>2, <2>3, <2>4 DEF C
<1> QED BY <1>3, <1>4

\* What a flush sends.
LEMMA FlushIs ==
  ASSUME Typing, NEW q \in Seq(Element), Flush(q)
  PROVE  /\ pending' = <<>> /\ batch' \in Seq(Meant) /\ queue' \in Seq(Element)
         /\ batch' = <<>> =>
              /\ queue' = q
              /\ \A n \in DOMAIN pending : pending[n].type = "removeLine" /\ pending[n].line <= 0
         /\ batch' # <<>> => queue' = Append(q, Batch) /\ pending # <<>>
         /\ \A n \in DOMAIN batch' : \E k \in DOMAIN pending : batch'[n] = pending[k]
<1> DEFINE R == {pending[n] : n \in DOMAIN pending}
<1>1. pending \in Seq(Meant) /\ pending \in Seq(Operation) BY DEF Typing, TypeOK
<1>2. batch' = Sendable(pending) /\ pending' = <<>> BY DEF Flush
<1>3. /\ batch' \in Seq(R)
      /\ batch' = <<>> =>
           \A n \in DOMAIN pending : pending[n].type = "removeLine" /\ pending[n].line <= 0
  BY <1>1, <1>2, SendableIs
<1>4. \A n \in DOMAIN pending : pending[n] \in Meant BY <1>1
<1>5. R \subseteq Meant BY <1>4
<1>6. \A n \in DOMAIN batch' : batch'[n] \in R
  <2> HIDE DEF R
  <2> QED BY <1>3
<1>7. batch' \in Seq(Meant)
  <2> HIDE DEF R
  <2> QED BY <1>3, <1>5, SeqMonotonic
<1>8. batch' = <<>> => queue' = q BY <1>2 DEF Flush
<1>9. batch' # <<>> => queue' = Append(q, Batch) BY <1>2 DEF Flush
<1>10. Batch \in Element /\ queue' \in Seq(Element)
  <2>1. Batch \in Element BY DEF Element
  <2> HIDE DEF Element
  <2>2. Append(q, Batch) \in Seq(Element) BY <2>1, AppendProperties
  <2> QED BY <1>8, <1>9, <2>1, <2>2
<1>11. batch' # <<>> => pending # <<>>
  <2> SUFFICES ASSUME batch' # <<>>, pending = <<>> PROVE FALSE OBVIOUS
  <2>1. R = {} OBVIOUS
  <2>2. batch' \in Seq({}) BY <1>3, <2>1
  <2>3. Len(batch') \in Nat \ {0} BY <2>2, EmptySeq
  <2>4. batch'[1] \in {} BY <2>2, <2>3, ElementOfSeq
  <2> QED BY <2>4
<1> QED BY <1>2, <1>3, <1>6, <1>7, <1>8, <1>9, <1>10, <1>11

\* A tap is typed.
LEMMA ScheduleIsTyped ==
  ASSUME Typing, NEW c, Cart(c), NEW l \in Int, NEW i \in Item, Schedule(c, l, i)
  PROVE  Typing'
<1> DEFINE o == OperationFor(c, l, i)
<1>1. CartsTyped /\ TapsTyped /\ BackTyped /\ QueueTyped /\ HistoryTyped BY TypingParts
<1>2. CartsTyped' BY <1>1 DEF Schedule, CartsTyped
<1>3. TapsTyped'
  <2>1. o \in Meant BY OperationIs
  <2>2. pending' = Coalesce(pending, o) BY DEF Schedule
  <2> HIDE DEF o
  <2>3. pending' \in Seq(Meant) BY <1>1, <2>1, <2>2, CoalesceIs DEF TapsTyped
  <2>4. taps' \in 0..MaxTaps BY <1>1, CartSyncAssumption DEF Schedule, TapsTyped
  <2>5. batch' = batch /\ timer' = TRUE BY DEF Schedule
  <2> QED BY <1>1, <2>3, <2>4, <2>5 DEF TapsTyped
<1>4. BackTyped'
  <2>1. confirmed' # <<>> /\ \E d : Cart(d) /\ confirmed' = <<d>>
    <3>1. CASE confirmed = <<>>
      <4>1. confirmed' = <<shown>> BY <3>1 DEF Schedule
      <4> QED BY <1>1, <4>1 DEF CartsTyped
    <3>2. CASE confirmed # <<>> BY <1>1, <3>2 DEF Schedule, BackTyped
    <3> QED BY <3>1, <3>2
  <2> QED BY <2>1 DEF BackTyped
<1>5. QueueTyped' BY <1>1 DEF Schedule, QueueTyped
<1>6. HistoryTyped'
  <2>1. Quantity(c, i) \in Nat BY QuantityIsNumber
  <2>2. wanted' = [wanted EXCEPT ![i] = Quantity(c, i)] BY DEF Schedule
  <2>3. wanted' \in [Item -> Nat] BY <1>1, <2>1, <2>2 DEF HistoryTyped
  <2> QED BY <1>1, <2>3 DEF Schedule, HistoryTyped
<1>7. Typing' BY <1>2, <1>3, <1>4, <1>5, <1>6, TypingParts, PTL
<1> QED BY <1>7

\* The cart c is the page's but for the line l.
OthersStay(c, l) ==
  \A k \in Int \ {l} : /\ k \in DOMAIN c <=> k \in DOMAIN shown
                       /\ k \in DOMAIN c => c[k] = shown[k]

\* The line l of the item i was tapped, or is a new one.
IsTapped(c, l, i) ==
  /\ l \in DOMAIN c => c[l].item = i
  /\ \/ l \in OfItem(shown, i)
     \/ /\ OfItem(shown, i) = {} /\ i \notin Configured
        /\ l = -(taps + 1) /\ l \in DOMAIN c

\* A tap changes one line.
LEMMA TapIsTyped ==
  ASSUME Typing, Add \/ Increment \/ Decrement \/ RemoveLine
  PROVE  /\ Typing'
         /\ \E c, l, i : /\ Cart(c) /\ l \in Int /\ i \in Item
                         /\ OthersStay(c, l) /\ IsTapped(c, l, i) /\ Schedule(c, l, i)
<1>1. Cart(shown) /\ taps \in Nat BY TypingParts, CartSyncAssumption DEF CartsTyped, TapsTyped
<1>2. \A l \in DOMAIN shown : l \in Int /\ shown[l].item \in Item /\ shown[l].quantity \in Nat \ {0}
  BY <1>1 DEF Cart, Line
<1>3. ASSUME NEW l \in DOMAIN shown, NEW n \in Int, ChangeBy(l, n)
      PROVE  \E c, k, i : /\ Cart(c) /\ k \in Int /\ i \in Item
                          /\ OthersStay(c, k) /\ IsTapped(c, k, i) /\ Schedule(c, k, i)
  <2> DEFINE m == shown[l].quantity + n
             c == optimisticUpdateCartItemQuantity(shown, l, m)
  <2>1. m \in Int BY <1>2
  <2>2. Schedule(c, l, shown[l].item) BY <1>3 DEF ChangeBy
  <2> HIDE DEF m
  <2>3. Cart(c) BY <1>1, <2>1, UpdateIsCart
  <2>4. OthersStay(c, l) BY <2>1 DEF OthersStay, optimisticUpdateCartItemQuantity, Put
  <2>5. IsTapped(c, l, shown[l].item)
    BY <2>1 DEF IsTapped, OfItem, optimisticUpdateCartItemQuantity, Put
  <2> HIDE DEF c
  <2> QED BY <1>2, <2>2, <2>3, <2>4, <2>5
<1>4. \E c, l, i : /\ Cart(c) /\ l \in Int /\ i \in Item
                   /\ OthersStay(c, l) /\ IsTapped(c, l, i) /\ Schedule(c, l, i)
  <2>1. CASE Add
    <3>1. PICK i \in Item \ Configured :
            \/ OfItem(shown, i) = {} /\ Schedule(Put(shown, -(taps + 1), i, 1), -(taps + 1), i)
            \/ \E l \in OfItem(shown, i) :
                 Schedule(IF OfItem(shown, i) = {l} THEN Put(shown, l, i, shown[l].quantity + 1)
                          ELSE shown, l, i)
      BY <2>1 DEF Add
    <3>2. CASE OfItem(shown, i) = {} /\ Schedule(Put(shown, -(taps + 1), i, 1), -(taps + 1), i)
      <4> DEFINE l == -(taps + 1)
                 c == Put(shown, l, i, 1)
      <4>1. l \in Int BY <1>1
      <4>5. IsTapped(c, l, i) BY <3>1, <3>2 DEF IsTapped, Put
      <4> HIDE DEF l
      <4>2. Cart(c) BY <1>1, <4>1, PutIsCart
      <4>3. Schedule(c, l, i) BY <3>2 DEF l
      <4>4. OthersStay(c, l) BY DEF OthersStay, Put
      <4> HIDE DEF c
      <4> QED BY <3>1, <4>1, <4>2, <4>3, <4>4, <4>5
    <3>3. CASE \E l \in OfItem(shown, i) :
                 Schedule(IF OfItem(shown, i) = {l} THEN Put(shown, l, i, shown[l].quantity + 1)
                          ELSE shown, l, i)
      <4>1. PICK l \in OfItem(shown, i) :
              Schedule(IF OfItem(shown, i) = {l} THEN Put(shown, l, i, shown[l].quantity + 1)
                       ELSE shown, l, i)
        BY <3>3
      <4> DEFINE m == shown[l].quantity + 1
                 c == IF OfItem(shown, i) = {l} THEN Put(shown, l, i, m) ELSE shown
      <4>2. l \in Int /\ m \in Nat \ {0} BY <1>2 DEF OfItem
      <4>3. Schedule(c, l, i) BY <4>1
      <4> HIDE DEF m
      <4>4. Cart(c)
        <5>1. Cart(Put(shown, l, i, m)) BY <1>1, <4>2, PutIsCart
        <5> QED BY <1>1, <5>1
      <4>5. OthersStay(c, l) BY DEF OthersStay, Put
      <4>6. IsTapped(c, l, i) BY DEF IsTapped, OfItem, Put
      <4> HIDE DEF c
      <4> QED BY <3>1, <4>2, <4>3, <4>4, <4>5, <4>6
    <3> QED BY <3>1, <3>2, <3>3
  <2>2. CASE Increment
    <3>1. PICK l \in DOMAIN shown : ChangeBy(l, 1) BY <2>2 DEF Increment
    <3> QED BY <1>3, <3>1
  <2>3. CASE Decrement
    <3>1. PICK l \in DOMAIN shown : ChangeBy(l, -1) BY <2>3 DEF Decrement
    <3> QED BY <1>3, <3>1
  <2>4. CASE RemoveLine
    <3>1. PICK l \in DOMAIN shown : ChangeBy(l, -shown[l].quantity) BY <2>4 DEF RemoveLine
    <3>2. -shown[l].quantity \in Int BY <1>2
    <3> QED BY <1>3, <3>1, <3>2
  <2> QED BY <2>1, <2>2, <2>3, <2>4
<1> QED BY <1>4, ScheduleIsTyped

Leaving == [at : {"page", "waiting", "flushing", "queue"}, ahead : Nat, since : Nat]

\* Where a navigation is, after a step of it.
LEMMA LeavingIs ==
  ASSUME Typing, NEW q \in Seq(Element)
  PROVE  /\ AfterFlush(q) \in Leaving /\ Popped(q) \in Leaving
         /\ \A n \in Nat : [AfterFlush(q) EXCEPT !.since = n] \in Leaving
         /\ \A n \in Nat : [leaving EXCEPT !.at = "waiting", !.since = n] \in Leaving
         /\ \A n \in Nat : [[leaving EXCEPT !.at = "flushing"] EXCEPT !.since = n] \in Leaving
         /\ [leaving EXCEPT !.at = "flushing"] \in Leaving
<1>1. leaving \in Leaving BY TypingParts DEF QueueTyped, Leaving
<1>2. Len(q) \in Nat OBVIOUS
<1>3. leaving.ahead > 0 => leaving.ahead - 1 \in Nat BY <1>1 DEF Leaving
<1> QED BY <1>1, <1>2, <1>3 DEF AfterFlush, Popped, Leaving

\* The queue without its first, which was one of its elements.
LEMMA QueueIs ==
  ASSUME Typing
  PROVE  /\ queue \in Seq(Element)
         /\ queue # <<>> =>
              /\ Tail(queue) \in Seq(Element) /\ Head(queue) \in Element
              /\ Head(queue) # Batch => Head(queue)[1] \in Int /\ Head(queue)[2] \in Configured
              /\ Head(queue) = queue[1] /\ Len(Tail(queue)) = Len(queue) - 1 /\ Len(queue) \in Nat \ {0}
              /\ \A n \in 1..Len(Tail(queue)) : Tail(queue)[n] = queue[n + 1]
<1>1. queue \in Seq(Element) BY TypingParts DEF QueueTyped
<1>2. \A e \in Element : e # Batch => e[1] \in Int /\ e[2] \in Configured BY DEF Element
<1> HIDE DEF Element
<1>3. ASSUME queue # <<>>
      PROVE  /\ Tail(queue) \in Seq(Element) /\ Head(queue) \in Element
             /\ Head(queue) = queue[1] /\ Len(Tail(queue)) = Len(queue) - 1 /\ Len(queue) \in Nat \ {0}
             /\ \A n \in 1..Len(Tail(queue)) : Tail(queue)[n] = queue[n + 1]
  BY <1>1, <1>3, HeadTailProperties, EmptySeq
<1> QED BY <1>1, <1>2, <1>3

\* Parts that stay.
LEMMA PartsStay ==
  ASSUME Typing
  PROVE  /\ UNCHANGED <<shown, server, answer, made>> => CartsTyped'
         /\ UNCHANGED <<taps, timer, pending, batch>> => TapsTyped'
         /\ UNCHANGED <<confirmed, pending, batch>> => BackTyped'
         /\ UNCHANGED <<waiting, queue, phase, leaving>> => QueueTyped'
         /\ UNCHANGED <<wanted, contended, heard>> => HistoryTyped'
<1>1. CartsTyped /\ TapsTyped /\ BackTyped /\ QueueTyped /\ HistoryTyped BY TypingParts
<1> QED BY <1>1 DEF CartsTyped, TapsTyped, BackTyped, QueueTyped, HistoryTyped

\* A flush leaves a cart to go back to.
LEMMA BackStays ==
  ASSUME Typing, NEW q \in Seq(Element), UNCHANGED confirmed,
         Flush(q) \/ UNCHANGED <<pending, batch>> \/ (batch' = <<>> /\ UNCHANGED pending)
  PROVE  BackTyped'
<1>1. BackTyped BY TypingParts
<1>2. pending' # <<>> \/ batch' # <<>> => confirmed # <<>> BY <1>1, FlushIs DEF BackTyped
<1> QED BY <1>1, <1>2 DEF BackTyped

\* A flush is typed.
LEMMA TimerIsTyped ==
  ASSUME Typing, TimerFires
  PROVE  Typing'
<1>1. CartsTyped /\ TapsTyped /\ BackTyped /\ QueueTyped /\ HistoryTyped BY TypingParts
<1>2. CartsTyped' BY PartsStay DEF TimerFires
<1>3. HistoryTyped'
  <2>1. UNCHANGED <<wanted, contended, heard>> BY DEF TimerFires, history
  <2> QED BY <2>1, PartsStay
<1>4. queue \in Seq(Element) BY QueueIs
<1>5. BackTyped' BY <1>4, BackStays DEF TimerFires
<1>6. TapsTyped' /\ queue' \in Seq(Element)
  <2>1. pending' \in Seq(Meant) /\ batch' \in Seq(Meant) /\ queue' \in Seq(Element)
    <3>1. CASE UNCHANGED <<pending, batch, queue>>
      <4>1. pending' = pending /\ batch' = batch /\ queue' = queue BY <3>1
      <4> QED BY <1>1, <1>4, <4>1 DEF TapsTyped
    <3>2. CASE Flush(queue)
      <4>1. pending' = <<>> /\ batch' \in Seq(Meant) /\ queue' \in Seq(Element)
        BY <1>4, <3>2, FlushIs
      <4> QED BY <4>1
    <3> QED BY <3>1, <3>2 DEF TimerFires
  <2>2. taps' = taps /\ timer' = FALSE BY DEF TimerFires
  <2> QED BY <1>1, <2>1, <2>2 DEF TapsTyped
<1>7. QueueTyped'
  <2>1. waiting' \in Seq({"timer", "navigation"})
    <3>1. waiting \in Seq({"timer", "navigation"}) BY <1>1 DEF QueueTyped
    <3>2. waiting' = waiting \/ waiting' = Append(waiting, "timer") BY DEF TimerFires
    <3> QED BY <3>1, <3>2
  <2>2. phase' = phase /\ leaving' = leaving BY DEF TimerFires
  <2> QED BY <1>1, <1>6, <2>1, <2>2 DEF QueueTyped
<1>8. Typing' BY <1>2, <1>3, <1>5, <1>6, <1>7, TypingParts, PTL
<1> QED BY <1>8

\* The steps of a navigation are typed.
LEMMA NavigateIsTyped ==
  ASSUME Typing, Navigate
  PROVE  Typing'
<1>1. CartsTyped /\ TapsTyped /\ BackTyped /\ QueueTyped /\ HistoryTyped BY TypingParts
<1>2. CartsTyped' BY PartsStay DEF Navigate
<1>3. HistoryTyped'
  <2>1. UNCHANGED <<wanted, contended, heard>> BY DEF Navigate, history
  <2> QED BY <2>1, PartsStay
<1>4. queue \in Seq(Element) /\ taps \in Nat BY <1>1, QueueIs, CartSyncAssumption DEF TapsTyped
<1>5. BackTyped' BY <1>4, BackStays DEF Navigate
<1>6. TapsTyped' /\ queue' \in Seq(Element)
  <2>1. pending' \in Seq(Meant) /\ batch' \in Seq(Meant) /\ queue' \in Seq(Element)
    <3>1. CASE UNCHANGED <<pending, batch, queue>>
      <4>1. pending' = pending /\ batch' = batch /\ queue' = queue BY <3>1
      <4> QED BY <1>1, <1>4, <4>1 DEF TapsTyped
    <3>2. CASE Flush(queue)
      <4>1. pending' = <<>> /\ batch' \in Seq(Meant) /\ queue' \in Seq(Element)
        BY <1>4, <3>2, FlushIs
      <4> QED BY <4>1
    <3> QED BY <3>1, <3>2 DEF Navigate
  <2>2. taps' = taps /\ timer' = FALSE BY DEF Navigate
  <2> QED BY <1>1, <2>1, <2>2 DEF TapsTyped
<1>7. QueueTyped'
  <2>1. waiting' \in Seq({"timer", "navigation"})
    <3>1. waiting \in Seq({"timer", "navigation"}) BY <1>1 DEF QueueTyped
    <3>2. waiting' = waiting \/ waiting' = Append(waiting, "navigation") BY DEF Navigate
    <3> QED BY <3>1, <3>2
  <2>2. phase' = phase BY DEF Navigate
  <2>3. leaving' \in Leaving
    <3>1. \/ leaving' = [AfterFlush(queue) EXCEPT !.since = taps]
          \/ leaving' = [leaving EXCEPT !.at = "waiting", !.since = taps]
          \/ leaving' = [[leaving EXCEPT !.at = "flushing"] EXCEPT !.since = taps]
      BY DEF Navigate
    <3> QED BY <1>4, <3>1, LeavingIs
  <2> QED BY <1>1, <1>6, <2>1, <2>2, <2>3 DEF QueueTyped, Leaving
<1>8. Typing' BY <1>2, <1>3, <1>5, <1>6, <1>7, TypingParts, PTL
<1> QED BY <1>8

\* A dialog and the steps of its own request are typed.
LEMMA ConfigureIsTyped ==
  ASSUME Typing, Configure
  PROVE  Typing'
<1>1. CartsTyped /\ TapsTyped /\ BackTyped /\ QueueTyped /\ HistoryTyped BY TypingParts
<1>2. /\ UNCHANGED <<shown, server, answer, made>> /\ UNCHANGED <<confirmed, pending, batch>>
      /\ UNCHANGED <<wanted, contended, heard, timer, waiting, phase, leaving>>
  BY DEF Configure, page, history
<1>3. CartsTyped' /\ BackTyped' /\ HistoryTyped' BY <1>2, PartsStay
<1>4. TapsTyped' BY <1>1, <1>2, CartSyncAssumption DEF Configure, TapsTyped
<1>5. QueueTyped'
  <2>1. PICK i \in Configured : queue' = Append(queue, <<-(taps + 1), i>>) BY DEF Configure
  <2>2. <<-(taps + 1), i>> \in Element BY <1>1, CartSyncAssumption DEF TapsTyped, Element
  <2>3. queue' \in Seq(Element)
    <3> DEFINE e == <<-(taps + 1), i>>
    <3>1. queue' = Append(queue, e) /\ e \in Element BY <2>1, <2>2
    <3> HIDE DEF e, Element
    <3> QED BY <3>1, QueueIs, AppendProperties
  <2> QED BY <1>1, <1>2, <2>3 DEF QueueTyped
<1>6. Typing' BY <1>3, <1>4, <1>5, TypingParts, PTL
<1> QED BY <1>6

\* What the server makes of a batch is typed.
LEMMA TakeBatchIsTyped ==
  ASSUME Typing, TakeBatch
  PROVE  /\ Typing'
         /\ phase' # "lost" => answer' = server'
         /\ phase' # "start"
<1>1. CartsTyped /\ TapsTyped /\ BackTyped /\ QueueTyped /\ HistoryTyped BY TypingParts
<1>2. UNCHANGED <<shown, pending, timer, batch, confirmed, waiting, taps, queue, leaving, wanted, heard>>
  BY DEF TakeBatch, page
<1>3. PICK refused \in SUBSET {batch[n].line : n \in DOMAIN batch}, N \in 0..Len(batch),
           end \in {"answered", "lost"} :
        LET r == ApplyAll(N, refused)
            refusals == r.refusals \cup {batch[k].item : k \in {k \in DOMAIN batch : batch[k].line \in refused}}
        IN  /\ server' = r.cart /\ made' = r.made
            /\ answer' = IF end = "lost" THEN EmptyCart ELSE r.cart
            /\ phase' = IF end = "lost" THEN end
                        ELSE IF refusals = {} THEN "answered" ELSE "refused"
            /\ contended' = IF end = "lost" THEN Item ELSE contended \cup refusals
  BY DEF TakeBatch
<1>4. PICK r : r = ApplyAll(N, refused) OBVIOUS
<1>5. r \in Served BY <1>4, ApplyAllIs
<1>6. Cart(r.cart) /\ r.made \in Nat /\ r.refusals \subseteq Item /\ DOMAIN r.cart \subseteq 1..r.made
  BY <1>5 DEF Served
<1>7. {batch[k].item : k \in {k \in DOMAIN batch : batch[k].line \in refused}} \subseteq Item
  <2>1. \A k \in DOMAIN batch : batch[k] \in Meant BY <1>1 DEF TapsTyped
  <2> QED BY <2>1 DEF Meant, Operation
<1>8. /\ server' = r.cart /\ made' = r.made
      /\ answer' = IF end = "lost" THEN EmptyCart ELSE r.cart
      /\ phase' \in {"lost", "answered", "refused"} /\ (phase' = "lost" <=> end = "lost")
      /\ contended' \subseteq Item
  BY <1>1, <1>3, <1>4, <1>6, <1>7 DEF HistoryTyped
<1>9. Cart(server') /\ Cart(answer') BY <1>6, <1>8, EmptyIsCart
<1>10. CartsTyped' BY <1>1, <1>2, <1>6, <1>8, <1>9 DEF CartsTyped
<1>11. TapsTyped' /\ BackTyped' BY <1>2, PartsStay
<1>12. QueueTyped' BY <1>1, <1>2, <1>8 DEF QueueTyped
<1>13. HistoryTyped' BY <1>1, <1>2, <1>8 DEF HistoryTyped
<1>14. Typing' BY <1>10, <1>11, <1>12, <1>13, TypingParts, PTL
<1> QED BY <1>8, <1>14

\* The end of a flush is typed.
LEMMA EndFlushIsTyped ==
  ASSUME Typing, queue # <<>>, EndFlush
  PROVE  /\ pending' \in Seq(Meant) /\ batch' \in Seq(Meant) /\ timer' \in BOOLEAN
         /\ waiting' = <<>> /\ queue' \in Seq(Element) /\ leaving' \in Leaving
         /\ Flush(Tail(queue)) \/ (queue' = Tail(queue) /\ batch' = <<>> /\ UNCHANGED pending)
<1>1. TapsTyped BY TypingParts
<1>2. Tail(queue) \in Seq(Element) BY QueueIs
<1>3. Flush(Tail(queue)) \/ (queue' = Tail(queue) /\ batch' = <<>> /\ UNCHANGED pending)
  BY DEF EndFlush
<1>4. pending' \in Seq(Meant) /\ batch' \in Seq(Meant) /\ queue' \in Seq(Element)
  <2>1. CASE Flush(Tail(queue))
    <3> DEFINE q == Tail(queue)
    <3>1. Flush(q) /\ q \in Seq(Element) BY <1>2, <2>1
    <3> HIDE DEF q
    <3>2. pending' = <<>> /\ batch' \in Seq(Meant) /\ queue' \in Seq(Element) BY <3>1, FlushIs
    <3> QED BY <3>2
  <2>2. CASE queue' = Tail(queue) /\ batch' = <<>> /\ UNCHANGED pending
    <3>1. batch' \in Seq(Meant) BY <2>2
    <3> QED BY <1>1, <1>2, <2>2, <3>1 DEF TapsTyped
  <2> QED BY <1>3, <2>1, <2>2
<1>5. leaving' \in Leaving
  <2>1. \/ leaving' = [leaving EXCEPT !.at = "flushing"]
        \/ leaving' = AfterFlush(queue')
        \/ leaving' = Popped(queue')
    BY DEF EndFlush
  <2> QED BY <1>4, <2>1, LeavingIs
<1>6. timer' \in BOOLEAN /\ waiting' = <<>> BY <1>1 DEF EndFlush, TapsTyped
<1> QED BY <1>3, <1>4, <1>5, <1>6

\* What the page does with an answer is typed.
LEMMA TakeAnswerIsTyped ==
  ASSUME Typing, QueueHasBatch, TakeAnswer
  PROVE  Typing'
<1>1. CartsTyped /\ TapsTyped /\ BackTyped /\ QueueTyped /\ HistoryTyped BY TypingParts
<1>2. queue # <<>> /\ Head(queue) = Batch /\ EndFlush BY DEF TakeAnswer
<1>3. confirmed # <<>>
  <2>1. queue[1] = Batch /\ 1 \in DOMAIN queue BY <1>2, QueueIs
  <2>2. batch # <<>> BY <2>1 DEF QueueHasBatch
  <2> QED BY <1>1, <2>2 DEF BackTyped
<1>4. PICK c : Cart(c) /\ confirmed = <<c>> BY <1>1, <1>3 DEF BackTyped
<1>5. /\ Cart(shown') /\ \E d : Cart(d) /\ confirmed' = <<d>>
  <2>1. CASE shown' = ServerCart /\ confirmed' = <<answer>>
    <3>1. Cart(answer) /\ Cart(shown) BY <1>1 DEF CartsTyped
    <3>2. Cart(ServerCart) BY <3>1, MergeIsCart DEF ServerCart
    <3> QED BY <2>1, <3>1, <3>2
  <2>2. CASE shown' = (IF pending = <<>> THEN Head(confirmed) ELSE shown) /\ UNCHANGED confirmed
    <3>1. Head(confirmed) = c BY <1>4
    <3> QED BY <1>1, <1>4, <2>2, <3>1 DEF CartsTyped
  <2> QED BY <2>1, <2>2 DEF TakeAnswer
<1>6. CartsTyped'
  <2>1. answer' = EmptyCart /\ UNCHANGED <<server, made>> BY DEF TakeAnswer
  <2>2. Cart(answer') BY <2>1, EmptyIsCart
  <2> QED BY <1>1, <1>5, <2>1, <2>2 DEF CartsTyped
<1>7. /\ pending' \in Seq(Meant) /\ batch' \in Seq(Meant) /\ timer' \in BOOLEAN
      /\ waiting' = <<>> /\ queue' \in Seq(Element) /\ leaving' \in Leaving
  BY <1>2, EndFlushIsTyped
<1>8. TapsTyped' BY <1>1, <1>7 DEF TakeAnswer, TapsTyped
<1>9. BackTyped' BY <1>5 DEF BackTyped
<1>10. QueueTyped'
  <2>1. phase' = "start" BY DEF TakeAnswer
  <2>2. waiting' \in Seq({"timer", "navigation"}) BY <1>7
  <2> QED BY <1>7, <2>1, <2>2 DEF QueueTyped, Leaving
<1>11. HistoryTyped'
  <2>1. /\ wanted' = wanted /\ heard' = (pending = <<>> /\ phase # "lost")
        /\ contended' = contended \cup Overtaken(pending)
    BY DEF TakeAnswer
  <2> QED BY <1>1, <2>1 DEF HistoryTyped, Overtaken
<1>12. Typing' BY <1>6, <1>8, <1>9, <1>10, <1>11, TypingParts, PTL
<1> QED BY <1>12

\* A dialog's addition is typed.
LEMMA DialogIsTyped ==
  ASSUME Typing, NEW i \in Configured, ShowConfigured(i) \/ TakeConfigured(i) \/ EndConfigured(i)
  PROVE  Typing'
<1>1. CartsTyped /\ TapsTyped /\ BackTyped /\ QueueTyped /\ HistoryTyped BY TypingParts
<1>2. i \in Item /\ queue # <<>> /\ Head(queue)[1] \in Int
  <2>1. Adding(i) BY DEF ShowConfigured, TakeConfigured, EndConfigured
  <2> QED BY <2>1, QueueIs, CartSyncAssumption DEF Adding
<1>3. CASE ShowConfigured(i)
  <2> DEFINE l == Head(queue)[1]
  <2>1. /\ UNCHANGED <<pending, timer, batch, confirmed, waiting, server, made, taps, queue, leaving, heard>>
        /\ answer' = shown /\ phase' = "sent"
    BY <1>3 DEF ShowConfigured
  <2>2. shown' = Put(shown, l, i, 1) BY <1>3 DEF ShowConfigured
  <2>3. l \in Int BY <1>2
  <2> HIDE DEF l
  <2>4. Cart(shown') BY <1>1, <1>2, <2>2, <2>3, PutIsCart DEF CartsTyped
  <2>5. CartsTyped' BY <1>1, <2>1, <2>4 DEF CartsTyped
  <2>6. TapsTyped' /\ BackTyped' BY <2>1, PartsStay
  <2>7. QueueTyped' BY <1>1, <2>1 DEF QueueTyped
  <2>8. HistoryTyped'
    <3>1. PICK c : c = shown' OBVIOUS
    <3>2. Quantity(c, i) \in Nat BY <2>4, <3>1, QuantityIsNumber
    <3>3. wanted' = [wanted EXCEPT ![i] = Quantity(c, i)] BY <1>3, <3>1 DEF ShowConfigured
    <3>4. wanted' \in [Item -> Nat] BY <1>1, <3>2, <3>3 DEF HistoryTyped
    <3>5. contended' \subseteq Item BY <1>1, <1>2, <1>3 DEF ShowConfigured, HistoryTyped
    <3> QED BY <1>1, <2>1, <3>4, <3>5 DEF HistoryTyped
  <2>9. Typing' BY <2>5, <2>6, <2>7, <2>8, TypingParts, PTL
  <2> QED BY <2>9
<1>4. CASE TakeConfigured(i)
  <2>1. UNCHANGED <<shown, pending, timer, batch, confirmed, waiting, taps, queue, leaving, wanted, contended, heard>>
    BY <1>4 DEF TakeConfigured, page, history
  <2>2. CartsTyped' /\ phase' \in {"answered", "refused"}
    <3>1. CASE UNCHANGED <<server, made, answer>> /\ phase' = "refused"
      BY <1>1, <2>1, <3>1 DEF CartsTyped
    <3>2. CASE LET r == AddTo(Result(server, made, {}), i, 1)
               IN  server' = r.cart /\ made' = r.made /\ answer' \in {r.cart, answer}
                   /\ phase' \in {"answered", "refused"}
      <4> DEFINE b == Result(server, made, {})
                 r == AddTo(b, i, 1)
      <4>1. b \in Served BY <1>1, ServedIs DEF CartsTyped
      <4> HIDE DEF b
      <4>2. r \in Served BY <1>2, <4>1, AddToIs
      <4>3. server' = r.cart /\ made' = r.made /\ answer' \in {r.cart, answer}
            /\ phase' \in {"answered", "refused"}
        BY <3>2 DEF b
      <4> HIDE DEF r
      <4>4. Cart(r.cart) /\ r.made \in Nat /\ DOMAIN r.cart \subseteq 1..r.made BY <4>2 DEF Served
      <4> QED BY <1>1, <2>1, <4>3, <4>4 DEF CartsTyped
    <3> QED BY <1>4, <3>1, <3>2 DEF TakeConfigured
  <2>3. TapsTyped' /\ BackTyped' /\ HistoryTyped' BY <2>1, PartsStay
  <2>4. QueueTyped' BY <1>1, <2>1, <2>2 DEF QueueTyped
  <2>5. Typing' BY <2>2, <2>3, <2>4, TypingParts, PTL
  <2> QED BY <2>5
<1>5. CASE EndConfigured(i)
  <2>1. /\ UNCHANGED <<pending, timer, batch, confirmed, waiting, server, made, taps, wanted>>
        /\ answer' = EmptyCart /\ phase' = "start" /\ queue' = Tail(queue)
        /\ leaving' = Popped(queue')
        /\ shown' = mergeServerCartWithLocalPending(answer, shown)
        /\ heard' \in BOOLEAN /\ contended' \subseteq Item
    BY <1>1, <1>2, <1>5 DEF EndConfigured, HistoryTyped, Overtaken
  <2>2. Cart(shown') BY <1>1, <2>1, MergeIsCart DEF CartsTyped
  <2>3. CartsTyped' BY <1>1, <2>1, <2>2, EmptyIsCart DEF CartsTyped
  <2>4. TapsTyped' /\ BackTyped' BY <2>1, PartsStay
  <2>5. queue' \in Seq(Element) BY <1>2, <2>1, QueueIs
  <2>6. leaving' \in Leaving BY <2>1, <2>5, LeavingIs
  <2>7. QueueTyped' BY <1>1, <2>1, <2>5, <2>6 DEF QueueTyped, Leaving
  <2>8. HistoryTyped' BY <1>1, <2>1 DEF HistoryTyped
  <2>9. Typing' BY <2>3, <2>4, <2>7, <2>8, TypingParts, PTL
  <2> QED BY <2>9
<1> QED BY <1>3, <1>4, <1>5

\* It starts typed.
LEMMA InitIsTyped ==
  Init => Typing /\ QueueHasBatch
<1> SUFFICES ASSUME Init PROVE Typing /\ QueueHasBatch OBVIOUS
<1>1. PICK i \in Item, n \in 0..1 :
        server = IF n = 0 THEN EmptyCart ELSE [l \in {1} |-> [item |-> i, quantity |-> 1]]
  BY DEF Init
<1>2. Cart(server) /\ DOMAIN server \subseteq 1..1
  <2>1. CASE n = 0
    <3>1. server = EmptyCart BY <1>1, <2>1
    <3> QED BY <3>1, EmptyIsCart
  <2>2. CASE n # 0
    <3>1. server = [l \in {1} |-> [item |-> i, quantity |-> 1]] BY <1>1, <2>2
    <3>2. IsFiniteSet({1}) BY FS_Singleton
    <3>3. [item |-> i, quantity |-> 1] \in Line BY DEF Line
    <3> QED BY <3>1, <3>2, <3>3 DEF Cart
  <2> QED BY <2>1, <2>2
<1>3. made = 1 /\ shown = server /\ answer = EmptyCart BY DEF Init
<1>4. CartsTyped BY <1>2, <1>3, EmptyIsCart DEF CartsTyped
<1>5. TapsTyped
  <2>1. taps = 0 /\ timer = FALSE /\ pending = <<>> /\ batch = <<>> BY DEF Init
  <2>2. <<>> \in Seq(Meant) /\ 0 \in 0..MaxTaps BY CartSyncAssumption
  <2> QED BY <2>1, <2>2 DEF TapsTyped
<1>6. BackTyped BY DEF Init, BackTyped
<1>7. QueueTyped
  <2>1. <<>> \in Seq(Element) /\ <<>> \in Seq({"timer", "navigation"}) OBVIOUS
  <2> QED BY <2>1 DEF Init, QueueTyped
<1>8. HistoryTyped
  <2>1. \A k \in Item : Quantity(server, k) \in Nat BY <1>2, QuantityIsNumber
  <2>2. wanted = [k \in Item |-> Quantity(server, k)] BY DEF Init
  <2>3. contended = {} /\ heard = TRUE BY DEF Init
  <2> QED BY <2>1, <2>2, <2>3 DEF HistoryTyped
<1>9. QueueHasBatch BY DEF Init, QueueHasBatch
<1> QED BY <1>4, <1>5, <1>6, <1>7, <1>8, <1>9, TypingParts

\* What is in the mutations q besides a batch.
Dialogs(q) == \A n \in DOMAIN q : q[n] # Batch => q[n][1] < 0

NoBatch(q) == \A n \in DOMAIN q : q[n] # Batch

\* A flush puts its batch into the queue.
LEMMA FlushIsQueued ==
  ASSUME Typing, NEW q \in Seq(Element), NoBatch(q), Dialogs(q), Flush(q), queue' = <<>> => phase' = "start"
  PROVE  QueueHasBatch'
<1> DEFINE N == Len(q)
<1>1. N \in Nat /\ DOMAIN q = 1..N OBVIOUS
<1>2. CASE batch' = <<>>
  <2>1. queue' = q BY <1>2, FlushIs
  <2> QED BY <1>2, <2>1 DEF NoBatch, Dialogs, QueueHasBatch
<1>3. CASE batch' # <<>>
  <2>1. queue' = Append(q, Batch) BY <1>3, FlushIs
  <2>2. Batch \in Element BY DEF Element
  <2>3. /\ queue' \in Seq(Element) /\ Len(queue') = N + 1
        /\ \A n \in 1..N : queue'[n] = q[n]
        /\ queue'[N + 1] = Batch
    <3> DEFINE e == Batch
    <3>1. e \in Element /\ queue' = Append(q, e) BY <2>1, <2>2
    <3> HIDE DEF e
    <3> QED BY <3>1, AppendProperties DEF e
  <2>4. DOMAIN queue' = 1..(N + 1) BY <2>3, LenProperties
  <2> HIDE DEF N
  <2>5. \A n \in 1..N : queue'[n] # Batch /\ queue'[n][1] < 0
    BY <1>1, <2>3 DEF NoBatch, Dialogs
  <2>6. \A n \in DOMAIN queue' : n \in 1..N \/ n = N + 1 BY <1>1, <2>4
  <2>7. N + 1 \in DOMAIN queue' BY <1>1, <2>4
  <2>8. \E n \in DOMAIN queue' : queue'[n] = Batch BY <2>3, <2>7
  <2>9. \A m, n \in DOMAIN queue' : queue'[m] = Batch /\ queue'[n] = Batch => m = n
    BY <2>5, <2>6
  <2>10. \A n \in DOMAIN queue' : queue'[n] # Batch => queue'[n][1] < 0 BY <2>3, <2>5, <2>6
  <2> QED BY <1>3, <2>8, <2>9, <2>10 DEF QueueHasBatch
<1> QED BY <1>2, <1>3

\* The rest of the queue.
LEMMA TailIs ==
  ASSUME Typing, QueueHasBatch, queue # <<>>
  PROVE  /\ Dialogs(Tail(queue))
         /\ Head(queue) = Batch => NoBatch(Tail(queue)) /\ batch # <<>>
         /\ Head(queue) # Batch =>
              /\ batch # <<>> <=> ~NoBatch(Tail(queue))
              /\ \A m, n \in DOMAIN Tail(queue) :
                   Tail(queue)[m] = Batch /\ Tail(queue)[n] = Batch => m = n
              /\ Head(queue)[1] < 0
<1> DEFINE t == Tail(queue)
           N == Len(t)
<1>1. /\ t \in Seq(Element) /\ Head(queue) = queue[1] /\ Len(queue) = N + 1
      /\ \A n \in 1..N : t[n] = queue[n + 1]
      /\ queue \in Seq(Element)
  BY QueueIs
<1> HIDE DEF t
<1>2. N \in Nat /\ DOMAIN t = 1..N /\ DOMAIN queue = 1..(N + 1) BY <1>1
<1>3. \A n \in 1..N : n + 1 \in DOMAIN queue /\ n + 1 # 1 BY <1>2
<1>4. 1 \in DOMAIN queue /\ \A n \in DOMAIN queue : n = 1 \/ (n - 1 \in 1..N /\ queue[n] = t[n - 1])
  <2> SUFFICES ASSUME NEW n \in DOMAIN queue, n # 1 PROVE n - 1 \in 1..N /\ queue[n] = t[n - 1]
    BY <1>2
  <2>1. n - 1 \in 1..N /\ (n - 1) + 1 = n BY <1>2
  <2> QED BY <1>1, <2>1
<1> HIDE DEF N
<1>5. Dialogs(t) BY <1>1, <1>2, <1>3 DEF QueueHasBatch, Dialogs
<1>6. Head(queue) = Batch => NoBatch(t) /\ batch # <<>>
  <2> SUFFICES ASSUME Head(queue) = Batch PROVE NoBatch(t) /\ batch # <<>> OBVIOUS
  <2>1. \A n \in 1..N : queue[n + 1] # Batch BY <1>1, <1>3, <1>4 DEF QueueHasBatch
  <2> QED BY <1>1, <1>2, <1>4, <2>1 DEF QueueHasBatch, NoBatch
<1>7. ASSUME Head(queue) # Batch
      PROVE  /\ batch # <<>> <=> ~NoBatch(t)
             /\ \A m, n \in DOMAIN t : t[m] = Batch /\ t[n] = Batch => m = n
             /\ Head(queue)[1] < 0
  <2>1. ASSUME NEW n \in DOMAIN queue, queue[n] = Batch PROVE \E k \in DOMAIN t : t[k] = Batch
    BY <1>1, <1>2, <1>4, <1>7, <2>1
  <2>2. ASSUME NEW n \in DOMAIN t, t[n] = Batch PROVE \E k \in DOMAIN queue : queue[k] = Batch
    BY <1>1, <1>2, <1>3, <2>2
  <2>3. batch # <<>> <=> ~NoBatch(t) BY <2>1, <2>2 DEF QueueHasBatch, NoBatch
  <2>4. ASSUME NEW m \in 1..N, NEW n \in 1..N, t[m] = Batch, t[n] = Batch PROVE m = n
    <3>1. m + 1 = n + 1 BY <1>1, <1>3, <2>4 DEF QueueHasBatch
    <3> QED BY <1>2, <3>1
  <2>5. Head(queue)[1] < 0 BY <1>1, <1>4, <1>7 DEF QueueHasBatch
  <2> QED BY <1>2, <2>3, <2>4, <2>5
<1> QED BY <1>5, <1>6, <1>7 DEF t

\* The queue has the batch that is under way and no other.
LEMMA QueueStep ==
  ASSUME Typing, QueueHasBatch, [Next]_vars
  PROVE  QueueHasBatch'
<1>1. queue \in Seq(Element) BY QueueIs
<1>2. Dialogs(queue) /\ (batch = <<>> => NoBatch(queue)) BY DEF QueueHasBatch, Dialogs, NoBatch
<1>3. CASE UNCHANGED <<batch, queue>> /\ (queue # <<>> \/ phase' = phase)
  BY <1>3 DEF QueueHasBatch
<1>4. CASE batch = <<>> /\ Flush(queue) /\ phase' = phase
  <2>1. queue' = <<>> => phase' = "start"
    <3>1. queue' = <<>> => queue = <<>>
      <4>1. queue' = queue \/ queue' = Append(queue, Batch) BY <1>4 DEF Flush
      <4>2. Append(queue, Batch) # <<>>
        <5> DEFINE e == Batch
        <5>1. e \in Element BY DEF Element
        <5> HIDE DEF e
        <5>2. Append(queue, e) # <<>> BY <1>1, <5>1, AppendProperties
        <5> QED BY <5>2 DEF e
      <4> QED BY <4>1, <4>2
    <3> QED BY <1>4, <3>1 DEF QueueHasBatch
  <2> QED BY <1>1, <1>2, <1>4, <2>1, FlushIsQueued
<1>5. CASE Add \/ Increment \/ Decrement \/ RemoveLine
  <2>1. UNCHANGED <<batch, queue, phase>> BY <1>5, TapIsTyped DEF Schedule
  <2> QED BY <1>3, <2>1
<1>6. CASE Configure
  <2>1. PICK i \in Configured : queue' = Append(queue, <<-(taps + 1), i>>) BY <1>6 DEF Configure
  <2>2. UNCHANGED <<batch, phase>> BY <1>6 DEF Configure, page
  <2>3. taps \in Nat BY TypingParts, CartSyncAssumption DEF TapsTyped
  <2> DEFINE e == <<-(taps + 1), i>>
             N == Len(queue)
  <2>4. e \in Element /\ e # Batch /\ e[1] < 0 BY <2>3 DEF Element, Batch
  <2>5. queue' = Append(queue, e) BY <2>1
  <2> HIDE DEF e
  <2>6. /\ queue' \in Seq(Element) /\ queue' # <<>> /\ Len(queue') = N + 1
        /\ \A n \in 1..N : queue'[n] = queue[n]
        /\ queue'[N + 1] = e
    BY <1>1, <2>4, <2>5, AppendProperties
  <2>7. N \in Nat /\ DOMAIN queue = 1..N /\ DOMAIN queue' = 1..(N + 1) BY <1>1, <2>6
  <2> HIDE DEF N
  <2>8. \A n \in DOMAIN queue' : (n \in DOMAIN queue /\ queue'[n] = queue[n]) \/ queue'[n] = e
    <3> TAKE n \in DOMAIN queue'
    <3>1. n \in 1..N \/ n = N + 1 BY <2>7
    <3> QED BY <2>6, <2>7, <3>1
  <2>9. \A n \in DOMAIN queue : n \in DOMAIN queue' /\ queue'[n] = queue[n] BY <2>6, <2>7
  <2>10. (\E n \in DOMAIN queue' : queue'[n] = Batch) <=> \E n \in DOMAIN queue : queue[n] = Batch
    BY <2>4, <2>8, <2>9
  <2>11. \A m, n \in DOMAIN queue' : queue'[m] = Batch /\ queue'[n] = Batch => m = n
    BY <2>4, <2>8 DEF QueueHasBatch
  <2>12. \A n \in DOMAIN queue' : queue'[n] # Batch => queue'[n][1] < 0
    BY <2>4, <2>8 DEF QueueHasBatch
  <2> QED BY <2>2, <2>6, <2>10, <2>11, <2>12 DEF QueueHasBatch
<1>7. CASE TimerFires
  <2>1. phase' = phase /\ (UNCHANGED <<batch, queue>> \/ (batch = <<>> /\ Flush(queue)))
    BY <1>7 DEF TimerFires
  <2> QED BY <1>3, <1>4, <2>1
<1>8. CASE Navigate
  <2>1. phase' = phase /\ (UNCHANGED <<batch, queue>> \/ (batch = <<>> /\ Flush(queue)))
    BY <1>8 DEF Navigate
  <2> QED BY <1>3, <1>4, <2>1
<1>9. CASE TakeBatch
  <2>1. UNCHANGED <<batch, queue>> /\ queue # <<>> BY <1>9 DEF TakeBatch, page
  <2> QED BY <1>3, <2>1
<1>10. CASE TakeAnswer
  <2>1. queue # <<>> /\ Head(queue) = Batch /\ phase' = "start" /\ EndFlush BY <1>10 DEF TakeAnswer
  <2>2. NoBatch(Tail(queue)) /\ Dialogs(Tail(queue)) BY <2>1, TailIs
  <2>3. Tail(queue) \in Seq(Element) BY <2>1, QueueIs
  <2>4. CASE Flush(Tail(queue))
    <3> DEFINE q == Tail(queue)
    <3>1. q \in Seq(Element) /\ NoBatch(q) /\ Dialogs(q) /\ Flush(q) BY <2>2, <2>3, <2>4
    <3> HIDE DEF q
    <3> QED BY <2>1, <3>1, FlushIsQueued
  <2>5. CASE queue' = Tail(queue) /\ batch' = <<>>
    BY <2>1, <2>2, <2>5 DEF QueueHasBatch, NoBatch, Dialogs
  <2> QED BY <2>1, <2>4, <2>5, EndFlushIsTyped
<1>11. ASSUME NEW i \in Configured, ShowConfigured(i) \/ TakeConfigured(i) PROVE QueueHasBatch'
  <2>1. UNCHANGED <<batch, queue>> /\ queue # <<>>
    BY <1>11 DEF ShowConfigured, TakeConfigured, Adding, page
  <2> QED BY <1>3, <2>1
<1>12. ASSUME NEW i \in Configured, EndConfigured(i) PROVE QueueHasBatch'
  <2>1. /\ queue # <<>> /\ Head(queue) # Batch /\ batch' = batch /\ phase' = "start"
        /\ queue' = Tail(queue)
    BY <1>12 DEF EndConfigured, Adding
  <2> DEFINE t == Tail(queue)
  <2>2. /\ Dialogs(t) /\ (batch # <<>> <=> ~NoBatch(t))
        /\ \A m, n \in DOMAIN t : t[m] = Batch /\ t[n] = Batch => m = n
    BY <2>1, TailIs
  <2>3. queue' = t BY <2>1
  <2> HIDE DEF t
  <2> QED BY <2>1, <2>2, <2>3 DEF QueueHasBatch, NoBatch, Dialogs
<1>13. CASE UNCHANGED vars
  <2>1. UNCHANGED <<batch, queue, phase>> BY <1>13 DEF vars, page
  <2> QED BY <1>3, <2>1
<1> QED BY <1>5, <1>6, <1>7, <1>8, <1>9, <1>10, <1>11, <1>12, <1>13 DEF Next, Customer, Browser

\* Every step leaves the state typed.
LEMMA TypingStep ==
  ASSUME Typing, QueueHasBatch, [Next]_vars
  PROVE  Typing'
<1>1. CASE Customer BY <1>1, TapIsTyped, ConfigureIsTyped, NavigateIsTyped DEF Customer
<1>2. CASE Browser BY <1>2, TimerIsTyped, TakeBatchIsTyped, TakeAnswerIsTyped, DialogIsTyped DEF Browser
<1>3. CASE UNCHANGED vars
  <2>1. UNCHANGED <<shown, pending, timer, batch, confirmed, waiting, server, made, taps, queue, phase,
                    answer, leaving, wanted, contended, heard>>
    BY <1>3 DEF vars, page, history
  <2>2. CartsTyped' /\ TapsTyped' /\ BackTyped' /\ QueueTyped' /\ HistoryTyped' BY <2>1, PartsStay
  <2>3. Typing' BY <2>2, TypingParts, PTL
  <2> QED BY <2>3
<1> QED BY <1>1, <1>2, <1>3 DEF Next

\* The type invariant of the carts, the operations and the queue, for any items, taps and
\* faults: whatever is merged, rolled back or applied on the server is a cart.
THEOREM CartSyncIsTyped == Spec => []TypeOK
<1>1. Init => Typing /\ QueueHasBatch BY InitIsTyped
<1>2. Typing /\ QueueHasBatch /\ [Next]_vars => (Typing /\ QueueHasBatch)' BY TypingStep, QueueStep
<1>3. Typing => TypeOK BY DEF Typing
<1> QED BY <1>1, <1>2, <1>3, PTL DEF Spec

-----------------------------------------------------------------------------
(* A navigation leaves nothing older behind.                               *)

\* The types that the order of a navigation needs.
LEMMA LeavingTyped ==
  ASSUME Typing
  PROVE  /\ leaving = [at |-> leaving.at, ahead |-> leaving.ahead, since |-> leaving.since]
         /\ leaving.ahead \in Nat /\ leaving.since \in Nat /\ taps \in Nat
         /\ Len(queue) \in Nat /\ DOMAIN queue = 1..Len(queue)
         /\ \A n \in DOMAIN pending : pending[n].since \in Nat
<1>1. QueueTyped /\ TapsTyped BY TypingParts
<1>2. \A n \in DOMAIN pending : pending[n] \in Meant BY <1>1 DEF TapsTyped
<1>3. leaving \in Leaving BY <1>1 DEF QueueTyped, Leaving
<1>4. taps \in Nat BY <1>1, CartSyncAssumption DEF TapsTyped
<1>5. Len(queue) \in Nat /\ DOMAIN queue = 1..Len(queue)
  <2>1. queue \in Seq(Element) BY QueueIs
  <2> QED BY <2>1, LenProperties
<1> QED BY <1>2, <1>3, <1>4, <1>5 DEF Leaving, Meant, Operation

\* A navigation that goes on to the queue waits for the batch that is in it.
LEMMA GoesOn ==
  ASSUME Typing', QueueHasBatch', leaving' = [leaving EXCEPT !.at = "queue", !.ahead = Len(queue')]
                  \/ leaving' = [[leaving EXCEPT !.at = "queue", !.ahead = Len(queue')] EXCEPT !.since = taps],
         Typing, pending' = <<>> \/ (Younger(pending) /\ UNCHANGED pending /\ leaving'.since = leaving.since),
         leaving'.since <= taps'
  PROVE  LeavesInOrder'
<1>1. Len(queue') \in Nat /\ DOMAIN queue' = 1..Len(queue')
  <2>1. QueueTyped' BY TypingParts, PTL
  <2>2. queue' \in Seq(Element) BY <2>1 DEF QueueTyped
  <2> QED BY <2>2, LenProperties
<1>2. leaving'.at = "queue" /\ leaving'.ahead = Len(queue') BY LeavingTyped
<1>3. Younger(pending)' BY DEF Younger
<1>4. Younger(batch)' \/ \E n \in 1..leaving'.ahead : queue'[n] = Batch
  BY <1>1, <1>2 DEF Younger, QueueHasBatch
<1> QED BY <1>1, <1>2, <1>3, <1>4 DEF LeavesInOrder

\* What a step keeps of the navigation's order, when the navigation stays.
LEMMA OrderStays ==
  ASSUME Typing, LeavesInOrder, leaving' = leaving, taps' \in Nat, taps <= taps', Len(queue') \in Nat, Len(queue) <= Len(queue'),
         \A n \in DOMAIN queue : queue'[n] = queue[n], waiting # <<>> => waiting' # <<>>,
         Younger(pending) => Younger(pending)',
         Younger(pending) /\ Younger(batch) => Younger(batch)',
         batch' = batch \/ batch = <<>>
  PROVE  LeavesInOrder'
<1>1. leaving.ahead \in Nat /\ leaving.since \in Nat /\ taps \in Nat
      /\ Len(queue) \in Nat /\ DOMAIN queue = 1..Len(queue)
  BY LeavingTyped
<1>2. leaving.since <= taps' /\ leaving.ahead <= Len(queue') BY <1>1 DEF LeavesInOrder
<1>3. leaving.at = "queue" => Younger(batch)' \/ \E n \in 1..leaving.ahead : queue'[n] = Batch
  <2> SUFFICES ASSUME leaving.at = "queue"
               PROVE  Younger(batch)' \/ \E n \in 1..leaving.ahead : queue'[n] = Batch
    OBVIOUS
  <2>1. CASE Younger(batch) BY <2>1 DEF LeavesInOrder
  <2>2. CASE \E n \in 1..leaving.ahead : queue[n] = Batch
    <3>1. 1..leaving.ahead \subseteq DOMAIN queue BY <1>1 DEF LeavesInOrder
    <3> QED BY <2>2, <3>1
  <2> QED BY <2>1, <2>2 DEF LeavesInOrder
<1> QED BY <1>2, <1>3 DEF LeavesInOrder

\* Every step keeps what the navigation left in order.
LEMMA OrderStep ==
  ASSUME Typing, QueueHasBatch, Typing', QueueHasBatch', LeavesInOrder, [Next]_vars
  PROVE  LeavesInOrder'
<1>1. /\ leaving = [at |-> leaving.at, ahead |-> leaving.ahead, since |-> leaving.since]
      /\ leaving.ahead \in Nat /\ leaving.since \in Nat /\ taps \in Nat
      /\ Len(queue) \in Nat /\ DOMAIN queue = 1..Len(queue)
      /\ \A n \in DOMAIN pending : pending[n].since \in Nat
  BY LeavingTyped
<1>2. Len(queue') \in Nat /\ DOMAIN queue' = 1..Len(queue') /\ taps' \in Nat
  <2>1. QueueTyped' /\ TapsTyped' BY TypingParts, PTL
  <2>2. queue' \in Seq(Element) BY <2>1 DEF QueueTyped
  <2>3. taps' \in 0..MaxTaps BY <2>1 DEF TapsTyped
  <2> QED BY <2>2, <2>3, CartSyncAssumption, LenProperties
<1>3. queue \in Seq(Element) /\ Batch \in Element BY QueueIs DEF Element
\* A flush sends what is pending.
<1>4. ASSUME NEW q \in Seq(Element), Flush(q), leaving'.since = leaving.since, Younger(pending)
      PROVE  Younger(batch)'
  <2>1. \A n \in DOMAIN batch' : \E k \in DOMAIN pending : batch'[n] = pending[k] BY <1>4, FlushIs
  <2> QED BY <1>4, <2>1 DEF Younger
<1>5. CASE UNCHANGED <<leaving, taps, queue, waiting, pending, batch>>
  BY <1>1, <1>5 DEF LeavesInOrder, Younger
<1>6. CASE Add \/ Increment \/ Decrement \/ RemoveLine
  <2>1. PICK c, l, i : Cart(c) /\ l \in Int /\ i \in Item /\ Schedule(c, l, i) BY <1>6, TapIsTyped
  <2> DEFINE o == OperationFor(c, l, i)
  <2>2. o \in Meant /\ o.since = taps + 1
    <3>1. o \in Meant BY <2>1, OperationIs
    <3> QED BY <3>1 DEF OperationFor
  <2>3. pending' = Coalesce(pending, o) /\ taps' = taps + 1
        /\ UNCHANGED <<leaving, queue, waiting, batch>>
    BY <2>1 DEF Schedule
  <2> HIDE DEF o
  <2>4. \A n \in DOMAIN pending' : pending'[n].since \in {o.since} \cup {pending[k].since : k \in DOMAIN pending}
    <3>1. pending \in Seq(Meant) BY TypingParts DEF TapsTyped
    <3>2. \A n \in DOMAIN Coalesce(pending, o) :
            LET p == Coalesce(pending, o)[n]
            IN  \/ p.line = o.line /\ p.type = o.type /\ p.quantity = o.quantity
                   /\ p.since \in {o.since} \cup {pending[k].since : k \in DOMAIN pending}
                \/ \E k \in DOMAIN pending : p = pending[k] /\ p.line # o.line
      BY <2>2, <3>1, CoalesceIs
    <3> QED BY <2>3, <3>2
  <2>5. Younger(pending) => Younger(pending)'
    BY <1>1, <2>2, <2>3, <2>4 DEF Younger, LeavesInOrder
  <2>6. Younger(batch) => Younger(batch)' BY <2>3 DEF Younger
  <2> QED BY <1>1, <1>2, <2>3, <2>5, <2>6, OrderStays
<1>7. CASE Configure
  <2>1. PICK i \in Configured : queue' = Append(queue, <<-(taps + 1), i>>) BY <1>7 DEF Configure
  <2>2. UNCHANGED <<leaving, waiting, pending, batch>> /\ taps' = taps + 1
    BY <1>7 DEF Configure, page
  <2>3. Len(queue) <= Len(queue') /\ \A n \in DOMAIN queue : queue'[n] = queue[n]
    <3> DEFINE e == <<-(taps + 1), i>>
    <3>1. e \in Element /\ queue' = Append(queue, e) BY <1>1, <2>1 DEF Element
    <3> HIDE DEF e
    <3> QED BY <1>1, <1>3, <3>1, AppendProperties
  <2>4. (Younger(pending) => Younger(pending)') /\ (Younger(batch) => Younger(batch)')
    BY <2>2 DEF Younger
  <2> QED BY <1>1, <1>2, <2>2, <2>3, <2>4, OrderStays
<1>8. ASSUME Flush(queue)
      PROVE  /\ pending' = <<>> /\ Len(queue) <= Len(queue')
             /\ \A n \in DOMAIN queue : queue'[n] = queue[n]
             /\ batch' = <<>> => queue' = queue
  <2>1. pending' = <<>> /\ (queue' = queue \/ queue' = Append(queue, Batch)) BY <1>8 DEF Flush
  <2>2. Len(Append(queue, Batch)) = Len(queue) + 1 /\ \A n \in DOMAIN queue : Append(queue, Batch)[n] = queue[n]
    <3> DEFINE e == Batch
    <3>1. e \in Element BY <1>3
    <3> HIDE DEF e
    <3>2. Len(Append(queue, e)) = Len(queue) + 1 /\ \A n \in 1..Len(queue) : Append(queue, e)[n] = queue[n]
      BY <1>3, <3>1, AppendProperties
    <3> QED BY <1>1, <3>2 DEF e
  <2>3. batch' = <<>> => queue' = queue BY <1>8 DEF Flush
  <2> QED BY <1>1, <2>1, <2>2, <2>3
<1>9. CASE TimerFires
  <2>1. UNCHANGED <<leaving, taps>> BY <1>9 DEF TimerFires
  <2>2. CASE UNCHANGED <<pending, batch, queue, waiting>> BY <1>5, <2>1, <2>2
  <2>3. CASE waiting' = Append(waiting, "timer") /\ UNCHANGED <<pending, batch, queue>>
    <3>1. waiting' # <<>>
      <4>1. waiting \in Seq({"timer", "navigation"}) BY TypingParts DEF QueueTyped
      <4> QED BY <2>3, <4>1, AppendProperties
    <3> QED BY <1>1, <1>2, <2>1, <2>3, <3>1 DEF LeavesInOrder, Younger
  <2>4. CASE batch = <<>> /\ Flush(queue) /\ UNCHANGED waiting
    <3>1. Younger(pending)' BY <1>8, <2>4 DEF Younger
    <3>2. Younger(pending) => Younger(batch)' BY <1>3, <1>4, <2>1, <2>4
    <3> QED BY <1>1, <1>2, <1>8, <2>1, <2>4, <3>1, <3>2, OrderStays
  <2> QED BY <1>9, <2>2, <2>3, <2>4 DEF TimerFires
<1>10. CASE Navigate
  <2>1. taps' = taps /\ leaving.at = "page" /\ leaving.ahead = 0
    BY <1>10 DEF Navigate, LeavesInOrder
  <2>2. CASE pending = <<>> /\ leaving' = [AfterFlush(queue) EXCEPT !.since = taps]
             /\ UNCHANGED <<pending, batch, queue, waiting>>
    <3>1. leaving' = [[leaving EXCEPT !.at = "queue", !.ahead = Len(queue')] EXCEPT !.since = taps]
          /\ pending' = <<>>
      BY <2>2 DEF AfterFlush
    <3>2. leaving'.since = taps BY <1>1, <3>1
    <3> QED BY <1>1, <2>1, <3>1, <3>2, GoesOn
  <2>3. CASE /\ waiting' = Append(waiting, "navigation")
             /\ leaving' = [leaving EXCEPT !.at = "waiting", !.since = taps]
             /\ UNCHANGED <<pending, batch, queue>>
    <3>1. waiting' # <<>>
      <4>1. waiting \in Seq({"timer", "navigation"}) BY TypingParts DEF QueueTyped
      <4> QED BY <2>3, <4>1, AppendProperties
    <3>2. leaving'.at = "waiting" /\ leaving'.since = taps /\ leaving'.ahead = leaving.ahead
      BY <1>1, <2>3
    <3> QED BY <1>1, <1>2, <2>1, <2>3, <3>1, <3>2 DEF LeavesInOrder
  <2>4. CASE /\ batch = <<>> /\ Flush(queue)
             /\ leaving' = [IF batch' = <<>> THEN AfterFlush(queue)
                            ELSE [leaving EXCEPT !.at = "flushing"] EXCEPT !.since = taps]
    <3>1. CASE batch' = <<>>
      <4>1. queue' = queue /\ pending' = <<>> BY <1>8, <2>4, <3>1
      <4>2. leaving' = [[leaving EXCEPT !.at = "queue", !.ahead = Len(queue')] EXCEPT !.since = taps]
        BY <2>4, <3>1, <4>1 DEF AfterFlush
      <4>3. leaving'.since = taps BY <1>1, <4>2
      <4> QED BY <1>1, <2>1, <4>1, <4>2, <4>3, GoesOn
    <3>2. CASE batch' # <<>>
      <4>1. leaving' = [[leaving EXCEPT !.at = "flushing"] EXCEPT !.since = taps] BY <2>4, <3>2
      <4>2. leaving'.at = "flushing" /\ leaving'.since = taps /\ leaving'.ahead = leaving.ahead
        BY <1>1, <4>1
      <4>3. pending' = <<>> /\ leaving.ahead <= Len(queue') BY <1>1, <1>2, <1>8, <2>4 DEF LeavesInOrder
      <4>4. Younger(pending)' BY <4>3 DEF Younger
      <4> QED BY <1>1, <2>1, <4>2, <4>3, <4>4 DEF LeavesInOrder
    <3> QED BY <3>1, <3>2
  <2> QED BY <1>10, <2>2, <2>3, <2>4 DEF Navigate
<1>11. CASE TakeBatch BY <1>5, <1>11 DEF TakeBatch, page
<1>12. ASSUME queue # <<>>, queue' = Tail(queue) \/ queue' = Append(Tail(queue), Batch)
       PROVE  /\ Len(queue) - 1 <= Len(queue')
              /\ \A n \in DOMAIN queue \ {1} : n - 1 \in 1..(Len(queue) - 1) /\ queue'[n - 1] = queue[n]
  <2> DEFINE t == Tail(queue)
             e == Batch
  <2>1. /\ t \in Seq(Element) /\ Len(t) = Len(queue) - 1 /\ e \in Element
        /\ \A n \in 1..Len(t) : t[n] = queue[n + 1]
    BY <1>3, <1>12, QueueIs
  <2>2. queue' = t \/ queue' = Append(t, e) BY <1>12
  <2> HIDE DEF t, e
  <2>3. Len(t) <= Len(queue') /\ \A n \in 1..Len(t) : queue'[n] = t[n]
    BY <2>1, <2>2, AppendProperties, LenProperties
  <2>4. \A n \in DOMAIN queue \ {1} : n - 1 \in 1..Len(t) /\ (n - 1) + 1 = n BY <1>1, <2>1
  <2> QED BY <2>1, <2>3, <2>4
<1>13. CASE TakeAnswer
  <2>1. queue # <<>> /\ Head(queue) = Batch /\ EndFlush /\ taps' = taps BY <1>13 DEF TakeAnswer
  <2>2. Flush(Tail(queue)) \/ (queue' = Tail(queue) /\ batch' = <<>> /\ UNCHANGED pending)
    BY <2>1 DEF EndFlush
  <2>3. Tail(queue) \in Seq(Element) BY <2>1, QueueIs
  <2>4. queue' = Tail(queue) \/ queue' = Append(Tail(queue), Batch) BY <2>2 DEF Flush
  <2>5. pending' = <<>> \/ UNCHANGED pending BY <2>2 DEF Flush
  <2>6. waiting # <<>> => pending' = <<>>
    <3> SUFFICES ASSUME waiting # <<>> PROVE pending' = <<>> OBVIOUS
    <3>1. CASE pending = <<>> BY <2>5, <3>1
    <3>2. CASE pending # <<>> BY <2>1, <3>2 DEF EndFlush, Flush
    <3> QED BY <3>1, <3>2
  <2>7. CASE leaving' = [leaving EXCEPT !.at = "flushing"] /\ leaving.at = "waiting"
    <3>1. leaving'.at = "flushing" /\ leaving'.since = leaving.since /\ leaving'.ahead = leaving.ahead
      BY <1>1, <2>7
    <3>2. pending' = <<>> BY <2>6, <2>7 DEF LeavesInOrder
    <3>3. Younger(pending)' BY <3>2 DEF Younger
    <3>4. leaving.ahead = 0 BY <2>7 DEF LeavesInOrder
    <3> QED BY <1>1, <1>2, <2>1, <3>1, <3>3, <3>4 DEF LeavesInOrder
  <2>8. CASE leaving' = AfterFlush(queue') /\ leaving.at \in {"waiting", "flushing"}
    <3>1. leaving' = [leaving EXCEPT !.at = "queue", !.ahead = Len(queue')] BY <2>8 DEF AfterFlush
    <3>2. leaving'.since = leaving.since BY <1>1, <3>1
    <3>3. pending' = <<>> \/ (Younger(pending) /\ UNCHANGED pending)
      BY <2>5, <2>6, <2>8 DEF LeavesInOrder
    <3> QED BY <1>1, <2>1, <3>1, <3>2, <3>3, GoesOn DEF LeavesInOrder
  <2>9. CASE leaving' = Popped(queue') /\ leaving.at \notin {"waiting", "flushing"}
    <3>1. leaving'.at = leaving.at /\ leaving'.since = leaving.since /\ leaving'.ahead \in Nat
          /\ leaving'.ahead <= Len(queue')
      <4>1. CASE leaving.at = "queue" /\ leaving.ahead > 0
        <5>1. leaving' = [leaving EXCEPT !.ahead = leaving.ahead - 1] BY <2>9, <4>1 DEF Popped
        <5>2. Len(queue) - 1 <= Len(queue') BY <1>12, <2>1, <2>4
        <5> QED BY <1>1, <1>2, <4>1, <5>1, <5>2 DEF LeavesInOrder
      <4>2. CASE leaving.at = "queue" /\ ~(leaving.ahead > 0)
        BY <1>1, <1>2, <2>9, <4>2 DEF Popped
      <4>3. CASE leaving.at # "queue"
        <5>1. leaving' = leaving BY <2>9, <4>3 DEF Popped
        <5> QED BY <1>1, <1>2, <4>3, <5>1 DEF LeavesInOrder
      <4> QED BY <4>1, <4>2, <4>3
    <3>2. leaving.at = "queue" => Younger(pending)' /\ Younger(batch)'
      <4> SUFFICES ASSUME leaving.at = "queue" PROVE Younger(pending)' /\ Younger(batch)' OBVIOUS
      <4>1. Younger(pending) BY DEF LeavesInOrder
      <4>2. Younger(pending)' BY <2>5, <3>1, <4>1 DEF Younger
      <4>3. Younger(batch)'
        <5>1. CASE Flush(Tail(queue))
          <6> DEFINE q == Tail(queue)
          <6>1. q \in Seq(Element) /\ Flush(q) BY <2>3, <5>1
          <6> HIDE DEF q
          <6> QED BY <1>4, <3>1, <4>1, <6>1
        <5>2. CASE batch' = <<>> BY <5>2 DEF Younger
        <5> QED BY <2>2, <5>1, <5>2
      <4> QED BY <4>2, <4>3
    <3>3. leaving'.at # "queue" => leaving'.ahead = 0 BY <2>9, <3>1 DEF Popped, LeavesInOrder
    <3> QED BY <1>1, <2>1, <2>9, <3>1, <3>2, <3>3 DEF LeavesInOrder
  <2>10. \/ leaving' = [leaving EXCEPT !.at = "flushing"] /\ leaving.at = "waiting"
         \/ leaving' = AfterFlush(queue') /\ leaving.at \in {"waiting", "flushing"}
         \/ leaving' = Popped(queue') /\ leaving.at \notin {"waiting", "flushing"}
    BY <2>1 DEF EndFlush
  <2> QED BY <2>7, <2>8, <2>9, <2>10
<1>14. ASSUME NEW i \in Configured, ShowConfigured(i) \/ TakeConfigured(i) PROVE LeavesInOrder'
  <2>1. UNCHANGED <<leaving, taps, queue, waiting, pending, batch>>
    BY <1>14 DEF ShowConfigured, TakeConfigured, page
  <2> QED BY <1>5, <2>1
<1>15. ASSUME NEW i \in Configured, EndConfigured(i) PROVE LeavesInOrder'
  <2>1. /\ queue # <<>> /\ Head(queue) # Batch /\ queue' = Tail(queue) /\ leaving' = Popped(queue')
        /\ UNCHANGED <<taps, waiting, pending, batch>>
    BY <1>15 DEF EndConfigured, Adding
  <2>2. /\ Len(queue) - 1 <= Len(queue')
        /\ \A n \in DOMAIN queue \ {1} : n - 1 \in 1..(Len(queue) - 1) /\ queue'[n - 1] = queue[n]
    BY <1>12, <2>1
  <2>3. queue[1] # Batch BY <2>1, QueueIs
  <2>4. CASE leaving.at = "queue" /\ leaving.ahead > 0
    <3>1. leaving' = [leaving EXCEPT !.ahead = leaving.ahead - 1] BY <2>1, <2>4 DEF Popped
    <3>2. leaving'.at = "queue" /\ leaving'.since = leaving.since /\ leaving'.ahead = leaving.ahead - 1
      BY <1>1, <2>4, <3>1
    <3>3. leaving'.ahead <= Len(queue') BY <1>1, <1>2, <2>2, <3>2 DEF LeavesInOrder
    <3>4. Younger(pending)' BY <2>1, <2>4, <3>2 DEF LeavesInOrder, Younger
    <3>5. Younger(batch)' \/ \E n \in 1..leaving'.ahead : queue'[n] = Batch
      <4>1. CASE Younger(batch) BY <2>1, <3>2, <4>1 DEF Younger
      <4>2. CASE \E n \in 1..leaving.ahead : queue[n] = Batch
        <5>1. PICK n \in 1..leaving.ahead : queue[n] = Batch BY <4>2
        <5>2. n \in DOMAIN queue \ {1} BY <1>1, <2>3, <5>1 DEF LeavesInOrder
        <5>3. n - 1 \in 1..leaving'.ahead /\ queue'[n - 1] = Batch BY <1>1, <2>2, <3>2, <5>1, <5>2
        <5> QED BY <5>3
      <4> QED BY <2>4, <4>1, <4>2 DEF LeavesInOrder
    <3> QED BY <1>1, <2>1, <3>2, <3>3, <3>4, <3>5 DEF LeavesInOrder
  <2>5. CASE ~(leaving.at = "queue" /\ leaving.ahead > 0)
    <3>1. leaving' = leaving BY <2>1, <2>5 DEF Popped
    <3>2. leaving.at = "queue" => leaving.ahead = 0 BY <1>1, <2>5
    <3>3. leaving.at = "queue" => Younger(batch) /\ Younger(pending) BY <3>2 DEF LeavesInOrder
    <3>4. leaving.at = "queue" => Younger(batch)' /\ Younger(pending)' BY <2>1, <3>1, <3>3 DEF Younger
    <3>5. leaving.ahead = 0 /\ leaving.ahead <= Len(queue') BY <1>2, <3>2 DEF LeavesInOrder
    <3>6. leaving.at = "flushing" => Younger(pending)' BY <2>1, <3>1 DEF LeavesInOrder, Younger
    <3> QED BY <1>1, <2>1, <3>1, <3>4, <3>5, <3>6 DEF LeavesInOrder
  <2> QED BY <2>4, <2>5
<1>16. CASE UNCHANGED vars BY <1>5, <1>16 DEF vars, page
<1> QED BY <1>6, <1>7, <1>9, <1>10, <1>11, <1>13, <1>14, <1>15, <1>16 DEF Next, Customer, Browser

\* When a navigation goes on, nothing tapped before it is pending or under way, for any items,
\* taps and faults (flushAllCartWork).
THEOREM NavigationLeavesSynced == Spec => []LeavesSynced
<1>1. Init => Typing /\ QueueHasBatch /\ LeavesInOrder
  <2>1. Init => LeavesInOrder BY CartSyncAssumption DEF Init, LeavesInOrder
  <2> QED BY <2>1, InitIsTyped
<1>2. Typing /\ QueueHasBatch /\ LeavesInOrder /\ [Next]_vars =>
        (Typing /\ QueueHasBatch /\ LeavesInOrder)'
  <2>1. Typing /\ QueueHasBatch /\ [Next]_vars => Typing' /\ QueueHasBatch' BY TypingStep, QueueStep
  <2>2. Typing /\ QueueHasBatch /\ Typing' /\ QueueHasBatch' /\ LeavesInOrder /\ [Next]_vars =>
          LeavesInOrder'
    BY OrderStep
  <2> QED BY <2>1, <2>2
<1>3. Typing /\ LeavesInOrder => LeavesSynced
  <2> SUFFICES ASSUME Typing, LeavesInOrder, leaving.at = "queue", leaving.ahead = 0,
                      NEW o \in Range(pending \o batch)
               PROVE  o.since > leaving.since
    BY DEF LeavesSynced
  <2>1. Younger(pending) /\ Younger(batch) BY DEF LeavesInOrder
  <2>2. pending \in Seq(Meant) /\ batch \in Seq(Meant) BY TypingParts DEF TapsTyped
  <2>3. PICK n \in DOMAIN (pending \o batch) : o = (pending \o batch)[n] BY DEF Range
  <2>4. \/ n \in DOMAIN pending /\ o = pending[n]
        \/ n - Len(pending) \in DOMAIN batch /\ o = batch[n - Len(pending)]
    BY <2>2, <2>3, ConcatProperties, LenProperties
  <2> QED BY <2>1, <2>4 DEF Younger
<1> QED BY <1>1, <1>2, <1>3, PTL DEF Spec

-----------------------------------------------------------------------------
(* The page shows the server's cart in the end.                            *)

\* The types that the page's lines need.
LEMMA LinesTyped ==
  ASSUME Typing
  PROVE  /\ \A l \in DOMAIN shown : l \in Int /\ shown[l].quantity \in Nat \ {0}
         /\ \A l \in DOMAIN server : l \in Int /\ l > 0 /\ server[l].quantity \in Nat \ {0}
         /\ server = [l \in DOMAIN server |-> server[l]]
         /\ shown = [l \in DOMAIN shown |-> shown[l]]
         /\ pending \in Seq(Meant) /\ \A n \in DOMAIN pending : pending[n].line \in Int
<1>1. CartsTyped /\ TapsTyped BY TypingParts
<1>2. DOMAIN server \subseteq 1..made /\ made \in Nat BY <1>1 DEF CartsTyped
<1>3. \A n \in DOMAIN pending : pending[n] \in Meant BY <1>1 DEF TapsTyped
<1> QED BY <1>1, <1>2, <1>3 DEF CartsTyped, TapsTyped, Cart, Line, Meant, Operation

\* A page that shows the server's cart follows it.
LEMMA SameFollows ==
  ASSUME shown' = server', ~Dialog', pending' = <<>>
  PROVE  PageFollows'
BY DEF PageFollows, Agrees

\* The line that a tap changes is pending after it.
LEMMA TapFollows ==
  ASSUME Typing, PageFollows, NEW c, NEW l \in Int, NEW i \in Item, Cart(c), OthersStay(c, l),
         Schedule(c, l, i)
  PROVE  PageFollows'
<1> DEFINE o == OperationFor(c, l, i)
           d == Head(queue)[1]
<1>1. o \in Meant BY OperationIs
<1>2. o.line = l /\ (o.type = "removeLine" => l \notin DOMAIN c) BY DEF OperationFor
<1>3. /\ pending' = Coalesce(pending, o) /\ shown' = c
      /\ UNCHANGED <<server, queue, phase, answer, heard, batch>>
  BY DEF Schedule
<1> HIDE DEF o
<1>4. pending \in Seq(Meant) /\ \A n \in DOMAIN pending : pending[n].line \in Int BY LinesTyped
<1>5. \A n \in DOMAIN pending' : LET p == pending'[n]
           IN  \/ p.line = o.line /\ p.type = o.type /\ p.quantity = o.quantity
                  /\ p.since \in {o.since} \cup {pending[k].since : k \in DOMAIN pending}
               \/ \E k \in DOMAIN pending : p = pending[k] /\ p.line # o.line
  <2>1. \A n \in DOMAIN Coalesce(pending, o) :
          LET p == Coalesce(pending, o)[n]
          IN  \/ p.line = o.line /\ p.type = o.type /\ p.quantity = o.quantity
                 /\ p.since \in {o.since} \cup {pending[k].since : k \in DOMAIN pending}
              \/ \E k \in DOMAIN pending : p = pending[k] /\ p.line # o.line
    BY <1>1, <1>4, CoalesceIs
  <2> QED BY <1>3, <2>1
<1>6. Touched' = Touched \cup {l}
  <2>1. {Coalesce(pending, o)[n].line : n \in DOMAIN Coalesce(pending, o)} =
          {pending[n].line : n \in DOMAIN pending} \cup {o.line}
    BY <1>1, <1>4, CoalesceIs
  <2> QED BY <1>2, <1>3, <2>1 DEF Touched
<1>7. Dialog' = Dialog /\ d' = d /\ Asked' = Asked /\ phase' = phase BY <1>3 DEF Dialog, Asked
<1>8. \A k \in Int \ {l} : /\ k \in DOMAIN shown' <=> k \in DOMAIN shown
                           /\ k \in DOMAIN shown' => shown'[k] = shown[k]
  BY <1>3 DEF OthersStay
<1>9. \A k \in Int \ {l} : (Agrees(k) => Agrees(k)') /\ (Below(k) => Below(k)')
  BY <1>3, <1>8 DEF Agrees, Below
<1>10. ~Dialog' => \A k \in Int \ Touched' : Agrees(k)'
  BY <1>6, <1>7, <1>9 DEF PageFollows
<1>11. Dialog' => \A k \in (Int \ Touched') \ {d'} :
         IF phase' \in {"answered", "refused"} THEN Below(k)' ELSE Agrees(k)'
  BY <1>6, <1>7, <1>9 DEF PageFollows
<1>12. Dialog' /\ d' \in DOMAIN shown' \ Touched' => shown'[d'] = Asked'
  <2> SUFFICES ASSUME Dialog, d \in DOMAIN shown', d \notin Touched', d' = d
               PROVE  shown'[d] = Asked
    BY <1>7
  <2>1. d \in Int BY <1>3 DEF Cart
  <2>2. d # l /\ d \notin Touched BY <1>6
  <2> QED BY <1>8, <2>1, <2>2 DEF PageFollows
<1>13. ASSUME NEW n \in DOMAIN pending', pending'[n].type = "removeLine", pending'[n].line <= 0,
              pending'[n].line \in DOMAIN shown'
       PROVE  Dialog' /\ pending'[n].line = d' /\ shown'[pending'[n].line] = Asked'
  <2>1. pending'[n].line # l BY <1>2, <1>3, <1>5, <1>13
  <2>2. PICK k \in DOMAIN pending : pending'[n] = pending[k] BY <1>2, <1>5, <2>1
  <2>3. pending[k].line \in Int \ {l} BY <1>4, <2>1, <2>2
  <2>4. pending[k].line \in DOMAIN shown /\ shown'[pending[k].line] = shown[pending[k].line]
    BY <1>8, <1>13, <2>2, <2>3
  <2> QED BY <1>7, <1>13, <2>2, <2>4 DEF PageFollows
<1> QED BY <1>10, <1>11, <1>12, <1>13 DEF PageFollows

\* A flush that sends nothing cancels lines that are on neither side.
LEMMA FlushFollows ==
  ASSUME Typing, PageFollows, Flush(queue), batch' = <<>>,
         UNCHANGED <<shown, server, phase>>
  PROVE  PageFollows'
<1>1. /\ queue' = queue /\ pending' = <<>>
      /\ \A n \in DOMAIN pending : pending[n].type = "removeLine" /\ pending[n].line <= 0
  BY QueueIs, FlushIs
<1> DEFINE d == Head(queue)[1]
<1>2. Dialog' = Dialog /\ d' = d /\ Asked' = Asked BY <1>1 DEF Dialog, Asked
<1>3. ASSUME NEW l \in Touched, ~Dialog \/ l # d
      PROVE  l \notin DOMAIN shown /\ l \notin DOMAIN server
  <2>1. PICK n \in DOMAIN pending : l = pending[n].line BY DEF Touched
  <2>2. l \in Int /\ l <= 0 BY <1>1, <2>1, LinesTyped
  <2>3. l \notin DOMAIN server BY <2>2, LinesTyped
  <2> QED BY <1>1, <1>3, <2>1, <2>3 DEF PageFollows
<1>4. \A l \in Int : (Agrees(l) => Agrees(l)') /\ (Below(l) => Below(l)') BY DEF Agrees, Below
<1>5. \A l \in Touched : ~Dialog \/ l # d => Agrees(l) /\ Below(l) BY <1>3 DEF Agrees, Below
<1>6. ~Dialog => \A l \in Int : Agrees(l)' BY <1>4, <1>5 DEF PageFollows
<1>7. Dialog => \A l \in Int \ {d} :
        IF phase \in {"answered", "refused"} THEN Below(l)' ELSE Agrees(l)'
  BY <1>4, <1>5 DEF PageFollows
<1>8. Dialog /\ d \in DOMAIN shown => shown[d] = Asked
  <2> SUFFICES ASSUME Dialog, d \in DOMAIN shown, d \in Touched PROVE shown[d] = Asked
    BY DEF PageFollows
  <2>1. PICK n \in DOMAIN pending : d = pending[n].line BY DEF Touched
  <2> QED BY <1>1, <2>1 DEF PageFollows
<1> QED BY <1>1, <1>2, <1>6, <1>7, <1>8 DEF PageFollows

\* A dialog adds its line to the page, and to the server's cart.
LEMMA DialogFollows ==
  ASSUME Typing, QueueHasBatch, ShownFollows, NEW i \in Configured,
         ShowConfigured(i) \/ TakeConfigured(i) \/ EndConfigured(i)
  PROVE  ShownFollows'
<1> DEFINE d == Head(queue)[1]
<1>1. queue # <<>> /\ Head(queue) # Batch /\ Head(queue)[2] = i
  BY DEF ShowConfigured, TakeConfigured, EndConfigured, Adding
<1>2. d \in Int /\ d < 0 /\ i \in Item BY <1>1, QueueIs, TailIs, CartSyncAssumption
<1>3. CASE ShowConfigured(i)
  <2>1. /\ phase = "start" /\ phase' = "sent" /\ shown' = Put(shown, d, i, 1)
        /\ UNCHANGED <<pending, batch, server, queue, heard>>
    BY <1>3 DEF ShowConfigured
  <2>2. ~Dialog /\ Dialog' /\ d' = d /\ Asked' = Asked /\ Touched' = Touched
    BY <1>1, <2>1 DEF Dialog, Asked, Touched
  <2>3. \A l \in Int \ {d} : /\ l \in DOMAIN shown' <=> l \in DOMAIN shown
                             /\ l \in DOMAIN shown' => shown'[l] = shown[l]
    BY <2>1 DEF Put
  <2>4. shown'[d] = Asked BY <1>1, <2>1 DEF Put, Asked
  <2>5. ASSUME PageFollows PROVE PageFollows'
    <3>1. \A l \in Int \ {d} : Agrees(l) => Agrees(l)' BY <2>1, <2>3 DEF Agrees
    <3>2. \A l \in (Int \ Touched) \ {d} : Agrees(l)' BY <2>2, <2>5, <3>1 DEF PageFollows
    <3>3. ASSUME NEW n \in DOMAIN pending, pending[n].type = "removeLine", pending[n].line <= 0,
                 pending[n].line \in DOMAIN shown'
          PROVE  pending[n].line = d
      <4> SUFFICES ASSUME pending[n].line # d PROVE FALSE OBVIOUS
      <4>1. pending[n].line \in Int BY LinesTyped
      <4>2. pending[n].line \in DOMAIN shown BY <2>3, <3>3, <4>1
      <4> QED BY <2>2, <2>5, <3>3, <4>2 DEF PageFollows
    <3> QED BY <2>1, <2>2, <2>4, <3>2, <3>3 DEF PageFollows
  <2>6. AnswerIsServer' /\ DialogIsServed' BY <2>1 DEF AnswerIsServer, DialogIsServed
  <2> QED BY <2>1, <2>5, <2>6 DEF ShownFollows
<1>4. CASE TakeConfigured(i)
  <2>1. /\ phase = "sent" /\ UNCHANGED <<shown, pending, batch, queue, heard>>
        /\ \/ \E r \in Served :
                 /\ server' = r.cart
                 /\ (answer' = r.cart /\ phase' = "answered") \/ phase' = "refused"
                 /\ OfItem(r.cart, i) # {} /\ \A l \in DOMAIN server :
                      /\ l \in DOMAIN r.cart /\ r.cart[l].item = server[l].item
                      /\ server[l].quantity <= r.cart[l].quantity
           \/ phase' = "refused" /\ UNCHANGED <<server, answer>>
    <3> DEFINE b == Result(server, made, {})
               r == AddTo(b, i, 1)
    <3>1. CartsTyped BY TypingParts
    <3>2. b \in Served /\ b.cart = server
      <4>1. b \in Served BY <3>1, ServedIs DEF CartsTyped
      <4> QED BY <4>1 DEF Result
    <3>3. \/ /\ server' = r.cart
             /\ (answer' = r.cart /\ phase' = "answered") \/ phase' = "refused"
          \/ phase' = "refused" /\ UNCHANGED <<server, answer>>
      BY <1>4 DEF TakeConfigured
    <3> HIDE DEF b
    <3>4. /\ r \in Served /\ OfItem(r.cart, i) # {}
          /\ \A l \in DOMAIN b.cart : /\ l \in DOMAIN r.cart /\ r.cart[l].item = b.cart[l].item
                                      /\ b.cart[l].quantity <= r.cart[l].quantity
      BY <1>2, <3>2, AddToIs
    <3> HIDE DEF r
    <3>5. phase = "sent" /\ UNCHANGED <<shown, pending, batch, queue, heard>>
      BY <1>4 DEF TakeConfigured, page, history
    <3> QED BY <3>2, <3>3, <3>4, <3>5
  <2>2. Dialog /\ Dialog' /\ d' = d /\ Asked' = Asked /\ Touched' = Touched
    BY <1>1, <2>1 DEF Dialog, Asked, Touched
  <2>3. CASE phase' = "refused" /\ UNCHANGED <<server, answer>>
    <3>1. \A l \in Int : Agrees(l) => Below(l)'
      <4>1. \A l \in DOMAIN server : server[l].quantity \in Nat BY LinesTyped
      <4> QED BY <2>1, <2>3, <4>1 DEF Agrees, Below
    <3>2. PageFollows => PageFollows'
      <4> SUFFICES ASSUME PageFollows PROVE PageFollows' OBVIOUS
      <4>1. \A l \in (Int \ Touched) \ {d} : Below(l)' BY <2>1, <2>2, <3>1 DEF PageFollows
      <4> QED BY <2>1, <2>2, <2>3, <4>1 DEF PageFollows
    <3>3. AnswerIsServer' /\ DialogIsServed' BY <1>1, <2>1, <2>3 DEF AnswerIsServer, DialogIsServed
    <3> QED BY <2>1, <3>2, <3>3 DEF ShownFollows
  <2>4. CASE \E r \in Served :
                 /\ server' = r.cart
                 /\ (answer' = r.cart /\ phase' = "answered") \/ phase' = "refused"
                 /\ OfItem(r.cart, i) # {} /\ \A l \in DOMAIN server :
                      /\ l \in DOMAIN r.cart /\ r.cart[l].item = server[l].item
                      /\ server[l].quantity <= r.cart[l].quantity
    <3>1. /\ (answer' = server' /\ phase' = "answered") \/ phase' = "refused"
          /\ OfItem(server', i) # {}
          /\ \A l \in DOMAIN server : /\ l \in DOMAIN server' /\ server'[l].item = server[l].item
                                      /\ server[l].quantity <= server'[l].quantity
      BY <2>4
    <3>2. \A l \in Int : Agrees(l) => Below(l)' BY <2>1, <3>1 DEF Agrees, Below
    <3>3. PageFollows => PageFollows'
      <4> SUFFICES ASSUME PageFollows PROVE PageFollows' OBVIOUS
      <4>1. \A l \in (Int \ Touched) \ {d} : Below(l)' BY <2>1, <2>2, <3>2 DEF PageFollows
      <4> QED BY <2>1, <2>2, <3>1, <4>1 DEF PageFollows
    <3>4. AnswerIsServer' /\ DialogIsServed' BY <1>1, <2>1, <3>1 DEF AnswerIsServer, DialogIsServed
    <3> QED BY <2>1, <3>3, <3>4 DEF ShownFollows
  <2> QED BY <2>1, <2>3, <2>4
<1>5. CASE EndConfigured(i)
  <2>1. /\ phase \in {"answered", "refused"} /\ phase' = "start" /\ UNCHANGED <<pending, batch, server>>
        /\ shown' = mergeServerCartWithLocalPending(answer, shown)
        /\ heard' = (heard /\ pending = <<>> /\ phase = "answered")
    BY <1>5 DEF EndConfigured
  <2>2. Dialog /\ ~Dialog' BY <1>1, <2>1 DEF Dialog
  <2>3. AnswerIsServer' /\ DialogIsServed' BY <2>1 DEF AnswerIsServer, DialogIsServed
  <2>4. ASSUME heard, pending = <<>>, phase = "answered", batch = <<>> PROVE PageFollows'
    <3>1. answer = server /\ OfItem(server, i) # {}
      BY <1>1, <2>2, <2>4 DEF ShownFollows, AnswerIsServer, DialogIsServed
    <3>2. /\ \A l \in Int \ {d} : Below(l)
          /\ d \in DOMAIN shown => shown[d] = [item |-> i, quantity |-> 1]
      <4>1. Touched = {} BY <2>4 DEF Touched
      <4> QED BY <1>1, <2>2, <2>4, <4>1 DEF ShownFollows, PageFollows, Asked
    <3>3. {m \in DOMAIN shown \ DOMAIN server : m > 0 \/ OfItem(server, shown[m].item) = {}} = {}
      <4> SUFFICES ASSUME NEW m \in DOMAIN shown \ DOMAIN server
                   PROVE  ~(m > 0) /\ OfItem(server, shown[m].item) # {}
        OBVIOUS
      <4>1. m = d
        <5>1. m \in Int BY LinesTyped
        <5> QED BY <3>2, <5>1 DEF Below
      <4> QED BY <1>2, <3>1, <3>2, <4>1
    <3>4. ASSUME NEW k \in DOMAIN server PROVE Above(server, shown, k) = {}
      <4> SUFFICES ASSUME NEW m \in DOMAIN shown, m = k \/ m < 0
                   PROVE  ~(shown[m].quantity > server[k].quantity)
        BY DEF Above
      <4>1. k \in Int /\ k > 0 /\ server[k].quantity \in Nat \ {0} /\ m \in Int
            /\ shown[m].quantity \in Nat
        BY LinesTyped
      <4>2. CASE m = d BY <1>2, <3>2, <4>1, <4>2
      <4>3. CASE m # d
        <5>1. m \in DOMAIN server /\ shown[m].quantity <= server[m].quantity
          BY <3>2, <4>1, <4>3 DEF Below
        <5>2. m = k BY <4>1, <5>1, LinesTyped
        <5> QED BY <4>1, <5>1, <5>2
      <4> QED BY <4>2, <4>3
    <3>5. shown' = [k \in DOMAIN server |-> server[k]]
      BY <2>1, <3>1, <3>3, <3>4 DEF mergeServerCartWithLocalPending
    <3>6. shown' = server' BY <2>1, <3>5, LinesTyped
    <3> QED BY <2>1, <2>2, <2>4, <3>6, SameFollows
  <2> QED BY <2>1, <2>3, <2>4 DEF ShownFollows
<1> QED BY <1>3, <1>4, <1>5

\* Every step leaves the page following the server.
LEMMA FollowStep ==
  ASSUME Typing, QueueHasBatch, ShownFollows, [Next]_vars
  PROVE  ShownFollows'
<1>1. queue \in Seq(Element) /\ Batch \in Element BY QueueIs DEF Element
\* What is put into the queue behind is not looked at.
<1>2. ASSUME NEW e \in Element, queue' = queue \/ queue' = Append(queue, e),
             UNCHANGED <<phase, answer, server>>
      PROVE  /\ AnswerIsServer' /\ DialogIsServed' /\ Dialog' = Dialog
             /\ Dialog => Head(queue') = Head(queue)
  <2>1. queue # <<>> => queue' # <<>> /\ Head(queue') = Head(queue)
    <3>1. CASE queue' = queue BY <3>1
    <3>2. CASE queue' = Append(queue, e)
      <4>1. /\ queue' \in Seq(Element) /\ queue' # <<>> /\ \A n \in 1..Len(queue) : queue'[n] = queue[n]
        BY <1>1, <3>2, AppendProperties
      <4>2. Head(queue') = queue'[1] BY <4>1
      <4>3. queue # <<>> => 1 \in 1..Len(queue) /\ Head(queue) = queue[1] BY <1>1, LenProperties, EmptySeq
      <4> QED BY <4>1, <4>2, <4>3
    <3> QED BY <1>2, <3>1, <3>2
  <2>2. queue = <<>> => phase = "start" BY DEF QueueHasBatch
  <2> QED BY <1>2, <2>1, <2>2 DEF ShownFollows, AnswerIsServer, DialogIsServed, Dialog
<1>3. ASSUME NEW e \in Element, queue' = queue \/ queue' = Append(queue, e),
             UNCHANGED <<phase, answer, server, shown, pending, batch, heard>>
      PROVE  ShownFollows'
  <2>1. /\ AnswerIsServer' /\ DialogIsServed' /\ Dialog' = Dialog
        /\ Dialog => Head(queue') = Head(queue)
    BY <1>2, <1>3
  <2>2. PageFollows => PageFollows'
    <3>1. Touched' = Touched /\ \A l \in Int : Agrees(l)' = Agrees(l) /\ Below(l)' = Below(l)
      BY <1>3 DEF Touched, Agrees, Below
    <3>2. Dialog => Asked' = Asked BY <2>1 DEF Asked
    <3> SUFFICES ASSUME PageFollows PROVE PageFollows' OBVIOUS
    <3>3. CASE Dialog
      <4> DEFINE d == Head(queue)[1]
      <4>1. Dialog' /\ d' = d /\ Asked' = Asked BY <2>1, <3>2, <3>3
      <4> QED BY <1>3, <3>1, <3>3, <4>1 DEF PageFollows
    <3>4. CASE ~Dialog BY <1>3, <2>1, <3>1, <3>4 DEF PageFollows
    <3> QED BY <3>3, <3>4
  <2> QED BY <1>3, <2>1, <2>2 DEF ShownFollows
<1>4. ASSUME batch = <<>>, Flush(queue), UNCHANGED <<phase, answer, server, shown, heard>>
      PROVE  ShownFollows'
  <2>1. AnswerIsServer' /\ DialogIsServed' BY <1>1, <1>2, <1>4 DEF Flush
  <2>2. batch' = <<>> /\ PageFollows => PageFollows' BY <1>4, FlushFollows
  <2> QED BY <1>4, <2>1, <2>2 DEF ShownFollows
<1>5. CASE Add \/ Increment \/ Decrement \/ RemoveLine
  <2>1. PICK c, l, i : Cart(c) /\ l \in Int /\ i \in Item /\ OthersStay(c, l) /\ Schedule(c, l, i)
    BY <1>5, TapIsTyped
  <2>2. UNCHANGED <<queue, phase, answer, server, batch, heard>> BY <2>1 DEF Schedule
  <2>3. AnswerIsServer' /\ DialogIsServed' BY <1>1, <1>2, <2>2
  <2>4. PageFollows => PageFollows' BY <2>1, TapFollows
  <2> QED BY <2>2, <2>3, <2>4 DEF ShownFollows
<1>6. CASE Configure
  <2>1. PICK i \in Configured : queue' = Append(queue, <<-(taps + 1), i>>) BY <1>6 DEF Configure
  <2> DEFINE e == <<-(taps + 1), i>>
  <2>2. e \in Element /\ queue' = Append(queue, e)
    <3>1. taps \in Nat BY LeavingTyped
    <3> QED BY <2>1, <3>1 DEF Element
  <2>3. UNCHANGED <<phase, answer, server, shown, pending, batch, heard>>
    BY <1>6 DEF Configure, page, history
  <2> HIDE DEF e
  <2> QED BY <1>3, <2>2, <2>3
<1>7. CASE TimerFires
  <2>1. /\ UNCHANGED <<phase, answer, server, shown, heard>>
        /\ UNCHANGED <<pending, batch, queue>> \/ (batch = <<>> /\ Flush(queue))
    BY <1>7 DEF TimerFires, history
  <2> QED BY <1>1, <1>3, <1>4, <2>1
<1>8. CASE Navigate
  <2>1. /\ UNCHANGED <<phase, answer, server, shown, heard>>
        /\ UNCHANGED <<pending, batch, queue>> \/ (batch = <<>> /\ Flush(queue))
    BY <1>8 DEF Navigate, history
  <2> QED BY <1>1, <1>3, <1>4, <2>1
<1>9. CASE TakeBatch
  <2>1. queue # <<>> /\ Head(queue) = Batch /\ UNCHANGED <<queue, batch>> BY <1>9 DEF TakeBatch, page
  <2>2. batch # <<>> BY <2>1, TailIs
  <2>3. phase' # "lost" => answer' = server' BY <1>9, TakeBatchIsTyped
  <2> QED BY <2>1, <2>2, <2>3 DEF ShownFollows, AnswerIsServer, DialogIsServed, Dialog
<1>10. CASE TakeAnswer
  <2>1. /\ queue # <<>> /\ Head(queue) = Batch /\ phase # "start" /\ phase' = "start" /\ EndFlush
        /\ heard' = (pending = <<>> /\ phase # "lost") /\ server' = server
        /\ (phase \in {"answered", "refused"} /\ shown' = ServerCart) \/ phase = "lost"
    BY <1>10 DEF TakeAnswer
  <2>2. ~Dialog' /\ AnswerIsServer' /\ DialogIsServed' BY <2>1 DEF Dialog, AnswerIsServer, DialogIsServed
  <2>3. ASSUME heard' PROVE PageFollows'
    <3>1. pending = <<>> /\ phase \in {"answered", "refused"} BY <2>1, <2>3
    <3>2. answer = server BY <2>1, <3>1 DEF ShownFollows, AnswerIsServer
    <3>3. shown' = server' BY <2>1, <3>1, <3>2 DEF ServerCart
    <3>4. pending' = <<>> BY <2>1, <3>1 DEF EndFlush
    <3> QED BY <2>2, <3>3, <3>4, SameFollows
  <2> QED BY <2>2, <2>3 DEF ShownFollows
<1>11. ASSUME NEW i \in Configured, ShowConfigured(i) \/ TakeConfigured(i) \/ EndConfigured(i)
       PROVE  ShownFollows'
  BY <1>11, DialogFollows
<1>12. CASE UNCHANGED vars
  <2>1. UNCHANGED <<queue, phase, answer, server, shown, pending, batch, heard>>
    BY <1>12 DEF vars, page, history
  <2> QED BY <1>1, <1>3, <2>1
<1> QED BY <1>5, <1>6, <1>7, <1>8, <1>9, <1>10, <1>11, <1>12 DEF Next, Customer, Browser

\* When nothing is pending or under way and the last answer came with nothing pending, the
\* page shows the server's cart, for any items, taps and faults
\* (applyServerCartPreservingPending, flushSession).
THEOREM ShownStaysServer == Spec => []ShownIsServer
<1>1. Init => Typing /\ QueueHasBatch /\ ShownFollows
  <2>1. Init => ShownFollows
    BY DEF Init, ShownFollows, AnswerIsServer, DialogIsServed, Dialog, PageFollows, Agrees, Touched
  <2> QED BY <2>1, InitIsTyped
<1>2. Typing /\ QueueHasBatch /\ ShownFollows /\ [Next]_vars =>
        (Typing /\ QueueHasBatch /\ ShownFollows)'
  BY TypingStep, QueueStep, FollowStep
<1>3. Typing /\ QueueHasBatch /\ ShownFollows => ShownIsServer
  <2> SUFFICES ASSUME Typing, QueueHasBatch, ShownFollows, AtRest, heard PROVE shown = server
    BY DEF ShownIsServer
  <2>1. batch = <<>> /\ ~Dialog /\ Touched = {}
    BY DEF AtRest, QueueHasBatch, Dialog, Touched
  <2>2. \A l \in Int : Agrees(l) BY <2>1 DEF ShownFollows, PageFollows
  <2>3. \A l : (l \in DOMAIN shown <=> l \in DOMAIN server) /\ (l \in DOMAIN shown => shown[l] = server[l])
    BY <2>2, LinesTyped DEF Agrees
  <2>4. shown = [l \in DOMAIN shown |-> shown[l]] /\ server = [l \in DOMAIN server |-> server[l]]
    BY LinesTyped
  <2> QED BY <2>3, <2>4
<1> QED BY <1>1, <1>2, <1>3, PTL DEF Spec

-----------------------------------------------------------------------------
(* The server has what was tapped: every step leaves Keeping as it is.     *)

\* t has the operations of the first n that are not cancelled, in their order: f says where.
IsPart(t, ops, n, f) ==
  /\ f \in [1..Len(t) -> 1..n]
  /\ \A k \in 1..Len(t) : t[k] = ops[f[k]]
  /\ \A j, k \in 1..Len(t) : j < k => f[j] < f[k]
  /\ \A m \in 1..n : ops[m].type # "removeLine" \/ ops[m].line > 0 => \E k \in 1..Len(t) : f[k] = m

LEMMA SendableIsPart ==
  ASSUME NEW ops \in Seq(Operation)
  PROVE  \E f : IsPart(Sendable(ops), ops, Len(ops), f)
<1> DEFINE N == Len(ops)
           S == Seq({ops[n] : n \in DOMAIN ops})
<1>1. PICK q : /\ q[0] = <<>> /\ q[N] = Sendable(ops)
               /\ \A k \in 0..N : q[k] \in S
               /\ \A k \in 1..N :
                    q[k] = IF ops[k].type = "removeLine" /\ ops[k].line <= 0 THEN q[k - 1]
                           ELSE Append(q[k - 1], ops[k])
  BY SendableSteps
<1>2. N \in Nat /\ DOMAIN ops = 1..N /\ \A k \in 1..N : ops[k].line \in Int
  <2>1. \A k \in 1..N : ops[k] \in Operation OBVIOUS
  <2>2. \A o \in Operation : o.line \in Int BY DEF Operation
  <2> QED BY <2>1, <2>2
<1>3. \A t \in S : Len(t) \in Nat OBVIOUS
<1> DEFINE T == {n \in Nat : n <= N => \E f : IsPart(q[n], ops, n, f)}
<1>4. 0 \in T
  <2>1. Len(q[0]) = 0 BY <1>1
  <2>2. IsPart(q[0], ops, 0, [k \in 1..0 |-> k]) BY <2>1 DEF IsPart
  <2> QED BY <2>2
<1>5. ASSUME NEW n \in Nat, n \in T PROVE n + 1 \in T
  <2> SUFFICES ASSUME n + 1 <= N PROVE \E f : IsPart(q[n + 1], ops, n + 1, f) OBVIOUS
  <2>1. PICK f : IsPart(q[n], ops, n, f) BY <1>5
  <2>2. /\ n + 1 \in 1..N /\ q[n] \in S
        /\ q[n + 1] = IF ops[n + 1].type = "removeLine" /\ ops[n + 1].line <= 0 THEN q[n]
                      ELSE Append(q[n], ops[n + 1])
    <3>1. n + 1 \in 1..N /\ n \in 0..N /\ (n + 1) - 1 = n BY <1>2
    <3> HIDE DEF N, S
    <3> QED BY <1>1, <3>1
  <2>3. CASE ops[n + 1].type = "removeLine" /\ ops[n + 1].line <= 0
    <3>1. q[n + 1] = q[n] BY <2>2, <2>3
    <3>2. IsPart(q[n + 1], ops, n + 1, f) BY <1>2, <1>3, <2>1, <2>2, <2>3, <3>1 DEF IsPart
    <3> QED BY <3>2
  <2>4. CASE ~(ops[n + 1].type = "removeLine" /\ ops[n + 1].line <= 0)
    <3> DEFINE t == q[n]
               u == Append(t, ops[n + 1])
               g == [k \in 1..(Len(t) + 1) |-> IF k = Len(t) + 1 THEN n + 1 ELSE f[k]]
    <3>1. q[n + 1] = u BY <2>2, <2>4
    <3>2. Len(t) \in Nat /\ Len(u) = Len(t) + 1 /\ \A k \in 1..(Len(t) + 1) : u[k] = IF k = Len(t) + 1 THEN ops[n + 1] ELSE t[k]
      <4> DEFINE R == {ops[k] : k \in DOMAIN ops}
      <4>1. t \in Seq(R) /\ ops[n + 1] \in R BY <1>2, <2>2
      <4> HIDE DEF R, t
      <4> QED BY <4>1
    <3>3. /\ f \in [1..Len(t) -> 1..n]
          /\ \A k \in 1..Len(t) : t[k] = ops[f[k]]
          /\ \A j, k \in 1..Len(t) : j < k => f[j] < f[k]
          /\ \A m \in 1..n : ops[m].type # "removeLine" \/ ops[m].line > 0 => \E k \in 1..Len(t) : f[k] = m
      BY <2>1 DEF IsPart
    <3> HIDE DEF t, u, S, N
    <3>4. g \in [1..Len(u) -> 1..(n + 1)] BY <3>2, <3>3
    <3>5. \A k \in 1..Len(u) : u[k] = ops[g[k]] BY <3>2, <3>3
    <3>6. ASSUME NEW j \in 1..Len(u), NEW k \in 1..Len(u), j < k PROVE g[j] < g[k]
      <4>1. j \in 1..Len(t) /\ g[j] = f[j] /\ f[j] \in 1..n BY <3>2, <3>3, <3>6
      <4>2. CASE k = Len(t) + 1 BY <3>2, <4>1, <4>2
      <4>3. CASE k \in 1..Len(t) BY <3>2, <3>3, <3>6, <4>1, <4>3
      <4> QED BY <3>2, <4>2, <4>3
    <3>7. \A m \in 1..(n + 1) : ops[m].type # "removeLine" \/ ops[m].line > 0 => \E k \in 1..Len(u) : g[k] = m
      <4> SUFFICES ASSUME NEW m \in 1..(n + 1), ops[m].type # "removeLine" \/ ops[m].line > 0
                   PROVE  \E k \in 1..Len(u) : g[k] = m
        OBVIOUS
      <4>1. CASE m = n + 1
        <5>1. Len(t) + 1 \in 1..Len(u) /\ g[Len(t) + 1] = n + 1 BY <3>2
        <5> QED BY <4>1, <5>1
      <4>2. CASE m \in 1..n
        <5>1. PICK k \in 1..Len(t) : f[k] = m BY <3>3, <4>2
        <5>2. k \in 1..Len(u) /\ g[k] = m BY <3>2, <5>1
        <5> QED BY <5>2
      <4> QED BY <4>1, <4>2
    <3>8. IsPart(u, ops, n + 1, g)
      <4> HIDE DEF g
      <4> QED BY <3>4, <3>5, <3>6, <3>7 DEF IsPart
    <3> QED BY <3>1, <3>8
  <2> QED BY <2>3, <2>4
<1>6. Nat \subseteq T
  <2> HIDE DEF T
  <2> QED BY <1>4, <1>5, Induction
<1> QED BY <1>1, <1>2, <1>6

\* Nothing is of the empty sequence.
LEMMA NoneInEmpty ==
  /\ \A l, q : ~On(<<>>, l) /\ ~Sets(<<>>, l, q)
  /\ \A i : ~Of(<<>>, i) /\ AddsOf(<<>>, i) = {}
  /\ OneEach(<<>>)
BY DEF On, Sets, Of, AddsOf, OneEach

\* What is sent is to the server what was pending.
LEMMA SendableHas ==
  ASSUME NEW p \in Seq(Meant), OneEach(p), NEW b, b = Sendable(p)
  PROVE  /\ OneEach(b) /\ b \in Seq(Meant)
         /\ \A l \in Int : On(b, l) => On(p, l)
         /\ \A l \in Int : l > 0 => /\ On(p, l) => On(b, l)
                                    /\ \A q : Sets(p, l, q) => Sets(b, l, q)
         /\ \A l \in Int : \A q : q # 0 /\ Sets(p, l, q) => Sets(b, l, q)
         /\ \A n \in DOMAIN b : \E m \in DOMAIN p :
              b[n] = p[m] /\ \A k \in 1..m : p[k].line > 0 => \E j \in 1..n : b[j].line = p[k].line
         /\ \A n \in DOMAIN p : p[n].type = "addItem" => \E m \in DOMAIN b : b[m] = p[n]
<1> DEFINE N == Len(p)
           L == Len(b)
<1>1. p \in Seq(Operation) /\ \A n \in 1..N : p[n] \in Meant
  <2>1. Meant \subseteq Operation BY DEF Meant
  <2> QED BY <2>1, SeqMonotonic
<1>2. /\ N \in Nat /\ DOMAIN p = 1..N
      /\ \A n \in 1..N : p[n].line \in Int /\ (p[n].quantity = 0 <=> p[n].type = "removeLine")
  <2>1. \A o \in Meant : o.line \in Int /\ (o.quantity = 0 <=> o.type = "removeLine")
    BY DEF Meant, Operation
  <2> QED BY <1>1, <2>1
<1>3. PICK f : IsPart(b, p, N, f) BY <1>1, SendableIsPart
<1>4. b \in Seq(Meant)
  <2>1. b \in Seq({p[n] : n \in DOMAIN p}) BY <1>1, SendableIs
  <2>2. {p[n] : n \in DOMAIN p} \subseteq Meant BY <1>1
  <2> HIDE DEF N, L
  <2> QED BY <2>1, <2>2, SeqMonotonic
<1>5. L \in Nat /\ DOMAIN b = 1..L BY <1>4
<1> HIDE DEF N, L
<1>6. /\ \A k \in 1..L : f[k] \in 1..N /\ b[k] = p[f[k]]
      /\ \A j, k \in 1..L : j < k => f[j] < f[k]
      /\ \A m \in 1..N : p[m].type # "removeLine" \/ p[m].line > 0 => \E k \in 1..L : f[k] = m
  BY <1>3 DEF IsPart, L
<1>7. \A m \in 1..N : p[m].type # "removeLine" \/ p[m].line > 0 => \E k \in 1..L : b[k] = p[m]
  BY <1>6
<1>8. OneEach(b)
  <2> SUFFICES ASSUME NEW m \in 1..L, NEW n \in 1..L, b[m].line = b[n].line PROVE m = n
    BY <1>5 DEF OneEach
  <2>1. f[m] = f[n] BY <1>2, <1>6 DEF OneEach
  <2> QED BY <1>2, <1>5, <1>6, <2>1
<1>9. \A l \in Int : On(b, l) => On(p, l) BY <1>2, <1>5, <1>6 DEF On
<1>10. ASSUME NEW l \in Int, l > 0
       PROVE  (On(p, l) => On(b, l)) /\ \A q : Sets(p, l, q) => Sets(b, l, q)
  BY <1>2, <1>5, <1>7, <1>10 DEF On, Sets
<1>11. \A l \in Int : \A q : q # 0 /\ Sets(p, l, q) => Sets(b, l, q)
  BY <1>2, <1>5, <1>7 DEF Sets
<1>12. ASSUME NEW n \in 1..L
       PROVE  \E m \in 1..N :
                b[n] = p[m] /\ \A k \in 1..m : p[k].line > 0 => \E j \in 1..n : b[j].line = p[k].line
  <2>1. f[n] \in 1..N /\ b[n] = p[f[n]] BY <1>6
  <2>2. ASSUME NEW k \in 1..f[n], p[k].line > 0 PROVE \E j \in 1..n : b[j].line = p[k].line
    <3>1. k \in 1..N BY <1>2, <2>1
    <3>2. PICK j \in 1..L : f[j] = k BY <1>6, <2>2, <3>1
    <3>3. ~(n < j) BY <1>2, <1>6, <2>1, <3>2
    <3>4. j \in 1..n /\ b[j] = p[k] BY <1>5, <1>6, <3>2, <3>3
    <3> QED BY <3>4
  <2> QED BY <2>1, <2>2
<1>13. \A n \in 1..N : p[n].type = "addItem" => \E m \in 1..L : b[m] = p[n]
  <2> TAKE n \in 1..N
  <2> HAVE p[n].type = "addItem"
  <2>1. PICK k \in 1..L : b[k] = p[n] BY <1>7
  <2> QED BY <2>1
<1>14. DOMAIN p = 1..N /\ DOMAIN b = 1..L BY <1>2, <1>5
<1>15. \A l \in Int : l > 0 => /\ On(p, l) => On(b, l)
                             /\ \A q : Sets(p, l, q) => Sets(b, l, q)
  BY <1>10
<1>16. \A n \in DOMAIN b : \E m \in DOMAIN p :
         b[n] = p[m] /\ \A k \in 1..m : p[k].line > 0 => \E j \in 1..n : b[j].line = p[k].line
  BY <1>12, <1>14
<1>17. \A n \in DOMAIN p : p[n].type = "addItem" => \E m \in DOMAIN b : b[m] = p[n]
  BY <1>13, <1>14
<1> QED BY <1>4, <1>8, <1>9, <1>11, <1>15, <1>16, <1>17, Zenon

\* So sending it leaves an item calm.
LEMMA FlushIsCalm ==
  ASSUME NEW p \in Seq(Meant), OneEach(p), NEW i, NEW c, Cart(c), NEW s, Cart(s),
         \A l \in DOMAIN s : l > 0, NEW w, Calm(i, c, s, <<>>, p, w)
  PROVE  Calm(i, c, s, Sendable(p), <<>>, w)
<1> PICK b : b = Sendable(p) OBVIOUS
<1>1. /\ \A l \in OfItem(c, i) : l \in Int /\ c[l].quantity # 0
      /\ \A l \in OfItem(s, i) : l \in Int /\ l > 0
  BY DEF Cart, OfItem, Line
<1>2. /\ \A l \in Int : On(b, l) => On(p, l)
      /\ \A l \in Int : l > 0 => /\ On(p, l) => On(b, l)
                                 /\ \A q : Sets(p, l, q) => Sets(b, l, q)
      /\ \A l \in Int : \A q : q # 0 /\ Sets(p, l, q) => Sets(b, l, q)
      /\ \A n \in DOMAIN b : \E m \in DOMAIN p :
           b[n] = p[m] /\ \A k \in 1..m : p[k].line > 0 => \E j \in 1..n : b[j].line = p[k].line
      /\ \A n \in DOMAIN p : p[n].type = "addItem" => \E m \in DOMAIN b : b[m] = p[n]
  BY SendableHas
<1>3. ASSUME NEW l \in Int, l > 0, NEW q, ComesTo(s, <<>>, p, l, q)
      PROVE  ComesTo(s, b, <<>>, l, q)
  BY <1>2, <1>3, NoneInEmpty DEF ComesTo
<1>4. AddsOf(p, i) # {} => AddsOf(b, i) # {} BY <1>2 DEF AddsOf
<1>5. ASSUME NEW n \in AddsOf(b, i)
      PROVE  /\ b[n].line \in OfItem(c, i) /\ c[b[n].line].quantity = b[n].quantity
             /\ w = b[n].quantity
             /\ \A l \in OfItem(s, i) : \E m \in 1..n : b[m].line = l
  <2>1. PICK m \in DOMAIN p : /\ b[n] = p[m]
                              /\ \A k \in 1..m : p[k].line > 0 => \E j \in 1..n : b[j].line = p[k].line
    BY <1>2 DEF AddsOf
  <2>2. m \in AddsOf(p, i) BY <2>1 DEF AddsOf
  <2>3. /\ p[m].line \in OfItem(c, i) /\ c[p[m].line].quantity = p[m].quantity
        /\ w = p[m].quantity
        /\ \A l \in OfItem(s, i) : On(p, l) => \E k \in 1..m : p[k].line = l
    BY <2>2 DEF Calm
  <2>5. p[m].line < 0
    <3>1. p[m] \in Meant /\ p[m].type = "addItem" BY <2>1, <2>2 DEF AddsOf
    <3> QED BY <3>1 DEF Meant
  <2>6. ASSUME NEW l \in OfItem(s, i) PROVE On(p, l)
    <3>1. l \notin OfItem(c, i) BY <1>1, <2>3, <2>5 DEF Calm
    <3>2. ComesTo(s, <<>>, p, l, 0) BY <3>1 DEF Calm
    <3>3. s[l].quantity # 0 BY DEF Cart, OfItem, Line
    <3> QED BY <3>2, <3>3, NoneInEmpty DEF ComesTo
  <2>4. \A l \in OfItem(s, i) : \E j \in 1..n : b[j].line = l
    <3> TAKE l \in OfItem(s, i)
    <3>1. PICK k \in 1..m : p[k].line = l BY <2>3, <2>6
    <3>2. p[k].line > 0 BY <1>1, <3>1
    <3> QED BY <2>1, <3>1, <3>2
  <2> QED BY <2>1, <2>3, <2>4
<1>6. \A l \in OfItem(c, i) : l < 0 =>
       /\ i \notin Configured
       /\ Sets(b, l, c[l].quantity) \/ (~On(b, l) /\ ~On(<<>>, l) /\ OfItem(s, i) = {})
  BY <1>1, <1>2, NoneInEmpty DEF Calm
<1>7. \A l \in OfItem(c, i) : l > 0 => l \in OfItem(s, i) /\ ComesTo(s, b, <<>>, l, c[l].quantity)
  BY <1>1, <1>3 DEF Calm
<1>8. \A l \in OfItem(s, i) \ OfItem(c, i) : ComesTo(s, b, <<>>, l, 0) BY <1>1, <1>3 DEF Calm
<1>9. AddsOf(b, i) = {} =>
       /\ \A l \in OfItem(s, i) : ComesTo(s, b, <<>>, l, w)
       /\ OfItem(s, i) = {} => w = 0
  BY <1>1, <1>3, <1>4, NoneInEmpty DEF Calm
<1>10. /\ \A k, l \in OfItem(c, i) : k = l
       /\ \A k, l \in OfItem(s, i) : k = l
  BY DEF Calm
<1>11. Calm(i, c, s, b, <<>>, w)
  BY <1>5, <1>6, <1>7, <1>8, <1>9, <1>10, NoneInEmpty DEF Calm
<1> QED BY <1>11

\* An operation replaces what was pending of its line, in its place, or comes last.
LEMMA CoalesceHas ==
  ASSUME NEW ops \in Seq(Meant), OneEach(ops), NEW o \in Meant, NEW C, C = Coalesce(ops, o)
  PROVE  /\ OneEach(C)
         /\ \A n \in DOMAIN ops : /\ n \in DOMAIN C /\ C[n].line = ops[n].line
                                  /\ ops[n].line # o.line => C[n] = ops[n]
         /\ \A n \in DOMAIN C :
              \/ /\ C[n].line = o.line /\ C[n].type = o.type /\ C[n].quantity = o.quantity
                 /\ C[n].item = o.item
                 /\ n \in DOMAIN ops \/ (~On(ops, o.line) /\ DOMAIN ops \subseteq 1..n)
              \/ n \in DOMAIN ops /\ C[n] = ops[n] /\ C[n].line # o.line
         /\ \E n \in DOMAIN C : C[n].line = o.line
<1> DEFINE N == Len(ops)
<1>1. N \in Nat /\ DOMAIN ops = 1..N OBVIOUS
<1>2. CASE On(ops, o.line)
  <2>1. C = [n \in DOMAIN ops |->
               IF ops[n].line = o.line THEN [o EXCEPT !.since = ops[n].since] ELSE ops[n]]
    BY <1>2 DEF Coalesce, On
  <2>2. \A x : LET p == [o EXCEPT !.since = x]
               IN  p.line = o.line /\ p.type = o.type /\ p.quantity = o.quantity /\ p.item = o.item
    BY DEF Meant, Operation
  <2> HIDE DEF N
  <2>3. /\ DOMAIN C = DOMAIN ops
        /\ \A n \in DOMAIN ops : ops[n].line # o.line => C[n] = ops[n]
        /\ \A n \in DOMAIN ops : ops[n].line = o.line =>
             /\ C[n].line = o.line /\ C[n].type = o.type /\ C[n].quantity = o.quantity
             /\ C[n].item = o.item
    <3>1. DOMAIN C = DOMAIN ops BY <2>1
    <3>2. \A n \in DOMAIN ops :
            C[n] = IF ops[n].line = o.line THEN [o EXCEPT !.since = ops[n].since] ELSE ops[n]
      BY <2>1
    <3>3. ASSUME NEW n \in DOMAIN ops, ops[n].line = o.line
          PROVE  /\ C[n].line = o.line /\ C[n].type = o.type /\ C[n].quantity = o.quantity
                 /\ C[n].item = o.item
      <4>1. C[n] = [o EXCEPT !.since = ops[n].since] BY <3>2, <3>3
      <4> QED BY <2>2, <4>1
    <3> QED BY <3>1, <3>2, <3>3
  <2>4. OneEach(C) BY <2>3 DEF OneEach
  <2>5. \E n \in DOMAIN C : C[n].line = o.line BY <1>2, <2>3 DEF On
  <2>6. \A n \in DOMAIN ops : C[n].line = ops[n].line BY <2>3
  <2> QED BY <2>3, <2>4, <2>5, <2>6
<1>3. CASE ~On(ops, o.line)
  <2>1. C = Append(ops, o) BY <1>3 DEF Coalesce, On
  <2>2. DOMAIN C = 1..(N + 1) /\ C[N + 1] = o /\ \A n \in 1..N : C[n] = ops[n] BY <2>1
  <2> HIDE DEF N
  <2>3. \A n \in 1..N : ops[n].line # o.line BY <1>1, <1>3 DEF On
  <2>4. OneEach(C)
    <3> SUFFICES ASSUME NEW m \in 1..(N + 1), NEW n \in 1..(N + 1), C[m].line = C[n].line
                 PROVE  m = n
      BY <2>2 DEF OneEach
    <3>1. CASE m = N + 1 BY <1>1, <2>2, <2>3, <3>1
    <3>2. CASE n = N + 1 BY <1>1, <2>2, <2>3, <3>2
    <3>3. CASE m \in 1..N /\ n \in 1..N BY <1>1, <2>2, <3>3 DEF OneEach
    <3> QED BY <1>1, <3>1, <3>2, <3>3
  <2>5. N + 1 \in DOMAIN C /\ C[N + 1].line = o.line BY <1>1, <2>2
  <2>6. ASSUME NEW n \in DOMAIN C
        PROVE  \/ /\ C[n].line = o.line /\ C[n].type = o.type /\ C[n].quantity = o.quantity
                  /\ C[n].item = o.item
                  /\ n \in DOMAIN ops \/ (~On(ops, o.line) /\ DOMAIN ops \subseteq 1..n)
               \/ n \in DOMAIN ops /\ C[n] = ops[n] /\ C[n].line # o.line
    <3>1. CASE n = N + 1
      <4>1. DOMAIN ops \subseteq 1..n BY <1>1, <3>1
      <4> QED BY <1>3, <2>2, <3>1, <4>1
    <3>2. CASE n \in 1..N BY <1>1, <2>2, <2>3, <3>2
    <3> QED BY <1>1, <2>2, <3>1, <3>2
  <2>7. \A n \in DOMAIN ops : n \in DOMAIN C /\ C[n] = ops[n] BY <1>1, <2>2
  <2> QED BY <2>4, <2>5, <2>6, <2>7
<1> QED BY <1>2, <1>3

\* What it leaves of the lines, its own and others.
LEMMA CoalesceSets ==
  ASSUME NEW ops \in Seq(Meant), OneEach(ops), NEW o \in Meant, NEW C, C = Coalesce(ops, o)
  PROVE  /\ On(C, o.line) /\ Sets(C, o.line, o.quantity)
         /\ \A k : k # o.line => /\ On(C, k) <=> On(ops, k)
                                 /\ \A q : Sets(C, k, q) <=> Sets(ops, k, q)
<1>1. /\ \A n \in DOMAIN ops : /\ n \in DOMAIN C /\ C[n].line = ops[n].line
                               /\ ops[n].line # o.line => C[n] = ops[n]
      /\ \A n \in DOMAIN C :
           \/ C[n].line = o.line /\ C[n].quantity = o.quantity
           \/ n \in DOMAIN ops /\ C[n] = ops[n] /\ C[n].line # o.line
      /\ \E n \in DOMAIN C : C[n].line = o.line
  BY CoalesceHas
<1> QED BY <1>1 DEF On, Sets

\* The quantity of an item with at most one line.
LEMMA QuantityOfFew ==
  ASSUME NEW c, Cart(c), NEW i
  PROVE  /\ OfItem(c, i) = {} => Quantity(c, i) = 0
         /\ \A l : OfItem(c, i) = {l} => Quantity(c, i) = c[l].quantity
<1>1. /\ IsFiniteSet(OfItem(c, i)) /\ Quantities(c, i) \in [OfItem(c, i) -> Nat]
      /\ Quantity(c, i) = SumOf(Quantities(c, i), OfItem(c, i))
  BY QuantityIsSum
<1>2. CASE OfItem(c, i) = {} BY <1>1, <1>2, SumOfNone
<1>3. ASSUME NEW l, OfItem(c, i) = {l} PROVE Quantity(c, i) = c[l].quantity
  <2> DEFINE h == Quantities(c, i)
             S == OfItem(c, i)
  <2>1. h[l] = c[l].quantity /\ h[l] \in Nat BY <1>1, <1>3 DEF Quantities
  <2> HIDE DEF h, S
  <2>2. PICK f : IsFold(f, S, h) BY <1>1, FoldExists DEF h, S
  <2>3. f[S] = SumOf(h, S) BY <1>1, <2>2, SumIs DEF h, S
  <2>4. /\ f[{}] = 0
        /\ f[S] = h[l] + f[S \ {l}]
    BY <1>1, <1>3, <2>2, FoldIs DEF h, S
  <2>5. S \ {l} = {} BY <1>3 DEF S
  <2>6. SumOf(h, S) = h[l] BY <2>1, <2>3, <2>4, <2>5
  <2>7. Quantity(c, i) = SumOf(h, S) BY <1>1 DEF h, S
  <2> QED BY <2>1, <2>6, <2>7
<1> QED BY <1>2, <1>3

\* An operation of another item's line leaves an item calm.
LEMMA CalmElsewhere ==
  ASSUME NEW j, NEW c, NEW d, SameLines(c, d, j), NEW s, NEW b, NEW p \in Seq(Meant), OneEach(p),
         NEW w, Calm(j, c, s, b, p, w), NEW o \in Meant, NEW C, C = Coalesce(p, o), o.item # j,
         o.line \notin OfItem(c, j) \cup OfItem(s, j),
         \A n \in DOMAIN p : p[n].line = o.line => p[n].item # j,
         \A n \in DOMAIN b : b[n].line = o.line => b[n].item # j
  PROVE  Calm(j, d, s, b, C, w)
<1>1. /\ \A k : k # o.line => /\ On(C, k) <=> On(p, k)
                              /\ \A q : Sets(C, k, q) <=> Sets(p, k, q)
      /\ \A n \in DOMAIN p : /\ n \in DOMAIN C /\ C[n].line = p[n].line
                             /\ p[n].line # o.line => C[n] = p[n]
      /\ \A n \in DOMAIN C : C[n].item = o.item \/ (n \in DOMAIN p /\ C[n] = p[n])
  <2>1. \A n \in DOMAIN C :
              \/ C[n].item = o.item
              \/ n \in DOMAIN p /\ C[n] = p[n]
    BY CoalesceHas
  <2> QED BY <2>1, CoalesceHas, CoalesceSets
<1>2. DOMAIN p = 1..Len(p) /\ Len(p) \in Nat OBVIOUS
<1>3. AddsOf(C, j) = AddsOf(p, j) /\ \A n \in AddsOf(p, j) : n \in DOMAIN p /\ C[n] = p[n]
  <2>1. \A n \in AddsOf(C, j) : n \in DOMAIN p /\ C[n] = p[n] /\ n \in AddsOf(p, j)
    BY <1>1 DEF AddsOf
  <2>2. \A n \in AddsOf(p, j) : n \in DOMAIN p /\ C[n] = p[n] /\ n \in AddsOf(C, j)
    BY <1>1 DEF AddsOf
  <2> QED BY <2>1, <2>2
<1>4. Of(C, j) => Of(p, j) BY <1>1 DEF Of
<1>5. OfItem(d, j) = OfItem(c, j) /\ \A l \in OfItem(c, j) : d[l] = c[l] BY DEF SameLines
<1>6. \A l \in OfItem(c, j) \cup OfItem(s, j) : \A q : ComesTo(s, b, p, l, q) => ComesTo(s, b, C, l, q)
  BY <1>1 DEF ComesTo
<1>7. ASSUME NEW n \in AddsOf(C, j)
      PROVE  /\ C[n].line \in OfItem(d, j) /\ d[C[n].line].quantity = C[n].quantity
             /\ w = C[n].quantity
             /\ \A l \in OfItem(s, j) : On(C, l) => \E m \in 1..n : C[m].line = l
  <2>1. n \in DOMAIN p /\ C[n] = p[n] /\ n \in AddsOf(p, j) BY <1>3
  <2>2. /\ p[n].line \in OfItem(c, j) /\ c[p[n].line].quantity = p[n].quantity
        /\ w = p[n].quantity
        /\ \A l \in OfItem(s, j) : On(p, l) => \E m \in 1..n : p[m].line = l
    BY <2>1 DEF Calm
  <2>3. \A m \in 1..n : m \in DOMAIN p BY <1>2, <2>1
  <2> QED BY <1>1, <1>5, <2>1, <2>2, <2>3
<1>8. \A n \in AddsOf(b, j) :
        /\ ~Of(C, j)
        /\ b[n].line \in OfItem(d, j) /\ d[b[n].line].quantity = b[n].quantity
        /\ w = b[n].quantity
        /\ \A l \in OfItem(s, j) : \E m \in 1..n : b[m].line = l
  BY <1>4, <1>5 DEF Calm
<1>9. /\ \A k, l \in OfItem(d, j) : k = l
      /\ \A k, l \in OfItem(s, j) : k = l
      /\ \A l \in OfItem(d, j) : l > 0 => l \in OfItem(s, j) /\ ComesTo(s, b, C, l, d[l].quantity)
      /\ \A l \in OfItem(s, j) \ OfItem(d, j) : ComesTo(s, b, C, l, 0)
  BY <1>5, <1>6 DEF Calm
<1>10. \A l \in OfItem(d, j) : l < 0 =>
         /\ j \notin Configured
         /\ \/ Sets(C, l, d[l].quantity) \/ Sets(b, l, d[l].quantity)
            \/ ~On(C, l) /\ ~On(b, l) /\ OfItem(s, j) = {}
  BY <1>1, <1>5 DEF Calm
<1>11. AddsOf(b, j) \cup AddsOf(C, j) = {} =>
         /\ \A l \in OfItem(s, j) : ComesTo(s, b, C, l, w)
         /\ OfItem(s, j) = {} => w = 0
  BY <1>3, <1>6 DEF Calm
<1>12. \A n \in DOMAIN b : b[n].item = j /\ b[n].type = "removeLine" => ~On(C, b[n].line)
  BY <1>1 DEF Calm
<1> QED BY <1>7, <1>8, <1>9, <1>10, <1>11, <1>12 DEF Calm

\* What the operation of a tap makes of the item of its line.
LEMMA CalmTapped ==
  ASSUME NEW i, NEW c, Cart(c), NEW d, Cart(d), NEW s, Cart(s), \A k \in DOMAIN s : k > 0,
         NEW b \in Seq(Meant), OneEach(b), NEW p \in Seq(Meant), OneEach(p), NEW w, Calm(i, c, s, b, p, w),
         NEW l \in OfItem(c, i), l # 0, OfItem(d, i) = {l} \cap DOMAIN d,
         NEW o \in Meant, NEW C, C = Coalesce(p, o), o.line = l, o.item = i,
         o.quantity = IF l \in DOMAIN d THEN d[l].quantity ELSE 0,
         \A n \in DOMAIN p : p[n].line = l => p[n].item = i,
         \A n \in DOMAIN b : b[n].line = l => b[n].item = i,
         AddsOf(b, i) = {}
  PROVE  Calm(i, d, s, b, C, o.quantity)
<1>1. /\ l \in Int /\ c[l].quantity \in Nat \ {0}
      /\ l \in DOMAIN d => d[l].quantity \in Nat \ {0}
      /\ \A k \in OfItem(s, i) : k \in Int /\ k > 0 /\ s[k].quantity \in Nat \ {0}
  BY DEF Cart, OfItem, Line
<1>2. /\ \A k \in OfItem(c, i) : k = l
      /\ \A k, m \in OfItem(s, i) : k = m
      /\ l > 0 => l \in OfItem(s, i) /\ ComesTo(s, b, p, l, c[l].quantity)
      /\ \A k \in OfItem(s, i) \ {l} : ComesTo(s, b, p, k, 0)
      /\ l < 0 => /\ i \notin Configured
                  /\ \/ Sets(p, l, c[l].quantity) \/ Sets(b, l, c[l].quantity)
                     \/ ~On(p, l) /\ ~On(b, l) /\ OfItem(s, i) = {}
  BY DEF Calm
<1>3. /\ On(C, l) /\ Sets(C, l, o.quantity)
      /\ \A k : k # l => /\ On(C, k) <=> On(p, k)
                         /\ \A q : Sets(C, k, q) <=> Sets(p, k, q)
  BY CoalesceSets
<1>4. /\ DOMAIN p = 1..Len(p) /\ Len(p) \in Nat
      /\ \A n \in DOMAIN p : p[n].line \in Int /\ (p[n].type = "addItem" => p[n].line < 0)
      /\ \A n \in DOMAIN b : /\ b[n].line \in Int /\ (b[n].quantity = 0 <=> b[n].type = "removeLine")
                             /\ b[n].type = "setQuantity" => b[n].line >= 0
                             /\ b[n].type \in {"addItem", "setQuantity", "removeLine"}
  <2>1. \A m \in Meant : /\ m.line \in Int /\ (m.quantity = 0 <=> m.type = "removeLine")
                         /\ m.type = "setQuantity" => m.line >= 0
                         /\ m.type = "addItem" => m.line < 0
                         /\ m.type \in {"addItem", "setQuantity", "removeLine"}
    BY DEF Meant, Operation
  <2>2. \A n \in DOMAIN p : p[n] \in Meant OBVIOUS
  <2>3. \A n \in DOMAIN b : b[n] \in Meant OBVIOUS
  <2> QED BY <2>1, <2>2, <2>3
<1>5. /\ \A n \in DOMAIN p : n \in DOMAIN C /\ C[n].line = p[n].line
      /\ \A n \in DOMAIN C :
              \/ /\ C[n].line = l /\ C[n].type = o.type /\ C[n].quantity = o.quantity
                 /\ C[n].item = i
                 /\ n \in DOMAIN p \/ (~On(p, l) /\ DOMAIN p \subseteq 1..n)
              \/ n \in DOMAIN p /\ C[n] = p[n] /\ C[n].line # l
  BY CoalesceHas
<1>6. o.type = "addItem" => l < 0 /\ l \in DOMAIN d
  BY <1>1 DEF Meant
<1>7. \A n \in AddsOf(p, i) : /\ n \in DOMAIN p /\ p[n].line = l
                              /\ \A k \in OfItem(s, i) : On(p, k) => \E m \in 1..n : p[m].line = k
  BY <1>2 DEF Calm, AddsOf
<1>8. \A n \in AddsOf(C, i) : /\ n \in DOMAIN C /\ C[n].line = l /\ C[n].quantity = o.quantity
                              /\ o.type = "addItem"
                              /\ n \in DOMAIN p \/ (~On(p, l) /\ DOMAIN p \subseteq 1..n)
  BY <1>5, <1>7 DEF AddsOf
\* Nothing of the line is under way, unless it is the server's.
<1>9. l < 0 => ~Sets(b, l, c[l].quantity)
  <2> SUFFICES ASSUME l < 0, NEW n \in DOMAIN b, b[n].line = l, b[n].quantity = c[l].quantity PROVE FALSE
    BY DEF Sets
  <2>1. b[n].type = "addItem" BY <1>1, <1>4
  <2> QED BY <2>1 DEF AddsOf
<1>10. l < 0 => /\ i \notin Configured
                /\ \/ \E n \in DOMAIN p : p[n].line = l /\ p[n].quantity = c[l].quantity
                   \/ OfItem(s, i) = {}
  BY <1>2, <1>9 DEF Sets
\* So an addition of the line comes after all else.
<1>11. ASSUME NEW n \in AddsOf(C, i), NEW k \in OfItem(s, i)
       PROVE  On(C, k) => \E m \in 1..n : C[m].line = k
  <2>1. l < 0 /\ OfItem(s, i) # {} BY <1>6, <1>8
  <2>2. PICK m \in DOMAIN p : p[m].line = l /\ p[m].quantity = c[l].quantity BY <1>10, <2>1
  <2>3. p[m].item = i /\ p[m].type = "addItem"
    <3>1. p[m] \in Meant OBVIOUS
    <3> QED BY <1>1, <2>1, <2>2, <3>1 DEF Meant, Operation
  <2>4. m \in AddsOf(p, i) BY <2>3 DEF AddsOf
  <2>5. C[m].line = l /\ OneEach(C) BY <1>5, <2>2, CoalesceHas
  <2>6. m = n BY <1>5, <1>8, <2>5 DEF OneEach
  <2>7. \A x \in 1..m : x \in DOMAIN p /\ C[x].line = p[x].line BY <1>4, <1>5
  <2>8. On(C, k) => On(p, k) BY <1>1, <1>3, <2>1
  <2> QED BY <1>7, <2>4, <2>6, <2>7, <2>8
<1>12. \A n \in AddsOf(C, i) :
         /\ C[n].line \in OfItem(d, i) /\ d[C[n].line].quantity = C[n].quantity
         /\ o.quantity = C[n].quantity
  BY <1>6, <1>8
<1>13. \A k \in OfItem(s, i) \ {l} : \A q : ComesTo(s, b, p, k, q) => ComesTo(s, b, C, k, q)
  BY <1>3 DEF ComesTo
<1>14. ComesTo(s, b, C, l, o.quantity) BY <1>3 DEF ComesTo
<1>15. /\ \A k, m \in OfItem(d, i) : k = m
       /\ \A k \in OfItem(d, i) : k > 0 => k \in OfItem(s, i) /\ ComesTo(s, b, C, k, d[k].quantity)
       /\ \A k \in OfItem(s, i) \ OfItem(d, i) : ComesTo(s, b, C, k, 0)
  BY <1>2, <1>13, <1>14
<1>16. \A k \in OfItem(d, i) : k < 0 =>
         /\ i \notin Configured
         /\ \/ Sets(C, k, d[k].quantity) \/ Sets(b, k, d[k].quantity)
            \/ ~On(C, k) /\ ~On(b, k) /\ OfItem(s, i) = {}
  BY <1>2, <1>3
<1>17. AddsOf(C, i) = {} =>
         /\ \A k \in OfItem(s, i) : ComesTo(s, b, C, k, o.quantity)
         /\ OfItem(s, i) = {} => o.quantity = 0
  <2> SUFFICES ASSUME AddsOf(C, i) = {}
               PROVE  /\ \A k \in OfItem(s, i) : ComesTo(s, b, C, k, o.quantity)
                      /\ OfItem(s, i) = {} => o.quantity = 0
    OBVIOUS
  <2>1. o.type # "addItem"
    <3>1. PICK n \in DOMAIN C : C[n].line = l BY CoalesceHas
    <3>2. C[n].type = o.type /\ C[n].item = i BY <1>5, <3>1
    <3> QED BY <3>1, <3>2 DEF AddsOf
  <2>2. CASE l > 0
    <3>1. OfItem(s, i) = {l} BY <1>2, <2>2
    <3> QED BY <1>14, <3>1
  <2>3. CASE l < 0
    <3>1. o.type = "removeLine" /\ o.quantity = 0 BY <2>1, <2>3 DEF Meant, Operation
    <3>2. \A k \in OfItem(s, i) : k # l BY <1>1, <2>3
    <3> QED BY <1>2, <1>13, <3>1, <3>2
  <2> QED BY <1>1, <2>2, <2>3
<1>18. \A n \in DOMAIN b : b[n].item = i /\ b[n].type = "removeLine" => ~On(C, b[n].line)
  <2> SUFFICES ASSUME NEW n \in DOMAIN b, b[n].item = i, b[n].type = "removeLine"
               PROVE  ~On(C, b[n].line)
    OBVIOUS
  <2>1. ~On(p, b[n].line) BY DEF Calm
  <2>2. b[n].line # l
    <3> SUFFICES ASSUME b[n].line = l PROVE FALSE OBVIOUS
    <3>1. CASE l > 0
      <4>1. Sets(b, l, c[l].quantity) BY <1>2, <2>1, <3>1 DEF ComesTo, On
      <4>2. PICK m \in DOMAIN b : b[m].line = l /\ b[m].quantity = c[l].quantity BY <4>1 DEF Sets
      <4>3. m = n BY <4>2 DEF OneEach
      <4> QED BY <1>1, <1>4, <4>2, <4>3
    <3>2. CASE l < 0
      <4>1. On(b, l) BY DEF On
      <4>2. PICK m \in DOMAIN p : p[m].line = l BY <1>2, <1>9, <2>1, <3>2, <4>1 DEF Sets
      <4> QED BY <2>1, <4>2 DEF On
    <3> QED BY <1>1, <3>1, <3>2
  <2> QED BY <1>3, <2>1, <2>2
<1> QED BY <1>2, <1>11, <1>12, <1>15, <1>16, <1>17, <1>18 DEF Calm

\* A new line is added after all else.
LEMMA CalmAdded ==
  ASSUME NEW i, i \notin Configured, NEW c, Cart(c), NEW d, Cart(d), NEW s, Cart(s),
         NEW b \in Seq(Meant), NEW p \in Seq(Meant), OneEach(p), NEW w, Calm(i, c, s, b, p, w),
         OfItem(c, i) = {}, NEW l \in Int, l < 0, OfItem(d, i) = {l}, ~On(p, l), ~On(b, l),
         l \notin OfItem(s, i),
         NEW o \in Meant, NEW C, C = Coalesce(p, o), o.line = l, o.item = i, o.type = "addItem",
         o.quantity = d[l].quantity, AddsOf(b, i) = {}
  PROVE  Calm(i, d, s, b, C, o.quantity)
<1>1. \A k \in OfItem(s, i) : k # l /\ s[k].quantity # 0 BY DEF Cart, OfItem, Line
<1>2. /\ \A k, m \in OfItem(s, i) : k = m
      /\ \A k \in OfItem(s, i) : ComesTo(s, b, p, k, 0)
      /\ AddsOf(p, i) = {}
  BY DEF Calm
<1>3. /\ On(C, l) /\ Sets(C, l, o.quantity)
      /\ \A k : k # l => /\ On(C, k) <=> On(p, k)
                         /\ \A q : Sets(C, k, q) <=> Sets(p, k, q)
  BY CoalesceSets
<1>4. /\ \A n \in DOMAIN p : n \in DOMAIN C /\ C[n].line = p[n].line
      /\ \A n \in DOMAIN C :
              \/ /\ C[n].line = l /\ C[n].type = o.type /\ C[n].quantity = o.quantity
                 /\ C[n].item = i
                 /\ n \in DOMAIN p \/ (~On(p, l) /\ DOMAIN p \subseteq 1..n)
              \/ n \in DOMAIN p /\ C[n] = p[n] /\ C[n].line # l
      /\ \E n \in DOMAIN C : C[n].line = l
  BY CoalesceHas
<1>5. \A n \in DOMAIN p : ~(p[n].line = l) BY DEF On
<1>6. \A n \in AddsOf(C, i) : C[n].line = l /\ C[n].quantity = o.quantity /\ DOMAIN p \subseteq 1..n
  BY <1>2, <1>4, <1>5 DEF AddsOf
<1>7. AddsOf(C, i) # {} BY <1>4 DEF AddsOf
<1>8. ASSUME NEW n \in AddsOf(C, i), NEW k \in OfItem(s, i)
      PROVE  On(C, k) => \E m \in 1..n : C[m].line = k
  <2>1. On(C, k) => On(p, k) BY <1>1, <1>3
  <2>2. CASE On(p, k)
    <3>1. PICK m \in DOMAIN p : p[m].line = k BY <2>2 DEF On
    <3>2. m \in 1..n /\ C[m].line = k BY <1>4, <1>6, <3>1
    <3> QED BY <3>2
  <2> QED BY <2>1, <2>2
<1>9. \A k \in OfItem(s, i) : \A q : ComesTo(s, b, p, k, q) => ComesTo(s, b, C, k, q)
  BY <1>1, <1>3 DEF ComesTo
<1>10. \A n \in DOMAIN b : b[n].item = i /\ b[n].type = "removeLine" => ~On(C, b[n].line)
  <2> SUFFICES ASSUME NEW n \in DOMAIN b, b[n].item = i, b[n].type = "removeLine"
               PROVE  ~On(C, b[n].line)
    OBVIOUS
  <2>1. ~On(p, b[n].line) BY DEF Calm
  <2>2. b[n].line # l BY DEF On
  <2> QED BY <1>3, <2>1, <2>2
<1> QED BY <1>2, <1>3, <1>6, <1>7, <1>8, <1>9, <1>10 DEF Calm

\* What an item is kept by, after a step.
LEMMA IsKeptNext ==
  ASSUME NEW i \in Item,
         DialogOf(i)' => CalmDialog(i, shown, server, Head(queue)[1], wanted[i])',
         ~DialogOf(i)' => \/ Calm(i, shown', server', Coming', pending', wanted'[i])
                          \/ /\ AtServer' /\ AddsOf(batch', i) # {}
                             /\ JustAdded(i, shown', server', pending', wanted'[i]),
         Dialog' /\ phase' # "answered" /\ ~DialogOf(i)' => CanGoBack(i, answer, server)'
  PROVE  IsKept(i)'
BY DEF IsKept

LEMMA KeepingNext ==
  ASSUME phase' = "lost" => contended' = Item,
         contended' # Item =>
           IdsAreApart' /\ OneEach(pending') /\ OneEach(batch'),
         \A i \in Item \ contended' : IsKept(i)'
  PROVE  Keeping'
BY DEF Keeping

\* An id stays one.
LEMMA IdStays ==
  ASSUME NEW a \in Nat, NEW b \in Nat, NEW c \in Nat, NEW d \in Nat, c >= a, d >= b,
         NEW l \in (-a)..b \ {0}
  PROVE  l \in (-c)..d \ {0}
OBVIOUS

\* The ids stay apart when no name is new, or only those of one line that none had.
LEMMA ApartNext ==
  ASSUME IdsAreApart, taps \in Nat, made \in Nat, taps' \in Nat, made' \in Nat,
         taps' >= taps, made' >= made,
         NEW n \in (-taps')..made' \ {0}, NEW i \in Item, \A j \in Item : Names(n, j) => j = i,
         \A l \in Int, j \in Item : Names(l, j)' => Names(l, j) \/ (l = n /\ j = i)
  PROVE  IdsAreApart'
<1> SUFFICES ASSUME NEW l \in Int, NEW j \in Item, Names(l, j)'
             PROVE  l \in (-taps')..made' \ {0} /\ \A k \in Item : Names(l, k)' => j = k
  BY DEF IdsAreApart
<1>1. CASE l = n BY <1>1
<1>2. CASE l # n
  <2>1. Names(l, j) BY <1>2
  <2>2. l \in (-taps)..made \ {0} BY <2>1 DEF IdsAreApart
  <2>3. \A k \in Item : Names(l, k) => j = k BY <2>1 DEF IdsAreApart
  <2>4. l \in (-taps')..made' \ {0} BY <2>2, IdStays
  <2>5. ASSUME NEW k \in Item, Names(l, k)' PROVE j = k
    <3>1. Names(l, k) BY <1>2, <2>5
    <3> QED BY <2>3, <3>1
  <2> QED BY <2>4, <2>5
<1> QED BY <1>1, <1>2

\* When no name is new at all.
LEMMA ApartStay ==
  ASSUME IdsAreApart, taps \in Nat, made \in Nat, taps' \in Nat, made' \in Nat,
         taps' >= taps, made' >= made,
         \A l \in Int, j \in Item : Names(l, j)' => Names(l, j)
  PROVE  IdsAreApart'
<1> SUFFICES ASSUME NEW l \in Int, NEW j \in Item, Names(l, j)'
             PROVE  l \in (-taps')..made' \ {0} /\ \A k \in Item : Names(l, k)' => j = k
  BY DEF IdsAreApart
<1>1. Names(l, j) OBVIOUS
<1>2. l \in (-taps)..made \ {0} BY <1>1 DEF IdsAreApart
<1>3. \A k \in Item : Names(l, k) => j = k BY <1>1 DEF IdsAreApart
<1>4. l \in (-taps')..made' \ {0} BY <1>2, IdStays
<1>5. ASSUME NEW k \in Item, Names(l, k)' PROVE j = k
  <2>1. Names(l, k) BY <1>5
  <2> QED BY <1>3, <2>1
<1> QED BY <1>4, <1>5

\* A tap keeps what it was, of every item.
LEMMA TapKeeps ==
  ASSUME Typing, Typing', Keeping, Add \/ Increment \/ Decrement \/ RemoveLine
  PROVE  Keeping'
<1>1. PICK c, l, i : /\ Cart(c) /\ l \in Int /\ i \in Item
                     /\ OthersStay(c, l) /\ IsTapped(c, l, i) /\ Schedule(c, l, i)
  BY TapIsTyped
<1> DEFINE o == OperationFor(c, l, i)
           C == Coalesce(pending, o)
<1>2. /\ shown' = c /\ pending' = C /\ taps' = taps + 1
      /\ wanted' = [wanted EXCEPT ![i] = Quantity(c, i)]
      /\ contended' = IF AddUnderWay(i) THEN contended \cup {i} ELSE contended
      /\ UNCHANGED <<batch, server, made, queue, phase, answer>>
  BY <1>1 DEF Schedule
<1>3. /\ o \in Meant /\ o.line = l /\ o.item = i
      /\ o.quantity = IF l \in DOMAIN c THEN c[l].quantity ELSE 0
      /\ o.type = IF l \notin DOMAIN c THEN "removeLine" ELSE IF l < 0 THEN "addItem" ELSE "setQuantity"
  BY <1>1, OperationIs DEF OperationFor
<1> HIDE DEF o
<1>4. /\ taps \in Nat /\ made \in Nat /\ contended' \subseteq Item /\ wanted \in [Item -> Nat]
      /\ pending \in Seq(Meant) /\ batch \in Seq(Meant) /\ Cart(shown) /\ Cart(server)
      /\ C \in Seq(Meant)
  BY <1>2, TypingParts, CartSyncAssumption DEF Typing, TypeOK
<1> SUFFICES ASSUME contended' # Item
             PROVE  IdsAreApart' /\ OneEach(pending') /\ OneEach(batch') /\ \A j \in Item \ contended' : IsKept(j)'
  <2>1. contended \subseteq Item BY DEF Typing, TypeOK
  <2>2. phase' = "lost" => contended' = Item BY <1>2, <1>4, <2>1 DEF Keeping
  <2> QED BY <2>2, KeepingNext
<1>5. /\ contended # Item /\ contended \subseteq contended' /\ IdsAreApart /\ OneEach(pending) /\ OneEach(batch)
      /\ \A j \in Item \ contended' : IsKept(j) /\ (j = i => ~AddUnderWay(i))
  BY <1>1, <1>2, <1>4 DEF Keeping
\* The line is this item's alone.
<1>6. /\ \A j \in Item : Names(l, j) => j = i
      /\ l \in (-taps')..made' \ {0}
  <2>1. CASE l \in OfItem(shown, i)
    <3>1. Names(l, i) BY <2>1 DEF Names
    <3>2. l \in (-taps)..made \ {0} BY <1>1, <1>5, <3>1 DEF IdsAreApart
    <3>3. \A j \in Item : Names(l, j) => i = j BY <1>1, <1>5, <3>1 DEF IdsAreApart
    <3> QED BY <1>2, <1>4, <3>2, <3>3
  <2>2. CASE l = -(taps + 1)
    <3>1. l \notin (-taps)..made BY <1>4, <2>2
    <3>2. \A j \in Item : ~Names(l, j) BY <1>1, <1>5, <3>1 DEF IdsAreApart
    <3> QED BY <1>2, <1>4, <2>2, <3>2
  <2> QED BY <1>1, <2>1, <2>2 DEF IsTapped
<1>7. /\ OneEach(C)
      /\ \A n \in DOMAIN pending : n \in DOMAIN C /\ C[n].line = pending[n].line
      /\ \A n \in DOMAIN C :
              \/ C[n].line = l /\ C[n].item = i
              \/ n \in DOMAIN pending /\ C[n] = pending[n] /\ C[n].line # l
  <2> HIDE DEF C
  <2>1. C = Coalesce(pending, o) BY DEF C
  <2> QED BY <1>3, <1>4, <1>5, <2>1, CoalesceHas
<1> HIDE DEF C
<1>8. \A k \in Int \ {l} : /\ k \in DOMAIN c <=> k \in DOMAIN shown
                           /\ k \in DOMAIN c => c[k] = shown[k]
  BY <1>1 DEF OthersStay
<1>9. DOMAIN c \subseteq Int /\ DOMAIN shown \subseteq Int BY <1>1, <1>4 DEF Cart
<1>10. IdsAreApart'
  <2>1. ASSUME NEW k \in Int, NEW j \in Item, Names(k, j)' PROVE Names(k, j) \/ (k = l /\ j = i)
    <3>1. CASE k \in OfItem(c, j)
      <4>1. k = l => j = i BY <1>1, <3>1 DEF IsTapped, OfItem
      <4>2. k # l => k \in OfItem(shown, j) BY <1>8, <3>1 DEF OfItem
      <4> QED BY <4>1, <4>2 DEF Names
    <3>2. CASE \E n \in DOMAIN C : C[n].line = k /\ C[n].item = j
      <4>1. PICK n \in DOMAIN C : C[n].line = k /\ C[n].item = j BY <3>2
      <4>2. CASE C[n].line = l /\ C[n].item = i BY <4>1, <4>2
      <4>3. CASE n \in DOMAIN pending /\ C[n] = pending[n] BY <4>1, <4>3 DEF Names
      <4> QED BY <1>7, <4>1, <4>2, <4>3
    <3> QED BY <1>2, <2>1, <3>1, <3>2 DEF Names
  <2>2. \A k \in Int, j \in Item : Names(k, j)' => Names(k, j) \/ (k = l /\ j = i) BY <2>1
  <2>3. taps' \in Nat /\ made' \in Nat /\ taps' >= taps /\ made' >= made BY <1>2, <1>4
  <2>4. l \in (-taps')..made' \ {0} /\ \A j \in Item : Names(l, j) => j = i BY <1>6
  <2>5. i \in Item /\ IdsAreApart /\ taps \in Nat /\ made \in Nat BY <1>1, <1>4, <1>5
  <2> QED BY <2>2, <2>3, <2>4, <2>5, ApartNext, Zenon
<1>11. OneEach(pending') /\ OneEach(batch') BY <1>2, <1>5, <1>7
<1>12. /\ Dialog' = Dialog /\ AtServer' = AtServer /\ Coming' = Coming
       /\ \A j : DialogOf(j)' = DialogOf(j)
  BY <1>2 DEF Dialog, AtServer, Coming, DialogOf
<1>13. \A k : On(pending, k) => On(pending', k) BY <1>2, <1>7 DEF On
<1>14. ASSUME NEW j \in Item \ contended', Dialog, phase # "answered", ~DialogOf(j)
       PROVE  CanGoBack(j, answer, server)'
  <2>1. CanGoBack(j, answer, server) BY <1>5, <1>14 DEF IsKept
  <2> QED BY <1>2, <1>13, <2>1 DEF CanGoBack
<1>15. ASSUME NEW j \in Item \ contended', j # i PROVE IsKept(j)'
  <2>1. SameLines(shown, c, j) /\ l \notin OfItem(shown, j) \cup OfItem(server, j)
    <3>1. ~Names(l, j) BY <1>6, <1>15
    <3>2. l \notin OfItem(shown, j) \cup OfItem(server, j) BY <3>1 DEF Names
    <3>3. \A k : k \in OfItem(c, j) => k # l BY <1>1, <1>15 DEF IsTapped, OfItem
    <3>4. \A k : k \in OfItem(c, j) <=> k \in OfItem(shown, j)
      BY <1>8, <1>9, <3>2, <3>3 DEF OfItem
    <3>5. \A k \in OfItem(shown, j) : c[k] = shown[k] BY <1>8, <1>9, <3>2, <3>4 DEF OfItem
    <3> QED BY <3>2, <3>4, <3>5 DEF SameLines
  <2>2. wanted'[j] = wanted[j] BY <1>2, <1>4, <1>15
  <2>3. ~Of(pending, j) => ~Of(pending', j) BY <1>2, <1>7, <1>15 DEF Of
  <2>4. ASSUME DialogOf(j) PROVE CalmDialog(j, shown, server, Head(queue)[1], wanted[j])'
    <3>1. CalmDialog(j, shown, server, Head(queue)[1], wanted[j]) BY <1>5, <2>4 DEF IsKept
    <3> QED BY <1>2, <2>1, <2>2, <2>3, <3>1 DEF CalmDialog, SameLines
  <2>5. ASSUME Calm(j, shown, server, Coming, pending, wanted[j])
        PROVE  Calm(j, shown', server', Coming', pending', wanted'[j])
    <3>1. ~Names(l, j) BY <1>6, <1>15
    <3>2. \A n \in DOMAIN pending : pending[n].line = l => pending[n].item # j BY <3>1 DEF Names
    <3>3. \A n \in DOMAIN Coming : Coming[n].line = l => Coming[n].item # j
      BY <3>1 DEF Names, Coming
    <3>4. C = Coalesce(pending, o) BY DEF C
    <3>5. o \in Meant /\ o.item # j BY <1>3, <1>15
    <3>6. /\ \A n \in DOMAIN pending : pending[n].line = o.line => pending[n].item # j
          /\ \A n \in DOMAIN Coming : Coming[n].line = o.line => Coming[n].item # j
          /\ o.line \notin OfItem(shown, j) \cup OfItem(server, j)
      BY <1>3, <2>1, <3>2, <3>3
    <3>7. SameLines(shown, c, j) /\ pending \in Seq(Meant) /\ OneEach(pending) BY <1>4, <1>5, <2>1
    <3>8. Calm(j, c, server, Coming, C, wanted[j])
      BY <2>5, <3>4, <3>5, <3>6, <3>7, CalmElsewhere
    <3> QED BY <1>2, <1>12, <2>2, <3>8
  <2>6. ASSUME JustAdded(j, shown, server, pending, wanted[j])
        PROVE  JustAdded(j, shown', server', pending', wanted'[j])
    <3>1. /\ ~Of(pending', j) /\ j \notin Configured
          /\ OfItem(c, j) = OfItem(shown, j) /\ \A k \in OfItem(shown, j) : c[k] = shown[k]
      BY <2>1, <2>3, <2>6 DEF JustAdded, SameLines
    <3>2. PICK k \in Int, m \in Int :
             /\ OfItem(shown, j) = {m} /\ OfItem(server, j) = {k} /\ m < 0
             /\ shown[m].quantity = wanted[j] /\ server[k].quantity = wanted[j]
      BY <2>6 DEF JustAdded
    <3>3. OfItem(c, j) = {m} /\ c[m].quantity = wanted[j] BY <3>1, <3>2
    <3> QED BY <1>2, <2>2, <3>1, <3>2, <3>3 DEF JustAdded
  <2>7. IsKept(j) BY <1>5
  <2> QED BY <1>2, <1>12, <1>14, <2>4, <2>5, <2>6, <2>7, IsKeptNext DEF IsKept
<1>16. ASSUME i \notin contended' PROVE IsKept(i)'
  <2>1. ~AddUnderWay(i) /\ IsKept(i) BY <1>1, <1>5, <1>16
  <2>2. ~DialogOf(i) /\ AddsOf(batch, i) = {} BY <2>1 DEF AddUnderWay, DialogOf, Dialog, AddsOf
  <2>3. Calm(i, shown, server, Coming, pending, wanted[i]) BY <2>1, <2>2 DEF IsKept
  <2>4. Coming \in Seq(Meant) /\ OneEach(Coming) /\ AddsOf(Coming, i) = {}
    BY <1>4, <1>5, <2>2, NoneInEmpty DEF Coming
  <2>5. \A n \in DOMAIN pending : pending[n].line = l => pending[n].item = i
    <3> SUFFICES ASSUME NEW n \in DOMAIN pending, pending[n].line = l PROVE pending[n].item = i OBVIOUS
    <3>1. pending[n].item \in Item BY <1>4 DEF Meant, Operation
    <3>2. Names(l, pending[n].item) BY DEF Names
    <3> QED BY <1>6, <3>1, <3>2
  <2>6. \A n \in DOMAIN Coming : Coming[n].line = l => Coming[n].item = i
    <3> SUFFICES ASSUME NEW n \in DOMAIN Coming, Coming[n].line = l PROVE Coming[n].item = i OBVIOUS
    <3>1. n \in DOMAIN batch /\ Coming[n] = batch[n] BY DEF Coming
    <3>2. batch[n].item \in Item BY <1>4, <3>1 DEF Meant, Operation
    <3>3. Names(l, batch[n].item) BY <3>1 DEF Names
    <3> QED BY <1>6, <3>1, <3>2, <3>3
  <2>7. C = Coalesce(pending, o) BY DEF C
  <2>8. \A k \in DOMAIN server : k > 0 BY LinesTyped
  <2>9. Quantity(c, i) = o.quantity /\ Calm(i, c, server, Coming, C, o.quantity)
    <3>1. CASE l \in OfItem(shown, i)
      <4>1. OfItem(shown, i) = {l} BY <2>3, <3>1 DEF Calm
      <4>2. OfItem(c, i) = {l} \cap DOMAIN c
        <5>1. \A k : k \in OfItem(c, i) => k = l /\ k \in DOMAIN c BY <1>8, <1>9, <4>1 DEF OfItem
        <5>2. l \in DOMAIN c => l \in OfItem(c, i) BY <1>1 DEF IsTapped, OfItem
        <5> QED BY <5>1, <5>2
      <4>3. Calm(i, c, server, Coming, C, o.quantity)
        <5>1. Cart(c) /\ Cart(shown) /\ Cart(server) /\ pending \in Seq(Meant) /\ OneEach(pending)
          BY <1>1, <1>4, <1>5
        <5>2. l # 0 BY <1>6
        <5>3. o \in Meant /\ o.line = l /\ o.item = i
              /\ o.quantity = IF l \in DOMAIN c THEN c[l].quantity ELSE 0
          BY <1>3
        <5> QED BY <2>3, <2>4, <2>5, <2>6, <2>7, <2>8, <3>1, <4>2, <5>1, <5>2, <5>3, CalmTapped
      <4>4. l \in DOMAIN c => OfItem(c, i) = {l} BY <4>2
      <4>5. l \notin DOMAIN c => OfItem(c, i) = {} BY <4>2
      <4> QED BY <1>1, <1>3, <4>3, <4>4, <4>5, QuantityOfFew
    <3>2. CASE OfItem(shown, i) = {} /\ i \notin Configured /\ l = -(taps + 1) /\ l \in DOMAIN c
      <4>1. OfItem(c, i) = {l}
        <5>1. \A k : k \in OfItem(c, i) => k = l BY <1>8, <1>9, <3>2 DEF OfItem
        <5>2. l \in OfItem(c, i) BY <1>1, <3>2 DEF IsTapped, OfItem
        <5> QED BY <5>1, <5>2
      <4>2. l < 0 /\ ~Names(l, i)
        <5>1. l \notin (-taps)..made BY <1>4, <3>2
        <5> QED BY <1>1, <1>4, <1>5, <3>2, <5>1 DEF IdsAreApart
      <4>3. ~On(pending, l) /\ ~On(Coming, l) /\ l \notin OfItem(server, i)
        BY <2>5, <2>6, <4>2 DEF On, Names, Coming
      <4>4. o.type = "addItem" /\ o.quantity = c[l].quantity BY <1>3, <3>2, <4>2
      <4>5. Calm(i, c, server, Coming, C, o.quantity)
        BY <1>1, <1>3, <1>4, <1>5, <2>3, <2>4, <2>7, <3>2, <4>1, <4>2, <4>3, <4>4, CalmAdded
      <4> QED BY <1>1, <4>1, <4>4, <4>5, QuantityOfFew
    <3> QED BY <1>1, <3>1, <3>2 DEF IsTapped
  <2>10. wanted'[i] = o.quantity BY <1>1, <1>2, <1>4, <2>9
  <2>11. Calm(i, shown', server', Coming', pending', wanted'[i]) BY <1>2, <1>12, <2>9, <2>10
  <2> QED BY <1>1, <1>2, <1>12, <1>14, <1>16, <2>2, <2>11, IsKeptNext
<1> QED BY <1>10, <1>11, <1>15, <1>16

\* What joins the queue is behind its first, if it has one.
LEMMA HeadStays ==
  ASSUME Typing, QueueHasBatch, NEW e \in Element, queue' = queue \/ queue' = Append(queue, e), phase' = phase
  PROVE  /\ queue # <<>> => queue' # <<>> /\ Head(queue') = Head(queue)
         /\ Dialog' = Dialog /\ AtServer' = AtServer
         /\ \A i : DialogOf(i)' = DialogOf(i)
         /\ Dialog => Head(queue') = Head(queue)
         /\ \A x : (\E n \in DOMAIN queue' : queue'[n] = x) => x = e \/ \E n \in DOMAIN queue : queue[n] = x
<1>1. queue \in Seq(Element) BY QueueIs
<1>2. CASE queue' = queue BY <1>2 DEF Dialog, AtServer, DialogOf
<1>3. CASE queue' = Append(queue, e)
  <2>1. /\ queue' \in Seq(Element) /\ queue' # <<>> /\ \A n \in 1..Len(queue) : queue'[n] = queue[n]
        /\ Len(queue') = Len(queue) + 1 /\ queue'[Len(queue) + 1] = e
    BY <1>1, <1>3, AppendProperties
  <2>2. Head(queue') = queue'[1] /\ Len(queue) \in Nat /\ DOMAIN queue = 1..Len(queue) BY <1>1, <2>1
  <2>3. queue # <<>> => 1 \in 1..Len(queue) /\ Head(queue) = queue[1] BY <1>1, LenProperties, EmptySeq
  <2>4. queue # <<>> => queue' # <<>> /\ Head(queue') = Head(queue) BY <2>1, <2>2, <2>3
  <2>5. DOMAIN queue' = 1..(Len(queue) + 1) BY <2>1
  <2>6. \A n \in 1..(Len(queue) + 1) : n = Len(queue) + 1 \/ n \in 1..Len(queue) BY <2>2
  <2>7. \A x : (\E n \in DOMAIN queue' : queue'[n] = x) => x = e \/ \E n \in DOMAIN queue : queue[n] = x
    BY <2>1, <2>2, <2>5, <2>6
  <2>8. queue = <<>> => phase = "start" BY DEF QueueHasBatch
  <2>9. Dialog' = Dialog /\ AtServer' = AtServer /\ \A i : DialogOf(i)' = DialogOf(i)
    BY <2>1, <2>4, <2>8 DEF Dialog, AtServer, DialogOf
  <2> QED BY <2>4, <2>7, <2>9 DEF Dialog
<1> QED BY <1>2, <1>3

\* A step that changes none of what an item is kept by.
LEMMA IsKeptStays ==
  ASSUME NEW i \in Item, IsKept(i), UNCHANGED <<shown, server, answer, pending, batch, phase>>,
         wanted'[i] = wanted[i],
         Dialog' = Dialog, AtServer' = AtServer, \A j : DialogOf(j)' = DialogOf(j),
         Dialog => Head(queue') = Head(queue)
  PROVE  IsKept(i)'
<1>1. Coming' = Coming BY DEF Coming
<1>2. DialogOf(i) => CalmDialog(i, shown, server, Head(queue)[1], wanted[i])'
  <2> SUFFICES ASSUME DialogOf(i) PROVE CalmDialog(i, shown, server, Head(queue)[1], wanted[i])' OBVIOUS
  <2>1. CalmDialog(i, shown, server, Head(queue)[1], wanted[i]) BY DEF IsKept
  <2>2. Head(queue') = Head(queue) BY DEF DialogOf
  <2> QED BY <2>1, <2>2 DEF CalmDialog
<1>3. Dialog /\ phase # "answered" /\ ~DialogOf(i) => CanGoBack(i, answer, server)'
  BY DEF IsKept, CanGoBack
<1> QED BY <1>1, <1>2, <1>3, IsKeptNext DEF IsKept

\* A dialog that begins keeps what it was, of every item.
LEMMA ConfigureKeeps ==
  ASSUME Typing, Typing', QueueHasBatch, Keeping, Configure
  PROVE  Keeping'
<1>1. PICK i \in Configured : queue' = Append(queue, <<-(taps + 1), i>>) BY DEF Configure
<1> DEFINE l == -(taps + 1)
           e == <<l, i>>
<1>2. /\ taps' = taps + 1
      /\ UNCHANGED <<shown, server, made, answer, pending, batch, phase, wanted, contended>>
  BY DEF Configure, page, history
<1>3. taps \in Nat /\ made \in Nat /\ i \in Item BY LeavingTyped, CartSyncAssumption DEF Typing
<1>4. e \in Element /\ e # Batch BY <1>3 DEF Element, Batch
<1>5. /\ Dialog' = Dialog /\ AtServer' = AtServer
      /\ \A j : DialogOf(j)' = DialogOf(j)
      /\ Dialog => Head(queue') = Head(queue)
      /\ \A x : (\E n \in DOMAIN queue' : queue'[n] = x) => x = e \/ \E n \in DOMAIN queue : queue[n] = x
  <2>1. queue' = Append(queue, e) BY <1>1
  <2> HIDE DEF e
  <2> QED BY <1>2, <1>4, <2>1, HeadStays
<1>6. ASSUME contended # Item PROVE IdsAreApart'
  <2>1. IdsAreApart BY <1>6 DEF Keeping
  <2>2. l \in (-taps')..made' \ {0} /\ l \notin (-taps)..made BY <1>2, <1>3
  <2>3. \A j \in Item : Names(l, j) => j = i BY <1>3, <2>1, <2>2 DEF IdsAreApart
  <2>4. \A k \in Int, j \in Item : Names(k, j)' => Names(k, j) \/ (k = l /\ j = i)
    <3> TAKE k \in Int, j \in Item
    <3>1. (\E n \in DOMAIN queue' : queue'[n] = <<k, j>>) =>
             (k = l /\ j = i) \/ \E n \in DOMAIN queue : queue[n] = <<k, j>>
      <4>1. <<k, j>> = e => k = l /\ j = i OBVIOUS
      <4> HIDE DEF e
      <4> QED BY <1>5, <4>1
    <3> HIDE DEF e, l
    <3> QED BY <1>2, <3>1 DEF Names
  <2>5. taps' \in Nat /\ made' \in Nat /\ taps' >= taps /\ made' >= made BY <1>2, <1>3
  <2>6. PICK n : n = l OBVIOUS
  <2> HIDE DEF l
  <2>7. /\ n \in (-taps')..made' \ {0} /\ \A j \in Item : Names(n, j) => j = i
        /\ \A k \in Int, j \in Item : Names(k, j)' => Names(k, j) \/ (k = n /\ j = i)
    BY <2>2, <2>3, <2>4, <2>6
  <2>8. taps \in Nat /\ made \in Nat /\ i \in Item BY <1>3
  <2> QED BY <2>1, <2>5, <2>7, <2>8, ApartNext, Zenon
<1>7. ASSUME NEW j \in Item \ contended' PROVE IsKept(j)'
  <2>1. IsKept(j) BY <1>2, <1>7 DEF Keeping
  <2> QED BY <1>2, <1>5, <2>1, IsKeptStays
<1>8. contended # Item => OneEach(pending') /\ OneEach(batch') BY <1>2 DEF Keeping
<1>9. phase' = "lost" => contended' = Item BY <1>2 DEF Keeping
<1> QED BY <1>2, <1>6, <1>7, <1>8, <1>9, KeepingNext

\* So does a flush, while none is under way.
LEMMA FlushKeeps ==
  ASSUME Typing, Typing', QueueHasBatch, Keeping, batch = <<>>, Flush(queue),
         UNCHANGED <<shown, server, made, taps, answer, phase, wanted, contended>>
  PROVE  Keeping'
<1>1. /\ pending' = <<>> /\ batch' = Sendable(pending)
      /\ queue' = queue \/ queue' = Append(queue, Batch)
  BY DEF Flush
<1>2. /\ pending \in Seq(Meant) /\ taps \in Nat /\ made \in Nat /\ Cart(shown) /\ Cart(server)
      /\ Batch \in Element
  BY LeavingTyped DEF Typing, Element
<1>3. /\ Dialog' = Dialog /\ AtServer' = AtServer
      /\ \A j : DialogOf(j)' = DialogOf(j)
      /\ Dialog => Head(queue') = Head(queue)
      /\ \A x : (\E n \in DOMAIN queue' : queue'[n] = x) => x = Batch \/ \E n \in DOMAIN queue : queue[n] = x
  BY <1>1, <1>2, HeadStays
<1>4. ~AtServer
  <2>1. ASSUME queue # <<>>, Head(queue) = Batch PROVE FALSE
    <3>1. queue \in Seq(Element) BY QueueIs
    <3>2. 1 \in DOMAIN queue /\ queue[1] = Batch BY <2>1, <3>1, LenProperties, EmptySeq, QueueIs
    <3> QED BY <3>2 DEF QueueHasBatch
  <2> QED BY <2>1 DEF AtServer
<1> SUFFICES ASSUME contended # Item
             PROVE  IdsAreApart' /\ OneEach(pending') /\ OneEach(batch')
                    /\ \A j \in Item \ contended' : IsKept(j)'
  <2>1. phase' = "lost" => contended' = Item BY DEF Keeping
  <2> QED BY <2>1, KeepingNext
<1>5. IdsAreApart /\ OneEach(pending) /\ \A j \in Item \ contended : IsKept(j) BY DEF Keeping
<1>6. /\ OneEach(batch') /\ batch' \in Seq(Meant)
      /\ \A l \in Int : l > 0 => (On(pending, l) => On(batch', l))
      /\ \A n \in DOMAIN batch' : \E m \in DOMAIN pending : batch'[n] = pending[m]
  <2>1. PICK b : b = Sendable(pending) OBVIOUS
  <2>2. /\ OneEach(b) /\ b \in Seq(Meant)
        /\ \A l \in Int : l > 0 => (On(pending, l) => On(b, l))
        /\ \A n \in DOMAIN b : \E m \in DOMAIN pending : b[n] = pending[m]
    BY <1>2, <1>5, <2>1, SendableHas
  <2> QED BY <1>1, <2>1, <2>2
<1>7. OneEach(pending') BY <1>1, NoneInEmpty
<1>8. IdsAreApart'
  <2>1. ASSUME NEW k \in Int, NEW j \in Item, Names(k, j)' PROVE Names(k, j)
    <3>1. (\E n \in DOMAIN queue' : queue'[n] = <<k, j>>) => \E n \in DOMAIN queue : queue[n] = <<k, j>>
      <4>1. <<k, j>> # Batch BY DEF Batch
      <4> QED BY <1>3, <4>1
    <3>2. (\E n \in DOMAIN batch' : batch'[n].line = k /\ batch'[n].item = j) =>
             \E n \in DOMAIN pending : pending[n].line = k /\ pending[n].item = j
      BY <1>6
    <3> QED BY <1>1, <2>1, <3>1, <3>2 DEF Names
  <2>2. taps' \in Nat /\ made' \in Nat /\ taps' >= taps /\ made' >= made BY <1>2
  <2>3. \A k \in Int, j \in Item : Names(k, j)' => Names(k, j) BY <2>1
  <2> QED BY <1>2, <1>5, <2>2, <2>3, ApartStay, Zenon
<1>9. ASSUME NEW j \in Item \ contended' PROVE IsKept(j)'
  <2>1. IsKept(j) BY <1>5
  <2>2. Coming = <<>> /\ Coming' = Sendable(pending) BY <1>1, <1>3, <1>4 DEF Coming
  <2>3. \A l \in DOMAIN server : l \in Int /\ l > 0 BY LinesTyped
  <2>4. ASSUME DialogOf(j) PROVE CalmDialog(j, shown, server, Head(queue)[1], wanted[j])'
    <3>1. CalmDialog(j, shown, server, Head(queue)[1], wanted[j]) BY <2>1, <2>4 DEF IsKept
    <3>2. ~Of(batch', j) /\ ~Of(pending', j) BY <1>1, <1>6, <3>1, NoneInEmpty DEF CalmDialog, Of
    <3>3. Head(queue') = Head(queue) BY <1>3, <2>4 DEF DialogOf
    <3> QED BY <3>1, <3>2, <3>3 DEF CalmDialog
  <2>5. ASSUME ~DialogOf(j) PROVE Calm(j, shown', server', Coming', pending', wanted'[j])
    <3>1. Calm(j, shown, server, <<>>, pending, wanted[j]) BY <1>4, <2>1, <2>2, <2>5 DEF IsKept
    <3>2. Calm(j, shown, server, Sendable(pending), <<>>, wanted[j])
      BY <1>2, <1>5, <2>3, <3>1, FlushIsCalm
    <3> QED BY <1>1, <2>2, <3>2
  <2>6. ASSUME Dialog, phase # "answered", ~DialogOf(j) PROVE CanGoBack(j, answer, server)'
    <3>1. CanGoBack(j, answer, server) BY <2>1, <2>6 DEF IsKept
    <3>2. \A l \in Int : l > 0 /\ (On(batch, l) \/ On(pending, l)) => On(batch', l)
      BY <1>6, NoneInEmpty
    <3>3. \A l \in OfItem(answer, j) : l \in Int BY DEF Typing, Cart, OfItem
    <3>4. \A l \in OfItem(server, j) : l \in Int /\ l > 0 BY <2>3 DEF OfItem
    <3> QED BY <3>1, <3>2, <3>3, <3>4 DEF CanGoBack
  <2> QED BY <1>3, <2>4, <2>5, <2>6, IsKeptNext
<1> QED BY <1>7, <1>6, <1>8, <1>9

\* The timer and a navigation flush, or leave all of it.
LEMMA SendKeeps ==
  ASSUME Typing, Typing', QueueHasBatch, Keeping, TimerFires \/ Navigate
  PROVE  Keeping'
<1>1. /\ UNCHANGED <<shown, server, made, taps, answer, phase, wanted, contended>>
      /\ UNCHANGED <<pending, batch, queue>> \/ (batch = <<>> /\ Flush(queue))
  BY DEF TimerFires, Navigate, history
<1>2. CASE UNCHANGED <<pending, batch, queue>>
  <2>1. /\ Dialog' = Dialog /\ AtServer' = AtServer
        /\ \A j : DialogOf(j)' = DialogOf(j)
    BY <1>1, <1>2 DEF Dialog, AtServer, DialogOf
  <2>2. \A j \in Item \ contended' : IsKept(j)'
    <3> TAKE j \in Item \ contended'
    <3>1. IsKept(j) BY <1>1 DEF Keeping
    <3> QED BY <1>1, <1>2, <2>1, <3>1, IsKeptStays
  <2>3. contended # Item => IdsAreApart' /\ OneEach(pending') /\ OneEach(batch')
    BY <1>1, <1>2 DEF Keeping, IdsAreApart, Names
  <2> QED BY <1>1, <2>2, <2>3, KeepingNext DEF Keeping
<1> QED BY <1>1, <1>2, FlushKeeps

\* Two carts with the same lines of an item.
LEMMA SameLinesAre ==
  ASSUME NEW c, NEW d, NEW i, \A l : l \in OfItem(c, i) <=> l \in OfItem(d, i),
         \A l \in OfItem(c, i) : c[l] = d[l]
  PROVE  SameLines(c, d, i)
BY DEF SameLines

\* What an operation makes of the server's cart.
LEMMA ApplyHas ==
  ASSUME NEW r \in Served, NEW o \in Meant, NEW a, a = Apply(r, o)
  PROVE  /\ r.refusals \subseteq a.refusals /\ a.made \in Nat /\ a.made >= r.made
         /\ \A l \in DOMAIN a.cart : \/ l = r.made + 1
                                     \/ l \in DOMAIN r.cart /\ a.cart[l].item = r.cart[l].item
         /\ o.type = "addItem" =>
              /\ \A j : j # o.item => SameLines(r.cart, a.cart, j)
              /\ OfItem(r.cart, o.item) = {} =>
                   /\ OfItem(a.cart, o.item) = {r.made + 1}
                   /\ a.cart[r.made + 1].quantity = o.quantity
         /\ o.type # "addItem" /\ o.line \notin DOMAIN r.cart =>
              o.item \in a.refusals /\ a.cart = r.cart
         /\ o.type # "addItem" /\ o.line \in DOMAIN r.cart =>
              /\ o.line \in DOMAIN a.cart <=> o.quantity # 0
              /\ o.quantity # 0 => a.cart[o.line].quantity = o.quantity
              /\ o.quantity # 0 => a.cart[o.line].item = r.cart[o.line].item
              /\ \A l : l # o.line => (l \in DOMAIN a.cart <=> l \in DOMAIN r.cart)
              /\ \A l \in DOMAIN r.cart : l # o.line => a.cart[l] = r.cart[l]
<1>1. /\ Cart(r.cart) /\ r.made \in Nat /\ r.refusals \in SUBSET Item
      /\ DOMAIN r.cart \subseteq 1..r.made
  BY DEF Served
<1>2. /\ o.item \in Item /\ o.quantity \in Nat
      /\ \A l \in DOMAIN r.cart : r.cart[l].quantity \in Nat \ {0}
  BY <1>1 DEF Meant, Operation, Cart, Line
<1> PICK c : c = r.cart OBVIOUS
<1> PICK i : i = o.item OBVIOUS
<1>3. CASE o.type = "addItem" /\ OfItem(c, i) = {}
  <2> PICK l : l = r.made + 1 OBVIOUS
  <2> PICK p : p = Put(c, l, i, o.quantity) OBVIOUS
  <2>1. a = Result(p, l, r.refusals) BY <1>3 DEF Apply, AddTo
  <2>2. a.cart = p /\ a.made = l /\ a.refusals = r.refusals BY <2>1 DEF Result
  <2>3. l \notin DOMAIN c BY <1>1
  <2>4. /\ DOMAIN p = DOMAIN c \cup {l} /\ p[l].item = i /\ p[l].quantity = o.quantity
        /\ \A k \in DOMAIN c : p[k] = c[k]
    BY <2>3 DEF Put
  <2>5. \A j : j # i => SameLines(c, p, j)
    <3> TAKE j
    <3> HAVE j # i
    <3>1. \A k : k \in OfItem(c, j) <=> k \in OfItem(p, j) BY <2>3, <2>4 DEF OfItem
    <3>2. \A k \in OfItem(c, j) : c[k] = p[k] BY <2>4 DEF OfItem
    <3> QED BY <3>1, <3>2, SameLinesAre
  <2>6. \A k : k \in OfItem(p, i) <=> k = l BY <1>3, <2>4 DEF OfItem
  <2> QED BY <1>1, <1>3, <2>2, <2>4, <2>5, <2>6
<1>4. CASE o.type = "addItem" /\ OfItem(c, i) # {}
  <2>1. PICK l : l \in OfItem(c, i) /\ a = Result(Put(c, l, i, c[l].quantity + o.quantity), r.made, r.refusals)
    BY <1>4 DEF Apply, AddTo
  <2> PICK p : p = Put(c, l, i, c[l].quantity + o.quantity) OBVIOUS
  <2>2. a.cart = p /\ a.made = r.made /\ a.refusals = r.refusals BY <2>1 DEF Result
  <2>3. l \in DOMAIN c /\ c[l].item = i BY <2>1 DEF OfItem
  <2>4. /\ DOMAIN p = DOMAIN c /\ p[l].item = i
        /\ \A k \in DOMAIN c : k # l => p[k] = c[k]
    BY <2>3 DEF Put
  <2>5. \A j : j # i => SameLines(c, p, j)
    <3> TAKE j
    <3> HAVE j # i
    <3>1. \A k : k \in OfItem(c, j) <=> k \in OfItem(p, j) BY <2>3, <2>4 DEF OfItem
    <3>2. \A k \in OfItem(c, j) : c[k] = p[k] BY <2>3, <2>4 DEF OfItem
    <3> QED BY <3>1, <3>2, SameLinesAre
  <2>6. \A k \in DOMAIN c : p[k].item = c[k].item BY <2>3, <2>4
  <2> QED BY <1>1, <1>4, <2>2, <2>4, <2>5, <2>6
<1>5. CASE o.type # "addItem" /\ o.line \notin DOMAIN c
  <2>1. a = [r EXCEPT !.refusals = @ \cup {o.item}] BY <1>5 DEF Apply
  <2>2. a.cart = c /\ a.made = r.made /\ a.refusals = r.refusals \cup {o.item}
    BY <2>1 DEF Served
  <2> QED BY <1>1, <1>5, <2>2
<1>6. CASE o.type # "addItem" /\ o.line \in DOMAIN c
  <2> PICK p : p = optimisticUpdateCartItemQuantity(c, o.line, o.quantity) OBVIOUS
  <2>1. a = [r EXCEPT !.cart = p] BY <1>6 DEF Apply
  <2>2. a.cart = p /\ a.made = r.made /\ a.refusals = r.refusals BY <2>1 DEF Served
  <2>3. /\ DOMAIN p = IF o.quantity <= 0 THEN DOMAIN c \ {o.line} ELSE DOMAIN c
        /\ o.quantity > 0 => p[o.line] = [item |-> c[o.line].item, quantity |-> o.quantity]
        /\ \A k \in DOMAIN c \ {o.line} : p[k] = c[k]
    <3> PICK n : n = o.quantity OBVIOUS
    <3> PICK l : l = o.line OBVIOUS
    <3>1. n \in Int /\ l \in DOMAIN c BY <1>2, <1>6
    <3>2. /\ DOMAIN optimisticUpdateCartItemQuantity(c, l, n) =
               IF n <= 0 THEN DOMAIN c \ {l} ELSE DOMAIN c
          /\ n > 0 => optimisticUpdateCartItemQuantity(c, l, n)[l] =
                        [item |-> c[l].item, quantity |-> n]
          /\ \A k \in DOMAIN c \ {l} : optimisticUpdateCartItemQuantity(c, l, n)[k] = c[k]
      BY <3>1 DEF optimisticUpdateCartItemQuantity, Put
    <3> QED BY <3>2
  <2>4. /\ o.line \in DOMAIN p <=> o.quantity # 0
        /\ o.quantity # 0 => p[o.line].quantity = o.quantity /\ p[o.line].item = c[o.line].item
        /\ \A l : l # o.line => (l \in DOMAIN p <=> l \in DOMAIN c)
        /\ \A l \in DOMAIN c : l # o.line => p[l] = c[l]
    BY <1>2, <1>6, <2>3
  <2>5. \A l \in DOMAIN p : l \in DOMAIN c /\ p[l].item = c[l].item
    BY <1>6, <2>4
  <2> QED BY <1>1, <1>6, <2>2, <2>4, <2>5
<1> QED BY <1>3, <1>4, <1>5, <1>6

\* The lines that the server had keep their ids and items.
Grown(r) ==
  /\ r.made >= made
  /\ \A l \in DOMAIN r.cart : l <= made => l \in DOMAIN server /\ r.cart[l].item = server[l].item

LEMMA ApplyGrows ==
  ASSUME NEW r \in Served, NEW o \in Meant, made \in Nat, Grown(r)
  PROVE  Grown(Apply(r, o))
<1> PICK a : a = Apply(r, o) OBVIOUS
<1>1. r.made \in Nat BY DEF Served
<1>2. /\ a.made \in Nat /\ a.made >= r.made
      /\ \A l \in DOMAIN a.cart : \/ l = r.made + 1
                                  \/ l \in DOMAIN r.cart /\ a.cart[l].item = r.cart[l].item
  BY ApplyHas
<1> QED BY <1>1, <1>2 DEF Grown

\* Before an item is added its lines are those of the server, with the first k operations.
Half(r, i, k) ==
  /\ OfItem(r.cart, i) \subseteq OfItem(server, i)
  /\ \A l \in OfItem(server, i) :
       /\ \A m \in 1..k : batch[m].line = l =>
            /\ batch[m].quantity = 0 => l \notin OfItem(r.cart, i)
            /\ batch[m].quantity # 0 => l \in OfItem(r.cart, i) /\ r.cart[l].quantity = batch[m].quantity
       /\ (\A m \in 1..k : batch[m].line # l) =>
            l \in OfItem(r.cart, i) /\ r.cart[l].quantity = server[l].quantity

\* Then it has one new line.
Done(r, i, w) ==
  \E x \in Int : x > made /\ OfItem(r.cart, i) = {x} /\ r.cart[x].quantity = w

SoFar(r, i, k, w) ==
  /\ (\A n \in AddsOf(batch, i) : n > k) => Half(r, i, k)
  /\ (\E n \in AddsOf(batch, i) : n <= k) => Done(r, i, w)

\* An operation of another item leaves the item's lines.
LEMMA StepElsewhere ==
  ASSUME Typing, IdsAreApart, NEW i \in Item, NEW w, NEW k \in 1..Len(batch), NEW r \in Served,
         SoFar(r, i, k - 1, w), batch[k].item # i, NEW a, a = r \/ a = Apply(r, batch[k])
  PROVE  SoFar(a, i, k, w)
<1> PICK o : o = batch[k] OBVIOUS
<1>1. o \in Meant /\ o.item \in Item /\ o.line \in Int /\ o.item # i /\ k \in DOMAIN batch
      /\ made \in Nat /\ k \in Int
  <2>1. o \in Meant /\ k \in DOMAIN batch BY DEF Typing
  <2> QED BY <2>1 DEF Meant, Operation, Typing
<1>2. Names(o.line, o.item) BY <1>1 DEF Names
<1>3. o.line <= made /\ \A j \in Item : Names(o.line, j) => j = o.item
  BY <1>1, <1>2 DEF IdsAreApart
<1>4. o.line \notin OfItem(server, i) BY <1>1, <1>3 DEF Names
<1>5. k \notin AddsOf(batch, i) BY <1>1 DEF AddsOf
<1>6. \A n \in AddsOf(batch, i) : n \in Int BY DEF AddsOf, Typing
<1>7. /\ (\A n \in AddsOf(batch, i) : n > k) => \A n \in AddsOf(batch, i) : n > k - 1
      /\ (\E n \in AddsOf(batch, i) : n <= k) => \E n \in AddsOf(batch, i) : n <= k - 1
  BY <1>1, <1>5, <1>6
<1>8. o.line \notin OfItem(r.cart, i)
  <2>1. CASE \A n \in AddsOf(batch, i) : n > k - 1 BY <1>4, <2>1 DEF SoFar, Half
  <2>2. CASE \E n \in AddsOf(batch, i) : n <= k - 1
    <3>1. PICK x \in Int : x > made /\ OfItem(r.cart, i) = {x} BY <2>2 DEF SoFar, Done
    <3> QED BY <1>1, <1>3, <3>1
  <2> QED BY <1>1, <1>6, <2>1, <2>2
<1>9. SameLines(r.cart, a.cart, i)
  <2>1. CASE a = r BY <2>1 DEF SameLines
  <2>2. CASE a = Apply(r, o)
    <3>1. CASE o.type = "addItem" BY <1>1, <2>2, <3>1, ApplyHas
    <3>2. CASE o.type # "addItem" /\ o.line \notin DOMAIN r.cart
      <4>1. a.cart = r.cart BY <1>1, <2>2, <3>2, ApplyHas
      <4> QED BY <4>1 DEF SameLines
    <3>3. CASE o.type # "addItem" /\ o.line \in DOMAIN r.cart
      <4>1. /\ o.quantity # 0 => a.cart[o.line].item = r.cart[o.line].item
            /\ o.line \in DOMAIN a.cart <=> o.quantity # 0
            /\ \A l : l # o.line => (l \in DOMAIN a.cart <=> l \in DOMAIN r.cart)
            /\ \A l \in DOMAIN r.cart : l # o.line => a.cart[l] = r.cart[l]
        BY <1>1, <2>2, <3>3, ApplyHas
      <4>2. \A l : l \in OfItem(r.cart, i) <=> l \in OfItem(a.cart, i)
        BY <1>8, <3>3, <4>1 DEF OfItem
      <4>3. \A l \in OfItem(r.cart, i) : r.cart[l] = a.cart[l] BY <1>8, <4>1 DEF OfItem
      <4> QED BY <4>2, <4>3, SameLinesAre
    <3> QED BY <3>1, <3>2, <3>3
  <2> QED BY <2>1, <2>2
<1>10. Half(r, i, k - 1) => Half(a, i, k)
  <2> SUFFICES ASSUME Half(r, i, k - 1) PROVE Half(a, i, k) OBVIOUS
  <2>1. \A l \in OfItem(server, i) : batch[k].line # l BY <1>4
  <2>2. \A m \in 1..k : m = k \/ m \in 1..(k - 1) BY <1>1
  <2>3. \A m \in 1..(k - 1) : m \in 1..k BY <1>1
  <2> QED BY <1>9, <2>1, <2>2, <2>3 DEF Half, SameLines
<1>11. Done(r, i, w) => Done(a, i, w)
  <2> SUFFICES ASSUME NEW x \in Int, x > made, OfItem(r.cart, i) = {x}, r.cart[x].quantity = w
               PROVE  Done(a, i, w)
    BY DEF Done
  <2>1. OfItem(a.cart, i) = {x} /\ a.cart[x].quantity = w BY <1>9 DEF SameLines
  <2> QED BY <2>1 DEF Done
<1> QED BY <1>7, <1>10, <1>11 DEF SoFar

\* Its own operation does to the item what it says.
LEMMA StepOwn ==
  ASSUME Typing, IdsAreApart, OneEach(batch), NEW i \in Item, NEW w,
         Calm(i, shown, server, batch, pending, w), NEW k \in 1..Len(batch), NEW r \in Served,
         SoFar(r, i, k - 1, w), Grown(r), batch[k].item = i, NEW a, a = Apply(r, batch[k]),
         i \notin a.refusals
  PROVE  SoFar(a, i, k, w)
<1> PICK o : o = batch[k] OBVIOUS
<1>1. /\ o \in Meant /\ o.item = i /\ k \in DOMAIN batch /\ o.line \in Int /\ o.quantity \in Nat
      /\ made \in Nat /\ k \in Int /\ batch \in Seq(Meant) /\ DOMAIN batch = 1..Len(batch)
  <2>1. o \in Meant /\ k \in DOMAIN batch BY DEF Typing
  <2> QED BY <2>1 DEF Meant, Operation, Typing
<1>2. Names(o.line, i) BY <1>1 DEF Names
<1>3. o.line <= made /\ \A j \in Item : Names(o.line, j) => j = i
  BY <1>1, <1>2 DEF IdsAreApart
<1>4. /\ \A n \in AddsOf(batch, i) : n \in DOMAIN batch /\ n \in Int
      /\ \A l \in DOMAIN server : l \in Int /\ l > 0 /\ l <= made /\ server[l].quantity \in Nat \ {0}
      /\ Cart(r.cart) /\ r.made \in Nat
  <2>1. \A n \in AddsOf(batch, i) : n \in DOMAIN batch /\ n \in Int BY <1>1 DEF AddsOf
  <2>2. DOMAIN server \subseteq 1..made BY DEF Typing, TypeOK
  <2>3. \A l \in DOMAIN server : l <= made BY <1>1, <2>2
  <2> QED BY <2>1, <2>3, LinesTyped DEF Served
<1>5. CASE o.type = "addItem"
  <2>1. k \in AddsOf(batch, i) /\ o.line < 0 BY <1>1, <1>5 DEF AddsOf, Meant
  <2>2. /\ ~Of(pending, i) /\ o.line \in OfItem(shown, i) /\ w = o.quantity
        /\ \A l \in OfItem(server, i) : \E m \in 1..k : batch[m].line = l
        /\ \A n \in AddsOf(batch, i) : batch[n].line \in OfItem(shown, i)
        /\ \A l, m \in OfItem(shown, i) : l = m
    BY <2>1 DEF Calm
  <2>3. \A n \in AddsOf(batch, i) : n = k BY <1>1, <1>4, <2>2 DEF OneEach
  <2>4. Half(r, i, k - 1)
    <3>1. \A n \in AddsOf(batch, i) : n > k - 1 BY <1>1, <2>3
    <3> QED BY <3>1 DEF SoFar
  <2>5. ASSUME NEW l \in OfItem(server, i) PROVE l \notin OfItem(r.cart, i)
    <3>1. l \in Int /\ l > 0 /\ server[l].quantity # 0 /\ Names(l, i) BY <1>4 DEF OfItem, Names
    <3>2. PICK m \in 1..k : batch[m].line = l BY <2>2
    <3>3. m \in 1..(k - 1) /\ m \in DOMAIN batch
      <4>1. m # k BY <2>1, <3>1, <3>2
      <4> QED BY <1>1, <4>1
    <3>4. l \notin OfItem(shown, i)
      <4>1. l # o.line BY <2>1, <3>1
      <4> QED BY <2>2, <4>1
    <3>5. ComesTo(server, batch, pending, l, 0) BY <3>4 DEF Calm
    <3>6. ~On(pending, l)
      <4> SUFFICES ASSUME NEW n \in DOMAIN pending, pending[n].line = l PROVE FALSE BY DEF On
      <4>1. pending[n].item \in Item /\ Names(l, pending[n].item)
        <5>1. pending[n] \in Meant BY DEF Typing
        <5> QED BY <5>1 DEF Meant, Operation, Names
      <4>2. pending[n].item = i BY <3>1, <4>1 DEF IdsAreApart
      <4> QED BY <2>2, <4>2 DEF Of
    <3>7. PICK n \in DOMAIN batch : batch[n].line = l /\ batch[n].quantity = 0
      BY <3>1, <3>5, <3>6 DEF ComesTo, Sets
    <3>8. n = m BY <3>2, <3>3, <3>7 DEF OneEach
    <3> QED BY <2>4, <3>2, <3>3, <3>7, <3>8 DEF Half
  <2>6. OfItem(r.cart, i) = {} BY <2>4, <2>5 DEF Half
  <2>7. OfItem(a.cart, i) = {r.made + 1} /\ a.cart[r.made + 1].quantity = o.quantity
    <3>1. o \in Meant /\ o.type = "addItem" /\ a = Apply(r, o) /\ OfItem(r.cart, o.item) = {}
      BY <1>1, <1>5, <2>6
    <3>2. OfItem(a.cart, o.item) = {r.made + 1} /\ a.cart[r.made + 1].quantity = o.quantity
      BY <3>1, ApplyHas
    <3> QED BY <1>1, <3>2
  <2>8. r.made + 1 \in Int /\ r.made + 1 > made BY <1>1, <1>4 DEF Grown
  <2>9. Done(a, i, w) BY <2>2, <2>7, <2>8 DEF Done
  <2>10. ~\A n \in AddsOf(batch, i) : n > k BY <1>1, <2>1
  <2> QED BY <2>9, <2>10 DEF SoFar
<1>6. CASE o.type # "addItem"
  <2>1. o.line \in DOMAIN r.cart BY <1>1, <1>6, ApplyHas
  <2>2. o.line \in DOMAIN server /\ r.cart[o.line].item = server[o.line].item
    BY <1>3, <2>1 DEF Grown
  <2>3. server[o.line].item \in Item /\ Names(o.line, server[o.line].item)
    BY <2>2 DEF Names, OfItem, Typing, Cart, Line
  <2>4. o.line \in OfItem(server, i) /\ o.line \in OfItem(r.cart, i)
    BY <1>3, <2>1, <2>2, <2>3 DEF OfItem
  <2>5. /\ o.quantity # 0 => a.cart[o.line].item = i /\ a.cart[o.line].quantity = o.quantity
        /\ o.line \in DOMAIN a.cart <=> o.quantity # 0
        /\ \A l : l # o.line => (l \in DOMAIN a.cart <=> l \in DOMAIN r.cart)
        /\ \A l \in DOMAIN r.cart : l # o.line => a.cart[l] = r.cart[l]
    <3>1. r.cart[o.line].item = i BY <2>4 DEF OfItem
    <3> QED BY <1>1, <1>6, <2>1, <3>1, ApplyHas
  <2>6. \A n \in AddsOf(batch, i) : n > k
    <3> SUFFICES ASSUME NEW n \in AddsOf(batch, i), ~(n > k) PROVE FALSE OBVIOUS
    <3>1. n <= k - 1
      <4>1. n # k BY <1>6 DEF AddsOf
      <4> QED BY <1>1, <1>4, <4>1
    <3>2. PICK x \in Int : x > made /\ OfItem(r.cart, i) = {x} BY <3>1 DEF SoFar, Done
    <3> QED BY <1>1, <1>3, <2>4, <3>2
  <2>7. Half(r, i, k - 1)
    <3>1. \A n \in AddsOf(batch, i) : n > k - 1 BY <1>1, <1>4, <2>6
    <3> QED BY <3>1 DEF SoFar
  <2>8. \A l : l # o.line => (l \in OfItem(a.cart, i) <=> l \in OfItem(r.cart, i))
    BY <2>5 DEF OfItem
  <2>9. OfItem(a.cart, i) \subseteq OfItem(server, i) BY <2>4, <2>7, <2>8 DEF Half
  <2>10. ASSUME NEW l \in OfItem(server, i), NEW m \in 1..k, batch[m].line = l
         PROVE  /\ batch[m].quantity = 0 => l \notin OfItem(a.cart, i)
                /\ batch[m].quantity # 0 => l \in OfItem(a.cart, i) /\ a.cart[l].quantity = batch[m].quantity
    <3>1. CASE m = k
      <4>1. l = o.line /\ batch[m].quantity = o.quantity BY <2>10, <3>1
      <4> QED BY <2>5, <4>1 DEF OfItem
    <3>2. CASE m # k
      <4>1. m \in 1..(k - 1) /\ m \in DOMAIN batch BY <1>1, <3>2
      <4>2. l # o.line BY <1>1, <2>10, <3>2, <4>1 DEF OneEach
      <4>3. /\ batch[m].quantity = 0 => l \notin OfItem(r.cart, i)
            /\ batch[m].quantity # 0 => l \in OfItem(r.cart, i) /\ r.cart[l].quantity = batch[m].quantity
        BY <2>7, <2>10, <4>1 DEF Half
      <4>4. l \in OfItem(r.cart, i) => a.cart[l] = r.cart[l] BY <2>5, <4>2 DEF OfItem
      <4> QED BY <2>8, <4>2, <4>3, <4>4
    <3> QED BY <3>1, <3>2
  <2>11. ASSUME NEW l \in OfItem(server, i), \A m \in 1..k : batch[m].line # l
         PROVE  l \in OfItem(a.cart, i) /\ a.cart[l].quantity = server[l].quantity
    <3>1. l # o.line /\ \A m \in 1..(k - 1) : batch[m].line # l
      <4>1. k \in 1..k /\ \A m \in 1..(k - 1) : m \in 1..k BY <1>1
      <4> QED BY <2>11, <4>1
    <3>2. l \in OfItem(r.cart, i) /\ r.cart[l].quantity = server[l].quantity BY <2>7, <3>1 DEF Half
    <3>3. a.cart[l] = r.cart[l] BY <2>5, <3>1, <3>2 DEF OfItem
    <3> QED BY <2>8, <3>1, <3>2, <3>3
  <2>12. Half(a, i, k) BY <2>9, <2>10, <2>11 DEF Half
  <2>13. ~\E n \in AddsOf(batch, i) : n <= k BY <1>1, <1>4, <2>6
  <2> QED BY <2>12, <2>13 DEF SoFar
<1> QED BY <1>5, <1>6

\* What the batch comes to, for an item of which nothing is refused.
LEMMA BatchComes ==
  ASSUME Typing, IdsAreApart, OneEach(batch), NEW refused, NEW q,
         q[0] = Result(server, made, {}), \A k \in 0..Len(batch) : q[k] \in Served,
         \A k \in 1..Len(batch) : q[k] = IF batch[k].line \in refused THEN q[k - 1]
                                         ELSE Apply(q[k - 1], batch[k])
  PROVE  /\ Grown(q[Len(batch)])
         /\ \A i \in Item : \A w :
              /\ Calm(i, shown, server, batch, pending, w) /\ i \notin q[Len(batch)].refusals
              /\ \A k \in DOMAIN batch : batch[k].line \in refused => batch[k].item # i
              => SoFar(q[Len(batch)], i, Len(batch), w)
<1> DEFINE N == Len(batch)
<1>1. N \in Nat /\ DOMAIN batch = 1..N /\ \A k \in 1..N : batch[k] \in Meant BY DEF Typing
<1>2. made \in Nat BY DEF Typing
<1>3. q[0].cart = server /\ q[0].made = made /\ q[0].refusals = {} BY DEF Result
<1> HIDE DEF N
<1>4. \A k \in 1..N : /\ q[k - 1] \in Served /\ k - 1 \in 0..N
                      /\ q[k] = q[k - 1] \/ q[k] = Apply(q[k - 1], batch[k])
                      /\ batch[k].line \notin refused => q[k] = Apply(q[k - 1], batch[k])
  BY <1>1 DEF N
<1>5. \A k \in 0..N : Grown(q[k])
  <2> DEFINE T == {k \in Nat : k <= N => Grown(q[k])}
  <2>1. 0 \in T
    <3>1. Grown(q[0]) BY <1>2, <1>3 DEF Grown
    <3> QED BY <3>1
  <2>2. ASSUME NEW k \in Nat, k \in T PROVE k + 1 \in T
    <3> SUFFICES ASSUME k + 1 <= N PROVE Grown(q[k + 1]) OBVIOUS
    <3>1. Grown(q[k]) /\ k + 1 \in 1..N /\ (k + 1) - 1 = k BY <1>1, <2>2
    <3>2. q[k] \in Served /\ batch[k + 1] \in Meant BY <1>1, <1>4, <3>1
    <3>3. Grown(Apply(q[k], batch[k + 1])) BY <1>2, <3>1, <3>2, ApplyGrows
    <3> QED BY <1>4, <3>1, <3>3
  <2>3. Nat \subseteq T
    <3> HIDE DEF T
    <3> QED BY <2>1, <2>2, Induction
  <2> QED BY <1>1, <2>3
<1>6. ASSUME NEW i \in Item, NEW w, Calm(i, shown, server, batch, pending, w),
             \A k \in DOMAIN batch : batch[k].line \in refused => batch[k].item # i
      PROVE  \A k \in 0..N : i \in q[k].refusals \/ SoFar(q[k], i, k, w)
  <2> DEFINE T == {k \in Nat : k <= N => i \in q[k].refusals \/ SoFar(q[k], i, k, w)}
  <2>1. 0 \in T
    <3>1. Half(q[0], i, 0) BY <1>3 DEF Half
    <3>2. \A n \in AddsOf(batch, i) : n \in 1..N BY <1>1 DEF AddsOf
    <3>3. SoFar(q[0], i, 0, w) BY <1>1, <3>1, <3>2 DEF SoFar
    <3> QED BY <3>3
  <2>2. ASSUME NEW k \in Nat, k \in T PROVE k + 1 \in T
    <3> SUFFICES ASSUME k + 1 <= N, i \notin q[k + 1].refusals PROVE SoFar(q[k + 1], i, k + 1, w)
      OBVIOUS
    <3> PICK n : n = k + 1 OBVIOUS
    <3>1. n \in 1..N /\ n - 1 = k /\ k \in 0..N /\ n \in DOMAIN batch BY <1>1
    <3>2. /\ q[k] \in Served /\ batch[n] \in Meant /\ Grown(q[k])
          /\ q[n] = q[k] \/ q[n] = Apply(q[k], batch[n])
      BY <1>1, <1>4, <1>5, <3>1
    <3>3. q[k].refusals \subseteq q[n].refusals BY <3>2, ApplyHas
    <3>4. SoFar(q[k], i, n - 1, w)
      <4>1. i \notin q[k].refusals BY <3>3
      <4> QED BY <2>2, <3>1, <4>1
    <3>5. n \in 1..Len(batch) BY <3>1 DEF N
    <3>6. CASE batch[n].item # i
      <4> PICK r : r = q[k] OBVIOUS
      <4> PICK a : a = q[n] OBVIOUS
      <4>1. r \in Served /\ SoFar(r, i, n - 1, w) /\ (a = r \/ a = Apply(r, batch[n])) BY <3>2, <3>4
      <4>2. SoFar(a, i, n, w) BY <3>5, <3>6, <4>1, StepElsewhere
      <4> QED BY <4>2
    <3>7. CASE batch[n].item = i
      <4> PICK r : r = q[k] OBVIOUS
      <4> PICK a : a = q[n] OBVIOUS
      <4>1. batch[n].line \notin refused BY <1>6, <3>1, <3>7
      <4>2. a = Apply(r, batch[n]) BY <1>4, <3>1, <4>1
      <4>3. r \in Served /\ SoFar(r, i, n - 1, w) /\ Grown(r) /\ i \notin a.refusals BY <3>2, <3>4
      <4>4. SoFar(a, i, n, w) BY <1>6, <3>5, <3>7, <4>2, <4>3, StepOwn
      <4> QED BY <4>4
    <3> QED BY <3>6, <3>7
  <2>3. Nat \subseteq T
    <3> HIDE DEF T
    <3> QED BY <2>1, <2>2, Induction
  <2> QED BY <1>1, <2>3
<1>7. N \in 0..N BY <1>1
<1> QED BY <1>5, <1>6, <1>7 DEF N

\* Without an addition the item is calm again.
LEMMA HalfIsCalm ==
  ASSUME Typing, OneEach(batch), IdsAreApart, NEW i \in Item, NEW w, Calm(i, shown, server, batch, pending, w),
         AddsOf(batch, i) = {}, NEW r \in Served, Half(r, i, Len(batch))
  PROVE  Calm(i, shown, r.cart, <<>>, pending, w)
<1> DEFINE s == r.cart
           p == pending
<1>1. /\ DOMAIN batch = 1..Len(batch)
      /\ \A m \in DOMAIN batch : /\ batch[m].quantity = 0 <=> batch[m].type = "removeLine"
                                 /\ batch[m].type = "setQuantity" => batch[m].line >= 0
                                 /\ batch[m].type \in {"addItem", "setQuantity", "removeLine"}
                                 /\ batch[m].item \in Item
      /\ \A m \in DOMAIN p : p[m].line \in Int /\ (p[m].type = "addItem" => p[m].line < 0)
      /\ batch \in Seq(Meant)
  <2>1. \A m \in DOMAIN batch : batch[m] \in Meant BY DEF Typing
  <2>2. \A m \in DOMAIN p : p[m] \in Meant BY DEF Typing
  <2>3. batch \in Seq(Meant) BY DEF Typing
  <2>4. DOMAIN batch = 1..Len(batch) BY <2>3
  <2> QED BY <2>1, <2>2, <2>3, <2>4 DEF Meant, Operation
<1>2. /\ \A l \in OfItem(server, i) : l \in Int /\ l > 0 /\ server[l].quantity # 0
      /\ \A l \in OfItem(shown, i) : l \in Int /\ shown[l].quantity # 0
  BY LinesTyped DEF OfItem
<1>3. \A l \in OfItem(server, i) \cup OfItem(shown, i), m \in DOMAIN batch :
        batch[m].line = l => batch[m].item = i
  <2> TAKE l \in OfItem(server, i) \cup OfItem(shown, i), m \in DOMAIN batch
  <2> HAVE batch[m].line = l
  <2>1. l \in Int /\ Names(l, i) BY <1>2 DEF Names
  <2>2. Names(l, batch[m].item) /\ batch[m].item \in Item BY <1>1 DEF Names
  <2> QED BY <2>1, <2>2 DEF IdsAreApart
\* What the server has of the item now.
<1>4. /\ OfItem(s, i) \subseteq OfItem(server, i)
      /\ \A l \in OfItem(server, i) :
           /\ \A m \in DOMAIN batch : batch[m].line = l =>
                /\ batch[m].quantity = 0 => l \notin OfItem(s, i)
                /\ batch[m].quantity # 0 => l \in OfItem(s, i) /\ s[l].quantity = batch[m].quantity
           /\ ~On(batch, l) => l \in OfItem(s, i) /\ s[l].quantity = server[l].quantity
  BY <1>1 DEF Half, On
<1> HIDE DEF s, p
<1>5. ASSUME NEW l \in OfItem(server, i), NEW x, ComesTo(server, batch, p, l, x)
      PROVE  /\ l \in OfItem(s, i) => ComesTo(s, <<>>, p, l, x)
             /\ x # 0 => l \in OfItem(s, i)
             /\ l \notin OfItem(s, i) => x = 0
  <2>1. CASE On(p, l)
    <3>1. l \in OfItem(s, i)
      <4>1. CASE On(batch, l)
        <5>1. PICK m \in DOMAIN batch : batch[m].line = l BY <4>1 DEF On
        <5>2. batch[m].item = i BY <1>3, <5>1
        <5>3. batch[m].type # "removeLine" BY <2>1, <5>1, <5>2 DEF Calm, p
        <5> QED BY <1>1, <1>4, <5>1, <5>3
      <4> QED BY <1>4, <4>1
    <3> QED BY <1>5, <2>1, <3>1 DEF ComesTo
  <2>2. CASE ~On(p, l) /\ On(batch, l)
    <3>1. PICK m \in DOMAIN batch : batch[m].line = l /\ batch[m].quantity = x
      BY <1>5, <2>2 DEF ComesTo, Sets
    <3>2. /\ x = 0 => l \notin OfItem(s, i)
          /\ x # 0 => l \in OfItem(s, i) /\ s[l].quantity = x
      BY <1>4, <3>1
    <3> QED BY <2>2, <3>2, NoneInEmpty DEF ComesTo
  <2>3. CASE ~On(p, l) /\ ~On(batch, l)
    <3>1. l \in OfItem(s, i) /\ s[l].quantity = x BY <1>4, <1>5, <2>3 DEF ComesTo
    <3> QED BY <2>3, <3>1, NoneInEmpty DEF ComesTo
  <2> QED BY <2>1, <2>2, <2>3
<1>6. /\ \A k, l \in OfItem(shown, i) : k = l
      /\ \A k, l \in OfItem(s, i) : k = l
  BY <1>4 DEF Calm
<1>7. \A l \in OfItem(shown, i) : l > 0 =>
        l \in OfItem(s, i) /\ ComesTo(s, <<>>, p, l, shown[l].quantity)
  <2> TAKE l \in OfItem(shown, i)
  <2> HAVE l > 0
  <2>1. l \in OfItem(server, i) /\ ComesTo(server, batch, p, l, shown[l].quantity) BY DEF Calm, p
  <2> QED BY <1>2, <1>5, <2>1
<1>8. \A l \in OfItem(s, i) \ OfItem(shown, i) : ComesTo(s, <<>>, p, l, 0)
  BY <1>4, <1>5 DEF Calm, p
<1>9. \A l \in OfItem(shown, i) : l < 0 =>
        /\ i \notin Configured
        /\ \/ Sets(p, l, shown[l].quantity) \/ Sets(<<>>, l, shown[l].quantity)
           \/ ~On(p, l) /\ ~On(<<>>, l) /\ OfItem(s, i) = {}
  <2> TAKE l \in OfItem(shown, i)
  <2> HAVE l < 0
  <2>1. ~Sets(batch, l, shown[l].quantity)
    <3> SUFFICES ASSUME NEW m \in DOMAIN batch, batch[m].line = l, batch[m].quantity = shown[l].quantity
                 PROVE  FALSE
      BY DEF Sets
    <3>1. batch[m].item = i /\ batch[m].type = "addItem" BY <1>1, <1>2, <1>3
    <3> QED BY <3>1 DEF AddsOf
  <2>2. /\ i \notin Configured
        /\ Sets(p, l, shown[l].quantity) \/ (~On(p, l) /\ OfItem(server, i) = {})
    BY <2>1 DEF Calm, p
  <2> QED BY <1>4, <2>2, NoneInEmpty
<1>10. ASSUME NEW n \in AddsOf(p, i)
       PROVE  /\ p[n].line \in OfItem(shown, i) /\ shown[p[n].line].quantity = p[n].quantity
              /\ w = p[n].quantity
              /\ \A l \in OfItem(s, i) : On(p, l) => \E m \in 1..n : p[m].line = l
  BY <1>4, <1>10 DEF Calm, p
<1>11. AddsOf(<<>>, i) \cup AddsOf(p, i) = {} =>
         /\ \A l \in OfItem(s, i) : ComesTo(s, <<>>, p, l, w)
         /\ OfItem(s, i) = {} => w = 0
  <2> SUFFICES ASSUME AddsOf(p, i) = {}
               PROVE  /\ \A l \in OfItem(s, i) : ComesTo(s, <<>>, p, l, w)
                      /\ OfItem(s, i) = {} => w = 0
    OBVIOUS
  <2>1. /\ \A l \in OfItem(server, i) : ComesTo(server, batch, p, l, w)
        /\ OfItem(server, i) = {} => w = 0
    BY DEF Calm, p
  <2>2. \A l \in OfItem(s, i) : ComesTo(s, <<>>, p, l, w) BY <1>4, <1>5, <2>1
  <2>3. ASSUME OfItem(s, i) = {} PROVE w = 0
    <3>1. CASE OfItem(server, i) = {} BY <2>1, <3>1
    <3>2. CASE OfItem(server, i) # {}
      <4>1. PICK l \in OfItem(server, i) : TRUE BY <3>2
      <4> QED BY <1>5, <2>1, <2>3, <4>1
    <3> QED BY <3>1, <3>2
  <2> QED BY <2>2, <2>3
<1>12. Calm(i, shown, s, <<>>, p, w)
  BY <1>6, <1>7, <1>8, <1>9, <1>10, <1>11, NoneInEmpty DEF Calm
<1> QED BY <1>12 DEF s, p

\* With one the page does not know its line yet.
LEMMA DoneIsAdded ==
  ASSUME Typing, NEW i \in Item, NEW w, Calm(i, shown, server, batch, pending, w),
         NEW n \in AddsOf(batch, i), NEW r \in Served, Done(r, i, w)
  PROVE  JustAdded(i, shown, r.cart, pending, w)
<1>1. n \in DOMAIN batch /\ batch[n].line \in Int /\ batch[n].line < 0
  <2>1. n \in DOMAIN batch /\ batch[n].type = "addItem" BY DEF AddsOf
  <2>2. batch[n] \in Meant BY <2>1 DEF Typing
  <2> QED BY <2>1, <2>2 DEF Meant, Operation
<1> PICK l : l = batch[n].line OBVIOUS
<1>2. ~Of(pending, i) /\ l \in OfItem(shown, i) /\ shown[l].quantity = w BY DEF Calm
<1>3. OfItem(shown, i) = {l} /\ i \notin Configured BY <1>1, <1>2 DEF Calm
<1>4. PICK x \in Int : x > made /\ OfItem(r.cart, i) = {x} /\ r.cart[x].quantity = w BY DEF Done
<1> QED BY <1>1, <1>2, <1>3, <1>4 DEF JustAdded

\* The batch at the server keeps what it was, of every item.
LEMMA BatchKeeps ==
  ASSUME Typing, Typing', Keeping, TakeBatch
  PROVE  Keeping'
<1>1. PICK refused \in SUBSET {batch[n].line : n \in DOMAIN batch}, N \in 0..Len(batch),
           end \in {"answered", "lost"} :
        LET r == ApplyAll(N, refused)
            refusals == r.refusals \cup {batch[k].item : k \in {k \in DOMAIN batch : batch[k].line \in refused}}
        IN  /\ end = "answered" => N = Len(batch)
            /\ server' = r.cart /\ made' = r.made
            /\ answer' = IF end = "lost" THEN EmptyCart ELSE r.cart
            /\ phase' = IF end = "lost" THEN end
                        ELSE IF refusals = {} THEN "answered" ELSE "refused"
            /\ contended' = IF end = "lost" THEN Item ELSE contended \cup refusals
  BY DEF TakeBatch
<1>2. /\ UNCHANGED <<shown, pending, batch, taps, queue, wanted>>
      /\ queue # <<>> /\ Head(queue) = Batch /\ phase = "start"
  BY DEF TakeBatch, page
<1>3. contended' \subseteq Item BY DEF Typing, TypeOK
<1>4. CASE end = "lost"
  <2>1. contended' = Item BY <1>1, <1>4
  <2> QED BY <2>1 DEF Keeping
<1>5. CASE end = "answered"
  <2> PICK r : r = ApplyAll(N, refused) OBVIOUS
  <2>1. /\ N = Len(batch) /\ server' = r.cart /\ made' = r.made /\ answer' = r.cart
        /\ phase' \in {"answered", "refused"} /\ contended \subseteq contended'
        /\ \A i \in Item \ contended' : /\ i \notin r.refusals
                                        /\ \A k \in DOMAIN batch : batch[k].line \in refused => batch[k].item # i
    BY <1>1, <1>5
  <2> SUFFICES ASSUME contended' # Item
               PROVE  IdsAreApart' /\ OneEach(pending') /\ OneEach(batch')
                      /\ \A i \in Item \ contended' : IsKept(i)'
    BY <2>1, KeepingNext
  <2>2. IdsAreApart /\ OneEach(pending) /\ OneEach(batch) /\ \A i \in Item \ contended : IsKept(i)
    BY <1>3, <2>1 DEF Keeping
  <2>3. PICK q : /\ q[0] = Result(server, made, {}) /\ q[N] = r
                 /\ \A k \in 0..N : q[k] \in Served
                 /\ \A k \in 1..N : q[k] = IF batch[k].line \in refused THEN q[k - 1]
                                           ELSE Apply(q[k - 1], batch[k])
    BY BatchSteps
  <2>4. r \in Served BY ApplyAllIs
  <2>5. /\ Grown(r)
        /\ \A i \in Item : \A w :
              /\ Calm(i, shown, server, batch, pending, w) /\ i \notin r.refusals
              /\ \A k \in DOMAIN batch : batch[k].line \in refused => batch[k].item # i
              => SoFar(r, i, N, w)
    <3>1. /\ q[0] = Result(server, made, {})
          /\ \A k \in 0..Len(batch) : q[k] \in Served
          /\ \A k \in 1..Len(batch) : q[k] = IF batch[k].line \in refused THEN q[k - 1]
                                             ELSE Apply(q[k - 1], batch[k])
      BY <2>1, <2>3
    <3>2. /\ Grown(q[Len(batch)])
          /\ \A i \in Item : \A w :
               /\ Calm(i, shown, server, batch, pending, w) /\ i \notin q[Len(batch)].refusals
               /\ \A k \in DOMAIN batch : batch[k].line \in refused => batch[k].item # i
               => SoFar(q[Len(batch)], i, Len(batch), w)
      BY <2>2, <3>1, BatchComes
    <3>3. q[Len(batch)] = r /\ N = Len(batch) BY <2>1, <2>3
    <3> QED BY <3>2, <3>3
  <2>6. /\ ~Dialog /\ ~AtServer /\ Coming = batch /\ ~Dialog' /\ AtServer' /\ Coming' = <<>>
        /\ \A i : ~DialogOf(i) /\ ~DialogOf(i)'
    BY <1>2, <2>1 DEF Dialog, AtServer, Coming, DialogOf
  <2>7. ASSUME NEW i \in Item \ contended' PROVE IsKept(i)'
    <3>1. i \in Item /\ Calm(i, shown, server, batch, pending, wanted[i])
      BY <2>1, <2>2, <2>6 DEF IsKept
    <3>2. SoFar(r, i, N, wanted[i]) BY <2>1, <2>5, <3>1
    <3>3. CASE AddsOf(batch, i) = {}
      <4>1. Half(r, i, Len(batch)) BY <2>1, <3>2, <3>3 DEF SoFar
      <4>2. Calm(i, shown, r.cart, <<>>, pending, wanted[i])
        BY <2>2, <2>4, <3>1, <3>3, <4>1, HalfIsCalm
      <4>3. Calm(i, shown', server', Coming', pending', wanted'[i]) BY <1>2, <2>1, <2>6, <4>2
      <4> QED BY <2>6, <3>1, <4>3, IsKeptNext
    <3>4. CASE AddsOf(batch, i) # {}
      <4>1. PICK n \in AddsOf(batch, i) : TRUE BY <3>4
      <4>2. n <= N
        <5>1. n \in DOMAIN batch /\ batch \in Seq(Meant) BY DEF AddsOf, Typing
        <5> QED BY <2>1, <5>1
      <4>3. Done(r, i, wanted[i]) BY <3>2, <4>2 DEF SoFar
      <4>4. JustAdded(i, shown, r.cart, pending, wanted[i]) BY <2>4, <3>1, <4>3, DoneIsAdded
      <4>5. JustAdded(i, shown', server', pending', wanted'[i]) /\ AddsOf(batch', i) # {}
        BY <1>2, <2>1, <3>4, <4>4
      <4> QED BY <2>6, <3>1, <4>5, IsKeptNext
    <3> QED BY <3>3, <3>4
  <2>8. IdsAreApart'
    <3>1. /\ taps \in Nat /\ made \in Nat /\ made' \in Nat /\ made' >= made /\ taps' = taps
          /\ DOMAIN server' \subseteq 1..made'
      BY <1>2, <2>1, <2>5, LeavingTyped DEF Grown, Typing, TypeOK
    <3>2. ASSUME NEW l \in Int, NEW i \in Item, Names(l, i)'
          PROVE  Names(l, i) \/ (l > made /\ l \in OfItem(server', i))
      <4>1. CASE l \in OfItem(server', i)
        <5>1. l <= made => l \in OfItem(server, i) BY <2>1, <2>5, <4>1 DEF Grown, OfItem
        <5> QED BY <3>1, <4>1, <5>1 DEF Names
      <4>2. answer' = server' BY <2>1
      <4> QED BY <1>2, <3>2, <4>1, <4>2 DEF Names
    <3>3. \A l \in Int, i \in Item : Names(l, i) => l <= made
      BY <2>2, <3>1 DEF IdsAreApart
    <3> SUFFICES ASSUME NEW l \in Int, NEW i \in Item, Names(l, i)'
                 PROVE  l \in (-taps')..made' \ {0} /\ \A j \in Item : Names(l, j)' => i = j
      BY DEF IdsAreApart
    <3>4. CASE Names(l, i)
      <4>1. l \in (-taps)..made \ {0} BY <2>2, <3>4 DEF IdsAreApart
      <4>2. l \in (-taps')..made' \ {0} BY <3>1, <4>1, IdStays
      <4>3. l <= made BY <3>3, <3>4
      <4>4. ASSUME NEW j \in Item, Names(l, j)' PROVE i = j
        <5>1. Names(l, j) BY <3>1, <3>2, <4>3, <4>4
        <5> QED BY <2>2, <3>4, <5>1 DEF IdsAreApart
      <4> QED BY <4>2, <4>4
    <3>5. CASE l > made /\ l \in OfItem(server', i)
      <4>1. l \in 1..made' BY <3>1, <3>5 DEF OfItem
      <4>2. l \in (-taps')..made' \ {0} BY <3>1, <4>1
      <4>3. ASSUME NEW j \in Item, Names(l, j)' PROVE i = j
        <5>1. ~Names(l, j) BY <3>1, <3>3, <3>5
        <5>2. l \in OfItem(server', j) BY <3>2, <4>3, <5>1
        <5> QED BY <3>5, <5>2 DEF OfItem
      <4> QED BY <4>2, <4>3
    <3> QED BY <3>2, <3>4, <3>5
  <2>9. OneEach(pending') /\ OneEach(batch') BY <1>2, <2>2
  <2> QED BY <2>7, <2>8, <2>9
<1> QED BY <1>1, <1>4, <1>5

\* An item without an operation has none on its lines.
LEMMA NoneOn ==
  ASSUME Typing, IdsAreApart, NEW i \in Item, NEW l \in Int, Names(l, i),
         NEW ops, ops = pending \/ ops = batch, ~Of(ops, i)
  PROVE  ~On(ops, l)
<1> SUFFICES ASSUME NEW n \in DOMAIN ops, ops[n].line = l PROVE FALSE BY DEF On
<1>1. ops[n] \in Meant BY DEF Typing
<1>2. ops[n].item \in Item /\ Names(l, ops[n].item) BY <1>1 DEF Meant, Operation, Names
<1>3. ops[n].item = i BY <1>2 DEF IdsAreApart
<1> QED BY <1>3 DEF Of

\* Which of its lines the page shows is all that counts for an item.
LEMMA CalmSame ==
  ASSUME NEW i, NEW c, NEW d, SameLines(c, d, i), NEW s, NEW b, NEW p, NEW w, Calm(i, c, s, b, p, w)
  PROVE  Calm(i, d, s, b, p, w)
BY DEF Calm, SameLines

\* The page that shows the server's cart is calm when the page that it replaces was.
LEMMA CalmServer ==
  ASSUME NEW i \in Item, NEW c, NEW s, Cart(s), \A l \in DOMAIN s : l > 0, NEW w,
         Calm(i, c, s, <<>>, <<>>, w) \/ JustAdded(i, c, s, <<>>, w)
  PROVE  Calm(i, s, s, <<>>, <<>>, w)
<1>1. \A l \in OfItem(s, i) : l \in Int /\ l > 0 BY DEF Cart, OfItem
<1>2. /\ \A k, l \in OfItem(s, i) : k = l
      /\ \A l \in OfItem(s, i) : s[l].quantity = w
      /\ OfItem(s, i) = {} => w = 0
  <2>1. CASE Calm(i, c, s, <<>>, <<>>, w) BY <2>1, NoneInEmpty DEF Calm, ComesTo
  <2>2. CASE JustAdded(i, c, s, <<>>, w) BY <2>2 DEF JustAdded
  <2> QED BY <2>1, <2>2
<1>3. \A l, x : ComesTo(s, <<>>, <<>>, l, x) <=> s[l].quantity = x BY NoneInEmpty DEF ComesTo
<1> QED BY <1>1, <1>2, <1>3, NoneInEmpty DEF Calm

\* The lines of an item after a merge.
LEMMA MergeOf ==
  ASSUME NEW s, Cart(s), NEW c, NEW i, NEW d, d = mergeServerCartWithLocalPending(s, c)
  PROVE  /\ OfItem(d, i) = OfItem(s, i) \cup {m \in OfItem(c, i) : /\ m \notin DOMAIN s
                                                                   /\ m > 0 \/ OfItem(s, i) = {}}
         /\ \A k \in OfItem(s, i) : Above(s, c, k) = {} => d[k] = s[k]
         /\ \A m \in OfItem(d, i) \ OfItem(s, i) : d[m] = c[m]
<1>1. /\ DOMAIN d = DOMAIN s \cup {m \in DOMAIN c \ DOMAIN s : m > 0 \/ OfItem(s, c[m].item) = {}}
      /\ \A k \in DOMAIN s : /\ Above(s, c, k) = {} => d[k] = s[k]
                             /\ Above(s, c, k) # {} =>
                                  d[k] = [s[k] EXCEPT !.quantity = c[Min(Above(s, c, k))].quantity]
      /\ \A m \in DOMAIN d \ DOMAIN s : d[m] = c[m]
  BY DEF mergeServerCartWithLocalPending
<1>2. \A k \in DOMAIN s : d[k].item = s[k].item
  <2> TAKE k \in DOMAIN s
  <2>1. s[k] \in Line BY DEF Cart
  <2>2. \A x : [s[k] EXCEPT !.quantity = x].item = s[k].item BY <2>1 DEF Line
  <2> QED BY <1>1, <2>2
<1>3. \A k : k \in OfItem(d, i) => \/ k \in OfItem(s, i)
                                   \/ k \in OfItem(c, i) /\ k \notin DOMAIN s /\ (k > 0 \/ OfItem(s, i) = {})
  <2> SUFFICES ASSUME NEW k \in DOMAIN d, d[k].item = i
               PROVE  \/ k \in DOMAIN s /\ s[k].item = i
                      \/ k \in DOMAIN c /\ c[k].item = i /\ k \notin DOMAIN s /\ (k > 0 \/ OfItem(s, i) = {})
    BY DEF OfItem
  <2> QED BY <1>1, <1>2
<1>4. \A k \in OfItem(s, i) : k \in OfItem(d, i) BY <1>1, <1>2 DEF OfItem
<1>5. \A k \in OfItem(c, i) : k \notin DOMAIN s /\ (k > 0 \/ OfItem(s, i) = {}) => k \in OfItem(d, i)
  <2> SUFFICES ASSUME NEW k \in DOMAIN c, c[k].item = i, k \notin DOMAIN s, k > 0 \/ OfItem(s, i) = {}
               PROVE  k \in DOMAIN d /\ d[k].item = i
    BY DEF OfItem
  <2> QED BY <1>1
<1>6. \A k \in OfItem(s, i) : Above(s, c, k) = {} => d[k] = s[k] BY <1>1 DEF OfItem
<1>7. \A m \in OfItem(d, i) \ OfItem(s, i) : d[m] = c[m]
  <2> TAKE m \in OfItem(d, i) \ OfItem(s, i)
  <2>1. m \in DOMAIN d \ DOMAIN s BY <1>2 DEF OfItem
  <2> QED BY <1>1, <2>1
<1> QED BY <1>3, <1>4, <1>5, <1>6, <1>7

\* A merge leaves a calm item without an operation as it is, and shows the line that the
\* server has just added.
LEMMA MergeIsCalm ==
  ASSUME Typing, IdsAreApart, NEW i \in Item, NEW w, ~Of(pending, i),
         NEW d, d = mergeServerCartWithLocalPending(server, shown),
         \/ Calm(i, shown, server, <<>>, pending, w)
         \/ JustAdded(i, shown, server, pending, w)
  PROVE  Calm(i, d, server, <<>>, pending, w)
<1> DEFINE s == server
           c == shown
           p == pending
<1>1. /\ \A l \in OfItem(s, i) : l \in Int /\ l > 0 /\ s[l].quantity \in Nat \ {0} /\ l \in DOMAIN s
      /\ \A l \in OfItem(c, i) : l \in Int /\ c[l].quantity \in Nat \ {0} /\ l \in DOMAIN c
      /\ \A l \in DOMAIN s : l > 0 /\ l \in Int
  BY LinesTyped DEF OfItem
<1>2. \A l \in OfItem(s, i) \cup OfItem(c, i) : l \in Int /\ Names(l, i) /\ ~On(p, l)
  <2> TAKE l \in OfItem(s, i) \cup OfItem(c, i)
  <2>1. l \in Int /\ Names(l, i) BY <1>1 DEF Names
  <2> QED BY <2>1, NoneOn
<1>3. \A l \in OfItem(s, i) : \A x : ComesTo(s, <<>>, p, l, x) <=> s[l].quantity = x
  BY <1>2, NoneInEmpty DEF ComesTo
<1>4. AddsOf(p, i) = {} BY DEF AddsOf, Of
\* A line of the server's is this item's on the page, too.
<1>5. \A k \in OfItem(s, i) : k \in DOMAIN c => k \in OfItem(c, i)
  <2> TAKE k \in OfItem(s, i)
  <2> HAVE k \in DOMAIN c
  <2>1. c[k].item \in Item /\ Names(k, c[k].item) BY DEF Names, OfItem, Typing, Cart, Line
  <2>2. c[k].item = i BY <1>2, <2>1 DEF IdsAreApart
  <2> QED BY <2>2 DEF OfItem
<1>6. /\ OfItem(d, i) = OfItem(s, i) \cup {m \in OfItem(c, i) : /\ m \notin DOMAIN s
                                                                /\ m > 0 \/ OfItem(s, i) = {}}
      /\ \A k \in OfItem(s, i) : Above(s, c, k) = {} => d[k] = s[k]
      /\ \A m \in OfItem(d, i) \ OfItem(s, i) : d[m] = c[m]
  BY MergeOf DEF Typing
<1>7. \A k \in OfItem(s, i) :
        (\A m \in OfItem(c, i) : m = k \/ m < 0 => c[m].quantity <= s[k].quantity) =>
          Above(s, c, k) = {}
  <2> SUFFICES ASSUME NEW k \in OfItem(s, i), NEW m \in Above(s, c, k)
               PROVE  \E x \in OfItem(c, i) : (x = k \/ x < 0) /\ ~(c[x].quantity <= s[k].quantity)
    OBVIOUS
  <2>1. m \in DOMAIN c /\ (m = k \/ (m < 0 /\ c[m].item = s[k].item)) /\ c[m].quantity > s[k].quantity
    BY DEF Above
  <2>2. m \in OfItem(c, i) BY <1>5, <2>1 DEF OfItem
  <2> QED BY <1>1, <2>1, <2>2
<1> HIDE DEF s, c, p
<1>8. CASE Calm(i, c, s, <<>>, p, w)
  <2>1. /\ \A k, l \in OfItem(c, i) : k = l
        /\ \A k, l \in OfItem(s, i) : k = l
        /\ \A l \in OfItem(c, i) : l > 0 => l \in OfItem(s, i) /\ s[l].quantity = c[l].quantity
        /\ \A l \in OfItem(s, i) \ OfItem(c, i) : s[l].quantity = 0
    BY <1>3, <1>8 DEF Calm
  <2>2. OfItem(s, i) \subseteq OfItem(c, i) BY <1>1, <2>1
  <2>3. \A l \in OfItem(c, i) : l < 0 => OfItem(s, i) = {} BY <1>1, <2>1, <2>2
  <2>4. \A l \in OfItem(s, i) : c[l] = s[l]
    <3> TAKE l \in OfItem(s, i)
    <3>1. c[l] \in Line /\ s[l] \in Line BY <2>2 DEF OfItem, c, s, Typing, Cart
    <3>2. c[l].item = i /\ s[l].item = i /\ c[l].quantity = s[l].quantity
      BY <1>1, <2>1, <2>2 DEF OfItem
    <3> QED BY <3>1, <3>2 DEF Line
  <2>5. \A k \in OfItem(s, i) : Above(s, c, k) = {}
    <3> TAKE k \in OfItem(s, i)
    <3>1. \A m \in OfItem(c, i) : m = k BY <2>1, <2>2
    <3> QED BY <1>1, <1>7, <2>1, <3>1
  <2>6. \A m \in OfItem(c, i) : m \in OfItem(d, i)
    <3> TAKE m \in OfItem(c, i)
    <3>1. CASE m > 0 BY <1>6, <2>1, <3>1
    <3>2. CASE m < 0 BY <1>1, <1>6, <2>3, <3>2
    <3>3. m # 0 BY <1>2, <3>1 DEF IdsAreApart
    <3> QED BY <1>1, <3>1, <3>2, <3>3
  <2>7. OfItem(c, i) = OfItem(d, i) BY <1>6, <2>2, <2>6
  <2>8. \A m \in OfItem(c, i) : c[m] = d[m] BY <1>6, <2>4, <2>5, <2>7
  <2>9. SameLines(c, d, i) BY <2>7, <2>8 DEF SameLines
  <2> QED BY <1>8, <2>9, CalmSame DEF s, c, p
<1>9. CASE JustAdded(i, c, s, p, w)
  <2>1. PICK k \in Int, l \in Int : /\ OfItem(c, i) = {l} /\ OfItem(s, i) = {k} /\ l < 0
                                   /\ c[l].quantity = w /\ s[k].quantity = w
    BY <1>9 DEF JustAdded
  <2>2. Above(s, c, k) = {} BY <1>1, <1>7, <2>1
  <2>3. OfItem(d, i) = {k} /\ d[k] = s[k] BY <1>1, <1>6, <2>1, <2>2
  <2>4. k > 0 /\ ~(k < 0) BY <1>1, <2>1
  <2>5. /\ \A m \in OfItem(d, i) : m = k /\ d[m].quantity = w
        /\ \A m \in OfItem(s, i) : m = k /\ s[m].quantity = w
        /\ k \in OfItem(d, i) /\ k \in OfItem(s, i)
        /\ \A x : ComesTo(s, <<>>, p, k, x) <=> w = x
    BY <1>3, <2>1, <2>3
  <2>6. Calm(i, d, s, <<>>, p, w)
    <3>1. /\ \A m, n \in OfItem(d, i) : m = n
          /\ \A m, n \in OfItem(s, i) : m = n
          /\ \A m \in OfItem(d, i) : m > 0 => m \in OfItem(s, i) /\ ComesTo(s, <<>>, p, m, d[m].quantity)
          /\ \A m \in OfItem(s, i) \ OfItem(d, i) : ComesTo(s, <<>>, p, m, 0)
          /\ \A m \in OfItem(d, i) : ~(m < 0)
      BY <2>4, <2>5
    <3>2. /\ \A m \in OfItem(s, i) : ComesTo(s, <<>>, p, m, w)
          /\ OfItem(s, i) # {}
      BY <2>5
    <3> QED BY <1>4, <3>1, <3>2, NoneInEmpty DEF Calm
  <2> QED BY <2>6 DEF s, p
<1> QED BY <1>8, <1>9 DEF s, c, p

\* What the end of a flush leaves in the queue, and what it sends again.
LEMMA EndFlushHas ==
  ASSUME Typing, queue # <<>>, EndFlush
  PROVE  /\ \/ pending' = <<>> /\ batch' = Sendable(pending)
            \/ pending' = pending /\ batch' = <<>>
         /\ \A x : (\E n \in DOMAIN queue' : queue'[n] = x) => x = Batch \/ \E n \in DOMAIN queue : queue[n] = x
<1>1. /\ \/ pending' = <<>> /\ batch' = Sendable(pending)
         \/ pending' = pending /\ batch' = <<>>
      /\ queue' = Tail(queue) \/ queue' = Append(Tail(queue), Batch)
  BY DEF EndFlush, Flush
<1> PICK t : t = Tail(queue) OBVIOUS
<1>2. /\ t \in Seq(Element) /\ Len(queue) \in Nat /\ Len(t) = Len(queue) - 1
      /\ \A n \in 1..Len(t) : t[n] = queue[n + 1]
      /\ DOMAIN queue = 1..Len(queue) /\ DOMAIN t = 1..Len(t) /\ Len(t) \in Nat
  BY QueueIs
<1>3. \A n \in DOMAIN t : \E m \in DOMAIN queue : t[n] = queue[m]
  <2> TAKE n \in DOMAIN t
  <2>1. n + 1 \in DOMAIN queue /\ t[n] = queue[n + 1] BY <1>2
  <2> QED BY <2>1
<1>4. CASE queue' = t BY <1>1, <1>3, <1>4
<1>5. CASE queue' = Append(t, Batch)
  <2>1. Batch \in Element BY DEF Element
  <2> PICK e \in Element : e = Batch BY <2>1
  <2> PICK q : q = queue' OBVIOUS
  <2>a. q = Append(t, e) BY <1>5
  <2>b. q \in Seq(Element) /\ Len(q) = Len(t) + 1 /\ q[Len(t) + 1] = e
        /\ \A n \in 1..Len(t) : q[n] = t[n]
    BY <1>2, <2>a, AppendProperties
  <2>2. /\ DOMAIN queue' = 1..(Len(t) + 1) /\ queue'[Len(t) + 1] = Batch
        /\ \A n \in 1..Len(t) : queue'[n] = t[n]
    BY <2>b
  <2>3. \A n \in 1..(Len(t) + 1) : n = Len(t) + 1 \/ n \in 1..Len(t)
    <3> PICK k \in Nat : k = Len(t) BY <1>2
    <3>1. \A n \in 1..(k + 1) : n = k + 1 \/ n \in 1..k OBVIOUS
    <3> QED BY <3>1
  <2>4. \A x : (\E n \in DOMAIN queue' : queue'[n] = x) => x = Batch \/ \E n \in DOMAIN queue : queue[n] = x
    BY <1>2, <1>3, <2>2, <2>3
  <2> QED BY <1>1, <2>4
<1> QED BY <1>1, <1>4, <1>5

\* The answer of a batch keeps what it was, of every item.
LEMMA AnswerKeeps ==
  ASSUME Typing, Typing', ShownFollows, Keeping, TakeAnswer
  PROVE  Keeping'
<1>1. /\ queue # <<>> /\ Head(queue) = Batch /\ phase # "start" /\ phase' = "start"
      /\ (phase \in {"answered", "refused"} /\ shown' = ServerCart) \/ phase = "lost"
      /\ contended' = contended \cup Overtaken(pending) /\ EndFlush /\ answer' = EmptyCart
      /\ UNCHANGED <<server, made, taps, wanted>>
  BY DEF TakeAnswer
<1>2. contended \subseteq contended' /\ contended' \subseteq Item BY <1>1 DEF Typing, TypeOK
<1> SUFFICES ASSUME contended' # Item
             PROVE  IdsAreApart' /\ OneEach(pending') /\ OneEach(batch')
                    /\ \A i \in Item \ contended' : IsKept(i)'
  <2>1. phase' # "lost" BY <1>1
  <2> QED BY <2>1, KeepingNext
<1>3. IdsAreApart /\ OneEach(pending) /\ \A i \in Item \ contended : IsKept(i)
  BY <1>2 DEF Keeping
<1>4. phase \in {"answered", "refused"} /\ shown' = ServerCart
  <2>1. phase # "lost" BY <1>2 DEF Keeping
  <2> QED BY <1>1, <2>1
<1>5. answer = server BY <1>1, <1>4 DEF ShownFollows, AnswerIsServer
<1>6. shown' = IF pending = <<>> THEN server ELSE mergeServerCartWithLocalPending(server, shown)
  BY <1>4, <1>5 DEF ServerCart
<1>7. /\ Cart(server) /\ Cart(shown) /\ Cart(shown') /\ pending \in Seq(Meant)
      /\ taps \in Nat /\ made \in Nat
      /\ \A l \in DOMAIN server : l > 0
  BY LinesTyped, LeavingTyped DEF Typing
<1>8. /\ \/ pending' = <<>> /\ batch' = Sendable(pending)
         \/ pending' = pending /\ batch' = <<>>
      /\ \A x : (\E n \in DOMAIN queue' : queue'[n] = x) => x = Batch \/ \E n \in DOMAIN queue : queue[n] = x
  BY <1>1, EndFlushHas
<1>9. /\ OneEach(pending') /\ OneEach(batch')
      /\ \A n \in DOMAIN batch' : \E m \in DOMAIN pending : batch'[n] = pending[m]
      /\ \A n \in DOMAIN pending' : n \in DOMAIN pending /\ pending'[n] = pending[n]
  <2>1. CASE pending' = <<>> /\ batch' = Sendable(pending)
    <3> PICK b : b = Sendable(pending) OBVIOUS
    <3>1. OneEach(b) /\ \A n \in DOMAIN b : \E m \in DOMAIN pending : b[n] = pending[m]
      BY <1>3, <1>7, SendableHas
    <3> QED BY <2>1, <3>1, NoneInEmpty
  <2>2. CASE pending' = pending /\ batch' = <<>> BY <1>3, <2>2, NoneInEmpty
  <2> QED BY <1>8, <2>1, <2>2
<1>10. \A j : OfItem(shown', j) \subseteq OfItem(server, j) \cup OfItem(shown, j)
  <2> TAKE j
  <2>1. CASE pending = <<>> BY <1>6, <2>1
  <2>2. CASE pending # <<>>
    <3>1. shown' = mergeServerCartWithLocalPending(server, shown) BY <1>6, <2>2
    <3> PICK d : d = shown' OBVIOUS
    <3>2. OfItem(d, j) = OfItem(server, j) \cup {m \in OfItem(shown, j) :
             m \notin DOMAIN server /\ (m > 0 \/ OfItem(server, j) = {})}
      BY <1>7, <3>1, MergeOf
    <3> QED BY <3>2
  <2> QED BY <2>1, <2>2
<1>11. IdsAreApart'
  <2>1. ASSUME NEW k \in Int, NEW j \in Item, Names(k, j)' PROVE Names(k, j)
    <3>1. (\E n \in DOMAIN queue' : queue'[n] = <<k, j>>) => \E n \in DOMAIN queue : queue[n] = <<k, j>>
      <4>1. <<k, j>> # Batch BY DEF Batch
      <4> QED BY <1>8, <4>1
    <3>2. (\E n \in DOMAIN batch' : batch'[n].line = k /\ batch'[n].item = j) =>
             \E n \in DOMAIN pending : pending[n].line = k /\ pending[n].item = j
      BY <1>9
    <3>3. (\E n \in DOMAIN pending' : pending'[n].line = k /\ pending'[n].item = j) =>
             \E n \in DOMAIN pending : pending[n].line = k /\ pending[n].item = j
      BY <1>9
    <3>4. k \notin OfItem(answer', j) BY <1>1, EmptyIsCart DEF OfItem
    <3>5. k \in OfItem(server', j) => k \in OfItem(server, j) BY <1>1
    <3> QED BY <1>10, <2>1, <3>1, <3>2, <3>3, <3>4, <3>5 DEF Names
  <2>2. taps' \in Nat /\ made' \in Nat /\ taps' >= taps /\ made' >= made BY <1>1, <1>7
  <2>3. \A k \in Int, j \in Item : Names(k, j)' => Names(k, j) BY <2>1
  <2> QED BY <1>3, <1>7, <2>2, <2>3, ApartStay, Zenon
<1>12. ASSUME NEW i \in Item \ contended' PROVE Calm(i, shown', server, <<>>, pending, wanted[i])
  <2> PICK w : w = wanted[i] OBVIOUS
  <2>1. /\ i \in Item
        /\ Calm(i, shown, server, <<>>, pending, w) \/ JustAdded(i, shown, server, pending, w)
    <3>1. IsKept(i) BY <1>2, <1>3
    <3>2. ~DialogOf(i) /\ Coming = <<>> BY <1>1 DEF DialogOf, Dialog, Coming, AtServer
    <3> QED BY <3>1, <3>2 DEF IsKept
  <2>2. CASE pending = <<>>
    <3>1. Calm(i, shown, server, <<>>, <<>>, w) \/ JustAdded(i, shown, server, <<>>, w) BY <2>1, <2>2
    <3>2. Calm(i, server, server, <<>>, <<>>, w) BY <1>7, <2>1, <3>1, CalmServer
    <3> QED BY <1>6, <2>2, <3>2
  <2>3. CASE pending # <<>> /\ ~Of(pending, i)
    <3> PICK d : d = mergeServerCartWithLocalPending(server, shown) OBVIOUS
    <3>1. Calm(i, d, server, <<>>, pending, w) BY <1>3, <2>1, <2>3, MergeIsCalm
    <3> QED BY <1>6, <2>3, <3>1
  <2>4. CASE Of(pending, i)
    <3>1. SameLines(shown, shown', i) BY <1>1, <2>1, <2>4 DEF Overtaken, Of
    <3>2. Calm(i, shown, server, <<>>, pending, w) BY <2>1, <2>4 DEF JustAdded
    <3> PICK d : d = shown' OBVIOUS
    <3>3. SameLines(shown, d, i) BY <3>1
    <3>4. Calm(i, d, server, <<>>, pending, w) BY <3>2, <3>3, CalmSame
    <3> QED BY <3>4
  <2> QED BY <2>2, <2>3, <2>4
<1>13. ASSUME NEW i \in Item \ contended' PROVE IsKept(i)'
  <2> PICK w : w = wanted[i] OBVIOUS
  <2> PICK d : d = shown' OBVIOUS
  <2>1. Calm(i, d, server, <<>>, pending, w) BY <1>12
  <2>2. Calm(i, d, server, batch', pending', w)
    <3>1. CASE pending' = <<>> /\ batch' = Sendable(pending)
      <4>1. Cart(d) BY <1>7
      <4>2. Calm(i, d, server, Sendable(pending), <<>>, w)
        BY <1>3, <1>7, <2>1, <4>1, FlushIsCalm
      <4> QED BY <3>1, <4>2
    <3>2. CASE pending' = pending /\ batch' = <<>> BY <2>1, <3>2
    <3> QED BY <1>8, <3>1, <3>2
  <2>3. ~DialogOf(i)' /\ ~Dialog' /\ Coming' = batch' BY <1>1 DEF DialogOf, Dialog, Coming, AtServer
  <2>4. Calm(i, shown', server', Coming', pending', wanted'[i]) BY <1>1, <2>2, <2>3
  <2> QED BY <2>3, <2>4, IsKeptNext
<1> QED BY <1>9, <1>11, <1>13

\* The sum of two is both.
LEMMA SumOfTwo ==
  ASSUME NEW S, NEW h \in [S -> Nat], NEW k, NEW l, k # l, S = {k, l}
  PROVE  SumOf(h, S) = h[k] + h[l]
<1>1. IsFiniteSet({l}) /\ IsFiniteSet(S)
  <2>1. IsFiniteSet({}) BY FS_EmptySet
  <2>2. IsFiniteSet({l}) BY <2>1, FS_AddElement
  <2>3. IsFiniteSet({l} \cup {k}) BY <2>2, FS_AddElement
  <2> QED BY <2>2, <2>3
<1>2. PICK f : IsFold(f, S, h) BY <1>1, FoldExists
<1>3. /\ f[{}] = 0
      /\ \A s \in SUBSET S : \A x \in s : f[s] = h[x] + f[s \ {x}]
  BY <1>1, <1>2, FoldIs
<1>4. f[S] = SumOf(h, S) BY <1>1, <1>2, SumIs
<1>5. S \ {k} = {l} /\ {l} \ {l} = {} OBVIOUS
<1>6. {l} \in SUBSET S /\ S \in SUBSET S /\ k \in S /\ l \in {l} OBVIOUS
<1>7. f[S] = h[k] + f[{l}] /\ f[{l}] = h[l] + f[{}] BY <1>3, <1>5, <1>6
<1>8. h[k] \in Nat /\ h[l] \in Nat OBVIOUS
<1> QED BY <1>3, <1>4, <1>7, <1>8

\* Of two lines there is what is on both.
LEMMA QuantityOfTwo ==
  ASSUME NEW c, Cart(c), NEW i, NEW k, NEW l, k # l, OfItem(c, i) = {k, l}
  PROVE  Quantity(c, i) = c[k].quantity + c[l].quantity
<1> DEFINE h == Quantities(c, i)
           S == OfItem(c, i)
<1>1. h \in [S -> Nat] /\ Quantity(c, i) = SumOf(h, S) BY QuantityIsSum
<1>2. h[k] = c[k].quantity /\ h[l] = c[l].quantity BY DEF Quantities
<1>3. S = {k, l} OBVIOUS
<1> HIDE DEF h, S
<1>4. SumOf(h, S) = h[k] + h[l] BY <1>1, <1>3, SumOfTwo
<1> QED BY <1>1, <1>2, <1>4

\* A cart with one more of an item, on its line or on the next one.
OneMore(c, n, i, d, m) ==
  /\ m \in Nat /\ m >= n
  /\ \A l \in DOMAIN d : \/ l = n + 1 /\ m = n + 1 /\ d[l].item = i
                         \/ l \in DOMAIN c /\ d[l].item = c[l].item
  /\ \A j : j # i => SameLines(c, d, j)
  /\ OfItem(c, i) = {} => OfItem(d, i) = {n + 1} /\ d[n + 1].quantity = 1
  /\ \A l : OfItem(c, i) = {l} => OfItem(d, i) = {l} /\ d[l].quantity = c[l].quantity + 1

\* So the server adds it.
LEMMA AddToHas ==
  ASSUME NEW r \in Served, NEW i \in Item, NEW a, a = AddTo(r, i, 1)
  PROVE  OneMore(r.cart, r.made, i, a.cart, a.made)
<1>1. /\ Cart(r.cart) /\ r.made \in Nat
      /\ DOMAIN r.cart \subseteq 1..r.made
  BY DEF Served
<1> PICK c : c = r.cart OBVIOUS
<1>2. CASE OfItem(c, i) = {}
  <2> PICK l : l = r.made + 1 OBVIOUS
  <2> PICK p : p = Put(c, l, i, 1) OBVIOUS
  <2>1. a = Result(p, l, r.refusals) BY <1>2 DEF AddTo
  <2>2. a.cart = p /\ a.made = l BY <2>1 DEF Result
  <2>3. l \notin DOMAIN c BY <1>1
  <2>4. /\ DOMAIN p = DOMAIN c \cup {l} /\ p[l].item = i /\ p[l].quantity = 1
        /\ \A k \in DOMAIN c : p[k] = c[k]
    BY <2>3 DEF Put
  <2>5. \A j : j # i => SameLines(c, p, j)
    <3> TAKE j
    <3> HAVE j # i
    <3>1. \A k : k \in OfItem(c, j) <=> k \in OfItem(p, j) BY <2>3, <2>4 DEF OfItem
    <3>2. \A k \in OfItem(c, j) : c[k] = p[k] BY <2>4 DEF OfItem
    <3> QED BY <3>1, <3>2, SameLinesAre
  <2>6. \A k : k \in OfItem(p, i) <=> k = l BY <1>2, <2>4 DEF OfItem
  <2>7. OfItem(p, i) = {l} BY <2>6
  <2>8. l \in Nat /\ l >= r.made BY <1>1
  <2>9. \A k \in DOMAIN p : \/ k = l /\ p[k].item = i
                            \/ k \in DOMAIN c /\ p[k].item = c[k].item
    BY <2>4
  <2> QED BY <1>2, <2>2, <2>4, <2>5, <2>7, <2>8, <2>9 DEF OneMore
<1>3. CASE OfItem(c, i) # {}
  <2>1. PICK l : l \in OfItem(c, i) /\ a = Result(Put(c, l, i, c[l].quantity + 1), r.made, r.refusals)
    BY <1>3 DEF AddTo
  <2> PICK p : p = Put(c, l, i, c[l].quantity + 1) OBVIOUS
  <2>2. a.cart = p /\ a.made = r.made BY <2>1 DEF Result
  <2>3. l \in DOMAIN c /\ c[l].item = i BY <2>1 DEF OfItem
  <2>4. /\ DOMAIN p = DOMAIN c /\ p[l].item = i /\ p[l].quantity = c[l].quantity + 1
        /\ \A k \in DOMAIN c : k # l => p[k] = c[k]
    BY <2>3 DEF Put
  <2>5. \A j : j # i => SameLines(c, p, j)
    <3> TAKE j
    <3> HAVE j # i
    <3>1. \A k : k \in OfItem(c, j) <=> k \in OfItem(p, j) BY <2>3, <2>4 DEF OfItem
    <3>2. \A k \in OfItem(c, j) : c[k] = p[k] BY <2>3, <2>4 DEF OfItem
    <3> QED BY <3>1, <3>2, SameLinesAre
  <2>6. \A k : k \in OfItem(p, i) <=> k \in OfItem(c, i) BY <2>3, <2>4 DEF OfItem
  <2>7. OfItem(p, i) = OfItem(c, i) BY <2>6
  <2>8. \A k \in DOMAIN p : k \in DOMAIN c /\ p[k].item = c[k].item BY <2>3, <2>4
  <2>9. \A k : OfItem(c, i) = {k} => k = l BY <2>1
  <2> QED BY <1>1, <1>3, <2>2, <2>4, <2>5, <2>7, <2>8, <2>9 DEF OneMore
<1> QED BY <1>2, <1>3

\* Which of its lines the server has is all that counts for an item.
LEMMA CalmSameServed ==
  ASSUME NEW i, NEW s, NEW t, SameLines(s, t, i), NEW c, NEW b, NEW p, NEW w, Calm(i, c, s, b, p, w)
  PROVE  Calm(i, c, t, b, p, w)
<1>1. OfItem(s, i) = OfItem(t, i) BY DEF SameLines
<1>2. \A l \in OfItem(s, i) : \A x : ComesTo(s, b, p, l, x) => ComesTo(t, b, p, l, x)
  BY DEF SameLines, ComesTo
<1> QED BY <1>1, <1>2 DEF Calm

\* What is on its way does not matter to an item that it has no operation of.
LEMMA CalmWithout ==
  ASSUME Typing, IdsAreApart, NEW i \in Item, ~Of(batch, i), ~Of(pending, i), NEW w,
         NEW c, \A l \in OfItem(c, i) : l \in Int /\ Names(l, i)
  PROVE  Calm(i, c, server, batch, pending, w) <=> Calm(i, c, server, <<>>, pending, w)
<1> PICK s : s = server OBVIOUS
<1>1. \A l \in OfItem(s, i) : l \in Int /\ Names(l, i) BY LinesTyped DEF OfItem, Names
<1>2. \A l \in OfItem(s, i) \cup OfItem(c, i) : ~On(batch, l) /\ ~On(pending, l)
  BY <1>1, NoneOn
<1> PICK b, p : b = batch /\ p = pending OBVIOUS
<1>3. \A l \in OfItem(s, i) \cup OfItem(c, i) : ~On(b, l) /\ ~On(p, l) BY <1>2
<1>4. \A l \in OfItem(s, i) \cup OfItem(c, i) : \A x :
        ComesTo(s, b, p, l, x) <=> ComesTo(s, <<>>, p, l, x)
  BY <1>3, NoneInEmpty DEF ComesTo
<1>5. \A l \in OfItem(c, i) : \A x : ~Sets(b, l, x) BY <1>3 DEF On, Sets
<1>6. AddsOf(b, i) = {} /\ ~\E n \in DOMAIN b : b[n].item = i BY DEF AddsOf, Of
<1>7. Calm(i, c, s, b, p, w) => Calm(i, c, s, <<>>, p, w)
  BY <1>3, <1>4, <1>5, <1>6, NoneInEmpty DEF Calm
<1>8. Calm(i, c, s, <<>>, p, w) => Calm(i, c, s, b, p, w)
  BY <1>3, <1>4, <1>5, <1>6, NoneInEmpty DEF Calm
<1> QED BY <1>7, <1>8

\* An item that is calm and has no operation is the same on the page and on the server.
LEMMA CalmIsSame ==
  ASSUME Typing, IdsAreApart, NEW i \in Item, ~Of(batch, i), ~Of(pending, i), NEW w,
         Calm(i, shown, server, batch, pending, w)
  PROVE  /\ OfItem(server, i) \subseteq OfItem(shown, i)
         /\ \A k, l \in OfItem(shown, i) : k = l
         /\ \A l \in OfItem(server, i) : shown[l] = server[l] /\ server[l].quantity = w
         /\ \A l \in OfItem(shown, i) \ OfItem(server, i) : l < 0 /\ i \notin Configured
         /\ OfItem(server, i) = {} => w = 0
<1> PICK s : s = server OBVIOUS
<1> PICK c : c = shown OBVIOUS
<1>1. /\ \A l \in OfItem(s, i) : l \in Int /\ l > 0 /\ s[l].quantity \in Nat \ {0} /\ s[l] \in Line
      /\ \A l \in OfItem(c, i) : l \in Int /\ c[l] \in Line /\ Names(l, i)
  BY LinesTyped DEF OfItem, Names, Typing, Cart
<1>2. \A l \in OfItem(s, i) : ~On(batch, l) /\ ~On(pending, l)
  BY <1>1, NoneOn DEF Names
<1>3. \A l \in OfItem(s, i) : \A x : ComesTo(s, batch, pending, l, x) <=> s[l].quantity = x
  BY <1>2 DEF ComesTo
<1>4. AddsOf(batch, i) \cup AddsOf(pending, i) = {} BY DEF AddsOf, Of
<1>5. /\ \A k, l \in OfItem(c, i) : k = l
      /\ \A l \in OfItem(c, i) : l > 0 => l \in OfItem(s, i) /\ s[l].quantity = c[l].quantity
      /\ \A l \in OfItem(s, i) \ OfItem(c, i) : s[l].quantity = 0
      /\ \A l \in OfItem(c, i) : l < 0 => i \notin Configured
      /\ \A l \in OfItem(s, i) : s[l].quantity = w
      /\ OfItem(s, i) = {} => w = 0
  BY <1>3, <1>4 DEF Calm
<1>6. OfItem(s, i) \subseteq OfItem(c, i) BY <1>1, <1>5
<1>7. \A l \in OfItem(c, i) \ OfItem(s, i) : l < 0
  <2> TAKE l \in OfItem(c, i) \ OfItem(s, i)
  <2>1. l # 0 BY <1>1 DEF IdsAreApart
  <2>2. ~(l > 0) BY <1>5
  <2> QED BY <1>1, <2>1, <2>2
<1>8. \A l \in OfItem(s, i) : c[l] = s[l]
  <2> TAKE l \in OfItem(s, i)
  <2>1. c[l] \in Line /\ s[l] \in Line BY <1>1, <1>6
  <2>2. c[l].item = i /\ s[l].item = i BY <1>6 DEF OfItem
  <2>3. c[l].quantity = s[l].quantity BY <1>1, <1>5, <1>6
  <2> QED BY <2>1, <2>2, <2>3 DEF Line
<1> QED BY <1>5, <1>6, <1>7, <1>8

\* A dialog that shows its line can go back to the page before it.
LEMMA CalmGoesBack ==
  ASSUME Typing, IdsAreApart, NEW i \in Item, NEW w, Calm(i, shown, server, batch, pending, w)
  PROVE  CanGoBack(i, shown, server)
<1> PICK s : s = server OBVIOUS
<1> PICK c : c = shown OBVIOUS
<1>1. /\ \A l \in OfItem(s, i) : l \in Int /\ l > 0 /\ s[l].quantity # 0
      /\ \A l \in OfItem(c, i) : l \in Int
  BY LinesTyped DEF OfItem
<1>2. \A l \in OfItem(s, i) : \A x :
        ComesTo(s, batch, pending, l, x) => On(batch, l) \/ On(pending, l) \/ s[l].quantity = x
  BY DEF ComesTo
<1>3. /\ \A k, l \in OfItem(c, i) : k = l
      /\ \A l \in OfItem(c, i) : l > 0 => l \in OfItem(s, i) /\ ComesTo(s, batch, pending, l, c[l].quantity)
      /\ \A l \in OfItem(s, i) \ OfItem(c, i) : ComesTo(s, batch, pending, l, 0)
      /\ \A l \in OfItem(c, i) : l < 0 => i \notin Configured
  BY DEF Calm
<1>4. \A l \in OfItem(s, i) \ OfItem(c, i) : On(batch, l) \/ On(pending, l) BY <1>1, <1>2, <1>3
<1>5. \A l \in OfItem(c, i) : l < 0 => \A k \in OfItem(s, i) : On(batch, k) \/ On(pending, k)
  <2> TAKE l \in OfItem(c, i)
  <2> HAVE l < 0
  <2> TAKE k \in OfItem(s, i)
  <2>1. k \notin OfItem(c, i) BY <1>1, <1>3
  <2> QED BY <1>4, <2>1
<1>6. \A l \in OfItem(c, i) : l > 0 => l \in OfItem(s, i) /\
        (On(batch, l) \/ On(pending, l) \/ c[l].quantity = s[l].quantity)
  BY <1>2, <1>3
<1> QED BY <1>3, <1>4, <1>5, <1>6 DEF CanGoBack

\* What a dialog's step starts from.
LEMMA DialogIs ==
  ASSUME Typing, QueueHasBatch, NEW i \in Configured, Adding(i)
  PROVE  /\ i \in Item /\ queue # <<>> /\ Head(queue) # Batch /\ Head(queue)[2] = i
         /\ Head(queue)[1] \in Int /\ Head(queue)[1] < 0
         /\ Head(queue) = <<Head(queue)[1], i>> /\ Names(Head(queue)[1], i)
         /\ ~AtServer /\ Coming = batch /\ (Dialog <=> phase # "start")
         /\ \A j : DialogOf(j) <=> phase # "start" /\ j = i
<1>1. queue # <<>> /\ Head(queue) # Batch /\ Head(queue)[2] = i BY DEF Adding
<1>2. Head(queue)[1] \in Int /\ i \in Item BY <1>1, QueueIs, CartSyncAssumption
<1>3. Head(queue)[1] < 0 BY <1>1, TailIs
<1>4. Head(queue) = <<Head(queue)[1], i>>
  <2>1. Head(queue) \in Element BY <1>1, QueueIs
  <2>2. Head(queue) \in Int \X Configured BY <1>1, <2>1 DEF Element
  <2> QED BY <1>1, <2>2
<1>5. 1 \in DOMAIN queue /\ queue[1] = Head(queue)
  <2>1. Head(queue) = queue[1] /\ Len(queue) \in Nat \ {0} /\ queue \in Seq(Element) BY <1>1, QueueIs
  <2>2. DOMAIN queue = 1..Len(queue) BY <2>1, LenProperties
  <2> QED BY <2>1, <2>2
<1>6. Names(Head(queue)[1], i) BY <1>4, <1>5 DEF Names
<1>7. ~AtServer /\ Coming = batch BY <1>1 DEF AtServer, Coming
<1>8. Dialog <=> phase # "start" BY <1>1 DEF Dialog
<1>9. \A j : DialogOf(j) <=> phase # "start" /\ j = i BY <1>1, <1>8 DEF DialogOf
<1> QED BY <1>1, <1>2, <1>3, <1>4, <1>6, <1>7, <1>8, <1>9

\* A dialog's line on the page keeps what was, of every item.
LEMMA ShowKeeps ==
  ASSUME Typing, Typing', QueueHasBatch, Keeping, NEW i \in Configured, ShowConfigured(i)
  PROVE  Keeping'
<1> PICK d : d = Head(queue)[1] OBVIOUS
<1>1. /\ phase = "start" /\ phase' = "sent" /\ answer' = shown /\ shown' = Put(shown, d, i, 1)
      /\ wanted' = [wanted EXCEPT ![i] = Quantity(shown', i)]
      /\ contended' = IF \E o \in Range(pending) \cup Range(batch) : o.item = i
                      THEN contended \cup {i} ELSE contended
      /\ UNCHANGED <<pending, batch, server, made, taps, queue>>
  BY DEF ShowConfigured
<1>2. /\ i \in Item /\ queue # <<>> /\ Head(queue) # Batch /\ Head(queue)[2] = i
      /\ d \in Int /\ d < 0 /\ Names(d, i)
      /\ ~AtServer /\ Coming = batch /\ ~Dialog /\ \A j : ~DialogOf(j)
  <2>1. Adding(i) BY DEF ShowConfigured
  <2> QED BY <1>1, <2>1, DialogIs
<1>3. /\ Coming' = batch /\ ~AtServer' /\ Dialog' /\ \A j : DialogOf(j)' <=> j = i
  <2>1. Dialog' BY <1>1, <1>2 DEF Dialog
  <2>2. ~AtServer' BY <1>1, <1>2 DEF AtServer
  <2>3. Coming' = batch BY <1>1, <2>2 DEF Coming
  <2> QED BY <1>1, <1>2, <2>1, <2>2, <2>3 DEF DialogOf
<1>4. contended \subseteq contended' /\ contended' \subseteq Item BY <1>1 DEF Typing, TypeOK
<1> SUFFICES ASSUME contended' # Item
             PROVE  IdsAreApart' /\ OneEach(pending') /\ OneEach(batch')
                    /\ \A j \in Item \ contended' : IsKept(j)'
  <2>1. phase' # "lost" BY <1>1
  <2> QED BY <2>1, KeepingNext
<1>5. IdsAreApart /\ OneEach(pending) /\ OneEach(batch) /\ \A j \in Item \ contended : IsKept(j)
  BY <1>4 DEF Keeping
<1>6. /\ Cart(shown) /\ Cart(shown') /\ Cart(server) /\ taps \in Nat /\ made \in Nat
      /\ pending \in Seq(Meant) /\ batch \in Seq(Meant) /\ wanted \in [Item -> Nat]
  BY LeavingTyped DEF Typing, TypeOK
<1>7. /\ DOMAIN shown' = DOMAIN shown \cup {d} /\ shown'[d].item = i /\ shown'[d].quantity = 1
      /\ \A k \in DOMAIN shown : k # d => shown'[k] = shown[k]
  BY <1>1 DEF Put
<1>8. \A j \in Item : OfItem(shown', j) \subseteq OfItem(shown, j) \cup (IF j = i THEN {d} ELSE {})
  BY <1>7 DEF OfItem
<1>9. IdsAreApart'
  <2>1. ASSUME NEW k \in Int, NEW j \in Item, Names(k, j)' PROVE Names(k, j)
    <3>1. k \in OfItem(shown', j) => k \in OfItem(shown, j) \/ (k = d /\ j = i) BY <1>8
    <3>2. UNCHANGED <<server, pending, batch, queue>> /\ answer' = shown BY <1>1
    <3> QED BY <1>2, <2>1, <3>1, <3>2 DEF Names
  <2>2. taps' \in Nat /\ made' \in Nat /\ taps' >= taps /\ made' >= made BY <1>1, <1>6
  <2>3. \A k \in Int, j \in Item : Names(k, j)' => Names(k, j) BY <2>1
  <2> QED BY <1>5, <1>6, <2>2, <2>3, ApartStay, Zenon
<1>10. OneEach(pending') /\ OneEach(batch') BY <1>1, <1>5
<1>11. \A j \in Item \ contended : Calm(j, shown, server, batch, pending, wanted[j])
  BY <1>2, <1>5 DEF IsKept
<1>12. ASSUME i \notin contended' PROVE IsKept(i)'
  <2> PICK c : c = shown' OBVIOUS
  <2> PICK s : s = server OBVIOUS
  <2>1. ~Of(batch, i) /\ ~Of(pending, i)
    <3>1. ~\E o \in Range(pending) \cup Range(batch) : o.item = i BY <1>1, <1>12
    <3> QED BY <3>1 DEF Of, Range
  <2>2. i \in Item \ contended BY <1>2, <1>4, <1>12
  <2>3. /\ OfItem(s, i) \subseteq OfItem(shown, i)
        /\ \A k, l \in OfItem(shown, i) : k = l
        /\ \A l \in OfItem(s, i) : shown[l] = s[l]
        /\ \A l \in OfItem(shown, i) \ OfItem(s, i) : l < 0 /\ i \notin Configured
    BY <1>5, <1>11, <2>1, <2>2, CalmIsSame
  <2>4. OfItem(shown, i) = OfItem(s, i) BY <2>3
  <2>5. \A l \in OfItem(s, i) : l \in Int /\ l > 0 /\ s[l].quantity \in Nat BY LinesTyped DEF OfItem
  <2>6. d \notin OfItem(s, i) BY <1>2, <2>5
  <2>7. d \notin DOMAIN shown BY <1>2, <1>5, <1>6, <2>4, <2>6 DEF IdsAreApart, Names, OfItem, Cart, Line
  <2>8. /\ OfItem(c, i) = OfItem(s, i) \cup {d} /\ d \in OfItem(c, i)
        /\ \A l \in OfItem(s, i) : c[l] = s[l]
    <3>1. \A l : l \in OfItem(c, i) <=> l \in OfItem(shown, i) \/ l = d
      BY <1>7, <2>7 DEF OfItem
    <3>2. \A l \in OfItem(s, i) : c[l] = shown[l] BY <1>7, <2>3, <2>7 DEF OfItem
    <3> QED BY <2>3, <2>4, <3>1, <3>2
  <2>9. c[d].quantity = 1 BY <1>7
  <2>10. \A l \in OfItem(s, i) : Quantity(c, i) = s[l].quantity + 1
    <3> TAKE l \in OfItem(s, i)
    <3>1. OfItem(c, i) = {l, d} BY <2>3, <2>4, <2>8
    <3>2. l # d BY <2>6
    <3>3. Cart(c) BY <1>6
    <3>4. Quantity(c, i) = c[l].quantity + c[d].quantity BY <3>1, <3>2, <3>3, QuantityOfTwo
    <3> QED BY <2>8, <2>9, <3>4
  <2>11. OfItem(s, i) = {} => Quantity(c, i) = 1
    <3> HAVE OfItem(s, i) = {}
    <3>1. OfItem(c, i) = {d} BY <2>8
    <3> QED BY <1>6, <2>9, <3>1, QuantityOfFew
  <2>12. wanted'[i] = Quantity(c, i) BY <1>1, <1>2, <1>6
  <2>13. \A k, l \in OfItem(s, i) : k = l BY <2>3
  <2>14. CalmDialog(i, shown, server, Head(queue)[1], wanted[i])'
    <3>1. /\ ~Of(batch', i) /\ ~Of(pending', i) /\ phase' = "sent" /\ server' = s /\ shown' = c
          /\ Head(queue')[1] = d
      BY <1>1, <2>1
    <3>2. \A l \in OfItem(s, i) : c[l].quantity = s[l].quantity /\ wanted'[i] = s[l].quantity + 1
      BY <2>8, <2>10, <2>12
    <3> QED BY <2>8, <2>9, <2>11, <2>12, <2>13, <3>1, <3>2 DEF CalmDialog
  <2> QED BY <1>2, <1>3, <2>14, IsKeptNext
<1>13. ASSUME NEW j \in Item \ contended', j # i PROVE IsKept(j)'
  <2> PICK w : w = wanted[j] OBVIOUS
  <2> PICK c : c = shown' OBVIOUS
  <2>1. Calm(j, shown, server, batch, pending, w) BY <1>4, <1>11, <1>13
  <2>2. d \notin OfItem(shown, j) BY <1>2, <1>5, <1>13 DEF IdsAreApart, Names
  <2>3. SameLines(shown, c, j)
    <3>1. \A l : l \in OfItem(shown, j) <=> l \in OfItem(c, j) BY <1>7, <1>13, <2>2 DEF OfItem
    <3>2. \A l \in OfItem(shown, j) : shown[l] = c[l] BY <1>7, <2>2 DEF OfItem
    <3> QED BY <3>1, <3>2, SameLinesAre
  <2>4. Calm(j, c, server, batch, pending, w) BY <2>1, <2>3, CalmSame
  <2>5. wanted'[j] = w BY <1>1, <1>6, <1>13
  <2>6. Calm(j, shown', server', Coming', pending', wanted'[j]) BY <1>1, <1>3, <2>4, <2>5
  <2>7. CanGoBack(j, shown, server) BY <1>5, <2>1, CalmGoesBack
  <2>8. CanGoBack(j, answer, server)' BY <1>1, <2>7 DEF CanGoBack
  <2> QED BY <1>3, <1>13, <2>6, <2>8, IsKeptNext
<1> QED BY <1>2, <1>9, <1>10, <1>12, <1>13

\* So it does for a dialog.
LEMMA DialogServes ==
  ASSUME Typing, NEW i \in Item, NEW r, r = AddTo(Result(server, made, {}), i, 1)
  PROVE  OneMore(server, made, i, r.cart, r.made)
<1> DEFINE b == Result(server, made, {})
<1>1. CartsTyped BY TypingParts
<1>2. b \in Served BY <1>1, ServedIs DEF CartsTyped
<1>3. b.cart = server /\ b.made = made BY DEF Result
<1> HIDE DEF b
<1>4. r = AddTo(b, i, 1) BY DEF b
<1>5. OneMore(b.cart, b.made, i, r.cart, r.made) BY <1>2, <1>4, AddToHas
<1> QED BY <1>3, <1>5

\* The line it adds is new.
LEMMA NextId ==
  ASSUME NEW a \in Nat, NEW b \in Nat, NEW c \in Nat
  PROVE  b + 1 \in (-a)..(b + 1) \ {0} /\ b + 1 \notin (-c)..b /\ b + 1 \in Int
OBVIOUS

\* The server's part of a dialog keeps what was, of every item.
LEMMA TakeKeeps ==
  ASSUME Typing, Typing', QueueHasBatch, Keeping, NEW i \in Configured, TakeConfigured(i)
  PROVE  Keeping'
<1> PICK d : d = Head(queue)[1] OBVIOUS
<1>1. /\ phase = "sent"
      /\ UNCHANGED <<shown, pending, batch, taps, queue, wanted, contended>>
  BY DEF TakeConfigured, page, history
<1>2. /\ i \in Item /\ queue # <<>> /\ Head(queue) # Batch /\ Head(queue)[2] = i
      /\ d \in Int /\ d < 0 /\ Names(d, i)
      /\ ~AtServer /\ Coming = batch /\ Dialog /\ \A j : DialogOf(j) <=> j = i
  <2>1. Adding(i) BY DEF TakeConfigured
  <2> QED BY <1>1, <2>1, DialogIs
<1>3. phase' \in {"answered", "refused"} =>
        /\ Coming' = batch /\ ~AtServer' /\ Dialog' /\ \A j : DialogOf(j)' <=> j = i
  <2> HAVE phase' \in {"answered", "refused"}
  <2>1. Dialog' BY <1>1, <1>2 DEF Dialog
  <2>2. ~AtServer' BY <1>1, <1>2 DEF AtServer
  <2>3. Coming' = batch BY <1>1, <2>2 DEF Coming
  <2> QED BY <1>1, <1>2, <2>1, <2>2, <2>3 DEF DialogOf
<1>4. phase' \in {"answered", "refused"} BY DEF TakeConfigured
<1>5. contended \subseteq Item BY DEF Typing, TypeOK
<1> SUFFICES ASSUME contended # Item
             PROVE  IdsAreApart' /\ OneEach(pending') /\ OneEach(batch')
                    /\ \A j \in Item \ contended : IsKept(j)'
  BY <1>1, <1>4, KeepingNext
<1>6. IdsAreApart /\ OneEach(pending) /\ OneEach(batch) /\ \A j \in Item \ contended : IsKept(j)
  BY <1>5 DEF Keeping
<1>7. OneEach(pending') /\ OneEach(batch') BY <1>1, <1>6
<1>8. /\ \A j \in Item \ contended : j # i => Calm(j, shown, server, batch, pending, wanted[j])
                                              /\ CanGoBack(j, answer, server)
      /\ i \notin contended => CalmDialog(i, shown, server, d, wanted[i])
  BY <1>1, <1>2, <1>6 DEF IsKept
<1>9. CASE phase' = "refused" /\ UNCHANGED <<server, made, answer>>
  <2>1. \A k, j : Names(k, j)' <=> Names(k, j) BY <1>1, <1>9 DEF Names
  <2>2. IdsAreApart' BY <1>1, <1>6, <1>9, <2>1 DEF IdsAreApart
  <2>3. ASSUME NEW j \in Item \ contended, j # i PROVE IsKept(j)'
    <3>1. Calm(j, shown', server', Coming', pending', wanted'[j]) BY <1>1, <1>3, <1>8, <1>9, <2>3
    <3>2. CanGoBack(j, answer, server) BY <1>8, <2>3
    <3>3. CanGoBack(j, answer, server)' BY <1>1, <1>9, <3>2 DEF CanGoBack
    <3> QED BY <1>3, <1>9, <2>3, <3>1, <3>3, IsKeptNext
  <2>4. ASSUME i \notin contended PROVE IsKept(i)'
    <3>1. CalmDialog(i, shown, server, d, wanted[i]) BY <1>8, <2>4
    <3>2. CalmDialog(i, shown, server, Head(queue)[1], wanted[i])' BY <1>1, <1>9, <3>1 DEF CalmDialog
    <3> QED BY <1>2, <1>3, <1>9, <3>2, IsKeptNext
  <2> QED BY <1>7, <2>2, <2>3, <2>4
<1>10. CASE LET r == AddTo(Result(server, made, {}), i, 1)
            IN  server' = r.cart /\ made' = r.made
                /\ \/ answer' = r.cart /\ phase' = "answered"
                   \/ answer' = answer /\ phase' = "refused"
  <2> PICK r : r = AddTo(Result(server, made, {}), i, 1) OBVIOUS
  <2>1. /\ server' = r.cart /\ made' = r.made
        /\ \/ answer' = r.cart /\ phase' = "answered"
           \/ answer' = answer /\ phase' = "refused"
    BY <1>10
  <2>2. /\ Cart(server) /\ made \in Nat /\ taps \in Nat /\ DOMAIN server \subseteq 1..made
        /\ made' \in Nat
    BY LeavingTyped DEF Typing, TypeOK
  <2> PICK s : s = server OBVIOUS
  <2> PICK t : t = server' OBVIOUS
  <2>3. OneMore(s, made, i, r.cart, r.made) BY <1>2, DialogServes
  <2>5. /\ made' >= made
        /\ \A l \in DOMAIN t : \/ l = made + 1 /\ made' = made + 1 /\ t[l].item = i
                               \/ l \in DOMAIN s /\ t[l].item = s[l].item
        /\ \A j : j # i => SameLines(s, t, j)
        /\ OfItem(s, i) = {} => OfItem(t, i) = {made + 1} /\ t[made + 1].quantity = 1
        /\ \A l : OfItem(s, i) = {l} => OfItem(t, i) = {l} /\ t[l].quantity = s[l].quantity + 1
    BY <2>1, <2>3 DEF OneMore
  <2>6. IdsAreApart'
    <3>1. ASSUME NEW k \in Int, NEW j \in Item, Names(k, j)'
          PROVE  Names(k, j) \/ (k = made + 1 /\ made' = made + 1 /\ j = i)
      <4>1. k \in OfItem(t, j) => k \in OfItem(s, j) \/ (k = made + 1 /\ made' = made + 1 /\ j = i)
        BY <2>5 DEF OfItem
      <4>2. answer' \in {t, answer} /\ server' = t BY <2>1
      <4> QED BY <1>1, <3>1, <4>1, <4>2 DEF Names
    <3>2. taps' \in Nat /\ taps' >= taps BY <1>1, <2>2
    <3>3. CASE made' = made + 1
      <4> PICK n : n = made + 1 OBVIOUS
      <4>1. n \in (-taps')..made' \ {0} /\ n \notin (-taps)..made /\ n \in Int
        <5>1. taps \in Nat /\ taps' \in Nat /\ made \in Nat BY <2>2, <3>2
        <5> QED BY <3>3, <5>1, NextId
      <4>2. \A j \in Item : Names(n, j) => j = i BY <1>6, <4>1 DEF IdsAreApart
      <4>3. \A k \in Int, j \in Item : Names(k, j)' => Names(k, j) \/ (k = n /\ j = i) BY <3>1
      <4> QED BY <1>2, <1>6, <2>2, <2>5, <3>2, <4>1, <4>2, <4>3, ApartNext, Zenon
    <3>4. CASE made' # made + 1
      <4>1. \A k \in Int, j \in Item : Names(k, j)' => Names(k, j) BY <3>1, <3>4
      <4> QED BY <1>6, <2>2, <2>5, <3>2, <4>1, ApartStay, Zenon
    <3> QED BY <3>3, <3>4
  <2>7. ASSUME NEW j \in Item \ contended, j # i PROVE IsKept(j)'
    <3> PICK w : w = wanted[j] OBVIOUS
    <3>1. Calm(j, shown, s, batch, pending, w) BY <1>8, <2>7
    <3>2. SameLines(s, t, j) BY <2>5, <2>7
    <3>3. Calm(j, shown, t, batch, pending, w) BY <3>1, <3>2, CalmSameServed
    <3>4. Calm(j, shown', server', Coming', pending', wanted'[j]) BY <1>1, <1>3, <1>4, <3>3
    <3>5. CanGoBack(j, answer, t) BY <1>8, <2>7, <3>2 DEF CanGoBack, SameLines
    <3>6. phase' # "answered" => CanGoBack(j, answer, server)'
      <4>1. phase' # "answered" => /\ answer' = answer /\ server' = t
                                   /\ UNCHANGED <<batch, pending>>
        BY <1>1, <2>1
      <4> QED BY <3>5, <4>1 DEF CanGoBack
    <3> QED BY <1>3, <1>4, <2>7, <3>4, <3>6, IsKeptNext
  <2>8. ASSUME i \notin contended PROVE IsKept(i)'
    <3> PICK w : w = wanted[i] OBVIOUS
    <3> PICK c : c = shown OBVIOUS
    <3>1. /\ ~Of(batch, i) /\ ~Of(pending, i)
          /\ \A k, l \in OfItem(s, i) : k = l
          /\ d \in OfItem(c, i) /\ c[d].quantity = 1
          /\ OfItem(c, i) = OfItem(s, i) \cup {d}
          /\ \A l \in OfItem(s, i) : c[l].quantity = s[l].quantity /\ w = s[l].quantity + 1
          /\ OfItem(s, i) = {} => w = 1
      BY <1>1, <1>8, <2>8 DEF CalmDialog
    <3>2. \A l \in OfItem(s, i) : s[l].quantity \in Nat BY LinesTyped DEF OfItem
    <3>3. PICK k : OfItem(t, i) = {k} /\ t[k].quantity = w /\ OfItem(c, i) \subseteq {k, d}
                   /\ (k \in OfItem(c, i) => c[k].quantity <= w)
      <4>1. CASE OfItem(s, i) = {}
        <5>1. OfItem(t, i) = {made + 1} /\ t[made + 1].quantity = 1 /\ OfItem(c, i) = {d} BY <2>5, <3>1, <4>1
        <5>2. made + 1 \in OfItem(c, i) => c[made + 1].quantity <= w BY <3>1, <4>1, <5>1
        <5> QED BY <3>1, <4>1, <5>1, <5>2
      <4>2. CASE OfItem(s, i) # {}
        <5> PICK l \in OfItem(s, i) : TRUE BY <4>2
        <5>1. OfItem(s, i) = {l} BY <3>1
        <5>2. OfItem(t, i) = {l} /\ t[l].quantity = s[l].quantity + 1 BY <2>5, <5>1
        <5>3. t[l].quantity = w /\ c[l].quantity <= w BY <3>1, <3>2, <5>2
        <5>4. OfItem(c, i) \subseteq {l, d} BY <3>1, <5>1
        <5> QED BY <5>2, <5>3, <5>4
      <4> QED BY <4>1, <4>2
    <3>4. CalmDialog(i, shown, server, Head(queue)[1], wanted[i])'
      <4>1. /\ ~Of(batch', i) /\ ~Of(pending', i) /\ phase' # "sent" /\ server' = t /\ shown' = c
            /\ Head(queue')[1] = d /\ wanted'[i] = w
        BY <1>1, <1>4, <2>1, <3>1
      <4> QED BY <3>1, <3>3, <4>1 DEF CalmDialog
    <3> QED BY <1>2, <1>3, <1>4, <2>1, <3>4, IsKeptNext
  <2> QED BY <1>7, <2>6, <2>7, <2>8
<1> QED BY <1>9, <1>10 DEF TakeConfigured

\* One line that the page and the server have in common makes an item calm.
LEMMA CalmOfOne ==
  ASSUME Typing, IdsAreApart, NEW i \in Item, ~Of(batch, i), ~Of(pending, i), NEW w,
         NEW c, NEW k, OfItem(c, i) = {k}, OfItem(server, i) = {k},
         c[k].quantity = w, server[k].quantity = w
  PROVE  Calm(i, c, server, batch, pending, w)
<1> PICK s : s = server OBVIOUS
<1> PICK b : b = batch OBVIOUS
<1> PICK p : p = pending OBVIOUS
<1>1. k \in OfItem(s, i) /\ k \in OfItem(c, i) OBVIOUS
<1>2. k \in Int /\ k > 0 /\ ~(k < 0) BY <1>1, LinesTyped DEF OfItem
<1>3. ~On(b, k) /\ ~On(p, k)
  <2>1. Names(k, i) BY <1>1 DEF Names
  <2> QED BY <1>2, <2>1, NoneOn
<1>4. \A x : ComesTo(s, b, p, k, x) <=> w = x BY <1>3 DEF ComesTo
<1>5. AddsOf(b, i) = {} /\ AddsOf(p, i) = {} /\ ~\E n \in DOMAIN b : b[n].item = i
  BY DEF AddsOf, Of
<1>6. /\ \A m \in OfItem(c, i) : m = k
      /\ \A m \in OfItem(s, i) : m = k
      /\ OfItem(s, i) # {}
      /\ OfItem(s, i) \ OfItem(c, i) = {}
  OBVIOUS
<1>7. Calm(i, c, s, b, p, w) BY <1>1, <1>2, <1>4, <1>5, <1>6 DEF Calm
<1> QED BY <1>7

\* A dialog that was answered leaves its item calm.
LEMMA AnsweredIsCalm ==
  ASSUME Typing, IdsAreApart, phase = "answered", NEW i \in Item, NEW w,
         NEW d \in Int, d < 0, CalmDialog(i, shown, server, d, w),
         NEW c, c = mergeServerCartWithLocalPending(server, shown)
  PROVE  Calm(i, c, server, batch, pending, w)
<1> PICK s : s = server OBVIOUS
<1> PICK a : a = shown OBVIOUS
<1>1. PICK k : OfItem(s, i) = {k} /\ s[k].quantity = w /\ OfItem(a, i) \subseteq {k, d}
               /\ (k \in OfItem(a, i) => a[k].quantity <= w)
  <2>1. /\ OfItem(s, i) # {} /\ OfItem(a, i) \subseteq OfItem(s, i) \cup {d}
        /\ \A k, l \in OfItem(s, i) : k = l
        /\ \A l \in OfItem(s, i) : w = s[l].quantity /\ (l \in OfItem(a, i) => a[l].quantity <= w)
    BY DEF CalmDialog
  <2> PICK k \in OfItem(s, i) : TRUE BY <2>1
  <2>2. OfItem(s, i) = {k} BY <2>1
  <2>3. OfItem(a, i) \subseteq {k, d} BY <2>1, <2>2
  <2> QED BY <2>1, <2>2, <2>3
<1>2. /\ k \in DOMAIN s /\ s[k].item = i /\ k \in Int /\ k > 0 /\ w \in Nat \ {0}
      /\ \A m \in OfItem(a, i) : m \in Int
  BY <1>1, LinesTyped DEF OfItem
<1>3. a[d].quantity = 1 /\ ~Of(batch, i) /\ ~Of(pending, i) BY DEF CalmDialog
<1>4. k \in DOMAIN a => k \in OfItem(a, i)
  <2> HAVE k \in DOMAIN a
  <2>1. a[k].item \in Item /\ Names(k, a[k].item) BY DEF Names, OfItem, Typing, Cart, Line
  <2>2. Names(k, i) BY <1>2 DEF Names, OfItem
  <2>3. a[k].item = i BY <1>2, <2>1, <2>2 DEF IdsAreApart
  <2> QED BY <2>3 DEF OfItem
<1>5. Above(s, a, k) = {}
  <2> SUFFICES ASSUME NEW m \in Above(s, a, k) PROVE FALSE OBVIOUS
  <2>1. m \in DOMAIN a /\ (m = k \/ (m < 0 /\ a[m].item = i)) /\ a[m].quantity > w
    BY <1>1, <1>2 DEF Above
  <2>2. m \in OfItem(a, i) BY <1>4, <2>1 DEF OfItem
  <2>3. CASE m = k
    <3>1. a[k].quantity \in Nat BY <2>1, <2>3, LinesTyped
    <3> QED BY <1>1, <1>2, <2>1, <2>2, <2>3, <3>1
  <2>4. CASE m = d BY <1>2, <1>3, <2>1, <2>4
  <2> QED BY <1>1, <2>2, <2>3, <2>4
<1>6. Cart(s) BY DEF Typing
<1>7. /\ OfItem(c, i) = OfItem(s, i) \cup {m \in OfItem(a, i) : m \notin DOMAIN s
                                                               /\ (m > 0 \/ OfItem(s, i) = {})}
      /\ \A l \in OfItem(s, i) : Above(s, a, l) = {} => c[l] = s[l]
  BY <1>6, MergeOf
<1>8. OfItem(c, i) = {k} /\ c[k].quantity = w
  <2>1. \A m \in OfItem(a, i) : m = k \/ ~(m > 0) BY <1>1
  <2>2. OfItem(c, i) = {k} BY <1>1, <1>2, <1>7, <2>1
  <2> QED BY <1>1, <1>5, <1>7, <2>2
<1>9. OfItem(server, i) = {k} /\ server[k].quantity = w BY <1>1
<1> QED BY <1>3, <1>8, <1>9, CalmOfOne

\* A dialog that goes back leaves an item calm that nothing is to change.
LEMMA BackIsCalm ==
  ASSUME Typing, IdsAreApart, NEW i \in Item, NEW w, ~Of(batch, i), ~Of(pending, i),
         Calm(i, shown, server, batch, pending, w), CanGoBack(i, answer, server),
         NEW c, c = mergeServerCartWithLocalPending(answer, shown)
  PROVE  Calm(i, c, server, batch, pending, w)
<1> PICK s : s = server OBVIOUS
<1> PICK a : a = answer OBVIOUS
<1> PICK h : h = shown OBVIOUS
<1>1. /\ OfItem(s, i) \subseteq OfItem(h, i)
      /\ \A k, l \in OfItem(h, i) : k = l
      /\ \A l \in OfItem(s, i) : h[l] = s[l] /\ s[l].quantity = w
      /\ \A l \in OfItem(h, i) \ OfItem(s, i) : l < 0 /\ i \notin Configured
      /\ OfItem(s, i) = {} => w = 0
  BY CalmIsSame
<1>2. /\ \A l \in OfItem(s, i) : l \in Int /\ l > 0 /\ ~(l < 0) /\ s[l].quantity \in Nat \ {0}
      /\ \A l \in OfItem(a, i) : l \in Int /\ a[l] \in Line /\ Names(l, i)
      /\ \A l \in OfItem(h, i) : l \in Int /\ h[l] \in Line /\ Names(l, i)
  BY LinesTyped DEF OfItem, Names, Typing, Cart
<1>3. \A l \in OfItem(s, i) \cup OfItem(a, i) \cup OfItem(h, i) : ~On(batch, l) /\ ~On(pending, l)
  <2>1. \A l \in OfItem(s, i) : Names(l, i) BY DEF Names
  <2> QED BY <1>2, <2>1, NoneOn
<1>4. /\ \A k, l \in OfItem(a, i) : k = l
      /\ \A l \in OfItem(a, i) : l > 0 => l \in OfItem(s, i) /\ a[l].quantity = s[l].quantity
      /\ \A l \in OfItem(a, i) : l < 0 => i \notin Configured /\ OfItem(s, i) = {}
      /\ OfItem(s, i) \subseteq OfItem(a, i)
  BY <1>3 DEF CanGoBack
<1>5. \A l \in OfItem(a, i) : l > 0 \/ l < 0
  <2> TAKE l \in OfItem(a, i)
  <2>1. l # 0 BY <1>2 DEF IdsAreApart
  <2> QED BY <1>2, <2>1
<1>6. Cart(a) BY DEF Typing
<1>7. /\ OfItem(c, i) = OfItem(a, i) \cup {m \in OfItem(h, i) : m \notin DOMAIN a
                                                               /\ (m > 0 \/ OfItem(a, i) = {})}
      /\ \A l \in OfItem(a, i) : Above(a, h, l) = {} => c[l] = a[l]
      /\ \A m \in OfItem(c, i) \ OfItem(a, i) : c[m] = h[m]
  BY <1>6, MergeOf
<1>8. CASE OfItem(s, i) = {}
  <2>1. \A l \in OfItem(c, i) : l < 0 /\ ~(l > 0) /\ i \notin Configured
    <3>1. \A l \in OfItem(a, i) : l < 0 /\ i \notin Configured BY <1>4, <1>5, <1>8
    <3>2. \A l \in OfItem(h, i) : l < 0 /\ i \notin Configured BY <1>1, <1>8
    <3>3. \A l \in OfItem(c, i) : l \in Int /\ (l \in OfItem(a, i) \/ l \in OfItem(h, i)) BY <1>2, <1>7
    <3> QED BY <3>1, <3>2, <3>3
  <2>2. \A k, l \in OfItem(c, i) : k = l
    <3>1. CASE OfItem(a, i) = {} BY <1>1, <1>7, <3>1
    <3>2. CASE OfItem(a, i) # {}
      <4>1. \A m \in OfItem(h, i) : ~(m > 0) BY <1>1, <1>2, <1>8
      <4>2. OfItem(c, i) = OfItem(a, i) BY <1>7, <3>2, <4>1
      <4> QED BY <1>4, <4>2
    <3> QED BY <3>1, <3>2
  <2>3. \A l \in OfItem(c, i) : ~On(batch, l) /\ ~On(pending, l) BY <1>3, <1>7
  <2>4. AddsOf(batch, i) = {} /\ AddsOf(pending, i) = {} /\ ~\E n \in DOMAIN batch : batch[n].item = i
    BY DEF AddsOf, Of
  <2>5. w = 0 BY <1>1, <1>8
  <2>6. Calm(i, c, s, batch, pending, w) BY <1>8, <2>1, <2>2, <2>3, <2>4, <2>5 DEF Calm
  <2> QED BY <2>6
<1>9. CASE OfItem(s, i) # {}
  <2> PICK k \in OfItem(s, i) : TRUE BY <1>9
  <2>1. OfItem(a, i) = {k} /\ OfItem(s, i) = {k} /\ OfItem(h, i) = {k} BY <1>1, <1>4
  <2>2. a[k].quantity = s[k].quantity /\ h[k] = s[k] /\ s[k].quantity = w /\ k > 0 /\ ~(k < 0) /\ k \in Int
    BY <1>1, <1>2, <1>4, <2>1
  <2>3. Above(a, h, k) = {}
    <3> SUFFICES ASSUME NEW m \in Above(a, h, k) PROVE FALSE OBVIOUS
    <3>1. m \in DOMAIN h /\ (m = k \/ (m < 0 /\ h[m].item = a[k].item)) /\ h[m].quantity > a[k].quantity
      BY DEF Above
    <3>2. a[k].item = i BY <2>1 DEF OfItem
    <3>3. m = k \/ m \in OfItem(h, i) BY <3>1, <3>2 DEF OfItem
    <3>4. m = k BY <2>1, <3>3
    <3> QED BY <1>2, <2>1, <2>2, <3>1, <3>4
  <2>4. OfItem(c, i) = {k} /\ c[k] = a[k] BY <1>7, <2>1, <2>2, <2>3 DEF OfItem
  <2>5. OfItem(server, i) = {k} /\ server[k].quantity = w /\ c[k].quantity = w BY <2>1, <2>2, <2>4
  <2> QED BY <2>4, <2>5, CalmOfOne
<1> QED BY <1>8, <1>9

\* The end of a dialog keeps what was, of every item.
LEMMA EndKeeps ==
  ASSUME Typing, Typing', QueueHasBatch, ShownFollows, Keeping, NEW i \in Configured, EndConfigured(i)
  PROVE  Keeping'
<1> PICK d : d = Head(queue)[1] OBVIOUS
<1> PICK c : c = mergeServerCartWithLocalPending(answer, shown) OBVIOUS
<1>1. /\ phase \in {"answered", "refused"} /\ phase' = "start"
      /\ shown' = c /\ queue' = Tail(queue) /\ answer' = EmptyCart
      /\ contended' = contended \cup Overtaken(batch) \cup Overtaken(pending)
                                \cup (IF phase = "answered" THEN {} ELSE {i})
      /\ UNCHANGED <<pending, batch, server, made, taps, wanted>>
  BY DEF EndConfigured
<1>2. /\ i \in Item /\ queue # <<>> /\ Head(queue) # Batch /\ Head(queue)[2] = i
      /\ d \in Int /\ d < 0
      /\ ~AtServer /\ Coming = batch /\ Dialog /\ \A j : DialogOf(j) <=> j = i
  <2>1. Adding(i) BY DEF EndConfigured
  <2> QED BY <1>1, <2>1, DialogIs
<1>3. Coming' = batch /\ ~AtServer' /\ ~Dialog' /\ \A j : ~DialogOf(j)'
  BY <1>1 DEF Coming, AtServer, Dialog, DialogOf
<1>4. contended \subseteq contended' /\ contended' \subseteq Item
  BY <1>1, <1>2 DEF Typing, TypeOK, Overtaken
<1> SUFFICES ASSUME contended' # Item
             PROVE  IdsAreApart' /\ OneEach(pending') /\ OneEach(batch')
                    /\ \A j \in Item \ contended' : IsKept(j)'
  <2>1. phase' # "lost" BY <1>1
  <2> QED BY <2>1, KeepingNext
<1>5. IdsAreApart /\ OneEach(pending) /\ OneEach(batch) /\ \A j \in Item \ contended : IsKept(j)
  BY <1>4 DEF Keeping
<1>6. OneEach(pending') /\ OneEach(batch') BY <1>1, <1>5
<1>7. Cart(answer) /\ Cart(shown) /\ taps \in Nat /\ made \in Nat BY LeavingTyped DEF Typing
<1>8. IdsAreApart'
  <2>1. ASSUME NEW k \in Int, NEW j \in Item, Names(k, j)' PROVE Names(k, j)
    <3>1. k \in OfItem(c, j) => k \in OfItem(answer, j) \/ k \in OfItem(shown, j) BY <1>7, MergeOf
    <3>2. (\E n \in DOMAIN queue' : queue'[n] = <<k, j>>) => \E n \in DOMAIN queue : queue[n] = <<k, j>>
      <4> SUFFICES ASSUME NEW n \in DOMAIN queue', queue'[n] = <<k, j>>
                   PROVE  \E m \in DOMAIN queue : queue[m] = <<k, j>>
        OBVIOUS
      <4> PICK t : t = Tail(queue) OBVIOUS
      <4>1. /\ t \in Seq(Element) /\ Len(queue) \in Nat /\ Len(t) = Len(queue) - 1
            /\ \A m \in 1..Len(t) : t[m] = queue[m + 1]
            /\ DOMAIN queue = 1..Len(queue) /\ DOMAIN t = 1..Len(t)
        BY <1>2, QueueIs
      <4>2. n \in 1..Len(t) /\ t[n] = <<k, j>> BY <1>1, <4>1
      <4>3. n + 1 \in DOMAIN queue /\ queue[n + 1] = <<k, j>> BY <4>1, <4>2
      <4> QED BY <4>3
    <3>3. k \notin OfItem(answer', j) BY <1>1, EmptyIsCart DEF OfItem
    <3>4. shown' = c /\ UNCHANGED <<server, pending, batch>> BY <1>1
    <3> QED BY <2>1, <3>1, <3>2, <3>3, <3>4 DEF Names
  <2>2. taps' \in Nat /\ made' \in Nat /\ taps' >= taps /\ made' >= made BY <1>1, <1>7
  <2>3. \A k \in Int, j \in Item : Names(k, j)' => Names(k, j) BY <2>1
  <2> QED BY <1>5, <1>7, <2>2, <2>3, ApartStay, Zenon
<1>9. ASSUME NEW j \in Item \ contended' PROVE IsKept(j)'
  <2> PICK w : w = wanted[j] OBVIOUS
  <2>1. IsKept(j) BY <1>4, <1>5, <1>9
  <2>2. j # i => Calm(j, shown, server, batch, pending, w) BY <1>2, <2>1 DEF IsKept
  <2>3. j = i => CalmDialog(i, shown, server, d, w) BY <1>2, <2>1 DEF IsKept
  <2>4. Calm(j, c, server, batch, pending, w)
    <3>1. CASE Of(batch, j) \/ Of(pending, j)
      <4>1. j # i BY <2>3, <3>1 DEF CalmDialog
      <4>2. SameLines(shown, c, j)
        <5>1. j \notin Overtaken(batch) /\ j \notin Overtaken(pending) BY <1>1, <1>9
        <5>2. SameLines(shown, shown', j) BY <1>9, <3>1, <5>1 DEF Overtaken, Of
        <5> QED BY <1>1, <5>2
      <4> QED BY <2>2, <4>1, <4>2, CalmSame
    <3>2. CASE ~Of(batch, j) /\ ~Of(pending, j) /\ phase = "answered"
      <4>1. answer = server BY <1>2, <3>2 DEF ShownFollows, AnswerIsServer
      <4>2. c = mergeServerCartWithLocalPending(server, shown) BY <4>1
      <4>3. CASE j = i
        <5>1. CalmDialog(i, shown, server, d, w) BY <2>3, <4>3
        <5>2. Calm(i, c, server, batch, pending, w) BY <1>2, <1>5, <3>2, <4>2, <5>1, AnsweredIsCalm
        <5> QED BY <4>3, <5>2
      <4>4. CASE j # i
        <5>1. Calm(j, shown, server, batch, pending, w) BY <2>2, <4>4
        <5>2. \A l \in OfItem(shown, j) : l \in Int /\ Names(l, j) BY <1>7 DEF Names, OfItem, Cart
        <5>3. Calm(j, shown, server, <<>>, pending, w) BY <1>5, <1>9, <3>2, <5>1, <5>2, CalmWithout
        <5>4. Calm(j, c, server, <<>>, pending, w) BY <1>5, <1>9, <3>2, <4>2, <5>3, MergeIsCalm
        <5>5. \A l \in OfItem(c, j) : l \in Int /\ Names(l, j)
          <6>1. Cart(server) BY DEF Typing
          <6>2. OfItem(c, j) \subseteq OfItem(server, j) \cup OfItem(shown, j) BY <4>2, <6>1, MergeOf
          <6> QED BY <1>7, <6>1, <6>2 DEF Names, OfItem, Cart
        <5> QED BY <1>5, <1>9, <3>2, <5>4, <5>5, CalmWithout
      <4> QED BY <4>3, <4>4
    <3>3. CASE ~Of(batch, j) /\ ~Of(pending, j) /\ phase = "refused"
      <4>1. j # i BY <1>1, <1>9, <3>3
      <4>2. CanGoBack(j, answer, server) BY <1>2, <2>1, <3>3, <4>1 DEF IsKept
      <4> QED BY <1>5, <1>9, <2>2, <3>3, <4>1, <4>2, BackIsCalm
    <3> QED BY <1>1, <3>1, <3>2, <3>3
  <2>5. Calm(j, shown', server', Coming', pending', wanted'[j]) BY <1>1, <1>3, <2>4
  <2> QED BY <1>3, <1>9, <2>5, IsKeptNext
<1> QED BY <1>6, <1>8, <1>9

\* So it is at first.
LEMMA InitKeeps ==
  ASSUME Init
  PROVE  Keeping
<1>1. Typing BY InitIsTyped
<1>2. /\ shown = server /\ answer = EmptyCart /\ taps = 0 /\ made = 1 /\ phase = "start"
      /\ pending = <<>> /\ batch = <<>> /\ queue = <<>>
      /\ wanted = [i \in Item |-> Quantity(server, i)]
  BY DEF Init
<1>3. \A l \in DOMAIN server : l = 1
  <2>1. PICK i \in Item, n \in 0..1 :
          server = IF n = 0 THEN EmptyCart ELSE [l \in {1} |-> [item |-> i, quantity |-> 1]]
    BY DEF Init
  <2> QED BY <2>1, EmptyIsCart
<1>4. Cart(server) BY <1>1 DEF Typing
<1>5. IdsAreApart
  <2> SUFFICES ASSUME NEW l \in Int, NEW i \in Item, Names(l, i)
               PROVE  l \in (-taps)..made \ {0} /\ \A j \in Item : Names(l, j) => i = j
    BY DEF IdsAreApart
  <2>1. \A j \in Item : Names(l, j) => l \in OfItem(server, j) BY <1>2, EmptyIsCart DEF Names, OfItem
  <2>2. l = 1 BY <1>3, <2>1 DEF OfItem
  <2>3. 1 \in (-0)..1 \ {0} OBVIOUS
  <2> QED BY <1>2, <2>1, <2>2, <2>3 DEF OfItem
<1>6. ASSUME NEW i \in Item PROVE IsKept(i)
  <2>1. ~Dialog /\ ~DialogOf(i) /\ Coming = <<>> BY <1>2 DEF Dialog, DialogOf, Coming, AtServer
  <2> PICK s : s = server OBVIOUS
  <2> PICK w : w = wanted[i] OBVIOUS
  <2>2. /\ OfItem(s, i) = {} => w = 0
        /\ \A l : OfItem(s, i) = {l} => w = s[l].quantity
    BY <1>2, <1>4, QuantityOfFew
  <2>3. \A l \in OfItem(s, i) : l = 1 BY <1>3 DEF OfItem
  <2>4. \A l \in OfItem(s, i) : w = s[l].quantity
    <3> TAKE l \in OfItem(s, i)
    <3>1. OfItem(s, i) = {l} BY <2>3
    <3> QED BY <2>2, <3>1
  <2>5. \A l, x : ComesTo(s, <<>>, <<>>, l, x) <=> s[l].quantity = x BY NoneInEmpty DEF ComesTo
  <2>6. Calm(i, s, s, <<>>, <<>>, w) BY <2>2, <2>3, <2>4, <2>5, NoneInEmpty DEF Calm
  <2>7. Calm(i, shown, server, Coming, pending, wanted[i]) BY <1>2, <2>1, <2>6
  <2> QED BY <2>1, <2>7 DEF IsKept
<1>7. OneEach(pending) /\ OneEach(batch) BY <1>2, NoneInEmpty
<1> QED BY <1>2, <1>5, <1>6, <1>7 DEF Keeping

\* Every step keeps what was, of every item.
LEMMA KeepStep ==
  ASSUME Typing, Typing', QueueHasBatch, ShownFollows, Keeping, [Next]_vars
  PROVE  Keeping'
<1>1. CASE Add \/ Increment \/ Decrement \/ RemoveLine BY <1>1, TapKeeps
<1>2. CASE Configure BY <1>2, ConfigureKeeps
<1>3. CASE TimerFires \/ Navigate BY <1>3, SendKeeps
<1>4. CASE TakeBatch BY <1>4, BatchKeeps
<1>5. CASE TakeAnswer BY <1>5, AnswerKeeps
<1>6. ASSUME NEW i \in Configured, ShowConfigured(i) \/ TakeConfigured(i) \/ EndConfigured(i)
      PROVE  Keeping'
  BY <1>6, ShowKeeps, TakeKeeps, EndKeeps
<1>7. CASE UNCHANGED vars
  <2>1. UNCHANGED <<shown, server, answer, pending, batch, phase, queue, made, taps, wanted, contended>>
    BY <1>7 DEF vars, page, history
  <2>2. /\ Dialog' = Dialog /\ AtServer' = AtServer /\ Head(queue') = Head(queue)
        /\ \A j : DialogOf(j)' = DialogOf(j)
    BY <2>1 DEF Dialog, AtServer, DialogOf
  <2>3. \A i \in Item : IsKept(i) => IsKept(i)' BY <2>1, <2>2, IsKeptStays
  <2>4. \A l, i : Names(l, i)' <=> Names(l, i) BY <2>1 DEF Names
  <2>5. IdsAreApart => IdsAreApart' BY <2>1, <2>4 DEF IdsAreApart
  <2> QED BY <2>1, <2>3, <2>5 DEF Keeping
<1> QED BY <1>1, <1>2, <1>3, <1>4, <1>5, <1>6, <1>7 DEF Next, Customer, Browser

\* At rest the server has what the customer left on the page of every item that is not
\* contended, for any items, taps and faults (scheduleOptimisticCartSync, flushSession).
THEOREM TapsStayKept == Spec => []TapsAreKept
<1>1. Init => Typing /\ QueueHasBatch /\ ShownFollows /\ Keeping
  <2>1. Init => ShownFollows
    BY DEF Init, ShownFollows, AnswerIsServer, DialogIsServed, Dialog, PageFollows, Agrees, Touched
  <2> QED BY <2>1, InitIsTyped, InitKeeps
<1>2. Typing /\ QueueHasBatch /\ ShownFollows /\ Keeping /\ [Next]_vars =>
        (Typing /\ QueueHasBatch /\ ShownFollows /\ Keeping)'
  <2>1. Typing /\ QueueHasBatch /\ ShownFollows /\ [Next]_vars =>
          (Typing /\ QueueHasBatch /\ ShownFollows)'
    BY TypingStep, QueueStep, FollowStep
  <2> QED BY <2>1, KeepStep
<1>3. Typing /\ QueueHasBatch /\ ShownFollows /\ Keeping => TapsAreKept
  <2> SUFFICES ASSUME Typing, QueueHasBatch, Keeping, AtRest, NEW i \in Item \ contended
               PROVE  Quantity(server, i) = wanted[i]
    BY DEF TapsAreKept
  <2>1. pending = <<>> /\ queue = <<>> /\ batch = <<>> BY DEF AtRest, QueueHasBatch
  <2>2. ~DialogOf(i) /\ ~AtServer /\ Coming = <<>> BY <2>1 DEF DialogOf, Dialog, AtServer, Coming
  <2>3. IsKept(i) BY DEF Keeping
  <2> PICK s : s = server OBVIOUS
  <2> PICK w : w = wanted[i] OBVIOUS
  <2>4. Calm(i, shown, s, <<>>, <<>>, w) BY <2>1, <2>2, <2>3 DEF IsKept
  <2>5. \A l, x : ComesTo(s, <<>>, <<>>, l, x) <=> s[l].quantity = x BY NoneInEmpty DEF ComesTo
  <2>6. /\ \A k, l \in OfItem(s, i) : k = l
        /\ \A l \in OfItem(s, i) : s[l].quantity = w
        /\ OfItem(s, i) = {} => w = 0
    BY <2>4, <2>5, NoneInEmpty DEF Calm
  <2>7. Cart(s) BY DEF Typing
  <2>8. Quantity(s, i) = w
    <3>1. CASE OfItem(s, i) = {} BY <2>6, <2>7, <3>1, QuantityOfFew
    <3>2. CASE OfItem(s, i) # {}
      <4> PICK l \in OfItem(s, i) : TRUE BY <3>2
      <4>1. OfItem(s, i) = {l} BY <2>6
      <4> QED BY <2>6, <2>7, <4>1, QuantityOfFew
    <3> QED BY <3>1, <3>2
  <2> QED BY <2>8
<1> QED BY <1>1, <1>2, <1>3, PTL DEF Spec

=============================================================================

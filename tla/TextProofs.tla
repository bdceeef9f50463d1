----------------------------- MODULE TextProofs -----------------------------
(***************************************************************************)
(* Proofs about the binary messages of webapps and the arguments in them   *)
(* (Requests), and about the texts for an engine (TextConv), for inputs of *)
(* every length.  Induction goes through least elements: the library's     *)
(* induction theorems take a predicate as an argument.                     *)
(***************************************************************************)
EXTENDS MCText, SequenceTheorems, WellFoundedInduction, TLAPS

(* A set of numbers that is not empty has a least one.                      *)
LEMMA Least ==
    ASSUME NEW Z, Z \subseteq Nat, Z # {}
    PROVE  \E x \in Z : \A y \in Z : x <= y
  <1>1. PICK x \in Z : \A y \in Z : ~(<<y, x>> \in OpToRel(<, Nat))
    BY NatLessThanWellFounded, WFMin
  <1>2. \A y \in Z : ~(y < x)
    BY <1>1, Zenon DEF OpToRel
  <1>3. \A y \in Z : x <= y
    <2>1. \A m, n \in Nat : ~(n < m) => m <= n
      OBVIOUS
    <2> QED  BY <1>2, <2>1, Zenon
  <1> QED  BY <1>3

(* Induction on numbers, with a set in the place of a predicate.            *)
LEMMA Induction ==
    ASSUME NEW n \in Nat, NEW S, 0 \in S,
           \A m \in 0..(n - 1) : m \in S => m + 1 \in S
    PROVE  \A m \in 0..n : m \in S
  <1> DEFINE Z == {m \in 0..n : m \notin S}
  <1> SUFFICES ASSUME Z # {} PROVE FALSE
    OBVIOUS
  <1>1. PICK x \in Z : \A y \in Z : x <= y
    <2>1. Z \subseteq Nat
      OBVIOUS
    <2> QED  BY <2>1, Least
  <1>2. x # 0 /\ x \in 0..n /\ x \notin S
    OBVIOUS
  <1>3. x - 1 \in 0..(n - 1) /\ (x - 1) + 1 = x /\ ~(x <= x - 1)
    BY <1>2
  <1>4. x - 1 \in S
    BY <1>1, <1>3
  <1> QED  BY <1>2, <1>3, <1>4

(* A recursion over the first n numbers, by a step for each.                *)
Steps(n, D) == [1..n -> [D -> D]]
Solves(f, n, D, base, step) ==
    /\ f \in [0..n -> D]
    /\ f[0] = base
    /\ \A k \in 1..n : f[k] = step[k][f[k-1]]

(* It has a solution.                                                       *)
LEMMA Recursion ==
    ASSUME NEW n \in Nat, NEW D, NEW base \in D, NEW step \in Steps(n, D)
    PROVE  \E f : Solves(f, n, D, base, step)
  <1> USE DEF Steps
  <1> DEFINE P(m) == \E f \in [0..m -> D] :
                        f[0] = base /\ \A k \in 1..m : f[k] = step[k][f[k-1]]
  <1>1. P(0)
    <2> DEFINE f == [k \in 0..0 |-> base]
    <2>1. f \in [0..0 -> D] /\ f[0] = base /\ \A k \in 1..0 : f[k] = step[k][f[k-1]]
      OBVIOUS
    <2> QED  BY <2>1
  <1>2. ASSUME NEW m \in 0..(n - 1), P(m)
        PROVE  P(m + 1)
    <2>1. PICK g \in [0..m -> D] :
            g[0] = base /\ \A k \in 1..m : g[k] = step[k][g[k-1]]
      BY <1>2
    <2>2. step[m + 1][g[m]] \in D
      <3>1. m + 1 \in 1..n /\ g[m] \in D
        BY <2>1
      <3> QED  BY <3>1
    <2> DEFINE f == [k \in 0..(m + 1) |-> IF k = m + 1 THEN step[m + 1][g[m]] ELSE g[k]]
    <2>3. f \in [0..(m + 1) -> D]
      BY <2>1, <2>2
    <2>4. f[0] = base
      BY <2>1
    <2>5. ASSUME NEW k \in 1..(m + 1)
          PROVE  f[k] = step[k][f[k-1]]
      <3>1. k - 1 \in 0..m /\ f[k - 1] = g[k - 1]
        OBVIOUS
      <3>2. CASE k = m + 1
        BY <3>1, <3>2
      <3>3. CASE k # m + 1
        <4>1. k \in 1..m /\ f[k] = g[k]
          BY <3>3
        <4> QED  BY <2>1, <3>1, <4>1
      <3> QED  BY <3>2, <3>3
    <2> HIDE DEF f
    <2> QED  BY <2>3, <2>4, <2>5
  <1> DEFINE S == {m \in 0..n : P(m)}
  <1>3. 0 \in S /\ \A m \in 0..(n - 1) : m \in S => m + 1 \in S
    <2> HIDE DEF P
    <2> QED  BY <1>1, <1>2
  <1>4. \A m \in 0..n : m \in S
    <2> HIDE DEF S
    <2> QED  BY <1>3, Induction
  <1>5. P(n)
    <2> HIDE DEF P
    <2> QED  BY <1>4
  <1> QED  BY <1>5 DEF Solves

(* t begins with s.                                                         *)
Begins(s, t) == Len(s) <= Len(t) /\ \A j \in 1..Len(s) : t[j] = s[j]

(* F holds what FlattenSeq() has put together, sequence by sequence.        *)
Flattens(F, seqs, D) ==
    /\ F \in [0..Len(seqs) -> Seq(D)]
    /\ F[0] = <<>>
    /\ \A k \in 0..(Len(seqs) - 1) : F[k+1] = F[k] \o seqs[k+1]
    /\ F[Len(seqs)] = FlattenSeq(seqs)

(* There is such a function.                                                *)
LEMMA Flattening ==
    ASSUME NEW D, NEW seqs \in Seq(Seq(D))
    PROVE  \E F : Flattens(F, seqs, D)
  <1> DEFINE n == Len(seqs)
             E == Seq(D)
             step == [k \in 1..n |-> [s \in E |-> s \o seqs[k]]]
  <1>1. n \in Nat /\ <<>> \in E
    OBVIOUS
  <1>2. step \in Steps(n, E)
    <2>1. ASSUME NEW k \in 1..n, NEW s \in E
          PROVE  s \o seqs[k] \in E
      <3>1. seqs[k] \in Seq(D)
        OBVIOUS
      <3> QED  BY <3>1
    <2> HIDE DEF E
    <2> QED  BY <2>1 DEF Steps
  <1>3. PICK F : Solves(F, n, E, <<>>, step)
    <2> HIDE DEF step, n, E
    <2> QED  BY <1>1, <1>2, Recursion, Zenon
  <1>4. ASSUME NEW k \in 1..n
        PROVE  F[k] = F[k-1] \o seqs[k] /\ F[k-1] \in E
    <2> HIDE DEF E
    <2>1. F[k-1] \in E
      BY <1>1, <1>3 DEF Solves
    <2> QED  BY <1>3, <2>1 DEF Solves
  <1>5. F[0] = <<>> /\ F \in [0..n -> E]
    BY <1>3 DEF Solves
  <1>6. F[n] = FlattenSeq(seqs)
    <2>1. CASE n = 0
      <3>1. FlattenSeq(seqs) = seqs /\ seqs = <<>>
        BY <2>1 DEF FlattenSeq
      <3> QED  BY <1>5, <2>1, <3>1
    <2>2. CASE n # 0
      <3> DEFINE f == [k \in 1..n |-> F[k]]
                 turn(g) == [k \in 1..n |-> IF k = 1 THEN seqs[k] ELSE g[k-1] \o seqs[k]]
                 g == CHOOSE h : h = turn(h)
      <3>1. f = turn(f)
        <4>1. ASSUME NEW k \in 1..n
              PROVE  F[k] = IF k = 1 THEN seqs[k] ELSE f[k-1] \o seqs[k]
          <5>1. CASE k = 1
            <6>1. k - 1 = 0
              BY <5>1
            <6>2. F[k] = F[0] \o seqs[k]
              BY <1>4, <6>1, Zenon
            <6>3. F[k] = <<>> \o seqs[k]
              BY <1>5, <6>2, Zenon
            <6>4. seqs[k] \in Seq(D)
              OBVIOUS
            <6> QED  BY <5>1, <6>3, <6>4
          <5>2. CASE k # 1
            <6>1. k - 1 \in 1..n
              BY <5>2
            <6> QED  BY <1>4, <5>2, <6>1
          <5> QED  BY <5>1, <5>2
        <4> HIDE DEF n
        <4> QED  BY <4>1
      <3>2. g = turn(g)
        <4> HIDE DEF f, turn
        <4> QED  BY <3>1, Zenon
      <3>3. FlattenSeq(seqs) = g[n]
        BY <2>2 DEF FlattenSeq
      <3> DEFINE S == {k \in 0..n : k = 0 \/ g[k] = F[k]}
      <3> HIDE DEF g
      <3>4. ASSUME NEW k \in 0..(n - 1), k \in S
            PROVE  k + 1 \in S
        <4>1. k + 1 \in 1..n /\ (k + 1) - 1 = k
          BY <1>1
        <4>2. g[k+1] = IF k + 1 = 1 THEN seqs[k+1] ELSE g[k] \o seqs[k+1]
          BY <3>2, <4>1
        <4>3. F[k+1] = F[k] \o seqs[k+1]
          <5> HIDE DEF n
          <5> QED  BY <1>4, <4>1
        <4>4. k = 0 => F[k+1] = seqs[k+1]
          <5> SUFFICES ASSUME k = 0 PROVE F[k+1] = seqs[k+1]
            OBVIOUS
          <5>1. F[k+1] = <<>> \o seqs[k+1]
            BY <1>5, <4>3, Zenon
          <5>2. seqs[k+1] \in Seq(D)
            BY <4>1
          <5> QED  BY <5>1, <5>2
        <4>5. g[k+1] = F[k+1]
          <5>1. CASE k = 0
            BY <4>2, <4>4, <5>1
          <5>2. CASE k # 0
            <6>1. g[k] = F[k] /\ k + 1 # 1
              BY <3>4, <5>2
            <6> HIDE DEF S, n
            <6> QED  BY <4>2, <4>3, <6>1
          <5> QED  BY <5>1, <5>2
        <4> QED  BY <4>1, <4>5
      <3>5. \A k \in 0..n : k \in S
        <4>1. 0 \in S
          BY <1>1
        <4> HIDE DEF S, n
        <4> QED  BY <1>1, <3>4, <4>1, Induction
      <3> QED  BY <1>1, <2>2, <3>3, <3>5
    <2> QED  BY <2>1, <2>2
  <1>7. \A k \in 0..(n - 1) : F[k+1] = F[k] \o seqs[k+1]
    <2> SUFFICES ASSUME NEW k \in 0..(n - 1)
                 PROVE  F[k+1] = F[k] \o seqs[k+1]
      OBVIOUS
    <2>1. k + 1 \in 1..n /\ (k + 1) - 1 = k
      BY <1>1
    <2> QED  BY <1>4, <2>1
  <1> QED  BY <1>5, <1>6, <1>7 DEF Flattens

(* A sum and its parts.                                                     *)
LEMMA Sums ==
    ASSUME NEW a \in Nat, NEW b \in Nat, NEW c, c = a + b
    PROVE  c \in Nat /\ a <= c /\ \A j \in 1..b : a + j \in 1..c
  OBVIOUS

(* Where F puts the sequences.                                              *)
Places(F, seqs) ==
    \A k \in 1..Len(seqs) :
       /\ Len(F[k]) = Len(F[k-1]) + Len(seqs[k])
       /\ Len(F[k]) <= Len(FlattenSeq(seqs))
       /\ \A j \in 1..Len(seqs[k]) :
             FlattenSeq(seqs)[Len(F[k-1]) + j] = seqs[k][j]

(* Each of the sequences is where it was put.                               *)
LEMMA Pieces ==
    ASSUME NEW D, NEW seqs \in Seq(Seq(D)), NEW F, Flattens(F, seqs, D)
    PROVE  Places(F, seqs)
  <1> DEFINE n == Len(seqs)
             E == Seq(D)
  <1>1. n \in Nat /\ F \in [0..n -> E] /\ F[n] = FlattenSeq(seqs)
    BY DEF Flattens
  <1>2. ASSUME NEW k \in 0..(n - 1)
        PROVE  /\ F[k] \in E /\ F[k+1] \in E /\ seqs[k+1] \in E
               /\ F[k+1] = F[k] \o seqs[k+1]
    <2>1. k \in 0..n /\ k + 1 \in 0..n /\ k + 1 \in 1..n
      BY <1>1
    <2>2. seqs[k+1] \in E
      BY <2>1
    <2> HIDE DEF E
    <2> QED  BY <1>1, <2>1, <2>2 DEF Flattens
  <1>3. ASSUME NEW k \in 0..(n - 1)
        PROVE  /\ Len(F[k]) \in Nat /\ Len(seqs[k+1]) \in Nat
               /\ Len(F[k+1]) = Len(F[k]) + Len(seqs[k+1])
               /\ \A j \in 1..Len(F[k]) : F[k+1][j] = F[k][j]
               /\ \A j \in 1..Len(seqs[k+1]) : F[k+1][Len(F[k]) + j] = seqs[k+1][j]
    <2> DEFINE x == F[k]
               y == seqs[k+1]
    <2>1. x \in E /\ y \in E /\ F[k+1] = x \o y
      BY <1>2
    <2> HIDE DEF x, y, n
    <2>2. /\ Len(x) \in Nat /\ Len(y) \in Nat
          /\ Len(x \o y) = Len(x) + Len(y)
          /\ \A j \in 1..Len(x) : (x \o y)[j] = x[j]
          /\ \A j \in 1..Len(y) : (x \o y)[Len(x) + j] = y[j]
      BY <2>1
    <2> QED  BY <2>1, <2>2 DEF x, y
  <1> DEFINE S == {m \in 0..n : \A k \in 0..m : Begins(F[k], F[m])}
  <1>4. 0 \in S
    <2>1. Len(F[0]) \in Nat
      BY <1>1
    <2> QED  BY <1>1, <2>1 DEF Begins
  <1>5. ASSUME NEW m \in 0..(n - 1), m \in S
        PROVE  m + 1 \in S
    <2>1. m + 1 \in 0..n
      BY <1>1
    <2>2. ASSUME NEW k \in 0..(m + 1)
          PROVE  Begins(F[k], F[m+1])
      <3>0. k \in 0..n /\ Len(F[k]) \in Nat
        <4>1. k \in 0..n
          BY <2>1
        <4>2. F[k] \in E
          <5> HIDE DEF E, n
          <5> QED  BY <1>1, <4>1
        <4> QED  BY <4>1, <4>2
      <3>1. CASE k = m + 1
        BY <3>0, <3>1 DEF Begins
      <3>2. CASE k # m + 1
        <4>1. k \in 0..m
          BY <3>2
        <4>2. Begins(F[k], F[m])
          BY <1>5, <4>1
        <4>3. /\ Len(F[m]) \in Nat /\ Len(seqs[m+1]) \in Nat
              /\ Len(F[m+1]) = Len(F[m]) + Len(seqs[m+1])
          BY <1>3
        <4>4. Len(F[k]) <= Len(F[m]) /\ Len(F[m]) <= Len(F[m+1])
          BY <4>2, <4>3, Sums, Zenon DEF Begins
        <4>5. Len(F[k]) <= Len(F[m+1])
          <5>1. \A a, b, c \in Nat : a <= b /\ b <= c => a <= c
            OBVIOUS
          <5>2. Len(F[m+1]) \in Nat
            BY <4>3, Sums, Zenon
          <5> QED  BY <3>0, <4>3, <4>4, <5>1, <5>2, Zenon
        <4>6. ASSUME NEW j \in 1..Len(F[k])
              PROVE  F[m+1][j] = F[k][j]
          <5>1. j \in 1..Len(F[m])
            BY <3>0, <4>3, <4>4
          <5>2. F[m+1][j] = F[m][j]
            BY <1>3, <5>1, Zenon
          <5>3. F[m][j] = F[k][j]
            BY <4>2, Zenon DEF Begins
          <5> QED  BY <5>2, <5>3, Zenon
        <4> QED  BY <4>5, <4>6, Zenon DEF Begins
      <3> QED  BY <3>1, <3>2
    <2> QED  BY <2>1, <2>2
  <1>6. \A k \in 0..n : Begins(F[k], FlattenSeq(seqs))
    <2>1. n \in S
      <3>1. \A m \in 0..n : m \in S
        <4> HIDE DEF S, n
        <4> QED  BY <1>1, <1>4, <1>5, Induction
      <3> HIDE DEF S, n
      <3> QED  BY <1>1, <3>1
    <2> QED  BY <1>1, <2>1
  <1> SUFFICES ASSUME NEW k \in 1..n
               PROVE  /\ Len(F[k]) = Len(F[k-1]) + Len(seqs[k])
                      /\ Len(F[k]) <= Len(FlattenSeq(seqs))
                      /\ \A j \in 1..Len(seqs[k]) :
                            FlattenSeq(seqs)[Len(F[k-1]) + j] = seqs[k][j]
    BY DEF Places
  <1> DEFINE h == k - 1
  <1>7. h \in 0..(n - 1) /\ h + 1 = k /\ k \in 0..n
    BY <1>1
  <1> HIDE DEF h, n, S
  <1>8. /\ Len(F[h]) \in Nat /\ Len(seqs[k]) \in Nat
        /\ Len(F[k]) = Len(F[h]) + Len(seqs[k])
        /\ \A j \in 1..Len(seqs[k]) : F[k][Len(F[h]) + j] = seqs[k][j]
    BY <1>3, <1>7
  <1>9. /\ Len(F[k]) <= Len(FlattenSeq(seqs))
        /\ \A j \in 1..Len(F[k]) : FlattenSeq(seqs)[j] = F[k][j]
    BY <1>6, <1>7 DEF Begins
  <1>10. ASSUME NEW j \in 1..Len(seqs[k])
         PROVE  FlattenSeq(seqs)[Len(F[h]) + j] = seqs[k][j]
    <2>1. /\ Len(F[h]) \in Nat /\ Len(seqs[k]) \in Nat
          /\ Len(F[k]) = Len(F[h]) + Len(seqs[k])
      BY <1>8
    <2>2. Len(F[h]) + j \in 1..Len(F[k])
      BY <2>1, Sums, Zenon
    <2> QED  BY <1>8, <1>9, <2>2, Zenon
  <1> QED  BY <1>8, <1>9, <1>10 DEF h

-----------------------------------------------------------------------------
(* The zero behind the message ends the search, if the four bytes of the    *)
(* code are there.                                                          *)
LEMMA ArgEndFound ==
    ASSUME NEW msg \in Seq(0..(Base - 1)), Len(msg) >= 4
    PROVE  /\ ArgEnd(msg) \in 5..(Len(msg) + 1)
           /\ At(msg, ArgEnd(msg)) = 0
  <1> DEFINE Z == {k \in 5..(Len(msg) + 1) : At(msg, k) = 0}
  <1>1. Len(msg) \in Nat /\ Len(msg) + 1 \in Z
    BY DEF At
  <1>2. PICK z \in Z : \A y \in Z : z <= y
    <2>1. Z \subseteq Nat
      BY <1>1
    <2> QED  BY <1>1, <2>1, Least
  <1>3. ASSUME NEW j \in 5..(z - 1)
        PROVE  msg[j] # 0
    <2>1. j \in 5..(Len(msg) + 1) /\ j # Len(msg) + 1 /\ ~(z <= j)
      BY <1>1, <1>2
    <2> QED  BY <1>2, <2>1 DEF At
  <1>4. /\ z \in 5..(Len(msg) + 1)
        /\ At(msg, z) = 0 /\ \A j \in 5..(z - 1) : msg[j] # 0
    BY <1>3
  <1> DEFINE F(k) == At(msg, k) = 0 /\ \A j \in 5..(k - 1) : msg[j] # 0
  <1>5. \E k \in 5..(Len(msg) + 1) : F(k)
    BY <1>4, Zenon
  <1>6. ArgEnd(msg) \in 5..(Len(msg) + 1) /\ F(ArgEnd(msg))
    BY <1>5, Zenon DEF ArgEnd
  <1> QED  BY <1>6, Zenon

(* The argument string and the data of a message.                           *)
LEMMA PartLengths ==
    ASSUME NEW msg \in Seq(0..(Base - 1)), Len(msg) >= 4
    PROVE  /\ Len(SubSeq(msg, 5, ArgEnd(msg) - 1)) = ArgEnd(msg) - 5
           /\ HasData(msg) => Len(Buffer(msg)) = Len(msg) - ArgEnd(msg) - 3
  <1>1. ArgEnd(msg) \in 5..(Len(msg) + 1) /\ Len(msg) \in Nat
    BY ArgEndFound
  <1>2. Len(SubSeq(msg, 5, ArgEnd(msg) - 1)) = ArgEnd(msg) - 5
    BY <1>1
  <1>3. ASSUME HasData(msg)
        PROVE  Len(Buffer(msg)) = Len(msg) - ArgEnd(msg) - 3
    BY <1>1, <1>3 DEF HasData, Buffer
  <1> QED  BY <1>2, <1>3

(* No byte outside a message is read, for the length or as data.            *)
LEMMA Inside ==
    ASSUME NEW msg \in Seq(0..(Base - 1))
    PROVE  ReadsInside(msg)
  <1> SUFFICES ASSUME Len(msg) >= 5, HasData(msg)
               PROVE  /\ LengthBytes(msg) \subseteq 1..Len(msg)
                      /\ ArgEnd(msg) + 3 + Len(Buffer(msg)) = Len(msg)
    BY DEF ReadsInside
  <1>1. ArgEnd(msg) \in 5..(Len(msg) + 1) /\ Len(msg) \in Nat
    BY ArgEndFound
  <1>2. Len(Buffer(msg)) = Len(msg) - ArgEnd(msg) - 3
    BY <1>1, PartLengths
  <1> QED  BY <1>1, <1>2 DEF HasData, LengthBytes

(* A multiple of a base.                                                    *)
LEMMA Multiples ==
    ASSUME NEW b \in Nat, b > 2, NEW q \in Nat
    PROVE  /\ b * q \in Nat /\ q <= b * q /\ b * 0 = 0
           /\ q > 0 => b * q # q + 1
  <1>1. b * q = q + q + q + (b - 3) * q
    OBVIOUS
  <1>2. (b - 3) * q \in Nat
    <2>1. b - 3 \in Nat
      OBVIOUS
    <2>2. \A x, y \in Nat : x * y \in Nat
      OBVIOUS
    <2> QED  BY <2>1, <2>2, Zenon
  <1> QED  BY <1>1, <1>2

(* Each byte is a number, and so is what the bytes make up.                 *)
LEMMA FieldBytes ==
    ASSUME NEW msg \in Seq(0..(Base - 1)), NEW k \in 1..Len(msg), k + 3 <= Len(msg)
    PROVE  /\ msg[k+1] + Base * (msg[k+2] + Base * msg[k+3]) \in Nat
           /\ At(msg, k) = msg[k] /\ msg[k] \in Nat
  <1>1. /\ msg[k] \in Nat /\ msg[k+1] \in Nat /\ msg[k+2] \in Nat /\ msg[k+3] \in Nat
        /\ Base \in Nat
    BY BaseAssumption DEF BaseAssumption
  <1>2. \A x, y \in Nat : x * y \in Nat /\ x + y \in Nat
    OBVIOUS
  <1>3. msg[k+1] + Base * (msg[k+2] + Base * msg[k+3]) \in Nat
    BY <1>1, <1>2, Zenon
  <1> QED  BY <1>1, <1>3 DEF At

(* Accepted data is a multiple of the base long, and fills its frame.       *)
LEMMA Accepted ==
    ASSUME NEW msg \in Seq(0..(Base - 1))
    PROVE  DataInMultiples(msg)
  <1> DEFINE a == SubSeq(msg, 5, ArgEnd(msg) - 1)
             d == IF HasData(msg) THEN Buffer(msg) ELSE <<>>
             e == ArgEnd(msg)
             q == msg[e+1] + Base * (msg[e+2] + Base * msg[e+3])
  <1> SUFFICES ASSUME ~Decode(msg).refused, Decode(msg).data # <<>>
               PROVE  /\ Len(msg) = 4 + Len(Decode(msg).arg) + 4 + Len(Decode(msg).data)
                      /\ \E x \in 0..Len(Decode(msg).data) :
                            Len(Decode(msg).data) = Base * x
    BY Zenon DEF DataInMultiples
  <1>1. /\ ~(Len(msg) < 5) /\ (HasData(msg) => Len(Buffer(msg)) = ByteLength(msg))
        /\ Decode(msg) = [refused |-> FALSE, arg |-> a, data |-> d]
    BY DEF Decode, Refused
  <1>2. Decode(msg).arg = a /\ Decode(msg).data = d
    <2> HIDE DEF a, d
    <2> QED  BY <1>1
  <1>3. HasData(msg) /\ d = Buffer(msg)
    BY <1>2
  <1>4. Len(msg) \in Nat /\ Len(msg) >= 5 /\ e \in 5..(Len(msg) + 1) /\ At(msg, e) = 0
    BY <1>1, ArgEndFound
  <1>5. Len(a) = e - 5 /\ Len(d) = Len(msg) - e - 3
    BY <1>3, <1>4, PartLengths
  <1>6. e \in 1..Len(msg) /\ e + 3 <= Len(msg)
    BY <1>3, <1>4 DEF HasData
  <1>7. q \in Nat
    <2> HIDE DEF e
    <2> QED  BY <1>6, FieldBytes
  <1>8. Len(d) = 0 + Base * q
    BY <1>1, <1>3, <1>4 DEF ByteLength, Field
  <1> HIDE DEF a, d, e, q
  <1>9. Base * q \in Nat /\ q <= Base * q
    BY <1>7, Multiples, BaseAssumption DEF BaseAssumption
  <1>10. Len(d) = Base * q /\ q \in 0..Len(d)
    <2> DEFINE y == Base * q
    <2>1. Len(d) = 0 + y /\ y \in Nat /\ q <= y
      BY <1>8, <1>9
    <2> HIDE DEF y
    <2>2. Len(d) = y /\ q \in 0..Len(d)
      BY <1>7, <2>1
    <2> QED  BY <2>2 DEF y
  <1>11. Len(msg) = 4 + Len(a) + 4 + Len(d)
    BY <1>4, <1>5
  <1> QED  BY <1>2, <1>10, <1>11

(* Of the documented frames, those without data are accepted.               *)
LEMMA DocumentedRead ==
    ASSUME NEW msg \in Seq(0..(Base - 1))
    PROVE  DocumentedDataRefused(msg)
  <1> DEFINE e == ArgEnd(msg)
             n == DocumentedData(msg)
  <1> SUFFICES ASSUME Len(msg) >= 5, Documented(msg)
               PROVE  /\ n = 0 =>
                            Decode(msg) = [refused |-> FALSE,
                                           arg |-> SubSeq(msg, 5, e - 1), data |-> <<>>]
                      /\ n > 0 /\ msg[e + 4] = 0 => Decode(msg).refused
    BY Zenon DEF DocumentedDataRefused
  <1>1. Len(msg) \in Nat /\ e \in 5..(Len(msg) + 1) /\ At(msg, e) = 0
    BY ArgEndFound
  <1>2. /\ n = Len(msg) - (e + 4) /\ n >= 0 /\ Field(msg, e + 1) = n
        /\ ~(Len(msg) < 5)
    BY DEF Documented, DocumentedData
  <1> HIDE DEF n, e
  <1>3. HasData(msg) <=> n > 0
    BY <1>1, <1>2 DEF HasData, e
  <1>4. ASSUME n = 0
        PROVE  Decode(msg) = [refused |-> FALSE,
                              arg |-> SubSeq(msg, 5, e - 1), data |-> <<>>]
    <2>1. ~HasData(msg)
      BY <1>3, <1>4
    <2> QED  BY <1>2, <2>1, Zenon DEF Decode, e
  <1>5. ASSUME n > 0, msg[e + 4] = 0
        PROVE  Decode(msg).refused
    <2> DEFINE q == msg[e+1] + Base * (msg[e+2] + Base * msg[e+3])
    <2>1. e \in 1..Len(msg) /\ e + 3 <= Len(msg) /\ e + 1 \in 1..Len(msg)
          /\ (e + 1) + 3 <= Len(msg)
      BY <1>1, <1>2
    <2>2. q \in Nat
      BY <2>1, FieldBytes
    <2>3. At(msg, e + 1) = msg[e + 1]
      BY <2>1, FieldBytes
    <2>4. q = n
      <3>1. /\ (e + 1) + 1 = e + 2 /\ (e + 1) + 2 = e + 3 /\ (e + 1) + 3 = e + 4
        BY <1>1
      <3>2. n = At(msg, e + 1)
                  + Base * (msg[e+2] + Base * (msg[e+3] + Base * msg[e+4]))
        BY <1>2, <3>1 DEF Field
      <3>3. Base * 0 = 0 /\ msg[e+3] \in Nat
        <4>1. e + 3 \in 1..Len(msg)
          BY <1>1, <2>1
        <4> QED  BY <4>1, Multiples, BaseAssumption DEF BaseAssumption
      <3>4. msg[e+3] + Base * msg[e+4] = msg[e+3]
        BY <1>5, <3>3
      <3> QED  BY <2>3, <3>2, <3>4
    <2>5. ByteLength(msg) = 0 + Base * q
      BY <1>1 DEF ByteLength, Field, e
    <2>6. Len(Buffer(msg)) = n + 1
      BY <1>1, <1>2, <1>3, <1>5, PartLengths DEF e
    <2> HIDE DEF q
    <2>7. Base * q \in Nat /\ Base * q # q + 1
      BY <1>5, <2>2, <2>4, Multiples, BaseAssumption DEF BaseAssumption
    <2>8. ByteLength(msg) # Len(Buffer(msg))
      <3> DEFINE y == Base * q
      <3>1. ByteLength(msg) = 0 + y /\ y \in Nat /\ y # n + 1
        BY <2>4, <2>5, <2>7
      <3> HIDE DEF y
      <3> QED  BY <2>6, <3>1
    <2>9. Decode(msg) = Refused
      BY <1>3, <1>5, <2>8 DEF Decode
    <2> QED  BY <2>9 DEF Refused
  <1> QED  BY <1>4, <1>5

(* The inputs are sequences of bytes, and no step changes one.              *)
LEMMA FramesAreBytes ==
    ASSUME MCInit
    PROVE  frame \in Seq(0..(Base - 1))
  <1>0. frame = <<>> \/ frame \in Frames
    BY DEF MCInit, NoInput
  <1>1. CASE frame = <<>>
    BY <1>1
  <1>2. CASE frame \in Frames
    <2>1. PICK k \in 0..MaxFrame : frame \in [1..k -> 0..(Base - 1)]
      BY <1>2, MaxLenAssumption DEF Frames, UpTo, MaxLenAssumption
    <2>2. k \in Nat
      BY <2>1, MaxLenAssumption DEF MaxLenAssumption
    <2>3. \A S, f : \A n \in Nat : f \in [1..n -> S] => f \in Seq(S)
      BY SeqDef
    <2> QED  BY <2>1, <2>2, <2>3, Zenon
  <1> QED  BY <1>0, <1>1, <1>2

(* A binary message of any length is read within its bounds, its data is    *)
(* accepted only in multiples of 256 bytes, and of the frames that          *)
(* README.md:51-56 describes only those without data are accepted           *)
(* (WebsocketServer.cpp:237-273); over bytes of any size above two.         *)
THEOREM FramesRead == MCSpec => []FrameRead
  <1>1. MCInit => frame \in Seq(0..(Base - 1))
    BY FramesAreBytes
  <1>2. /\ frame \in Seq(0..(Base - 1))
        /\ [MCNext]_<<chunkVars, inputVars>>
        => (frame \in Seq(0..(Base - 1)))'
    BY DEF MCNext, inputVars
  <1>3. frame \in Seq(0..(Base - 1)) => FrameRead
    BY Inside, Accepted, DocumentedRead DEF FrameRead
  <1> QED  BY <1>1, <1>2, <1>3, PTL DEF MCSpec

-----------------------------------------------------------------------------
(* The arguments of a request.                                              *)

(* The states of the loop of Parse().                                       *)
Splits == [tokens : Seq(Seq(Chars)), pos : Nat \ {0},
           quote : Quotes \cup {"none"}, skip : BOOLEAN]

(* One turn leads from state to state.                                      *)
LEMMA SplitType ==
    ASSUME NEW str \in Seq(Chars), NEW k \in 1..Len(str), NEW st \in Splits
    PROVE  SplitAt(str, st, k) \in Splits
  <1>1. /\ st.tokens \in Seq(Seq(Chars)) /\ st.pos \in Nat \ {0}
        /\ st.quote \in Quotes \cup {"none"} /\ st.skip \in BOOLEAN
        /\ st = [tokens |-> st.tokens, pos |-> st.pos,
                 quote |-> st.quote, skip |-> st.skip]
    BY DEF Splits
  <1>2. k \in Nat /\ k + 1 \in Nat \ {0} /\ k + 2 \in Nat \ {0}
    OBVIOUS
  <1>3. Token(str, st.pos, k - 1) \in Seq(Chars)
    <2>1. st.pos \in Int /\ k - 1 \in Int /\ st.pos..(k - 1) \subseteq 1..Len(str)
      BY <1>1
    <2>2. \A m \in st.pos..(k - 1) : str[m] \in Chars
      BY <2>1
    <2> QED  BY <2>1, <2>2, SubSeqProperties, Zenon DEF Token
  <1> DEFINE tk == Append(st.tokens, Token(str, st.pos, k - 1))
  <1>4. tk \in Seq(Seq(Chars))
    BY <1>1, <1>3
  <1> HIDE DEF tk
  <1>5. CASE st.skip
    <2>1. SplitAt(str, st, k) = [st EXCEPT !.skip = FALSE]
      BY <1>5 DEF SplitAt
    <2> QED  BY <1>1, <2>1 DEF Splits
  <1>6. CASE ~st.skip /\ str[k] \in Quotes /\ st.quote = "none"
    <2>1. SplitAt(str, st, k) = OpenQuote(str, st, k)
      BY <1>6 DEF SplitAt, Quotes
    <2> QED  BY <1>1, <1>2, <1>6, <2>1 DEF OpenQuote, Splits
  <1>7. CASE /\ ~st.skip /\ ~(str[k] \in Quotes /\ st.quote = "none")
             /\ str[k] = st.quote /\ (k = Len(str) \/ str[k+1] = "sp")
    <2>1. SplitAt(str, st, k) = CloseQuote(str, st, k)
      BY <1>7 DEF SplitAt
    <2>2. CloseQuote(str, st, k)
            = [tokens |-> tk, pos |-> k + 2, quote |-> "none", skip |-> TRUE]
      BY DEF CloseQuote, tk
    <2> QED  BY <1>2, <1>4, <2>1, <2>2 DEF Splits
  <1>8. CASE /\ ~st.skip /\ ~(str[k] \in Quotes /\ st.quote = "none")
             /\ ~(str[k] = st.quote /\ (k = Len(str) \/ str[k+1] = "sp"))
             /\ str[k] = "sp" /\ st.quote = "none"
    <2>1. SplitAt(str, st, k) = Space(str, st, k)
      BY <1>8 DEF SplitAt
    <2>2. Space(str, st, k) \in { [st EXCEPT !.tokens = tk, !.pos = k + 1],
                                  [st EXCEPT !.tokens = st.tokens, !.pos = k + 1] }
      BY DEF Space, tk
    <2> QED  BY <1>1, <1>2, <1>4, <2>1, <2>2 DEF Splits
  <1>9. CASE /\ ~st.skip /\ ~(str[k] \in Quotes /\ st.quote = "none")
             /\ ~(str[k] = st.quote /\ (k = Len(str) \/ str[k+1] = "sp"))
             /\ ~(str[k] = "sp" /\ st.quote = "none")
    <2>1. SplitAt(str, st, k) = st
      BY <1>9 DEF SplitAt
    <2> QED  BY <2>1
  <1> QED  BY <1>5, <1>6, <1>7, <1>8, <1>9

(* What the loop does, turn by turn.                                        *)
LEMMA SplitTurns ==
    ASSUME NEW str \in Seq(Chars)
    PROVE  /\ Splitting(str)[0] = SplitStart
           /\ \A k \in 1..Len(str) :
                 Splitting(str)[k] = SplitAt(str, Splitting(str)[k-1], k)
  <1> DEFINE n == Len(str)
             step == [k \in 1..n |-> [st \in Splits |-> SplitAt(str, st, k)]]
  <1>1. n \in Nat /\ SplitStart \in Splits
    BY DEF SplitStart, Splits
  <1>2. step \in Steps(n, Splits)
    BY <1>1, SplitType DEF Steps
  <1>3. PICK f : Solves(f, n, Splits, SplitStart, step)
    <2> HIDE DEF step, n
    <2> QED  BY <1>1, <1>2, Recursion, Zenon
  <1>4. ASSUME NEW k \in 1..n
        PROVE  f[k] = SplitAt(str, f[k-1], k)
    <2>1. f[k-1] \in Splits
      BY <1>1, <1>3 DEF Solves
    <2> QED  BY <1>3, <2>1 DEF Solves
  <1>5. f = [k \in 0..n |-> IF k = 0 THEN SplitStart ELSE SplitAt(str, f[k-1], k)]
    BY <1>1, <1>3, <1>4 DEF Solves
  <1>6. Splitting(str)
          = [k \in 0..n |-> IF k = 0 THEN SplitStart
                            ELSE SplitAt(str, Splitting(str)[k-1], k)]
    BY <1>5, Zenon DEF Splitting
  <1> DEFINE T == Splitting(str)
  <1> HIDE DEF T
  <1>7. T[0] = SplitStart /\ \A k \in 1..n : T[k] = SplitAt(str, T[k-1], k)
    BY <1>1, <1>6 DEF T
  <1> QED  BY <1>7 DEF T

(* The character behind a quote is skipped, and no more.                    *)
LEMMA SkipEnds ==
    ASSUME NEW tokens \in Seq(Seq(Chars)), NEW pos \in Nat \ {0}
    PROVE  [[tokens |-> tokens, pos |-> pos, quote |-> "none", skip |-> TRUE]
              EXCEPT !.skip = FALSE]
             = [tokens |-> tokens, pos |-> pos, quote |-> "none", skip |-> FALSE]
  <1> DEFINE a == [tokens |-> tokens, pos |-> pos, quote |-> "none", skip |-> TRUE]
             s == [a EXCEPT !.skip = FALSE]
             t == [tokens |-> tokens, pos |-> pos, quote |-> "none", skip |-> FALSE]
  <1>1. /\ s \in Splits /\ t \in Splits /\ ~s.skip /\ ~t.skip
        /\ s.tokens = t.tokens /\ s.pos = t.pos /\ s.quote = t.quote
    BY DEF Splits
  <1> HIDE DEF s, t
  <1>2. /\ s = [tokens |-> s.tokens, pos |-> s.pos, quote |-> s.quote, skip |-> s.skip]
        /\ t = [tokens |-> t.tokens, pos |-> t.pos, quote |-> t.quote, skip |-> t.skip]
        /\ s.skip = t.skip
    BY <1>1 DEF Splits
  <1>3. s = t
    BY <1>1, <1>2
  <1> QED  BY <1>3 DEF s, t

(* Where it is when the next argument begins, with some read already.       *)
Before(tokens, o) ==
    [tokens |-> tokens, pos |-> o + 1, quote |-> "none", skip |-> FALSE]

(* The argument stands in quotes at o + 1, and behind them is a space or    *)
(* the end.                                                                 *)
StandsAt(str, o, arg, q) ==
    /\ o + Len(arg) + 2 <= Len(str)
    /\ str[o + 1] = q
    /\ \A j \in 1..Len(arg) : str[o + 1 + j] = arg[j] /\ arg[j] # q
    /\ str[o + Len(arg) + 2] = q
    /\ o + Len(arg) + 2 = Len(str) \/ str[o + Len(arg) + 3] = "sp"

(* Then it is read whole, with the quotes and spaces it holds.              *)
LEMMA ReadsArgument ==
    ASSUME NEW str \in Seq(Chars), NEW arg \in Seq(Chars), NEW q \in Quotes,
           NEW o \in Nat, NEW tokens, StandsAt(str, o, arg, q),
           Splitting(str)[o] = Before(tokens, o)
    PROVE  Splitting(str)[o + Len(arg) + 2]
             = [tokens |-> Append(tokens, arg), pos |-> o + Len(arg) + 4,
                quote |-> "none", skip |-> TRUE]
  <1> DEFINE m == Len(arg)
             n == Len(str)
             T == Splitting(str)
             in == [tokens |-> tokens, pos |-> o + 2, quote |-> q, skip |-> FALSE]
             end == o + m + 2
  <1>1. m \in Nat /\ n \in Nat /\ end <= n
    BY DEF StandsAt
  <1>2. \A k \in 1..n : T[k] = SplitAt(str, T[k-1], k)
    BY SplitTurns
  <1> HIDE DEF T
  <1>3. T[o + 1] = in
    <2>1. o + 1 \in 1..n /\ (o + 1) - 1 = o
      BY <1>1
    <2>2. T[o + 1] = SplitAt(str, Before(tokens, o), o + 1)
      BY <1>2, <2>1 DEF T
    <2>3. str[o + 1] \in Quotes /\ str[o + 1] = q
      BY DEF StandsAt
    <2> DEFINE b == Before(tokens, o)
    <2>4. /\ ~b.skip /\ b.quote = "none"
          /\ OpenQuote(str, b, o + 1) = in
      BY <2>3 DEF OpenQuote, Before
    <2> HIDE DEF b, in
    <2>5. SplitAt(str, b, o + 1) = OpenQuote(str, b, o + 1)
      BY <2>3, <2>4 DEF SplitAt, Quotes
    <2> QED  BY <2>2, <2>4, <2>5 DEF b
  <1> DEFINE S == {j \in 0..m : T[o + 1 + j] = in}
  <1>4. 0 \in S
    BY <1>1, <1>3
  <1>5. ASSUME NEW j \in 0..(m - 1), j \in S
        PROVE  j + 1 \in S
    <2> DEFINE k == o + 1 + (j + 1)
    <2>1. /\ k \in 1..n /\ k - 1 = o + 1 + j /\ j + 1 \in 1..m /\ j + 1 \in 0..m
      BY <1>1
    <2>2. str[k] = arg[j + 1] /\ arg[j + 1] # q
      BY <2>1 DEF StandsAt
    <2> HIDE DEF k, m, n
    <2>3. T[k] = SplitAt(str, in, k)
      BY <1>2, <1>5, <2>1
    <2>4. SplitAt(str, in, k) = in
      BY <2>2 DEF SplitAt, Quotes
    <2> QED  BY <2>1, <2>3, <2>4 DEF k
  <1>6. T[o + 1 + m] = in
    <2>1. \A j \in 0..m : j \in S
      <3> HIDE DEF S, m
      <3> QED  BY <1>1, <1>4, <1>5, Induction
    <2>2. m \in 0..m
      BY <1>1
    <2> HIDE DEF m
    <2> QED  BY <2>1, <2>2
  <1>7. T[end] = CloseQuote(str, in, end)
    <2>1. end \in 1..n /\ end - 1 = o + 1 + m
      BY <1>1
    <2>2. str[end] = q /\ (end = Len(str) \/ str[end + 1] = "sp")
      <3>1. end + 1 = o + Len(arg) + 3
        BY <1>1
      <3> QED  BY <3>1 DEF StandsAt
    <2> HIDE DEF end, m
    <2>3. T[end] = SplitAt(str, in, end)
      BY <1>2, <1>6, <2>1
    <2>4. SplitAt(str, in, end) = CloseQuote(str, in, end)
      BY <2>2 DEF SplitAt, Quotes
    <2> QED  BY <2>3, <2>4
  <1>8. Token(str, o + 2, end - 1) = arg
    <2>1. o + 2 \in Int /\ end - 1 \in Int /\ (o + 2)..(end - 1) \subseteq 1..n
      BY <1>1
    <2>2. \A j \in (o + 2)..(end - 1) : str[j] \in Chars
      BY <2>1
    <2> DEFINE t == SubSeq(str, o + 2, end - 1)
    <2>3. /\ t \in Seq(Chars)
          /\ Len(t) = IF o + 2 <= end - 1 THEN (end - 1) - (o + 2) + 1 ELSE 0
          /\ \A u \in 1..((end - 1) - (o + 2) + 1) : t[u] = str[(o + 2) + u - 1]
      <3> HIDE DEF end
      <3> QED  BY <2>1, <2>2, SubSeqProperties
    <2> HIDE DEF t
    <2>4. (end - 1) - (o + 2) + 1 = m /\ (o + 2 <= end - 1 <=> m >= 1)
      BY <1>1
    <2>5. Len(t) = m
      BY <1>1, <2>3, <2>4
    <2>6. ASSUME NEW u \in 1..m
          PROVE  t[u] = arg[u]
      <3>1. (o + 2) + u - 1 = o + 1 + u
        BY <1>1
      <3>2. t[u] = str[o + 1 + u]
        BY <2>3, <2>4, <3>1
      <3> QED  BY <3>2 DEF StandsAt
    <2>7. t = arg
      BY <2>3, <2>5, <2>6
    <2> QED  BY <2>7 DEF Token, t
  <1>9. end + 2 = o + Len(arg) + 4
    BY <1>1
  <1>10. CloseQuote(str, in, end)
           = [tokens |-> Append(tokens, Token(str, o + 2, end - 1)), pos |-> end + 2,
              quote |-> "none", skip |-> TRUE]
    <2> HIDE DEF end
    <2> QED  BY DEF CloseQuote
  <1> QED  BY <1>7, <1>8, <1>9, <1>10 DEF T

(* Two sequences, one behind the other.                                     *)
Joins(z, x, y, D) ==
    /\ z \in Seq(D) /\ Len(z) = Len(x) + Len(y)
    /\ \A j \in 1..Len(x) : z[j] = x[j]
    /\ \A j \in 1..Len(y) : z[Len(x) + j] = y[j]

LEMMA Concatenated ==
    ASSUME NEW D, NEW x \in Seq(D), NEW y \in Seq(D)
    PROVE  Joins(x \o y, x, y, D)
  <1>1. /\ x \o y \in Seq(D) /\ Len(x \o y) = Len(x) + Len(y)
        /\ \A j \in 1..Len(x) : (x \o y)[j] = x[j]
        /\ \A j \in 1..Len(y) : (x \o y)[Len(x) + j] = y[j]
    OBVIOUS
  <1> QED  BY <1>1, Zenon DEF Joins

(* What stands before the quote of an argument.                             *)
Gap(k) == IF k = 1 THEN 0 ELSE 1

(* An argument in its quotes, and the space before it.                      *)
LEMMA QuotedBytes ==
    ASSUME NEW list \in Seq(Seq(Chars)), NEW k \in 1..Len(list)
    PROVE  /\ Quoted(list, k) \in Seq(Chars) /\ Len(list[k]) \in Nat
           /\ Len(Quoted(list, k)) = Gap(k) + Len(list[k]) + 2
           /\ Quoted(list, k)[Gap(k) + 1] = QuoteFor(list[k])
           /\ \A j \in 1..Len(list[k]) : Quoted(list, k)[Gap(k) + 1 + j] = list[k][j]
           /\ Quoted(list, k)[Gap(k) + Len(list[k]) + 2] = QuoteFor(list[k])
           /\ k # 1 => Quoted(list, k)[1] = "sp"
  <1> DEFINE a == list[k]
             m == Len(a)
             q == QuoteFor(a)
             gap == IF k = 1 THEN <<>> ELSE <<"sp">>
             x == gap \o <<q>>
             y == x \o a
             z == y \o <<q>>
             g == Gap(k)
  <1>1. a \in Seq(Chars) /\ m \in Nat
    OBVIOUS
  <1>2. q \in Chars /\ <<q>> \in Seq(Chars) /\ Len(<<q>>) = 1 /\ <<q>>[1] = q
    BY DEF QuoteFor, Chars
  <1>3. /\ gap \in Seq(Chars) /\ Len(gap) = g /\ g \in {0, 1}
        /\ k # 1 => g = 1 /\ gap[1] = "sp"
    <2>1. CASE k = 1
      <3>1. gap = <<>> /\ g = 0
        BY <2>1 DEF Gap
      <3> HIDE DEF gap, g
      <3> QED  BY <2>1, <3>1
    <2>2. CASE k # 1
      <3>1. gap = <<"sp">> /\ g = 1 /\ "sp" \in Chars
        BY <2>2 DEF Chars, Gap
      <3> HIDE DEF gap, g
      <3>2. <<"sp">> \in Seq(Chars) /\ Len(<<"sp">>) = 1 /\ <<"sp">>[1] = "sp"
        BY <3>1
      <3> QED  BY <3>1, <3>2
    <2> QED  BY <2>1, <2>2
  <1>4. Quoted(list, k) = z
    BY DEF Quoted
  <1> HIDE DEF a, q, gap, g
  <1>5. /\ x \in Seq(Chars) /\ Len(x) = g + 1 /\ x[g + 1] = q
        /\ k # 1 => x[1] = "sp"
    <2>1. Joins(x, gap, <<q>>, Chars)
      BY <1>2, <1>3, Concatenated
    <2> HIDE DEF x
    <2> QED  BY <1>2, <1>3, <2>1 DEF Joins
  <1> HIDE DEF x
  <1>6. /\ y \in Seq(Chars) /\ Len(y) = g + 1 + m /\ y[g + 1] = q
        /\ k # 1 => y[1] = "sp"
        /\ \A j \in 1..m : y[g + 1 + j] = a[j]
    <2>1. Joins(y, x, a, Chars)
      <3>1. a \in Seq(Chars)
        BY <1>1
      <3> QED  BY <1>5, <3>1, Concatenated
    <2>2. g + 1 \in 1..(g + 1) /\ 1 \in 1..(g + 1)
      BY <1>3
    <2> HIDE DEF y
    <2> QED  BY <1>1, <1>5, <2>1, <2>2 DEF Joins
  <1> HIDE DEF y
  <1>7. /\ z \in Seq(Chars) /\ Len(z) = g + m + 2
        /\ z[g + 1] = q
        /\ \A j \in 1..m : z[g + 1 + j] = a[j]
        /\ z[g + m + 2] = q
        /\ k # 1 => z[1] = "sp"
    <2>1. Joins(z, y, <<q>>, Chars)
      BY <1>2, <1>6, Concatenated
    <2> HIDE DEF z, m
    <2>2. /\ g + 1 \in 1..(g + 1 + m) /\ 1 \in 1..(g + 1 + m)
          /\ \A j \in 1..m : g + 1 + j \in 1..(g + 1 + m)
          /\ (g + 1 + m) + 1 = g + m + 2
      BY <1>1, <1>3
    <2> QED  BY <1>2, <1>6, <2>1, <2>2 DEF Joins
  <1> QED  BY <1>1, <1>4, <1>7 DEF a, q, g

(* Arguments of which none holds both quotes come back.                     *)
LEMMA ArgumentsKept ==
    ASSUME NEW list \in Seq(Seq(Chars))
    PROVE  QuotedArgsKept(list)
  <1> SUFFICES ASSUME \A k \in DOMAIN list :
                         ~(Contains(list[k], "dq") /\ Contains(list[k], "sq"))
               PROVE  SplitArgs(Render(list)) = list
    BY DEF QuotedArgsKept
  <1> DEFINE n == Len(list)
             seqs == [k \in DOMAIN list |-> Quoted(list, k)]
             w == Render(list)
             T == Splitting(w)
  <1>1. n \in Nat /\ DOMAIN list = 1..n /\ \A k \in 1..n : list[k] \in Seq(Chars)
    OBVIOUS
  <1>2. seqs \in Seq(Seq(Chars)) /\ Len(seqs) = n /\ \A k \in 1..n : seqs[k] = Quoted(list, k)
    <2>1. seqs \in [1..n -> Seq(Chars)]
      BY <1>1, QuotedBytes
    <2> QED  BY <1>1, <2>1
  <1>3. w = FlattenSeq(seqs)
    BY DEF Render
  <1>4. ASSUME NEW k \in 1..n
        PROVE  /\ QuoteFor(list[k]) \in Quotes
               /\ \A j \in 1..Len(list[k]) : list[k][j] # QuoteFor(list[k])
    BY <1>1 DEF QuoteFor, Quotes, Contains
  <1> HIDE DEF seqs, w, n
  <1>5. PICK F : Flattens(F, seqs, Chars)
    BY <1>2, Flattening
  <1>6. Places(F, seqs)
    BY <1>2, <1>5, Pieces
  <1>7. /\ F \in [0..n -> Seq(Chars)] /\ F[0] = <<>> /\ F[n] = w
        /\ w \in Seq(Chars) /\ Len(w) \in Nat
        /\ \A k \in 0..n : Len(F[k]) \in Nat
    <2>1. F \in [0..n -> Seq(Chars)] /\ F[0] = <<>> /\ F[n] = w
      BY <1>2, <1>3, <1>5 DEF Flattens
    <2>2. w \in Seq(Chars)
      BY <1>1, <2>1
    <2> QED  BY <2>1, <2>2
  <1>8. T[0] = SplitStart /\ \A k \in 1..Len(w) : T[k] = SplitAt(w, T[k-1], k)
    BY <1>7, SplitTurns
  <1> HIDE DEF T
  <1>9. ASSUME NEW k \in 1..n
        PROVE  /\ Len(F[k]) = Len(F[k-1]) + Gap(k) + Len(list[k]) + 2
               /\ Len(F[k]) <= Len(w) /\ Len(list[k]) \in Nat /\ Len(F[k-1]) \in Nat
               /\ k # 1 => w[Len(F[k-1]) + 1] = "sp"
               /\ w[Len(F[k-1]) + Gap(k) + 1] = QuoteFor(list[k])
               /\ \A j \in 1..Len(list[k]) :
                     w[Len(F[k-1]) + Gap(k) + 1 + j] = list[k][j]
               /\ w[Len(F[k])] = QuoteFor(list[k])
    <2> DEFINE p == Len(F[k-1])
               m == Len(list[k])
               g == Gap(k)
               z == Quoted(list, k)
    <2>1. p \in Nat
      <3>1. k - 1 \in 0..n
        BY <1>1
      <3> QED  BY <1>7, <3>1
    <2>2. /\ Len(F[k]) = p + Len(z) /\ Len(F[k]) <= Len(w)
          /\ \A j \in 1..Len(z) : w[p + j] = z[j]
      BY <1>2, <1>3, <1>6, Zenon DEF Places
    <2>3. /\ m \in Nat /\ Len(z) = g + m + 2
          /\ z[g + 1] = QuoteFor(list[k]) /\ z[g + m + 2] = QuoteFor(list[k])
          /\ \A j \in 1..m : z[g + 1 + j] = list[k][j]
          /\ k # 1 => z[1] = "sp"
      BY QuotedBytes DEF n
    <2>4. g \in {0, 1}
      BY DEF Gap
    <2> HIDE DEF p, m, g, z
    <2>5. /\ p + (g + m + 2) = p + g + m + 2 /\ 1 \in 1..(g + m + 2)
          /\ p + (g + 1) = p + g + 1 /\ g + 1 \in 1..(g + m + 2)
          /\ g + m + 2 \in 1..(g + m + 2)
          /\ \A j \in 1..m : p + (g + 1 + j) = p + g + 1 + j /\ g + 1 + j \in 1..(g + m + 2)
      BY <2>1, <2>3, <2>4
    <2>6. ASSUME NEW j \in 1..m
          PROVE  w[p + g + 1 + j] = list[k][j]
      <3>1. p + (g + 1 + j) = p + g + 1 + j /\ g + 1 + j \in 1..Len(z)
        BY <2>3, <2>5, Zenon
      <3>2. w[p + (g + 1 + j)] = z[g + 1 + j]
        BY <2>2, <3>1, Zenon
      <3> QED  BY <2>3, <3>1, <3>2, Zenon
    <2>7. /\ Len(F[k]) = p + g + m + 2
          /\ w[p + g + 1] = QuoteFor(list[k])
          /\ w[p + g + m + 2] = QuoteFor(list[k])
      BY <2>2, <2>3, <2>5, Zenon
    <2>8. k # 1 => w[p + 1] = "sp"
      BY <2>2, <2>3, <2>5, Zenon
    <2>9. w[Len(F[k])] = QuoteFor(list[k])
      BY <2>7, Zenon
    <2> QED  BY <2>1, <2>2, <2>3, <2>6, <2>7, <2>8, <2>9, Zenon DEF p, m, g, z
  <1> DEFINE done == [k \in 0..n |-> SubSeq(list, 1, k)]
             After(k) == [tokens |-> done[k], pos |-> Len(F[k]) + 2,
                          quote |-> "none", skip |-> TRUE]
             S == {k \in 0..n : T[Len(F[k])] = IF k = 0 THEN SplitStart ELSE After(k)}
  <1>10. 0 \in S
    <2>1. Len(F[0]) = 0 /\ 0 \in 0..n
      BY <1>1, <1>7
    <2> QED  BY <1>8, <2>1
  <1>11. ASSUME NEW k \in 1..n
         PROVE  done[k] = Append(done[k-1], list[k]) /\ done[0] = <<>>
    <2>1. k - 1 \in 0..n /\ k \in 0..n /\ 0 \in 0..n
      BY <1>1
    <2>2. SubSeq(list, 1, k) = Append(SubSeq(list, 1, k - 1), list[k])
      BY <1>1 DEF n
    <2>3. SubSeq(list, 1, 0) = <<>>
      BY SubSeqEmpty
    <2> QED  BY <2>1, <2>2, <2>3
  <1>12. (n > 0 => done[n] = list) /\ \A k \in 0..n : done[k] \in Seq(Seq(Chars))
    <2>1. SubSeq(list, 1, Len(list)) = list
      BY SubSeqFull
    <2>2. ASSUME NEW k \in 0..n
          PROVE  SubSeq(list, 1, k) \in Seq(Seq(Chars))
      <3>1. k \in Int /\ \A j \in 1..k : list[j] \in Seq(Chars)
        BY <1>1
      <3> QED  BY <3>1, SubSeqProperties
    <2> QED  BY <1>1, <2>1, <2>2 DEF n
  <1> HIDE DEF done
  <1>13. ASSUME NEW h \in 0..(n - 1), h \in S
         PROVE  h + 1 \in S
    <2> DEFINE k == h + 1
               p == Len(F[h])
               g == Gap(k)
               o == p + g
               m == Len(list[k])
               q == QuoteFor(list[k])
    <2>1. k \in 1..n /\ k - 1 = h /\ h \in 0..n /\ k \in 0..n /\ (h = 0 <=> k = 1)
      BY <1>1
    <2> HIDE DEF k
    <2>2. /\ Len(F[k]) = p + g + m + 2 /\ Len(F[k]) <= Len(w)
          /\ m \in Nat /\ p \in Nat
          /\ k # 1 => w[p + 1] = "sp"
          /\ w[o + 1] = q
          /\ \A j \in 1..m : w[o + 1 + j] = list[k][j]
          /\ w[Len(F[k])] = q
      BY <1>9, <2>1
    <2>3. q \in Quotes /\ list[k] \in Seq(Chars) /\ \A j \in 1..m : list[k][j] # q
      BY <1>1, <1>4, <2>1
    <2>4. g = IF k = 1 THEN 0 ELSE 1
      BY DEF Gap
    <2> HIDE DEF p, g, m, q
    <2>5. T[o] = Before(done[h], o)
      <3>1. CASE k = 1
        <4>1. o = 0 /\ h = 0 /\ p = 0
          <5>1. p = 0
            BY <1>7, <2>1, <3>1 DEF p
          <5> QED  BY <2>1, <2>4, <3>1, <5>1
        <4>2. T[0] = SplitStart /\ done[0] = <<>>
          BY <1>8, <1>11, <2>1
        <4>3. SplitStart = Before(<<>>, 0)
          BY DEF SplitStart, Before
        <4> QED  BY <4>1, <4>2, <4>3
      <3>2. CASE k # 1
        <4>1. o = p + 1 /\ p + 1 \in 1..Len(w) /\ (p + 1) - 1 = p
          BY <1>7, <2>2, <2>4, <3>2
        <4>2. T[p] = [tokens |-> done[h], pos |-> p + 2, quote |-> "none", skip |-> TRUE]
          BY <1>13, <2>1, <3>2 DEF p
        <4>3. T[p + 1] = SplitAt(w, T[p], p + 1)
          BY <1>8, <4>1
        <4>4. SplitAt(w, T[p], p + 1)
                = [tokens |-> done[h], pos |-> p + 2, quote |-> "none", skip |-> FALSE]
          <5> DEFINE st == T[p]
          <5>1. st = [tokens |-> done[h], pos |-> p + 2, quote |-> "none", skip |-> TRUE]
            BY <4>2
          <5> HIDE DEF st
          <5>2. SplitAt(w, st, p + 1) = [st EXCEPT !.skip = FALSE]
            <6>1. st.skip
              BY <5>1
            <6> QED  BY <6>1 DEF SplitAt
          <5>3. [st EXCEPT !.skip = FALSE]
                  = [tokens |-> done[h], pos |-> p + 2, quote |-> "none", skip |-> FALSE]
            <6>1. done[h] \in Seq(Seq(Chars)) /\ p + 2 \in Nat \ {0}
              BY <1>12, <2>1, <2>2
            <6> QED  BY <5>1, <6>1, SkipEnds
          <5> QED  BY <5>2, <5>3, Zenon DEF st
        <4>5. (p + 1) + 1 = p + 2
          BY <2>2
        <4> HIDE DEF o
        <4> QED  BY <4>1, <4>3, <4>4, <4>5 DEF Before
      <3> QED  BY <3>1, <3>2
    <2>6. o \in Nat /\ o + m + 2 = Len(F[k]) /\ o + m + 3 = Len(F[k]) + 1
      BY <2>2, <2>4
    <2>7. Len(F[k]) = Len(w) \/ w[Len(F[k]) + 1] = "sp"
      <3>1. CASE k = n
        BY <1>7, <3>1
      <3>2. CASE k # n
        <4>1. k + 1 \in 1..n /\ (k + 1) - 1 = k /\ k + 1 # 1
          BY <1>1, <2>1, <3>2
        <4> QED  BY <1>9, <4>1
      <3> QED  BY <3>1, <3>2
    <2> HIDE DEF o
    <2>8. StandsAt(w, o, list[k], q)
      BY <2>2, <2>3, <2>6, <2>7 DEF StandsAt, m
    <2>9. T[o + m + 2]
            = [tokens |-> Append(done[h], list[k]), pos |-> o + m + 4,
               quote |-> "none", skip |-> TRUE]
      <3> DEFINE a == list[k]
                 tk == done[h]
      <3>1. Splitting(w)[o] = Before(tk, o)
        BY <2>5 DEF T
      <3>2. /\ w \in Seq(Chars) /\ a \in Seq(Chars) /\ q \in Quotes /\ o \in Nat
            /\ StandsAt(w, o, a, q)
        BY <1>7, <2>3, <2>6, <2>8
      <3> HIDE DEF a, tk
      <3>3. Splitting(w)[o + Len(a) + 2]
              = [tokens |-> Append(tk, a), pos |-> o + Len(a) + 4,
                 quote |-> "none", skip |-> TRUE]
        BY <3>1, <3>2, ReadsArgument
      <3> QED  BY <3>3, Zenon DEF T, m, a, tk
    <2>10. o + m + 4 = Len(F[k]) + 2
      BY <2>2, <2>6
    <2>11. done[k] = Append(done[h], list[k])
      BY <1>11, <2>1
    <2>12. T[Len(F[k])] = After(k) /\ k # 0
      <3>1. k # 0
        BY <1>1, <2>1
      <3> QED  BY <2>6, <2>9, <2>10, <2>11, <3>1, Zenon
    <2>13. k \in S
      BY <2>1, <2>12
    <2> QED  BY <2>13 DEF k
  <1>14. n \in S
    <2>1. \A k \in 0..n : k \in S
      <3> HIDE DEF S
      <3> QED  BY <1>1, <1>10, <1>13, Induction
    <2>2. n \in 0..n
      BY <1>1
    <2> HIDE DEF S
    <2> QED  BY <2>1, <2>2
  <1>15. CASE n = 0
    <2>1. T[Len(w)] = SplitStart /\ Len(w) = 0 /\ list = <<>>
      BY <1>1, <1>7, <1>8, <1>15 DEF n
    <2> QED  BY <2>1 DEF SplitArgs, SplitStart, T, w
  <1>16. CASE n # 0
    <2>1. T[Len(w)] = [tokens |-> list, pos |-> Len(w) + 2, quote |-> "none", skip |-> TRUE]
      <3>1. T[Len(F[n])] = After(n)
        BY <1>14, <1>16
      <3>2. done[n] = list /\ F[n] = w
        BY <1>1, <1>7, <1>12, <1>16
      <3> QED  BY <3>1, <3>2, Zenon
    <2>2. ~(Len(w) + 2 <= Len(w))
      BY <1>7
    <2> QED  BY <2>1, <2>2 DEF SplitArgs, T, w
  <1> QED  BY <1>15, <1>16

(* The argument lists, of words of any length.                              *)
LEMMA ListsOfWords ==
    ASSUME MCInit
    PROVE  args \in Seq(Seq(Chars))
  <1>0. args = <<>> \/ args \in UpTo(2, Words)
    BY DEF MCInit, NoInput
  <1>1. Words \subseteq Seq(Chars)
    <2> SUFFICES ASSUME NEW x \in Words
                 PROVE  x \in Seq(Chars)
      OBVIOUS
    <2>1. PICK k \in 0..2 : x \in [1..k -> Chars]
      BY DEF Words, UpTo
    <2> QED  BY <2>1, SeqDef
  <1>2. CASE args = <<>>
    BY <1>2
  <1>3. CASE args \in UpTo(2, Words)
    <2>1. PICK k \in 0..2 : args \in [1..k -> Words]
      BY <1>3 DEF UpTo
    <2>2. k \in Nat /\ args \in [1..k -> Seq(Chars)]
      BY <1>1, <2>1
    <2> QED  BY <2>2, SeqDef
  <1> QED  BY <1>0, <1>2, <1>3

(* The arguments of a request, each in quotes it does not hold, come back   *)
(* one by one as they were written (localserver.cpp:212-244).               *)
THEOREM ArgsWhole == MCSpec => []ArgsKept
  <1>1. MCInit => args \in Seq(Seq(Chars))
    BY ListsOfWords
  <1>2. args \in Seq(Seq(Chars)) /\ [MCNext]_<<chunkVars, inputVars>>
        => (args \in Seq(Seq(Chars)))'
    BY DEF MCNext, inputVars
  <1>3. args \in Seq(Seq(Chars)) => ArgsKept
    BY ArgumentsKept DEF ArgsKept
  <1> QED  BY <1>1, <1>2, <1>3, PTL DEF MCSpec

-----------------------------------------------------------------------------
(* The loops over a text.                                                   *)

(* The bytes above ASCII that the switches know.                            *)
High == {"x80", "x82", "x83", "x84", "x85", "x86", "x87", "x88", "x89", "x8A", "x8B",
         "x8C", "x8E", "x91", "x92", "x93", "x94", "x95", "x96", "x97", "x98", "x99",
         "x9A", "x9B", "x9C", "x9E", "x9F"}

(* What cp1252FromUtf8() yields: bytes of CP1252, none of them a CR.        *)
Cp1252 == (Ascii \ {"cr"}) \cup High

(* A character goes to its byte by the one switch, and back by the other.   *)
Row(c, b) == ToCp1252(c) = b /\ FromCp1252(b) = c /\ b \in High
Listed(c) == ToCp1252(c) \in High /\ FromCp1252(ToCp1252(c)) = c

(* The switches agree, row by row.                                          *)
LEMMA SwitchesAgree ==
    ASSUME NEW c \in Leaders \ Unlisted
    PROVE  Listed(c)
  <1>1. Row("U+20AC", "x80") /\ Row("U+201A", "x82") /\ Row("U+0192", "x83")
    BY DEF ToCp1252, FromCp1252, Row, High
  <1>2. Row("U+201E", "x84") /\ Row("U+2026", "x85") /\ Row("U+2020", "x86")
    BY DEF ToCp1252, FromCp1252, Row, High
  <1>3. Row("U+2021", "x87") /\ Row("U+02C6", "x88") /\ Row("U+2030", "x89")
    BY DEF ToCp1252, FromCp1252, Row, High
  <1>4. Row("U+0160", "x8A") /\ Row("U+2039", "x8B") /\ Row("U+0152", "x8C")
    BY DEF ToCp1252, FromCp1252, Row, High
  <1>5. Row("U+017D", "x8E") /\ Row("U+2018", "x91") /\ Row("U+2019", "x92")
    BY DEF ToCp1252, FromCp1252, Row, High
  <1>6. Row("U+201C", "x93") /\ Row("U+201D", "x94") /\ Row("U+2022", "x95")
    BY DEF ToCp1252, FromCp1252, Row, High
  <1>7. Row("U+2013", "x96") /\ Row("U+2014", "x97") /\ Row("U+02DC", "x98")
    BY DEF ToCp1252, FromCp1252, Row, High
  <1>8. Row("U+2122", "x99") /\ Row("U+0161", "x9A") /\ Row("U+203A", "x9B")
    BY DEF ToCp1252, FromCp1252, Row, High
  <1>9. Row("U+0153", "x9C") /\ Row("U+017E", "x9E") /\ Row("U+0178", "x9F")
    BY DEF ToCp1252, FromCp1252, Row, High
  <1>10. \A x, b : Row(x, b) => Listed(x)
    BY Zenon DEF Row, Listed
  <1> QED  BY <1>1, <1>2, <1>3, <1>4, <1>5, <1>6, <1>7, <1>8, <1>9, <1>10
              DEF Leaders, Unlisted, TwoBytes, ThreeBytes

(* Neither switch yields anything else.                                     *)
LEMMA SwitchType ==
    /\ \A c : ToCp1252(c) \in High \cup {"?"}
    /\ \A c \in Unlisted : ToCp1252(c) = "?"
  <1>1. \A c : ToCp1252(c) \in High \cup {"?"}
    BY DEF ToCp1252, High
  <1>2. \A c \in Unlisted : ToCp1252(c) = "?"
    BY DEF ToCp1252, Unlisted
  <1> QED  BY <1>1, <1>2

(* The states of its loop.                                                  *)
Conversions == [next : Nat, out : Seq(Cp1252)]

(* One turn leads from state to state.                                      *)
LEMMA ConvertType ==
    ASSUME NEW str, NEW k \in Nat, NEW st \in Conversions
    PROVE  ConvertAt(str, st, k) \in Conversions
  <1>1. Length(str[k]) \in Nat
    BY DEF Length
  <1>2. Step(str, k) \in Nat
    BY <1>1 DEF Step
  <1>3. Convert(str[k]) \in Seq(Cp1252) /\ <<"?">> \in Seq(Cp1252)
    <2>1. "?" \in Cp1252 /\ ToCp1252(str[k]) \in Cp1252
      BY SwitchType, Zenon DEF Cp1252, Ascii
    <2>2. \A c \in Cp1252 : <<c>> \in Seq(Cp1252)
      OBVIOUS
    <2>3. str[k] \in Ascii \ {"cr"} => str[k] \in Cp1252
      BY DEF Cp1252
    <2> HIDE DEF Cp1252
    <2>4. /\ <<>> \in Seq(Cp1252) /\ <<"?">> \in Seq(Cp1252)
          /\ <<ToCp1252(str[k])>> \in Seq(Cp1252)
          /\ str[k] \in Ascii \ {"cr"} => <<str[k]>> \in Seq(Cp1252)
      BY <2>1, <2>2, <2>3
    <2>5. Convert(str[k]) = IF str[k] = "cr" THEN <<>>
                            ELSE IF str[k] \in Ascii \ {"cr"} THEN <<str[k]>>
                            ELSE <<ToCp1252(str[k])>>
      BY DEF Convert
    <2> QED  BY <2>4, <2>5
  <1> DEFINE c == IF Step(str, k) = Length(str[k]) THEN Convert(str[k]) ELSE <<"?">>
  <1>4. c \in Seq(Cp1252)
    BY <1>3
  <1> HIDE DEF c
  <1>5. st.out \o c \in Seq(Cp1252)
    BY <1>4 DEF Conversions
  <1>6. [next |-> k + Step(str, k), out |-> st.out \o c] \in Conversions
    BY <1>2, <1>5 DEF Conversions
  <1>7. ConvertAt(str, st, k) = IF k < st.next THEN st
                                ELSE [next |-> k + Step(str, k), out |-> st.out \o c]
    BY DEF ConvertAt, c
  <1> QED  BY <1>6, <1>7

(* What the loop does, turn by turn.                                        *)
LEMMA ConvertTurns ==
    ASSUME NEW str, Len(str) \in Nat
    PROVE  /\ Converting(str)[0] = [next |-> 1, out |-> <<>>]
           /\ \A k \in 1..Len(str) :
                 Converting(str)[k] = ConvertAt(str, Converting(str)[k-1], k)
           /\ \A k \in 0..Len(str) : Converting(str)[k] \in Conversions
  <1> DEFINE n == Len(str)
             base == [next |-> 1, out |-> <<>>]
             step == [k \in 1..n |-> [st \in Conversions |-> ConvertAt(str, st, k)]]
  <1>1. n \in Nat /\ base \in Conversions
    BY DEF Conversions
  <1>2. step \in Steps(n, Conversions)
    BY <1>1, ConvertType DEF Steps
  <1>3. PICK f : Solves(f, n, Conversions, base, step)
    <2> HIDE DEF step, n, base
    <2> QED  BY <1>1, <1>2, Recursion, Zenon
  <1>4. \A k \in 1..n : f[k] = ConvertAt(str, f[k-1], k)
    <2> HIDE DEF Conversions
    <2> SUFFICES ASSUME NEW k \in 1..n
                 PROVE  f[k] = ConvertAt(str, f[k-1], k)
      OBVIOUS
    <2>1. f[k-1] \in Conversions
      BY <1>1, <1>3 DEF Solves
    <2> QED  BY <1>3, <2>1 DEF Solves
  <1>5. f = [k \in 0..n |-> IF k = 0 THEN base ELSE ConvertAt(str, f[k-1], k)]
    <2> HIDE DEF base
    <2> QED  BY <1>1, <1>3, <1>4 DEF Solves
  <1>6. Converting(str)
          = [k \in 0..n |-> IF k = 0 THEN base ELSE ConvertAt(str, Converting(str)[k-1], k)]
    BY <1>5, Zenon DEF Converting
  <1> DEFINE C == Converting(str)
  <1> HIDE DEF C
  <1>7. C[0] = base /\ \A k \in 1..n : C[k] = ConvertAt(str, C[k-1], k)
    <2> HIDE DEF base
    <2> QED  BY <1>1, <1>6 DEF C
  <1> DEFINE S == {k \in 0..n : C[k] \in Conversions}
  <1>8. 0 \in S
    BY <1>1, <1>7
  <1>9. \A k \in 0..(n - 1) : k \in S => k + 1 \in S
    <2> SUFFICES ASSUME NEW k \in 0..(n - 1), k \in S
                 PROVE  k + 1 \in S
      OBVIOUS
    <2>1. k + 1 \in 1..n /\ (k + 1) - 1 = k /\ k + 1 \in Nat
      BY <1>1
    <2>2. C[k + 1] = ConvertAt(str, C[k], k + 1)
      BY <1>7, <2>1
    <2> QED  BY <2>1, <2>2, ConvertType
  <1>10. \A k \in 0..n : k \in S
    <2> HIDE DEF S, n
    <2> QED  BY <1>1, <1>8, <1>9, Induction
  <1> QED  BY <1>7, <1>10 DEF C

(* No text has a CR when it is converted.                                   *)
LEMMA Converted ==
    ASSUME NEW str, Len(str) \in Nat
    PROVE  Cp1252FromUtf8(str) \in Seq(Cp1252)
  <1>1. Converting(str)[Len(str)] \in Conversions
    BY ConvertTurns
  <1> QED  BY <1>1 DEF Cp1252FromUtf8, Conversions

(* A character in UTF-8, byte by byte, and what is left of it.              *)
LEMMA EncodedBytes ==
    ASSUME NEW c \in Characters
    PROVE  /\ Length(c) \in 1..4
           /\ Encoded(c) \in Seq(Characters \cup {"cont"})
           /\ Len(Encoded(c)) = Length(c)
           /\ Encoded(c)[1] = c
  <1>1. Length(c) \in 1..4
    BY DEF Length
  <1> DEFINE B == Characters \cup {"cont"}
             tail == [k \in 1..(Length(c) - 1) |-> "cont"]
  <1>2. tail \in Seq(B) /\ Len(tail) = Length(c) - 1
    BY <1>1
  <1>3. <<c>> \in Seq(B) /\ Len(<<c>>) = 1 /\ <<c>>[1] = c
    OBVIOUS
  <1>4. Encoded(c) = <<c>> \o tail
    BY DEF Encoded
  <1> HIDE DEF tail, B
  <1>5. Encoded(c) \in Seq(B) /\ Len(Encoded(c)) = Length(c) /\ Encoded(c)[1] = c
    BY <1>1, <1>2, <1>3, <1>4
  <1> QED  BY <1>1, <1>5 DEF B

(* What is left of a text, and the bytes it is sent as.                     *)
KeptCharacters == {"a", "?"} \cup (Leaders \ Unlisted)
ByteOf(c) == IF c \in Ascii THEN c ELSE ToCp1252(c)
Sent(txt) == [k \in 1..Len(txt) |-> ByteOf(txt[k])]

LEMMA KeptBytes ==
    ASSUME NEW c \in Characters
    PROVE  KeptAs(c) \in Seq(KeptCharacters) /\ Convert(c) = Sent(KeptAs(c))
  <1>1. CASE c = "cr"
    <2>1. KeptAs(c) = <<>> /\ Convert(c) = <<>>
      BY <1>1 DEF KeptAs, Convert
    <2>2. Sent(<<>>) = <<>>
      BY DEF Sent
    <2> QED  BY <2>1, <2>2
  <1>2. CASE c # "cr"
    <2> DEFINE d == IF c \in Unlisted THEN "?" ELSE c
    <2>1. d \in KeptCharacters /\ KeptAs(c) = <<d>>
      BY <1>2 DEF Characters, KeptCharacters, KeptAs
    <2>2. Convert(c) = <<ByteOf(d)>>
      <3>1. CASE c = "a"
        BY <3>1 DEF Convert, ByteOf, Ascii, Unlisted
      <3>2. CASE c # "a"
        <4>1. c \in Leaders
          BY <1>2, <3>2 DEF Characters
        <4>2. c \notin Ascii
          BY <4>1 DEF Leaders, TwoBytes, ThreeBytes, Ascii
        <4>3. Convert(c) = <<ToCp1252(c)>>
          BY <1>2, <4>2 DEF Convert
        <4>4. ByteOf(d) = ToCp1252(c)
          BY <4>2, SwitchType DEF ByteOf, Ascii
        <4> QED  BY <4>3, <4>4
      <3> QED  BY <3>1, <3>2
    <2> HIDE DEF d
    <2>3. Sent(<<d>>) = <<ByteOf(d)>>
      BY DEF Sent
    <2> QED  BY <2>1, <2>2, <2>3
  <1> QED  BY <1>1, <1>2

(* The bytes of two texts, one behind the other.                            *)
LEMMA SentPieces ==
    ASSUME NEW D, NEW x \in Seq(D), NEW y \in Seq(D)
    PROVE  Sent(x \o y) = Sent(x) \o Sent(y)
  <1> DEFINE R == {ByteOf(c) : c \in D}
             a == Sent(x)
             b == Sent(y)
             z == x \o y
  <1>1. Len(x) \in Nat /\ Len(y) \in Nat /\ Joins(z, x, y, D)
    BY Concatenated
  <1>2. /\ a \in Seq(R) /\ Len(a) = Len(x) /\ \A j \in 1..Len(x) : a[j] = ByteOf(x[j])
        /\ b \in Seq(R) /\ Len(b) = Len(y) /\ \A j \in 1..Len(y) : b[j] = ByteOf(y[j])
    BY DEF Sent
  <1> HIDE DEF R, a, b, z
  <1>3. Joins(a \o b, a, b, R)
    BY <1>2, Concatenated
  <1> DEFINE w == a \o b
             n == Len(x) + Len(y)
  <1> HIDE DEF w
  <1>4. w \in Seq(R) /\ Len(w) = n /\ n \in Nat
    BY <1>1, <1>2, <1>3 DEF Joins, w
  <1>5. ASSUME NEW j \in 1..n
        PROVE  w[j] = ByteOf(z[j])
    <2>1. CASE j \in 1..Len(x)
      BY <1>2, <1>1, <1>3, <2>1 DEF Joins, w
    <2>2. CASE j \notin 1..Len(x)
      <3> DEFINE u == j - Len(x)
      <3>1. u \in 1..Len(y) /\ j = Len(x) + u
        BY <1>1, <2>2
      <3> HIDE DEF u
      <3>2. w[j] = b[u] /\ z[j] = y[u]
        BY <1>1, <1>2, <1>3, <3>1 DEF Joins, w
      <3> QED  BY <1>2, <3>1, <3>2
    <2> QED  BY <2>1, <2>2
  <1>6. Sent(z) = [j \in 1..n |-> ByteOf(z[j])]
    BY <1>1 DEF Sent, Joins
  <1>7. w = [j \in 1..n |-> w[j]]
    BY <1>4
  <1>8. Sent(z) = w
    <2> HIDE DEF n
    <2> QED  BY <1>5, <1>6, <1>7
  <1> QED  BY <1>8 DEF w, z, a, b

(* A text in UTF-8 is read character by character: none is taken for        *)
(* another, or for a part of one.                                           *)
LEMMA EncodedRead ==
    ASSUME NEW txt \in Seq(Characters)
    PROVE  /\ Cp1252FromUtf8(Encode(txt)) = Sent(Kept(txt))
           /\ Kept(txt) \in Seq(KeptCharacters)
  <1> DEFINE n == Len(txt)
             B == Characters \cup {"cont"}
             K == KeptCharacters
             enc == [k \in DOMAIN txt |-> Encoded(txt[k])]
             kept == [k \in DOMAIN txt |-> KeptAs(txt[k])]
             w == Encode(txt)
             C == Converting(w)
  <1>1. n \in Nat /\ DOMAIN txt = 1..n /\ \A k \in 1..n : txt[k] \in Characters
    OBVIOUS
  <1>2. enc \in Seq(Seq(B)) /\ Len(enc) = n /\ \A k \in 1..n : enc[k] = Encoded(txt[k])
    <2>1. enc \in [1..n -> Seq(B)]
      BY <1>1, EncodedBytes
    <2> HIDE DEF B
    <2> QED  BY <1>1, <2>1
  <1>3. kept \in Seq(Seq(K)) /\ Len(kept) = n /\ \A k \in 1..n : kept[k] = KeptAs(txt[k])
    <2>1. kept \in [1..n -> Seq(K)]
      BY <1>1, KeptBytes
    <2> HIDE DEF K
    <2> QED  BY <1>1, <2>1
  <1>4. w = FlattenSeq(enc) /\ Kept(txt) = FlattenSeq(kept)
    BY DEF Encode, Kept
  <1> HIDE DEF n, B, K, enc, kept, w
  <1>5. PICK F : Flattens(F, enc, B)
    BY <1>2, Flattening
  <1>6. PICK G : Flattens(G, kept, K)
    BY <1>3, Flattening
  <1>7. /\ F \in [0..n -> Seq(B)] /\ F[0] = <<>> /\ F[n] = w
        /\ w \in Seq(B) /\ Len(w) \in Nat /\ \A k \in 0..n : Len(F[k]) \in Nat
    <2>1. F \in [0..n -> Seq(B)] /\ F[0] = <<>> /\ F[n] = w
      BY <1>2, <1>4, <1>5 DEF Flattens
    <2>2. w \in Seq(B)
      BY <1>1, <2>1 DEF n
    <2> QED  BY <2>1, <2>2
  <1>8. /\ G[0] = <<>> /\ G[n] = Kept(txt) /\ G \in [0..n -> Seq(K)]
        /\ \A k \in 0..(n - 1) : G[k+1] = G[k] \o KeptAs(txt[k+1])
    <2>1. /\ G[0] = <<>> /\ G[n] = Kept(txt) /\ G \in [0..n -> Seq(K)]
          /\ \A k \in 0..(n - 1) : G[k+1] = G[k] \o kept[k+1]
      BY <1>3, <1>4, <1>6 DEF Flattens
    <2>2. \A k \in 0..(n - 1) : k + 1 \in 1..n
      BY <1>1 DEF n
    <2> QED  BY <1>3, <2>1, <2>2
  <1>9. ASSUME NEW k \in 0..(n - 1)
        PROVE  /\ Length(txt[k+1]) \in 1..4 /\ txt[k+1] \in Characters
               /\ Len(F[k+1]) = Len(F[k]) + Length(txt[k+1])
               /\ Len(F[k+1]) <= Len(w)
               /\ w[Len(F[k]) + 1] = txt[k+1]
    <2>1. k + 1 \in 1..n /\ (k + 1) - 1 = k
      BY <1>1 DEF n
    <2>2. /\ txt[k+1] \in Characters /\ enc[k+1] = Encoded(txt[k+1])
      BY <1>1, <1>2, <2>1 DEF n
    <2>3. /\ Length(txt[k+1]) \in 1..4
          /\ Len(enc[k+1]) = Length(txt[k+1]) /\ enc[k+1][1] = txt[k+1]
      BY <2>2, EncodedBytes
    <2>4. /\ Len(F[k+1]) = Len(F[k]) + Len(enc[k+1])
          /\ Len(F[k+1]) <= Len(w)
          /\ \A j \in 1..Len(enc[k+1]) : w[Len(F[k]) + j] = enc[k+1][j]
      <3> DEFINE q == k + 1
      <3>1. q \in 1..Len(enc) /\ q - 1 = k
        BY <1>2, <2>1
      <3> HIDE DEF q
      <3>2. /\ Len(F[q]) = Len(F[q-1]) + Len(enc[q])
            /\ Len(F[q]) <= Len(FlattenSeq(enc))
            /\ \A j \in 1..Len(enc[q]) :
                  FlattenSeq(enc)[Len(F[q-1]) + j] = enc[q][j]
        <4>1. Places(F, enc)
          BY <1>2, <1>5, Pieces
        <4> QED  BY <3>1, <4>1, Zenon DEF Places
      <3> QED  BY <1>4, <3>1, <3>2, Zenon DEF q
    <2>5. 1 \in 1..Len(enc[k+1])
      BY <2>3
    <2> QED  BY <2>2, <2>3, <2>4, <2>5
  <1>10. /\ C[0] = [next |-> 1, out |-> <<>>]
         /\ \A k \in 1..Len(w) : C[k] = ConvertAt(w, C[k-1], k)
         /\ \A k \in 0..Len(w) : C[k] \in Conversions
    BY <1>7, ConvertTurns
  <1> HIDE DEF C
  <1> DEFINE After(k) == [next |-> Len(F[k]) + 1, out |-> Sent(G[k])]
             S == {k \in 0..n : C[Len(F[k])] = After(k)}
  <1>11. 0 \in S
    <2>1. Len(F[0]) = 0 /\ 0 \in 0..n
      BY <1>1, <1>7 DEF n
    <2>2. Sent(G[0]) = <<>>
      BY <1>8 DEF Sent
    <2> QED  BY <1>10, <2>1, <2>2
  <1>12. ASSUME NEW k \in 0..(n - 1), k \in S
         PROVE  k + 1 \in S
    <2> DEFINE p == Len(F[k])
               l == Length(txt[k+1])
               new == After(k + 1)
    <2>1. /\ p \in Nat /\ l \in 1..4 /\ Len(F[k+1]) = p + l /\ p + l <= Len(w)
          /\ w[p+1] = txt[k+1] /\ txt[k+1] \in Characters
          /\ k \in 0..n /\ k + 1 \in 0..n
      BY <1>1, <1>7, <1>9 DEF n
    <2>2. C[p] = [next |-> p + 1, out |-> Sent(G[k])]
      BY <1>12
    <2>3. C[p+1] = new
      <3>1. p + 1 \in 1..Len(w) /\ (p + 1) - 1 = p
        BY <1>7, <2>1
      <3>2. C[p+1] = ConvertAt(w, C[p], p + 1)
        BY <1>10, <3>1
      <3>3. Step(w, p + 1) = l
        <4>1. Length(w[p+1]) = l /\ (p + 1) + l - 1 <= Len(w)
          <5>1. Length(w[p+1]) = l
            BY <2>1
          <5> HIDE DEF p, l
          <5> QED  BY <1>7, <2>1, <5>1
        <4> QED  BY <4>1 DEF Step
      <3>4. ConvertAt(w, C[p], p + 1)
              = [next |-> (p + 1) + l, out |-> Sent(G[k]) \o Convert(w[p+1])]
        <4>1. C[p].next = p + 1 /\ C[p].out = Sent(G[k]) /\ ~(p + 1 < p + 1)
          BY <2>1, <2>2
        <4>2. Step(w, p + 1) = Length(w[p+1])
          BY <2>1, <3>3
        <4> HIDE DEF p, l
        <4> QED  BY <3>3, <4>1, <4>2 DEF ConvertAt
      <3>5. Sent(G[k+1]) = Sent(G[k]) \o Convert(w[p+1])
        <4>1. /\ G[k+1] = G[k] \o KeptAs(w[p+1]) /\ G[k] \in Seq(K)
              /\ KeptAs(w[p+1]) \in Seq(K) /\ Convert(w[p+1]) = Sent(KeptAs(w[p+1]))
          BY <1>8, <2>1, KeptBytes DEF K
        <4> QED  BY <4>1, SentPieces
      <3>6. (p + 1) + l = Len(F[k+1]) + 1
        <4> HIDE DEF p, l
        <4> QED  BY <2>1
      <3> QED  BY <3>2, <3>4, <3>5, <3>6
    <2> HIDE DEF p, l, new
    <2> DEFINE T == {m \in 0..(l - 1) : C[p+1+m] = new}
    <2>4. l - 1 \in Nat /\ 0 \in T
      <3>1. p + 1 + 0 = p + 1 /\ l - 1 \in Nat /\ 0 \in 0..(l - 1)
        BY <2>1
      <3> QED  BY <2>3, <3>1
    <2>5. ASSUME NEW m \in 0..((l - 1) - 1), m \in T
          PROVE  m + 1 \in T
      <3> DEFINE q == p + 1 + (m + 1)
      <3>1. q \in 1..Len(w) /\ q - 1 = p + 1 + m /\ q < p + l + 1 /\ m + 1 \in 0..(l - 1)
        BY <1>7, <2>1
      <3>2. new.next = p + l + 1
        BY <2>1 DEF new
      <3> HIDE DEF q
      <3>3. C[q] = ConvertAt(w, new, q)
        BY <1>10, <2>5, <3>1
      <3>4. ConvertAt(w, new, q) = new
        BY <3>1, <3>2 DEF ConvertAt
      <3> QED  BY <3>1, <3>3, <3>4 DEF q
    <2>6. l - 1 \in T
      <3>1. \A m \in 0..(l - 1) : m \in T
        <4> HIDE DEF T
        <4> QED  BY <2>4, <2>5, Induction
      <3> HIDE DEF T
      <3> QED  BY <2>4, <3>1
    <2>7. p + 1 + (l - 1) = p + l
      BY <2>1
    <2> QED  BY <2>1, <2>6, <2>7 DEF new
  <1>13. n \in S
    <2>1. \A k \in 0..n : k \in S
      <3>1. n \in Nat
        BY DEF n
      <3> HIDE DEF S
      <3> QED  BY <1>11, <1>12, <3>1, Induction
    <2>2. n \in 0..n
      BY DEF n
    <2> HIDE DEF S
    <2> QED  BY <2>1, <2>2
  <1>14. C[Len(w)].out = Sent(Kept(txt))
    BY <1>7, <1>8, <1>13
  <1>15. Kept(txt) \in Seq(K)
    BY <1>8 DEF n
  <1> QED  BY <1>14, <1>15 DEF Cp1252FromUtf8, C, w, K

(* The way back: each byte that is kept becomes the character it stood for. *)
LEMMA EchoedText ==
    ASSUME NEW txt \in Seq(Characters)
    PROVE  EchoKept(txt)
  <1> DEFINE x == Kept(txt)
             y == Sent(x)
  <1>1. x \in Seq(KeptCharacters) /\ Cp1252FromUtf8(Encode(txt)) = y
    BY EncodedRead
  <1>2. ASSUME NEW c \in KeptCharacters
        PROVE  Expand(ByteOf(c)) = Encoded(c)
    <2>1. CASE c \in {"a", "?"}
      <3>1. Length(c) = 1 /\ ByteOf(c) = c /\ Expand(c) = <<c>>
        BY <2>1 DEF Length, TwoBytes, ThreeBytes, ByteOf, Expand, Ascii
      <3>2. [k \in 1..(1 - 1) |-> "cont"] = <<>>
        OBVIOUS
      <3>3. <<c>> \o <<>> = <<c>>
        OBVIOUS
      <3> QED  BY <3>1, <3>2, <3>3 DEF Encoded
    <2>2. CASE c \in Leaders \ Unlisted
      <3> DEFINE b == ToCp1252(c)
      <3>1. b \in High /\ FromCp1252(b) = c
        BY <2>2, SwitchesAgree DEF Listed
      <3>2. ByteOf(c) = b
        BY <2>2 DEF ByteOf, Ascii, Leaders, TwoBytes, ThreeBytes
      <3> HIDE DEF b
      <3>3. b \notin Ascii
        BY <3>1 DEF High, Ascii
      <3>4. b # "cr"
        BY <3>3 DEF Ascii
      <3>5. Expand(b) = Encoded(FromCp1252(b))
        BY <3>3, <3>4 DEF Expand
      <3> QED  BY <3>1, <3>2, <3>5
    <2> QED  BY <2>1, <2>2 DEF KeptCharacters
  <1> HIDE DEF x
  <1>3. Len(x) \in Nat /\ DOMAIN x = 1..Len(x) /\ \A k \in 1..Len(x) : x[k] \in KeptCharacters
    BY <1>1
  <1>4. DOMAIN y = 1..Len(x) /\ \A k \in 1..Len(x) : y[k] = ByteOf(x[k])
    BY DEF Sent
  <1>5. [k \in DOMAIN y |-> Expand(y[k])] = [k \in DOMAIN x |-> Encoded(x[k])]
    <2> HIDE DEF y
    <2> QED  BY <1>2, <1>3, <1>4
  <1>6. Utf8FromCp1252(y) = Encode(x)
    BY <1>5 DEF Utf8FromCp1252, Encode
  <1> QED  BY <1>1, <1>6 DEF EchoKept, x

-----------------------------------------------------------------------------
(* The states of the loop of cleanWhitespace() over a text without CR, in   *)
(* which nothing is ever skipped.                                           *)
Scans == [out : Seq(Cp1252), inString : BOOLEAN, lastWhite : BOOLEAN,
          skip : {FALSE}]

(* Byte k is white space outside strings, after white space.                *)
LeftOut(str, k, st) == ~st.inString /\ str[k] \in White /\ st.lastWhite

(* Byte k is written.                                                       *)
Writes(str, k, st, new) ==
    /\ new.out = Append(st.out, str[k])
    /\ st.inString =>
          /\ new.inString <=> ~(str[k] = "]" /\ k > 1 /\ str[k-1] # "\\")
          /\ new.lastWhite <=> st.lastWhite
    /\ ~st.inString =>
          /\ new.inString <=> str[k] = "["
          /\ new.lastWhite <=> str[k] \in White

(* A byte is written or, as white space after white space, left out, and    *)
(* then the state is as before.                                             *)
LEMMA ScanStep ==
    ASSUME NEW str \in Seq(Cp1252), NEW k \in 1..Len(str), NEW st \in Scans
    PROVE  /\ CleanAt(str, st, k) \in Scans
           /\ LeftOut(str, k, st) => CleanAt(str, st, k) = st
           /\ ~LeftOut(str, k, st) => Writes(str, k, st, CleanAt(str, st, k))
  <1>1. str[k] \in Cp1252 /\ str[k] # "cr"
    <2>1. str[k] \in Cp1252
      OBVIOUS
    <2> QED  BY <2>1 DEF Cp1252, Ascii, High
  <1>2. Append(st.out, str[k]) \in Seq(Cp1252) /\ st.out \in Seq(Cp1252)
    BY <1>1 DEF Scans
  <1> DEFINE new == CleanAt(str, st, k)
  <1>3. CASE st.inString
    <2>1. new = InString(str, st, k)
      BY <1>3 DEF CleanAt, Scans
    <2>2. /\ new.out = Append(st.out, str[k])
          /\ new.inString <=> ~(str[k] = "]" /\ k > 1 /\ str[k-1] # "\\")
          /\ new.lastWhite = st.lastWhite
          /\ new \in Scans
      BY <1>2, <2>1 DEF InString, Scans
    <2> HIDE DEF new
    <2> QED  BY <1>3, <2>2 DEF new, LeftOut, Writes
  <1>4. CASE ~st.inString
    <2>1. new = OutOfString(str, st, k)
      BY <1>4 DEF CleanAt, Scans
    <2>2. CASE str[k] = "["
      <3>1. new = [st EXCEPT !.out = Append(@, "["), !.inString = TRUE,
                             !.lastWhite = FALSE]
        BY <2>1, <2>2 DEF OutOfString, White
      <3>2. /\ new.out = Append(st.out, str[k]) /\ new \in Scans
            /\ new.inString /\ ~new.lastWhite
        BY <1>2, <2>2, <3>1 DEF Scans
      <3> HIDE DEF new
      <3> QED  BY <1>4, <2>2, <3>2 DEF new, LeftOut, Writes, White
    <2>3. CASE str[k] \in White /\ st.lastWhite
      <3>1. new = st
        BY <1>1, <2>1, <2>3 DEF OutOfString, White
      <3> QED  BY <1>4, <2>3, <3>1 DEF LeftOut
    <2>4. CASE str[k] \in White /\ ~st.lastWhite
      <3>1. new = [st EXCEPT !.out = Append(@, str[k]), !.lastWhite = TRUE]
        BY <1>1, <2>1, <2>4 DEF OutOfString, White
      <3>2. /\ new.out = Append(st.out, str[k]) /\ new \in Scans
            /\ ~new.inString /\ new.lastWhite
        BY <1>2, <1>4, <3>1 DEF Scans
      <3>3. str[k] # "["
        BY <2>4 DEF White
      <3> HIDE DEF new
      <3> QED  BY <1>4, <2>4, <3>2, <3>3 DEF new, LeftOut, Writes
    <2>5. CASE str[k] # "[" /\ str[k] \notin White
      <3>1. new = [st EXCEPT !.out = Append(@, str[k]), !.lastWhite = FALSE]
        BY <1>1, <2>1, <2>5 DEF OutOfString, White
      <3>2. /\ new.out = Append(st.out, str[k]) /\ new \in Scans
            /\ ~new.inString /\ ~new.lastWhite
        BY <1>2, <1>4, <2>5, <3>1 DEF Scans
      <3> HIDE DEF new
      <3> QED  BY <1>4, <2>5, <3>2 DEF new, LeftOut, Writes
    <2> QED  BY <2>2, <2>3, <2>4, <2>5
  <1> QED  BY <1>3, <1>4

(* What the loop does, turn by turn.                                        *)
LEMMA ScanTurns ==
    ASSUME NEW str \in Seq(Cp1252)
    PROVE  /\ Scan(str)[0] = CleanStart
           /\ \A k \in 1..Len(str) : Scan(str)[k] = CleanAt(str, Scan(str)[k-1], k)
           /\ \A k \in 0..Len(str) : Scan(str)[k] \in Scans
  <1> DEFINE n == Len(str)
             step == [k \in 1..n |-> [st \in Scans |-> CleanAt(str, st, k)]]
  <1>1. n \in Nat /\ CleanStart \in Scans
    BY DEF CleanStart, Scans
  <1>2. step \in Steps(n, Scans)
    BY <1>1, ScanStep DEF Steps
  <1>3. PICK f : Solves(f, n, Scans, CleanStart, step)
    <2> HIDE DEF step, n
    <2> QED  BY <1>1, <1>2, Recursion, Zenon
  <1>4. ASSUME NEW k \in 1..n
        PROVE  f[k] = CleanAt(str, f[k-1], k)
    <2>1. f[k-1] \in Scans
      BY <1>1, <1>3 DEF Solves
    <2> QED  BY <1>3, <2>1 DEF Solves
  <1>5. f = [k \in 0..n |-> IF k = 0 THEN CleanStart ELSE CleanAt(str, f[k-1], k)]
    BY <1>1, <1>3, <1>4 DEF Solves
  <1>6. Scan(str)
          = [k \in 0..n |-> IF k = 0 THEN CleanStart ELSE CleanAt(str, Scan(str)[k-1], k)]
    BY <1>5, Zenon DEF Scan
  <1> DEFINE T == Scan(str)
  <1> HIDE DEF T
  <1>7. T[0] = CleanStart /\ \A k \in 1..n : T[k] = CleanAt(str, T[k-1], k)
    BY <1>1, <1>6 DEF T
  <1> DEFINE S == {k \in 0..n : T[k] \in Scans}
  <1>8. 0 \in S
    BY <1>1, <1>7
  <1>9. \A k \in 0..(n - 1) : k \in S => k + 1 \in S
    <2> SUFFICES ASSUME NEW k \in 0..(n - 1), k \in S
                 PROVE  k + 1 \in S
      OBVIOUS
    <2>1. k + 1 \in 1..n /\ (k + 1) - 1 = k
      BY <1>1
    <2>2. T[k + 1] = CleanAt(str, T[k], k + 1)
      BY <1>7, <2>1
    <2> QED  BY <2>1, <2>2, ScanStep
  <1>10. \A k \in 0..n : k \in S
    <2> HIDE DEF S, n
    <2> QED  BY <1>1, <1>8, <1>9, Induction
  <1> QED  BY <1>7, <1>10 DEF T

(* A turn of the loop over a text, in these terms.                          *)
LEMMA ScanTurn ==
    ASSUME NEW str \in Seq(Cp1252), NEW k \in 0..(Len(str) - 1)
    PROVE  LET st == Scan(str)[k]
               new == Scan(str)[k+1]
           IN  /\ st \in Scans /\ new \in Scans
               /\ LeftOut(str, k + 1, st) => new = st
               /\ ~LeftOut(str, k + 1, st) => Writes(str, k + 1, st, new)
  <1>1. k \in 0..Len(str) /\ k + 1 \in 1..Len(str) /\ (k + 1) - 1 = k
    OBVIOUS
  <1>2. Scan(str)[k] \in Scans /\ Scan(str)[k+1] = CleanAt(str, Scan(str)[k], k + 1)
    BY <1>1, ScanTurns
  <1> QED  BY <1>1, <1>2, ScanStep

(* The types of a state of the loop.                                        *)
LEMMA ScanType ==
    ASSUME NEW st \in Scans
    PROVE  /\ st.out \in Seq(Cp1252) /\ Len(st.out) \in Nat
           /\ st.inString \in BOOLEAN /\ st.lastWhite \in BOOLEAN
  <1>1. st.out \in Seq(Cp1252) /\ st.inString \in BOOLEAN /\ st.lastWhite \in BOOLEAN
    BY DEF Scans
  <1> QED  BY <1>1

(* Two states that agree are one.                                           *)
LEMMA SameScan ==
    ASSUME NEW s \in Scans, NEW t \in Scans,
           s.out = t.out, s.inString <=> t.inString, s.lastWhite <=> t.lastWhite
    PROVE  s = t
  <1>1. s = [out |-> s.out, inString |-> s.inString, lastWhite |-> s.lastWhite,
             skip |-> s.skip]
    BY DEF Scans
  <1>2. t = [out |-> t.out, inString |-> t.inString, lastWhite |-> t.lastWhite,
             skip |-> t.skip]
    BY DEF Scans
  <1>3. s.skip = t.skip /\ s.inString = t.inString /\ s.lastWhite = t.lastWhite
    BY DEF Scans
  <1> QED  BY <1>1, <1>2, <1>3

(* What was written stays, and a turn adds at most one byte.                *)
LEMMA Growing ==
    ASSUME NEW str \in Seq(Cp1252), NEW j \in 0..Len(str)
    PROVE  \A k \in j..Len(str) :
              LET old == Scan(str)[j].out
                  out == Scan(str)[k].out
              IN  Begins(old, out) /\ Len(out) <= Len(old) + (k - j)
  <1> DEFINE T == Scan(str)
             n == Len(str)
             G(k) == Begins(T[j].out, T[k].out) /\ Len(T[k].out) <= Len(T[j].out) + (k - j)
             S == {k \in 0..n : k >= j => G(k)}
  <1> HIDE DEF T
  <1>1. n \in Nat /\ \A k \in 0..n : T[k] \in Scans /\ Len(T[k].out) \in Nat
    <2>1. \A k \in 0..n : T[k] \in Scans
      BY ScanTurns DEF T
    <2> QED  BY <2>1, ScanType
  <1>2. G(j)
    BY <1>1 DEF Begins
  <1>3. ASSUME NEW k \in 0..(n - 1), k \in S
        PROVE  k + 1 \in S
    <2>1. k + 1 \in 0..n /\ k \in 0..n
      BY <1>1
    <2>2. CASE k + 1 = j
      BY <1>2, <2>1, <2>2
    <2>3. CASE k + 1 < j
      BY <2>1, <2>3
    <2>4. CASE k + 1 > j
      <3>1. G(k)
        BY <1>1, <1>3, <2>4
      <3> DEFINE a == Len(T[j].out)
                 b == Len(T[k].out)
                 c == Len(T[k+1].out)
      <3>0. a \in Nat /\ b \in Nat /\ c \in Nat /\ k \in Nat /\ j \in Nat
        BY <1>1, <2>1
      <3>2. CASE LeftOut(str, k + 1, T[k])
        <4>1. T[k+1] = T[k]
          BY <3>2, ScanTurn DEF T
        <4>2. G(k + 1)
          <5>1. c = b
            BY <4>1
          <5>2. c <= a + ((k + 1) - j)
            <6> HIDE DEF a, b, c
            <6>1. b <= a + (k - j)
              BY <3>1 DEF a, b
            <6> QED  BY <3>0, <5>1, <6>1
          <5> QED  BY <3>1, <4>1, <5>2
        <4> QED  BY <2>1, <4>2
      <3>3. CASE ~LeftOut(str, k + 1, T[k])
        <4>1. T[k+1].out = Append(T[k].out, str[k+1])
          <5>1. Writes(str, k + 1, T[k], T[k+1])
            BY <3>3, ScanTurn DEF T
          <5> QED  BY <5>1 DEF Writes
        <4>2. T[k].out \in Seq(Cp1252)
          BY <1>1, <2>1, ScanType
        <4>3. /\ Len(T[k+1].out) = Len(T[k].out) + 1
              /\ \A l \in 1..Len(T[k].out) : T[k+1].out[l] = T[k].out[l]
          BY <4>1, <4>2
        <4>4. G(k + 1)
          <5>1. Begins(T[j].out, T[k].out) /\ Len(T[k].out) <= Len(T[j].out) + (k - j)
            BY <3>1
          <5>2. Begins(T[j].out, T[k+1].out)
            <6>1. a <= c /\ \A l \in 1..a : l \in 1..b
              BY <3>0, <4>3, <5>1 DEF Begins
            <6> QED  BY <4>3, <5>1, <6>1 DEF Begins
          <5>3. c <= a + ((k + 1) - j)
            <6>1. c = b + 1 /\ b <= a + (k - j)
              BY <4>3, <5>1
            <6> HIDE DEF a, b, c
            <6> QED  BY <3>0, <6>1
          <5> QED  BY <5>2, <5>3
        <4> QED  BY <2>1, <4>4
      <3> QED  BY <3>2, <3>3
    <2> QED  BY <1>1, <2>1, <2>2, <2>3, <2>4
  <1>4. 0 \in S
    BY <1>1, <1>2
  <1>5. \A k \in 0..n : k \in S
    <2> HIDE DEF S, n
    <2> QED  BY <1>1, <1>3, <1>4, Induction
  <1>6. \A k \in j..n : G(k)
    <2> HIDE DEF G
    <2> QED  BY <1>1, <1>5
  <1> QED  BY <1>6 DEF T

(* Inside a string the last byte read was the last one written.             *)
LEMMA LastWritten ==
    ASSUME NEW str \in Seq(Cp1252)
    PROVE  \A k \in 0..Len(str) :
              LET st == Scan(str)[k]
              IN  st.inString =>
                     k > 0 /\ Len(st.out) > 0 /\ st.out[Len(st.out)] = str[k]
  <1> SUFFICES ASSUME NEW k \in 0..Len(str), Scan(str)[k].inString
               PROVE  LET st == Scan(str)[k]
                      IN  k > 0 /\ Len(st.out) > 0 /\ st.out[Len(st.out)] = str[k]
    OBVIOUS
  <1> DEFINE T == Scan(str)
  <1> HIDE DEF T
  <1>1. T[0] = CleanStart /\ \A m \in 0..Len(str) : T[m] \in Scans
    BY ScanTurns DEF T
  <1>2. k # 0
    BY <1>1 DEF T, CleanStart
  <1>3. k - 1 \in 0..(Len(str) - 1) /\ (k - 1) + 1 = k
    BY <1>2
  <1>4. ~LeftOut(str, k, T[k-1])
    <2>1. LeftOut(str, k, T[k-1]) => T[k] = T[k-1]
      BY <1>3, ScanTurn DEF T
    <2> QED  BY <2>1 DEF T, LeftOut
  <1>5. T[k].out = Append(T[k-1].out, str[k])
    <2>1. Writes(str, k, T[k-1], T[k])
      BY <1>3, <1>4, ScanTurn DEF T
    <2> QED  BY <2>1 DEF Writes
  <1>6. T[k-1].out \in Seq(Cp1252)
    BY <1>1, <1>3, ScanType
  <1> QED  BY <1>2, <1>5, <1>6 DEF T

(* A text that begins with what was written up to byte k: the scan of what  *)
(* was written goes through the same states, and keeps it as it is.         *)
LEMMA Replay ==
    ASSUME NEW str \in Seq(Cp1252), NEW w \in Seq(Cp1252),
           Begins(Scan(str)[Len(str)].out, w)
    PROVE  \A k \in 0..Len(str) :
              LET st == Scan(str)[k]
              IN  Len(st.out) \in 0..Len(w) /\ Scan(w)[Len(st.out)] = st
  <1> DEFINE T == Scan(str)
             n == Len(str)
             S == {k \in 0..n : Scan(w)[Len(T[k].out)] = T[k]}
  <1> HIDE DEF T
  <1>1. n \in Nat /\ Len(w) \in Nat
        /\ \A k \in 0..n : T[k] \in Scans /\ Len(T[k].out) \in Nat
    <2>1. \A k \in 0..n : T[k] \in Scans
      BY ScanTurns DEF T
    <2> QED  BY <2>1, ScanType
  <1>2. ASSUME NEW k \in 0..n
        PROVE  Begins(T[k].out, w)
    <2>1. Begins(T[k].out, T[n].out)
      BY <1>1, Growing DEF T
    <2>2. Begins(T[n].out, w)
      BY DEF T
    <2> DEFINE a == Len(T[k].out)
               b == Len(T[n].out)
    <2>3. a \in Nat /\ b \in Nat
      BY <1>1
    <2>4. a <= b /\ b <= Len(w)
      BY <2>1, <2>2 DEF Begins
    <2>5. a <= Len(w) /\ \A l \in 1..a : l \in 1..b
      <3> HIDE DEF a, b
      <3> QED  BY <1>1, <2>3, <2>4
    <2> QED  BY <2>1, <2>2, <2>5 DEF Begins
  <1>3. 0 \in S
    <2>1. T[0] = CleanStart /\ Scan(w)[0] = CleanStart
      BY ScanTurns DEF T
    <2>2. Len(T[0].out) = 0
      BY <2>1 DEF CleanStart
    <2> QED  BY <1>1, <2>1, <2>2
  <1>4. ASSUME NEW k \in 0..(n - 1), k \in S
        PROVE  k + 1 \in S
    <2>1. k + 1 \in 0..n /\ k \in 0..n /\ (k + 1) - 1 = k
      BY <1>1
    <2>2. Scan(w)[Len(T[k].out)] = T[k]
      BY <1>4
    <2>3. CASE LeftOut(str, k + 1, T[k])
      <3>1. T[k+1] = T[k]
        BY <2>3, ScanTurn DEF T
      <3> QED  BY <2>1, <2>2, <3>1
    <2>4. CASE ~LeftOut(str, k + 1, T[k])
      <3> DEFINE m == Len(T[k].out)
                 st == T[k]
                 new == T[k+1]
                 rew == Scan(w)[m+1]
      <3>1. Writes(str, k + 1, st, new)
        BY <2>4, ScanTurn DEF T
      <3>2. st \in Scans /\ new \in Scans /\ st.out \in Seq(Cp1252) /\ m \in Nat
        BY <1>1, <2>1, ScanType
      <3>3. new.out = Append(st.out, str[k+1])
        BY <3>1 DEF Writes
      <3>4. Len(new.out) = m + 1 /\ new.out[m+1] = str[k+1]
        BY <3>2, <3>3
      <3>5. m + 1 \in 1..Len(w) /\ w[m+1] = str[k+1]
        <4>1. Begins(new.out, w)
          BY <1>2, <2>1
        <4> HIDE DEF m, new
        <4> QED  BY <1>1, <3>2, <3>4, <4>1 DEF Begins
      <3>6. m \in 0..(Len(w) - 1) /\ (m + 1) - 1 = m
        BY <1>1, <3>2, <3>5
      <3>7. st.inString => k > 0 /\ m > 0 /\ w[m] = str[k]
        <4>1. st.inString => k > 0 /\ m > 0 /\ st.out[m] = str[k]
          BY <2>1, LastWritten DEF T
        <4>2. Begins(st.out, w)
          BY <1>2, <2>1
        <4>3. m > 0 => m \in 1..m
          BY <3>2
        <4> QED  BY <4>1, <4>2, <4>3 DEF Begins
      <3>8. LeftOut(w, m + 1, st) <=> LeftOut(str, k + 1, st)
        BY <3>5 DEF LeftOut
      <3>9. Writes(w, m + 1, st, rew) /\ rew \in Scans
        <4>1. Scan(w)[m] = st
          BY <2>2
        <4> QED  BY <2>4, <3>6, <3>8, <4>1, ScanTurn
      <3>10. /\ rew.out = new.out
             /\ rew.inString <=> new.inString
             /\ rew.lastWhite <=> new.lastWhite
        <4>1. rew.out = new.out
          BY <3>3, <3>5, <3>9 DEF Writes
        <4>2. CASE st.inString
          <5>1. new.inString <=> ~(str[k+1] = "]" /\ str[k] # "\\")
            BY <2>1, <3>1, <3>7, <4>2 DEF Writes
          <5>2. rew.inString <=> ~(w[m+1] = "]" /\ w[m] # "\\")
            BY <3>2, <3>6, <3>7, <3>9, <4>2 DEF Writes
          <5>3. rew.lastWhite <=> new.lastWhite
            BY <3>1, <3>9, <4>2 DEF Writes
          <5> QED  BY <3>5, <3>7, <4>1, <4>2, <5>1, <5>2, <5>3
        <4>3. CASE ~st.inString
          BY <3>1, <3>5, <3>9, <4>1, <4>3 DEF Writes
        <4> QED  BY <4>2, <4>3
      <3>11. rew = new
        <4> HIDE DEF rew, new
        <4> QED  BY <3>2, <3>9, <3>10, SameScan
      <3> QED  BY <2>1, <3>4, <3>11
    <2> QED  BY <2>3, <2>4
  <1>5. \A k \in 0..n : k \in S
    <2> HIDE DEF S, n
    <2> QED  BY <1>1, <1>3, <1>4, Induction
  <1>6. ASSUME NEW k \in 0..n
        PROVE  Len(T[k].out) \in 0..Len(w) /\ Scan(w)[Len(T[k].out)] = T[k]
    <2>1. Len(T[k].out) <= Len(w)
      BY <1>2 DEF Begins
    <2> QED  BY <1>1, <1>5, <2>1
  <1> QED  BY <1>6 DEF T

(* What an engine gets: every byte that was written, and a bracket if a     *)
(* string was left open.                                                    *)
LEMMA CleanedText ==
    ASSUME NEW str \in Seq(Cp1252)
    PROVE  LET end == Scan(str)[Len(str)]
               w == CleanWhitespace(str)
           IN  /\ w \in Seq(Cp1252) /\ Begins(end.out, w) /\ end \in Scans
               /\ ~end.inString => w = end.out
               /\ end.inString => w = Append(end.out, "]")
  <1> DEFINE end == Scan(str)[Len(str)]
  <1>1. end \in Scans
    BY ScanTurns
  <1>2. CleanWhitespace(str) = end.out \o (IF end.inString THEN <<"]">> ELSE <<>>)
    BY DEF CleanWhitespace, Scanned
  <1> HIDE DEF end
  <1>3. end.out \in Seq(Cp1252)
    BY <1>1, ScanType
  <1>4. "]" \in Cp1252
    BY DEF Cp1252, Ascii
  <1>5. CASE end.inString
    <2>1. CleanWhitespace(str) = end.out \o <<"]">>
      BY <1>2, <1>5
    <2>2. end.out \o <<"]">> = Append(end.out, "]")
      BY <1>3, <1>4
    <2>3. /\ Append(end.out, "]") \in Seq(Cp1252)
          /\ Begins(end.out, Append(end.out, "]"))
      BY <1>3, <1>4 DEF Begins
    <2> QED  BY <1>1, <1>5, <2>1, <2>2, <2>3 DEF end
  <1>6. CASE ~end.inString
    <2>1. CleanWhitespace(str) = end.out
      BY <1>2, <1>3, <1>6
    <2> QED  BY <1>1, <1>3, <1>6, <2>1 DEF end, Begins
  <1> QED  BY <1>5, <1>6

(* Cleaning it again changes nothing and leaves no string open, unless the  *)
(* text breaks off after a backslash in a string.                           *)
LEMMA CleanedTwice ==
    ASSUME NEW str \in Seq(Cp1252)
    PROVE  LET end == Scan(str)[Len(str)]
               w == CleanWhitespace(str)
           IN  /\ Scan(w)[Len(w)].out = w
               /\ \/ ~Scan(w)[Len(w)].inString
                  \/ end.inString /\ str[Len(str)] = "\\"
  <1> DEFINE end == Scan(str)[Len(str)]
             w == CleanWhitespace(str)
             m == Len(end.out)
  <1>1. /\ w \in Seq(Cp1252) /\ Begins(end.out, w) /\ end \in Scans
        /\ ~end.inString => w = end.out
        /\ end.inString => w = Append(end.out, "]")
    BY CleanedText
  <1>2. Len(str) \in 0..Len(str) /\ end.out \in Seq(Cp1252) /\ m \in Nat
    BY <1>1, ScanType
  <1> HIDE DEF w
  <1>3. m \in 0..Len(w) /\ Scan(w)[m] = end
    BY <1>1, <1>2, Replay
  <1>4. CASE ~end.inString
    BY <1>1, <1>3, <1>4 DEF w
  <1>5. CASE end.inString
    <2>1. Len(w) = m + 1 /\ w[m+1] = "]"
      BY <1>1, <1>2, <1>5
    <2>2. m \in 0..(Len(w) - 1)
      BY <1>2, <2>1
    <2> HIDE DEF end, m
    <2> DEFINE new == Scan(w)[m+1]
    <2>3. Writes(w, m + 1, end, new)
      <3>1. ~LeftOut(w, m + 1, end)
        BY <1>5 DEF LeftOut
      <3>2. ~LeftOut(w, m + 1, Scan(w)[m]) => Writes(w, m + 1, Scan(w)[m], new)
        BY <1>1, <2>2, ScanTurn
      <3> QED  BY <1>3, <3>1, <3>2
    <2>4. new.out = w
      BY <1>1, <1>5, <2>1, <2>3 DEF Writes
    <2>5. m > 0 /\ w[m] = str[Len(str)]
      <3>1. m > 0 /\ end.out[m] = str[Len(str)]
        BY <1>2, <1>5, LastWritten DEF end, m
      <3>2. m \in 1..Len(end.out)
        BY <1>2, <3>1 DEF m
      <3> QED  BY <1>1, <3>1, <3>2 DEF Begins
    <2>6. ~new.inString \/ str[Len(str)] = "\\"
      <3>1. (m + 1) - 1 = m /\ m + 1 > 1
        BY <1>2, <2>5
      <3> QED  BY <1>5, <2>1, <2>3, <2>5, <3>1 DEF Writes
    <2> QED  BY <1>5, <2>1, <2>4, <2>6 DEF w, end
  <1> QED  BY <1>4, <1>5

(* A text that a scan keeps as it is has no two bytes of white space in a   *)
(* row outside strings.                                                     *)
LEMMA NoTwoInARow ==
    ASSUME NEW w \in Seq(Cp1252), Scan(w)[Len(w)].out = w,
           NEW k \in 1..(Len(w) - 1), {k, k + 1} \subseteq ScannedOutside(w)
    PROVE  ~({w[k], w[k+1]} \subseteq White)
  <1> SUFFICES ASSUME w[k] \in White, w[k+1] \in White
               PROVE  FALSE
    OBVIOUS
  <1> DEFINE T == Scan(w)
             n == Len(w)
  <1> HIDE DEF T
  <1>1. n \in Nat /\ k \in 0..(n - 1) /\ k - 1 \in 0..(n - 1)
        /\ k \in 0..n /\ k - 1 \in 0..n /\ k + 1 \in 0..n
        /\ (k - 1) + 1 = k /\ (k + 1) - 1 = k /\ k \in Nat
    OBVIOUS
  <1>2. ~T[k-1].inString /\ ~T[k].inString
    BY <1>1 DEF ScannedOutside, T
  <1>3. \A l \in 0..n : T[l] \in Scans /\ Len(T[l].out) \in Nat
    <2>1. \A l \in 0..n : T[l] \in Scans
      BY ScanTurns DEF T
    <2> QED  BY <2>1, ScanType
  <1>4. ASSUME NEW l \in 0..n
        PROVE  Len(T[l].out) = l
    <2>1. \A j \in 0..n : \A m \in j..n : Len(T[m].out) <= Len(T[j].out) + (m - j)
      BY Growing DEF T
    <2>2. 0 \in 0..n /\ l \in 0..n /\ n \in l..n /\ l - 0 = l
      BY <1>1
    <2>3. Len(T[l].out) <= Len(T[0].out) + l /\ Len(T[n].out) <= Len(T[l].out) + (n - l)
      BY <2>1, <2>2
    <2>4. Len(T[0].out) = 0 /\ Len(T[n].out) = n
      BY ScanTurns DEF T, CleanStart
    <2>5. Len(T[l].out) \in Nat
      BY <1>3
    <2> DEFINE a == Len(T[l].out)
    <2>6. a <= l /\ n <= a + (n - l)
      BY <2>3, <2>4
    <2> HIDE DEF a
    <2> QED  BY <1>1, <2>5, <2>6 DEF a
  <1>5. CASE LeftOut(w, k, T[k-1])
    <2>1. T[k] = T[k-1]
      BY <1>1, <1>5, ScanTurn DEF T
    <2>2. k = k - 1
      BY <1>1, <1>4, <2>1
    <2> QED  BY <1>1, <2>2
  <1>6. CASE ~LeftOut(w, k, T[k-1])
    <2>1. Writes(w, k, T[k-1], T[k])
      BY <1>1, <1>6, ScanTurn DEF T
    <2>2. LeftOut(w, k + 1, T[k])
      BY <1>2, <2>1 DEF Writes, LeftOut
    <2>3. T[k+1] = T[k]
      BY <1>1, <2>2, ScanTurn DEF T
    <2>4. k + 1 = k
      BY <1>1, <1>4, <2>3
    <2> QED  BY <1>1, <2>4
  <1> QED  BY <1>5, <1>6

(* The strings of the engine, byte by byte.                                 *)
LEMMA EngineTurns ==
    ASSUME NEW str, Len(str) \in Nat
    PROVE  /\ ~EngineInside(str)[0]
           /\ \A k \in 0..(Len(str) - 1) :
                 /\ EngineInside(str)[k] => (EngineInside(str)[k+1] <=> str[k+1] # "]")
                 /\ ~EngineInside(str)[k] => (EngineInside(str)[k+1] <=> str[k+1] = "[")
  <1> DEFINE n == Len(str)
             next(k, b) == IF b THEN str[k] # "]" ELSE str[k] = "["
             step == [k \in 1..n |-> [b \in BOOLEAN |-> next(k, b)]]
  <1>1. n \in Nat /\ FALSE \in BOOLEAN
    OBVIOUS
  <1>2. step \in Steps(n, BOOLEAN)
    BY DEF Steps
  <1>3. PICK f : Solves(f, n, BOOLEAN, FALSE, step)
    <2> HIDE DEF step, n
    <2> QED  BY <1>1, <1>2, Recursion, Zenon
  <1>4. ASSUME NEW k \in 1..n
        PROVE  f[k] = next(k, f[k-1])
    <2>1. f[k-1] \in BOOLEAN
      BY <1>1, <1>3 DEF Solves
    <2>2. f[k] = step[k][f[k-1]]
      BY <1>3 DEF Solves
    <2> HIDE DEF next, n
    <2> QED  BY <2>1, <2>2
  <1>5. f = [k \in 0..n |-> IF k = 0 THEN FALSE ELSE next(k, f[k-1])]
    <2> DEFINE v(k) == IF k = 0 THEN FALSE ELSE next(k, f[k-1])
    <2>1. f = [k \in 0..n |-> f[k]]
      BY <1>3 DEF Solves
    <2>2. ASSUME NEW k \in 0..n
          PROVE  f[k] = v(k)
      <3>1. CASE k = 0
        <4>1. f[0] = FALSE
          BY <1>3, Zenon DEF Solves
        <4> QED  BY <3>1, <4>1, Zenon
      <3>2. CASE k # 0
        <4>1. k \in 1..n
          BY <1>1, <3>2
        <4> HIDE DEF next
        <4> QED  BY <1>4, <3>2, <4>1, Zenon
      <3> QED  BY <3>1, <3>2
    <2>3. [k \in 0..n |-> f[k]] = [k \in 0..n |-> v(k)]
      <3> HIDE DEF v
      <3> QED  BY <2>2, Zenon
    <2> QED  BY <2>1, <2>3, Zenon
  <1>6. EngineInside(str)
          = [k \in 0..n |-> IF k = 0 THEN FALSE ELSE next(k, EngineInside(str)[k-1])]
    BY <1>5, Zenon DEF EngineInside
  <1> DEFINE E == EngineInside(str)
  <1> HIDE DEF E
  <1>7. E[0] = FALSE /\ \A k \in 1..n : E[k] = next(k, E[k-1])
    <2> HIDE DEF next
    <2> QED  BY <1>1, <1>6 DEF E
  <1>8. ASSUME NEW k \in 0..(n - 1)
        PROVE  /\ E[k] => (E[k+1] <=> str[k+1] # "]")
               /\ ~E[k] => (E[k+1] <=> str[k+1] = "[")
    <2>1. k + 1 \in 1..n /\ (k + 1) - 1 = k
      BY <1>1
    <2>2. E[k+1] = next(k + 1, E[k])
      <3> HIDE DEF next
      <3> QED  BY <1>7, <2>1
    <2>3. E[k+1] = IF E[k] THEN str[k+1] # "]" ELSE str[k+1] = "["
      BY <2>2, Zenon
    <2> QED  BY <2>3, Zenon
  <1> QED  BY <1>7, <1>8, Zenon DEF E

(* Each of them is a string for the scan, and the other way round up to the *)
(* first escaped bracket.                                                   *)
InEngineString(str, k) == EngineInside(str)[k]
InScanString(str, k) == Scan(str)[k].inString

LEMMA EngineStrings ==
    ASSUME NEW str \in Seq(Cp1252), NEW k \in 0..Len(str)
    PROVE  /\ InEngineString(str, k) => InScanString(str, k)
           /\ InScanString(str, k) => InEngineString(str, k) \/ EscapedBracket(str, k)
  <1> DEFINE n == Len(str)
             A(l) == /\ InEngineString(str, l) => InScanString(str, l)
                     /\ InScanString(str, l) =>
                            InEngineString(str, l) \/ EscapedBracket(str, l)
             S == {l \in 0..n : A(l)}
  <1>1. n \in Nat
    OBVIOUS
  <1>2. 0 \in S
    <2>1. ~InEngineString(str, 0)
      BY <1>1, EngineTurns, Zenon DEF InEngineString
    <2>2. ~InScanString(str, 0)
      BY ScanTurns DEF CleanStart, InScanString
    <2> QED  BY <1>1, <2>1, <2>2
  <1>3. ASSUME NEW l \in 0..(n - 1), l \in S
        PROVE  l + 1 \in S
    <2> DEFINE c == str[l+1]
               st == Scan(str)[l]
               new == Scan(str)[l+1]
    <2>1. l + 1 \in 0..n /\ l \in 0..n /\ l + 1 \in 1..n /\ (l + 1) - 1 = l
      BY <1>1
    <2>2. A(l)
      BY <1>3
    <2>3. /\ InEngineString(str, l) => (InEngineString(str, l + 1) <=> c # "]")
          /\ ~InEngineString(str, l) => (InEngineString(str, l + 1) <=> c = "[")
      BY <1>1, EngineTurns, Zenon DEF InEngineString
    <2>4. /\ LeftOut(str, l + 1, st) => new = st
          /\ ~LeftOut(str, l + 1, st) => Writes(str, l + 1, st, new)
      BY ScanTurn
    <2>5. EscapedBracket(str, l) => EscapedBracket(str, l + 1)
      <3>1. \A j \in 2..l : j \in 2..(l + 1)
        BY <2>1
      <3> QED  BY <3>1, Zenon DEF EscapedBracket
    <2>6. CASE LeftOut(str, l + 1, st)
      <3>1. ~InScanString(str, l) /\ ~InScanString(str, l + 1) /\ c # "["
        BY <2>4, <2>6 DEF LeftOut, White, InScanString
      <3>2. ~InEngineString(str, l) /\ ~InEngineString(str, l + 1)
        BY <2>2, <2>3, <3>1, Zenon
      <3> QED  BY <2>1, <3>1, <3>2
    <2>7. CASE ~LeftOut(str, l + 1, st)
      <3>1. /\ InScanString(str, l) =>
                  (InScanString(str, l + 1) <=> ~(c = "]" /\ l + 1 > 1 /\ str[l] # "\\"))
            /\ ~InScanString(str, l) => (InScanString(str, l + 1) <=> c = "[")
        BY <2>1, <2>4, <2>7 DEF Writes, InScanString
      <3>2. c = "[" => c # "]"
        OBVIOUS
      <3>3. InEngineString(str, l + 1) => InScanString(str, l + 1)
        BY <2>2, <2>3, <3>1, <3>2, Zenon
      <3>4. ASSUME InScanString(str, l + 1), ~InEngineString(str, l + 1),
                   ~EscapedBracket(str, l + 1)
            PROVE  FALSE
        <4>1. InEngineString(str, l) <=> InScanString(str, l)
          BY <2>2, <2>5, <3>4, Zenon
        <4>2. InEngineString(str, l) /\ c = "]" /\ ~(l + 1 > 1 /\ str[l] # "\\")
          BY <2>3, <3>1, <3>2, <3>4, <4>1, Zenon
        <4>3. l # 0
          <5>1. ~InEngineString(str, 0)
            BY <1>1, EngineTurns, Zenon DEF InEngineString
          <5> QED  BY <4>2, <5>1
        <4>4. /\ l + 1 \in 2..(l + 1) /\ str[(l + 1) - 1] = "\\" /\ str[l + 1] = "]"
          BY <2>1, <4>2, <4>3
        <4>5. l + 1 \notin Outside(str)
          <5>1. EngineInside(str)[(l + 1) - 1]
            BY <2>1, <4>2 DEF InEngineString
          <5> QED  BY <5>1 DEF Outside
        <4>6. EscapedBracket(str, l + 1)
          BY <4>4, <4>5, Zenon DEF EscapedBracket
        <4> QED  BY <3>4, <4>6
      <3> HIDE DEF n
      <3> QED  BY <2>1, <3>3, <3>4
    <2> QED  BY <2>6, <2>7
  <1>4. \A l \in 0..n : l \in S
    <2> HIDE DEF S, n
    <2> QED  BY <1>1, <1>2, <1>3, Induction
  <1>5. A(k)
    <2> HIDE DEF A
    <2> QED  BY <1>4
  <1> QED  BY <1>5

(* What is sent leaves no string of the engine's open.                      *)
LEMMA EngineClosed ==
    ASSUME NEW str \in Seq(Cp1252)
    PROVE  LET w == CleanWhitespace(str)
           IN  ~EngineInside(w)[Len(w)]
  <1> DEFINE end == Scan(str)[Len(str)]
             w == CleanWhitespace(str)
             m == Len(end.out)
  <1>1. /\ w \in Seq(Cp1252) /\ Begins(end.out, w) /\ end \in Scans
        /\ ~end.inString => w = end.out
        /\ end.inString => w = Append(end.out, "]")
    BY CleanedText
  <1>2. Len(str) \in 0..Len(str) /\ end.out \in Seq(Cp1252) /\ m \in Nat
    BY <1>1, ScanType
  <1> HIDE DEF w
  <1>3. CASE ~end.inString
    <2>1. Len(w) \in 0..Len(w) /\ Len(w) = m /\ Scan(w)[m] = end
      BY <1>1, <1>2, <1>3, Replay
    <2>2. ~InScanString(w, Len(w))
      BY <1>3, <2>1 DEF InScanString
    <2>3. ~InEngineString(w, Len(w))
      BY <1>1, <2>1, <2>2, EngineStrings
    <2> QED  BY <2>3 DEF InEngineString, w
  <1>4. CASE end.inString
    <2>1. Len(w) = m + 1 /\ w[m+1] = "]" /\ Len(w) \in Nat
      BY <1>1, <1>2, <1>4
    <2>2. m \in 0..(Len(w) - 1)
      BY <1>2, <2>1
    <2> HIDE DEF m
    <2>3. /\ EngineInside(w)[m] => (EngineInside(w)[m+1] <=> w[m+1] # "]")
          /\ ~EngineInside(w)[m] => (EngineInside(w)[m+1] <=> w[m+1] = "[")
      BY <2>1, <2>2, EngineTurns, Zenon
    <2>4. ~(w[m+1] = "[")
      BY <2>1
    <2>5. ~EngineInside(w)[m+1]
      BY <2>1, <2>3, <2>4, Zenon
    <2> QED  BY <2>1, <2>5 DEF w
  <1> QED  BY <1>3, <1>4

(* What is not white space outside strings, byte by byte.                   *)
LEMMA HardTurns ==
    ASSUME NEW str \in Seq(Cp1252)
    PROVE  /\ HardTo(str)[0] = <<>>
           /\ \A k \in 0..(Len(str) - 1) :
                 HardTo(str)[k+1] =
                     IF ~Scan(str)[k].inString /\ str[k+1] \in White THEN HardTo(str)[k]
                     ELSE Append(HardTo(str)[k], str[k+1])
  <1> DEFINE n == Len(str)
             D == Seq(Cp1252)
             next(k, o) == IF k \in ScannedOutside(str) /\ str[k] \in White THEN o
                           ELSE Append(o, str[k])
             step == [k \in 1..n |-> [o \in D |-> next(k, o)]]
  <1>1. n \in Nat /\ <<>> \in D
    OBVIOUS
  <1>2. step \in Steps(n, D)
    <2>1. ASSUME NEW k \in 1..n, NEW o \in D
          PROVE  next(k, o) \in D
      <3>1. Append(o, str[k]) \in D
        OBVIOUS
      <3> QED  BY <3>1
    <2> HIDE DEF D, next
    <2> QED  BY <2>1 DEF Steps
  <1>3. PICK f : Solves(f, n, D, <<>>, step)
    <2> HIDE DEF step, n, D
    <2> QED  BY <1>1, <1>2, Recursion, Zenon
  <1>4. ASSUME NEW k \in 1..n
        PROVE  f[k] = next(k, f[k-1])
    <2> HIDE DEF D, next
    <2>1. f[k-1] \in D
      BY <1>1, <1>3 DEF Solves
    <2> QED  BY <1>3, <2>1 DEF Solves
  <1>5. f = [k \in 0..n |-> IF k = 0 THEN <<>> ELSE next(k, f[k-1])]
    <2> HIDE DEF next, D
    <2> QED  BY <1>1, <1>3, <1>4 DEF Solves
  <1>6. HardTo(str) = [k \in 0..n |-> IF k = 0 THEN <<>> ELSE next(k, HardTo(str)[k-1])]
    BY <1>5, Zenon DEF HardTo
  <1> DEFINE H == HardTo(str)
  <1> HIDE DEF H
  <1>7. H[0] = <<>> /\ \A k \in 1..n : H[k] = next(k, H[k-1])
    <2> HIDE DEF next
    <2> QED  BY <1>1, <1>6 DEF H
  <1>8. ASSUME NEW k \in 0..(n - 1)
        PROVE  H[k+1] = IF ~Scan(str)[k].inString /\ str[k+1] \in White THEN H[k]
                        ELSE Append(H[k], str[k+1])
    <2>1. k + 1 \in 1..n /\ (k + 1) - 1 = k /\ k + 1 \in DOMAIN str
      BY <1>1
    <2>2. H[k+1] = next(k + 1, H[k])
      BY <1>7, <2>1
    <2>3. k + 1 \in ScannedOutside(str) <=> ~Scan(str)[k].inString
      BY <2>1 DEF ScannedOutside
    <2> QED  BY <2>2, <2>3
  <1> QED  BY <1>7, <1>8 DEF H

(* It is a text of the same bytes.                                          *)
LEMMA HardType ==
    ASSUME NEW str \in Seq(Cp1252)
    PROVE  Hard(str) \in Seq(Cp1252)
  <1> DEFINE n == Len(str)
             S == {k \in 0..n : HardTo(str)[k] \in Seq(Cp1252)}
  <1>1. n \in Nat
    OBVIOUS
  <1>2. 0 \in S
    <2>1. HardTo(str)[0] = <<>> /\ <<>> \in Seq(Cp1252) /\ 0 \in 0..n
      BY <1>1, HardTurns
    <2> QED  BY <2>1
  <1>3. ASSUME NEW k \in 0..(n - 1), k \in S
        PROVE  k + 1 \in S
    <2>1. str[k+1] \in Cp1252 /\ k + 1 \in 0..n
      BY <1>1
    <2>2. Append(HardTo(str)[k], str[k+1]) \in Seq(Cp1252)
      BY <1>3, <2>1
    <2>3. HardTo(str)[k+1] \in {HardTo(str)[k], Append(HardTo(str)[k], str[k+1])}
      BY HardTurns
    <2> QED  BY <1>3, <2>1, <2>2, <2>3
  <1>4. \A k \in 0..n : k \in S
    <2> HIDE DEF S, n
    <2> QED  BY <1>1, <1>2, <1>3, Induction
  <1> QED  BY <1>1, <1>4 DEF Hard

(* What is hard in a text is hard in what is written of it.                 *)
LEMMA HardReplay ==
    ASSUME NEW str \in Seq(Cp1252), NEW w \in Seq(Cp1252),
           Begins(Scan(str)[Len(str)].out, w)
    PROVE  HardTo(w)[Len(Scan(str)[Len(str)].out)] = Hard(str)
  <1> DEFINE T == Scan(str)
             n == Len(str)
             S == {k \in 0..n : HardTo(w)[Len(T[k].out)] = HardTo(str)[k]}
  <1> HIDE DEF T
  <1>1. n \in Nat /\ Len(w) \in Nat
        /\ \A k \in 0..n : /\ T[k] \in Scans /\ T[k].out \in Seq(Cp1252)
                           /\ Len(T[k].out) \in 0..Len(w)
                           /\ Scan(w)[Len(T[k].out)] = T[k]
    <2>1. \A k \in 0..n : T[k] \in Scans
      BY ScanTurns DEF T
    <2>2. \A k \in 0..n : Len(T[k].out) \in 0..Len(w) /\ Scan(w)[Len(T[k].out)] = T[k]
      BY Replay DEF T
    <2> QED  BY <2>1, <2>2, ScanType
  <1>2. 0 \in S
    <2>1. Len(T[0].out) = 0
      BY ScanTurns DEF T, CleanStart
    <2>2. HardTo(w)[0] = <<>> /\ HardTo(str)[0] = <<>>
      BY HardTurns
    <2> QED  BY <1>1, <2>1, <2>2
  <1>3. ASSUME NEW k \in 0..(n - 1), k \in S
        PROVE  k + 1 \in S
    <2>1. k + 1 \in 0..n /\ k \in 0..n
      BY <1>1
    <2>2. HardTo(w)[Len(T[k].out)] = HardTo(str)[k]
      BY <1>3
    <2>3. HardTo(str)[k+1] = IF ~T[k].inString /\ str[k+1] \in White THEN HardTo(str)[k]
                             ELSE Append(HardTo(str)[k], str[k+1])
      BY HardTurns DEF T
    <2>4. CASE LeftOut(str, k + 1, T[k])
      <3>1. T[k+1] = T[k]
        BY <2>4, ScanTurn DEF T
      <3>2. HardTo(str)[k+1] = HardTo(str)[k]
        BY <2>3, <2>4 DEF LeftOut
      <3> QED  BY <2>1, <2>2, <3>1, <3>2
    <2>5. CASE ~LeftOut(str, k + 1, T[k])
      <3> DEFINE m == Len(T[k].out)
      <3>1. T[k+1].out = Append(T[k].out, str[k+1])
        <4>1. Writes(str, k + 1, T[k], T[k+1])
          BY <2>5, ScanTurn DEF T
        <4> QED  BY <4>1 DEF Writes
      <3>2. Len(T[k+1].out) = m + 1 /\ T[k+1].out[m+1] = str[k+1] /\ m \in Nat
        BY <1>1, <2>1, <3>1
      <3>3. m \in 0..(Len(w) - 1) /\ m + 1 \in 1..Len(w)
        BY <1>1, <2>1, <3>2
      <3>4. w[m+1] = str[k+1]
        <4>1. \A j \in 0..n : \A l \in j..n : Begins(T[j].out, T[l].out)
          BY Growing DEF T
        <4>2. n \in (k + 1)..n
          BY <1>1
        <4>3. Begins(T[k+1].out, T[n].out) /\ Begins(T[n].out, w)
          BY <2>1, <4>1, <4>2 DEF T
        <4>4. Len(T[k+1].out) \in Nat /\ Len(T[n].out) \in Nat /\ n \in 0..n
          BY <1>1, <2>1
        <4>5. m + 1 \in 1..Len(T[k+1].out) /\ m + 1 \in 1..Len(T[n].out)
          BY <3>2, <4>3, <4>4 DEF Begins
        <4> QED  BY <3>2, <4>3, <4>5 DEF Begins
      <3>5. Scan(w)[m] = T[k]
        BY <1>1, <2>1
      <3>6. HardTo(w)[m+1] = IF ~T[k].inString /\ w[m+1] \in White THEN HardTo(w)[m]
                             ELSE Append(HardTo(w)[m], w[m+1])
        BY <3>3, <3>5, HardTurns
      <3>7. HardTo(w)[m+1] = HardTo(str)[k+1]
        BY <2>2, <2>3, <3>4, <3>6
      <3> QED  BY <2>1, <3>2, <3>7
    <2> QED  BY <2>4, <2>5
  <1>4. \A k \in 0..n : k \in S
    <2> HIDE DEF S, n
    <2> QED  BY <1>1, <1>2, <1>3, Induction
  <1>5. n \in S
    BY <1>1, <1>4
  <1> QED  BY <1>5 DEF T, Hard

(* What an engine gets holds all that is hard in the text, and the bracket  *)
(* that closes it.                                                          *)
LEMMA CleanedIsWhole ==
    ASSUME NEW str \in Seq(Cp1252)
    PROVE  Hard(CleanWhitespace(str)) =
              Hard(str) \o (IF Scanned(str).inString THEN <<"]">> ELSE <<>>)
  <1> DEFINE end == Scan(str)[Len(str)]
             w == CleanWhitespace(str)
             m == Len(end.out)
  <1>1. /\ w \in Seq(Cp1252) /\ Begins(end.out, w) /\ end \in Scans
        /\ ~end.inString => w = end.out
        /\ end.inString => w = Append(end.out, "]")
    BY CleanedText
  <1>2. Len(str) \in 0..Len(str) /\ end.out \in Seq(Cp1252) /\ m \in Nat
    BY <1>1, ScanType
  <1> HIDE DEF w
  <1>3. HardTo(w)[m] = Hard(str)
    BY <1>1, HardReplay
  <1>4. Hard(str) \in Seq(Cp1252)
    BY HardType
  <1>5. CASE ~end.inString
    <2>1. Hard(w) = Hard(str)
      BY <1>1, <1>3, <1>5 DEF Hard
    <2>2. Hard(str) \o <<>> = Hard(str)
      BY <1>4
    <2> QED  BY <1>5, <2>1, <2>2 DEF w, Scanned
  <1>6. CASE end.inString
    <2>1. Len(w) = m + 1 /\ w[m+1] = "]" /\ m \in 0..(Len(w) - 1)
      BY <1>1, <1>2, <1>6
    <2>2. HardTo(w)[m+1] = Append(HardTo(w)[m], w[m+1])
      <3>1. w[m+1] \notin White
        BY <2>1 DEF White
      <3> HIDE DEF m
      <3> QED  BY <1>1, <2>1, <3>1, HardTurns
    <2>3. Hard(w) = Append(Hard(str), "]")
      BY <1>3, <2>1, <2>2 DEF Hard
    <2>4. Hard(str) \o <<"]">> = Append(Hard(str), "]")
      BY <1>4
    <2> QED  BY <1>6, <2>3, <2>4 DEF w, Scanned
  <1> QED  BY <1>5, <1>6

(* Both for the texts that cp1252FromUtf8() yields.                         *)
LEMMA TextKept ==
    ASSUME NEW str, Len(str) \in Nat
    PROVE  NoDoubleSpace(str) /\ CleanIsStable(str) /\ StringsKept(str)
  <1> DEFINE in == Cp1252FromUtf8(str)
             w == DdeText(str)
  <1>1. in \in Seq(Cp1252) /\ w = CleanWhitespace(in)
    BY Converted DEF DdeText
  <1> HIDE DEF in
  <1>2. w \in Seq(Cp1252) /\ Scan(w)[Len(w)].out = w
    BY <1>1, CleanedText, CleanedTwice
  <1>3. \/ ~Scan(w)[Len(w)].inString
        \/ Scan(in)[Len(in)].inString /\ in[Len(in)] = "\\"
    BY <1>1, CleanedTwice
  <1>4. NoDoubleSpace(str)
    <2> HIDE DEF w
    <2> SUFFICES ASSUME NEW k \in 1..(Len(w) - 1), {k, k + 1} \subseteq Outside(w),
                        {w[k], w[k+1]} \subseteq White, ~EscapedBracket(w, k)
                 PROVE  FALSE
      BY DEF w, NoDoubleSpace
    <2>1. /\ Len(w) \in Nat /\ k \in 0..Len(w) /\ k - 1 \in 0..Len(w)
          /\ k \in DOMAIN w /\ k + 1 \in DOMAIN w /\ (k + 1) - 1 = k
      BY <1>2
    <2>2. ~InEngineString(w, k - 1) /\ ~InEngineString(w, k)
      BY <2>1 DEF Outside, InEngineString
    <2>3. ~EscapedBracket(w, k - 1)
      <3>1. \A j \in 2..(k - 1) : j \in 2..k
        BY <2>1
      <3> QED  BY <3>1, Zenon DEF EscapedBracket
    <2>4. ~InScanString(w, k - 1) /\ ~InScanString(w, k)
      BY <1>2, <2>1, <2>2, <2>3, EngineStrings
    <2>5. {k, k + 1} \subseteq ScannedOutside(w)
      BY <2>1, <2>4 DEF ScannedOutside, InScanString
    <2> QED  BY <1>2, <2>5, NoTwoInARow
  <1>5. CleanIsStable(str)
    <2>1. ~Scan(w)[Len(w)].inString => CleanWhitespace(w) = w
      <3> HIDE DEF w
      <3>1. w \o <<>> = w
        BY <1>2
      <3> QED  BY <1>2, <3>1 DEF CleanWhitespace, Scanned
    <2>2. ~EngineInside(w)[Len(w)]
      BY <1>1, EngineClosed
    <2> QED  BY <1>3, <2>1, <2>2 DEF CleanIsStable, Scanned, in
  <1>6. StringsKept(str)
    BY <1>1, CleanedIsWhole DEF StringsKept, in
  <1> QED  BY <1>4, <1>5, <1>6

(* The texts are sequences, and no step changes one.                        *)
LEMMA TextsAreFinite ==
    ASSUME MCInit
    PROVE  Len(text) \in Nat
  <1>0. text = <<>> \/ text \in UpTo(MaxLen + 1, Ascii \ {"?"})
    BY DEF MCInit, NoInput
  <1>1. CASE text = <<>>
    BY <1>1
  <1>2. CASE text \in UpTo(MaxLen + 1, Ascii \ {"?"})
    <2>1. PICK k \in 0..(MaxLen + 1) : text \in [1..k -> Ascii \ {"?"}]
      BY <1>2 DEF UpTo
    <2>2. k \in Nat
      BY <2>1, MaxLenAssumption DEF MaxLenAssumption
    <2>3. text \in Seq(Ascii \ {"?"})
      BY <2>1, <2>2, SeqDef
    <2> QED  BY <2>3
  <1> QED  BY <1>0, <1>1, <1>2

(* At every moment of a run the properties of a text hold.                  *)
LEMMA TextAlways == MCSpec => [](NoDoubleSpace(text) /\ CleanIsStable(text) /\ StringsKept(text))
  <1>1. MCInit => Len(text) \in Nat
    BY TextsAreFinite
  <1>2. Len(text) \in Nat /\ [MCNext]_<<chunkVars, inputVars>> => (Len(text) \in Nat)'
    BY DEF MCNext, inputVars
  <1>3. Len(text) \in Nat => NoDoubleSpace(text) /\ CleanIsStable(text) /\ StringsKept(text)
    BY TextKept
  <1> QED  BY <1>1, <1>2, <1>3, PTL DEF MCSpec

(* A DDE engine, for a text of any length, gets no two bytes of white space *)
(* in a row outside what it takes for a string, unless an escaped bracket   *)
(* came before them; no string is left open for it, and cleaning the text   *)
(* again would not change it (SharedMemoryInterface.cpp:161-222).           *)
THEOREM SentClean == MCSpec => []SentIsClean
  <1>1. NoDoubleSpace(text) /\ CleanIsStable(text) /\ StringsKept(text) => SentIsClean
    BY DEF SentIsClean
  <1> QED  BY <1>1, TextAlways, PTL

(* Whatever the length of a text, its strings and all else that is not      *)
(* white space between them arrive (SharedMemoryInterface.cpp:161-222).     *)
THEOREM StringsWhole == MCSpec => []StringsArrive
  <1>1. NoDoubleSpace(text) /\ CleanIsStable(text) /\ StringsKept(text) => StringsArrive
    BY DEF StringsArrive
  <1> QED  BY <1>1, TextAlways, PTL

(* The texts in UTF-8 are sequences of characters.                          *)
LEMMA CharactersSent ==
    ASSUME MCInit
    PROVE  utf8 \in Seq(Characters)
  <1>0. utf8 = <<>> \/ utf8 \in UpTo(MaxLen, Sample) \cup UpTo(2, Characters)
    BY DEF MCInit, NoInput
  <1>1. CASE utf8 = <<>>
    BY <1>1
  <1>2. CASE utf8 \in UpTo(MaxLen, Sample) \cup UpTo(2, Characters)
    <2>1. Sample \subseteq Characters
      BY DEF Sample, Unlisted, Characters, Leaders, TwoBytes, ThreeBytes
    <2>2. PICK k \in (0..MaxLen) \cup (0..2) :
            utf8 \in [1..k -> Sample] \/ utf8 \in [1..k -> Characters]
      BY <1>2 DEF UpTo
    <2>3. k \in Nat /\ utf8 \in [1..k -> Characters]
      BY <2>1, <2>2, MaxLenAssumption DEF MaxLenAssumption
    <2> QED  BY <2>3, SeqDef
  <1> QED  BY <1>0, <1>1, <1>2

(* A text of any length that an engine echoes comes back to the webapp as   *)
(* the UTF-8 it sent: ASCII less the carriage returns, and each character   *)
(* of the switches, which agree; any other is a question mark               *)
(* (SharedMemoryInterface.cpp:31-63, :92-159).                              *)
THEOREM EchoWhole == MCSpec => []EngineEchoKept
  <1>1. MCInit => utf8 \in Seq(Characters)
    BY CharactersSent
  <1>2. utf8 \in Seq(Characters) /\ [MCNext]_<<chunkVars, inputVars>>
        => (utf8 \in Seq(Characters))'
    BY DEF MCNext, inputVars
  <1>3. utf8 \in Seq(Characters) => EngineEchoKept
    BY EchoedText DEF EngineEchoKept
  <1> QED  BY <1>1, <1>2, <1>3, PTL DEF MCSpec
=============================================================================

------------------------ MODULE MuxStreamCreditProofs ------------------------
(***************************************************************************)
(* Theorems about the credit of a stream: MuxStream implements the credit  *)
(* ledger in both directions, and no credit is created or lost while the   *)
(* stream is intact.                                                       *)
(***************************************************************************)
EXTENDS MuxStreamProps, MuxStreamProofs, WellFoundedInduction

-----------------------------------------------------------------------------
(* Induction over the naturals, as a fact about sets: the proofs below sum *)
(* up queues.                                                              *)
LessRel == {p \in Nat \X Nat : p[1] < p[2]}

(* There is no infinite descent below a natural number. *)
LEMMA LessWF == IsWellFoundedOn(LessRel, Nat)
  BY NatLessThanWellFounded DEF OpToRel, LessRel

(* Every nonempty set of naturals has a least element. *)
LEMMA Least ==
    ASSUME NEW T, T \subseteq Nat, T # {}
    PROVE  \E x \in T : \A y \in T : x <= y
<1>1. \E x \in T : \A y \in T : ~ (<<y, x>> \in LessRel)
  BY LessWF, WFMin, Zenon
<1>2. ASSUME NEW x \in T, NEW y \in T, ~ (<<y, x>> \in LessRel) PROVE x <= y
  <2>1. x \in Nat /\ y \in Nat OBVIOUS
  <2>2. ~ (y < x) BY <2>1, <1>2 DEF LessRel
  <2>3. QED BY <2>1, <2>2
<1>3. QED BY <1>1, <1>2, Zenon

(* A set that holds 0 and every successor of its elements holds all        *)
(* naturals.                                                               *)
LEMMA SetInduction ==
    ASSUME NEW T, 0 \in T, \A i \in Nat : i \in T => i + 1 \in T
    PROVE  Nat \subseteq T
<1> SUFFICES ASSUME Nat \ T # {} PROVE FALSE
  OBVIOUS
<1> DEFINE U == Nat \ T
<1>1. PICK x \in U : \A y \in U : x <= y
  <2>1. U \subseteq Nat /\ U # {}
    OBVIOUS
  <2> HIDE DEF U
  <2>2. QED BY <2>1, Least, Zenon
<1>2. x # 0
  OBVIOUS
<1>3. x - 1 \in T
  BY <1>1, <1>2
<1>4. QED
  BY <1>1, <1>2, <1>3

(* f adds the first i entries of v up, for every i. *)
Adds(v, f) ==
    /\ f \in [0..Len(v) -> Nat]
    /\ f[0] = 0
    /\ \A i \in 1..Len(v) : f[i] = f[i - 1] + v[i]

(* There is such a function for every sequence of naturals ... *)
LEMMA AddsExists ==
    ASSUME NEW v \in Seq(Nat)
    PROVE  \E f : Adds(v, f)
<1> DEFINE P(k, f) == /\ f \in [0..k -> Nat] /\ f[0] = 0
                      /\ \A i \in 1..k : f[i] = f[i - 1] + v[i]
           Q(k) == k <= Len(v) => \E f \in [0..k -> Nat] : P(k, f)
           T == {k \in Nat : Q(k)}
<1>1. Q(0)
  <2>1. P(0, [i \in 0..0 |-> 0])
    OBVIOUS
  <2>2. QED
    BY <2>1, Zenon
<1>2. ASSUME NEW k \in Nat, Q(k) PROVE Q(k + 1)
  <2> SUFFICES ASSUME k + 1 <= Len(v) PROVE \E f \in [0..(k+1) -> Nat] : P(k + 1, f)
    BY Zenon
  <2>1. k <= Len(v)
    OBVIOUS
  <2>2. PICK f \in [0..k -> Nat] : P(k, f)
    BY <1>2, <2>1, Zenon
  <2> DEFINE g == [i \in 0..(k+1) |-> IF i = k + 1 THEN f[k] + v[k+1] ELSE f[i]]
  <2>3. v[k+1] \in Nat /\ f[k] \in Nat
    OBVIOUS
  <2>4. g \in [0..(k+1) -> Nat] /\ g[0] = 0
    BY <2>2, <2>3
  <2>5. ASSUME NEW i \in 1..(k+1) PROVE g[i] = g[i-1] + v[i]
    <3>1. CASE i = k + 1
      BY <3>1
    <3>2. CASE i \in 1..k
      BY <2>2, <3>2
    <3>3. QED BY <3>1, <3>2
  <2> HIDE DEF g
  <2>6. P(k + 1, g)
    BY <2>4, <2>5, Zenon
  <2>7. QED
    BY <2>4, <2>6, Zenon
<1>3. Q(Len(v))
  <2> HIDE DEF Q
  <2>1. 0 \in T /\ \A k \in Nat : k \in T => k + 1 \in T
    BY <1>1, <1>2
  <2> HIDE DEF T
  <2>2. Nat \subseteq T
    BY <2>1, SetInduction, Zenon
  <2>3. QED BY <2>2 DEF T
<1>4. \E f \in [0..Len(v) -> Nat] : P(Len(v), f)
  BY <1>3
<1>5. QED
  BY <1>4, Zenon DEF Adds

(* ... and whatever satisfies the recursion of Total is that function. *)
LEMMA AddsUnique ==
    ASSUME NEW v \in Seq(Nat), NEW f, Adds(v, f), NEW g,
           g = [i \in 0..Len(v) |-> IF i = 0 THEN 0 ELSE g[i - 1] + v[i]]
    PROVE  g = f
<1> DEFINE Q(k) == k <= Len(v) => g[k] = f[k]
           T == {k \in Nat : Q(k)}
<1>1. Q(0)
  BY DEF Adds
<1>2. ASSUME NEW k \in Nat, Q(k) PROVE Q(k + 1)
  <2> SUFFICES ASSUME k + 1 <= Len(v) PROVE g[k + 1] = f[k + 1]
    OBVIOUS
  <2>1. g[k + 1] = g[k] + v[k + 1]
    OBVIOUS
  <2>2. f[k + 1] = f[k] + v[k + 1]
    BY DEF Adds
  <2>3. QED
    BY <1>2, <2>1, <2>2
<1>3. \A k \in Nat : Q(k)
  <2> HIDE DEF Q
  <2>1. 0 \in T /\ \A k \in Nat : k \in T => k + 1 \in T
    BY <1>1, <1>2
  <2> HIDE DEF T
  <2>2. Nat \subseteq T
    BY <2>1, SetInduction, Zenon
  <2>3. QED BY <2>2, Zenon DEF T
<1>4. \A k \in 0..Len(v) : g[k] = f[k]
  BY <1>3
<1>5. g = [i \in 0..Len(v) |-> g[i]]
  OBVIOUS
<1>6. f = [i \in 0..Len(v) |-> f[i]]
  BY DEF Adds
<1>7. QED
  BY <1>4, <1>5, <1>6, Zenon

(* Total is its last value. *)
LEMMA TotalIs ==
    ASSUME NEW v \in Seq(Nat), NEW f, Adds(v, f)
    PROVE  Total(v) = f[Len(v)]
<1> DEFINE G(g) == g = [i \in 0..Len(v) |-> IF i = 0 THEN 0 ELSE g[i - 1] + v[i]]
<1>1. G(f)
  <2>1. f = [i \in 0..Len(v) |-> f[i]]
    BY DEF Adds
  <2>2. \A i \in 0..Len(v) : f[i] = IF i = 0 THEN 0 ELSE f[i - 1] + v[i]
    BY DEF Adds
  <2>3. QED
    BY <2>1, <2>2, Zenon
<1> DEFINE h == CHOOSE g : G(g)
<1>2. G(h)
  BY <1>1, Zenon
<1>3. Total(v) = h[Len(v)]
  BY DEF Total
<1> HIDE DEF h
<1>4. h = f
  BY <1>2, AddsUnique, Zenon
<1>5. QED
  BY <1>3, <1>4

(* The sum of nothing is 0, ... *)
LEMMA TotalEmpty == Total(<<>>) = 0
<1>1. Adds(<<>>, [i \in 0..0 |-> 0])
  BY DEF Adds
<1>2. QED
  BY <1>1, TotalIs

(* ... a sum of naturals is a natural, ... *)
LEMMA TotalNat == \A v \in Seq(Nat) : Total(v) \in Nat
<1> SUFFICES ASSUME NEW v \in Seq(Nat) PROVE Total(v) \in Nat
  OBVIOUS
<1>1. PICK f : Adds(v, f)
  BY AddsExists
<1>2. Total(v) = f[Len(v)]
  BY <1>1, TotalIs
<1>3. QED
  BY <1>1, <1>2 DEF Adds

(* ... an entry at the end is added, ... *)
LEMMA TotalAppend ==
    ASSUME NEW v \in Seq(Nat), NEW x \in Nat
    PROVE  Total(Append(v, x)) = Total(v) + x
<1>1. PICK f : Adds(v, f)
  BY AddsExists
<1> DEFINE L == Len(v)
           r == Append(v, x)
           g == [i \in 0..(L + 1) |-> IF i = L + 1 THEN f[L] + x ELSE f[i]]
<1>2. L \in Nat /\ Len(r) = L + 1 /\ r \in Seq(Nat) /\ r[L + 1] = x
  OBVIOUS
<1>3. \A i \in 1..L : r[i] = v[i]
  OBVIOUS
<1>4. /\ f \in [0..L -> Nat] /\ f[0] = 0
      /\ \A i \in 1..L : f[i] = f[i - 1] + v[i]
  BY <1>1 DEF Adds
<1>5. g \in [0..(L + 1) -> Nat] /\ g[0] = 0 /\ g[L + 1] = f[L] + x
  BY <1>2, <1>4, SMTT(30)
<1>6. ASSUME NEW i \in 1..(L + 1) PROVE g[i] = g[i - 1] + r[i]
  <2>1. CASE i = L + 1
    BY <1>2, <1>5, <2>1
  <2>2. CASE i \in 1..L
    BY <1>2, <1>3, <1>4, <2>2
  <2>3. QED
    BY <1>2, <2>1, <2>2
<1> HIDE DEF g, r
<1>7. Adds(r, g)
  BY <1>2, <1>5, <1>6, Zenon DEF Adds
<1>8. Total(r) = g[L + 1] /\ Total(v) = f[L]
  BY <1>1, <1>2, <1>7, TotalIs, Zenon
<1>9. QED
  BY <1>5, <1>8 DEF r

(* ... and an entry at the front is taken away. *)
LEMMA TotalTail ==
    ASSUME NEW v \in Seq(Nat), v # <<>>
    PROVE  Total(v) = Head(v) + Total(Tail(v))
<1> DEFINE L == Len(v)
           r == Tail(v)
<1>1. L \in Nat /\ L >= 1 /\ Len(r) = L - 1 /\ r \in Seq(Nat) /\ Head(v) = v[1] /\ v[1] \in Nat
  OBVIOUS
<1>2. \A i \in 1..(L - 1) : r[i] = v[i + 1]
  OBVIOUS
<1>3. PICK f : Adds(r, f)
  BY <1>1, AddsExists, Zenon
<1> DEFINE g == [i \in 0..L |-> IF i = 0 THEN 0 ELSE v[1] + f[i - 1]]
<1> HIDE DEF r
<1>4. /\ f \in [0..(L - 1) -> Nat] /\ f[0] = 0
      /\ \A i \in 1..(L - 1) : f[i] = f[i - 1] + r[i]
  BY <1>1, <1>3, Zenon DEF Adds
<1>5. g \in [0..L -> Nat] /\ g[0] = 0 /\ g[L] = v[1] + f[L - 1]
  BY <1>1, <1>4, SMTT(30)
<1>6. ASSUME NEW i \in 1..L PROVE g[i] = g[i - 1] + v[i]
  <2>1. CASE i = 1
    BY <1>1, <1>4, <2>1
  <2>2. CASE i \in 2..L
    <3>1. PICK j \in 1..(L - 1) : i = j + 1
      BY <1>1, <2>2
    <3>2. f[j] = f[j - 1] + r[j] /\ r[j] = v[j + 1]
      BY <1>2, <1>4, <3>1, Zenon
    <3>3. f[j] \in Nat /\ f[j - 1] \in Nat /\ v[j + 1] \in Nat
      <4>1. j \in 0..(L - 1) /\ j - 1 \in 0..(L - 1) /\ j + 1 \in 1..Len(v)
        BY <1>1, <3>1
      <4>2. \A k \in 1..Len(v) : v[k] \in Nat
        OBVIOUS
      <4>3. QED
        BY ONLY <1>4, <4>1, <4>2, Zenon
    <3>4. g[j + 1] = v[1] + f[j] /\ g[j] = v[1] + f[j - 1]
      BY <1>1, <3>1, SMTT(30)
    <3>5. (j + 1) - 1 = j
      BY <1>1, <3>1
    <3> HIDE DEF g
    <3>6. g[j + 1] = g[j] + v[j + 1]
      <4>1. v[1] \in Nat
        BY <1>1
      <4>2. QED
        BY ONLY <4>1, <3>2, <3>3, <3>4, SMTT(30)
    <3>7. QED
      BY <3>1, <3>5, <3>6, Zenon
  <2>3. QED
    BY <1>1, <2>1, <2>2
<1> HIDE DEF g
<1>7. Adds(v, g)
  BY <1>5, <1>6 DEF Adds
<1>8. Total(v) = g[L] /\ Total(r) = f[L - 1]
  BY <1>1, <1>3, <1>7, TotalIs, Zenon
<1>9. QED
  BY <1>1, <1>5, <1>8, Zenon DEF r

(* The grant of a frame (the delta of a WINDOW) is a natural number. *)
LEMMA GrantNat == \A f \in Frames : Grant(f) \in Nat
BY FrameFacts, Zenon DEF Grant

(* Sequences with the same entries are the same. *)
LEMMA SameSeq ==
    ASSUME NEW x \in Seq(Nat), NEW y \in Seq(Nat), Len(x) = Len(y),
           \A i \in 1..Len(x) : x[i] = y[i]
    PROVE  x = y
<1>1. x = [i \in 1..Len(x) |-> x[i]] /\ y = [i \in 1..Len(y) |-> y[i]]
  OBVIOUS
<1>2. QED
  BY <1>1, Zenon

(* The weight of a queue, for a weight W of its frames. *)
SumOf(W, q) == Total([i \in 1..Len(q) |-> W[q[i]]])

(* It starts at 0 and changes by the weight of the frame that comes or     *)
(* goes.                                                                   *)
LEMMA SumOfFacts ==
    ASSUME NEW W \in [Frames -> Nat]
    PROVE  /\ SumOf(W, <<>>) = 0
           /\ \A q \in Seq(Frames) : SumOf(W, q) \in Nat
           /\ \A q \in Seq(Frames), f \in Frames : SumOf(W, Append(q, f)) = SumOf(W, q) + W[f]
           /\ \A q \in Seq(Frames) : q # <<>> => SumOf(W, q) = W[Head(q)] + SumOf(W, Tail(q))
<1> DEFINE V(q) == [i \in 1..Len(q) |-> W[q[i]]]
<1>0. \A q \in Seq(Frames) : SumOf(W, q) = Total(V(q))
  BY DEF SumOf
<1>1. \A f \in Frames : W[f] \in Nat
  OBVIOUS
<1>2. ASSUME NEW q \in Seq(Frames) PROVE V(q) \in Seq(Nat) /\ Len(V(q)) = Len(q)
  BY <1>1
<1>3. ASSUME NEW q \in Seq(Frames), NEW f \in Frames
      PROVE  V(Append(q, f)) = Append(V(q), W[f])
  <2>1. Append(q, f) \in Seq(Frames)
    OBVIOUS
  <2>2. V(Append(q, f)) \in Seq(Nat) /\ Append(V(q), W[f]) \in Seq(Nat)
    BY <1>1, <1>2, <2>1
  <2>3. Len(V(Append(q, f))) = Len(q) + 1 /\ Len(Append(V(q), W[f])) = Len(q) + 1
    BY <1>2, <2>1
  <2>4. ASSUME NEW i \in 1..(Len(q) + 1)
        PROVE  V(Append(q, f))[i] = Append(V(q), W[f])[i]
    <3>1. CASE i = Len(q) + 1
      BY <1>2, <3>1
    <3>2. CASE i \in 1..Len(q)
      BY <1>2, <3>2
    <3>3. QED BY <3>1, <3>2
  <2> HIDE DEF V
  <2>5. QED
    BY <2>2, <2>3, <2>4, SameSeq, Zenon
<1>4. ASSUME NEW q \in Seq(Frames), q # <<>>
      PROVE  V(q) # <<>> /\ Head(V(q)) = W[Head(q)] /\ Tail(V(q)) = V(Tail(q))
  <2>1. Tail(q) \in Seq(Frames) /\ Len(q) \in Nat /\ Len(q) >= 1 /\ Len(Tail(q)) = Len(q) - 1
    <3>1. Tail(q) \in Seq(Frames)
      BY <1>4, HeadFrame, ZenonT(30)
    <3>2. QED
      BY <1>4, <3>1
  <2>2. V(q) # <<>> /\ Head(V(q)) = W[Head(q)]
    BY <1>2, <2>1
  <2>3. Tail(V(q)) \in Seq(Nat) /\ V(Tail(q)) \in Seq(Nat)
    BY <1>2, <2>1, <2>2
  <2>4. Len(Tail(V(q))) = Len(q) - 1 /\ Len(V(Tail(q))) = Len(q) - 1
    BY <1>2, <2>1, <2>2
  <2>5. ASSUME NEW i \in 1..(Len(q) - 1) PROVE Tail(V(q))[i] = V(Tail(q))[i]
    <3>1. Tail(q)[i] = q[i + 1]
      BY <2>1
    <3>2. Tail(V(q))[i] = V(q)[i + 1]
      BY <1>2, <2>1, <2>2
    <3>3. QED
      BY <2>1, <3>1, <3>2
  <2> HIDE DEF V
  <2>6. QED
    BY <2>2, <2>3, <2>4, <2>5, SameSeq, Zenon
<1>5. V(<<>>) = <<>> /\ <<>> \in Seq(Frames)
  OBVIOUS
<1> HIDE DEF V
<1>6. SumOf(W, <<>>) = 0
  BY <1>0, <1>5, TotalEmpty, Zenon
<1>7. \A q \in Seq(Frames) : SumOf(W, q) \in Nat
  BY <1>0, <1>2, TotalNat, Zenon
<1>8. ASSUME NEW q \in Seq(Frames), NEW f \in Frames
      PROVE  SumOf(W, Append(q, f)) = SumOf(W, q) + W[f]
  <2>1. Append(q, f) \in Seq(Frames)
    OBVIOUS
  <2>2. QED
    BY <1>0, <1>1, <1>2, <1>3, <2>1, TotalAppend, Zenon
<1>9. ASSUME NEW q \in Seq(Frames), q # <<>>
      PROVE  SumOf(W, q) = W[Head(q)] + SumOf(W, Tail(q))
  <2>1. Tail(q) \in Seq(Frames)
    BY <1>9, HeadFrame
  <2>2. Total(V(q)) = Head(V(q)) + Total(Tail(V(q)))
    BY <1>2, <1>4, <1>9, TotalTail
  <2>3. QED
    BY <1>0, <1>4, <1>9, <2>1, <2>2, Zenon
<1>10. QED
  BY <1>6, <1>7, <1>8, <1>9

(* The payload bytes in a queue, frame by frame. *)
LEMMA ByteSumFacts ==
    /\ ByteSum(<<>>) = 0
    /\ \A q \in Seq(Frames) : ByteSum(q) \in Nat
    /\ \A q \in Seq(Frames), f \in Frames : ByteSum(Append(q, f)) = ByteSum(q) + Bytes(f)
    /\ \A q \in Seq(Frames) : q # <<>> => ByteSum(q) = Bytes(Head(q)) + ByteSum(Tail(q))
<1> DEFINE W == [f \in Frames |-> Bytes(f)]
<1>1. W \in [Frames -> Nat] /\ \A f \in Frames : W[f] = Bytes(f)
  BY FrameFacts
<1>2. ASSUME NEW q \in Seq(Frames) PROVE ByteSum(q) = SumOf(W, q)
  <2>1. \A i \in 1..Len(q) : q[i] \in Frames
    OBVIOUS
  <2>2. [i \in 1..Len(q) |-> Bytes(q[i])] = [i \in 1..Len(q) |-> W[q[i]]]
    BY <1>1, <2>1, ZenonT(30)
  <2>3. QED
    BY <2>2, Zenon DEF ByteSum, SumOf
<1> HIDE DEF W
<1>3. <<>> \in Seq(Frames) /\ \A q \in Seq(Frames), f \in Frames : Append(q, f) \in Seq(Frames)
  OBVIOUS
<1>4. ByteSum(<<>>) = 0 /\ \A q \in Seq(Frames) : ByteSum(q) \in Nat
  BY <1>1, <1>2, <1>3, SumOfFacts, Zenon
<1>5. ASSUME NEW q \in Seq(Frames), NEW f \in Frames
      PROVE  ByteSum(Append(q, f)) = ByteSum(q) + Bytes(f)
  BY <1>1, <1>2, <1>3, SumOfFacts, Zenon
<1>6. ASSUME NEW q \in Seq(Frames), q # <<>>
      PROVE  ByteSum(q) = Bytes(Head(q)) + ByteSum(Tail(q))
  <2>1. Head(q) \in Frames /\ Tail(q) \in Seq(Frames)
    BY <1>6, HeadFrame
  <2>2. SumOf(W, q) = W[Head(q)] + SumOf(W, Tail(q))
    BY <1>1, <1>6, SumOfFacts, ZenonT(30)
  <2>3. QED
    BY <1>1, <1>2, <2>1, <2>2, Zenon
<1>7. QED
  BY <1>4, <1>5, <1>6

(* The credit that the WINDOW frames of a queue carry, frame by frame. *)
LEMMA GrantSumFacts ==
    /\ GrantSum(<<>>) = 0
    /\ \A q \in Seq(Frames) : GrantSum(q) \in Nat
    /\ \A q \in Seq(Frames), f \in Frames : GrantSum(Append(q, f)) = GrantSum(q) + Grant(f)
    /\ \A q \in Seq(Frames) : q # <<>> => GrantSum(q) = Grant(Head(q)) + GrantSum(Tail(q))
<1> DEFINE W == [f \in Frames |-> Grant(f)]
<1>1. W \in [Frames -> Nat] /\ \A f \in Frames : W[f] = Grant(f)
  BY GrantNat
<1>2. ASSUME NEW q \in Seq(Frames) PROVE GrantSum(q) = SumOf(W, q)
  <2>1. \A i \in 1..Len(q) : q[i] \in Frames
    OBVIOUS
  <2>2. [i \in 1..Len(q) |-> Grant(q[i])] = [i \in 1..Len(q) |-> W[q[i]]]
    BY <1>1, <2>1, ZenonT(30)
  <2>3. QED
    BY <2>2, Zenon DEF GrantSum, SumOf
<1> HIDE DEF W
<1>3. <<>> \in Seq(Frames) /\ \A q \in Seq(Frames), f \in Frames : Append(q, f) \in Seq(Frames)
  OBVIOUS
<1>4. GrantSum(<<>>) = 0 /\ \A q \in Seq(Frames) : GrantSum(q) \in Nat
  BY <1>1, <1>2, <1>3, SumOfFacts, Zenon
<1>5. ASSUME NEW q \in Seq(Frames), NEW f \in Frames
      PROVE  GrantSum(Append(q, f)) = GrantSum(q) + Grant(f)
  BY <1>1, <1>2, <1>3, SumOfFacts, Zenon
<1>6. ASSUME NEW q \in Seq(Frames), q # <<>>
      PROVE  GrantSum(q) = Grant(Head(q)) + GrantSum(Tail(q))
  <2>1. Head(q) \in Frames /\ Tail(q) \in Seq(Frames)
    BY <1>6, HeadFrame
  <2>2. SumOf(W, q) = W[Head(q)] + SumOf(W, Tail(q))
    BY <1>1, <1>6, SumOfFacts, Zenon
  <2>3. QED
    BY <1>1, <1>2, <2>1, <2>2, Zenon
<1>7. QED
  BY <1>4, <1>5, <1>6, ZenonT(30)

-----------------------------------------------------------------------------
(* The inbound pump holds credit only on its way to a send. *)
HeldInv == \A e \in Ends : ipc[e] \notin {"window", "bonus", "flush"} => held[e] = 0

(* The credit that the books of the direction from s do not account for. *)
Lost(s) == granted[Peer(s)] + off[s] - charged[s] - credits[s] - Owed(s)

(* The pump leaves every send, restore and flush with empty hands. *)
LEMMA HeldStep == TypeInv /\ HeldInv /\ [Next]_vars => HeldInv'
<1> SUFFICES ASSUME TypeInv, HeldInv, [Next]_vars, NEW e \in Ends
             PROVE  ipc'[e] \notin {"window", "bonus", "flush"} => held'[e] = 0
  BY DEF HeldInv
<1> DEFINE A == ipc'[e] \notin {"window", "bonus", "flush"} => held'[e] = 0
<1>0. Counters /\ Places
  BY DEF TypeInv
<1>a. ipc[e] \notin {"window", "bonus", "flush"} => held[e] = 0
  BY Zenon DEF HeldInv
<1>1. UNCHANGED <<ipc[e], held[e]>> => A
  BY <1>a, ZenonT(30)
<1>2. CASE Cut
  BY <1>1, <1>2, ZenonT(30) DEF Cut, inVars
<1>3. ASSUME NEW x \in Ends, AppWrite(x) \/ AppShutdown(x) \/ AppDrop(x) PROVE A
  BY <1>1, <1>3, Zenon DEF AppWrite, AppShutdown, AppDrop, inVars
<1>4. ASSUME NEW x \in Ends,
             \/ OutRead(x) \/ OutEof(x) \/ OutAcquire(x) \/ OutFail(x)
             \/ OutSend(x) \/ OutEnd(x) \/ OutRetire(x)
      PROVE  A
  BY <1>1, <1>4, Zenon DEF OutRead, OutEof, OutAcquire, OutFail, OutSend, OutEnd, OutRetire,
                    OutUnchanged, inVars
<1>5. ASSUME NEW x \in Ends, x # e,
             \/ InData(x) \/ InWrite(x) \/ InDrain(x) \/ InWindow(x) \/ InGrow(x) \/ InNoGrow(x)
             \/ InEnd(x) \/ InSwap(x) \/ InFlush(x) \/ InDecodeFail(x)
      PROVE  A
  BY <1>0, <1>1, <1>5, Zenon DEF InData, InWrite, InDrain, InWindow, InGrow, InNoGrow, InEnd, InSwap,
                    InFlush, InDecodeFail, Places, Counters
<1>6. CASE InData(e) \/ InWrite(e) \/ InNoGrow(e) \/ InEnd(e) \/ InDecodeFail(e)
  <2>1. held' = held /\ ipc[e] \notin {"window", "bonus", "flush"}
    BY <1>6, Zenon DEF InData, InWrite, InNoGrow, InEnd, InDecodeFail
  <2>2. QED
    BY <1>a, <2>1
<1>7. CASE InGrow(e) \/ InSwap(e)
  BY <1>0, <1>7, ZenonT(30) DEF InGrow, InSwap, Places
<1>8. CASE InWindow(e) \/ InFlush(e)
  BY <1>0, <1>8, ZenonT(30) DEF InWindow, InFlush, Counters
<1>9. CASE InDrain(e)
  <2>1. held'[e] = pending[e] /\ (pending[e] > 0 => ipc'[e] = "window")
    BY <1>0, <1>9, Zenon DEF InDrain, Places, Counters
  <2>2. QED
    BY <1>0, <2>1, SMTT(30) DEF Counters
<1>10. ASSUME NEW x \in Ends, TickSwap(x) \/ TickSend(x) \/ SessionClose(x) \/ ReadEof(x)
       PROVE  A
  BY <1>1, <1>10, ZenonT(30) DEF TickSwap, TickSend, SessionClose, ReadEof, inVars
<1>11. ASSUME NEW x \in Ends, ReadData(x) \/ ReadWindow(x) \/ ReadClose(x) \/ ReadLast(x)
       PROVE  A
  BY <1>1, <1>11, ZenonT(30) DEF ReadData, ReadWindow, ReadClose, ReadLast, ReadUnchanged, inVars
<1>12. CASE UNCHANGED vars
  BY <1>1, <1>12, ZenonT(30) DEF vars, inVars
<1>13. QED
  BY <1>2, <1>3, <1>4, <1>5, <1>6, <1>7, <1>8, <1>9, <1>10, <1>11, <1>12, ZenonT(30) DEF Next

(* What a send adds to a link. *)
LEMMA SentSums ==
    ASSUME Queues, NEW e \in Ends, NEW f \in Frames, NEW x \in Ends
    PROVE  /\ cut \/ x # e => Sent(e, f)[x] = link[x]
           /\ ~cut /\ x = e => /\ ByteSum(Sent(e, f)[x]) = ByteSum(link[x]) + Bytes(f)
                               /\ GrantSum(Sent(e, f)[x]) = GrantSum(link[x]) + Grant(f)
<1>1. CASE cut \/ x # e
  BY <1>1, ZenonT(30) DEF Sent, Queues
<1>2. CASE ~cut /\ x = e
  <2>1. Sent(e, f)[x] = Append(link[x], f) /\ link[x] \in Seq(Frames)
    BY <1>2, ZenonT(30) DEF Sent, Queues
  <2>2. QED
    BY <1>2, <2>1, ByteSumFacts, GrantSumFacts, ZenonT(30)
<1>3. QED
  BY <1>1, <1>2, ZenonT(30)

(* An Abort, queued or not, has no payload. *)
LEMMA AbortSums ==
    ASSUME Queues, NEW e \in Ends, NEW x \in Ends
    PROVE  ByteSum(AbortTried(e)[x]) = ByteSum(inq[x])
<1>1. inq[x] \in Seq(Frames) /\ Abort \in Frames /\ Bytes(Abort) = 0
  <2>1. Abort \in Frames /\ inq[x] \in Seq(Frames)
    BY FrameFacts, ZenonT(30) DEF Queues
  <2>2. QED
    BY <2>1, ZenonT(30) DEF Abort, Bytes
<1>2. AbortTried(e)[x] = inq[x] \/ AbortTried(e)[x] = Append(inq[x], Abort)
  BY Zenon DEF AbortTried, Queues
<1>3. ByteSum(inq[x]) \in Nat
  BY <1>1, ByteSumFacts, ZenonT(30)
<1>4. ByteSum(Append(inq[x], Abort)) = ByteSum(inq[x])
  BY <1>1, <1>3, ByteSumFacts, SMTT(30)
<1>5. QED
  BY <1>2, <1>4, Zenon

(* What the reader takes off a link. *)
LEMMA PoppedSums ==
    ASSUME Queues, NEW e \in Ends, Incoming(e) # <<>>, NEW x \in Ends
    PROVE  /\ x # Peer(e) => Popped(e)[x] = link[x]
           /\ x = Peer(e) =>
                /\ ByteSum(link[x]) = Bytes(Head(Incoming(e))) + ByteSum(Popped(e)[x])
                /\ GrantSum(link[x]) = Grant(Head(Incoming(e))) + GrantSum(Popped(e)[x])
                /\ Popped(e)[x] \in Seq(Frames)
<1>1. CASE x # Peer(e)
  BY <1>1, PeerFacts, Zenon DEF Popped, Queues
<1>2. CASE x = Peer(e)
  <2>1. Popped(e)[x] = Tail(link[x]) /\ Incoming(e) = link[x] /\ link[x] \in Seq(Frames)
    BY <1>2, PeerFacts, ZenonT(30) DEF Popped, Queues, Incoming
  <2>2. QED
    BY <1>2, <2>1, ByteSumFacts, GrantSumFacts, HeadFrame, ZenonT(30)
<1>3. QED
  BY <1>1, <1>2, Zenon

-----------------------------------------------------------------------------
(* Every entry of the books of a direction is a natural number. *)
LEMMA BookTypes ==
    ASSUME TypeInv, NEW s \in Ends
    PROVE  LET r == Peer(s) IN
           /\ n[s] \in Nat /\ charged[s] \in Nat /\ off[s] \in Nat /\ credits[s] \in Nat
           /\ charged[s] <= n[s] /\ off[s] <= n[s]
           /\ pending[r] \in Nat /\ held[r] \in Nat /\ tick[r] \in Nat
           /\ granted[r] \in Nat /\ granted[r] <= RxWindowMax
           /\ ByteSum(link[s]) \in Nat /\ ByteSum(inq[r]) \in Nat
           /\ Bytes(cur[r]) \in Nat /\ GrantSum(link[r]) \in Nat
           /\ Flight(s) \in Nat
<1> DEFINE r == Peer(s)
<1>1. r \in Ends
  BY PeerFacts, Zenon
<1> HIDE DEF r
<1>2. /\ n[s] \in Nat /\ charged[s] \in Nat /\ off[s] \in Nat /\ credits[s] \in Nat
      /\ charged[s] <= n[s] /\ off[s] <= n[s]
  BY Zenon DEF TypeInv, Counters
<1>3. /\ pending[r] \in Nat /\ held[r] \in Nat /\ tick[r] \in Nat
      /\ granted[r] \in Nat /\ granted[r] <= RxWindowMax
  BY <1>1, Zenon DEF TypeInv, Counters
<1>4. link[s] \in Seq(Frames) /\ link[r] \in Seq(Frames) /\ inq[r] \in Seq(Frames) /\ cur[r] \in Frames
  BY <1>1, FrameFacts, Zenon DEF TypeInv, Queues
<1>5. /\ ByteSum(link[s]) \in Nat /\ ByteSum(inq[r]) \in Nat
      /\ Bytes(cur[r]) \in Nat /\ GrantSum(link[r]) \in Nat
  BY <1>4, ByteSumFacts, GrantSumFacts, FrameFacts, Zenon
<1>6. Flight(s) \in Nat
  BY <1>5, SMTT(30) DEF Flight, Buffered, r
<1>7. QED
  BY <1>2, <1>3, <1>5, <1>6, ZenonT(30) DEF r

(* The sender's place in the ledger. *)
Pc(s) == IF opc[s] \in {"read", "acquire", "send"} THEN opc[s]
         ELSE IF clean[s] THEN "read" ELSE "stopped"

(* A step is a step of the ledger or leaves it alone, and it loses credit  *)
(* only where the stream is no longer intact.                              *)
LedgerMove(s) == Ledger(s)!Next \/ UNCHANGED Ledger(s)!vars
Accounted(s) == LedgerMove(s) /\ (Intact(s)' => Lost(s)' = Lost(s))

(* Facts about numbers, for the provers that have no arithmetic. *)
LEMMA PlusZero == \A iv \in Nat : iv + 0 = iv
  BY SMTT(30)
LEMMA MinusZero == \A iv \in Nat : iv - 0 = iv
  BY SMTT(30)
LEMMA InRange == \A iv, jv \in Nat : iv # 0 /\ iv <= jv => iv \in 1..jv
  BY SMTT(30)
LEMMA InRangeZero == \A iv, jv \in Nat : iv <= jv => iv \in 0..jv
  BY SMTT(30)
LEMMA Positive == \A iv \in Nat : iv # 0 => iv > 0
  BY SMTT(30)
LEMMA IntPlusZero == \A iv \in Int : iv + 0 = iv
  BY SMTT(30)
LEMMA NatSum == \A iv, jv \in Nat : iv + jv \in Nat
  BY SMTT(30)

(* The bytes the inbound pump is writing to the app. *)
Hand(r) == IF ipc[r] = "write" THEN Bytes(cur[r]) ELSE 0

(* What is in flight when bytes leave the wire, the inbound queue or the   *)
(* pump's hands.                                                           *)
LEMMA FlightLess ==
    ASSUME TypeInv, NEW s \in Ends, NEW r, r = Peer(s), NEW amt \in Nat,
           \/ /\ ByteSum(link[s]) = amt + ByteSum(link'[s]) /\ ByteSum(link'[s]) \in Nat
              /\ UNCHANGED <<ByteSum(inq[r]), Hand(r)>>
           \/ /\ ByteSum(inq[r]) = amt + ByteSum(inq'[r]) /\ ByteSum(inq'[r]) \in Nat
              /\ UNCHANGED <<ByteSum(link[s]), Hand(r)>>
           \/ /\ Hand(r) = amt /\ Hand(r)' = 0
              /\ UNCHANGED <<ByteSum(link[s]), ByteSum(inq[r])>>
    PROVE  Flight(s)' = Flight(s) - amt /\ amt <= Flight(s)
<1>1. /\ ByteSum(link[s]) \in Nat /\ ByteSum(inq[r]) \in Nat
  BY BookTypes, ZenonT(30)
<1>2. Hand(r) \in Nat
  <2>1. Bytes(cur[r]) \in Nat
    BY BookTypes, ZenonT(30)
  <2>2. 0 \in Nat
    BY SMTT(30)
  <2>3. QED
    BY <2>1, <2>2, ZenonT(30) DEF Hand
<1> DEFINE liG == ByteSum(link[s])
           inG == ByteSum(inq[r])
           haG == Hand(r)
           li2G == ByteSum(link'[s])
           in2G == ByteSum(inq'[r])
           flG == Flight(s)
           nxG == Flight(s)'
<1>3. liG \in Nat /\ inG \in Nat /\ haG \in Nat /\ flG = liG + (inG + haG)
  BY <1>1, <1>2, ZenonT(30) DEF Flight, Buffered, Hand
<1>4. \/ li2G \in Nat /\ liG = amt + li2G /\ nxG = li2G + (inG + haG)
      \/ in2G \in Nat /\ inG = amt + in2G /\ nxG = liG + (in2G + haG)
      \/ haG = amt /\ nxG = liG + (inG + 0)
  BY ZenonT(40) DEF Flight, Buffered, Hand
<1> HIDE DEF liG, inG, haG, li2G, in2G, flG, nxG
<1>5. nxG = flG - amt /\ amt <= flG
  <2>1. li2G \in Nat /\ liG = amt + li2G /\ nxG = li2G + (inG + haG)
        => nxG = flG - amt /\ amt <= flG
    BY <1>3, SMTT(30)
  <2>2. in2G \in Nat /\ inG = amt + in2G /\ nxG = liG + (in2G + haG)
        => nxG = flG - amt /\ amt <= flG
    BY <1>3, SMTT(30)
  <2>3. haG = amt /\ nxG = liG + (inG + 0) => nxG = flG - amt /\ amt <= flG
    BY <1>3, SMTT(30)
  <2>4. QED
    BY <1>4, <2>1, <2>2, <2>3, Zenon
<1>6. QED
  BY <1>5, ZenonT(30) DEF flG, nxG

(* What is in flight when bytes go on the wire, or leave one link for one  *)
(* queue.                                                                  *)
LEMMA FlightMore ==
    ASSUME TypeInv, NEW s \in Ends, NEW r, r = Peer(s), NEW amt \in Nat, NEW gone \in Nat,
           UNCHANGED Hand(r),
           \/ /\ ByteSum(link'[s]) = ByteSum(link[s]) + amt /\ gone = 0
              /\ UNCHANGED ByteSum(inq[r])
           \/ /\ ByteSum(link[s]) = gone + ByteSum(link'[s]) /\ ByteSum(link'[s]) \in Nat
              /\ ByteSum(inq'[r]) = ByteSum(inq[r]) + gone /\ amt = 0
    PROVE  Flight(s)' = Flight(s) + amt
<1>1. /\ ByteSum(link[s]) \in Nat /\ ByteSum(inq[r]) \in Nat
  BY BookTypes, ZenonT(30)
<1>2. Hand(r) \in Nat
  <2>1. Bytes(cur[r]) \in Nat
    BY BookTypes, ZenonT(30)
  <2>2. 0 \in Nat
    BY SMTT(30)
  <2>3. QED
    BY <2>1, <2>2, ZenonT(30) DEF Hand
<1> DEFINE liH == ByteSum(link[s])
           inH == ByteSum(inq[r])
           haH == Hand(r)
           li2H == ByteSum(link'[s])
           flH == Flight(s)
           nxH == Flight(s)'
<1>3. liH \in Nat /\ inH \in Nat /\ haH \in Nat /\ flH = liH + (inH + haH)
  BY <1>1, <1>2, ZenonT(30) DEF Flight, Buffered, Hand
<1>4. \/ nxH = (liH + amt) + (inH + haH)
      \/ /\ liH = gone + li2H /\ li2H \in Nat /\ amt = 0
         /\ nxH = li2H + ((inH + gone) + haH)
  BY ZenonT(40) DEF Flight, Buffered, Hand
<1> HIDE DEF liH, inH, haH, li2H, flH, nxH
<1>5. nxH = (liH + amt) + (inH + haH) => nxH = flH + amt
  BY <1>3, SMTT(30)
<1>6. /\ liH = gone + li2H /\ li2H \in Nat /\ amt = 0
      /\ nxH = li2H + ((inH + gone) + haH)
      => nxH = flH + amt
  BY <1>3, SMTT(30)
<1>7. QED
  BY <1>4, <1>5, <1>6, ZenonT(30) DEF flH, nxH

(* What is owed is a natural number. *)
LEMMA OwedNat == ASSUME TypeInv, NEW s \in Ends PROVE Owed(s) \in Nat
<1>1. /\ Flight(s) \in Nat /\ pending[Peer(s)] \in Nat /\ held[Peer(s)] \in Nat
      /\ tick[Peer(s)] \in Nat /\ GrantSum(link[Peer(s)]) \in Nat
  BY BookTypes, ZenonT(30)
<1> DEFINE flF == Flight(s)
           peF == pending[Peer(s)]
           heF == held[Peer(s)]
           tiF == tick[Peer(s)]
           gsF == GrantSum(link[Peer(s)])
           owF == Owed(s)
<1>2. flF \in Nat /\ peF \in Nat /\ heF \in Nat /\ tiF \in Nat /\ gsF \in Nat
  BY <1>1, ZenonT(30)
<1>3. owF = flF + peF + heF + tiF + gsF
  BY ZenonT(30) DEF Owed
<1> HIDE DEF flF, peF, heF, tiF, gsF, owF
<1>4. owF \in Nat
  BY <1>2, <1>3, SMTT(30)
<1>5. QED
  BY <1>4, ZenonT(30) DEF owF

(* What is owed when an amount leaves the flight, the pump's or the        *)
(* ticker's hands, or the grants on the way.                               *)
LEMMA OwedLess ==
    ASSUME TypeInv, NEW s \in Ends, NEW r, r = Peer(s), NEW amt \in Nat,
           \/ /\ Flight(s)' = Flight(s) - amt
              /\ UNCHANGED <<pending[r], held[r], tick[r], GrantSum(link[r])>>
           \/ /\ amt = held[r] /\ held'[r] = 0
              /\ UNCHANGED <<Flight(s), pending[r], tick[r], GrantSum(link[r])>>
           \/ /\ amt = tick[r] /\ tick'[r] = 0
              /\ UNCHANGED <<Flight(s), pending[r], held[r], GrantSum(link[r])>>
           \/ /\ GrantSum(link'[r]) = GrantSum(link[r]) - amt
              /\ UNCHANGED <<Flight(s), pending[r], held[r], tick[r]>>
    PROVE  Owed(s)' = Owed(s) - amt
<1>1. /\ Flight(s) \in Nat /\ pending[Peer(s)] \in Nat /\ held[Peer(s)] \in Nat
      /\ tick[Peer(s)] \in Nat /\ GrantSum(link[Peer(s)]) \in Nat
  BY BookTypes, ZenonT(30)
<1> DEFINE flA == Flight(s)
           peA == pending[Peer(s)]
           heA == held[Peer(s)]
           tiA == tick[Peer(s)]
           gsA == GrantSum(link[Peer(s)])
           owA == Owed(s)
           nxA == Owed(s)'
<1>2. flA \in Nat /\ peA \in Nat /\ heA \in Nat /\ tiA \in Nat /\ gsA \in Nat
  BY <1>1, ZenonT(30)
<1>3. owA = flA + peA + heA + tiA + gsA
  BY ZenonT(30) DEF Owed
<1>4. \/ nxA = (flA - amt) + peA + heA + tiA + gsA
      \/ amt = heA /\ nxA = flA + peA + 0 + tiA + gsA
      \/ amt = tiA /\ nxA = flA + peA + heA + 0 + gsA
      \/ nxA = flA + peA + heA + tiA + (gsA - amt)
  BY ZenonT(40) DEF Owed
<1> HIDE DEF flA, peA, heA, tiA, gsA, owA, nxA
<1>5. nxA = owA - amt
  BY <1>2, <1>3, <1>4, SMTT(30)
<1>6. QED
  BY <1>5, ZenonT(30) DEF owA, nxA

(* What is owed when credit only changes hands: drained or swapped out,    *)
(* put back, or sent as a grant.                                           *)
LEMMA OwedSame ==
    ASSUME TypeInv, NEW s \in Ends, NEW r, r = Peer(s), Flight(s)' = Flight(s),
           \/ /\ held[r] = 0 /\ held'[r] = pending[r] /\ pending'[r] = 0
              /\ UNCHANGED <<tick[r], GrantSum(link[r])>>
           \/ /\ tick[r] = 0 /\ tick'[r] = pending[r] /\ pending'[r] = 0
              /\ UNCHANGED <<held[r], GrantSum(link[r])>>
           \/ /\ pending'[r] = pending[r] + tick[r] /\ tick'[r] = 0
              /\ UNCHANGED <<held[r], GrantSum(link[r])>>
           \/ /\ GrantSum(link'[r]) = GrantSum(link[r]) + tick[r] /\ tick'[r] = 0
              /\ UNCHANGED <<pending[r], held[r]>>
           \/ /\ GrantSum(link'[r]) = GrantSum(link[r]) + held[r] /\ held'[r] = 0
              /\ UNCHANGED <<pending[r], tick[r]>>
    PROVE  Owed(s)' = Owed(s)
<1>1. /\ Flight(s) \in Nat /\ pending[Peer(s)] \in Nat /\ held[Peer(s)] \in Nat
      /\ tick[Peer(s)] \in Nat /\ GrantSum(link[Peer(s)]) \in Nat
  BY BookTypes, ZenonT(30)
<1> DEFINE flB == Flight(s)
           peB == pending[Peer(s)]
           heB == held[Peer(s)]
           tiB == tick[Peer(s)]
           gsB == GrantSum(link[Peer(s)])
           owB == Owed(s)
           nxB == Owed(s)'
<1>2. flB \in Nat /\ peB \in Nat /\ heB \in Nat /\ tiB \in Nat /\ gsB \in Nat
  BY <1>1, ZenonT(30)
<1>3. owB = flB + peB + heB + tiB + gsB
  BY ZenonT(30) DEF Owed
<1>4. \/ heB = 0 /\ nxB = flB + 0 + peB + tiB + gsB
      \/ tiB = 0 /\ nxB = flB + 0 + heB + peB + gsB
      \/ nxB = flB + (peB + tiB) + heB + 0 + gsB
      \/ nxB = flB + peB + heB + 0 + (gsB + tiB)
      \/ nxB = flB + peB + 0 + tiB + (gsB + heB)
  BY ZenonT(40) DEF Owed
<1> HIDE DEF flB, peB, heB, tiB, gsB, owB, nxB
<1>5. nxB = owB
  BY <1>2, <1>3, <1>4, SMTT(30)
<1>6. QED
  BY <1>5, ZenonT(30) DEF owB, nxB

(* What is owed when a bonus comes into the pump's empty hands, or bytes   *)
(* go into flight.                                                         *)
LEMMA OwedMore ==
    ASSUME TypeInv, NEW s \in Ends, NEW r, r = Peer(s), NEW amt \in Nat,
           UNCHANGED <<pending[r], tick[r], GrantSum(link[r])>>,
           \/ held[r] = 0 /\ held'[r] = amt /\ Flight(s)' = Flight(s)
           \/ held'[r] = held[r] /\ Flight(s)' = Flight(s) + amt
    PROVE  Owed(s)' = Owed(s) + amt
<1>1. /\ Flight(s) \in Nat /\ pending[Peer(s)] \in Nat /\ held[Peer(s)] \in Nat
      /\ tick[Peer(s)] \in Nat /\ GrantSum(link[Peer(s)]) \in Nat
  BY BookTypes, ZenonT(30)
<1> DEFINE flC == Flight(s)
           peC == pending[Peer(s)]
           heC == held[Peer(s)]
           tiC == tick[Peer(s)]
           gsC == GrantSum(link[Peer(s)])
           owC == Owed(s)
           nxC == Owed(s)'
<1>2. flC \in Nat /\ peC \in Nat /\ heC \in Nat /\ tiC \in Nat /\ gsC \in Nat
  BY <1>1, ZenonT(30)
<1>3. owC = flC + peC + heC + tiC + gsC
  BY ZenonT(30) DEF Owed
<1>4. \/ heC = 0 /\ nxC = flC + peC + amt + tiC + gsC
      \/ nxC = (flC + amt) + peC + heC + tiC + gsC
  BY ZenonT(40) DEF Owed
<1> HIDE DEF flC, peC, heC, tiC, gsC, owC, nxC
<1>5. nxC = owC + amt
  BY <1>2, <1>3, <1>4, SMTT(30)
<1>6. QED
  BY <1>5, ZenonT(30) DEF owC, nxC

(* What is owed when the pump has written bytes to the app. *)
LEMMA OwedWritten ==
    ASSUME TypeInv, NEW s \in Ends, NEW r, r = Peer(s), NEW amt \in Nat,
           Flight(s)' = Flight(s) - amt, pending'[r] = pending[r] + amt,
           UNCHANGED <<held[r], tick[r], GrantSum(link[r])>>
    PROVE  Owed(s)' = Owed(s)
<1>1. /\ Flight(s) \in Nat /\ pending[Peer(s)] \in Nat /\ held[Peer(s)] \in Nat
      /\ tick[Peer(s)] \in Nat /\ GrantSum(link[Peer(s)]) \in Nat
  BY BookTypes, ZenonT(30)
<1> DEFINE flI == Flight(s)
           peI == pending[Peer(s)]
           heI == held[Peer(s)]
           tiI == tick[Peer(s)]
           gsI == GrantSum(link[Peer(s)])
           owI == Owed(s)
           nxI == Owed(s)'
<1>2. flI \in Nat /\ peI \in Nat /\ heI \in Nat /\ tiI \in Nat /\ gsI \in Nat
  BY <1>1, ZenonT(30)
<1>3. owI = flI + peI + heI + tiI + gsI
  BY ZenonT(30) DEF Owed
<1>4. nxI = (flI - amt) + (peI + amt) + heI + tiI + gsI
  BY ZenonT(40) DEF Owed
<1> HIDE DEF flI, peI, heI, tiI, gsI, owI, nxI
<1>5. nxI = owI
  BY <1>2, <1>3, <1>4, SMTT(30)
<1>6. QED
  BY <1>5, ZenonT(30) DEF owI, nxI

(* What is owed when the pump ends: the queue goes, the credit in its      *)
(* hands goes too, is put back, or is sent.                                *)
LEMMA OwedEnd ==
    ASSUME TypeInv, NEW s \in Ends, NEW r, r = Peer(s), NEW amt \in Nat, NEW gone \in Nat,
           Flight(s)' = Flight(s) - amt, held'[r] = 0, tick'[r] = tick[r],
           \/ /\ UNCHANGED <<pending[r], GrantSum(link[r])>>
              /\ gone = amt + held[r]
           \/ /\ pending'[r] = pending[r] + held[r] /\ UNCHANGED GrantSum(link[r])
              /\ gone = amt
           \/ /\ GrantSum(link'[r]) = GrantSum(link[r]) + held[r] /\ UNCHANGED pending[r]
              /\ gone = amt
    PROVE  Owed(s)' = Owed(s) - gone
<1>1. /\ Flight(s) \in Nat /\ pending[Peer(s)] \in Nat /\ held[Peer(s)] \in Nat
      /\ tick[Peer(s)] \in Nat /\ GrantSum(link[Peer(s)]) \in Nat
  BY BookTypes, ZenonT(30)
<1> DEFINE flJ == Flight(s)
           peJ == pending[Peer(s)]
           heJ == held[Peer(s)]
           tiJ == tick[Peer(s)]
           gsJ == GrantSum(link[Peer(s)])
           owJ == Owed(s)
           nxJ == Owed(s)'
<1>2. flJ \in Nat /\ peJ \in Nat /\ heJ \in Nat /\ tiJ \in Nat /\ gsJ \in Nat
  BY <1>1, ZenonT(30)
<1>3. owJ = flJ + peJ + heJ + tiJ + gsJ
  BY ZenonT(30) DEF Owed
<1>4. \/ gone = amt + heJ /\ nxJ = (flJ - amt) + peJ + 0 + tiJ + gsJ
      \/ gone = amt /\ nxJ = (flJ - amt) + (peJ + heJ) + 0 + tiJ + gsJ
      \/ gone = amt /\ nxJ = (flJ - amt) + peJ + 0 + tiJ + (gsJ + heJ)
  BY ZenonT(40) DEF Owed
<1> HIDE DEF flJ, peJ, heJ, tiJ, gsJ, owJ, nxJ
<1>5. nxJ = owJ - gone
  BY <1>2, <1>3, <1>4, SMTT(30)
<1>6. QED
  BY <1>5, ZenonT(30) DEF owJ, nxJ

(* What is lost when a frame is sent: its bytes if they do not go into     *)
(* flight, and nothing otherwise.                                          *)
LEMMA LostSent ==
    ASSUME TypeInv, NEW s \in Ends, NEW amt \in Nat, NEW gone \in Nat,
           UNCHANGED <<charged[s], credits[s], granted[Peer(s)]>>, off'[s] = off[s] + amt,
           \/ gone = amt /\ Owed(s)' = Owed(s)
           \/ gone = 0 /\ Owed(s)' = Owed(s) + amt
    PROVE  Lost(s)' = Lost(s) + gone /\ Lost(s) \in Int
<1>1. /\ charged[s] \in Nat /\ off[s] \in Nat /\ credits[s] \in Nat /\ granted[Peer(s)] \in Nat
      /\ Owed(s) \in Nat
  <2>1. /\ charged[s] \in Nat /\ off[s] \in Nat /\ credits[s] \in Nat /\ granted[Peer(s)] \in Nat
    BY BookTypes, ZenonT(30)
  <2>2. QED
    BY <2>1, OwedNat, ZenonT(30)
<1> DEFINE grK == granted[Peer(s)]
           chK == charged[s]
           ofK == off[s]
           crK == credits[s]
           owK == Owed(s)
           loK == Lost(s)
           nxK == Lost(s)'
<1>3. grK \in Nat /\ chK \in Nat /\ ofK \in Nat /\ crK \in Nat /\ owK \in Nat
  BY <1>1, ZenonT(30)
<1>4. loK = grK + ofK - chK - crK - owK
  BY ZenonT(30) DEF Lost
<1>5. \/ gone = amt /\ nxK = grK + (ofK + amt) - chK - crK - owK
      \/ gone = 0 /\ nxK = grK + (ofK + amt) - chK - crK - (owK + amt)
  BY ZenonT(40) DEF Lost
<1> HIDE DEF grK, chK, ofK, crK, owK, loK, nxK
<1>6. nxK = loK + gone /\ loK \in Int
  BY <1>3, <1>4, <1>5, SMTT(30)
<1>7. QED
  BY <1>6, ZenonT(30) DEF loK, nxK

(* A step that leaves every entry of the books alone. *)
LEMMA Quiet ==
    ASSUME NEW s \in Ends,
           UNCHANGED <<Pc(s), n[s], charged[s], off[s], credits[s], Flight(s),
                       pending[Peer(s)], held[Peer(s)], tick[Peer(s)], granted[Peer(s)],
                       GrantSum(link[Peer(s)])>>
    PROVE  Accounted(s)
<1>1. Lost(s)' = Lost(s)
  BY ZenonT(30) DEF Lost, Owed
<1>2. UNCHANGED Ledger(s)!vars
  BY <1>1, ZenonT(30) DEF Ledger!vars, Pc, Lost
<1>3. QED
  BY <1>1, <1>2, ZenonT(30) DEF Accounted, LedgerMove

-----------------------------------------------------------------------------
(* outbound_pump reads a chunk: the ledger's Read. *)
LEMMA ReadStep ==
    ASSUME TypeInv, SendLoop, NEW s \in Ends,
           OutRead(s)
    PROVE  Accounted(s)
<1> DEFINE r == Peer(s)
<1>t. /\ n[s] \in Nat /\ charged[s] \in Nat /\ off[s] \in Nat /\ credits[s] \in Nat
      /\ charged[s] <= n[s] /\ off[s] <= n[s]
      /\ pending[r] \in Nat /\ held[r] \in Nat /\ tick[r] \in Nat
      /\ granted[r] \in Nat /\ Flight(s) \in Nat /\ GrantSum(link[r]) \in Nat
  BY BookTypes, ZenonT(30)
<1>e. /\ Flight(s)' = Flight(s)
      /\ UNCHANGED <<pending[r], held[r], tick[r], granted[r], GrantSum(link[r])>>
  BY DEF OutRead, OutUnchanged, inVars, Flight, Buffered
<1>p. Places /\ Counters /\ Flags
  BY ZenonT(30) DEF TypeInv
<1> DEFINE k == Smaller(ChunkMax, written[s] - taken[s])
<1>1. k \in 1..ChunkMax
  <2>1. written[s] - taken[s] \in Nat /\ written[s] - taken[s] > 0 /\ ChunkMax \in Nat /\ ChunkMax > 0
    BY StreamAssumption, SMTT(30) DEF OutRead, TypeInv, Counters
  <2>2. QED
    BY <2>1, SmallerFacts, SMTT(30)
<1>2. n'[s] = k /\ charged'[s] = 0 /\ off'[s] = 0 /\ opc'[s] = "acquire" /\ credits' = credits
  BY Zenon DEF OutRead, TypeInv, Counters, Places
<1>3. opc[s] = "read" /\ charged[s] = off[s]
  BY Zenon DEF OutRead, SendLoop
<1> HIDE DEF k, r
<1>4. Lost(s)' = Lost(s)
  BY <1>e, <1>t, <1>2, <1>3, SMTT(30) DEF Lost, Owed, r
<1>5. Ledger(s)!Read
  BY <1>e, <1>1, <1>2, <1>3, <1>4, ZenonT(30) DEF Ledger!Read, Lost, r, Ledger!receiver
<1>6. QED
  BY <1>4, <1>5, ZenonT(30) DEF Accounted, LedgerMove, Ledger!Next

(* outbound_pump reads EOF: the ledger stays put. *)
LEMMA EofStep ==
    ASSUME TypeInv, SendLoop, NEW s \in Ends,
           OutEof(s)
    PROVE  Accounted(s)
<1> DEFINE r == Peer(s)
<1>e. /\ Flight(s)' = Flight(s)
      /\ UNCHANGED <<pending[r], held[r], tick[r], granted[r], GrantSum(link[r])>>
  BY ZenonT(30) DEF OutEof, OutUnchanged, inVars, Flight, Buffered
<1>p. Places /\ Counters /\ Flags
  BY ZenonT(30) DEF TypeInv
<1>1. clean[s] /\ opc[s] = "read" /\ opc'[s] = "end"
  BY <1>p, ZenonT(30) DEF OutEof, SendLoop, Ended, Places
<1>2. UNCHANGED <<clean, n, charged, off, credits>>
  BY ZenonT(30) DEF OutEof
<1>3. Pc(s)' = Pc(s)
  BY <1>1, <1>2, ZenonT(30) DEF Pc
<1>4. QED
  BY <1>e, <1>2, <1>3, Quiet, ZenonT(30)

(* acquire_credits, for all or a part of the charge: the ledger's Acquire. *)
LEMMA AcquireStep ==
    ASSUME TypeInv, NEW s \in Ends,
           OutAcquire(s)
    PROVE  Accounted(s)
<1> DEFINE r == Peer(s)
<1>t. /\ n[s] \in Nat /\ charged[s] \in Nat /\ off[s] \in Nat /\ credits[s] \in Nat
      /\ charged[s] <= n[s] /\ off[s] <= n[s]
      /\ pending[r] \in Nat /\ held[r] \in Nat /\ tick[r] \in Nat
      /\ granted[r] \in Nat /\ Flight(s) \in Nat /\ GrantSum(link[r]) \in Nat
  BY BookTypes, ZenonT(30)
<1>e. /\ Flight(s)' = Flight(s)
      /\ UNCHANGED <<pending[r], held[r], tick[r], granted[r], GrantSum(link[r])>>
  BY ZenonT(30) DEF OutAcquire, OutUnchanged, inVars, Flight, Buffered
<1>p. Places /\ Counters /\ Flags
  BY Zenon DEF TypeInv
<1> DEFINE k == Smaller(credits[s], n[s] - charged[s])
<1>1. k \in Nat /\ k <= credits[s]
  <2>1. n[s] - charged[s] \in Nat
    BY <1>t, SMTT(30)
  <2>2. QED
    BY <1>t, <2>1, SmallerFacts, ZenonT(30)
<1>2. credits'[s] = credits[s] - k /\ charged'[s] = charged[s] + k /\ UNCHANGED <<n, off>>
  BY <1>p, ZenonT(30) DEF OutAcquire, Counters
<1>3. /\ opc[s] = "acquire" /\ credits[s] > 0
      /\ opc'[s] = IF off[s] < n[s] THEN "send" ELSE NextOpc(s, charged[s] + k, off[s])
  BY <1>p, ZenonT(30) DEF OutAcquire, CanAcquire, Places
<1>4. opc'[s] \in {"read", "acquire", "send"}
  BY <1>3, ZenonT(30) DEF NextOpc
<1>5. Lost(s)' = Lost(s)
  <2> HIDE DEF k, r
  <2> QED
    BY <1>e, <1>t, <1>1, <1>2, SMTT(30) DEF Lost, Owed, r
<1>6. k = Ledger(s)!Take
  BY Zenon DEF Ledger!Take, Smaller, Ledger!Smaller
<1> HIDE DEF k, r
<1>7. Ledger(s)!Acquire
  BY <1>e, <1>2, <1>3, <1>4, <1>5, <1>6, ZenonT(30)
     DEF Ledger!Acquire, Ledger!CanAcquire, Ledger!NextPc, NextOpc, Lost, r, Ledger!receiver
<1>8. QED
  BY <1>5, <1>7, ZenonT(30) DEF Accounted, LedgerMove, Ledger!Next

(* acquire_credits or wait_send fails: the ledger's Stop. *)
LEMMA FailStep ==
    ASSUME TypeInv, NEW s \in Ends,
           OutFail(s)
    PROVE  Accounted(s)
<1> DEFINE r == Peer(s)
<1>e. /\ Flight(s)' = Flight(s)
      /\ UNCHANGED <<pending[r], held[r], tick[r], granted[r], GrantSum(link[r])>>
  BY ZenonT(30) DEF OutFail, OutUnchanged, inVars, Flight, Buffered
<1>p. Places /\ Counters /\ Flags
  BY Zenon DEF TypeInv
<1>1. opc[s] \in {"acquire", "send"} /\ opc'[s] = "end" /\ clean'[s] = FALSE
  BY <1>p, ZenonT(30) DEF OutFail, Places, Flags
<1>2. UNCHANGED <<n, charged, off, credits>>
  BY ZenonT(30) DEF OutFail
<1>3. Lost(s)' = Lost(s)
  BY <1>e, <1>2, ZenonT(30) DEF Lost, Owed
<1> HIDE DEF r
<1>4. Ledger(s)!Stop
  BY <1>e, <1>1, <1>2, <1>3, ZenonT(30) DEF Ledger!Stop, Lost, r, Ledger!receiver
<1>5. QED
  BY <1>3, <1>4, ZenonT(30) DEF Accounted, LedgerMove, Ledger!Next

(* outbound_pump sends a frame: the ledger's Send, or SendLost on a cut    *)
(* connection.                                                             *)
LEMMA SendStep ==
    ASSUME TypeInv, NEW s \in Ends, OutSend(s)
    PROVE  Accounted(s)
<1> DEFINE r == Peer(s)
           k == Smaller(MaxData, n[s] - off[s])
<1>0. r \in Ends /\ r # s
  BY PeerFacts, ZenonT(30)
<1>t. /\ n[s] \in Nat /\ charged[s] \in Nat /\ off[s] \in Nat /\ credits[s] \in Nat
      /\ charged[s] <= n[s] /\ off[s] <= n[s]
      /\ pending[r] \in Nat /\ held[r] \in Nat /\ tick[r] \in Nat
      /\ granted[r] \in Nat /\ Flight(s) \in Nat /\ GrantSum(link[r]) \in Nat
      /\ ByteSum(link[s]) \in Nat /\ ByteSum(inq[r]) \in Nat /\ Bytes(cur[r]) \in Nat
  BY BookTypes, ZenonT(30)
<1>p. Places /\ Counters /\ Queues
  BY Zenon DEF TypeInv
<1>1. k \in Nat
  <2>1. n[s] - off[s] \in Nat /\ MaxData \in Nat
    BY <1>t, StreamAssumption, SMTT(30)
  <2>2. QED
    BY <2>1, SmallerFacts, ZenonT(30)
<1> DEFINE f == Piece(s, k)
           pos == taken[s] - n[s] + off[s]
<1>2. f \in Frames /\ Bytes(f) = k /\ Grant(f) = 0
  <2>1. pos \in Nat
    BY <1>p DEF Counters
  <2>2. f = Data(pos, pos + k)
    BY Zenon DEF Piece
  <2> HIDE DEF pos, k, f
  <2>3. QED
    BY <1>1, <2>1, <2>2, FrameFacts, SMTT(30) DEF Bytes, Grant, Data
<1>3. /\ opc[s] = "send" /\ off'[s] = off[s] + k /\ link' = Sent(s, f)
      /\ opc'[s] = NextOpc(s, charged[s], off[s] + k)
      /\ UNCHANGED <<n, charged, credits>>
  BY <1>p, Zenon DEF OutSend, Counters, Places
<1>4. opc'[s] \in {"read", "acquire", "send"}
  BY <1>3, ZenonT(30) DEF NextOpc
<1>5. UNCHANGED <<pending, held, tick, granted, inq, ipc, cur, cut>>
  BY ZenonT(30) DEF OutSend, OutUnchanged, inVars, sesVars
<1>6. k = Ledger(s)!Smaller(MaxData, n[s] - off[s])
  BY ZenonT(30) DEF Smaller, Ledger!Smaller
<1> HIDE DEF r, k, f
<1>7. link'[r] = link[r]
  BY <1>p, <1>0, <1>2, <1>3, SentSums, ZenonT(30)
<1>8. CASE cut
  <2>1. link'[s] = link[s]
    BY <1>p, <1>2, <1>3, <1>8, SentSums, ZenonT(30)
  <2>2. Flight(s)' = Flight(s)
    BY <1>5, <2>1, ZenonT(30) DEF Flight, Buffered
  <2>3. Lost(s)' = Lost(s) + k
    <3>1. Owed(s)' = Owed(s)
      BY <1>5, <1>7, <2>2, ZenonT(30) DEF Owed, r
    <3>2. QED
      BY <1>1, <1>3, <1>5, <3>1, LostSent, ZenonT(30) DEF r
  <2>4. Ledger(s)!SendLost
    BY <1>3, <1>4, <1>5, <1>6, <1>7, <2>2, <2>3, Zenon
       DEF Ledger!SendLost, Ledger!NextPc, NextOpc, Lost, r, Ledger!receiver
  <2>5. ~Intact(s)'
    BY <1>5, <1>8, ZenonT(30) DEF Intact
  <2>6. QED
    BY <2>4, <2>5, ZenonT(30) DEF Accounted, LedgerMove, Ledger!Next
<1>9. CASE ~cut
  <2>1. ByteSum(link'[s]) = ByteSum(link[s]) + k
    BY <1>p, <1>2, <1>3, <1>9, SentSums, ZenonT(30)
  <2>2. Flight(s)' = Flight(s) + k
    <3>1. UNCHANGED <<Hand(r), ByteSum(inq[r])>>
      BY <1>5, ZenonT(30) DEF Hand
    <3>2. 0 \in Nat
      BY SMTT(30)
    <3>3. QED
      BY <1>1, <2>1, <3>1, <3>2, FlightMore, ZenonT(30) DEF r
  <2>3. Lost(s)' = Lost(s)
    <3>1. Owed(s)' = Owed(s) + k
      BY <1>1, <1>5, <1>7, <2>2, OwedMore, ZenonT(30) DEF r
    <3>2. 0 \in Nat
      BY SMTT(30)
    <3>3. Lost(s)' = Lost(s) + 0 /\ Lost(s) \in Int
      BY <1>1, <1>3, <1>5, <3>1, <3>2, LostSent, ZenonT(30) DEF r
    <3>4. QED
      BY <3>3, IntPlusZero, ZenonT(30)
  <2>4. Ledger(s)!Send
    BY <1>3, <1>4, <1>5, <1>6, <1>7, <2>2, <2>3, ZenonT(30)
       DEF Ledger!Send, Ledger!NextPc, NextOpc, Lost, r, Ledger!receiver
  <2>5. QED
    BY <2>3, <2>4, ZenonT(30) DEF Accounted, LedgerMove, Ledger!Next
<1>10. QED
  BY <1>8, <1>9, ZenonT(30)

(* A frame without payload, or without a grant, does not change that sum. *)
LEMMA Weightless ==
    ASSUME Queues, NEW e \in Ends, NEW f \in Frames, NEW x \in Ends,
           link' = link \/ link' = Sent(e, f)
    PROVE  /\ x # e => link'[x] = link[x]
           /\ Bytes(f) = 0 => ByteSum(link'[x]) = ByteSum(link[x])
           /\ Grant(f) = 0 => GrantSum(link'[x]) = GrantSum(link[x])
<1>1. ByteSum(link[x]) \in Nat /\ GrantSum(link[x]) \in Nat
  BY ByteSumFacts, GrantSumFacts, ZenonT(30) DEF Queues
<1>2. CASE link' = Sent(e, f) /\ ~cut /\ x = e
  BY <1>1, <1>2, SentSums, SMTT(30)
<1>3. CASE link' = Sent(e, f) /\ (cut \/ x # e)
  BY <1>3, SentSums, ZenonT(30)
<1>4. QED
  BY <1>2, <1>3, ZenonT(30)

(* Only DATA has payload and only WINDOW grants. *)
LEMMA FrameWeights ==
    /\ \A f \in {Fin, Close, Goaway, Abort} : f \in Frames /\ Bytes(f) = 0 /\ Grant(f) = 0
    /\ \A d \in Nat : Window(d) \in Frames /\ Bytes(Window(d)) = 0 /\ Grant(Window(d)) = d
    /\ \A f \in Frames : f.t # "DATA" => Bytes(f) = 0
    /\ \A f \in Frames : f.t # "WINDOW" => Grant(f) = 0
<1>1. Fin.t = "FIN" /\ Close.t = "CLOSE" /\ Goaway.t = "GOAWAY" /\ Abort.t = "ABORT"
  BY ZenonT(30) DEF Fin, Close, Goaway, Abort
<1>2. \A d \in Nat : Window(d).t = "WINDOW" /\ Window(d).delta = d
  BY ZenonT(30) DEF Window
<1>3. QED
  BY <1>1, <1>2, FrameFacts DEF Bytes, Grant

-----------------------------------------------------------------------------
(* What the app does, and the cut itself, leave the books alone. *)
LEMMA AppPassive ==
    ASSUME TypeInv, NEW s \in Ends, NEW x \in Ends,
           AppWrite(x) \/ AppShutdown(x) \/ AppDrop(x) \/ Cut
    PROVE  Accounted(s)
<1>1. UNCHANGED <<opc, clean, n, charged, off, credits, ipc, cur, pending, held, tick, granted, link>>
  BY Zenon DEF AppWrite, AppShutdown, AppDrop, Cut, outVars, inVars
<1>2. inq' = inq \/ inq' = AbortTried(x)
  BY ZenonT(30) DEF AppWrite, AppShutdown, AppDrop, Cut, TryRetire
<1>3. ByteSum(inq'[Peer(s)]) = ByteSum(inq[Peer(s)])
  BY <1>2, PeerFacts, AbortSums, SMTT(30) DEF TypeInv
<1>4. Flight(s)' = Flight(s)
  BY <1>1, <1>3, Zenon DEF Flight, Buffered
<1>5. Pc(s)' = Pc(s)
  BY <1>1, ZenonT(30) DEF Pc
<1>6. QED
  BY <1>1, <1>4, <1>5, Quiet, ZenonT(30)

(* So do FIN, CLOSE and try_retire at the end of outbound_pump. *)
LEMMA SenderEndStep ==
    ASSUME TypeInv, NEW s \in Ends, OutEnd(s) \/ OutRetire(s)
    PROVE  Accounted(s)
<1>0. Peer(s) \in Ends /\ Peer(s) # s /\ Queues /\ Places
  BY PeerFacts, ZenonT(30) DEF TypeInv
<1>1. UNCHANGED <<clean, n, charged, off, credits, ipc, cur, pending, held, tick, granted>>
  BY Zenon DEF OutEnd, OutRetire, OutUnchanged, inVars
<1>2. Pc(s)' = Pc(s)
  BY <1>0, <1>1, Zenon DEF Pc, OutEnd, OutRetire, Places
<1>3. /\ inq'[Peer(s)] = inq[Peer(s)]
      /\ link' = link \/ link' = Sent(s, LastFrame(s))
  BY <1>0, ZenonT(30) DEF OutEnd, OutRetire, TryRetire, AbortTried, Queues
<1>4. LastFrame(s) \in Frames /\ Bytes(LastFrame(s)) = 0
  BY FrameWeights, ZenonT(30) DEF LastFrame
<1>5. ByteSum(link'[s]) = ByteSum(link[s]) /\ link'[Peer(s)] = link[Peer(s)]
  BY <1>0, <1>3, <1>4, Weightless, ZenonT(30)
<1>6. Flight(s)' = Flight(s)
  BY <1>1, <1>3, <1>5, ZenonT(30) DEF Flight, Buffered
<1>7. QED
  BY <1>1, <1>2, <1>5, <1>6, Quiet, ZenonT(30)

(* The outbound pump of the receiving end does not touch this direction. *)
LEMMA ReceiverSends ==
    ASSUME TypeInv, NEW s \in Ends, NEW r \in Ends, r = Peer(s),
           \/ OutRead(r) \/ OutEof(r) \/ OutAcquire(r) \/ OutFail(r)
           \/ OutSend(r) \/ OutEnd(r) \/ OutRetire(r)
    PROVE  Accounted(s)
<1>0. s # r /\ Queues /\ Places /\ Counters /\ Flags
  BY PeerFacts, ZenonT(30) DEF TypeInv
<1>1. UNCHANGED <<ipc, cur, pending, held, tick, granted>>
  BY Zenon DEF OutRead, OutEof, OutAcquire, OutFail, OutSend, OutEnd, OutRetire, OutUnchanged, inVars
<1>2. UNCHANGED <<opc[s], clean[s], n[s], charged[s], off[s], credits[s]>>
  <2>1. CASE OutRead(r) \/ OutSend(r)
    BY <1>0, <2>1, ZenonT(30) DEF OutRead, OutSend, Counters, Places
  <2>2. CASE OutAcquire(r)
    BY <1>0, <2>2, Zenon DEF OutAcquire, Counters, Places
  <2>3. CASE OutEof(r) \/ OutFail(r) \/ OutEnd(r) \/ OutRetire(r)
    BY <1>0, <2>3, Zenon DEF OutEof, OutFail, OutEnd, OutRetire, Places, Flags
  <2>4. QED
    BY <2>1, <2>2, <2>3, ZenonT(30)
<1>3. Pc(s)' = Pc(s)
  BY <1>2, Zenon DEF Pc
<1>4. inq' = inq \/ inq' = AbortTried(r)
  BY ZenonT(30) DEF OutRead, OutEof, OutAcquire, OutFail, OutSend, OutEnd, OutRetire, TryRetire
<1>5. ByteSum(inq'[r]) = ByteSum(inq[r])
  BY <1>0, <1>4, AbortSums, ZenonT(30)
<1>6. \E f \in Frames : Grant(f) = 0 /\ (link' = link \/ link' = Sent(r, f))
  <2>1. CASE OutSend(r)
    <3> DEFINE k == Smaller(MaxData, n[r] - off[r])
               pos == taken[r] - n[r] + off[r]
    <3>1. n[r] - off[r] \in Nat /\ MaxData \in Nat /\ pos \in Nat
      BY <1>0, StreamAssumption DEF Counters
    <3>2. k \in Nat
      BY <3>1, SmallerFacts, Zenon
    <3>3. link' = Sent(r, Piece(r, k)) /\ Piece(r, k) = Data(pos, pos + k)
      BY <2>1, ZenonT(30) DEF OutSend, Piece
    <3> HIDE DEF k, pos
    <3>4. Data(pos, pos + k) \in Frames /\ Data(pos, pos + k).t = "DATA"
      BY <3>1, <3>2, FrameFacts, SMTT(30) DEF Data
    <3>5. QED
      BY <3>3, <3>4, FrameWeights, ZenonT(30)
  <2>2. CASE OutEnd(r)
    <3>1. link' = Sent(r, LastFrame(r)) /\ LastFrame(r) \in {Fin, Close}
      BY <2>2, ZenonT(30) DEF OutEnd, LastFrame
    <3>2. QED
      BY <3>1, FrameWeights, Zenon
  <2>3. CASE OutRead(r) \/ OutEof(r) \/ OutAcquire(r) \/ OutFail(r) \/ OutRetire(r)
    <3>1. link' = link
      BY <2>3, Zenon DEF OutRead, OutEof, OutAcquire, OutFail, OutRetire
    <3>2. QED
      BY <3>1, FrameWeights, ZenonT(30)
  <2>4. QED
    BY <2>1, <2>2, <2>3, ZenonT(30)
<1>7. link'[s] = link[s] /\ GrantSum(link'[r]) = GrantSum(link[r])
  BY <1>0, <1>6, Weightless, ZenonT(30)
<1>8. Flight(s)' = Flight(s)
  BY <1>1, <1>5, <1>7, ZenonT(30) DEF Flight, Buffered
<1>9. QED
  BY <1>1, <1>2, <1>3, <1>7, <1>8, Quiet, ZenonT(30)

(* Nor does the inbound pump or the ticker of the sending end. *)
LEMMA SenderReceives ==
    ASSUME TypeInv, NEW s \in Ends,
           \/ InData(s) \/ InWrite(s) \/ InDrain(s) \/ InWindow(s) \/ InGrow(s) \/ InNoGrow(s)
           \/ InEnd(s) \/ InDecodeFail(s) \/ InSwap(s) \/ InFlush(s) \/ TickSwap(s) \/ TickSend(s)
    PROVE  Accounted(s)
<1> DEFINE r == Peer(s)
<1>0. r \in Ends /\ s # r /\ Queues /\ Places /\ Counters
  BY PeerFacts, ZenonT(30) DEF TypeInv
<1>1. UNCHANGED <<opc, clean, n, charged, off, credits>>
  BY Zenon DEF InData, InWrite, InDrain, InWindow, InGrow, InNoGrow, InEnd, InDecodeFail, InSwap,
         InFlush, TickSwap, TickSend, InUnchanged, outVars
<1>2. Pc(s)' = Pc(s)
  BY <1>1, Zenon DEF Pc
<1> HIDE DEF r
<1>3. UNCHANGED <<ipc[r], cur[r], inq[r], granted[r], held[r], pending[r], tick[r]>>
  <2>1. CASE InData(s)
    BY <1>0, <2>1, ZenonT(30) DEF InData, InUnchanged, Counters, Places, Queues
  <2>7. CASE InDrain(s)
    BY <1>0, <2>7, ZenonT(30) DEF InDrain, InUnchanged, Counters, Places
  <2>8. CASE InWindow(s)
    BY <1>0, <2>8, Zenon DEF InWindow, InUnchanged, Counters, Places
  <2>6. CASE InGrow(s) \/ InNoGrow(s)
    BY <1>0, <2>6, Zenon DEF InGrow, InNoGrow, InUnchanged, Counters, Places
  <2>5. CASE InWrite(s)
    BY <1>0, <2>5, Zenon DEF InWrite, InUnchanged, Counters, Places
  <2>2. CASE InEnd(s) \/ InDecodeFail(s)
    BY <1>0, <2>2, Zenon DEF InEnd, InDecodeFail, InUnchanged, Places, Queues
  <2>9. CASE InSwap(s)
    BY <1>0, <2>9, Zenon DEF InSwap, InUnchanged, Counters, Places
  <2>10. CASE InFlush(s)
    BY <1>0, <2>10, Zenon DEF InFlush, InUnchanged, Counters, Places, Queues
  <2>3. CASE TickSwap(s) \/ TickSend(s)
    BY <1>0, <2>3, Zenon DEF TickSwap, TickSend, inVars, Counters, Queues
  <2>4. QED
    BY <2>1, <2>2, <2>3, <2>5, <2>6, <2>7, <2>8, <2>9, <2>10, ZenonT(30)
<1>4. \E f \in Frames : Bytes(f) = 0 /\ (link' = link \/ link' = Sent(s, f))
  <2>0. held[s] \in Nat /\ tick[s] \in Nat
    BY <1>0, ZenonT(30) DEF Counters
  <2>1. \/ link' = link \/ link' = Sent(s, Close) \/ link' = Sent(s, Window(held[s]))
        \/ link' = Sent(s, Window(tick[s]))
    BY Zenon DEF InData, InWrite, InDrain, InWindow, InGrow, InNoGrow, InEnd, InDecodeFail, InSwap,
           InFlush, TickSwap, TickSend
  <2>2. QED
    BY <2>0, <2>1, FrameWeights, Zenon
<1>5. ByteSum(link'[s]) = ByteSum(link[s]) /\ link'[r] = link[r]
  BY <1>0, <1>4, Weightless, ZenonT(30)
<1>6. Flight(s)' = Flight(s)
  BY <1>3, <1>5, ZenonT(30) DEF Flight, Buffered, r
<1>7. QED
  BY <1>1, <1>2, <1>3, <1>5, <1>6, Quiet, ZenonT(30) DEF r

-----------------------------------------------------------------------------
(* The sender's half of the books. *)
SenderSame(s) == UNCHANGED <<opc[s], clean[s], n[s], charged[s], off[s]>>

(* It is the sender's half of the ledger. *)
LEMMA SenderKept ==
    ASSUME NEW s \in Ends, SenderSame(s)
    PROVE  UNCHANGED Ledger(s)!sender /\ Pc(s)' = Pc(s)
BY ZenonT(30) DEF SenderSame, Ledger!sender, Pc

(* Credit that leaves what is owed and goes nowhere is lost. *)
LEMMA LostMore ==
    ASSUME TypeInv, NEW s \in Ends, SenderSame(s), credits'[s] = credits[s],
           granted'[Peer(s)] = granted[Peer(s)],
           NEW amt \in Nat, Owed(s)' = Owed(s) - amt
    PROVE  Lost(s)' = Lost(s) + amt /\ Lost(s) \in Int
<1>1. /\ charged[s] \in Nat /\ off[s] \in Nat /\ credits[s] \in Nat /\ granted[Peer(s)] \in Nat
      /\ Owed(s) \in Nat
  <2>1. /\ charged[s] \in Nat /\ off[s] \in Nat /\ credits[s] \in Nat /\ granted[Peer(s)] \in Nat
    BY BookTypes, ZenonT(30)
  <2>2. QED
    BY <2>1, OwedNat, ZenonT(30)
<1>2. charged'[s] = charged[s] /\ off'[s] = off[s]
  BY ZenonT(30) DEF SenderSame
<1> DEFINE grD == granted[Peer(s)]
           chD == charged[s]
           ofD == off[s]
           crD == credits[s]
           owD == Owed(s)
           loD == Lost(s)
           nxD == Lost(s)'
<1>3. grD \in Nat /\ chD \in Nat /\ ofD \in Nat /\ crD \in Nat /\ owD \in Nat
  BY <1>1, ZenonT(30)
<1>4. loD = grD + ofD - chD - crD - owD
  BY ZenonT(30) DEF Lost
<1>5. nxD = grD + ofD - chD - crD - (owD - amt)
  BY <1>2, ZenonT(30) DEF Lost
<1> HIDE DEF grD, chD, ofD, crD, owD, loD, nxD
<1>6. nxD = loD + amt /\ loD \in Int
  BY <1>3, <1>4, <1>5, SMTT(30)
<1>7. QED
  BY <1>6, ZenonT(30) DEF loD, nxD

(* A bonus is both granted and owed, and an arriving grant moves from what *)
(* is owed to the sender: nothing is lost.                                 *)
LEMMA LostEven ==
    ASSUME TypeInv, NEW s \in Ends, SenderSame(s), NEW amt \in Nat,
           \/ /\ granted'[Peer(s)] = granted[Peer(s)] + amt /\ Owed(s)' = Owed(s) + amt
              /\ credits'[s] = credits[s]
           \/ /\ credits'[s] = credits[s] + amt /\ Owed(s)' = Owed(s) - amt
              /\ granted'[Peer(s)] = granted[Peer(s)]
    PROVE  Lost(s)' = Lost(s)
<1>1. /\ charged[s] \in Nat /\ off[s] \in Nat /\ credits[s] \in Nat /\ granted[Peer(s)] \in Nat
      /\ Owed(s) \in Nat
  <2>1. /\ charged[s] \in Nat /\ off[s] \in Nat /\ credits[s] \in Nat /\ granted[Peer(s)] \in Nat
    BY BookTypes, ZenonT(30)
  <2>2. QED
    BY <2>1, OwedNat, ZenonT(30)
<1>2. charged'[s] = charged[s] /\ off'[s] = off[s]
  BY ZenonT(30) DEF SenderSame
<1> DEFINE grE == granted[Peer(s)]
           chE == charged[s]
           ofE == off[s]
           crE == credits[s]
           owE == Owed(s)
           loE == Lost(s)
           nxE == Lost(s)'
<1>3. grE \in Nat /\ chE \in Nat /\ ofE \in Nat /\ crE \in Nat /\ owE \in Nat
  BY <1>1, ZenonT(30)
<1>4. loE = grE + ofE - chE - crE - owE
  BY ZenonT(30) DEF Lost
<1>5. \/ nxE = (grE + amt) + ofE - chE - crE - (owE + amt)
      \/ nxE = grE + ofE - chE - (crE + amt) - (owE - amt)
  BY <1>2, ZenonT(30) DEF Lost
<1> HIDE DEF grE, chE, ofE, crE, owE, loE, nxE
<1>6. nxE = loE
  BY <1>3, <1>4, <1>5, SMTT(30)
<1>7. QED
  BY <1>6, ZenonT(30) DEF loE, nxE

(* The inbound pump and the ticker leave it alone. *)
LEMMA InSame ==
    ASSUME NEW s \in Ends, NEW r \in Ends,
           \/ InData(r) \/ InWrite(r) \/ InDrain(r) \/ InWindow(r) \/ InGrow(r) \/ InNoGrow(r)
           \/ InEnd(r) \/ InDecodeFail(r) \/ InSwap(r) \/ InFlush(r) \/ TickSwap(r) \/ TickSend(r)
    PROVE  SenderSame(s) /\ credits' = credits /\ reg' = reg /\ cut' = cut
BY Zenon DEF InData, InWrite, InDrain, InWindow, InGrow, InNoGrow, InEnd, InDecodeFail, InSwap,
         InFlush, TickSwap, TickSend, InUnchanged, outVars, sesVars, SenderSame

(* inbound_pump takes a DATA frame off its queue: the bytes stay in        *)
(* flight.                                                                 *)
LEMMA DequeueStep ==
    ASSUME TypeInv, NEW s \in Ends, NEW r \in Ends, r = Peer(s),
           InData(r)
    PROVE  Accounted(s)
<1>q. s # r /\ Queues /\ Places /\ Counters
  BY PeerFacts, ZenonT(30) DEF TypeInv
<1>t. /\ n[s] \in Nat /\ charged[s] \in Nat /\ off[s] \in Nat /\ credits[s] \in Nat
      /\ pending[r] \in Nat /\ held[r] \in Nat /\ tick[r] \in Nat
      /\ granted[r] \in Nat /\ Flight(s) \in Nat /\ GrantSum(link[r]) \in Nat
      /\ ByteSum(link[s]) \in Nat /\ ByteSum(inq[r]) \in Nat /\ Bytes(cur[r]) \in Nat
  BY BookTypes, ZenonT(30)
<1>s. SenderSame(s) /\ credits' = credits
  BY InSame, ZenonT(30)
<1>k. UNCHANGED Ledger(s)!sender /\ Pc(s)' = Pc(s)
  BY <1>s, SenderKept, ZenonT(30)
<1>f. Flight(s) = ByteSum(link[s]) + (ByteSum(inq[r]) + IF ipc[r] = "write" THEN Bytes(cur[r]) ELSE 0)
  BY ZenonT(30) DEF Flight, Buffered
<1>g. Flight(s)' = ByteSum(link'[s]) + (ByteSum(inq'[r]) + IF ipc'[r] = "write" THEN Bytes(cur'[r]) ELSE 0)
  BY DEF Flight, Buffered
<1>h. ASSUME inq[r] # <<>>
      PROVE  /\ Head(inq[r]) \in Frames /\ Tail(inq[r]) \in Seq(Frames)
             /\ Bytes(Head(inq[r])) \in Nat /\ ByteSum(Tail(inq[r])) \in Nat
             /\ ByteSum(inq[r]) = Bytes(Head(inq[r])) + ByteSum(Tail(inq[r]))
  <2>1. inq[r] \in Seq(Frames)
    BY <1>q, ZenonT(30) DEF Queues
  <2>2. Head(inq[r]) \in Frames /\ Tail(inq[r]) \in Seq(Frames)
    BY <1>h, <2>1, HeadFrame, ZenonT(30)
  <2>3. QED
    BY <1>h, <2>1, <2>2, ByteSumFacts, FrameFacts, Zenon
<1>1. /\ inq[r] # <<>> /\ cur'[r] = Head(inq[r]) /\ inq'[r] = Tail(inq[r])
      /\ ipc[r] = "recv" /\ ipc'[r] = "write" /\ link' = link
      /\ UNCHANGED <<pending, held, granted, tick>>
  BY <1>q, ZenonT(30) DEF InData, InUnchanged, Queues, Places
<1>2. Flight(s)' = Flight(s)
  BY <1>f, <1>g, <1>h, <1>t, <1>1
<1>3. QED
  BY <1>s, <1>k, <1>1, <1>2, Quiet, ZenonT(30) DEF SenderSame

(* inbound_pump takes the FIN or an Abort: no bytes. *)
LEMMA EndStep ==
    ASSUME TypeInv, NEW s \in Ends, NEW r \in Ends, r = Peer(s),
           InEnd(r)
    PROVE  Accounted(s)
<1>q. s # r /\ Queues /\ Places /\ Counters
  BY PeerFacts, ZenonT(30) DEF TypeInv
<1>t. /\ n[s] \in Nat /\ charged[s] \in Nat /\ off[s] \in Nat /\ credits[s] \in Nat
      /\ pending[r] \in Nat /\ held[r] \in Nat /\ tick[r] \in Nat
      /\ granted[r] \in Nat /\ Flight(s) \in Nat /\ GrantSum(link[r]) \in Nat
      /\ ByteSum(link[s]) \in Nat /\ ByteSum(inq[r]) \in Nat /\ Bytes(cur[r]) \in Nat
  BY BookTypes, ZenonT(30)
<1>s. SenderSame(s) /\ credits' = credits
  BY InSame, ZenonT(30)
<1>k. UNCHANGED Ledger(s)!sender /\ Pc(s)' = Pc(s)
  BY <1>s, SenderKept, ZenonT(30)
<1>h. ASSUME inq[r] # <<>>
      PROVE  /\ Head(inq[r]) \in Frames /\ Tail(inq[r]) \in Seq(Frames)
             /\ Bytes(Head(inq[r])) \in Nat /\ ByteSum(Tail(inq[r])) \in Nat
             /\ ByteSum(inq[r]) = Bytes(Head(inq[r])) + ByteSum(Tail(inq[r]))
  <2>1. inq[r] \in Seq(Frames)
    BY <1>q, ZenonT(30) DEF Queues
  <2>2. Head(inq[r]) \in Frames /\ Tail(inq[r]) \in Seq(Frames)
    BY <1>h, <2>1, HeadFrame, ZenonT(30)
  <2>3. QED
    BY <1>h, <2>1, <2>2, ByteSumFacts, FrameFacts, Zenon
<1>1. /\ inq[r] # <<>> /\ inq'[r] = Tail(inq[r]) /\ Head(inq[r]).t # "DATA"
      /\ ipc[r] = "recv" /\ ipc'[r] = "swap" /\ link' = link
      /\ UNCHANGED <<pending, held, granted, tick>>
  BY <1>q, ZenonT(30) DEF InEnd, InUnchanged, Queues, Places
<1>2. Bytes(Head(inq[r])) = 0
  BY <1>1, ZenonT(30) DEF Bytes
<1>3. Flight(s)' = Flight(s)
  <2>1. Hand(r)' = Hand(r)
    BY <1>1, ZenonT(30) DEF Hand
  <2>2. ByteSum(inq[r]) = 0 + ByteSum(inq'[r]) /\ ByteSum(inq'[r]) \in Nat /\ 0 \in Nat
    BY <1>h, <1>1, <1>2, ZenonT(30)
  <2>3. Flight(s)' = Flight(s) - 0
    BY <1>1, <2>1, <2>2, FlightLess, ZenonT(30)
  <2>4. QED
    BY <1>t, <2>3, MinusZero, ZenonT(30)
<1>4. QED
  BY <1>s, <1>k, <1>1, <1>3, Quiet, ZenonT(30) DEF SenderSame

(* maybe_grow_window does nothing. *)
LEMMA NoGrowStep ==
    ASSUME TypeInv, NEW s \in Ends, NEW r \in Ends, r = Peer(s),
           InNoGrow(r)
    PROVE  Accounted(s)
<1>q. s # r /\ Queues /\ Places /\ Counters
  BY PeerFacts, ZenonT(30) DEF TypeInv
<1>s. SenderSame(s) /\ credits' = credits
  BY InSame, ZenonT(30)
<1>k. UNCHANGED Ledger(s)!sender /\ Pc(s)' = Pc(s)
  BY <1>s, SenderKept, ZenonT(30)
<1>f. Flight(s) = ByteSum(link[s]) + (ByteSum(inq[r]) + IF ipc[r] = "write" THEN Bytes(cur[r]) ELSE 0)
  BY ZenonT(30) DEF Flight, Buffered
<1>g. Flight(s)' = ByteSum(link'[s]) + (ByteSum(inq'[r]) + IF ipc'[r] = "write" THEN Bytes(cur'[r]) ELSE 0)
  BY Zenon DEF Flight, Buffered
<1>1. /\ ipc[r] = "grow" /\ ipc'[r] = "recv"
      /\ UNCHANGED <<pending, held, granted, tick, link, inq>>
  BY <1>q, ZenonT(30) DEF InNoGrow, InUnchanged, Places
<1>2. Flight(s)' = Flight(s)
  BY <1>f, <1>g, <1>1, Zenon
<1>3. QED
  BY <1>s, <1>k, <1>1, <1>2, Quiet, ZenonT(30) DEF SenderSame

(* inbound_pump has handed a frame to the app, or discarded it: the        *)
(* ledger's Consume.                                                       *)
LEMMA WriteStep ==
    ASSUME TypeInv, NEW s \in Ends, NEW r \in Ends, r = Peer(s),
           InWrite(r)
    PROVE  Accounted(s)
<1>q. s # r /\ Queues /\ Places /\ Counters
  BY PeerFacts, ZenonT(30) DEF TypeInv
<1>t. /\ n[s] \in Nat /\ charged[s] \in Nat /\ off[s] \in Nat /\ credits[s] \in Nat
      /\ pending[r] \in Nat /\ held[r] \in Nat /\ tick[r] \in Nat
      /\ granted[r] \in Nat /\ Flight(s) \in Nat /\ GrantSum(link[r]) \in Nat
      /\ ByteSum(link[s]) \in Nat /\ ByteSum(inq[r]) \in Nat /\ Bytes(cur[r]) \in Nat
  BY BookTypes, ZenonT(30)
<1>s. SenderSame(s) /\ credits' = credits
  BY InSame, ZenonT(30)
<1>k. UNCHANGED Ledger(s)!sender /\ Pc(s)' = Pc(s)
  BY <1>s, SenderKept, ZenonT(30)
<1> DEFINE k == Bytes(cur[r])
<1>1. /\ ipc[r] = "write" /\ ipc'[r] # "write" /\ pending'[r] = pending[r] + k
      /\ UNCHANGED <<held, granted, tick, link, inq>>
  BY <1>q, ZenonT(30) DEF InWrite, InUnchanged, Places, Counters, AfterCredit
<1>2. Flight(s)' = Flight(s) - k /\ k <= Flight(s) /\ k \in Nat
  <2>1. Hand(r) = k /\ Hand(r)' = 0 /\ k \in Nat
    BY <1>t, <1>1, ZenonT(30) DEF Hand
  <2>2. UNCHANGED <<ByteSum(link[s]), ByteSum(inq[r])>>
    BY <1>1, ZenonT(30)
  <2>3. QED
    BY <2>1, <2>2, FlightLess, ZenonT(30)
<1> HIDE DEF k
<1>3. Lost(s)' = Lost(s)
  <2>1. Owed(s)' = Owed(s)
    BY <1>1, <1>2, OwedWritten, ZenonT(30)
  <2>2. QED
    BY <1>s, <1>1, <2>1, ZenonT(30) DEF Lost, SenderSame
<1>4. CASE k = 0
  <2>1. Flight(s)' = Flight(s) /\ pending'[r] = pending[r]
    BY <1>t, <1>1, <1>2, <1>4, PlusZero, MinusZero, ZenonT(30)
  <2>2. QED
    BY <1>s, <1>k, <1>1, <2>1, Quiet, ZenonT(30) DEF SenderSame
<1>5. CASE k # 0
  <2>1. k \in 1..Flight(s)
    BY <1>t, <1>2, <1>5, InRange, ZenonT(30)
  <2>2. Ledger(s)!Consume
    BY <1>s, <1>k, <1>1, <1>2, <1>3, <2>1, ZenonT(30) DEF Ledger!Consume, Lost
  <2>3. QED
    BY <1>3, <2>2, ZenonT(30) DEF Accounted, LedgerMove, Ledger!Next
<1>6. QED
  BY <1>4, <1>5, ZenonT(30)

(* A frame fails to decompress: its bytes are lost with the stream. *)
LEMMA DecodeFailStep ==
    ASSUME TypeInv, NEW s \in Ends, NEW r \in Ends, r = Peer(s),
           InDecodeFail(r)
    PROVE  Accounted(s)
<1>q. s # r /\ Queues /\ Places /\ Counters
  BY PeerFacts, ZenonT(30) DEF TypeInv
<1>t. /\ n[s] \in Nat /\ charged[s] \in Nat /\ off[s] \in Nat /\ credits[s] \in Nat
      /\ pending[r] \in Nat /\ held[r] \in Nat /\ tick[r] \in Nat
      /\ granted[r] \in Nat /\ Flight(s) \in Nat /\ GrantSum(link[r]) \in Nat
      /\ ByteSum(link[s]) \in Nat /\ ByteSum(inq[r]) \in Nat /\ Bytes(cur[r]) \in Nat
  BY BookTypes, ZenonT(30)
<1>s. SenderSame(s) /\ credits' = credits
  BY InSame, Zenon
<1>k. UNCHANGED Ledger(s)!sender /\ Pc(s)' = Pc(s)
  BY <1>s, SenderKept, ZenonT(30)
<1>h. ASSUME inq[r] # <<>>
      PROVE  /\ Head(inq[r]) \in Frames /\ Tail(inq[r]) \in Seq(Frames)
             /\ Bytes(Head(inq[r])) \in Nat /\ ByteSum(Tail(inq[r])) \in Nat
             /\ ByteSum(inq[r]) = Bytes(Head(inq[r])) + ByteSum(Tail(inq[r]))
  <2>1. inq[r] \in Seq(Frames)
    BY <1>q, ZenonT(30) DEF Queues
  <2>2. Head(inq[r]) \in Frames /\ Tail(inq[r]) \in Seq(Frames)
    BY <1>h, <2>1, HeadFrame, ZenonT(30)
  <2>3. QED
    BY <1>h, <2>1, <2>2, ByteSumFacts, FrameFacts, Zenon
<1> DEFINE k == Bytes(Head(inq[r]))
<1>1. /\ inq[r] # <<>> /\ inq'[r] = Append(Tail(inq[r]), Abort)
      /\ ipc[r] = "recv" /\ ipc'[r] = "swap"
      /\ UNCHANGED <<pending, held, granted, tick>>
  BY <1>q, ZenonT(30) DEF InDecodeFail, Queues, Places
<1>9. link' = link \/ link' = Sent(r, Close)
  BY ZenonT(30) DEF InDecodeFail
<1>0. /\ Close \in Frames /\ Grant(Close) = 0
      /\ Abort \in Frames /\ Bytes(Abort) = 0
  BY FrameWeights, ZenonT(30)
<1>2. link'[s] = link[s] /\ GrantSum(link'[r]) = GrantSum(link[r])
  BY <1>q, <1>0, <1>9, Weightless, ZenonT(30)
<1>3. ByteSum(inq'[r]) = ByteSum(Tail(inq[r]))
  <2>1. ByteSum(inq'[r]) = ByteSum(Tail(inq[r])) + 0
    BY <1>h, <1>0, <1>1, ByteSumFacts, Zenon
  <2>2. QED
    BY <1>h, <1>1, <2>1, PlusZero, ZenonT(30)
<1>4. Flight(s)' = Flight(s) - k /\ k <= Flight(s) /\ k \in Nat
  <2>1. ByteSum(inq[r]) = k + ByteSum(inq'[r]) /\ ByteSum(inq'[r]) \in Nat /\ k \in Nat
    BY <1>h, <1>1, <1>3, ZenonT(30)
  <2>2. UNCHANGED <<ByteSum(link[s]), Hand(r)>>
    BY <1>1, <1>2, ZenonT(30) DEF Hand
  <2> HIDE DEF k
  <2>3. QED
    BY <2>1, <2>2, FlightLess, ZenonT(30)
<1> HIDE DEF k
<1>5. ~Intact(s)'
  BY <1>1, ZenonT(30) DEF Intact
<1>6. CASE k = 0
  <2>1. Flight(s)' = Flight(s)
    BY <1>t, <1>4, <1>6, MinusZero, ZenonT(30)
  <2>2. QED
    BY <1>s, <1>k, <1>1, <1>2, <2>1, Quiet, ZenonT(30) DEF SenderSame
<1>7. CASE k # 0
  <2>1. k \in 1..Flight(s)
    BY <1>t, <1>4, <1>7, InRange, ZenonT(30)
  <2>2. Lost(s)' = Lost(s) + k
    <3>0. UNCHANGED <<pending[r], held[r], granted[r], tick[r], GrantSum(link[r])>>
      BY <1>1, <1>2, ZenonT(30)
    <3>1. Owed(s)' = Owed(s) - k
      BY <1>4, <3>0, OwedLess, ZenonT(30)
    <3>2. QED
      BY <1>s, <1>4, <3>0, <3>1, LostMore, ZenonT(30)
  <2>3. Ledger(s)!LoseData
    BY <1>s, <1>k, <1>1, <1>2, <1>4, <2>1, <2>2, ZenonT(30) DEF Ledger!LoseData, Ledger!receiver, Lost
  <2>4. QED
    BY <1>5, <2>3, ZenonT(30) DEF Accounted, LedgerMove, Ledger!Next
<1>8. QED
  BY <1>6, <1>7, ZenonT(30)

(* inbound_pump swaps the pending credit out: the ledger's Drain. Its      *)
(* hands were empty.                                                       *)
LEMMA DrainStep ==
    ASSUME TypeInv, HeldInv, NEW s \in Ends, NEW r \in Ends, r = Peer(s),
           InDrain(r) \/ InSwap(r)
    PROVE  Accounted(s)
<1>q. s # r /\ Queues /\ Places /\ Counters
  BY PeerFacts, ZenonT(30) DEF TypeInv
<1>t. /\ n[s] \in Nat /\ charged[s] \in Nat /\ off[s] \in Nat /\ credits[s] \in Nat
      /\ pending[r] \in Nat /\ held[r] \in Nat /\ tick[r] \in Nat
      /\ granted[r] \in Nat /\ granted[r] <= RxWindowMax
      /\ Flight(s) \in Nat /\ GrantSum(link[r]) \in Nat
  BY BookTypes, ZenonT(30)
<1>s. SenderSame(s) /\ credits' = credits /\ reg' = reg /\ cut' = cut
  BY InSame, ZenonT(30)
<1>k. UNCHANGED Ledger(s)!sender /\ Pc(s)' = Pc(s)
  BY <1>s, SenderKept, ZenonT(30)
<1>c. inq' = inq /\ cur' = cur
  BY ZenonT(30) DEF InDrain, InSwap, inVars
<1>w. (ipc[r] # "write" /\ ipc'[r] # "write") \/ ipc'[r] = ipc[r]
  BY <1>q, ZenonT(30) DEF InDrain, InSwap, inVars, Places, AfterCredit
<1>f. ASSUME ByteSum(link'[s]) = ByteSum(link[s]) PROVE Flight(s)' = Flight(s)
  BY <1>c, <1>f, <1>w, ZenonT(30) DEF Flight, Buffered
<1>1. /\ held'[r] = pending[r] /\ pending'[r] = 0 /\ UNCHANGED <<granted, link, tick>>
      /\ ipc[r] \in {"drain", "swap"}
  BY <1>q, ZenonT(30) DEF InDrain, InSwap, InUnchanged, Counters
<1>2. held[r] = 0
  BY <1>1, ZenonT(30) DEF HeldInv
<1>3. Flight(s)' = Flight(s)
  BY <1>f, <1>1, ZenonT(30)
<1>4. Lost(s)' = Lost(s)
  <2>1. Owed(s)' = Owed(s)
    BY <1>1, <1>2, <1>3, OwedSame, ZenonT(30)
  <2>2. QED
    BY <1>s, <1>1, <2>1, ZenonT(30) DEF Lost, SenderSame
<1>5. Ledger(s)!Drain
  BY <1>s, <1>k, <1>1, <1>2, <1>3, <1>4, ZenonT(30) DEF Ledger!Drain, Lost
<1>6. QED
  BY <1>4, <1>5, ZenonT(30) DEF Accounted, LedgerMove, Ledger!Next

(* maybe_grow_window: the ledger's Grow, or nothing once the window is at  *)
(* its maximum.                                                            *)
LEMMA GrowStep ==
    ASSUME TypeInv, HeldInv, NEW s \in Ends, NEW r \in Ends, r = Peer(s),
           InGrow(r)
    PROVE  Accounted(s)
<1>q. s # r /\ Queues /\ Places /\ Counters
  BY PeerFacts, ZenonT(30) DEF TypeInv
<1>t. /\ n[s] \in Nat /\ charged[s] \in Nat /\ off[s] \in Nat /\ credits[s] \in Nat
      /\ pending[r] \in Nat /\ held[r] \in Nat /\ tick[r] \in Nat
      /\ granted[r] \in Nat /\ granted[r] <= RxWindowMax
      /\ Flight(s) \in Nat /\ GrantSum(link[r]) \in Nat
  BY BookTypes, ZenonT(30)
<1>s. SenderSame(s) /\ credits' = credits /\ reg' = reg /\ cut' = cut
  BY InSame, ZenonT(30)
<1>k. UNCHANGED Ledger(s)!sender /\ Pc(s)' = Pc(s)
  BY <1>s, SenderKept, ZenonT(30)
<1>c. inq' = inq /\ cur' = cur
  BY ZenonT(30) DEF InGrow, inVars
<1>w. (ipc[r] # "write" /\ ipc'[r] # "write") \/ ipc'[r] = ipc[r]
  BY <1>q, ZenonT(30) DEF InGrow, inVars, Places, AfterCredit
<1>f. ASSUME ByteSum(link'[s]) = ByteSum(link[s]) PROVE Flight(s)' = Flight(s)
  BY <1>c, <1>f, <1>w, ZenonT(30) DEF Flight, Buffered
<1> DEFINE b == Bonus(r)
<1>1. /\ held'[r] = b /\ granted'[r] = granted[r] + b /\ UNCHANGED <<pending, link, tick>>
      /\ ipc[r] = "grow"
  BY <1>q, ZenonT(30) DEF InGrow, InUnchanged, Counters
<1>2. held[r] = 0
  BY <1>1, ZenonT(30) DEF HeldInv
<1>3. Flight(s)' = Flight(s)
  BY <1>f, <1>1, ZenonT(30)
<1>4. b = Ledger(s)!Smaller(granted[r], RxWindowMax - granted[r])
  BY DEF Bonus, Smaller, Ledger!Smaller
<1>5. b \in Nat /\ b <= RxWindowMax - granted[r]
  <2>1. RxWindowMax - granted[r] \in Nat
    BY <1>t, StreamAssumption, SMTT(30)
  <2>2. QED
    BY <1>t, <2>1, SmallerFacts, Zenon DEF Bonus
<1> HIDE DEF b
<1>6. Lost(s)' = Lost(s)
  <2>1. Owed(s)' = Owed(s) + b
    BY <1>1, <1>2, <1>3, <1>5, OwedMore, ZenonT(30)
  <2>2. QED
    BY <1>s, <1>1, <1>5, <2>1, LostEven, ZenonT(30)
<1>7. CASE granted[r] < RxWindowMax
  <2>1. Ledger(s)!Grow
    BY <1>s, <1>k, <1>1, <1>2, <1>3, <1>4, <1>6, <1>7, ZenonT(30) DEF Ledger!Grow, Lost
  <2>2. QED
    BY <1>6, <2>1, ZenonT(30) DEF Accounted, LedgerMove, Ledger!Next
<1>8. CASE ~(granted[r] < RxWindowMax)
  <2>1. b = 0
    <3> DEFINE gr == granted[r]
    <3>1. gr \in Nat /\ b \in Nat /\ b <= RxWindowMax - gr /\ ~(gr < RxWindowMax) /\ RxWindowMax \in Nat
      BY <1>t, <1>5, <1>8, StreamAssumption, ZenonT(30)
    <3> HIDE DEF gr
    <3>2. QED
      BY <3>1, SMTT(30)
  <2>2. granted'[r] = granted[r] /\ held'[r] = held[r]
    BY <1>t, <1>1, <1>2, <2>1, PlusZero, ZenonT(30)
  <2>3. QED
    BY <1>s, <1>k, <1>1, <1>3, <2>2, Quiet, ZenonT(30) DEF SenderSame
<1>9. QED
  BY <1>7, <1>8, ZenonT(30)

(* credit_ticker swaps the pending credit out: the ledger's TickSwap. *)
LEMMA TickSwapStep ==
    ASSUME TypeInv, NEW s \in Ends, NEW r \in Ends, r = Peer(s),
           TickSwap(r)
    PROVE  Accounted(s)
<1>q. s # r /\ Queues /\ Places /\ Counters
  BY PeerFacts, ZenonT(30) DEF TypeInv
<1>t. /\ n[s] \in Nat /\ charged[s] \in Nat /\ off[s] \in Nat /\ credits[s] \in Nat
      /\ pending[r] \in Nat /\ held[r] \in Nat /\ tick[r] \in Nat
      /\ granted[r] \in Nat /\ granted[r] <= RxWindowMax
      /\ Flight(s) \in Nat /\ GrantSum(link[r]) \in Nat
  BY BookTypes, ZenonT(30)
<1>s. SenderSame(s) /\ credits' = credits /\ reg' = reg /\ cut' = cut
  BY InSame, ZenonT(30)
<1>k. UNCHANGED Ledger(s)!sender /\ Pc(s)' = Pc(s)
  BY <1>s, SenderKept, ZenonT(30)
<1>c. inq' = inq /\ cur' = cur
  BY ZenonT(30) DEF TickSwap, inVars
<1>w. (ipc[r] # "write" /\ ipc'[r] # "write") \/ ipc'[r] = ipc[r]
  BY <1>q, ZenonT(30) DEF TickSwap, inVars, Places, AfterCredit
<1>f. ASSUME ByteSum(link'[s]) = ByteSum(link[s]) PROVE Flight(s)' = Flight(s)
  BY <1>c, <1>f, <1>w, ZenonT(30) DEF Flight, Buffered
<1>1. /\ tick[r] = 0 /\ pending[r] > 0 /\ tick'[r] = pending[r] /\ pending'[r] = 0
      /\ UNCHANGED <<granted, link, held>>
  BY <1>q, ZenonT(30) DEF TickSwap, inVars, Counters
<1>3. Flight(s)' = Flight(s)
  BY <1>f, <1>1, ZenonT(30)
<1>4. Lost(s)' = Lost(s)
  <2>1. Owed(s)' = Owed(s)
    BY <1>1, <1>3, OwedSame, ZenonT(30)
  <2>2. QED
    BY <1>s, <1>1, <2>1, ZenonT(30) DEF Lost, SenderSame
<1>5. Ledger(s)!TickSwap
  BY <1>s, <1>k, <1>1, <1>3, <1>4, ZenonT(30) DEF Ledger!TickSwap, Lost
<1>6. QED
  BY <1>4, <1>5, ZenonT(30) DEF Accounted, LedgerMove, Ledger!Next

(* A WINDOW frame sent by the receiver, on an intact or a cut connection. *)
LEMMA WindowSums ==
    ASSUME TypeInv, NEW s \in Ends, NEW r \in Ends, r = Peer(s),
           inq' = inq, cur' = cur,
           (ipc[r] # "write" /\ ipc'[r] # "write") \/ ipc'[r] = ipc[r],
           NEW d \in Nat, link' = Sent(r, Window(d))
    PROVE  /\ Flight(s)' = Flight(s)
           /\ GrantSum(link'[r]) = GrantSum(link[r]) + (IF cut THEN 0 ELSE d)
<1>q. s # r /\ Queues
  BY PeerFacts, ZenonT(30) DEF TypeInv
<1>t. GrantSum(link[r]) \in Nat
  BY BookTypes, ZenonT(30)
<1>1. Window(d) \in Frames /\ Grant(Window(d)) = d
  BY FrameWeights, ZenonT(30)
<1>2. link'[s] = link[s]
  BY <1>q, <1>1, SentSums, ZenonT(30)
<1>3. Flight(s)' = Flight(s)
  BY <1>2, ZenonT(30) DEF Flight, Buffered
<1>4. CASE cut
  <2>1. link'[r] = link[r]
    BY <1>q, <1>1, <1>4, SentSums, ZenonT(30)
  <2>2. QED
    BY <1>t, <1>3, <1>4, <2>1, PlusZero, ZenonT(30)
<1>5. CASE ~cut
  <2>1. GrantSum(link'[r]) = GrantSum(link[r]) + d
    BY <1>q, <1>1, <1>5, SentSums, ZenonT(30)
  <2>2. QED
    BY <1>3, <1>5, <2>1, ZenonT(30)
<1>6. QED
  BY <1>4, <1>5, ZenonT(30)

(* send_window_await: the ledger's PumpSend, or LoseHeld on a cut          *)
(* connection.                                                             *)
LEMMA WindowStep ==
    ASSUME TypeInv, NEW s \in Ends, NEW r \in Ends, r = Peer(s),
           InWindow(r)
    PROVE  Accounted(s)
<1>q. s # r /\ Queues /\ Places /\ Counters
  BY PeerFacts, ZenonT(30) DEF TypeInv
<1>t. /\ n[s] \in Nat /\ charged[s] \in Nat /\ off[s] \in Nat /\ credits[s] \in Nat
      /\ pending[r] \in Nat /\ held[r] \in Nat /\ tick[r] \in Nat
      /\ granted[r] \in Nat /\ granted[r] <= RxWindowMax
      /\ Flight(s) \in Nat /\ GrantSum(link[r]) \in Nat
  BY BookTypes, ZenonT(30)
<1>s. SenderSame(s) /\ credits' = credits /\ reg' = reg /\ cut' = cut
  BY InSame, ZenonT(30)
<1>k. UNCHANGED Ledger(s)!sender /\ Pc(s)' = Pc(s)
  BY <1>s, SenderKept, ZenonT(30)
<1>c. inq' = inq /\ cur' = cur
  BY ZenonT(30) DEF InWindow, inVars
<1>w. (ipc[r] # "write" /\ ipc'[r] # "write") \/ ipc'[r] = ipc[r]
  BY <1>q, ZenonT(30) DEF InWindow, inVars, Places, AfterCredit
<1>1. /\ held'[r] = 0 /\ UNCHANGED <<granted, pending, tick>>
      /\ link' = Sent(r, Window(held[r]))
  BY <1>q, ZenonT(30) DEF InWindow, InUnchanged, Counters
<1>2. /\ Flight(s)' = Flight(s)
      /\ GrantSum(link'[r]) = GrantSum(link[r]) + (IF cut THEN 0 ELSE held[r])
  BY <1>c, <1>w, WindowSums, <1>t, <1>1, ZenonT(30)
<1>u. held'[r] = 0 /\ granted'[r] = granted[r] /\ pending'[r] = pending[r] /\ tick'[r] = tick[r]
  BY <1>1, ZenonT(30)
<1>3. CASE held[r] = 0
  <2>1. GrantSum(link'[r]) = GrantSum(link[r])
    BY <1>t, <1>2, <1>3, PlusZero, ZenonT(30)
  <2>2. QED
    BY <1>s, <1>k, <1>1, <1>2, <1>3, <2>1, Quiet, Zenon DEF SenderSame
<1>4. CASE held[r] # 0 /\ cut
  <2>0. GrantSum(link'[r]) = GrantSum(link[r])
    BY <1>t, <1>2, <1>4, PlusZero, ZenonT(30)
  <2>1. Lost(s)' = Lost(s) + held[r]
    <3>1. Owed(s)' = Owed(s) - held[r]
      BY <1>t, <1>2, <1>u, <2>0, OwedLess, ZenonT(30)
    <3>2. QED
      BY <1>s, <1>t, <1>u, <3>1, LostMore, ZenonT(30)
  <2>2. Ledger(s)!LoseHeld
    BY <1>s, <1>k, <1>t, <1>u, <1>2, <1>4, <2>0, <2>1, Positive, ZenonT(30) DEF Ledger!LoseHeld, Lost
  <2>3. ~Intact(s)'
    BY <1>s, <1>4, ZenonT(30) DEF Intact
  <2>4. QED
    BY <2>2, <2>3, ZenonT(30) DEF Accounted, LedgerMove, Ledger!Next
<1>5. CASE held[r] # 0 /\ ~cut
  <2>0. GrantSum(link'[r]) = GrantSum(link[r]) + held[r]
    BY <1>2, <1>5, ZenonT(30)
  <2>1. Lost(s)' = Lost(s)
    <3>1. Owed(s)' = Owed(s)
      BY <1>2, <1>u, <2>0, OwedSame, ZenonT(30)
    <3>2. QED
      BY <1>s, <1>u, <3>1, ZenonT(30) DEF Lost, SenderSame
  <2>2. Ledger(s)!PumpSend
    BY <1>s, <1>k, <1>t, <1>u, <1>2, <1>5, <2>0, <2>1, Positive, ZenonT(30) DEF Ledger!PumpSend, Lost
  <2>3. QED
    BY <2>1, <2>2, ZenonT(30) DEF Accounted, LedgerMove, Ledger!Next
<1>6. QED
  BY <1>3, <1>4, <1>5, Zenon

(* credit_ticker sends, puts back, or loses with the session: the ledger's *)
(* TickSend, TickRestore and LoseTick.                                     *)
LEMMA TickSendStep ==
    ASSUME TypeInv, Shutdowns, NEW s \in Ends, NEW r \in Ends, r = Peer(s),
           TickSend(r)
    PROVE  Accounted(s)
<1>q. s # r /\ Queues /\ Places /\ Counters
  BY PeerFacts, ZenonT(30) DEF TypeInv
<1>t. /\ n[s] \in Nat /\ charged[s] \in Nat /\ off[s] \in Nat /\ credits[s] \in Nat
      /\ pending[r] \in Nat /\ held[r] \in Nat /\ tick[r] \in Nat
      /\ granted[r] \in Nat /\ granted[r] <= RxWindowMax
      /\ Flight(s) \in Nat /\ GrantSum(link[r]) \in Nat
  BY BookTypes, ZenonT(30)
<1>s. SenderSame(s) /\ credits' = credits /\ reg' = reg /\ cut' = cut
  BY InSame, ZenonT(30)
<1>k. UNCHANGED Ledger(s)!sender /\ Pc(s)' = Pc(s)
  BY <1>s, SenderKept, ZenonT(30)
<1>c. inq' = inq /\ cur' = cur
  BY ZenonT(30) DEF TickSend, inVars
<1>w. (ipc[r] # "write" /\ ipc'[r] # "write") \/ ipc'[r] = ipc[r]
  BY <1>q, ZenonT(30) DEF TickSend, inVars, Places, AfterCredit
<1>f. ASSUME ByteSum(link'[s]) = ByteSum(link[s]) PROVE Flight(s)' = Flight(s)
  BY <1>c, <1>f, <1>w, ZenonT(30) DEF Flight, Buffered
<1>0. tick[r] > 0 /\ tick'[r] = 0 /\ granted'[r] = granted[r] /\ held'[r] = held[r]
  BY <1>q, ZenonT(30) DEF TickSend, inVars, Counters
<1>1. \/ closed[r] /\ link' = link /\ pending'[r] = pending[r]
      \/ ~closed[r] /\ link' = link /\ pending'[r] = pending[r] + tick[r]
      \/ ~closed[r] /\ link' = Sent(r, Window(tick[r])) /\ pending'[r] = pending[r]
  BY <1>q, ZenonT(30) DEF TickSend, inVars, Counters
<1>2. CASE closed[r] /\ link' = link /\ pending'[r] = pending[r]
  <2>1. Flight(s)' = Flight(s) /\ GrantSum(link'[r]) = GrantSum(link[r])
    BY <1>f, <1>2, ZenonT(30)
  <2>2. Lost(s)' = Lost(s) + tick[r]
    <3>1. Owed(s)' = Owed(s) - tick[r]
      BY <1>t, <1>0, <1>2, <2>1, OwedLess, ZenonT(30)
    <3>2. QED
      BY <1>s, <1>t, <1>0, <3>1, LostMore, ZenonT(30)
  <2>3. Ledger(s)!LoseTick
    BY <1>s, <1>k, <1>0, <1>2, <2>1, <2>2, ZenonT(30) DEF Ledger!LoseTick, Lost
  <2>4. ~Intact(s)'
    BY <1>s, <1>2, ZenonT(30) DEF Intact, Shutdowns
  <2>5. QED
    BY <2>3, <2>4, ZenonT(30) DEF Accounted, LedgerMove, Ledger!Next
<1>3. CASE ~closed[r] /\ link' = link /\ pending'[r] = pending[r] + tick[r]
  <2>1. Flight(s)' = Flight(s) /\ GrantSum(link'[r]) = GrantSum(link[r])
    BY <1>f, <1>3, ZenonT(30)
  <2>2. Lost(s)' = Lost(s)
    <3>1. Owed(s)' = Owed(s)
      BY <1>0, <1>3, <2>1, OwedSame, ZenonT(30)
    <3>2. QED
      BY <1>s, <1>t, <1>0, <3>1, ZenonT(30) DEF Lost, SenderSame
  <2>3. Ledger(s)!TickRestore
    BY <1>s, <1>k, <1>0, <1>3, <2>1, <2>2, ZenonT(30) DEF Ledger!TickRestore, Lost
  <2>4. QED
    BY <2>2, <2>3, ZenonT(30) DEF Accounted, LedgerMove, Ledger!Next
<1>4. CASE link' = Sent(r, Window(tick[r])) /\ pending'[r] = pending[r]
  <2>1. /\ Flight(s)' = Flight(s)
        /\ GrantSum(link'[r]) = GrantSum(link[r]) + (IF cut THEN 0 ELSE tick[r])
    BY <1>c, <1>w, WindowSums, <1>t, <1>4, ZenonT(30)
  <2>2. CASE cut
    <3>0. GrantSum(link'[r]) = GrantSum(link[r])
      BY <1>t, <2>1, <2>2, PlusZero, ZenonT(30)
    <3>1. Owed(s)' = Owed(s) - tick[r]
      BY <1>t, <1>0, <1>4, <2>1, <3>0, OwedLess, ZenonT(30)
    <3>2. Lost(s)' = Lost(s) + tick[r]
      BY <1>s, <1>t, <1>0, <3>1, LostMore, ZenonT(30)
    <3>3. Ledger(s)!LoseTick
      BY <1>s, <1>k, <1>0, <1>4, <2>1, <3>0, <3>2, Zenon DEF Ledger!LoseTick, Lost
    <3>4. ~Intact(s)'
      BY <1>s, <2>2, ZenonT(30) DEF Intact
    <3>5. QED
      BY <3>3, <3>4, ZenonT(30) DEF Accounted, LedgerMove, Ledger!Next
  <2>3. CASE ~cut
    <3>0. GrantSum(link'[r]) = GrantSum(link[r]) + tick[r]
      BY <2>1, <2>3, ZenonT(30)
    <3>1. Owed(s)' = Owed(s)
      BY <1>0, <1>4, <2>1, <3>0, OwedSame, ZenonT(30)
    <3>2. Lost(s)' = Lost(s)
      BY <1>s, <1>t, <1>0, <3>1, Zenon DEF Lost, SenderSame
    <3>3. Ledger(s)!TickSend
      BY <1>s, <1>k, <1>0, <1>4, <2>1, <3>0, <3>2, Zenon DEF Ledger!TickSend, Lost
    <3>4. QED
      BY <3>2, <3>3, ZenonT(30) DEF Accounted, LedgerMove, Ledger!Next
  <2>4. QED
    BY <2>2, <2>3, ZenonT(30)
<1>5. QED
  BY <1>1, <1>2, <1>3, <1>4, ZenonT(30)

-----------------------------------------------------------------------------
(* The end of inbound_pump, with whatever its queue still held: the        *)
(* ledger's PumpEnd.                                                       *)
LEMMA FlushStep ==
    ASSUME TypeInv, NEW s \in Ends, NEW r \in Ends, r = Peer(s), InFlush(r)
    PROVE  Accounted(s)
<1> DEFINE k == ByteSum(inq[r])
<1>0. s # r /\ Queues /\ Places /\ Counters
  BY PeerFacts, ZenonT(30) DEF TypeInv
<1>t. /\ n[s] \in Nat /\ charged[s] \in Nat /\ off[s] \in Nat /\ credits[s] \in Nat
      /\ pending[r] \in Nat /\ held[r] \in Nat /\ tick[r] \in Nat
      /\ granted[r] \in Nat /\ k \in Nat
      /\ Flight(s) \in Nat /\ GrantSum(link[r]) \in Nat /\ ByteSum(link[s]) \in Nat
  BY BookTypes, ZenonT(30)
<1>s. SenderSame(s) /\ credits' = credits
  BY InSame, ZenonT(30)
<1>k. UNCHANGED Ledger(s)!sender /\ Pc(s)' = Pc(s)
  BY <1>s, SenderKept, ZenonT(30)
<1>1. /\ ipc[r] = "flush" /\ ipc'[r] = "done" /\ inq'[r] = <<>> /\ held'[r] = 0
      /\ tick'[r] = tick[r] /\ granted'[r] = granted[r]
  BY <1>0, ZenonT(30) DEF InFlush, InUnchanged, Places, Queues, Counters
<1>u. held'[r] = 0 /\ tick'[r] = tick[r] /\ granted'[r] = granted[r]
  BY <1>1, ZenonT(30)
<1>2. \/ link' = link /\ pending'[r] = pending[r]
      \/ link' = link /\ pending'[r] = pending[r] + held[r]
      \/ link' = Sent(r, Window(held[r])) /\ pending'[r] = pending[r]
  BY <1>0, Zenon DEF InFlush, Counters
<1>w. Window(held[r]) \in Frames /\ Grant(Window(held[r])) = held[r]
  BY <1>t, FrameWeights, ZenonT(30)
<1>3. link'[s] = link[s]
  BY <1>0, <1>2, <1>w, Weightless, ZenonT(30)
<1>4. \/ GrantSum(link'[r]) = GrantSum(link[r]) /\ pending'[r] = pending[r]
      \/ GrantSum(link'[r]) = GrantSum(link[r]) /\ pending'[r] = pending[r] + held[r]
      \/ GrantSum(link'[r]) = GrantSum(link[r]) + held[r] /\ pending'[r] = pending[r]
  <2>1. cut => Sent(r, Window(held[r]))[r] = link[r]
    BY <1>0, <1>w, SentSums, ZenonT(30)
  <2>2. ~cut => GrantSum(Sent(r, Window(held[r]))[r]) = GrantSum(link[r]) + held[r]
    BY <1>0, <1>w, SentSums, ZenonT(30)
  <2>3. QED
    BY <1>2, <2>1, <2>2, ZenonT(30)
<1>5. /\ ByteSum(inq[r]) = k + ByteSum(inq'[r]) /\ ByteSum(inq'[r]) \in Nat
      /\ UNCHANGED <<ByteSum(link[s]), Hand(r)>>
  <2>1. ByteSum(inq'[r]) = 0 /\ 0 \in Nat
    BY <1>1, ByteSumFacts, ZenonT(30)
  <2>2. UNCHANGED <<ByteSum(link[s]), Hand(r)>>
    BY <1>1, <1>3, ZenonT(30) DEF Hand
  <2>3. QED
    BY <1>t, <2>1, <2>2, PlusZero, ZenonT(30)
<1> HIDE DEF k
<1>6. Flight(s)' = Flight(s) - k /\ k \in 0..Flight(s) /\ k \in Nat
  <2>1. Flight(s)' = Flight(s) - k /\ k <= Flight(s)
    BY <1>t, <1>5, FlightLess, ZenonT(30)
  <2>2. QED
    BY <1>t, <2>1, InRangeZero, ZenonT(30)
<1>7. ~Intact(s)'
  BY <1>1, ZenonT(30) DEF Intact
<1>8. CASE GrantSum(link'[r]) = GrantSum(link[r]) /\ pending'[r] = pending[r]
  <2>1. k + held[r] \in Nat
    BY <1>t, NatSum, ZenonT(30)
  <2>2. Lost(s)' = Lost(s) + k + held[r]
    <3>1. Owed(s)' = Owed(s) - (k + held[r])
      BY <1>6, <1>u, <1>8, <2>1, OwedEnd, ZenonT(30)
    <3> DEFINE heL == held[r]
               loL == Lost(s)
               nxL == Lost(s)'
    <3>2. nxL = loL + (k + heL) /\ loL \in Int /\ k \in Nat /\ heL \in Nat
      BY <1>s, <1>t, <1>u, <2>1, <3>1, LostMore, ZenonT(30)
    <3> HIDE DEF heL, loL, nxL
    <3>3. nxL = loL + k + heL
      BY <3>2, SMTT(30)
    <3>4. QED
      BY <3>3, ZenonT(30) DEF heL, loL, nxL
  <2>3. Ledger(s)!PumpEnd
    BY <1>s, <1>k, <1>1, <1>6, <1>8, <2>2, ZenonT(30) DEF Ledger!PumpEnd, Lost
  <2>4. QED
    BY <1>7, <2>3, ZenonT(30) DEF Accounted, LedgerMove, Ledger!Next
<1>9. CASE GrantSum(link'[r]) = GrantSum(link[r]) /\ pending'[r] = pending[r] + held[r]
  <2>1. Owed(s)' = Owed(s) - k
    BY <1>6, <1>u, <1>9, OwedEnd, ZenonT(30)
  <2>2. Lost(s)' = Lost(s) + k
    BY <1>6, <1>s, <1>u, <2>1, LostMore, ZenonT(30)
  <2>3. Ledger(s)!PumpEnd
    BY <1>s, <1>k, <1>1, <1>6, <1>9, <2>2, ZenonT(30) DEF Ledger!PumpEnd, Lost
  <2>4. QED
    BY <1>7, <2>3, ZenonT(30) DEF Accounted, LedgerMove, Ledger!Next
<1>10. CASE GrantSum(link'[r]) = GrantSum(link[r]) + held[r] /\ pending'[r] = pending[r]
  <2>1. Owed(s)' = Owed(s) - k
    BY <1>6, <1>u, <1>10, OwedEnd, ZenonT(30)
  <2>2. Lost(s)' = Lost(s) + k
    BY <1>6, <1>s, <1>u, <2>1, LostMore, ZenonT(30)
  <2>3. Ledger(s)!PumpEnd
    BY <1>s, <1>k, <1>1, <1>6, <1>10, <2>2, ZenonT(30) DEF Ledger!PumpEnd, Lost
  <2>4. QED
    BY <1>7, <2>3, ZenonT(30) DEF Accounted, LedgerMove, Ledger!Next
<1>11. QED
  BY <1>4, <1>8, <1>9, <1>10, ZenonT(30)

(* The reader and the teardown leave the sender's half, and the credit in  *)
(* the receiver's hands, alone.                                            *)
LEMMA ReadSame ==
    ASSUME NEW s \in Ends, NEW x \in Ends,
           \/ ReadData(x) \/ ReadWindow(x) \/ ReadClose(x) \/ ReadLast(x)
           \/ ReadEof(x) \/ SessionClose(x)
    PROVE  /\ SenderSame(s)
           /\ UNCHANGED <<cur, ipc, pending, held, tick, granted>>
           /\ (ReadWindow(x) \/ UNCHANGED credits)
           /\ (ReadData(x) \/ inq' = inq \/ inq' = AbortTried(x))
           /\ (ReadWindow(x) => inq' = inq)
BY Zenon DEF ReadData, ReadWindow, ReadClose, ReadLast, ReadEof, SessionClose, ReaderExit, Teardown,
       ReadUnchanged, outVars, inVars, SenderSame

(* A session that closes leaves the books alone: its GOAWAY weighs         *)
(* nothing.                                                                *)
LEMMA CloseStep ==
    ASSUME TypeInv, NEW s \in Ends, NEW x \in Ends, SessionClose(x) \/ ReadEof(x)
    PROVE  Accounted(s)
<1> DEFINE r == Peer(s)
<1>0. r \in Ends /\ Queues
  BY PeerFacts, ZenonT(30) DEF TypeInv
<1>s. /\ SenderSame(s) /\ credits' = credits
      /\ UNCHANGED <<cur, ipc, pending, held, tick, granted>>
      /\ inq' = inq \/ inq' = AbortTried(x)
  <2>1. ~ReadWindow(x) => credits' = credits
    BY ReadSame, ZenonT(30)
  <2>2. credits' = credits
    BY ZenonT(30) DEF SessionClose, ReadEof
  <2>3. inq' = inq \/ inq' = AbortTried(x)
    BY ZenonT(30) DEF SessionClose, ReadEof, ReaderExit, Teardown
  <2>4. QED
    BY <2>2, <2>3, ReadSame, ZenonT(30)
<1>k. Pc(s)' = Pc(s)
  BY <1>s, SenderKept, ZenonT(30)
<1>1. link' = link \/ link' = Sent(x, Goaway)
  BY ZenonT(30) DEF SessionClose, ReadEof
<1>2. Goaway \in Frames /\ Bytes(Goaway) = 0 /\ Grant(Goaway) = 0
  BY FrameWeights, ZenonT(30)
<1>3. ByteSum(link'[s]) = ByteSum(link[s]) /\ GrantSum(link'[r]) = GrantSum(link[r])
  BY <1>0, <1>1, <1>2, Weightless, ZenonT(30)
<1>4. ByteSum(inq'[r]) = ByteSum(inq[r])
  BY <1>0, <1>s, AbortSums, ZenonT(30)
<1>5. Flight(s)' = Flight(s)
  BY <1>s, <1>3, <1>4, ZenonT(30) DEF Flight, Buffered
<1> HIDE DEF r
<1>6. QED
  BY <1>s, <1>k, <1>3, <1>5, Quiet, Zenon DEF SenderSame, r

(* The reader of the sending end: a grant arrives (the ledger's Receive),  *)
(* or is lost for a forgotten stream (LoseGrant).                          *)
LEMMA SenderReads ==
    ASSUME TypeInv, Shutdowns, NEW s \in Ends,
           ReadData(s) \/ ReadWindow(s) \/ ReadClose(s) \/ ReadLast(s)
    PROVE  Accounted(s)
<1> DEFINE r == Peer(s)
           f == Head(link[r])
           d == Grant(f)
<1>0. r \in Ends /\ r # s /\ Peer(r) = s /\ Queues /\ Counters /\ Flags
  BY PeerFacts, ZenonT(30) DEF TypeInv
<1>t. /\ n[s] \in Nat /\ charged[s] \in Nat /\ off[s] \in Nat /\ credits[s] \in Nat
      /\ pending[r] \in Nat /\ held[r] \in Nat /\ tick[r] \in Nat
      /\ granted[r] \in Nat
      /\ Flight(s) \in Nat /\ GrantSum(link[r]) \in Nat /\ ByteSum(link[s]) \in Nat
  BY BookTypes, ZenonT(30)
<1>s. /\ SenderSame(s)
      /\ UNCHANGED <<cur, ipc, pending, held, tick, granted>>
      /\ (ReadWindow(s) \/ UNCHANGED credits)
  BY ReadSame, ZenonT(30)
<1>k. UNCHANGED Ledger(s)!sender /\ Pc(s)' = Pc(s)
  BY <1>s, SenderKept, ZenonT(30)
<1>i. inq'[r] = inq[r]
  <2>1. CASE ReadData(s)
    BY <1>0, <2>1, ZenonT(30) DEF ReadData, Queues
  <2>2. CASE ~ReadData(s)
    <3>1. inq' = inq \/ inq' = AbortTried(s)
      BY <2>2, ReadSame, ZenonT(30)
    <3>2. QED
      BY <1>0, <3>1, ZenonT(30) DEF AbortTried, Queues
  <2>3. QED
    BY <2>1, <2>2, ZenonT(30)
<1>u. pending'[r] = pending[r] /\ held'[r] = held[r] /\ tick'[r] = tick[r] /\ granted'[r] = granted[r]
  BY <1>s, ZenonT(30)
<1>1. Incoming(s) # <<>> /\ Incoming(s) = link[r] /\ (link' = Popped(s) \/ link' = link)
  BY ZenonT(30) DEF ReadData, ReadWindow, ReadClose, ReadLast, CanRead, Incoming
<1>2. f \in Frames /\ d \in Nat
  <2>1. link[r] \in Seq(Frames) /\ link[r] # <<>>
    BY <1>0, <1>1, ZenonT(30) DEF Queues
  <2>2. QED
    BY <2>1, HeadFrame, GrantNat, ZenonT(30)
<1> HIDE DEF r, f, d
<1>3. link'[s] = link[s]
  BY <1>0, <1>1, PoppedSums, ZenonT(30) DEF r
<1>4. Flight(s)' = Flight(s)
  BY <1>i, <1>s, <1>3, ZenonT(30) DEF Flight, Buffered, r
<1>5. ASSUME link' = Popped(s)
      PROVE  GrantSum(link'[r]) = GrantSum(link[r]) - d /\ d <= GrantSum(link[r])
  <2>1. GrantSum(link[r]) = d + GrantSum(Popped(s)[r]) /\ Popped(s)[r] \in Seq(Frames)
    BY <1>0, <1>1, PoppedSums, ZenonT(30) DEF r, f, d
  <2>2. GrantSum(Popped(s)[r]) \in Nat
    BY <2>1, GrantSumFacts, ZenonT(30)
  <2>3. QED
    <3> DEFINE gs == GrantSum(link[r])
               gp == GrantSum(Popped(s)[r])
    <3>1. gs = d + gp /\ gp \in Nat /\ GrantSum(link'[r]) = gp
      BY <1>5, <2>1, <2>2, ZenonT(30)
    <3> HIDE DEF gs, gp
    <3>2. gp = gs - d /\ d <= gs
      BY <1>2, <3>1, SMTT(30)
    <3>3. QED
      BY <3>1, <3>2, ZenonT(30) DEF gs
<1>6. CASE GrantSum(link'[r]) = GrantSum(link[r]) /\ credits' = credits
  BY <1>s, <1>k, <1>4, <1>6, Quiet, ZenonT(30) DEF SenderSame, r
<1>7. ASSUME link' = Popped(s), d # 0, credits' = credits, ~Intact(s)'
      PROVE  Accounted(s)
  <2>1. d \in 1..GrantSum(link[r])
    BY <1>2, <1>5, <1>7, <1>t, InRange, ZenonT(30)
  <2>2. GrantSum(link'[r]) = GrantSum(link[r]) - d
    BY <1>5, <1>7, ZenonT(30)
  <2>3. Owed(s)' = Owed(s) - d
    BY <1>u, <1>2, <1>4, <2>2, OwedLess, ZenonT(30) DEF r
  <2>4. Lost(s)' = Lost(s) + d
    BY <1>s, <1>u, <1>2, <1>7, <2>3, LostMore, ZenonT(30) DEF r
  <2>5. Ledger(s)!LoseGrant
    BY <1>s, <1>k, <1>4, <1>7, <2>1, <2>2, <2>4, Zenon DEF Ledger!LoseGrant, Ledger!receiver, Lost, r
  <2>6. QED
    BY <1>7, <2>5, ZenonT(30) DEF Accounted, LedgerMove, Ledger!Next
<1>8. CASE d = 0 /\ credits' = credits
  <2>1. GrantSum(link'[r]) = GrantSum(link[r])
    <3>1. GrantSum(link'[r]) = GrantSum(link[r]) - 0 \/ GrantSum(link'[r]) = GrantSum(link[r])
      BY <1>1, <1>5, <1>8, ZenonT(30)
    <3>2. GrantSum(link[r]) \in Nat
      BY <1>t, ZenonT(30)
    <3>3. QED
      BY <3>1, <3>2, MinusZero, ZenonT(30)
  <2>2. QED
    BY <1>6, <1>8, <2>1, ZenonT(30)
<1>9. CASE ReadWindow(s)
  <2>1. link' = Popped(s) /\ reg' = reg /\ f.t = "WINDOW" /\ f.delta = d
    BY <1>1, <1>9, ZenonT(30) DEF ReadWindow, f, d, Grant
  <2>2. credits' = IF reg[s] THEN [credits EXCEPT ![s] = @ + d] ELSE credits
    BY <1>1, <1>9, <2>1, Zenon DEF ReadWindow, f
  <2>3. CASE ~reg[s]
    <3>1. credits' = credits /\ ~Intact(s)'
      BY <2>1, <2>2, <2>3, ZenonT(30) DEF Intact
    <3>2. QED
      BY <1>7, <1>8, <2>1, <3>1, ZenonT(30)
  <2>4. CASE reg[s] /\ d = 0
    <3>1. credits' = credits
      <4>1. credits' = [credits EXCEPT ![s] = @ + 0] /\ credits[s] + 0 = credits[s]
        BY <1>t, <2>2, <2>4, PlusZero, ZenonT(30)
      <4>2. QED
        BY <1>0, <4>1, ZenonT(30) DEF Counters
    <3>2. QED
      BY <1>8, <2>4, <3>1, ZenonT(30)
  <2>5. CASE reg[s] /\ d # 0
    <3>1. credits'[s] = credits[s] + d
      BY <1>0, <2>2, <2>5, ZenonT(30) DEF Counters
    <3>2. GrantSum(link'[r]) = GrantSum(link[r]) - d /\ d \in 1..GrantSum(link[r])
      <4>1. GrantSum(link'[r]) = GrantSum(link[r]) - d /\ d <= GrantSum(link[r])
        BY <1>5, <2>1, ZenonT(30)
      <4>2. GrantSum(link[r]) \in Nat /\ d # 0
        BY <1>t, <2>5, ZenonT(30)
      <4>3. d \in 1..GrantSum(link[r])
        BY <1>2, <4>1, <4>2, InRange, ZenonT(30)
      <4>4. QED
        BY <4>1, <4>3, ZenonT(30)
    <3>3. Owed(s)' = Owed(s) - d
      BY <1>u, <1>2, <1>4, <3>2, OwedLess, ZenonT(30) DEF r
    <3>4. Lost(s)' = Lost(s)
      BY <1>s, <1>u, <1>2, <3>1, <3>3, LostEven, ZenonT(30) DEF r
    <3>5. Ledger(s)!Receive
      BY <1>s, <1>k, <1>4, <3>1, <3>2, <3>4, ZenonT(30) DEF Ledger!Receive, Ledger!receiver, Lost, r
    <3>6. QED
      BY <3>4, <3>5, ZenonT(30) DEF Accounted, LedgerMove, Ledger!Next
  <2>6. QED
    BY <2>3, <2>4, <2>5, ZenonT(30)
<1>10. CASE ReadData(s) \/ ReadClose(s)
  <2>1. f.t # "WINDOW" /\ credits' = credits
    BY <1>1, <1>10, Zenon DEF ReadData, ReadClose, f
  <2>2. d = 0
    BY <2>1, ZenonT(30) DEF d, Grant
  <2>3. QED
    BY <1>8, <2>1, <2>2, ZenonT(30)
<1>11. CASE ReadLast(s)
  <2>1. link' = Popped(s) /\ credits' = credits
    BY <1>11, ZenonT(30) DEF ReadLast
  <2>2. ~reg'[s]
    <3>1. CASE closed[s]
      <4>1. reg' = reg
        BY <1>11, <3>1, ZenonT(30) DEF ReadLast, ReaderExit
      <4>2. QED
        BY <3>1, <4>1, ZenonT(30) DEF Shutdowns
    <3>2. CASE ~closed[s]
      BY <1>0, <1>11, <3>2, ZenonT(30) DEF ReadLast, ReaderExit, Teardown, Flags
    <3>3. QED
      BY <3>1, <3>2, ZenonT(30)
  <2>3. ~Intact(s)'
    BY <2>2, ZenonT(30) DEF Intact
  <2>4. QED
    BY <1>7, <1>8, <2>1, <2>3, ZenonT(30)
<1>12. QED
  BY <1>9, <1>10, <1>11, ZenonT(30)

(* The reader of the receiving end: a frame moves on to the pump, or is    *)
(* lost for a forgotten stream or an ended pump (LoseData).                *)
LEMMA ReceiverReads ==
    ASSUME TypeInv, Shutdowns, NEW s \in Ends, NEW r \in Ends, r = Peer(s),
           ReadData(r) \/ ReadWindow(r) \/ ReadClose(r) \/ ReadLast(r)
    PROVE  Accounted(s)
<1> DEFINE f == Head(link[s])
           k == Bytes(f)
<1>0. r # s /\ Peer(r) = s /\ Queues /\ Counters /\ Flags
  BY PeerFacts, ZenonT(30) DEF TypeInv
<1>t. /\ n[s] \in Nat /\ charged[s] \in Nat /\ off[s] \in Nat /\ credits[s] \in Nat
      /\ pending[r] \in Nat /\ held[r] \in Nat /\ tick[r] \in Nat
      /\ granted[r] \in Nat
      /\ Flight(s) \in Nat /\ GrantSum(link[r]) \in Nat /\ ByteSum(link[s]) \in Nat
      /\ ByteSum(inq[r]) \in Nat /\ Bytes(cur[r]) \in Nat
  BY BookTypes, ZenonT(30)
<1>s. /\ SenderSame(s)
      /\ UNCHANGED <<cur, ipc, pending, held, tick, granted>>
  BY ReadSame, ZenonT(30)
<1>c. credits'[s] = credits[s]
  BY <1>0, Zenon DEF ReadData, ReadWindow, ReadClose, ReadLast, Counters
<1>k. UNCHANGED Ledger(s)!sender /\ Pc(s)' = Pc(s)
  BY <1>s, SenderKept, ZenonT(30)
<1>u. pending'[r] = pending[r] /\ held'[r] = held[r] /\ tick'[r] = tick[r] /\ granted'[r] = granted[r]
  BY <1>s, ZenonT(30)
<1>f. Hand(r)' = Hand(r)
  BY <1>s, ZenonT(30) DEF Hand
<1>1. Incoming(r) # <<>> /\ Incoming(r) = link[s] /\ (link' = Popped(r) \/ link' = link)
  BY <1>0, ZenonT(30) DEF ReadData, ReadWindow, ReadClose, ReadLast, CanRead, Incoming
<1>2. f \in Frames /\ k \in Nat
  <2>1. link[s] \in Seq(Frames) /\ link[s] # <<>>
    BY <1>0, <1>1, ZenonT(30) DEF Queues
  <2>2. QED
    BY <2>1, HeadFrame, FrameFacts, Zenon
<1> HIDE DEF f, k
<1>3. link'[r] = link[r]
  BY <1>0, <1>1, PoppedSums, ZenonT(30)
<1>4. ASSUME link' = Popped(r)
      PROVE  ByteSum(link[s]) = k + ByteSum(link'[s]) /\ ByteSum(link'[s]) \in Nat
  <2>1. ByteSum(link[s]) = k + ByteSum(Popped(r)[s]) /\ Popped(r)[s] \in Seq(Frames)
    BY <1>0, <1>1, PoppedSums, ZenonT(30) DEF f, k
  <2>2. QED
    BY <1>4, <2>1, ByteSumFacts, ZenonT(30)
<1>5. CASE Flight(s)' = Flight(s)
  BY <1>s, <1>k, <1>u, <1>c, <1>3, <1>5, Quiet, ZenonT(30) DEF SenderSame
<1>6. ASSUME link' = Popped(r), ByteSum(inq'[r]) = ByteSum(inq[r]), k = 0 \/ ~Intact(s)'
      PROVE  Accounted(s)
  <2>1. Flight(s)' = Flight(s) - k /\ k <= Flight(s)
    BY <1>2, <1>4, <1>6, <1>f, FlightLess, ZenonT(30)
  <2>2. CASE k = 0
    BY <1>5, <1>t, <2>1, <2>2, MinusZero, ZenonT(30)
  <2>3. CASE k # 0
    <3>1. k \in 1..Flight(s) /\ Flight(s)' = Flight(s) - k
      BY <1>2, <1>t, <2>1, <2>3, InRange, ZenonT(30)
    <3>2. Owed(s)' = Owed(s) - k
      BY <1>u, <1>2, <1>3, <3>1, OwedLess, ZenonT(30)
    <3>3. Lost(s)' = Lost(s) + k
      BY <1>s, <1>c, <1>u, <1>2, <3>2, LostMore, ZenonT(30)
    <3>4. Ledger(s)!LoseData
      BY <1>s, <1>k, <1>c, <1>u, <1>3, <3>1, <3>3, ZenonT(30) DEF Ledger!LoseData, Ledger!receiver, Lost
    <3>5. QED
      BY <1>6, <2>3, <3>4, ZenonT(30) DEF Accounted, LedgerMove, Ledger!Next
  <2>4. QED
    BY <2>2, <2>3, ZenonT(30)
<1>7. CASE ReadData(r)
  <2>1. CASE link' = Popped(r) /\ inq' = inq /\ (ipc[r] = "done" \/ ~reg[r])
    <3>1. ~Intact(s)'
      BY <1>7, <1>s, <2>1, ZenonT(30) DEF Intact, ReadData
    <3>2. QED
      BY <1>6, <2>1, <3>1, ZenonT(30)
  <2>2. CASE link' = Popped(r) /\ inq'[r] = Append(inq[r], f)
    <3>1. ByteSum(inq'[r]) = ByteSum(inq[r]) + k
      BY <1>0, <1>2, <2>2, ByteSumFacts, ZenonT(30) DEF Queues, k
    <3>2. Flight(s)' = Flight(s)
      <4>1. ByteSum(link[s]) = k + ByteSum(link'[s]) /\ ByteSum(link'[s]) \in Nat
        BY <1>4, <2>2, ZenonT(30)
      <4>2. 0 \in Nat
        BY SMTT(30)
      <4>3. Flight(s)' = Flight(s) + 0
        BY <1>2, <1>f, <3>1, <4>1, <4>2, FlightMore, ZenonT(30)
      <4>4. QED
        BY <1>t, <4>3, PlusZero, ZenonT(30)
    <3>3. QED
      BY <1>5, <3>2, ZenonT(30)
  <2>3. CASE link' = link /\ inq' = inq
    BY <1>5, <1>s, <2>3, ZenonT(30) DEF Flight, Buffered
  <2>4. QED
    BY <1>0, <1>1, <1>7, <2>1, <2>2, <2>3, ZenonT(30) DEF ReadData, Queues, f
<1>8. CASE ReadWindow(r) \/ ReadClose(r)
  <2>1. f.t # "DATA" /\ link' = Popped(r) /\ (inq' = inq \/ inq' = AbortTried(r))
    BY <1>1, <1>8, ZenonT(30) DEF ReadWindow, ReadClose, f
  <2>2. k = 0
    BY <2>1, ZenonT(30) DEF k, Bytes
  <2>3. QED
    BY <1>0, <1>6, <2>1, <2>2, AbortSums, ZenonT(30)
<1>9. CASE ReadLast(r)
  <2>1. link' = Popped(r) /\ (inq' = inq \/ inq' = AbortTried(r))
    BY <1>9, ZenonT(30) DEF ReadLast, ReaderExit, Teardown
  <2>2. ~reg'[r]
    <3>1. CASE closed[r]
      <4>1. reg' = reg
        BY <1>9, <3>1, ZenonT(30) DEF ReadLast, ReaderExit
      <4>2. QED
        BY <3>1, <4>1, ZenonT(30) DEF Shutdowns
    <3>2. CASE ~closed[r]
      BY <1>0, <1>9, <3>2, ZenonT(30) DEF ReadLast, ReaderExit, Teardown, Flags
    <3>3. QED
      BY <3>1, <3>2, ZenonT(30)
  <2>3. ~Intact(s)'
    BY <2>2, ZenonT(30) DEF Intact
  <2>4. QED
    BY <1>0, <1>6, <2>1, <2>3, AbortSums, ZenonT(30)
<1>10. QED
  BY <1>7, <1>8, <1>9, ZenonT(30)

(* What is torn stays torn: no step makes a stream intact. *)
LEMMA IntactBefore ==
    ASSUME TypeInv, [Next]_vars, NEW s \in Ends, Intact(s)'
    PROVE  Intact(s)
<1> DEFINE r == Peer(s)
<1>0. r \in Ends /\ Flags /\ Places
  BY PeerFacts, Zenon DEF TypeInv
<1>1. ~cut' /\ reg'[s] /\ reg'[r] /\ ipc'[r] \notin {"swap", "flush", "done"}
  BY Zenon DEF Intact
<1> HIDE DEF r
<1> DEFINE B == ~cut /\ reg[s] /\ reg[r]
           I == ipc[r] \notin {"swap", "flush", "done"}
<1>2. B
  <2>1. CASE UNCHANGED <<reg, cut>>
    BY <1>1, <2>1, ZenonT(30)
  <2>2. CASE Cut
    BY <1>1, <2>2, ZenonT(30) DEF Cut
  <2>3. ASSUME NEW x \in Ends, AppWrite(x) \/ AppShutdown(x) PROVE B
    BY <2>1, <2>3, ZenonT(30) DEF AppWrite, AppShutdown, sesVars
  <2>4. ASSUME NEW x \in Ends, AppDrop(x) \/ OutRetire(x) PROVE B
    BY <1>0, <1>1, <2>4, ZenonT(30) DEF AppDrop, OutRetire, TryRetire, OutUnchanged, sesVars, Flags
  <2>5. ASSUME NEW x \in Ends,
               \/ OutRead(x) \/ OutEof(x) \/ OutAcquire(x) \/ OutFail(x) \/ OutSend(x) \/ OutEnd(x)
        PROVE  B
    BY <2>1, <2>5, Zenon DEF OutRead, OutEof, OutAcquire, OutFail, OutSend, OutEnd, OutUnchanged, sesVars
  <2>6. ASSUME NEW x \in Ends,
               \/ InData(x) \/ InWrite(x) \/ InDrain(x) \/ InWindow(x) \/ InGrow(x) \/ InNoGrow(x)
               \/ InEnd(x) \/ InDecodeFail(x) \/ InSwap(x) \/ InFlush(x)
               \/ TickSwap(x) \/ TickSend(x)
        PROVE  B
    BY <2>1, <2>6, InSame, ZenonT(30)
  <2>7. ASSUME NEW x \in Ends, SessionClose(x) \/ ReadEof(x) \/ ReadLast(x) PROVE B
    BY <1>0, <1>1, <2>7, ZenonT(30) DEF SessionClose, ReadEof, ReadLast, ReaderExit, Teardown, Flags
  <2>8. ASSUME NEW x \in Ends, ReadData(x) \/ ReadWindow(x) \/ ReadClose(x) PROVE B
    BY <2>1, <2>8, ZenonT(30) DEF ReadData, ReadWindow, ReadClose, sesVars
  <2>9. CASE UNCHANGED vars
    BY <2>1, <2>9, ZenonT(30) DEF vars, sesVars
  <2>10. QED
    BY <2>2, <2>3, <2>4, <2>5, <2>6, <2>7, <2>8, <2>9, ZenonT(30) DEF Next
<1>3. I
  <2>1. CASE ipc' = ipc
    BY <1>1, <2>1, ZenonT(30)
  <2>2. ASSUME NEW x \in Ends,
               \/ InData(x) \/ InWrite(x) \/ InDrain(x) \/ InWindow(x) \/ InGrow(x) \/ InNoGrow(x)
               \/ InEnd(x) \/ InDecodeFail(x) \/ InSwap(x) \/ InFlush(x)
        PROVE  I
    <3>1. CASE x = r
      BY <1>0, <1>1, <2>2, <3>1, Zenon
         DEF InData, InWrite, InDrain, InWindow, InGrow, InNoGrow, InEnd, InDecodeFail, InSwap,
             InFlush, Places
    <3>2. CASE x # r
      <4>1. ipc'[r] = ipc[r]
        BY <1>0, <2>2, <3>2, Zenon
           DEF InData, InWrite, InDrain, InWindow, InGrow, InNoGrow, InEnd, InDecodeFail, InSwap,
               InFlush, Places
      <4>2. QED
        BY <1>1, <4>1, ZenonT(30)
    <3>3. QED
      BY <3>1, <3>2, ZenonT(30)
  <2>3. CASE Cut \/ \E x \in Ends :
               \/ AppWrite(x) \/ AppShutdown(x) \/ AppDrop(x)
               \/ OutRead(x) \/ OutEof(x) \/ OutAcquire(x) \/ OutFail(x) \/ OutSend(x) \/ OutEnd(x)
               \/ OutRetire(x)
    BY <2>1, <2>3, Zenon DEF Cut, AppWrite, AppShutdown, AppDrop, OutRead, OutEof, OutAcquire, OutFail,
                      OutSend, OutEnd, OutRetire, OutUnchanged, inVars
  <2>4. CASE \E x \in Ends :
               \/ TickSwap(x) \/ TickSend(x) \/ SessionClose(x) \/ ReadEof(x)
               \/ ReadData(x) \/ ReadWindow(x) \/ ReadClose(x) \/ ReadLast(x)
    BY <2>1, <2>4, Zenon DEF TickSwap, TickSend, SessionClose, ReadEof, ReadData, ReadWindow, ReadClose,
                      ReadLast, ReadUnchanged, inVars
  <2>5. CASE UNCHANGED vars
    BY <2>1, <2>5, ZenonT(30) DEF vars, inVars
  <2>6. QED
    BY <2>2, <2>3, <2>4, <2>5, ZenonT(30) DEF Next
<1>4. QED
  BY <1>2, <1>3, ZenonT(30) DEF Intact, r

-----------------------------------------------------------------------------
(* Every step of the two ends is a step of the ledger of each direction. *)
LEMMA LedgerStep ==
    ASSUME TypeInv, SendLoop, Shutdowns, HeldInv, [Next]_vars, NEW s \in Ends
    PROVE  Accounted(s)
<1> DEFINE r == Peer(s)
<1>0. r \in Ends /\ \A x \in Ends : x = s \/ x = r
  BY PeerFacts, ZenonT(30)
<1>1. CASE Cut
  BY <1>1, AppPassive, ZenonT(30)
<1>2. ASSUME NEW x \in Ends, AppWrite(x) \/ AppShutdown(x) \/ AppDrop(x) PROVE Accounted(s)
  BY <1>2, AppPassive, ZenonT(30)
<1>3. ASSUME NEW x \in Ends,
             \/ OutRead(x) \/ OutEof(x) \/ OutAcquire(x) \/ OutFail(x)
             \/ OutSend(x) \/ OutEnd(x) \/ OutRetire(x)
      PROVE  Accounted(s)
  <2>1. CASE x = s
    BY <1>3, <2>1, ReadStep, EofStep, AcquireStep, FailStep, SendStep,
                      SenderEndStep, ZenonT(30)
  <2>2. CASE x = r
    BY <1>0, <1>3, <2>2, ReceiverSends, ZenonT(30)
  <2>3. QED
    BY <1>0, <2>1, <2>2, ZenonT(30)
<1>4. ASSUME NEW x \in Ends,
             \/ InData(x) \/ InWrite(x) \/ InDrain(x) \/ InWindow(x) \/ InGrow(x) \/ InNoGrow(x)
             \/ InEnd(x) \/ InDecodeFail(x) \/ InSwap(x) \/ InFlush(x)
             \/ TickSwap(x) \/ TickSend(x)
      PROVE  Accounted(s)
  <2>1. CASE x = s
    BY <1>4, <2>1, SenderReceives, ZenonT(30)
  <2>2. CASE x = r
    BY <1>0, <1>4, <2>2, DequeueStep, WriteStep, EndStep, NoGrowStep,
       DecodeFailStep, DrainStep, GrowStep, WindowStep, TickSwapStep, TickSendStep, FlushStep, ZenonT(30)
  <2>3. QED
    BY <1>0, <2>1, <2>2, ZenonT(30)
<1>5. ASSUME NEW x \in Ends, SessionClose(x) \/ ReadEof(x) PROVE Accounted(s)
  BY <1>5, CloseStep, ZenonT(30)
<1>6. ASSUME NEW x \in Ends, ReadData(x) \/ ReadWindow(x) \/ ReadClose(x) \/ ReadLast(x)
      PROVE  Accounted(s)
  <2>1. CASE x = s
    BY <1>6, <2>1, SenderReads, ZenonT(30)
  <2>2. CASE x = r
    BY <1>0, <1>6, <2>2, ReceiverReads, ZenonT(30)
  <2>3. QED
    BY <1>0, <2>1, <2>2, ZenonT(30)
<1>7. CASE UNCHANGED vars
  <2>1. UNCHANGED <<opc, clean, n, charged, off, credits, link, inq, ipc, cur, pending, held, tick, granted>>
    BY <1>7, ZenonT(30) DEF vars, outVars, inVars
  <2>2. Pc(s)' = Pc(s) /\ Flight(s)' = Flight(s)
    BY <2>1, ZenonT(30) DEF Pc, Flight, Buffered
  <2>3. QED
    BY <2>1, <2>2, Quiet, ZenonT(30)
<1>8. QED
  BY <1>1, <1>2, <1>3, <1>4, <1>5, <1>6, <1>7, ZenonT(30) DEF Next

-----------------------------------------------------------------------------
(* The inductive invariant of CreditBalance: the tasks keep to their       *)
(* places, the inbound pump's hands are empty where they should be, and    *)
(* the books balance.                                                      *)
CreditInv == PumpInv /\ HeldInv /\ CreditBalance
Balanced(s) == credits[s] + Owed(s) + charged[s] = granted[Peer(s)] + off[s]

(* The balance says that nothing is lost. *)
LEMMA BalanceIsLost == TypeInv => \A s \in Ends : Lost(s) = 0 <=> Balanced(s)
<1> SUFFICES ASSUME TypeInv, NEW s \in Ends PROVE Lost(s) = 0 <=> Balanced(s)
  BY Zenon
<1>1. /\ charged[s] \in Nat /\ off[s] \in Nat /\ credits[s] \in Nat /\ granted[Peer(s)] \in Nat
      /\ Owed(s) \in Nat
  BY BookTypes, OwedNat, ZenonT(30)
<1>2. QED
  BY <1>1 DEF Lost, Balanced

(* The books open balanced, in the ledger's initial state. *)
LEMMA BooksOpen == Init => /\ HeldInv /\ CreditBalance
                           /\ \A s \in Ends : Ledger(s)!Init
<1> SUFFICES ASSUME Init PROVE HeldInv /\ CreditBalance /\ \A s \in Ends : Ledger(s)!Init
  BY ZenonT(30)
<1>1. HeldInv
  BY Zenon DEF Init, HeldInv
<1>2. ASSUME NEW s \in Ends
      PROVE  Ledger(s)!Init /\ credits[s] + Owed(s) + charged[s] = granted[Peer(s)] + off[s]
  <2> DEFINE r == Peer(s)
  <2>1. r \in Ends
    BY PeerFacts, ZenonT(30)
  <2>2. /\ opc[s] = "read" /\ n[s] = 0 /\ charged[s] = 0 /\ off[s] = 0 /\ credits[s] = RxWindow
        /\ link[s] = <<>> /\ link[r] = <<>> /\ inq[r] = <<>> /\ ipc[r] = "recv"
        /\ pending[r] = 0 /\ held[r] = 0 /\ tick[r] = 0 /\ granted[r] = RxWindow
    BY <2>1, ZenonT(30) DEF Init
  <2>3. Flight(s) = 0 /\ GrantSum(link[r]) = 0
    <3>1. Flight(s) = 0 + (0 + 0) /\ GrantSum(link[r]) = 0
      BY <2>2, ByteSumFacts, GrantSumFacts, ZenonT(30) DEF Flight, Buffered
    <3>2. 0 + (0 + 0) = 0
      BY SMTT(30)
    <3>3. QED
      BY <3>1, <3>2, ZenonT(30)
  <2>4. Owed(s) = 0
    <3>1. Owed(s) = 0 + 0 + 0 + 0 + 0
      BY <2>2, <2>3, ZenonT(30) DEF Owed
    <3>2. 0 + 0 + 0 + 0 + 0 = 0
      BY SMTT(30)
    <3>3. QED
      BY <3>1, <3>2, ZenonT(30)
  <2>5. RxWindow \in Nat
    BY StreamAssumption
  <2>6. QED
    BY <2>2, <2>3, <2>4, <2>5 DEF Ledger!Init
<1>3. QED
  BY <1>1, <1>2, ZenonT(30) DEF CreditBalance

(* The invariant of the credit is inductive. *)
LEMMA CreditInvStep == CreditInv /\ [Next]_vars => CreditInv'
<1> SUFFICES ASSUME CreditInv, [Next]_vars PROVE CreditInv'
  BY Zenon
<1>1. PumpInv' /\ HeldInv'
  BY PumpStep, HeldStep, ZenonT(30) DEF CreditInv, PumpInv
<1>2. TypeInv /\ SendLoop /\ Shutdowns /\ HeldInv /\ TypeInv'
  BY <1>1 DEF CreditInv, PumpInv
<1>p. (TypeInv => \A s \in Ends : Lost(s) = 0 <=> Balanced(s))'
  BY BalanceIsLost, PTL
<1>3. ASSUME NEW s \in Ends, Intact(s)'
      PROVE  Balanced(s)'
  <2>1. Intact(s)
    BY <1>2, <1>3, IntactBefore, ZenonT(30)
  <2>2. Lost(s) = 0
    BY <1>2, <2>1, BalanceIsLost, ZenonT(30) DEF CreditInv, CreditBalance, Balanced
  <2>3. Accounted(s)
    BY <1>2, LedgerStep, ZenonT(30)
  <2>4. Lost(s)' = 0
    BY <1>3, <2>2, <2>3, ZenonT(30) DEF Accounted
  <2>5. QED
    BY <1>p, <1>2, <2>4, ZenonT(30)
<1>4. QED
  BY <1>1, <1>3, ZenonT(30) DEF CreditInv, CreditBalance, Balanced

(* For every window, threshold, frame size, queue bound and fault: while   *)
(* both ends have the stream and the receiver's pump runs, the sender's    *)
(* credits and all credit on its way back to it are the window granted so  *)
(* far, however the swaps and restores of credit_ticker and inbound_pump   *)
(* interleave.                                                             *)
THEOREM StreamCreditBalance == Spec => []CreditBalance
<1>1. Init => CreditInv
  BY PumpInit, BooksOpen, ZenonT(30) DEF CreditInv
<1>2. CreditInv => CreditBalance
  BY DEF CreditInv
<1>3. QED
  BY <1>1, <1>2, CreditInvStep, PTL DEF Spec

(* For the same instances, every step of the two ends, the faults          *)
(* included, is a step of CreditLedger in each direction or leaves it      *)
(* alone: what is proved of the ledger (no credit created, the overdraft   *)
(* bounded by a chunk, no wedged sender) holds of the stream.              *)
THEOREM StreamImplementsLedger == Spec => ImplementsLedger
<1>1. Init => CreditInv /\ \A s \in Ends : Ledger(s)!Init
  BY PumpInit, BooksOpen, ZenonT(30) DEF CreditInv
<1>2. CreditInv /\ [Next]_vars => \A s \in Ends : Ledger(s)!Next \/ UNCHANGED Ledger(s)!vars
  BY LedgerStep, Zenon DEF CreditInv, PumpInv, Accounted, LedgerMove
<1>3. QED
  BY <1>1, <1>2, CreditInvStep, PTL DEF Spec, ImplementsLedger
=============================================================================

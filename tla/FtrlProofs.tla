----------------------------- MODULE FtrlProofs -----------------------------
(***************************************************************************)
(* Proofs about Ftrl: that a weight is the minimiser it stands for, and    *)
(* how far a gradient moves it, over every ordered field with the square   *)
(* roots that are taken.  The laws of the arithmetic come first, then the  *)
(* sums over a history, one coordinate, and the state.  A second part, on  *)
(* its own, has the proofs about Redis: which reply a call reads, on a     *)
(* connection without an abandoned batch and on one with replies left      *)
(* behind.                                                                 *)
(***************************************************************************)
EXTENDS Ftrl, Redis, SeqFilterProofs, TLAPS

(* The laws of the arithmetic, by what they are about. *)
LEMMA Closure ==
  ASSUME OrderedField
  PROVE  /\ Zero \in Num /\ One \in Num
         /\ \A x, y \in Num : Plus(x, y) \in Num /\ Times(x, y) \in Num /\ Minus(x, y) \in Num
         /\ \A x \in Num : Neg(x) \in Num /\ Size(x) \in Num
         /\ \A x, y \in Num : y # Zero => Over(x, y) \in Num
         /\ \A x \in Num : IsSquare(x) => Root(x) \in Num
  BY DEF OrderedField, Closed, Minus, Size

LEMMA PlusLaws ==
  ASSUME OrderedField
  PROVE  /\ \A x, y \in Num : Plus(x, y) = Plus(y, x)
         /\ \A x, y, z \in Num : Plus(Plus(x, y), z) = Plus(x, Plus(y, z))
         /\ \A x \in Num : Plus(x, Zero) = x /\ Plus(x, Neg(x)) = Zero
  BY DEF OrderedField, Laws

LEMMA TimesLaws ==
  ASSUME OrderedField
  PROVE  /\ Zero # One
         /\ \A x, y \in Num : Times(x, y) = Times(y, x)
         /\ \A x, y, z \in Num : Times(Times(x, y), z) = Times(x, Times(y, z))
         /\ \A x, y, z \in Num : Times(x, Plus(y, z)) = Plus(Times(x, y), Times(x, z))
         /\ \A x \in Num : Times(x, One) = x
         /\ \A x, y \in Num : y # Zero => Times(Over(x, y), y) = x
  BY DEF OrderedField, Laws

LEMMA OrderLaws ==
  ASSUME OrderedField
  PROVE  /\ \A x, y \in Num : Leq(x, y) \/ Leq(y, x)
         /\ \A x, y \in Num : Leq(x, y) /\ Leq(y, x) => x = y
         /\ \A x, y, z \in Num : Leq(x, y) /\ Leq(y, z) => Leq(x, z)
         /\ \A x, y, z \in Num : Leq(x, y) => Leq(Plus(x, z), Plus(y, z))
         /\ \A x, y \in Num : Leq(Zero, x) /\ Leq(Zero, y) => Leq(Zero, Times(x, y))
  BY DEF OrderedField, Laws

LEMMA RootLaws ==
  ASSUME OrderedField
  PROVE  /\ \A x \in Num : IsSquare(Times(x, x))
         /\ \A x \in Num : IsSquare(x) => Leq(Zero, Root(x)) /\ Times(Root(x), Root(x)) = x
  BY DEF OrderedField, Laws

-----------------------------------------------------------------------------
(* What follows for sums and negatives. *)
LEMMA PlusCancel ==
  ASSUME OrderedField, NEW a \in Num, NEW b \in Num, NEW c \in Num, Plus(a, c) = Plus(b, c)
  PROVE  a = b
<1>1. Neg(c) \in Num
  BY Closure
<1>2. ASSUME NEW x \in Num PROVE Plus(Plus(x, c), Neg(c)) = x
  <2>1. Plus(Plus(x, c), Neg(c)) = Plus(x, Plus(c, Neg(c)))
    BY <1>1, PlusLaws
  <2> QED
    BY <2>1, PlusLaws
<1> QED
  BY <1>2

LEMMA PlusSwap ==
  ASSUME OrderedField, NEW a \in Num, NEW b \in Num, NEW c \in Num, NEW d \in Num
  PROVE  Plus(Plus(a, b), Plus(c, d)) = Plus(Plus(a, c), Plus(b, d))
<1>1. Plus(Plus(a, b), Plus(c, d)) = Plus(a, Plus(b, Plus(c, d)))
  BY Closure, PlusLaws
<1>2. Plus(b, Plus(c, d)) = Plus(Plus(b, c), d)
  BY PlusLaws
<1>3. Plus(Plus(b, c), d) = Plus(Plus(c, b), d)
  BY PlusLaws
<1>4. Plus(Plus(c, b), d) = Plus(c, Plus(b, d))
  BY PlusLaws
<1>5. Plus(a, Plus(c, Plus(b, d))) = Plus(Plus(a, c), Plus(b, d))
  BY Closure, PlusLaws
<1> QED
  BY <1>1, <1>2, <1>3, <1>4, <1>5

LEMMA NegUnique ==
  ASSUME OrderedField, NEW a \in Num, NEW b \in Num, Plus(a, b) = Zero
  PROVE  b = Neg(a)
<1>1. Plus(b, a) = Plus(Neg(a), a)
  BY Closure, PlusLaws
<1> QED
  BY <1>1, Closure, PlusCancel

LEMMA NegLaws ==
  ASSUME OrderedField
  PROVE  /\ Neg(Zero) = Zero
         /\ \A x \in Num : Neg(Neg(x)) = x
         /\ \A x, y \in Num : Neg(Plus(x, y)) = Plus(Neg(x), Neg(y))
         /\ \A x, y \in Num : Neg(Minus(x, y)) = Minus(y, x)
<1>1. Neg(Zero) = Zero
  BY Closure, PlusLaws, NegUnique
<1>2. ASSUME NEW x \in Num PROVE Neg(Neg(x)) = x
  <2>1. Neg(x) \in Num /\ Plus(Neg(x), x) = Zero
    BY Closure, PlusLaws
  <2> QED
    BY <2>1, NegUnique
<1>3. ASSUME NEW x \in Num, NEW y \in Num PROVE Neg(Plus(x, y)) = Plus(Neg(x), Neg(y))
  <2>1. Neg(x) \in Num /\ Neg(y) \in Num /\ Plus(x, y) \in Num /\ Plus(Neg(x), Neg(y)) \in Num
        /\ Zero \in Num
    BY Closure
  <2>2. Plus(Plus(x, y), Plus(Neg(x), Neg(y))) = Plus(Plus(x, Neg(x)), Plus(y, Neg(y)))
    BY <2>1, PlusSwap
  <2>3. Plus(Plus(x, y), Plus(Neg(x), Neg(y))) = Zero
    BY <2>1, <2>2, PlusLaws
  <2> QED
    BY <2>1, <2>3, NegUnique
<1>4. ASSUME NEW x \in Num, NEW y \in Num PROVE Neg(Minus(x, y)) = Minus(y, x)
  <2>1. Neg(x) \in Num /\ Neg(y) \in Num
    BY Closure
  <2>2. Neg(Plus(x, Neg(y))) = Plus(Neg(x), Neg(Neg(y)))
    BY <2>1, <1>3
  <2> QED
    BY <2>1, <2>2, <1>2, PlusLaws DEF Minus
<1> QED
  BY <1>1, <1>2, <1>3, <1>4

LEMMA TimesZero ==
  ASSUME OrderedField, NEW a \in Num
  PROVE  Times(a, Zero) = Zero /\ Times(Zero, a) = Zero
<1>1. Zero \in Num /\ Times(a, Zero) \in Num /\ Plus(Zero, Zero) = Zero
  BY Closure, PlusLaws
<1>2. Times(a, Plus(Zero, Zero)) = Plus(Times(a, Zero), Times(a, Zero))
  BY <1>1, TimesLaws
<1>3. Plus(Times(a, Zero), Times(a, Zero)) = Plus(Zero, Times(a, Zero))
  BY <1>1, <1>2, PlusLaws
<1> QED
  BY <1>1, <1>3, PlusCancel, TimesLaws

LEMMA TimesNeg ==
  ASSUME OrderedField, NEW a \in Num, NEW b \in Num
  PROVE  Times(a, Neg(b)) = Neg(Times(a, b)) /\ Times(Neg(b), a) = Neg(Times(a, b))
<1>1. Neg(b) \in Num /\ Times(a, b) \in Num /\ Times(a, Neg(b)) \in Num
  BY Closure
<1>2. Plus(Times(a, b), Times(a, Neg(b))) = Times(a, Plus(b, Neg(b)))
  BY <1>1, TimesLaws
<1>3. Plus(Times(a, b), Times(a, Neg(b))) = Zero
  BY <1>2, PlusLaws, TimesZero
<1> QED
  BY <1>1, <1>3, NegUnique, TimesLaws

(* ... for quotients, ... *)
LEMMA TimesCancel ==
  ASSUME OrderedField, NEW a \in Num, NEW b \in Num, NEW y \in Num, y # Zero,
         Times(a, y) = Times(b, y)
  PROVE  a = b
<1>1. One \in Num /\ Over(One, y) \in Num
  BY Closure
<1>2. Times(y, Over(One, y)) = One
  BY <1>1, TimesLaws
<1>3. ASSUME NEW x \in Num PROVE Times(Times(x, y), Over(One, y)) = x
  <2>1. Times(Times(x, y), Over(One, y)) = Times(x, Times(y, Over(One, y)))
    BY <1>1, TimesLaws
  <2> QED
    BY <1>2, <2>1, TimesLaws
<1> QED
  BY <1>3

LEMMA OverPlus ==
  ASSUME OrderedField, NEW a \in Num, NEW b \in Num, NEW y \in Num, y # Zero
  PROVE  Over(Plus(a, b), y) = Plus(Over(a, y), Over(b, y))
<1>1. Over(a, y) \in Num /\ Over(b, y) \in Num /\ Plus(a, b) \in Num
  BY Closure
<1>2. Plus(Over(a, y), Over(b, y)) \in Num /\ Over(Plus(a, b), y) \in Num
  BY <1>1, Closure
<1>3. Times(y, Plus(Over(a, y), Over(b, y))) = Plus(Times(y, Over(a, y)), Times(y, Over(b, y)))
  BY <1>1, TimesLaws
<1>4. Times(y, Over(a, y)) = a /\ Times(y, Over(b, y)) = b
  BY <1>1, TimesLaws
<1>5. Times(Plus(Over(a, y), Over(b, y)), y) = Plus(a, b)
  BY <1>2, <1>3, <1>4, TimesLaws
<1>6. Times(Over(Plus(a, b), y), y) = Plus(a, b)
  BY <1>1, TimesLaws
<1> QED
  BY <1>2, <1>5, <1>6, TimesCancel

LEMMA OverZero ==
  ASSUME OrderedField, NEW y \in Num, y # Zero
  PROVE  Over(Zero, y) = Zero
<1>1. Zero \in Num /\ Over(Zero, y) \in Num
  BY Closure
<1>2. Times(Over(Zero, y), y) = Zero /\ Times(Zero, y) = Zero
  BY <1>1, TimesLaws, TimesZero
<1> QED
  BY <1>1, <1>2, TimesCancel

(* ... for the order, ... *)
LEMMA NegOrder ==
  ASSUME OrderedField, NEW a \in Num, NEW b \in Num
  PROVE  Leq(a, b) <=> Leq(Neg(b), Neg(a))
<1>1. ASSUME NEW x \in Num, NEW y \in Num, Leq(x, y) PROVE Leq(Neg(y), Neg(x))
  <2>1. Neg(x) \in Num /\ Neg(y) \in Num /\ Plus(Neg(x), Neg(y)) \in Num
    BY Closure
  <2>2. Leq(Plus(x, Plus(Neg(x), Neg(y))), Plus(y, Plus(Neg(x), Neg(y))))
    BY <1>1, <2>1, OrderLaws
  <2>3. Plus(x, Plus(Neg(x), Neg(y))) = Neg(y)
    <3>1. Plus(x, Plus(Neg(x), Neg(y))) = Plus(Plus(x, Neg(x)), Neg(y))
      BY <2>1, PlusLaws
    <3>2. Plus(Zero, Neg(y)) = Neg(y)
      BY <2>1, Closure, PlusLaws
    <3> QED
      BY <3>1, <3>2, PlusLaws
  <2>4. Plus(y, Plus(Neg(x), Neg(y))) = Neg(x)
    <3>1. Plus(y, Plus(Neg(y), Neg(x))) = Plus(Plus(y, Neg(y)), Neg(x))
      BY <2>1, PlusLaws
    <3>2. Plus(Zero, Neg(x)) = Neg(x)
      BY <2>1, Closure, PlusLaws
    <3>3. Plus(Neg(x), Neg(y)) = Plus(Neg(y), Neg(x))
      BY <2>1, PlusLaws
    <3> QED
      BY <3>1, <3>2, <3>3, PlusLaws
  <2> QED
    BY <2>2, <2>3, <2>4
<1>2. Neg(a) \in Num /\ Neg(b) \in Num /\ Neg(Neg(a)) = a /\ Neg(Neg(b)) = b
  BY Closure, NegLaws
<1> QED
  BY <1>1, <1>2

LEMMA MinusOrder ==
  ASSUME OrderedField, NEW a \in Num, NEW b \in Num
  PROVE  Leq(a, b) <=> Leq(Zero, Minus(b, a))
<1>1. Neg(a) \in Num /\ Minus(b, a) \in Num /\ Zero \in Num
  BY Closure
<1>2. Plus(a, Neg(a)) = Zero /\ Plus(b, Neg(a)) = Minus(b, a)
  BY PlusLaws DEF Minus
<1>3. Plus(Zero, a) = a /\ Plus(Minus(b, a), a) = b
  <2>1. Plus(Plus(b, Neg(a)), a) = Plus(b, Plus(Neg(a), a))
    BY <1>1, PlusLaws
  <2> QED
    BY <1>1, <2>1, PlusLaws DEF Minus
<1> QED
  BY <1>1, <1>2, <1>3, OrderLaws

LEMMA PlusOrder ==
  ASSUME OrderedField, NEW a \in Num, NEW b \in Num, ~Negative(a), ~Negative(b)
  PROVE  ~Negative(Plus(a, b)) /\ (Positive(a) \/ Positive(b) => Positive(Plus(a, b)))
<1>1. Leq(Zero, a) /\ Leq(Zero, b) /\ Zero \in Num /\ Plus(a, b) \in Num
  BY Closure DEF Negative
<1>2. Leq(b, Plus(a, b)) /\ Leq(a, Plus(a, b))
  <2>1. Leq(Plus(Zero, b), Plus(a, b)) /\ Leq(Plus(Zero, a), Plus(b, a))
    BY <1>1, OrderLaws
  <2> QED
    BY <1>1, <2>1, PlusLaws
<1> QED
  BY <1>1, <1>2, OrderLaws DEF Negative, Positive

(* Of a number and its negative one is not negative, and the size of a     *)
(* number is the larger of the two.                                        *)
LEMMA SizeFacts ==
  ASSUME OrderedField, NEW a \in Num
  PROVE  /\ Leq(Zero, Size(a)) /\ Leq(a, Size(a)) /\ Leq(Neg(a), Size(a))
         /\ Size(Neg(a)) = Size(a)
         /\ Leq(Zero, a) => Size(a) = a
         /\ Leq(a, Zero) => Size(a) = Neg(a) /\ Leq(Zero, Neg(a))
<1>1. Zero \in Num /\ Neg(a) \in Num /\ Neg(Zero) = Zero /\ Neg(Neg(a)) = a
  BY Closure, NegLaws
<1>2. Leq(a, Zero) <=> Leq(Zero, Neg(a))
  BY <1>1, NegOrder
<1>3. Leq(Zero, a) <=> Leq(Neg(a), Zero)
  BY <1>1, NegOrder
<1>4. Leq(Zero, a) \/ Leq(a, Zero)
  BY <1>1, OrderLaws
<1>5. Leq(Zero, a) /\ Leq(a, Zero) => a = Zero
  BY <1>1, OrderLaws
<1>6. Leq(a, a) /\ Leq(Neg(a), Neg(a))
  BY <1>1, OrderLaws
<1>7. Leq(Zero, a) => Leq(Neg(a), a)
  BY <1>1, <1>3, OrderLaws
<1>8. Leq(a, Zero) => Leq(a, Neg(a))
  BY <1>1, <1>2, OrderLaws
<1>9. CASE Leq(Zero, a)
  BY <1>1, <1>2, <1>3, <1>5, <1>6, <1>7, <1>9 DEF Size
<1>10. CASE ~Leq(Zero, a)
  BY <1>1, <1>2, <1>3, <1>4, <1>5, <1>6, <1>8, <1>10 DEF Size
<1> QED
  BY <1>9, <1>10

LEMMA SquareFacts ==
  ASSUME OrderedField, NEW a \in Num
  PROVE  ~Negative(Times(a, a)) /\ (Times(a, a) = Zero => a = Zero)
<1>1. Zero \in Num /\ Neg(a) \in Num /\ Times(a, a) \in Num
  BY Closure
<1>2. Times(Neg(a), Neg(a)) = Times(a, a)
  BY <1>1, TimesNeg, NegLaws
<1>3. Leq(Zero, a) \/ Leq(Zero, Neg(a))
  BY <1>1, OrderLaws, SizeFacts
<1>4. ~Negative(Times(a, a))
  BY <1>1, <1>2, <1>3, OrderLaws DEF Negative
<1>5. ASSUME Times(a, a) = Zero, a # Zero PROVE FALSE
  BY <1>1, <1>5, TimesZero, TimesCancel
<1> QED
  BY <1>4, <1>5

LEMMA OverPositive ==
  ASSUME OrderedField, NEW a \in Num, NEW y \in Num, Positive(y), ~Negative(a)
  PROVE  y # Zero /\ ~Negative(Over(a, y)) /\ (Positive(a) => Positive(Over(a, y)))
<1>1. Zero \in Num /\ Leq(Zero, Zero)
  BY Closure, OrderLaws
<1>2. y # Zero /\ Leq(Zero, y)
  BY <1>1, OrderLaws DEF Positive
<1>3. Over(a, y) \in Num /\ Neg(Over(a, y)) \in Num /\ Times(Over(a, y), y) = a
  BY <1>2, Closure, TimesLaws
<1>4. ASSUME Leq(Over(a, y), Zero) PROVE a = Zero
  <2>1. Leq(Zero, Neg(Over(a, y)))
    BY <1>3, <1>4, SizeFacts
  <2>2. Leq(Zero, Times(Neg(Over(a, y)), y))
    BY <1>2, <1>3, <2>1, OrderLaws
  <2>3. Times(Neg(Over(a, y)), y) = Neg(a)
    <3>1. Times(y, Over(a, y)) = a
      BY <1>3, TimesLaws
    <3> QED
      BY <1>3, <3>1, TimesNeg
  <2>4. Leq(a, Zero)
    BY <1>1, <2>2, <2>3, NegLaws, NegOrder
  <2> QED
    BY <1>1, <2>4, OrderLaws DEF Negative
<1>5. a = Zero => Over(a, y) = Zero
  BY <1>2, OverZero
<1>6. ASSUME Negative(Over(a, y)) PROVE FALSE
  <2>1. Leq(Over(a, y), Zero)
    BY <1>1, <1>3, <1>6, OrderLaws DEF Negative
  <2> QED
    BY <1>1, <1>4, <1>5, <1>6, <2>1 DEF Negative
<1>7. ASSUME Positive(a), ~Positive(Over(a, y)) PROVE FALSE
  BY <1>1, <1>4, <1>7 DEF Positive
<1> QED
  BY <1>2, <1>6, <1>7

LEMMA RootFacts ==
  ASSUME OrderedField
  PROVE  /\ IsSquare(Zero) /\ Root(Zero) = Zero
         /\ \A x \in Num : IsSquare(x) => Root(x) \in Num /\ ~Negative(Root(x))
                                          /\ (x # Zero => Positive(Root(x)))
<1>1. Zero \in Num /\ Times(Zero, Zero) = Zero
  BY Closure, TimesZero
<1>2. IsSquare(Zero)
  BY <1>1, RootLaws
<1>3. ASSUME NEW x \in Num, IsSquare(x)
      PROVE  Root(x) \in Num /\ ~Negative(Root(x)) /\ Times(Root(x), Root(x)) = x
  BY <1>3, Closure, RootLaws DEF Negative
<1>4. Root(Zero) = Zero
  BY <1>1, <1>2, <1>3, SquareFacts
<1>5. ASSUME NEW x \in Num, IsSquare(x), x # Zero PROVE Positive(Root(x))
  BY <1>1, <1>3, <1>5, OrderLaws DEF Positive, Negative
<1> QED
  BY <1>2, <1>3, <1>4, <1>5

-----------------------------------------------------------------------------
(* The sums over a history: the function Sums defines exists, and a        *)
(* further gradient adds one term.                                         *)
SumsRow(alpha, l, w, up, i) ==
  IF i = 0 THEN [n |-> Zero, s |-> Zero] ELSE Term(alpha, up[i - 1], l[i], w)

LEMMA SumsRowsExist ==
  ASSUME NEW alpha, NEW l, NEW w, NEW len \in Nat
  PROVE  \E up : up = [i \in 0 .. len |-> SumsRow(alpha, l, w, up, i)]
<1> DEFINE Fails(m) == ~ \E up : up = [i \in 0 .. m |-> SumsRow(alpha, l, w, up, i)]
           T == {m \in Nat : Fails(m)}
<1> SUFFICES ASSUME len \in T PROVE FALSE
  OBVIOUS
<1>1. PICK m \in T : \A x \in T : m <= x
  <2>1. T \in SUBSET Nat /\ T # {}
    OBVIOUS
  <2> HIDE DEF T
  <2> QED
    BY <2>1, LeastNat
<1>2. m \in Nat /\ m # 0
  <2>1. ASSUME m = 0 PROVE FALSE
    <3> DEFINE up == [i \in 0 .. 0 |-> [n |-> Zero, s |-> Zero]]
    <3>1. up = [i \in 0 .. 0 |-> SumsRow(alpha, l, w, up, i)]
      <4>1. \A i \in 0 .. 0 : i = 0
        OBVIOUS
      <4> QED
        BY <4>1 DEF SumsRow
    <3> QED
      BY <2>1, <3>1
  <2> QED
    BY <2>1
<1>3. PICK up : up = [i \in 0 .. m - 1 |-> SumsRow(alpha, l, w, up, i)]
  <2>1. m - 1 \in Nat /\ ~(m <= m - 1)
    BY <1>2
  <2>2. m - 1 \notin T
    BY <1>1, <2>1
  <2> QED
    BY <2>1, <2>2
<1> DEFINE ext == [i \in 0 .. m |-> IF i = m THEN Term(alpha, up[m - 1], l[m], w) ELSE up[i]]
<1>4. ext = [i \in 0 .. m |-> SumsRow(alpha, l, w, ext, i)]
  <2>1. ASSUME NEW i \in 0 .. m PROVE ext[i] = SumsRow(alpha, l, w, ext, i)
    <3>1. CASE i = m
      <4>1. ext[m] = Term(alpha, up[m - 1], l[m], w) /\ ext[m - 1] = up[m - 1]
        BY <1>2
      <4> QED
        BY <1>2, <3>1, <4>1 DEF SumsRow
    <3>2. CASE i # m
      <4>1. i \in 0 .. m - 1 /\ ext[i] = up[i] /\ up[i] = SumsRow(alpha, l, w, up, i)
        BY <1>2, <1>3, <3>2
      <4>2. CASE i = 0
        BY <4>1, <4>2 DEF SumsRow
      <4>3. CASE i # 0
        <5>1. i - 1 \in 0 .. m /\ i - 1 # m
          BY <1>2, <4>1, <4>3
        <5>2. ext[i - 1] = up[i - 1]
          BY <5>1
        <5> QED
          BY <4>1, <4>3, <5>2 DEF SumsRow
      <4> QED
        BY <4>2, <4>3
    <3> QED
      BY <3>1, <3>2
  <2> HIDE DEF ext
  <2>2. ext = [i \in 0 .. m |-> ext[i]]
    BY DEF ext
  <2> QED
    BY <2>1, <2>2
<1> QED
  BY <1>1, <1>4

LEMMA SumsRows ==
  ASSUME NEW alpha, NEW w, NEW S, NEW l \in Seq(S)
  PROVE  \E up : /\ up = [i \in 0 .. Len(l) |-> SumsRow(alpha, l, w, up, i)]
                 /\ Sums(alpha, l, w) = up[Len(l)]
<1> DEFINE up == CHOOSE f : f = [i \in 0 .. Len(l) |-> SumsRow(alpha, l, w, f, i)]
<1>1. up = [i \in 0 .. Len(l) |-> SumsRow(alpha, l, w, up, i)]
  <2>1. Len(l) \in Nat
    OBVIOUS
  <2> QED
    BY <2>1, SumsRowsExist
<1>2. Sums(alpha, l, w) = up[Len(l)]
  BY DEF Sums, SumsRow
<1> QED
  BY <1>1, <1>2

LEMMA SumsAppend ==
  ASSUME NEW alpha, NEW w, NEW S, NEW l \in Seq(S), NEW e \in S
  PROVE  /\ Sums(alpha, <<>>, w) = [n |-> Zero, s |-> Zero]
         /\ Sums(alpha, Append(l, e), w) = Term(alpha, Sums(alpha, l, w), e, w)
<1>1. ASSUME NEW none, none = <<>>
      PROVE  Sums(alpha, none, w) = [n |-> Zero, s |-> Zero]
  <2>1. Len(none) = 0
    BY <1>1
  <2>2. none \in Seq(S)
    BY <1>1
  <2>3. PICK up : /\ up = [i \in 0 .. Len(none) |-> SumsRow(alpha, none, w, up, i)]
                  /\ Sums(alpha, none, w) = up[Len(none)]
    BY <2>2, SumsRows
  <2>4. 0 \in 0 .. Len(none)
    BY <2>1
  <2>5. up[0] = SumsRow(alpha, none, w, up, 0)
    BY <2>3, <2>4
  <2> QED
    BY <2>1, <2>3, <2>5 DEF SumsRow
<1> DEFINE a == Append(l, e)
           len == Len(l)
<1>2. len \in Nat /\ Len(a) = len + 1 /\ a[len + 1] = e /\ \A i \in 1 .. len : a[i] = l[i]
  OBVIOUS
<1>3. PICK f : f = [i \in 0 .. len |-> SumsRow(alpha, l, w, f, i)] /\ Sums(alpha, l, w) = f[len]
  BY SumsRows
<1>4. \E h : h = [i \in 0 .. len + 1 |-> SumsRow(alpha, a, w, h, i)]
              /\ Sums(alpha, a, w) = h[len + 1]
  <2>1. a \in Seq(S)
    OBVIOUS
  <2>2. \E h : h = [i \in 0 .. Len(a) |-> SumsRow(alpha, a, w, h, i)] /\ Sums(alpha, a, w) = h[Len(a)]
    <3> HIDE DEF a
    <3> QED
      BY <2>1, SumsRows
  <2> HIDE DEF a, len
  <2> QED
    BY <1>2, <2>2
<1> HIDE DEF a, len
<1>5. PICK h : h = [i \in 0 .. len + 1 |-> SumsRow(alpha, a, w, h, i)]
                /\ Sums(alpha, a, w) = h[len + 1]
  BY <1>4
<1> DEFINE T == {i \in 0 .. len : f[i] # h[i]}
<1>6. ASSUME T # {} PROVE FALSE
  <2>1. PICK m \in T : \A x \in T : m <= x
    <3>1. T \in SUBSET Nat
      BY <1>2
    <3> HIDE DEF T
    <3> QED
      BY <1>6, <3>1, LeastNat
  <2>2. m \in 0 .. len /\ m \in 0 .. len + 1 /\ f[m] # h[m]
    BY <1>2, <2>1
  <2>3. f[m] = SumsRow(alpha, l, w, f, m) /\ h[m] = SumsRow(alpha, a, w, h, m)
    BY <1>3, <1>5, <2>2
  <2>4. m # 0
    BY <2>2, <2>3 DEF SumsRow
  <2>5. m - 1 \in 0 .. len /\ ~(m <= m - 1) /\ m \in 1 .. len
    BY <1>2, <2>2, <2>4
  <2>6. f[m - 1] = h[m - 1] /\ a[m] = l[m]
    BY <1>2, <2>1, <2>5
  <2> QED
    BY <2>2, <2>3, <2>4, <2>6 DEF SumsRow
<1>7. f[len] = h[len]
  BY <1>2, <1>6
<1>8. h[len + 1] = SumsRow(alpha, a, w, h, len + 1)
  <2>1. len + 1 \in 0 .. len + 1
    BY <1>2
  <2> QED
    BY <1>5, <2>1
<1>9. h[len + 1] = Term(alpha, h[len], e, w)
  <2>1. len + 1 # 0 /\ len + 1 - 1 = len
    BY <1>2
  <2> QED
    BY <1>2, <1>8, <2>1 DEF SumsRow
<1>10. Sums(alpha, a, w) = Term(alpha, Sums(alpha, l, w), e, w)
  BY <1>3, <1>5, <1>7, <1>9
<1> QED
  BY <1>1, <1>10 DEF a

-----------------------------------------------------------------------------
(* One coordinate with parameters p.  Optimum is Weight without the state; *)
(* the slope at w of what it minimises is z + Curvature * w.               *)
ParamSet == {p \in [alpha : Num, beta : Num, l1 : Num, l2 : Num] :
               /\ Positive(p.alpha) /\ ~Negative(p.beta) /\ ~Negative(p.l1) /\ ~Negative(p.l2)}

Rate(p, m, n) == Over(Minus(Root(n), Root(m)), p.alpha)
Line(p, z, n, w) == Plus(z, Times(Curvature(p, n), w))
Optimum(p, z, n) ==
  LET sign == IF Positive(z) THEN One ELSE Neg(One)
  IN  IF Leq(Size(z), p.l1) THEN Zero
      ELSE Over(Minus(z, Times(sign, p.l1)), Neg(Curvature(p, n)))

LEMMA ParamFacts ==
  ASSUME OrderedField, NEW p \in ParamSet
  PROVE  /\ p.alpha \in Num /\ p.beta \in Num /\ p.l1 \in Num /\ p.l2 \in Num
         /\ p.alpha # Zero /\ Positive(p.alpha)
         /\ ~Negative(p.beta) /\ ~Negative(p.l1) /\ ~Negative(p.l2)
  BY Closure, OverPositive DEF ParamSet

LEMMA CurvatureFacts ==
  ASSUME OrderedField, NEW p \in ParamSet, NEW n \in Num, IsSquare(n)
  PROVE  /\ Curvature(p, n) \in Num /\ ~Negative(Curvature(p, n))
         /\ n # Zero => Positive(Curvature(p, n))
<1>1. /\ Root(n) \in Num /\ ~Negative(Root(n)) /\ (n # Zero => Positive(Root(n)))
  BY RootFacts
<1> DEFINE b == Plus(p.beta, Root(n))
<1>2. b \in Num /\ ~Negative(b) /\ (n # Zero => Positive(b))
  BY <1>1, ParamFacts, Closure, PlusOrder
<1> HIDE DEF b
<1> DEFINE q == Over(b, p.alpha)
<1>3. q \in Num /\ ~Negative(q) /\ (n # Zero => Positive(q))
  BY <1>2, ParamFacts, Closure, OverPositive
<1> HIDE DEF q
<1>4. Plus(q, p.l2) \in Num /\ ~Negative(Plus(q, p.l2)) /\ (n # Zero => Positive(Plus(q, p.l2)))
  BY <1>3, ParamFacts, Closure, PlusOrder
<1> QED
  BY <1>4 DEF Curvature, b, q

(* The curvature is the rate so far and the ridge, ... *)
LEMMA CurvatureSplit ==
  ASSUME OrderedField, NEW p \in ParamSet, NEW n \in Num, IsSquare(n)
  PROVE  Curvature(p, n) = Plus(Over(Root(n), p.alpha), Plus(Over(p.beta, p.alpha), p.l2))
<1> DEFINE r == Over(Root(n), p.alpha)
           b == Over(p.beta, p.alpha)
<1>1. Root(n) \in Num /\ r \in Num /\ b \in Num /\ p.l2 \in Num
  BY RootFacts, ParamFacts, Closure
<1>2. Over(Plus(p.beta, Root(n)), p.alpha) = Plus(b, r)
  BY <1>1, ParamFacts, OverPlus
<1> HIDE DEF r, b
<1>3. Plus(b, r) = Plus(r, b) /\ Plus(Plus(r, b), p.l2) = Plus(r, Plus(b, p.l2))
  BY <1>1, PlusLaws
<1> QED
  BY <1>2, <1>3 DEF Curvature, r, b

(* ... and grows with the rate of a step. *)
LEMMA RateGrows ==
  ASSUME OrderedField, NEW p \in ParamSet, NEW m \in Num, IsSquare(m), NEW n \in Num, IsSquare(n)
  PROVE  /\ Rate(p, m, n) \in Num
         /\ Over(Root(n), p.alpha) = Plus(Over(Root(m), p.alpha), Rate(p, m, n))
         /\ Curvature(p, n) = Plus(Curvature(p, m), Rate(p, m, n))
<1> DEFINE rm == Over(Root(m), p.alpha)
           rn == Over(Root(n), p.alpha)
           rate == Rate(p, m, n)
           ridge == Plus(Over(p.beta, p.alpha), p.l2)
<1>1. Root(m) \in Num /\ Root(n) \in Num /\ Minus(Root(n), Root(m)) \in Num
  BY RootFacts, Closure
<1>2. rm \in Num /\ rn \in Num /\ rate \in Num /\ ridge \in Num
  BY <1>1, ParamFacts, Closure DEF Rate
<1>3. Root(n) = Plus(Root(m), Minus(Root(n), Root(m)))
  <2>1. Neg(Root(m)) \in Num
    BY <1>1, Closure
  <2>2. Plus(Root(m), Plus(Root(n), Neg(Root(m)))) = Plus(Plus(Root(n), Neg(Root(m))), Root(m))
    BY <1>1, <2>1, Closure, PlusLaws
  <2>3. Plus(Plus(Root(n), Neg(Root(m))), Root(m)) = Plus(Root(n), Plus(Neg(Root(m)), Root(m)))
    BY <1>1, <2>1, PlusLaws
  <2>4. Plus(Neg(Root(m)), Root(m)) = Zero
    BY <1>1, <2>1, PlusLaws
  <2> QED
    BY <1>1, <2>2, <2>3, <2>4, PlusLaws DEF Minus
<1>4. rn = Plus(rm, rate)
  <2>1. Over(Plus(Root(m), Minus(Root(n), Root(m))), p.alpha) = Plus(rm, rate)
    BY <1>1, ParamFacts, OverPlus DEF Rate
  <2> QED
    BY <1>3, <2>1
<1>5. Curvature(p, n) = Plus(rn, ridge) /\ Curvature(p, m) = Plus(rm, ridge)
  BY CurvatureSplit
<1> HIDE DEF rm, rn, rate, ridge
<1>6. Plus(Plus(rm, rate), ridge) = Plus(Plus(rm, ridge), rate)
  <2>1. Plus(Plus(rm, rate), ridge) = Plus(rm, Plus(rate, ridge))
    BY <1>2, PlusLaws
  <2>2. Plus(Plus(rm, ridge), rate) = Plus(rm, Plus(ridge, rate))
    BY <1>2, PlusLaws
  <2> QED
    BY <1>2, <2>1, <2>2, PlusLaws
<1> QED
  BY <1>2, <1>4, <1>5, <1>6 DEF rm, rn, rate

(* On both sides of a minimum: Optimum balances the slope. *)
LEMMA OptimumBalances ==
  ASSUME OrderedField, NEW p \in ParamSet, NEW z \in Num, NEW n \in Num, IsSquare(n),
         n = Zero => z = Zero
  PROVE  /\ Optimum(p, z, n) \in Num
         /\ Balanced(p.l1, Line(p, z, n, Optimum(p, z, n)), Optimum(p, z, n))
<1> DEFINE c == Curvature(p, n)
           l == p.l1
           w == Optimum(p, z, n)
<1>1. c \in Num /\ ~Negative(c) /\ (n # Zero => Positive(c))
  BY CurvatureFacts
<1>2. l \in Num /\ Leq(Zero, l) /\ Zero \in Num /\ One \in Num
  BY ParamFacts, Closure DEF Negative
<1>3. CASE Leq(Size(z), l)
  <2>1. w = Zero
    BY <1>3 DEF Optimum
  <2>2. Line(p, z, n, w) = z
    BY <1>1, <2>1, TimesZero, PlusLaws DEF Line
  <2>3. ~Positive(Zero) /\ ~Negative(Zero)
    BY <1>2, OrderLaws DEF Positive, Negative
  <2> QED
    BY <1>2, <1>3, <2>1, <2>2, <2>3 DEF Balanced
<1>4. CASE ~Leq(Size(z), l)
  <2>1. z # Zero
    <3>1. Leq(Zero, Zero)
      BY <1>2, OrderLaws
    <3>2. Size(Zero) = Zero
      BY <1>2, <3>1, SizeFacts
    <3> QED
      BY <1>2, <1>4, <3>2
  <2>2. Positive(c) /\ Leq(Zero, c) /\ c # Zero
    BY <1>1, <1>2, <2>1, OrderLaws DEF Positive, Negative
  <2>3. Neg(c) \in Num /\ Neg(c) # Zero
    <3>1. Neg(c) \in Num /\ Neg(Neg(c)) = c /\ Neg(Zero) = Zero
      BY <1>1, Closure, NegLaws
    <3> QED
      BY <2>2, <3>1
  <2> DEFINE sl == IF Positive(z) THEN l ELSE Neg(l)
             t == Minus(z, sl)
  <2>4. sl \in Num /\ t \in Num
    BY <1>2, Closure
  <2>5. w = Over(t, Neg(c))
    <3>1. Times(One, l) = l /\ Times(Neg(One), l) = Neg(l)
      <4>1. Times(l, One) = l /\ Times(Neg(One), l) = Neg(Times(l, One))
        BY <1>2, TimesLaws, TimesNeg
      <4> QED
        BY <1>2, <4>1, TimesLaws
    <3> QED
      BY <1>4, <3>1 DEF Optimum
  <2>6. w \in Num /\ Times(w, Neg(c)) = t
    BY <2>3, <2>4, <2>5, Closure, TimesLaws
  <2> HIDE DEF c, l, w
  <2>7. Times(c, w) = Neg(t)
    <3>1. Times(w, c) \in Num /\ Neg(Times(w, c)) = t
      BY <1>1, <2>6, Closure, TimesNeg
    <3> QED
      BY <1>1, <2>6, <3>1, NegLaws, TimesLaws
  <2>8. Plus(z, Times(c, w)) = sl
    <3>1. Neg(t) = Minus(sl, z)
      BY <2>4, NegLaws
    <3>2. Neg(z) \in Num
      BY Closure
    <3> HIDE DEF sl, t
    <3>3. Plus(z, Plus(sl, Neg(z))) = Plus(Plus(sl, Neg(z)), z)
      BY <2>4, <3>2, Closure, PlusLaws
    <3>4. Plus(Plus(sl, Neg(z)), z) = Plus(sl, Plus(Neg(z), z))
      BY <2>4, <3>2, PlusLaws
    <3>5. Plus(Neg(z), z) = Zero
      BY <3>2, PlusLaws
    <3> QED
      BY <2>4, <2>7, <3>1, <3>3, <3>4, <3>5, PlusLaws DEF Minus
  <2>9. (Positive(z) => Negative(w)) /\ (~Positive(z) => Positive(w))
    <3>1. CASE Positive(z)
      <4>1. Size(z) = z
        <5>1. Leq(Zero, z)
          BY <1>2, <3>1, OrderLaws DEF Positive
        <5> QED
          BY <5>1, SizeFacts
      <4>2. ~Leq(z, l)
        BY <1>4, <4>1 DEF l
      <4>3. Leq(l, z) /\ l # z
        BY <1>2, <4>2, OrderLaws
      <4>4. ~Leq(t, Zero)
        <5>1. ~Leq(Zero, Minus(l, z))
          BY <1>2, <4>2, MinusOrder
        <5>2. Neg(t) = Minus(l, z)
          BY <1>2, <3>1, NegLaws
        <5>3. Leq(t, Zero) <=> Leq(Zero, Neg(t))
          BY <1>2, <2>4, NegLaws, NegOrder
        <5> QED
          BY <5>1, <5>2, <5>3
      <4>5. ASSUME Leq(Zero, w) PROVE FALSE
        <5>1. Leq(Zero, Times(c, w))
          BY <1>1, <2>2, <2>6, <4>5, OrderLaws
        <5> HIDE DEF t
        <5>2. Leq(Zero, Neg(t))
          BY <2>7, <5>1
        <5>3. Leq(t, Zero) <=> Leq(Zero, Neg(t))
          BY <1>2, <2>4, NegLaws, NegOrder
        <5> QED
          BY <4>4, <5>2, <5>3
      <4> QED
        BY <3>1, <4>5 DEF Negative
    <3>2. CASE ~Positive(z)
      <4>1. Size(z) = Neg(z) /\ Neg(z) \in Num
        BY <3>2, SizeFacts, Closure DEF Positive
      <4>2. ~Leq(Neg(z), l)
        BY <1>4, <4>1 DEF l
      <4>3. ~Leq(Zero, t)
        <5>1. Neg(l) \in Num /\ Neg(Neg(z)) = z
          BY <1>2, Closure, NegLaws
        <5>2. ~Leq(Neg(l), z)
          BY <1>2, <4>1, <4>2, <5>1, NegOrder
        <5>3. ~Leq(Zero, Minus(z, Neg(l)))
          BY <5>1, <5>2, MinusOrder
        <5> QED
          BY <3>2, <5>3
      <4>4. ASSUME Leq(w, Zero) PROVE FALSE
        <5>1. Leq(Zero, Neg(w)) /\ Neg(w) \in Num
          BY <2>6, <4>4, SizeFacts, Closure
        <5>2. Leq(Zero, Times(c, Neg(w)))
          BY <1>1, <2>2, <5>1, OrderLaws
        <5>3. Times(c, Neg(w)) = Neg(Times(c, w))
          BY <1>1, <2>6, TimesNeg
        <5> HIDE DEF t
        <5>4. Neg(Neg(t)) = t
          BY <2>4, NegLaws
        <5> QED
          BY <2>7, <4>3, <5>2, <5>3, <5>4
      <4> QED
        BY <3>2, <4>4 DEF Positive
    <3> QED
      BY <3>1, <3>2
  <2>10. ~(Positive(w) /\ Negative(w))
    BY <1>2, <2>6, OrderLaws DEF Positive, Negative
  <2>11. Balanced(l, sl, w)
    BY <2>9, <2>10 DEF Balanced
  <2> QED
    BY <2>6, <2>8, <2>11 DEF Line, c, l, w
<1> QED
  BY <1>3, <1>4

(* The slopes of two minimisers are ordered against them. *)
LEMMA Monotone ==
  ASSUME OrderedField, NEW l \in Num, Leq(Zero, l), NEW s \in Num, NEW t \in Num,
         NEW v \in Num, NEW w \in Num, Leq(v, w), v # w,
         Balanced(l, s, v), Balanced(l, t, w)
  PROVE  Leq(t, s)
<1>1. Zero \in Num /\ Neg(l) \in Num /\ Leq(Neg(l), Zero) /\ Leq(Neg(l), l)
  <2>1. Zero \in Num /\ Neg(l) \in Num /\ Leq(Neg(l), Zero)
    BY Closure, NegLaws, NegOrder
  <2> QED
    BY <2>1, OrderLaws
<1>2. ASSUME NEW r \in Num, NEW x \in Num, Balanced(l, r, x)
      PROVE  /\ Leq(Neg(l), r) /\ Leq(r, l)
             /\ Positive(x) => r = Neg(l)
             /\ Negative(x) => r = l
  <2>1. ~(Positive(x) /\ Negative(x))
    BY <1>1, OrderLaws DEF Positive, Negative
  <2>2. CASE Positive(x)
    BY <1>1, <1>2, <2>1, <2>2, OrderLaws DEF Balanced
  <2>3. CASE Negative(x)
    BY <1>1, <1>2, <2>1, <2>3, OrderLaws DEF Balanced
  <2>4. CASE ~Positive(x) /\ ~Negative(x)
    <3>1. Leq(Size(r), l)
      BY <1>2, <2>4 DEF Balanced
    <3>2. Leq(r, Size(r)) /\ Leq(Neg(r), Size(r)) /\ Size(r) \in Num /\ Neg(r) \in Num
      BY SizeFacts, Closure
    <3>3. Leq(r, l) /\ Leq(Neg(r), l)
      BY <3>1, <3>2, OrderLaws
    <3>4. Leq(Neg(l), Neg(Neg(r))) /\ Neg(Neg(r)) = r
      BY <3>2, <3>3, NegOrder, NegLaws
    <3> QED
      BY <2>4, <3>3, <3>4
  <2> QED
    BY <2>2, <2>3, <2>4
<1>3. Positive(w) \/ Negative(v)
  <2>1. ASSUME Leq(w, Zero), Leq(Zero, v) PROVE FALSE
    BY <1>1, <2>1, OrderLaws
  <2> QED
    BY <2>1 DEF Positive, Negative
<1> QED
  BY <1>2, <1>3

(* A gradient g at the weight w moves the line of slopes up by g at w and  *)
(* steepens it by the rate of the step.                                    *)
LEMMA LineMoves ==
  ASSUME OrderedField, NEW p \in ParamSet, NEW m \in Num, IsSquare(m), NEW n \in Num, IsSquare(n),
         NEW z \in Num, NEW g \in Num, NEW w \in Num, NEW x \in Num
  PROVE  LET rate == Rate(p, m, n)
         IN  Line(p, Plus(z, Minus(g, Times(rate, w))), n, x)
               = Plus(Line(p, z, m, x), Plus(g, Times(rate, Minus(x, w))))
<1> DEFINE rate == Rate(p, m, n)
           c == Curvature(p, m)
<1>1. rate \in Num /\ c \in Num /\ Curvature(p, n) = Plus(c, rate)
  BY RateGrows, CurvatureFacts
<1> HIDE DEF rate, c
<1> DEFINE q == Neg(Times(rate, w))
           u == Times(c, x)
           v == Times(rate, x)
<1>2. q \in Num /\ u \in Num /\ v \in Num
  BY <1>1, Closure
<1>3. Times(Plus(c, rate), x) = Plus(u, v)
  <2>1. Times(x, Plus(c, rate)) = Plus(Times(x, c), Times(x, rate))
    BY <1>1, TimesLaws
  <2>2. Times(x, c) = u /\ Times(x, rate) = v /\ Times(x, Plus(c, rate)) = Times(Plus(c, rate), x)
    BY <1>1, Closure, TimesLaws
  <2> QED
    BY <2>1, <2>2
<1>4. Times(rate, Minus(x, w)) = Plus(v, q)
  <2>1. Neg(w) \in Num /\ Times(rate, Neg(w)) = q
    BY <1>1, Closure, TimesNeg
  <2> QED
    BY <1>1, <2>1, TimesLaws DEF Minus
<1>5. Minus(g, Times(rate, w)) = Plus(g, q)
  BY DEF Minus
<1> HIDE DEF q, u, v
<1>6. Plus(Plus(z, Plus(g, q)), Plus(u, v)) = Plus(Plus(z, u), Plus(Plus(g, q), v))
  BY <1>2, Closure, PlusSwap
<1>7. Plus(Plus(g, q), v) = Plus(g, Plus(v, q))
  BY <1>2, PlusLaws
<1>8. Line(p, Plus(z, Minus(g, Times(rate, w))), n, x) = Plus(Plus(z, Plus(g, q)), Plus(u, v))
  BY <1>1, <1>3, <1>5 DEF Line
<1>9. Line(p, z, m, x) = Plus(z, u)
  BY DEF Line, c, u
<1> QED
  BY <1>4, <1>6, <1>7, <1>8, <1>9 DEF rate

(* Bounds of sums and sizes. *)
LEMMA PlusMono ==
  ASSUME OrderedField, NEW a \in Num, NEW b \in Num, NEW c \in Num, NEW d \in Num,
         Leq(a, b), Leq(c, d)
  PROVE  Leq(Plus(a, c), Plus(b, d))
<1>1. Leq(Plus(a, c), Plus(b, c)) /\ Leq(Plus(c, b), Plus(d, b))
  BY OrderLaws
<1>2. /\ Plus(a, c) \in Num /\ Plus(b, c) \in Num /\ Plus(b, d) \in Num
      /\ Plus(c, b) = Plus(b, c) /\ Plus(d, b) = Plus(b, d)
  BY Closure, PlusLaws
<1>3. Leq(Plus(b, c), Plus(b, d))
  BY <1>1, <1>2
<1> QED
  BY <1>1, <1>2, <1>3, OrderLaws

LEMMA TimesBound ==
  ASSUME OrderedField, NEW a \in Num, NEW c \in Num, Leq(Zero, c)
  PROVE  /\ Times(Size(a), c) \in Num /\ Leq(Zero, Times(Size(a), c))
         /\ Leq(Times(c, a), Times(Size(a), c)) /\ Leq(Neg(Times(c, a)), Times(Size(a), c))
         /\ Times(Size(a), c) \in {Times(c, a), Neg(Times(c, a))}
<1>1. /\ Zero \in Num /\ Size(a) \in Num /\ Times(c, a) \in Num /\ Neg(Times(c, a)) \in Num
      /\ Leq(Zero, Size(a)) /\ Times(Size(a), c) \in Num
  BY Closure, SizeFacts
<1>2. Leq(Zero, Times(Size(a), c))
  BY <1>1, OrderLaws
<1>3. Size(a) \in {a, Neg(a)}
  BY DEF Size
<1>4. Times(a, c) = Times(c, a) /\ Times(Neg(a), c) = Neg(Times(c, a))
  BY TimesLaws, TimesNeg
<1>5. Times(Size(a), c) \in {Times(c, a), Neg(Times(c, a))}
  BY <1>3, <1>4
<1>6. CASE Times(Size(a), c) = Times(c, a)
  <2>1. Leq(Neg(Times(c, a)), Zero) /\ Leq(Times(c, a), Times(c, a))
    BY <1>1, <1>2, <1>6, NegLaws, NegOrder, OrderLaws
  <2> QED
    BY <1>1, <1>2, <1>6, <2>1, OrderLaws
<1>7. CASE Times(Size(a), c) = Neg(Times(c, a))
  <2>1. Leq(Times(c, a), Zero) /\ Leq(Neg(Times(c, a)), Neg(Times(c, a)))
    <3>1. Neg(Neg(Times(c, a))) = Times(c, a) /\ Neg(Zero) = Zero
      BY <1>1, NegLaws
    <3>2. Leq(Neg(Neg(Times(c, a))), Neg(Zero))
      BY <1>1, <1>2, <1>7, NegOrder
    <3> QED
      BY <1>1, <3>1, <3>2, OrderLaws
  <2> QED
    BY <1>1, <1>2, <1>7, <2>1, OrderLaws
<1> QED
  BY <1>1, <1>2, <1>5, <1>6, <1>7

(* The rate of a step is not negative. *)
LEMMA RatePositive ==
  ASSUME OrderedField, NEW p \in ParamSet, NEW m \in Num, IsSquare(m), NEW g \in Num,
         NEW n \in Num, n = Plus(m, Times(g, g)), IsSquare(n)
  PROVE  Leq(Zero, Rate(p, m, n))
<1> DEFINE a == Root(m)
           b == Root(n)
<1>1. /\ a \in Num /\ b \in Num /\ Leq(Zero, a) /\ Leq(Zero, b)
      /\ Times(a, a) = m /\ Times(b, b) = n /\ Zero \in Num
  BY Closure, RootLaws
<1>2. Leq(m, n)
  <2>1. Leq(Zero, Times(g, g)) /\ Times(g, g) \in Num
    BY SquareFacts, Closure DEF Negative
  <2>2. Leq(Plus(Zero, m), Plus(Times(g, g), m))
    BY <1>1, <2>1, OrderLaws
  <2> QED
    BY <1>1, <2>1, <2>2, PlusLaws
<1> HIDE DEF a, b
<1>3. Leq(a, b)
  <2>1. SUFFICES ASSUME Leq(b, a) PROVE Leq(a, b)
    BY <1>1, OrderLaws
  <2> DEFINE d == Minus(a, b)
  <2>2. d \in Num /\ Leq(Zero, d)
    BY <1>1, <2>1, Closure, MinusOrder
  <2>3. Times(b, d) = Minus(Times(a, b), n) /\ Times(a, d) = Minus(m, Times(a, b))
    <3>1. Neg(b) \in Num /\ d = Plus(a, Neg(b))
      BY <1>1, Closure DEF Minus
    <3> HIDE DEF d
    <3>2. Times(b, d) = Plus(Times(b, a), Times(b, Neg(b)))
          /\ Times(a, d) = Plus(Times(a, a), Times(a, Neg(b)))
      BY <1>1, <3>1, TimesLaws
    <3>3. /\ Times(b, Neg(b)) = Neg(Times(b, b)) /\ Times(a, Neg(b)) = Neg(Times(a, b))
          /\ Times(b, a) = Times(a, b)
      BY <1>1, TimesNeg, TimesLaws
    <3> QED
      BY <1>1, <3>2, <3>3 DEF Minus
  <2>4. Leq(n, Times(a, b)) /\ Leq(Times(a, b), m) /\ Times(a, b) \in Num
    <3>1. Leq(Zero, Times(b, d)) /\ Leq(Zero, Times(a, d)) /\ Times(a, b) \in Num
      BY <1>1, <2>2, Closure, OrderLaws
    <3> QED
      BY <2>3, <3>1, MinusOrder
  <2>5. n = m
    BY <1>2, <2>4, OrderLaws
  <2> QED
    BY <1>1, <2>5, OrderLaws DEF a, b
<1>4. Minus(b, a) \in Num /\ ~Negative(Minus(b, a))
  BY <1>1, <1>3, Closure, MinusOrder DEF Negative
<1> QED
  BY <1>4, ParamFacts, OverPositive DEF Rate, Negative, a, b

(* From a minimum v to the next, x: the change h of the slope at v and the *)
(* way from v to x times the curvature have opposite signs, and the way is *)
(* not the longer one.                                                     *)
LEMMA NextMinimum ==
  ASSUME OrderedField, NEW p \in ParamSet, NEW m \in Num, IsSquare(m), NEW n \in Num, IsSquare(n),
         NEW z \in Num, NEW g \in Num, NEW w \in Num, NEW v \in Num, NEW x \in Num, NEW y \in Num,
         y = Plus(z, Minus(g, Times(Rate(p, m, n), w))),
         Balanced(p.l1, Line(p, z, m, v), v),
         Balanced(p.l1, Line(p, y, n, x), x)
  PROVE  LET h == Plus(g, Times(Rate(p, m, n), Minus(v, w)))
             e == Times(Curvature(p, n), Minus(x, v))
         IN  \/ e = Zero
             \/ Leq(Zero, e) /\ Leq(e, Neg(h))
             \/ Leq(e, Zero) /\ Leq(Neg(h), e)
<1> DEFINE h == Plus(g, Times(Rate(p, m, n), Minus(v, w)))
           s == Line(p, z, m, v)
           t == Line(p, y, n, x)
           c == Curvature(p, n)
           d == Minus(x, v)
           e == Times(c, d)
<1>1. /\ Zero \in Num /\ c \in Num /\ d \in Num /\ e \in Num /\ h \in Num /\ Leq(Zero, c)
      /\ Curvature(p, m) \in Num /\ Rate(p, m, n) \in Num
  BY Closure, CurvatureFacts, RateGrows DEF Negative
<1>2. s \in Num /\ t \in Num
  BY <1>1, Closure DEF Line
<1>3. Line(p, y, n, v) = Plus(s, h)
  BY LineMoves
<1>4. t = Plus(Plus(s, h), e)
  <2>1. Neg(v) \in Num /\ e = Plus(Times(c, x), Times(c, Neg(v)))
    BY <1>1, Closure, TimesLaws DEF Minus
  <2>2. Times(c, Neg(v)) = Neg(Times(c, v))
    BY <1>1, TimesNeg
  <2> DEFINE cx == Times(c, x)
             cv == Times(c, v)
  <2>3. cx \in Num /\ cv \in Num /\ Neg(cv) \in Num
    BY <1>1, Closure
  <2>4. Plus(cv, e) = cx
    <3> HIDE DEF c, e, cx, cv
    <3>1. e = Plus(cx, Neg(cv))
      BY <2>1, <2>2 DEF cx, cv
    <3>2. Plus(cv, Plus(cx, Neg(cv))) = Plus(Plus(cx, Neg(cv)), cv)
      BY <2>3, Closure, PlusLaws
    <3>3. Plus(Plus(cx, Neg(cv)), cv) = Plus(cx, Plus(Neg(cv), cv))
      BY <2>3, PlusLaws
    <3>4. Plus(Neg(cv), cv) = Zero
      BY <2>3, PlusLaws
    <3> QED
      BY <2>3, <3>1, <3>2, <3>3, <3>4, PlusLaws
  <2>5. Plus(Plus(y, cv), e) = Plus(y, Plus(cv, e))
    <3> HIDE DEF e, cv
    <3> QED
      BY <1>1, <2>3, PlusLaws
  <2> QED
    BY <1>3, <2>4, <2>5 DEF Line
<1> HIDE DEF h, s, t, e
<1>5. Plus(h, e) = Minus(t, s) /\ Plus(h, e) \in Num
  <2>1. Plus(Plus(s, h), e) = Plus(s, Plus(h, e)) /\ Plus(h, e) \in Num /\ Neg(s) \in Num
    BY <1>1, <1>2, Closure, PlusLaws
  <2>2. Plus(Plus(Plus(h, e), s), Neg(s)) = Plus(Plus(h, e), Plus(s, Neg(s)))
    BY <1>2, <2>1, PlusLaws
  <2>3. Plus(s, Neg(s)) = Zero /\ Plus(s, Plus(h, e)) = Plus(Plus(h, e), s)
    BY <1>2, <2>1, PlusLaws
  <2> QED
    BY <1>4, <2>1, <2>2, <2>3, PlusLaws DEF Minus
<1>6. Plus(Plus(h, e), Neg(h)) = e /\ Neg(h) \in Num
  <2>1. Neg(h) \in Num /\ Plus(h, e) = Plus(e, h)
    BY <1>1, Closure, PlusLaws
  <2>2. Plus(Plus(e, h), Neg(h)) = Plus(e, Plus(h, Neg(h)))
    BY <1>1, <2>1, PlusLaws
  <2> QED
    BY <1>1, <2>1, <2>2, PlusLaws
<1>7. Plus(Zero, Neg(h)) = Neg(h)
  BY <1>1, <1>6, PlusLaws
<1>8. p.l1 \in Num /\ Leq(Zero, p.l1)
  BY ParamFacts DEF Negative
<1>9. CASE v = x
  <2>1. d = Zero
    BY <1>9, PlusLaws DEF Minus
  <2> QED
    BY <1>1, <2>1, TimesZero DEF e
<1>10. CASE Leq(v, x) /\ v # x
  <2>1. Leq(t, s)
    BY <1>2, <1>8, <1>10, Monotone DEF s, t
  <2>2. Leq(Plus(h, e), Zero)
    <3>1. Leq(Zero, Minus(s, t))
      BY <1>2, <2>1, MinusOrder
    <3>2. Neg(Minus(s, t)) = Minus(t, s) /\ Minus(s, t) \in Num
      BY <1>2, NegLaws, Closure
    <3> QED
      BY <1>1, <1>5, <3>1, <3>2, NegLaws, NegOrder
  <2>3. Leq(Plus(Plus(h, e), Neg(h)), Plus(Zero, Neg(h)))
    BY <1>1, <1>5, <1>6, <2>2, OrderLaws
  <2>4. Leq(Zero, d)
    BY <1>10, MinusOrder
  <2>5. Leq(Zero, e)
    BY <1>1, <2>4, OrderLaws DEF e
  <2> QED
    BY <1>6, <1>7, <2>3, <2>5 DEF h, e
<1>11. CASE Leq(x, v) /\ v # x
  <2>1. Leq(s, t)
    BY <1>2, <1>8, <1>11, Monotone DEF s, t
  <2>2. Leq(Zero, Plus(h, e))
    BY <1>2, <1>5, <2>1, MinusOrder
  <2>3. Leq(Plus(Zero, Neg(h)), Plus(Plus(h, e), Neg(h)))
    BY <1>1, <1>5, <1>6, <2>2, OrderLaws
  <2>4. Leq(Zero, Minus(v, x)) /\ Minus(v, x) \in Num /\ Neg(d) = Minus(v, x)
    BY <1>11, MinusOrder, Closure, NegLaws
  <2>5. Leq(Zero, Neg(e))
    <3>1. Times(c, Neg(d)) = Neg(e)
      BY <1>1, TimesNeg DEF e
    <3> QED
      BY <1>1, <2>4, <3>1, OrderLaws
  <2>6. Leq(e, Zero)
    BY <1>1, <2>5, NegLaws, NegOrder, Closure
  <2> QED
    BY <1>6, <1>7, <2>3, <2>6 DEF h, e
<1>12. Leq(v, x) \/ Leq(x, v)
  BY OrderLaws
<1> QED
  BY <1>9, <1>10, <1>11, <1>12

(* From a weight w to the next, x, where v is the minimum before. *)
LEMMA StepIsBounded ==
  ASSUME OrderedField, NEW p \in ParamSet, NEW m \in Num, IsSquare(m), NEW g \in Num,
         NEW n \in Num, n = Plus(m, Times(g, g)), IsSquare(n),
         NEW z \in Num, NEW w \in Num, NEW v \in Num, NEW x \in Num, NEW y \in Num,
         y = Plus(z, Minus(g, Times(Rate(p, m, n), w))),
         Balanced(p.l1, Line(p, z, m, v), v),
         Balanced(p.l1, Line(p, y, n, x), x)
  PROVE  Leq(Times(Size(Minus(x, w)), Curvature(p, n)),
             Plus(Size(g), Times(Size(Minus(w, v)), Curvature(p, n))))
<1> DEFINE c == Curvature(p, m)
           r == Rate(p, m, n)
           cc == Curvature(p, n)
           d == Minus(v, w)
           h == Plus(g, Times(r, d))
           e == Times(cc, Minus(x, v))
           a == Times(cc, Minus(x, w))
           far == Times(Size(d), cc)
           bound == Plus(Size(g), far)
<1>1. /\ Zero \in Num /\ c \in Num /\ r \in Num /\ cc \in Num /\ d \in Num
      /\ Leq(Zero, c) /\ Leq(Zero, cc) /\ Leq(Zero, r) /\ cc = Plus(c, r)
  BY Closure, CurvatureFacts, RateGrows, RatePositive DEF Negative
<1>2. \/ e = Zero
      \/ Leq(Zero, e) /\ Leq(e, Neg(h))
      \/ Leq(e, Zero) /\ Leq(Neg(h), e)
  BY NextMinimum
<1>3. Minus(x, w) = Plus(Minus(x, v), d) /\ Minus(w, v) = Neg(d)
  <2>1. Neg(v) \in Num /\ Neg(w) \in Num
    BY Closure
  <2>2. Plus(Plus(x, Neg(v)), Plus(v, Neg(w))) = Plus(x, Plus(Neg(v), Plus(v, Neg(w))))
    BY <2>1, Closure, PlusLaws
  <2>3. Plus(Neg(v), Plus(v, Neg(w))) = Plus(Plus(Neg(v), v), Neg(w))
    BY <2>1, PlusLaws
  <2>4. Plus(Neg(v), v) = Zero /\ Plus(Zero, Neg(w)) = Neg(w)
    BY <1>1, <2>1, PlusLaws
  <2> QED
    BY <2>2, <2>3, <2>4, NegLaws DEF Minus
<1>4. Minus(x, v) \in Num /\ Minus(x, w) \in Num
  BY Closure
<1> HIDE DEF c, r, cc, d
<1> DEFINE cd == Times(c, d)
           rd == Times(r, d)
           ccd == Times(cc, d)
<1>5. a = Plus(e, ccd) /\ a \in Num /\ e \in Num
  <2>1. Times(cc, Plus(Minus(x, v), d)) = Plus(Times(cc, Minus(x, v)), Times(cc, d))
    BY <1>1, <1>4, TimesLaws
  <2>2. Times(cc, Minus(x, v)) \in Num /\ Times(cc, Minus(x, w)) \in Num
    BY <1>1, <1>4, Closure
  <2> QED
    BY <1>3, <2>1, <2>2
<1>6. /\ cd \in Num /\ rd \in Num /\ ccd \in Num /\ h \in Num /\ Neg(h) \in Num
      /\ Size(g) \in Num /\ far \in Num /\ bound \in Num /\ Neg(g) \in Num
  BY <1>1, Closure
<1>7. ccd = Plus(cd, rd)
  <2>1. Times(d, Plus(c, r)) = Plus(Times(d, c), Times(d, r))
    BY <1>1, TimesLaws
  <2>2. Times(d, Plus(c, r)) = ccd /\ Times(d, c) = cd /\ Times(d, r) = rd
    BY <1>1, Closure, TimesLaws
  <2> QED
    BY <2>1, <2>2
<1>8. Plus(Neg(h), ccd) = Plus(Neg(g), cd)
  <2>1. Neg(h) = Plus(Neg(g), Neg(rd)) /\ Neg(rd) \in Num
    BY <1>6, NegLaws, Closure
  <2> HIDE DEF cd, rd, ccd, h
  <2>2. Plus(Plus(Neg(g), Neg(rd)), Plus(cd, rd)) = Plus(Plus(Neg(g), cd), Plus(Neg(rd), rd))
    BY <1>6, <2>1, PlusSwap
  <2>3. Plus(Neg(rd), rd) = Zero /\ Plus(Neg(g), cd) \in Num
    BY <1>6, <2>1, Closure, PlusLaws
  <2> QED
    BY <1>7, <2>1, <2>2, <2>3, PlusLaws
<1>9. Leq(cd, far) /\ Leq(Neg(cd), far) /\ Leq(ccd, far) /\ Leq(Neg(ccd), far) /\ Leq(Zero, far)
  <2>1. /\ Leq(ccd, far) /\ Leq(Neg(ccd), far) /\ Leq(Zero, far)
    BY <1>1, TimesBound
  <2>2. /\ Leq(cd, Times(Size(d), c)) /\ Leq(Neg(cd), Times(Size(d), c))
        /\ Times(Size(d), c) \in Num
    BY <1>1, TimesBound
  <2>3. Leq(Times(Size(d), c), far)
    <3>1. /\ Times(Size(d), r) \in Num /\ Leq(Zero, Times(Size(d), r)) /\ Size(d) \in Num
      BY <1>1, TimesBound, Closure
    <3>2. far = Plus(Times(Size(d), c), Times(Size(d), r))
      BY <1>1, <3>1, TimesLaws
    <3>3. Leq(Plus(Zero, Times(Size(d), c)), Plus(Times(Size(d), r), Times(Size(d), c)))
      BY <1>1, <2>2, <3>1, OrderLaws
    <3> HIDE DEF far
    <3> QED
      BY <1>1, <2>2, <3>1, <3>2, <3>3, PlusLaws
  <2>4. Neg(cd) \in Num
    BY <1>6, Closure
  <2> HIDE DEF cd, far
  <2> QED
    BY <1>1, <1>6, <2>1, <2>2, <2>3, <2>4, OrderLaws
<1>10. Leq(g, Size(g)) /\ Leq(Neg(g), Size(g)) /\ Leq(Zero, Size(g))
  BY SizeFacts
<1> HIDE DEF cd, rd, ccd, h, e, a, far
<1>11. /\ Neg(cd) \in Num /\ Neg(ccd) \in Num /\ Neg(e) \in Num /\ Neg(a) \in Num
       /\ Neg(a) = Plus(Neg(e), Neg(ccd))
       /\ Neg(Neg(h)) = h /\ Neg(Zero) = Zero
       /\ Plus(h, Neg(ccd)) = Plus(g, Neg(cd))
       /\ Plus(Zero, ccd) = ccd /\ Plus(Zero, Neg(ccd)) = Neg(ccd)
  <2>1. Neg(cd) \in Num /\ Neg(ccd) \in Num /\ Neg(e) \in Num /\ Neg(a) \in Num
    BY <1>5, <1>6, Closure
  <2>2. Neg(a) = Plus(Neg(e), Neg(ccd)) /\ Neg(Neg(h)) = h /\ Neg(Zero) = Zero
        /\ Neg(Neg(g)) = g
    BY <1>5, <1>6, NegLaws
  <2>3. Neg(Plus(Neg(h), ccd)) = Plus(Neg(Neg(h)), Neg(ccd))
        /\ Neg(Plus(Neg(g), cd)) = Plus(Neg(Neg(g)), Neg(cd))
    BY <1>6, NegLaws
  <2>4. Plus(Zero, ccd) = ccd /\ Plus(Zero, Neg(ccd)) = Neg(ccd)
    BY <1>1, <1>6, <2>1, PlusLaws
  <2> QED
    BY <1>8, <2>1, <2>2, <2>3, <2>4
<1>12. /\ Leq(Plus(Neg(g), cd), bound) /\ Leq(Plus(g, Neg(cd)), bound)
       /\ Leq(Plus(Zero, ccd), bound) /\ Leq(Plus(Zero, Neg(ccd)), bound)
  BY <1>1, <1>6, <1>9, <1>10, <1>11, PlusMono
<1>13. Leq(a, bound) /\ Leq(Neg(a), bound)
  <2> DEFINE hi == Plus(Neg(g), cd)
             lo == Plus(g, Neg(cd))
  <2>1. hi \in Num /\ lo \in Num /\ Plus(Zero, ccd) \in Num /\ Plus(Zero, Neg(ccd)) \in Num
    BY <1>1, <1>6, <1>11, Closure
  <2>2. CASE e = Zero
    BY <1>5, <1>11, <1>12, <2>2
  <2>3. CASE Leq(Zero, e) /\ Leq(e, Neg(h))
    <3>1. Leq(ccd, ccd) /\ Leq(Neg(ccd), Neg(ccd))
      BY <1>6, <1>11, OrderLaws
    <3>2. Leq(Neg(e), Zero)
      BY <1>1, <1>5, <1>11, <2>3, NegOrder
    <3>3. Leq(Plus(e, ccd), Plus(Neg(h), ccd))
      BY <1>5, <1>6, <2>3, <3>1, PlusMono
    <3>4. Leq(Plus(Neg(e), Neg(ccd)), Plus(Zero, Neg(ccd)))
      BY <1>1, <1>11, <3>1, <3>2, PlusMono
    <3>5. Leq(a, hi) /\ Leq(Neg(a), Plus(Zero, Neg(ccd)))
      BY <1>5, <1>8, <1>11, <3>3, <3>4
    <3> QED
      BY <1>5, <1>6, <1>11, <1>12, <2>1, <3>5, OrderLaws
  <2>4. CASE Leq(e, Zero) /\ Leq(Neg(h), e)
    <3>1. Leq(ccd, ccd) /\ Leq(Neg(ccd), Neg(ccd))
      BY <1>6, <1>11, OrderLaws
    <3>2. Leq(Neg(e), h)
      BY <1>5, <1>6, <1>11, <2>4, NegOrder
    <3>3. Leq(Plus(Neg(e), Neg(ccd)), Plus(h, Neg(ccd)))
      BY <1>6, <1>11, <3>1, <3>2, PlusMono
    <3>4. Leq(Plus(e, ccd), Plus(Zero, ccd))
      BY <1>1, <1>5, <1>6, <2>4, <3>1, PlusMono
    <3>5. Leq(Neg(a), lo) /\ Leq(a, Plus(Zero, ccd))
      BY <1>5, <1>11, <3>3, <3>4
    <3> QED
      BY <1>5, <1>6, <1>11, <1>12, <2>1, <3>5, OrderLaws
  <2> QED
    BY <1>2, <2>2, <2>3, <2>4
<1>14. Times(Size(Minus(x, w)), cc) \in {a, Neg(a)}
  BY <1>1, <1>4, TimesBound DEF a
<1>15. Size(Minus(w, v)) = Size(d)
  BY <1>1, <1>3, SizeFacts
<1> QED
  BY <1>13, <1>14, <1>15 DEF cc, far

-----------------------------------------------------------------------------
(* What is true of a key with weight w, z, n, history l and flags st, co.  *)
(* With no gradient yet the flags say nothing of the parameters.           *)
Grad == [g : Num, w : Num]
KeyFact(p, w, z, n, l, st, co) ==
  /\ IsSquare(n) /\ (n = Zero => z = Zero)
  /\ l = <<>> => z = Zero /\ n = Zero /\ (co => w = Zero)
  /\ co => Balanced(p.l1, Line(p, z, n, w), w)
  /\ st => \A x \in Num :
       Sums(p.alpha, l, x) = [n |-> n, s |-> Plus(z, Times(Over(Root(n), p.alpha), x))]

(* Before the first gradient this is so with all parameters. *)
LEMMA FreshKey ==
  ASSUME OrderedField, NEW p \in ParamSet
  PROVE  KeyFact(p, Zero, Zero, Zero, <<>>, TRUE, TRUE)
<1>1. Zero \in Num /\ IsSquare(Zero) /\ Root(Zero) = Zero
  BY Closure, RootFacts
<1>2. Balanced(p.l1, Line(p, Zero, Zero, Zero), Zero)
  <2>1. Leq(Zero, Zero)
    BY <1>1, OrderLaws
  <2>2. Line(p, Zero, Zero, Zero) = Zero
    BY <1>1, CurvatureFacts, TimesZero, PlusLaws DEF Line
  <2>3. Size(Zero) = Zero /\ Leq(Zero, p.l1)
    BY <1>1, <2>1, SizeFacts, ParamFacts DEF Negative
  <2> QED
    BY <2>1, <2>2, <2>3 DEF Balanced, Positive, Negative
<1>3. ASSUME NEW x \in Num
      PROVE  Sums(p.alpha, <<>>, x)
               = [n |-> Zero, s |-> Plus(Zero, Times(Over(Root(Zero), p.alpha), x))]
  <2>1. Over(Zero, p.alpha) = Zero
    BY ParamFacts, OverZero
  <2>2. Plus(Zero, Times(Zero, x)) = Zero
    BY <1>1, TimesZero, PlusLaws
  <2>3. Sums(p.alpha, <<>>, x) = [n |-> Zero, s |-> Zero]
    <3>1. <<>> \in Seq(Num)
      OBVIOUS
    <3> QED
      BY <1>1, <3>1, SumsAppend
  <2> QED
    BY <1>1, <2>1, <2>2, <2>3
<1> QED
  BY <1>1, <1>2, <1>3 DEF KeyFact

(* A gradient. *)
LEMMA PushedKey ==
  ASSUME OrderedField, NEW p \in ParamSet, NEW w \in Num, NEW z \in Num, NEW n \in Num,
         NEW l \in Seq(Grad), NEW st, NEW co, KeyFact(p, w, z, n, l, st, co),
         NEW g \in Num, NEW e \in Grad, e.g = g, e.w = w, NEW li, li = Append(l, e),
         NEW ni \in Num, ni = Plus(n, Times(g, g)), IsSquare(ni),
         NEW zi \in Num, zi = Plus(z, Minus(g, Times(Rate(p, n, ni), w)))
  PROVE  /\ Optimum(p, zi, ni) \in Num
         /\ KeyFact(p, Optimum(p, zi, ni), zi, ni, li, st, TRUE)
<1> DEFINE rate == Rate(p, n, ni)
<1>1. IsSquare(n) /\ (n = Zero => z = Zero) /\ Append(l, e) # <<>>
  BY DEF KeyFact
<1>2. rate \in Num /\ zi \in Num
  BY <1>1, RateGrows, Closure
<1>3. ASSUME ni = Zero PROVE zi = Zero
  <2>1. Times(g, g) \in Num /\ ~Negative(Times(g, g)) /\ ~Negative(n)
    <3>1. ~Negative(Times(Root(n), Root(n))) /\ Times(Root(n), Root(n)) = n
      BY <1>1, RootFacts, RootLaws, SquareFacts
    <3> QED
      BY <3>1, SquareFacts, Closure
  <2>2. ~Positive(n) /\ ~Positive(Times(g, g))
    <3>1. ~Positive(Zero)
      BY Closure, OrderLaws DEF Positive
    <3> QED
      BY <1>3, <2>1, <3>1, PlusOrder
  <2>3. n = Zero /\ Times(g, g) = Zero
    BY <2>1, <2>2, Closure, OrderLaws DEF Positive, Negative
  <2>4. g = Zero /\ z = Zero
    BY <1>1, <2>3, SquareFacts
  <2>5. rate = Zero
    <3>1. Minus(Zero, Zero) = Zero
      BY Closure, PlusLaws DEF Minus
    <3> QED
      BY <1>3, <2>3, <3>1, RootFacts, ParamFacts, OverZero DEF Rate
  <2>6. Plus(Zero, Minus(Zero, Times(Zero, w))) = Zero
    <3>1. Times(Zero, w) = Zero /\ Plus(Zero, Zero) = Zero /\ Minus(Zero, Zero) = Zero
      BY Closure, TimesZero, PlusLaws DEF Minus
    <3> QED
      BY <3>1
  <2> QED
    BY <2>4, <2>5, <2>6
<1>4. /\ Optimum(p, zi, ni) \in Num
      /\ Balanced(p.l1, Line(p, zi, ni, Optimum(p, zi, ni)), Optimum(p, zi, ni))
  BY <1>2, <1>3, OptimumBalances
<1>5. ASSUME st, NEW x \in Num
      PROVE  Sums(p.alpha, Append(l, e), x)
               = [n |-> ni, s |-> Plus(zi, Times(Over(Root(ni), p.alpha), x))]
  <2> DEFINE old == Sums(p.alpha, l, x)
             rn == Over(Root(n), p.alpha)
             ri == Over(Root(ni), p.alpha)
  <2>1. old = [n |-> n, s |-> Plus(z, Times(rn, x))]
    BY <1>5 DEF KeyFact
  <2>2. Sums(p.alpha, Append(l, e), x) = Term(p.alpha, old, e, x)
    BY <1>1, SumsAppend
  <2>3. Term(p.alpha, old, e, x)
          = [n |-> ni, s |-> Plus(Plus(z, Times(rn, x)), Plus(g, Times(rate, Minus(x, w))))]
    <3> HIDE DEF old, rn, ri
    <3>1. old.n = n /\ old.s = Plus(z, Times(rn, x))
      BY <2>1
    <3> QED
      BY <3>1 DEF Term, Rate
  <2>4. rn \in Num /\ ri \in Num /\ ri = Plus(rn, rate)
    BY <1>1, RateGrows, RootFacts, ParamFacts, Closure
  <2> HIDE DEF rn, ri, rate
  <2> DEFINE q == Neg(Times(rate, w))
             u == Times(rn, x)
             v == Times(rate, x)
  <2>5. q \in Num /\ u \in Num /\ v \in Num
    BY <1>2, <2>4, Closure
  <2>6. Times(ri, x) = Plus(u, v)
    <3>1. Times(x, Plus(rn, rate)) = Plus(Times(x, rn), Times(x, rate))
      BY <1>2, <2>4, TimesLaws
    <3>2. Times(x, rn) = u /\ Times(x, rate) = v /\ Times(x, ri) = Times(ri, x)
      BY <1>2, <2>4, TimesLaws
    <3> QED
      BY <2>4, <3>1, <3>2
  <2>7. Times(rate, Minus(x, w)) = Plus(v, q)
    <3>1. Neg(w) \in Num /\ Times(rate, Neg(w)) = q
      BY <1>2, Closure, TimesNeg
    <3> QED
      BY <1>2, <3>1, TimesLaws DEF Minus
  <2>8. zi = Plus(z, Plus(g, q))
    BY DEF Minus, rate
  <2> HIDE DEF q, u, v
  <2>9. Plus(Plus(z, Plus(g, q)), Plus(u, v)) = Plus(Plus(z, u), Plus(Plus(g, q), v))
    BY <2>5, Closure, PlusSwap
  <2>10. Plus(Plus(g, q), v) = Plus(g, Plus(v, q))
    BY <2>5, PlusLaws
  <2> QED
    BY <2>2, <2>3, <2>6, <2>7, <2>8, <2>9, <2>10 DEF u, ri
<1> QED
  BY <1>1, <1>2, <1>3, <1>4, <1>5 DEF KeyFact

(* A load, and other parameters. *)
LEMMA LoadedKey ==
  ASSUME NEW p, NEW w, NEW z, NEW n, NEW l, NEW st, NEW co, NEW v, KeyFact(p, w, z, n, l, st, co)
  PROVE  KeyFact(p, v, z, n, l, st, FALSE)
  BY DEF KeyFact

LEMMA OtherParams ==
  ASSUME OrderedField, NEW p \in ParamSet, NEW q \in ParamSet, NEW w, NEW z, NEW n,
         NEW l, NEW st \in BOOLEAN, NEW co \in BOOLEAN, KeyFact(p, w, z, n, l, st, co)
  PROVE  KeyFact(q, w, z, n, l, st /\ (l = <<>> \/ q = p), co /\ (l = <<>> \/ q = p))
<1>1. CASE q = p
  BY <1>1 DEF KeyFact
<1>2. CASE q # p /\ l # <<>>
  BY <1>2 DEF KeyFact
<1>3. CASE l = <<>>
  <2>1. KeyFact(q, Zero, Zero, Zero, <<>>, TRUE, TRUE)
    BY FreshKey
  <2>2. z = Zero /\ n = Zero /\ (co => w = Zero)
    BY <1>3 DEF KeyFact
  <2> QED
    BY <1>3, <2>1, <2>2 DEF KeyFact
<1> QED
  BY <1>1, <1>2, <1>3

-----------------------------------------------------------------------------
FtrlTypes ==
  /\ W \in [Keys -> Num] /\ Z \in [Keys -> Num] /\ N \in [Keys -> Num]
  /\ param \in ParamSet
  /\ log \in [Keys -> Seq(Grad)]
  /\ steady \in [Keys -> BOOLEAN] /\ computed \in [Keys -> BOOLEAN]

KeysInv == \A k \in Keys : KeyFact(param, W[k], Z[k], N[k], log[k], steady[k], computed[k])
FtrlInv == FtrlTypes /\ KeysInv

LEMMA ParamsAreParams == Params \subseteq ParamSet
  BY FtrlAssumption DEF ParamSet

(* What a push does to one of its keys, and to the others. *)
KeyPushed(k, g) ==
  /\ N'[k] = Plus(N[k], Times(g, g)) /\ g \in Num
  /\ Z'[k] = Plus(Z[k], Minus(g, Times(Rate(param, N[k], N'[k]), W[k])))
  /\ W'[k] = Optimum(param, Z'[k], N'[k])
  /\ log'[k] = Append(log[k], [g |-> g, w |-> W[k]])
  /\ computed'[k] = TRUE
KeyKept(k) ==
  /\ N'[k] = N[k] /\ Z'[k] = Z[k] /\ W'[k] = W[k] /\ log'[k] = log[k]
  /\ computed'[k] = computed[k]

LEMMA PushFacts ==
  ASSUME OrderedField, FtrlInv, NEW ks \in SUBSET Keys, NEW g \in [ks -> Gradients],
         \A k \in ks : IsSquare(Plus(N[k], Times(g[k], g[k]))),
         Update(ks, g)
  PROVE  /\ FtrlTypes'
         /\ param' = param /\ steady' = steady
         /\ \A k \in ks : KeyPushed(k, g[k])
         /\ \A k \in ks : KeyFact(param, W'[k], Z'[k], N'[k], log'[k], steady[k], TRUE)
         /\ \A k \in Keys \ ks : KeyKept(k)
<1>1. param' = param /\ steady' = steady
  BY DEF Update
<1>2. ASSUME NEW k \in ks PROVE KeyPushed(k, g[k])
  <2>1. g[k] \in Num
    BY FtrlAssumption
  <2>2. N'[k] = Plus(N[k], Times(g[k], g[k]))
    BY DEF Update
  <2>3. Z'[k] = Plus(Z[k], Minus(g[k], Times(Rate(param, N[k], N'[k]), W[k])))
    BY <2>2 DEF Update, Sigma, Rate
  <2>4. W'[k] = Weight(Z'[k], N'[k])
    BY DEF Update
  <2>5. Weight(Z'[k], N'[k]) = Optimum(param, Z'[k], N'[k])
    BY DEF Weight, Optimum, Curvature
  <2>6. log'[k] = Append(log[k], [g |-> g[k], w |-> W[k]]) /\ computed'[k] = TRUE
    BY DEF Update
  <2> QED
    BY <2>1, <2>2, <2>3, <2>4, <2>5, <2>6 DEF KeyPushed
<1>3. ASSUME NEW k \in Keys \ ks PROVE KeyKept(k)
  BY DEF Update, KeyKept
<1>4. ASSUME NEW k \in ks
      PROVE  /\ N'[k] \in Num /\ Z'[k] \in Num /\ W'[k] \in Num
             /\ KeyFact(param, W'[k], Z'[k], N'[k], log'[k], steady[k], TRUE)
  <2>1. /\ param \in ParamSet /\ W[k] \in Num /\ Z[k] \in Num /\ N[k] \in Num
        /\ log[k] \in Seq(Grad) /\ steady[k] \in BOOLEAN /\ computed[k] \in BOOLEAN
        /\ KeyFact(param, W[k], Z[k], N[k], log[k], steady[k], computed[k])
    BY DEF FtrlInv, FtrlTypes, KeysInv
  <2>2. IsSquare(Plus(N[k], Times(g[k], g[k]))) /\ g[k] \in Num
    BY <1>2 DEF KeyPushed
  <2>3. IsSquare(N[k]) /\ param \in ParamSet
    BY <2>1 DEF KeyFact
  <2>4. PICK p, w, z, n, l, st, co :
          /\ p = param
          /\ w = W[k] /\ z = Z[k] /\ n = N[k] /\ l = log[k] /\ st = steady[k] /\ co = computed[k]
    OBVIOUS
  <2>5. PICK gk, e, ni : gk = g[k] /\ e = [g |-> gk, w |-> w] /\ ni = Plus(n, Times(gk, gk))
    OBVIOUS
  <2>6. PICK zi, li : zi = Plus(z, Minus(gk, Times(Rate(p, n, ni), w))) /\ li = Append(l, e)
    OBVIOUS
  <2>7. /\ gk \in Num /\ w \in Num /\ z \in Num /\ n \in Num /\ ni \in Num /\ p \in ParamSet
        /\ e \in Grad /\ e.g = gk /\ e.w = w
        /\ l \in Seq(Grad) /\ st \in BOOLEAN /\ co \in BOOLEAN
        /\ IsSquare(n) /\ IsSquare(ni)
    BY <2>1, <2>2, <2>3, <2>4, <2>5, Closure DEF Grad
  <2>8. zi \in Num
    BY <2>6, <2>7, RateGrows, Closure
  <2>9. KeyFact(p, w, z, n, l, st, co)
    BY <2>1, <2>4
  <2>10. /\ Optimum(p, zi, ni) \in Num
         /\ KeyFact(p, Optimum(p, zi, ni), zi, ni, li, st, TRUE)
    BY <2>5, <2>6, <2>7, <2>8, <2>9, PushedKey
  <2>11. N'[k] = ni /\ Z'[k] = zi /\ W'[k] = Optimum(p, zi, ni) /\ log'[k] = li
    BY <1>2, <2>4, <2>5, <2>6 DEF KeyPushed
  <2> QED
    BY <2>4, <2>7, <2>8, <2>10, <2>11
<1>5. ASSUME NEW k \in ks PROVE log'[k] \in Seq(Grad)
  <2>1. log[k] \in Seq(Grad) /\ W[k] \in Num /\ g[k] \in Num
    BY <1>2 DEF FtrlInv, FtrlTypes, KeyPushed
  <2>2. [g |-> g[k], w |-> W[k]] \in Grad
    BY <2>1 DEF Grad
  <2>3. log'[k] = Append(log[k], [g |-> g[k], w |-> W[k]])
    BY <1>2 DEF KeyPushed
  <2> QED
    BY <2>1, <2>2, <2>3
<1>6. FtrlTypes'
  <2>1. /\ DOMAIN W' = Keys /\ DOMAIN Z' = Keys /\ DOMAIN N' = Keys /\ DOMAIN log' = Keys
        /\ DOMAIN computed' = Keys
        /\ W' = [k \in Keys |-> W'[k]] /\ Z' = [k \in Keys |-> Z'[k]]
        /\ N' = [k \in Keys |-> N'[k]] /\ log' = [k \in Keys |-> log'[k]]
        /\ computed' = [k \in Keys |-> computed'[k]]
    BY DEF Update
  <2>2. ASSUME NEW k \in Keys
        PROVE  /\ W'[k] \in Num /\ Z'[k] \in Num /\ N'[k] \in Num /\ log'[k] \in Seq(Grad)
               /\ computed'[k] \in BOOLEAN
    BY <1>2, <1>3, <1>4, <1>5 DEF FtrlInv, FtrlTypes, KeyPushed, KeyKept
  <2> QED
    BY <1>1, <2>1, <2>2 DEF FtrlInv, FtrlTypes
<1> QED
  BY <1>1, <1>2, <1>3, <1>4, <1>6

LEMMA FtrlStarts == ASSUME OrderedField, FtrlInit PROVE FtrlInv
<1>1. param \in ParamSet
  BY FtrlAssumption, ParamsAreParams DEF FtrlInit
<1>2. FtrlTypes
  BY <1>1, Closure DEF FtrlInit, FtrlTypes
<1>3. ASSUME NEW k \in Keys
      PROVE  KeyFact(param, W[k], Z[k], N[k], log[k], steady[k], computed[k])
  BY <1>1, FreshKey DEF FtrlInit
<1> QED
  BY <1>2, <1>3 DEF FtrlInv, KeysInv

LEMMA FtrlSteps == ASSUME OrderedField, FtrlInv, [FtrlNext]_ftrlVars PROVE FtrlInv'
<1>1. CASE PushGradients
  <2>1. PICK ks \in (SUBSET Keys) \ {{}} : \E g \in [ks -> Gradients] :
          /\ \A k \in ks : Len(log[k]) < MaxGrads /\ IsSquare(Plus(N[k], Times(g[k], g[k])))
          /\ Update(ks, g)
    BY <1>1 DEF PushGradients
  <2>2. PICK g \in [ks -> Gradients] :
          /\ \A k \in ks : IsSquare(Plus(N[k], Times(g[k], g[k])))
          /\ Update(ks, g)
    BY <2>1
  <2>3. FtrlTypes' /\ param' = param /\ steady' = steady
    BY <2>2, PushFacts
  <2>4. ASSUME NEW k \in Keys
        PROVE  KeyFact(param', W'[k], Z'[k], N'[k], log'[k], steady'[k], computed'[k])
    <3>1. CASE k \in ks
      BY <2>2, <2>3, <3>1, PushFacts DEF KeyPushed
    <3>2. CASE k \notin ks
      BY <2>2, <2>3, <3>2, PushFacts DEF FtrlInv, KeysInv, KeyKept
    <3> QED
      BY <3>1, <3>2
  <2> QED
    BY <2>3, <2>4 DEF FtrlInv, KeysInv
<1>2. CASE SetWeight
  <2>1. PICK ks \in (SUBSET Keys) \ {{}} : \E v \in [ks -> Loads] :
          /\ W' = [k \in Keys |-> IF k \in ks THEN v[k] ELSE W[k]]
          /\ computed' = [k \in Keys |-> computed[k] /\ k \notin ks]
          /\ UNCHANGED <<Z, N, param, log, steady>>
    BY <1>2 DEF SetWeight
  <2>2. PICK v \in [ks -> Loads] :
          /\ W' = [k \in Keys |-> IF k \in ks THEN v[k] ELSE W[k]]
          /\ computed' = [k \in Keys |-> computed[k] /\ k \notin ks]
          /\ UNCHANGED <<Z, N, param, log, steady>>
    BY <2>1
  <2>3. FtrlTypes'
    BY <2>2, FtrlAssumption DEF FtrlInv, FtrlTypes
  <2>4. ASSUME NEW k \in Keys
        PROVE  KeyFact(param', W'[k], Z'[k], N'[k], log'[k], steady'[k], computed'[k])
    <3>1. KeyFact(param, W[k], Z[k], N[k], log[k], steady[k], computed[k])
      BY DEF FtrlInv, KeysInv
    <3>2. CASE k \in ks
      <4>1. computed'[k] = FALSE
        BY <2>2, <3>2
      <4> QED
        BY <2>2, <3>1, <4>1, LoadedKey
    <3>3. CASE k \notin ks
      <4>1. computed'[k] = computed[k] /\ W'[k] = W[k]
        BY <2>2, <3>3 DEF FtrlInv, FtrlTypes
      <4> QED
        BY <2>2, <3>1, <4>1
    <3> QED
      BY <3>2, <3>3
  <2> QED
    BY <2>3, <2>4 DEF FtrlInv, KeysInv
<1>3. CASE SetParam
  <2>1. PICK p \in Params :
          /\ param' = p
          /\ steady' = [k \in Keys |-> steady[k] /\ (log[k] = <<>> \/ p = param)]
          /\ computed' = [k \in Keys |-> computed[k] /\ (log[k] = <<>> \/ p = param)]
          /\ UNCHANGED <<W, Z, N, log>>
    BY <1>3 DEF SetParam
  <2>2. p \in ParamSet
    BY ParamsAreParams
  <2>3. FtrlTypes'
    BY <2>1, <2>2 DEF FtrlInv, FtrlTypes
  <2>4. ASSUME NEW k \in Keys
        PROVE  KeyFact(param', W'[k], Z'[k], N'[k], log'[k], steady'[k], computed'[k])
    <3>1. /\ KeyFact(param, W[k], Z[k], N[k], log[k], steady[k], computed[k])
          /\ param \in ParamSet /\ steady[k] \in BOOLEAN /\ computed[k] \in BOOLEAN
      BY DEF FtrlInv, FtrlTypes, KeysInv
    <3>2. KeyFact(p, W[k], Z[k], N[k], log[k], steady[k] /\ (log[k] = <<>> \/ p = param),
                  computed[k] /\ (log[k] = <<>> \/ p = param))
      BY <2>2, <3>1, OtherParams
    <3> QED
      BY <2>1, <3>2
  <2> QED
    BY <2>3, <2>4 DEF FtrlInv, KeysInv
<1>4. CASE UNCHANGED ftrlVars
  BY <1>4 DEF ftrlVars, FtrlInv, FtrlTypes, KeysInv
<1> QED
  BY <1>1, <1>2, <1>3, <1>4 DEF FtrlNext

(* After a gradient the weight of a key minimises the regularised sum of   *)
(* all its gradients (update 34-46), for all gradients, loads, parameters  *)
(* and keys and in every ordered field.                                    *)
THEOREM WeightIsMinimiser ==
  ASSUME OrderedField PROVE FtrlSpec => []WeightMinimises
<1>1. ASSUME FtrlInv PROVE WeightMinimises
  <2> SUFFICES ASSUME NEW k \in Keys, steady[k], computed[k]
               PROVE  Balanced(param.l1, Slope(k, W[k]), W[k])
    BY DEF WeightMinimises
  <2> DEFINE r == Over(Root(N[k]), param.alpha)
             ridge == Plus(Over(param.beta, param.alpha), param.l2)
             w == W[k]
             z == Z[k]
  <2>1. /\ param \in ParamSet /\ w \in Num /\ z \in Num /\ N[k] \in Num /\ IsSquare(N[k])
        /\ Balanced(param.l1, Line(param, z, N[k], w), w)
        /\ Sums(param.alpha, log[k], w).s = Plus(z, Times(r, w))
    <3>1. /\ param \in ParamSet /\ w \in Num /\ z \in Num /\ N[k] \in Num
          /\ KeyFact(param, w, z, N[k], log[k], steady[k], computed[k])
      BY <1>1 DEF FtrlInv, FtrlTypes, KeysInv
    <3>2. IsSquare(N[k]) /\ Balanced(param.l1, Line(param, z, N[k], w), w)
      BY <3>1 DEF KeyFact
    <3>3. Sums(param.alpha, log[k], w) = [n |-> N[k], s |-> Plus(z, Times(r, w))]
      BY <3>1 DEF KeyFact
    <3> QED
      BY <3>1, <3>2, <3>3
  <2>2. r \in Num /\ ridge \in Num /\ Curvature(param, N[k]) = Plus(r, ridge)
    BY <2>1, RootFacts, ParamFacts, Closure, CurvatureSplit
  <2>3. Slope(k, w) = Plus(Plus(z, Times(r, w)), Times(ridge, w))
    BY <2>1 DEF Slope
  <2>4. Plus(Plus(z, Times(r, w)), Times(ridge, w)) = Plus(z, Times(Plus(r, ridge), w))
    <3> HIDE DEF r, ridge, w, z
    <3>1. Times(w, Plus(r, ridge)) = Plus(Times(w, r), Times(w, ridge))
      BY <2>1, <2>2, TimesLaws
    <3>2. /\ Times(w, r) = Times(r, w) /\ Times(w, ridge) = Times(ridge, w)
          /\ Times(w, Plus(r, ridge)) = Times(Plus(r, ridge), w)
          /\ Times(r, w) \in Num /\ Times(ridge, w) \in Num
      BY <2>1, <2>2, Closure, TimesLaws
    <3>3. Plus(Plus(z, Times(r, w)), Times(ridge, w)) = Plus(z, Plus(Times(r, w), Times(ridge, w)))
      BY <2>1, <3>2, PlusLaws
    <3> QED
      BY <3>1, <3>2, <3>3
  <2> QED
    BY <2>1, <2>2, <2>3, <2>4 DEF Line
<1> QED
  BY <1>1, FtrlStarts, FtrlSteps, PTL DEF FtrlSpec

(* A gradient moves a weight by at most |g| / ((beta + sqrt N) / alpha +   *)
(* l2) and the distance it was away from what Z, N and the parameters in   *)
(* force make of it (38-45): for all gradients, loads, changes of the      *)
(* parameters and keys and in every ordered field.                         *)
THEOREM StepsAreBounded ==
  ASSUME OrderedField PROVE FtrlSpec => StepBounded
<1> DEFINE Bounded(k) ==
      LET curvature == Curvature(param, N'[k])
      IN  Leq(Times(Moved(k), curvature),
              Plus(Size(log'[k][Len(log'[k])].g), Times(Away(k), curvature)))
<1>1. ASSUME FtrlInv, [FtrlNext]_ftrlVars,
             NEW k \in Keys, log'[k] # log[k]
      PROVE  Bounded(k)
  <2>1. PushGradients
    BY <1>1 DEF FtrlNext, SetWeight, SetParam, ftrlVars
  <2>2. PICK ks \in (SUBSET Keys) \ {{}} : \E g \in [ks -> Gradients] :
          /\ \A i \in ks : Len(log[i]) < MaxGrads /\ IsSquare(Plus(N[i], Times(g[i], g[i])))
          /\ Update(ks, g)
    BY <2>1 DEF PushGradients
  <2>3. PICK g \in [ks -> Gradients] :
          /\ \A i \in ks : IsSquare(Plus(N[i], Times(g[i], g[i])))
          /\ Update(ks, g)
    BY <2>2
  <2>4. /\ FtrlTypes' /\ param' = param
        /\ \A i \in ks : KeyPushed(i, g[i])
        /\ \A i \in ks : KeyFact(param, W'[i], Z'[i], N'[i], log'[i], steady[i], TRUE)
        /\ \A i \in Keys \ ks : KeyKept(i)
    <3>1. ks \in SUBSET Keys
      OBVIOUS
    <3> QED
      BY <1>1, <2>3, <3>1, PushFacts
  <2>5. k \in ks
    BY <1>1, <2>4 DEF KeyKept
  <2>6. /\ param \in ParamSet /\ W[k] \in Num /\ Z[k] \in Num /\ N[k] \in Num
        /\ log[k] \in Seq(Grad) /\ IsSquare(N[k]) /\ (N[k] = Zero => Z[k] = Zero)
    BY <1>1 DEF FtrlInv, FtrlTypes, KeysInv, KeyFact
  <2>7. /\ W'[k] \in Num /\ Z'[k] \in Num /\ N'[k] \in Num /\ IsSquare(N'[k])
        /\ Balanced(param.l1, Line(param, Z'[k], N'[k], W'[k]), W'[k])
    <3>1. KeyFact(param, W'[k], Z'[k], N'[k], log'[k], steady[k], TRUE)
      BY <2>4, <2>5
    <3>2. W'[k] \in Num /\ Z'[k] \in Num /\ N'[k] \in Num
      BY <2>4 DEF FtrlTypes
    <3> QED
      BY <3>1, <3>2 DEF KeyFact
  <2>8. log'[k][Len(log'[k])].g = g[k]
    <3>1. PICK e : e = [g |-> g[k], w |-> W[k]]
      OBVIOUS
    <3>2. e \in Grad /\ log'[k] = Append(log[k], e)
      BY <2>4, <2>5, <2>6, <3>1 DEF Grad, KeyPushed
    <3>3. log'[k][Len(log'[k])] = e
      BY <2>6, <3>2
    <3> QED
      BY <3>1, <3>3
  <2>9. g[k] \in Num /\ N'[k] = Plus(N[k], Times(g[k], g[k]))
        /\ Z'[k] = Plus(Z[k], Minus(g[k], Times(Rate(param, N[k], N'[k]), W[k])))
    BY <2>4, <2>5 DEF KeyPushed
  <2>10. PICK v : v = Weight(Z[k], N[k])
    OBVIOUS
  <2>11. v \in Num /\ Balanced(param.l1, Line(param, Z[k], N[k], v), v)
    <3>1. Weight(Z[k], N[k]) = Optimum(param, Z[k], N[k])
      BY DEF Weight, Optimum, Curvature
    <3> QED
      BY <2>6, <2>10, <3>1, OptimumBalances
  <2>12. Leq(Times(Size(Minus(W'[k], W[k])), Curvature(param, N'[k])),
             Plus(Size(g[k]), Times(Size(Minus(W[k], v)), Curvature(param, N'[k]))))
    BY <2>6, <2>7, <2>9, <2>11, StepIsBounded
  <2> QED
    BY <2>8, <2>10, <2>12 DEF Moved, Away
<1>2. FtrlInv /\ [FtrlNext]_ftrlVars => [\A k \in Keys : log'[k] # log[k] => Bounded(k)]_ftrlVars
  BY <1>1
<1> QED
  BY <1>2, FtrlStarts, FtrlSteps, PTL DEF FtrlSpec, StepBounded

-----------------------------------------------------------------------------
(* Redis: what waits on a connection. *)
Ops == DOMAIN Types
Cmd == [id : Nat, op : Ops, size : Nat]
Reply == [id : Nat, type : UNION {Types[op] : op \in Ops}, size : Nat]

TypeInv ==
  /\ isConnected_ \in BOOLEAN /\ abandoned \in BOOLEAN
  /\ obuf \in Seq(Cmd) /\ sock \in Seq(Reply) /\ reader \in Seq(Reply)
  /\ pc \in {"idle", "crashed", "mdel", "mset_expire"}
  /\ left \in Nat /\ nid \in Nat

(* Only inside a batch are there replies to read. *)
BatchInv ==
  /\ pc \in {"mdel", "mset_expire"} => isConnected_ /\ left > 0
  /\ pc \notin {"mdel", "mset_expire"} => left = 0

(* Nothing that waits on a kept connection is, or answers, a get or mget.  *)
ReadTypes == {"string", "nil", "array"}
Others(o, s, r) ==
  /\ \A i \in 1 .. Len(o) : o[i].op \notin {"get", "mget"}
  /\ \A i \in 1 .. Len(s) : s[i].type \notin ReadTypes
  /\ \A i \in 1 .. Len(r) : r[i].type \notin ReadTypes
OthersInv == isConnected_ => Others(obuf, sock, reader)

(* What waits is in the order of the commands: parsed replies, replies     *)
(* under way, commands not written.                                        *)
Waiting(o, s, r) == Len(r) + Len(s) + Len(o)
InOrder(o, s, r, first) ==
  /\ \A i \in 1 .. Len(r) : r[i].id = first + i - 1
  /\ \A i \in 1 .. Len(s) : s[i].id = first + Len(r) + i - 1
  /\ \A i \in 1 .. Len(o) : o[i].id = first + Len(r) + Len(s) + i - 1

(* Without an abandoned batch these are the last commands, as many as the  *)
(* batch at hand has to read.                                              *)
OrderInv ==
  isConnected_ /\ ~abandoned /\ rc_ = "ok" =>
    Waiting(obuf, sock, reader) = left /\ InOrder(obuf, sock, reader, nid - left + 1)

Inv == TypeInv /\ BatchInv /\ OthersInv /\ OrderInv

-----------------------------------------------------------------------------
(* The answers to the other commands are of other types. *)
LEMMA OtherTypes ==
  ASSUME NEW op \in Ops
  PROVE  op \notin {"get", "mget"} => Types[op] \cap ReadTypes = {}
  BY DEF Ops, Types, ReadTypes

(* The answers to a buffer. *)
LEMMA AnswersType ==
  ASSUME NEW o \in Seq(Cmd), NEW a \in Answers(o)
  PROVE  /\ a \in Seq(Reply) /\ Len(a) = Len(o) /\ Len(o) \in Nat
         /\ \A i \in 1 .. Len(o) : a[i].id = o[i].id /\ a[i].type \in Types[o[i].op]
<1>1. Len(o) \in Nat
  OBVIOUS
<1>2. ASSUME NEW i \in 1 .. Len(o)
      PROVE  a[i] \in Reply /\ a[i].id = o[i].id /\ a[i].type \in Types[o[i].op]
  <2>1. a[i] \in AnswersTo(o[i])
    BY DEF Answers
  <2>2. PICK t \in Types[o[i].op] : a[i] = [id |-> o[i].id, type |-> t, size |-> o[i].size]
    BY <2>1 DEF AnswersTo
  <2>3. o[i] \in Cmd
    BY <1>1
  <2>4. o[i].id \in Nat /\ o[i].op \in Ops /\ o[i].size \in Nat
    BY <2>3 DEF Cmd
  <2> QED
    BY <2>2, <2>4 DEF Reply
<1>3. a \in [1 .. Len(o) -> Reply]
  <2>1. DOMAIN a = 1 .. Len(o) /\ a = [i \in 1 .. Len(o) |-> a[i]]
    BY DEF Answers
  <2> QED
    BY <1>2, <2>1
<1>4. a \in Seq(Reply) /\ Len(a) = Len(o)
  BY <1>1, <1>3
<1> QED
  BY <1>1, <1>2, <1>4

(* No reply looks like the null pointer. *)
LEMMA NoNull == \A g \in Reply : g.type # "null"
  BY DEF Reply, Ops, Types

(* The parts of a concatenation. *)
LEMMA ConcatFacts ==
  ASSUME NEW E, NEW s \in Seq(E), NEW t \in Seq(E)
  PROVE  /\ s \o t \in Seq(E) /\ Len(s \o t) = Len(s) + Len(t)
         /\ \A i \in 1 .. Len(s) : (s \o t)[i] = s[i]
         /\ \A i \in 1 .. Len(t) : (s \o t)[Len(s) + i] = t[i]
<1>1. Len(s) \in Nat /\ Len(t) \in Nat
  OBVIOUS
<1>2. s \o t \in Seq(E) /\ Len(s \o t) = Len(s) + Len(t)
  OBVIOUS
<1>3. \A i \in 1 .. Len(s) : (s \o t)[i] = s[i]
  OBVIOUS
<1>4. ASSUME NEW i \in 1 .. Len(t) PROVE (s \o t)[Len(s) + i] = t[i]
  BY <1>1
<1> QED
  BY <1>2, <1>3, <1>4

(* What redisGetReply does to the three buffers, whatever it returns. *)
LEMMA GetReplyType ==
  ASSUME NEW rc, NEW o \in Seq(Cmd), NEW s \in Seq(Reply), NEW r \in Seq(Reply), NEW res,
         GetReply(rc, o, s, r, res)
  PROVE  /\ obuf' \in Seq(Cmd) /\ sock' \in Seq(Reply) /\ reader' \in Seq(Reply)
         /\ Others(o, s, r) => Others(obuf', sock', reader')
<1>1. CASE rc = "ok" /\ r # <<>> /\ obuf' = o /\ sock' = s /\ reader' = Tail(r)
  <2>1. Tail(r) \in Seq(Reply) /\ \A i \in 1 .. Len(Tail(r)) : i + 1 \in 1 .. Len(r) /\ Tail(r)[i] = r[i + 1]
    BY <1>1
  <2> QED
    BY <1>1, <2>1 DEF Others
<1>2. ASSUME NEW a \in Answers(o), NEW k \in 1 .. Len(s \o a),
             reader' = SubSeq(s \o a, 2, k), sock' = SubSeq(s \o a, k + 1, Len(s \o a)), obuf' = <<>>
      PROVE  /\ obuf' \in Seq(Cmd) /\ sock' \in Seq(Reply) /\ reader' \in Seq(Reply)
             /\ Others(o, s, r) => Others(obuf', sock', reader')
  <2> DEFINE w == s \o a
  <2>1. /\ a \in Seq(Reply) /\ Len(a) = Len(o)
        /\ \A i \in 1 .. Len(o) : a[i].type \in Types[o[i].op]
    BY AnswersType
  <2>2. w \in Seq(Reply) /\ Len(w) = Len(s) + Len(a) /\ Len(s) \in Nat /\ Len(a) \in Nat
    <3>1. w \in Seq(Reply) /\ Len(w) = Len(s) + Len(a)
      BY <2>1, ConcatFacts
    <3> QED
      BY <2>1, <3>1
  <2>3. \A i \in 1 .. Len(w) : (i <= Len(s) /\ w[i] = s[i]) \/ (i - Len(s) \in 1 .. Len(a) /\ w[i] = a[i - Len(s)])
    BY <2>1, <2>2
  <2>4. ASSUME Others(o, s, r), NEW i \in 1 .. Len(w) PROVE w[i].type \notin ReadTypes
    <3>1. CASE i <= Len(s) /\ w[i] = s[i]
      BY <2>2, <2>4, <3>1 DEF Others
    <3>2. ASSUME NEW x \in 1 .. Len(a), w[i] = a[x] PROVE w[i].type \notin ReadTypes
      <4>1. o[x].op \in Ops /\ o[x].op \notin {"get", "mget"}
        <5>1. o[x] \in Cmd
          BY <2>1
        <5> QED
          BY <2>1, <2>4, <5>1 DEF Others, Cmd
      <4>2. a[x].type \in Types[o[x].op]
        BY <2>1
      <4> QED
        BY <3>2, <4>1, <4>2, OtherTypes
    <3> QED
      BY <2>3, <3>1, <3>2
  <2> HIDE DEF w
  <2>5. SubSeq(w, 2, k) \in Seq(Reply) /\ SubSeq(w, k + 1, Len(w)) \in Seq(Reply)
    BY <2>2
  <2>6. /\ \A i \in 1 .. Len(SubSeq(w, 2, k)) : i + 1 \in 1 .. Len(w) /\ SubSeq(w, 2, k)[i] = w[i + 1]
        /\ \A i \in 1 .. Len(SubSeq(w, k + 1, Len(w))) :
             i + k \in 1 .. Len(w) /\ SubSeq(w, k + 1, Len(w))[i] = w[i + k]
    BY <2>2 DEF w
  <2>7. reader' = SubSeq(w, 2, k) /\ sock' = SubSeq(w, k + 1, Len(w)) /\ obuf' = <<>>
    BY <1>2 DEF w
  <2>8. ASSUME Others(o, s, r) PROVE Others(obuf', sock', reader')
    BY <2>4, <2>6, <2>7, <2>8 DEF Others
  <2> QED
    BY <2>5, <2>7, <2>8
<1>3. CASE obuf' = o /\ sock' = s /\ reader' = r
  BY <1>3
<1> QED
  BY <1>1, <1>2, <1>3 DEF GetReply

(* If the connection stays good, the reply is that to the first command    *)
(* that waits, and the others wait on in their order.                      *)
LEMMA GetReplyOrder ==
  ASSUME NEW rc, NEW o \in Seq(Cmd), NEW s \in Seq(Reply), NEW r \in Seq(Reply), NEW res,
         GetReply(rc, o, s, r, res), res # NULL \/ rc_' = "ok",
         NEW first \in Int, InOrder(o, s, r, first)
  PROVE  /\ rc_' = "ok" /\ res.id = first /\ res \in Reply
         /\ Waiting(obuf', sock', reader') = Waiting(o, s, r) - 1
         /\ InOrder(obuf', sock', reader', first + 1)
<1>0. Len(o) \in Nat /\ Len(s) \in Nat /\ Len(r) \in Nat
  OBVIOUS
<1>1. CASE rc = "ok" /\ rc_' = rc /\ r # <<>> /\ res = Head(r) /\ obuf' = o /\ sock' = s /\ reader' = Tail(r)
  <2>1. /\ Len(Tail(r)) = Len(r) - 1 /\ 1 \in 1 .. Len(r) /\ Head(r) = r[1]
        /\ \A i \in 1 .. Len(Tail(r)) : i + 1 \in 1 .. Len(r) /\ Tail(r)[i] = r[i + 1]
    BY <1>1
  <2>2. res.id = first /\ res \in Reply
    <3>1. r[1] \in Reply
      BY <2>1
    <3> QED
      BY <1>1, <2>1, <3>1 DEF InOrder
  <2>3. Waiting(obuf', sock', reader') = Waiting(o, s, r) - 1
    BY <1>0, <1>1, <2>1 DEF Waiting
  <2>4. \A i \in 1 .. Len(Tail(r)) : Tail(r)[i].id = (first + 1) + i - 1
    BY <1>0, <2>1 DEF InOrder
  <2>5. /\ \A i \in 1 .. Len(s) : s[i].id = (first + 1) + Len(Tail(r)) + i - 1
        /\ \A i \in 1 .. Len(o) : o[i].id = (first + 1) + Len(Tail(r)) + Len(s) + i - 1
    <3>1. ASSUME NEW i \in 1 .. Len(s) PROVE s[i].id = (first + 1) + Len(Tail(r)) + i - 1
      <4>1. s[i].id = first + Len(r) + i - 1 /\ i \in Int
        BY <1>0 DEF InOrder
      <4>2. first + Len(r) + i - 1 = (first + 1) + (Len(r) - 1) + i - 1
        BY <1>0, <4>1
      <4>3. Len(Tail(r)) = Len(r) - 1
        BY <2>1
      <4> QED
        BY <4>1, <4>2, <4>3
    <3>2. ASSUME NEW i \in 1 .. Len(o) PROVE o[i].id = (first + 1) + Len(Tail(r)) + Len(s) + i - 1
      <4>1. o[i].id = first + Len(r) + Len(s) + i - 1 /\ i \in Int
        BY <1>0 DEF InOrder
      <4>2. first + Len(r) + Len(s) + i - 1 = (first + 1) + (Len(r) - 1) + Len(s) + i - 1
        BY <1>0, <4>1
      <4>3. Len(Tail(r)) = Len(r) - 1
        BY <2>1
      <4> QED
        BY <4>1, <4>2, <4>3
    <3> QED
      BY <3>1, <3>2
  <2> QED
    BY <1>1, <2>2, <2>3, <2>4, <2>5 DEF InOrder
<1>2. ASSUME rc = "ok", rc_' = rc, r = <<>>,
             NEW a \in Answers(o), NEW k \in 1 .. Len(s \o a), res = (s \o a)[1],
             reader' = SubSeq(s \o a, 2, k), sock' = SubSeq(s \o a, k + 1, Len(s \o a)), obuf' = <<>>
      PROVE  /\ rc_' = "ok" /\ res.id = first /\ res \in Reply
             /\ Waiting(obuf', sock', reader') = Waiting(o, s, r) - 1
             /\ InOrder(obuf', sock', reader', first + 1)
  <2> DEFINE w == s \o a
  <2>1. a \in Seq(Reply) /\ Len(a) = Len(o) /\ \A i \in 1 .. Len(o) : a[i].id = o[i].id
    BY AnswersType
  <2>2. w \in Seq(Reply) /\ Len(w) = Len(s) + Len(o) /\ Len(w) \in Nat /\ k \in 1 .. Len(w)
    <3>1. w \in Seq(Reply) /\ Len(w) = Len(s) + Len(a)
      BY <2>1, ConcatFacts
    <3> QED
      BY <1>0, <2>1, <3>1
  <2>3. ASSUME NEW i \in 1 .. Len(w) PROVE w[i].id = first + i - 1
    <3>1. CASE i <= Len(s)
      BY <1>0, <1>2, <2>1, <2>2, <3>1 DEF InOrder
    <3>2. CASE i > Len(s)
      <4>1. i - Len(s) \in 1 .. Len(o) /\ w[i] = a[i - Len(s)]
        BY <1>0, <2>1, <2>2, <3>2
      <4>2. o[i - Len(s)].id = first + Len(r) + Len(s) + (i - Len(s)) - 1
        BY <4>1 DEF InOrder
      <4>3. Len(r) = 0 /\ i \in Int /\ w[i].id = o[i - Len(s)].id
        BY <1>2, <2>1, <4>1
      <4> QED
        BY <1>0, <4>2, <4>3
    <3> QED
      BY <1>0, <2>2, <3>1, <3>2
  <2> HIDE DEF w
  <2>4. reader' = SubSeq(w, 2, k) /\ sock' = SubSeq(w, k + 1, Len(w)) /\ obuf' = <<>> /\ res = w[1]
    BY <1>2 DEF w
  <2>5. /\ Len(reader') = k - 1 /\ Len(sock') = Len(w) - k /\ Len(obuf') = 0
        /\ \A i \in 1 .. Len(reader') : i + 1 \in 1 .. Len(w) /\ reader'[i] = w[i + 1]
        /\ \A i \in 1 .. Len(sock') : i + k \in 1 .. Len(w) /\ sock'[i] = w[i + k]
    BY <2>2, <2>4
  <2>6. res.id = first /\ res \in Reply
    <3>1. w[1] \in Reply
      BY <2>2
    <3> QED
      BY <2>2, <2>3, <2>4, <3>1
  <2>7. Waiting(obuf', sock', reader') = Waiting(o, s, r) - 1
    <3>1. Len(r) = 0
      BY <1>2
    <3> QED
      BY <1>0, <2>2, <2>5, <3>1 DEF Waiting
  <2>8. \A i \in 1 .. Len(reader') : reader'[i].id = (first + 1) + i - 1
    <3> SUFFICES ASSUME NEW i \in 1 .. Len(reader') PROVE reader'[i].id = (first + 1) + i - 1
      OBVIOUS
    <3>1. w[i + 1].id = first + (i + 1) - 1 /\ i \in Int
      <4>1. i + 1 \in 1 .. Len(w)
        BY <2>5
      <4> QED
        BY <2>2, <2>3, <2>5, <4>1
    <3> QED
      BY <2>5, <3>1
  <2>9. \A i \in 1 .. Len(sock') : sock'[i].id = (first + 1) + Len(reader') + i - 1
    <3> SUFFICES ASSUME NEW i \in 1 .. Len(sock') PROVE sock'[i].id = (first + 1) + Len(reader') + i - 1
      OBVIOUS
    <3>1. w[i + k].id = first + (i + k) - 1 /\ i \in Int
      BY <2>2, <2>3, <2>5
    <3> QED
      BY <2>2, <2>5, <3>1
  <2>10. InOrder(obuf', sock', reader', first + 1)
    <3>1. \A i \in 1 .. Len(obuf') : FALSE
      BY <2>5
    <3> QED
      BY <2>8, <2>9, <3>1 DEF InOrder
  <2> QED
    BY <1>2, <2>6, <2>7, <2>10
<1>3. CASE res = NULL /\ rc_' = "err"
  BY <1>3
<1> QED
  BY <1>1, <1>2, <1>3 DEF GetReply

(* A reply of a type only reads get, where nothing that waits is a read,   *)
(* answers the command that was just appended, and then nothing waits.     *)
LEMMA GetReplyOwn ==
  ASSUME NEW rc, NEW o \in Seq(Cmd), NEW s \in Seq(Reply), NEW r \in Seq(Reply), NEW c \in Seq(Cmd),
         NEW res, Len(c) = 1, Others(o, s, r), GetReply(rc, o \o c, s, r, res), res.type \in ReadTypes
  PROVE  /\ rc_' = "ok" /\ res.id = c[1].id
         /\ obuf' = <<>> /\ sock' = <<>> /\ reader' = <<>>
<1>0. Len(o) \in Nat /\ Len(s) \in Nat /\ Len(r) \in Nat
  OBVIOUS
<1>1. ~(r # <<>> /\ res = Head(r))
  <2>1. ASSUME r # <<>>, res = Head(r) PROVE FALSE
    <3>1. 1 \in 1 .. Len(r) /\ Head(r) = r[1]
      BY <2>1
    <3> QED
      BY <2>1, <3>1 DEF Others
  <2> QED
    BY <2>1
<1>2. res # NULL
  BY DEF NULL, ReadTypes
<1>3. /\ rc = "ok" /\ rc_' = rc
      /\ \E a \in Answers(o \o c) : \E k \in 1 .. Len(s \o a) :
           /\ res = (s \o a)[1] /\ reader' = SubSeq(s \o a, 2, k)
           /\ sock' = SubSeq(s \o a, k + 1, Len(s \o a)) /\ obuf' = <<>>
  BY <1>1, <1>2 DEF GetReply
<1>4. PICK a \in Answers(o \o c) : \E k \in 1 .. Len(s \o a) :
           /\ res = (s \o a)[1] /\ reader' = SubSeq(s \o a, 2, k)
           /\ sock' = SubSeq(s \o a, k + 1, Len(s \o a)) /\ obuf' = <<>>
  BY <1>3
<1>5. o \o c \in Seq(Cmd) /\ Len(o \o c) = Len(o) + Len(c)
  BY ConcatFacts
<1>6. /\ a \in Seq(Reply) /\ Len(a) = Len(o) + 1
      /\ \A i \in 1 .. Len(o) + 1 : a[i].id = (o \o c)[i].id /\ a[i].type \in Types[(o \o c)[i].op]
  <2>1. /\ a \in Seq(Reply) /\ Len(a) = Len(o \o c)
        /\ \A i \in 1 .. Len(o \o c) : a[i].id = (o \o c)[i].id /\ a[i].type \in Types[(o \o c)[i].op]
    BY <1>5, AnswersType
  <2> QED
    BY <1>5, <2>1
<1>7. /\ Len(s \o a) = Len(s) + Len(a)
      /\ \A i \in 1 .. Len(s) : (s \o a)[i] = s[i]
      /\ \A i \in 1 .. Len(a) : (s \o a)[Len(s) + i] = a[i]
  <2>1. a \in Seq(Reply)
    BY <1>6
  <2>2. Len(s \o a) = Len(s) + Len(a)
    BY <2>1, ConcatFacts
  <2>3. \A i \in 1 .. Len(s) : (s \o a)[i] = s[i]
    BY <2>1, ConcatFacts
  <2>4. \A i \in 1 .. Len(a) : (s \o a)[Len(s) + i] = a[i]
    BY <2>1, ConcatFacts
  <2> QED
    BY <2>2, <2>3, <2>4
<1>8. Len(s) = 0
  <2>1. ASSUME Len(s) # 0 PROVE FALSE
    <3>1. 1 \in 1 .. Len(s)
      BY <1>0, <2>1
    <3>2. res = s[1]
      BY <1>4, <1>7, <3>1
    <3> QED
      BY <3>1, <3>2 DEF Others
  <2> QED
    BY <2>1
<1>9. res = a[1]
  <2>1. 1 \in 1 .. Len(a)
    BY <1>0, <1>6
  <2>2. (s \o a)[Len(s) + 1] = a[1] /\ Len(s) + 1 = 1
    BY <1>7, <1>8, <2>1
  <2> QED
    BY <1>4, <2>2
<1>10. Len(o) = 0
  <2>1. ASSUME Len(o) # 0 PROVE FALSE
    <3>1. 1 \in 1 .. Len(o) /\ 1 \in 1 .. Len(o) + 1
      BY <1>0, <2>1
    <3>2. (o \o c)[1] = o[1]
      BY <3>1, ConcatFacts
    <3>3. o[1] \in Cmd
      BY <3>1
    <3>4. o[1].op \in Ops /\ o[1].op \notin {"get", "mget"}
      BY <3>1, <3>3 DEF Others, Cmd
    <3>5. res.type \in Types[o[1].op]
      BY <1>6, <1>9, <3>1, <3>2
    <3> QED
      BY <3>4, <3>5, OtherTypes
  <2> QED
    BY <2>1
<1>11. res.id = c[1].id
  <2>1. 1 \in 1 .. Len(c) /\ 1 \in 1 .. Len(o) + 1
    BY <1>10
  <2>2. (o \o c)[Len(o) + 1] = c[1] /\ Len(o) + 1 = 1
    <3>1. (o \o c)[Len(o) + 1] = c[1]
      BY <2>1, ConcatFacts
    <3> QED
      BY <1>10, <3>1
  <2> QED
    BY <1>6, <1>9, <2>1, <2>2
<1>12. Len(s \o a) = 1 /\ s \o a \in Seq(Reply)
  <2>1. s \o a \in Seq(Reply)
    BY <1>6, ConcatFacts
  <2> QED
    BY <1>6, <1>7, <1>8, <1>10, <2>1
<1>13. obuf' = <<>> /\ sock' = <<>> /\ reader' = <<>>
  <2>1. PICK w : w = s \o a
    OBVIOUS
  <2>2. w \in Seq(Reply) /\ Len(w) = 1
    BY <1>12, <2>1
  <2>3. reader' = SubSeq(w, 2, 1) /\ sock' = SubSeq(w, 2, 1) /\ obuf' = <<>>
    BY <1>4, <1>12, <2>1
  <2>4. SubSeq(w, 2, 1) \in Seq(Reply) /\ Len(SubSeq(w, 2, 1)) = 0
    BY <2>2
  <2> QED
    BY <2>3, <2>4
<1> QED
  BY <1>3, <1>11, <1>13

(* The commands a call appends. *)
LEMMA CmdsFacts ==
  ASSUME nid \in Nat, NEW op \in Ops, NEW k \in Nat, NEW size \in Nat
  PROVE  /\ Cmds(op, k, size) \in Seq(Cmd) /\ Len(Cmds(op, k, size)) = k
         /\ \A i \in 1 .. k : Cmds(op, k, size)[i].id = nid + i /\ Cmds(op, k, size)[i].op = op
<1>1. Cmds(op, k, size) \in [1 .. k -> Cmd]
  BY DEF Cmds, Cmd
<1>2. Cmds(op, k, size) \in Seq(Cmd) /\ Len(Cmds(op, k, size)) = k
  BY <1>1
<1> QED
  BY <1>2 DEF Cmds

(* What a call finds when connect() returned true. *)
LEMMA KeptFacts ==
  ASSUME Inv, pc = "idle"
  PROVE  /\ Kept(obuf) \in Seq(Cmd) /\ Kept(sock) \in Seq(Reply) /\ Kept(reader) \in Seq(Reply)
         /\ Others(Kept(obuf), Kept(sock), Kept(reader))
         /\ Clean /\ KeptRc = "ok" => Len(Kept(obuf)) = 0 /\ Len(Kept(sock)) = 0 /\ Len(Kept(reader)) = 0
<1>1. CASE isConnected_
  <2>1. Kept(obuf) = obuf /\ Kept(sock) = sock /\ Kept(reader) = reader /\ KeptRc = rc_
    BY <1>1 DEF Kept, KeptRc
  <2>2. obuf \in Seq(Cmd) /\ sock \in Seq(Reply) /\ reader \in Seq(Reply) /\ Others(obuf, sock, reader)
    BY <1>1 DEF Inv, TypeInv, OthersInv
  <2>3. ASSUME Clean, KeptRc = "ok" PROVE Len(obuf) = 0 /\ Len(sock) = 0 /\ Len(reader) = 0
    <3>1. Waiting(obuf, sock, reader) = 0
      BY <1>1, <2>1, <2>3 DEF Inv, BatchInv, OrderInv, Clean
    <3>2. Len(obuf) \in Nat /\ Len(sock) \in Nat /\ Len(reader) \in Nat
      BY <2>2
    <3> QED
      BY <3>1, <3>2 DEF Waiting
  <2> QED
    BY <2>1, <2>2, <2>3
<1>2. CASE ~isConnected_
  BY <1>2 DEF Kept, Others
<1> QED
  BY <1>1, <1>2

(* Appending commands to what is kept. *)
LEMMA AppendFacts ==
  ASSUME Inv, pc = "idle", NEW op \in Ops, NEW k \in Nat, NEW size \in Nat
  PROVE  /\ Kept(obuf) \o Cmds(op, k, size) \in Seq(Cmd)
         /\ op \notin {"get", "mget"} =>
              Others(Kept(obuf) \o Cmds(op, k, size), Kept(sock), Kept(reader))
         /\ Clean /\ KeptRc = "ok" =>
              /\ Waiting(Kept(obuf) \o Cmds(op, k, size), Kept(sock), Kept(reader)) = k
              /\ InOrder(Kept(obuf) \o Cmds(op, k, size), Kept(sock), Kept(reader), nid + 1)
<1> DEFINE c == Cmds(op, k, size)
           o == Kept(obuf)
<1>1. nid \in Nat
  BY DEF Inv, TypeInv
<1>2. c \in Seq(Cmd) /\ Len(c) = k /\ \A i \in 1 .. k : c[i].id = nid + i /\ c[i].op = op
  BY <1>1, CmdsFacts
<1>3. /\ o \in Seq(Cmd) /\ Others(o, Kept(sock), Kept(reader))
      /\ Clean /\ KeptRc = "ok" => Len(o) = 0 /\ Len(Kept(sock)) = 0 /\ Len(Kept(reader)) = 0
  BY KeptFacts
<1> HIDE DEF c, o
<1>4. /\ o \o c \in Seq(Cmd) /\ Len(o \o c) = Len(o) + Len(c)
      /\ \A i \in 1 .. Len(o) : (o \o c)[i] = o[i]
      /\ \A i \in 1 .. Len(c) : (o \o c)[Len(o) + i] = c[i]
  <2>1. o \in Seq(Cmd) /\ c \in Seq(Cmd)
    BY <1>2, <1>3
  <2>2. o \o c \in Seq(Cmd) /\ Len(o \o c) = Len(o) + Len(c)
    BY <2>1, ConcatFacts
  <2>3. \A i \in 1 .. Len(o) : (o \o c)[i] = o[i]
    BY <2>1, ConcatFacts
  <2>4. \A i \in 1 .. Len(c) : (o \o c)[Len(o) + i] = c[i]
    BY <2>1, ConcatFacts
  <2> QED
    BY <2>2, <2>3, <2>4
<1>5. Len(o) \in Nat
  BY <1>3
<1>6. ASSUME op \notin {"get", "mget"} PROVE Others(o \o c, Kept(sock), Kept(reader))
  <2>1. ASSUME NEW i \in 1 .. Len(o \o c) PROVE (o \o c)[i].op \notin {"get", "mget"}
    <3>1. CASE i \in 1 .. Len(o)
      BY <1>3, <1>4, <3>1 DEF Others
    <3>2. CASE i \notin 1 .. Len(o)
      <4>1. i - Len(o) \in 1 .. Len(c) /\ Len(o) + (i - Len(o)) = i
        BY <1>2, <1>4, <1>5, <3>2
      <4>2. (o \o c)[i] = c[i - Len(o)]
        BY <1>4, <4>1
      <4>3. c[i - Len(o)].op = op
        BY <1>2, <4>1
      <4> QED
        BY <1>6, <4>2, <4>3
    <3> QED
      BY <3>1, <3>2
  <2> QED
    BY <1>3, <2>1 DEF Others
<1>7. ASSUME Clean, KeptRc = "ok"
      PROVE  /\ Waiting(o \o c, Kept(sock), Kept(reader)) = k
             /\ InOrder(o \o c, Kept(sock), Kept(reader), nid + 1)
  <2>1. Len(o) = 0 /\ Len(Kept(sock)) = 0 /\ Len(Kept(reader)) = 0 /\ Len(o \o c) = k
    BY <1>2, <1>3, <1>4, <1>7
  <2>2. Waiting(o \o c, Kept(sock), Kept(reader)) = k
    BY <2>1 DEF Waiting
  <2>3. ASSUME NEW i \in 1 .. k PROVE (o \o c)[i].id = (nid + 1) + 0 + 0 + i - 1
    <3>1. (o \o c)[Len(o) + i] = c[i] /\ Len(o) + i = i
      BY <1>2, <1>4, <2>1
    <3>2. c[i].id = nid + i /\ nid + i = (nid + 1) + 0 + 0 + i - 1
      BY <1>1, <1>2
    <3> QED
      BY <3>1, <3>2
  <2> QED
    BY <2>1, <2>2, <2>3 DEF InOrder
<1> QED
  BY <1>4, <1>6, <1>7 DEF c, o

-----------------------------------------------------------------------------
(* The induction: one lemma for each kind of call. *)
IInv == Inv /\ OwnAnswer /\ Answered

(* A failed connect() leaves nothing that waits. *)
LEMMA ConnectFailsStep ==
  ASSUME Inv, NEW op \in Ops, ConnectFails(op)
  PROVE  IInv'
<1>1. TypeInv' /\ BatchInv'
  <2>1. nid' = nid /\ left' = left /\ isConnected_' \in BOOLEAN /\ nid \in Nat
    BY DEF ConnectFails, Inv, TypeInv
  <2>2. pc' \in {"idle", "crashed"} /\ left = 0
    BY DEF ConnectFails, Inv, BatchInv
  <2>3. obuf' = <<>> /\ sock' = <<>> /\ reader' = <<>> /\ abandoned' = FALSE
    BY DEF ConnectFails
  <2>4. obuf' \in Seq(Cmd) /\ sock' \in Seq(Reply) /\ reader' \in Seq(Reply)
    BY <2>3
  <2>5. abandoned' \in BOOLEAN /\ left' = 0
    BY <2>1, <2>2, <2>3
  <2> QED
    BY <2>1, <2>2, <2>4, <2>5 DEF TypeInv, BatchInv
<1>2. ~isConnected_' /\ ~last'.ok
  BY DEF ConnectFails
<1> QED
  BY <1>1, <1>2 DEF IInv, Inv, OthersInv, OrderInv, OwnAnswer, Answered

(* get and mget, whose good replies are of the types only they get. *)
LEMMA ReadStep ==
  ASSUME Inv, NEW op \in {"get", "mget"}, NEW size \in Nat, NEW good,
         \A g \in good : g.type \in ReadTypes, Single(op, size, good)
  PROVE  IInv'
<1>0. op \in Ops /\ nid \in Nat /\ pc = "idle" /\ left = 0
  BY DEF Ops, Types, Inv, TypeInv, BatchInv, Single
<1>1. PICK res \in Replies :
       /\ GetReply(KeptRc, Kept(obuf) \o Cmds(op, 1, size), Kept(sock), Kept(reader), res)
       /\ isConnected_' = (res \in good)
       /\ last' = [op |-> op, ok |-> res \in good, mine |-> res.id = nid', clean |-> Clean]
  BY DEF Single, Called
<1>2. abandoned' = ~Clean /\ pc' = pc /\ left' = left /\ nid' = nid + 1
  BY DEF Single
<1>3. /\ Kept(obuf) \in Seq(Cmd) /\ Kept(sock) \in Seq(Reply) /\ Kept(reader) \in Seq(Reply)
      /\ Others(Kept(obuf), Kept(sock), Kept(reader))
  BY <1>0, KeptFacts
<1>4. Kept(obuf) \o Cmds(op, 1, size) \in Seq(Cmd)
  BY <1>0, AppendFacts
<1>5. /\ Cmds(op, 1, size) \in Seq(Cmd) /\ Len(Cmds(op, 1, size)) = 1
      /\ Cmds(op, 1, size)[1].id = nid + 1
  <2>1. 1 \in Nat /\ 1 \in 1 .. 1
    OBVIOUS
  <2>2. Cmds(op, 1, size) \in Seq(Cmd) /\ Len(Cmds(op, 1, size)) = 1
    <3>1. \A k \in Nat : Cmds(op, k, size) \in Seq(Cmd) /\ Len(Cmds(op, k, size)) = k
      BY <1>0, CmdsFacts
    <3> QED
      BY <2>1, <3>1
  <2>3. Cmds(op, 1, size)[1].id = nid + 1
    BY <2>1 DEF Cmds
  <2> QED
    BY <2>2, <2>3
<1>6. obuf' \in Seq(Cmd) /\ sock' \in Seq(Reply) /\ reader' \in Seq(Reply)
  BY <1>1, <1>3, <1>4, GetReplyType
<1>7. TypeInv' /\ BatchInv'
  <2>1. isConnected_' \in BOOLEAN /\ abandoned' \in BOOLEAN
    BY <1>1, <1>2
  <2> QED
    BY <1>0, <1>2, <1>6, <2>1 DEF TypeInv, BatchInv
<1>8. CASE res \in good
  <2>1. res.type \in ReadTypes
    BY <1>8
  <2>2. res.id = nid + 1 /\ obuf' = <<>> /\ sock' = <<>> /\ reader' = <<>>
    BY <1>1, <1>3, <1>5, <2>1, GetReplyOwn
  <2>3. OthersInv'
    BY <2>2 DEF OthersInv, Others
  <2>4. OrderInv'
    <3>1. Waiting(obuf', sock', reader') = 0 /\ left' = 0
      BY <1>0, <1>2, <2>2 DEF Waiting
    <3>2. InOrder(obuf', sock', reader', nid' - left' + 1)
      BY <2>2 DEF InOrder
    <3> QED
      BY <3>1, <3>2 DEF OrderInv
  <2>5. OwnAnswer' /\ Answered'
    BY <1>1, <1>2, <2>2 DEF OwnAnswer, Answered
  <2> QED
    BY <1>7, <2>3, <2>4, <2>5 DEF IInv, Inv
<1>9. CASE res \notin good
  <2>1. ~isConnected_' /\ ~last'.ok
    BY <1>1, <1>9
  <2> QED
    BY <1>7, <2>1 DEF IInv, Inv, OthersInv, OrderInv, OwnAnswer, Answered
<1> QED
  BY <1>8, <1>9

(* set, setex and set_expire, which accept any reply. *)
LEMMA WriteStep ==
  ASSUME Inv, NEW op \in {"set", "setex", "set_expire"}, Single(op, 0, Replies \ {NULL})
  PROVE  IInv'
<1>0. /\ op \in Ops /\ op \notin {"get", "mget"}
      /\ nid \in Nat /\ pc = "idle" /\ left = 0 /\ 0 \in Nat /\ 1 \in Nat
  BY DEF Ops, Types, Inv, TypeInv, BatchInv, Single
<1>1. PICK res \in Replies :
       /\ GetReply(KeptRc, Kept(obuf) \o Cmds(op, 1, 0), Kept(sock), Kept(reader), res)
       /\ isConnected_' = (res # NULL)
       /\ last' = [op |-> op, ok |-> res # NULL, mine |-> res.id = nid', clean |-> Clean]
  <2>1. PICK res \in Replies :
       /\ GetReply(KeptRc, Kept(obuf) \o Cmds(op, 1, 0), Kept(sock), Kept(reader), res)
       /\ isConnected_' = (res \in Replies \ {NULL})
       /\ last' = [op |-> op, ok |-> res \in Replies \ {NULL}, mine |-> res.id = nid', clean |-> Clean]
    BY DEF Single, Called
  <2>2. (res \in Replies \ {NULL}) = (res # NULL)
    OBVIOUS
  <2> QED
    BY <2>1, <2>2
<1>2. abandoned' = ~Clean /\ pc' = pc /\ left' = left /\ nid' = nid + 1
  BY DEF Single
<1> DEFINE o == Kept(obuf) \o Cmds(op, 1, 0)
<1>3. Kept(sock) \in Seq(Reply) /\ Kept(reader) \in Seq(Reply)
  BY <1>0, KeptFacts
<1>4. /\ o \in Seq(Cmd) /\ Others(o, Kept(sock), Kept(reader))
      /\ Clean /\ KeptRc = "ok" => /\ Waiting(o, Kept(sock), Kept(reader)) = 1
                                   /\ InOrder(o, Kept(sock), Kept(reader), nid + 1)
  BY <1>0, AppendFacts
<1>5. GetReply(KeptRc, o, Kept(sock), Kept(reader), res)
  BY <1>1
<1> HIDE DEF o
<1>6. /\ obuf' \in Seq(Cmd) /\ sock' \in Seq(Reply) /\ reader' \in Seq(Reply)
      /\ Others(obuf', sock', reader')
  BY <1>3, <1>4, <1>5, GetReplyType
<1>7. TypeInv' /\ BatchInv' /\ OthersInv'
  <2>1. isConnected_' \in BOOLEAN /\ abandoned' \in BOOLEAN
    BY <1>1, <1>2
  <2> QED
    BY <1>0, <1>2, <1>6, <2>1 DEF TypeInv, BatchInv, OthersInv
<1>8. CASE res # NULL /\ Clean
  <2>1. KeptRc = "ok"
    BY <1>5, <1>8 DEF GetReply
  <2>2. nid + 1 \in Int
    BY <1>0
  <2>3. /\ res.id = nid + 1
        /\ Waiting(obuf', sock', reader') = Waiting(o, Kept(sock), Kept(reader)) - 1
        /\ InOrder(obuf', sock', reader', (nid + 1) + 1)
    BY <1>3, <1>4, <1>5, <1>8, <2>1, <2>2, GetReplyOrder
  <2>4. Waiting(obuf', sock', reader') = left' /\ (nid + 1) + 1 = nid' - left' + 1
    BY <1>0, <1>2, <1>4, <1>8, <2>1, <2>3
  <2>5. OrderInv'
    BY <2>3, <2>4 DEF OrderInv
  <2>6. OwnAnswer' /\ Answered'
    BY <1>1, <1>2, <2>3 DEF OwnAnswer, Answered
  <2> QED
    BY <1>7, <2>5, <2>6 DEF IInv, Inv
<1>9. CASE ~(res # NULL /\ Clean)
  <2>1. OrderInv'
    BY <1>1, <1>2, <1>9 DEF OrderInv
  <2>2. OwnAnswer' /\ Answered'
    BY <1>0, <1>1, <1>9 DEF OwnAnswer, Answered
  <2> QED
    BY <1>7, <2>1, <2>2 DEF IInv, Inv
<1> QED
  BY <1>8, <1>9

(* select, which keeps the connection whatever it reads. *)
LEMMA SelectStep ==
  ASSUME Inv, select
  PROVE  IInv'
<1>0. /\ "select" \in Ops /\ "select" \notin {"get", "mget"} /\ isConnected_
      /\ nid \in Nat /\ pc = "idle" /\ left = 0 /\ 0 \in Nat /\ 1 \in Nat
  BY DEF Ops, Types, Inv, TypeInv, BatchInv, select
<1>1. PICK res \in Replies :
       /\ GetReply(rc_, obuf \o Cmds("select", 1, 0), sock, reader, res)
       /\ last' = [op |-> "select", ok |-> res # NULL, mine |-> res.id = nid', clean |-> Clean]
  BY DEF select, Called
<1>2. abandoned' = abandoned /\ isConnected_' = isConnected_ /\ pc' = pc /\ left' = left /\ nid' = nid + 1
  BY DEF select
<1> DEFINE o == obuf \o Cmds("select", 1, 0)
<1>3. Kept(obuf) = obuf /\ Kept(sock) = sock /\ Kept(reader) = reader /\ KeptRc = rc_ /\ Clean = ~abandoned
  BY <1>0 DEF Kept, KeptRc, Clean
<1>4. /\ sock \in Seq(Reply) /\ reader \in Seq(Reply)
      /\ o \in Seq(Cmd) /\ Others(o, sock, reader)
      /\ Clean /\ rc_ = "ok" => /\ Waiting(o, sock, reader) = 1
                                /\ InOrder(o, sock, reader, nid + 1)
  <2>1. sock \in Seq(Reply) /\ reader \in Seq(Reply)
    BY DEF Inv, TypeInv
  <2>2. /\ Kept(obuf) \o Cmds("select", 1, 0) \in Seq(Cmd)
        /\ Others(Kept(obuf) \o Cmds("select", 1, 0), Kept(sock), Kept(reader))
        /\ Clean /\ KeptRc = "ok" =>
             /\ Waiting(Kept(obuf) \o Cmds("select", 1, 0), Kept(sock), Kept(reader)) = 1
             /\ InOrder(Kept(obuf) \o Cmds("select", 1, 0), Kept(sock), Kept(reader), nid + 1)
    BY <1>0, AppendFacts
  <2> QED
    BY <1>3, <2>1, <2>2
<1>5. GetReply(rc_, o, sock, reader, res)
  BY <1>1
<1> HIDE DEF o
<1>6. /\ obuf' \in Seq(Cmd) /\ sock' \in Seq(Reply) /\ reader' \in Seq(Reply)
      /\ Others(obuf', sock', reader')
  BY <1>4, <1>5, GetReplyType
<1>7. TypeInv' /\ BatchInv' /\ OthersInv'
  <2>1. isConnected_' \in BOOLEAN /\ abandoned' \in BOOLEAN
    BY <1>2 DEF Inv, TypeInv
  <2> QED
    BY <1>0, <1>2, <1>6, <2>1 DEF TypeInv, BatchInv, OthersInv
<1>8. CASE (res # NULL \/ rc_' = "ok") /\ ~abandoned
  <2>1. rc_ = "ok"
    BY <1>5, <1>8 DEF GetReply
  <2>2. nid + 1 \in Int
    BY <1>0
  <2>3. /\ res.id = nid + 1
        /\ Waiting(obuf', sock', reader') = Waiting(o, sock, reader) - 1
        /\ InOrder(obuf', sock', reader', (nid + 1) + 1)
    <3>1. Waiting(o, sock, reader) = 1 /\ InOrder(o, sock, reader, nid + 1)
      BY <1>3, <1>4, <1>8, <2>1
    <3>2. res # NULL \/ rc_' = "ok"
      BY <1>8
    <3> QED
      BY <1>4, <1>5, <2>2, <3>1, <3>2, GetReplyOrder
  <2>4. Waiting(obuf', sock', reader') = left' /\ (nid + 1) + 1 = nid' - left' + 1
    <3>1. Waiting(o, sock, reader) = 1
      BY <1>3, <1>4, <1>8, <2>1
    <3> QED
      BY <1>0, <1>2, <2>3, <3>1
  <2>5. OrderInv'
    BY <2>3, <2>4 DEF OrderInv
  <2>6. OwnAnswer' /\ Answered'
    BY <1>1, <1>2, <2>3 DEF OwnAnswer, Answered
  <2> QED
    BY <1>7, <2>5, <2>6 DEF IInv, Inv
<1>9. CASE ~((res # NULL \/ rc_' = "ok") /\ ~abandoned)
  <2>1. OrderInv'
    BY <1>2, <1>9 DEF OrderInv
  <2>2. OwnAnswer' /\ Answered'
    BY <1>1, <1>3, <1>9 DEF OwnAnswer, Answered
  <2> QED
    BY <1>7, <2>1, <2>2 DEF IInv, Inv
<1> QED
  BY <1>8, <1>9

(* mdel and mset_expire append their commands, or only some of them. *)
LEMMA BatchStep ==
  ASSUME Inv, NEW op \in {"mdel", "mset_expire"}, BatchOf(op, 0)
  PROVE  IInv'
<1>0. /\ op \in Ops /\ op \notin {"get", "mget"}
      /\ nid \in Nat /\ pc = "idle" /\ left = 0 /\ 0 \in Nat
  BY DEF Ops, Types, Inv, TypeInv, BatchInv, BatchOf
<1>1. PICK k \in BatchSizes \ {0} : \E j \in 0 .. k :
       /\ nid' = nid + j
       /\ obuf' = Kept(obuf) \o Cmds(op, j, 0)
       /\ pc' = IF j = k THEN op ELSE "idle"
       /\ left' = IF j = k THEN k - 0 ELSE 0
       /\ last' = [op |-> op, ok |-> FALSE, mine |-> TRUE, clean |-> Clean]
       /\ abandoned' = (~Clean \/ (0 < j /\ j < k))
  BY DEF BatchOf
<1>2. PICK j \in 0 .. k :
       /\ nid' = nid + j
       /\ obuf' = Kept(obuf) \o Cmds(op, j, 0)
       /\ pc' = IF j = k THEN op ELSE "idle"
       /\ left' = IF j = k THEN k - 0 ELSE 0
       /\ last' = [op |-> op, ok |-> FALSE, mine |-> TRUE, clean |-> Clean]
       /\ abandoned' = (~Clean \/ (0 < j /\ j < k))
  BY <1>1
<1>3. sock' = Kept(sock) /\ reader' = Kept(reader) /\ rc_' = KeptRc /\ isConnected_' = TRUE
  BY DEF BatchOf
<1>4. k \in Nat /\ k # 0 /\ j \in Nat
  BY RedisAssumption
<1>5. /\ sock' \in Seq(Reply) /\ reader' \in Seq(Reply)
  BY <1>0, <1>3, KeptFacts
<1>6. /\ obuf' \in Seq(Cmd) /\ Others(obuf', sock', reader')
      /\ Clean /\ rc_' = "ok" => /\ Waiting(obuf', sock', reader') = j
                                 /\ InOrder(obuf', sock', reader', nid + 1)
  <2>1. /\ Kept(obuf) \o Cmds(op, j, 0) \in Seq(Cmd)
        /\ Others(Kept(obuf) \o Cmds(op, j, 0), Kept(sock), Kept(reader))
        /\ Clean /\ KeptRc = "ok" =>
             /\ Waiting(Kept(obuf) \o Cmds(op, j, 0), Kept(sock), Kept(reader)) = j
             /\ InOrder(Kept(obuf) \o Cmds(op, j, 0), Kept(sock), Kept(reader), nid + 1)
    BY <1>0, <1>4, AppendFacts
  <2>2. obuf' = Kept(obuf) \o Cmds(op, j, 0)
    BY <1>2
  <2> QED
    BY <1>3, <2>1, <2>2
<1>7. TypeInv' /\ BatchInv'
  <2>1. abandoned' \in BOOLEAN
    BY <1>2
  <2>2. nid' \in Nat /\ left' \in Nat
    BY <1>0, <1>2, <1>4
  <2>3. (j = k /\ pc' = op /\ left' > 0) \/ (pc' = "idle" /\ left' = 0)
    BY <1>2, <1>4
  <2> QED
    BY <1>3, <1>5, <1>6, <2>1, <2>2, <2>3 DEF TypeInv, BatchInv
<1>8. OthersInv'
  BY <1>6 DEF OthersInv
<1>9. OrderInv'
  <2> SUFFICES ASSUME ~abandoned', rc_' = "ok"
               PROVE  Waiting(obuf', sock', reader') = left' /\ InOrder(obuf', sock', reader', nid' - left' + 1)
    BY DEF OrderInv
  <2>1. Clean /\ (j = 0 \/ j = k)
    <3>1. Clean /\ ~(0 < j /\ j < k)
      BY <1>2
    <3>2. j \in 0 .. k
      OBVIOUS
    <3> QED
      BY <1>4, <3>1, <3>2
  <2>2. left' = j /\ nid' - left' + 1 = nid + 1
    BY <1>0, <1>2, <1>4, <2>1
  <2> QED
    BY <1>6, <2>1, <2>2
<1>10. OwnAnswer' /\ Answered'
  BY <1>2 DEF OwnAnswer, Answered
<1> QED
  BY <1>7, <1>8, <1>9, <1>10 DEF IInv, Inv

(* They read the replies one by one and leave at an error. *)
LEMMA BatchReplyStep ==
  ASSUME Inv, NEW op \in {"mdel", "mset_expire"}, BatchReply(op)
  PROVE  IInv'
<1>0. /\ op \notin {"get", "mget"} /\ nid \in Nat /\ pc = op /\ left \in Nat /\ left > 0 /\ isConnected_
      /\ obuf \in Seq(Cmd) /\ sock \in Seq(Reply) /\ reader \in Seq(Reply)
      /\ Others(obuf, sock, reader)
  BY DEF Inv, TypeInv, BatchInv, OthersInv, BatchReply
<1>1. PICK res \in Replies :
       /\ GetReply(rc_, obuf, sock, reader, res)
       /\ left' = IF res.type \in {"null", "error"} THEN 0 ELSE left - 1
       /\ pc' = IF left' = 0 THEN "idle" ELSE op
       /\ abandoned' = (abandoned \/ (res.type = "error" /\ left > 1))
       /\ last' = [op |-> op, ok |-> left' = 0 /\ res.type \notin {"null", "error"},
                   mine |-> res.id = nid - left + 1, clean |-> ~abandoned]
  BY DEF BatchReply
<1>2. isConnected_' = isConnected_ /\ nid' = nid
  BY DEF BatchReply
<1>3. /\ obuf' \in Seq(Cmd) /\ sock' \in Seq(Reply) /\ reader' \in Seq(Reply)
      /\ Others(obuf', sock', reader')
  BY <1>0, <1>1, GetReplyType
<1>4. TypeInv' /\ BatchInv' /\ OthersInv'
  <2>1. isConnected_' \in BOOLEAN /\ isConnected_' /\ abandoned' \in BOOLEAN
    BY <1>0, <1>1, <1>2 DEF Inv, TypeInv
  <2>2. nid' \in Nat /\ left' \in Nat
    BY <1>0, <1>1, <1>2
  <2>3. (pc' = op /\ left' > 0) \/ (pc' = "idle" /\ left' = 0)
    <3>1. pc' = IF left' = 0 THEN "idle" ELSE op
      BY <1>1
    <3> QED
      BY <2>2, <3>1
  <2> QED
    BY <1>3, <2>1, <2>2, <2>3 DEF TypeInv, BatchInv, OthersInv
<1>5. res = NULL => res.type = "null"
  BY DEF NULL
<1>6. CASE (res # NULL \/ rc_' = "ok") /\ ~abandoned
  <2>1. rc_ = "ok"
    BY <1>1, <1>6 DEF GetReply
  <2>2. nid - left + 1 \in Int
    BY <1>0
  <2>3. Waiting(obuf, sock, reader) = left /\ InOrder(obuf, sock, reader, nid - left + 1)
    BY <1>0, <1>6, <2>1 DEF Inv, OrderInv
  <2>4. /\ res.id = nid - left + 1 /\ res \in Reply
        /\ Waiting(obuf', sock', reader') = Waiting(obuf, sock, reader) - 1
        /\ InOrder(obuf', sock', reader', (nid - left + 1) + 1)
    BY <1>0, <1>1, <1>6, <2>2, <2>3, GetReplyOrder
  <2>5. OrderInv'
    <3> SUFFICES ASSUME ~abandoned', rc_' = "ok"
                 PROVE  Waiting(obuf', sock', reader') = left' /\ InOrder(obuf', sock', reader', nid' - left' + 1)
      BY DEF OrderInv
    <3>1. res.type # "null"
      BY <2>4, NoNull
    <3>2. left' = left - 1
      <4>1. left' = IF res.type \in {"null", "error"} THEN 0 ELSE left - 1
        BY <1>1
      <4>2. ~(res.type = "error" /\ left > 1)
        BY <1>1
      <4> QED
        BY <1>0, <3>1, <4>1, <4>2
    <3>3. nid' - left' + 1 = (nid - left + 1) + 1
      BY <1>0, <1>2, <3>2
    <3> QED
      BY <2>3, <2>4, <3>2, <3>3
  <2>6. OwnAnswer' /\ Answered'
    BY <1>0, <1>1, <2>4 DEF OwnAnswer, Answered
  <2> QED
    BY <1>4, <2>5, <2>6 DEF IInv, Inv
<1>7. CASE ~((res # NULL \/ rc_' = "ok") /\ ~abandoned)
  <2>1. OrderInv'
    BY <1>1, <1>7 DEF OrderInv
  <2>2. OwnAnswer' /\ Answered'
    BY <1>0, <1>1, <1>5, <1>7 DEF OwnAnswer, Answered
  <2> QED
    BY <1>4, <2>1, <2>2 DEF IInv, Inv
<1> QED
  BY <1>6, <1>7

(* The invariant holds at the start ... *)
LEMMA InvInit == Init => IInv
<1> SUFFICES ASSUME Init PROVE IInv
  OBVIOUS
<1>1. obuf \in Seq(Cmd) /\ sock \in Seq(Reply) /\ reader \in Seq(Reply)
  BY DEF Init
<1>2. TypeInv /\ BatchInv
  BY <1>1 DEF Init, TypeInv, BatchInv
<1>3. OthersInv /\ OrderInv
  BY DEF Init, OthersInv, OrderInv
<1>4. OwnAnswer /\ Answered
  BY DEF Init, OwnAnswer, Answered
<1> QED
  BY <1>2, <1>3, <1>4 DEF IInv, Inv

(* ... and every call keeps it. *)
LEMMA InvStep == IInv /\ [Next]_vars => IInv'
<1> SUFFICES ASSUME IInv, [Next]_vars PROVE IInv'
  OBVIOUS
<1>0. Inv
  BY DEF IInv
<1>1. ASSUME NEW op \in DOMAIN Types \ {"select"}, ConnectFails(op) PROVE IInv'
  <2>1. op \in Ops
    BY DEF Ops
  <2> QED
    BY <1>0, <1>1, <2>1, ConnectFailsStep
<1>2. CASE get
  <2>1. \A g \in {r \in Replies : r.type \in {"string", "nil"}} : g.type \in ReadTypes
    BY DEF ReadTypes
  <2> QED
    BY <1>0, <1>2, <2>1, ReadStep DEF get
<1>3. CASE mget
  <2>1. PICK size \in BatchSizes \ {0} :
          Single("mget", size, {r \in Replies : r.type = "array" /\ r.size = size})
    BY <1>3 DEF mget
  <2>2. \A g \in {r \in Replies : r.type = "array" /\ r.size = size} : g.type \in ReadTypes
    BY DEF ReadTypes
  <2>3. size \in Nat
    BY RedisAssumption
  <2> QED
    BY <1>0, <2>1, <2>2, <2>3, ReadStep
<1>4. CASE set \/ setex \/ set_expire
  BY <1>0, <1>4, WriteStep DEF set, setex, set_expire
<1>5. CASE select
  BY <1>0, <1>5, SelectStep
<1>6. CASE mdel \/ mset_expire
  BY <1>0, <1>6, BatchStep DEF mdel, mset_expire, Batch
<1>7. CASE BatchReply("mdel") \/ BatchReply("mset_expire")
  BY <1>0, <1>7, BatchReplyStep
<1>8. CASE UNCHANGED vars
  BY <1>8 DEF vars, conn, IInv, Inv, TypeInv, BatchInv, OthersInv, OrderInv, OwnAnswer, Answered, Others, InOrder, Waiting
<1> QED
  BY <1>1, <1>2, <1>3, <1>4, <1>5, <1>6, <1>7, <1>8 DEF Next

-----------------------------------------------------------------------------
(* get and mget (Redis.h 61-132) never return the answer to another        *)
(* command, whatever batches were abandoned on the connection before: for  *)
(* any batch sizes and any number of commands.                             *)
THEOREM ReadsReturnOwnAnswer == Spec => []OwnAnswer
<1>1. IInv => OwnAnswer
  BY DEF IInv
<1> QED
  BY <1>1, InvInit, InvStep, PTL DEF Spec

(* On a connection without an abandoned batch every call of Redis.h that   *)
(* returns true has read the reply to its own last command: the replies    *)
(* that wait are those of the batch at hand, in the order of its commands. *)
THEOREM SuccessIsAnswered == Spec => []Answered
<1>1. IInv => Answered
  BY DEF IInv
<1> QED
  BY <1>1, InvInit, InvStep, PTL DEF Spec
=============================================================================

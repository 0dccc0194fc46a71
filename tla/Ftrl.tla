-------------------------------- MODULE Ftrl --------------------------------
(***************************************************************************)
(* The optimizer of the server: Ftrl::update, set_weight and               *)
(* set_paramfromkv (src/src/optimizer/ftrl.cpp), in any order, as          *)
(* handle_request calls them for the pushes of workers.                    *)
(*                                                                         *)
(* Floats are numbers of an arithmetic that is a parameter; rounding is    *)
(* left out.  Only gradients are pushed that keep N a square, so that the  *)
(* square roots are exact; with the real numbers these are all.  acc is    *)
(* left out: the midnight test that would use it compares with the output  *)
(* of "%H:$M" and never holds, and nothing else reads it.                  *)
(***************************************************************************)
EXTENDS Integers, Sequences

CONSTANTS
  Num, Zero, One,                                    \* the arithmetic
  Plus(_, _), Times(_, _), Neg(_), Over(_, _), Leq(_, _),
  IsSquare(_), Root(_),
  Keys,
  Gradients,
  Loads,         \* weights of model files
  Params,        \* [alpha, beta, l1, l2]
  Default,       \* set_param of StartFtrl
  MaxGrads       \* bound: gradients of a key

Minus(x, y) == Plus(x, Neg(y))
Size(x) == IF Leq(Zero, x) THEN x ELSE Neg(x)
Positive(x) == ~Leq(x, Zero)
Negative(x) == ~Leq(Zero, x)

ASSUME FtrlAssumption ==
  /\ Gradients \subseteq Num /\ Loads \subseteq Num /\ MaxGrads \in Nat
  /\ Params \subseteq [alpha : Num, beta : Num, l1 : Num, l2 : Num] /\ Default \in Params
  /\ \A p \in Params : Positive(p.alpha) /\ ~Negative(p.beta) /\ ~Negative(p.l1) /\ ~Negative(p.l2)

VARIABLES
  W, Z, N,       \* key -> number
  param,
  log,           \* history: key -> its gradients, each with W before it
  steady,        \* history: key -> param has been one since its first gradient
  computed       \* history: key -> W is what update made of Z, N and param

ftrlVars == <<W, Z, N, param, log, steady, computed>>

-----------------------------------------------------------------------------
(* The laws of an ordered field for the numbers of a set, with the square  *)
(* roots there are.                                                        *)
Closed(S) ==
  /\ Zero \in Num /\ One \in Num
  /\ \A x, y \in S : Plus(x, y) \in Num /\ Times(x, y) \in Num /\ Neg(x) \in Num
  /\ \A x, y \in S : y # Zero => Over(x, y) \in Num
  /\ \A x \in S : IsSquare(x) => Root(x) \in Num

Laws(S) ==
  /\ Zero # One
  /\ \A x, y \in S : Plus(x, y) = Plus(y, x) /\ Times(x, y) = Times(y, x)
  /\ \A x, y, z \in S : /\ Plus(Plus(x, y), z) = Plus(x, Plus(y, z))
                        /\ Times(Times(x, y), z) = Times(x, Times(y, z))
                        /\ Times(x, Plus(y, z)) = Plus(Times(x, y), Times(x, z))
  /\ \A x \in S : Plus(x, Zero) = x /\ Times(x, One) = x /\ Plus(x, Neg(x)) = Zero
  /\ \A x, y \in S : y # Zero => Times(Over(x, y), y) = x
  /\ \A x, y \in S : (Leq(x, y) \/ Leq(y, x)) /\ (Leq(x, y) /\ Leq(y, x) => x = y)
  /\ \A x, y, z \in S : Leq(x, y) => Leq(Plus(x, z), Plus(y, z)) /\ (Leq(y, z) => Leq(x, z))
  /\ \A x, y \in S : Leq(Zero, x) /\ Leq(Zero, y) => Leq(Zero, Times(x, y))
  /\ \A x \in S : IsSquare(Times(x, x))
  /\ \A x \in S : IsSquare(x) => Leq(Zero, Root(x)) /\ Times(Root(x), Root(x)) = x

OrderedField == Closed(Num) /\ Laws(Num)

-----------------------------------------------------------------------------
(* The maps are empty, and an absent entry reads as 0. *)
FtrlInit ==
  /\ W = [k \in Keys |-> Zero] /\ Z = [k \in Keys |-> Zero] /\ N = [k \in Keys |-> Zero]
  /\ param = Default
  /\ log = [k \in Keys |-> <<>>]
  /\ steady = [k \in Keys |-> TRUE] /\ computed = [k \in Keys |-> TRUE]

MutSigma(n, ni) == Over(Root(ni), param.alpha)   \* mutant: without sqrt(N)

(* (sqrt(Ni) - sqrt(N)) / alpha *)
Sigma(n, ni) == Over(Minus(Root(ni), Root(n)), param.alpha)

(* Mutant: the sign of Z is not taken into account. *)
MutWeight(z, n) ==
  LET tmpr == Minus(z, param.l1)
      tmpl == Neg(Plus(Over(Plus(param.beta, Root(n)), param.alpha), param.l2))
  IN  IF Leq(Size(z), param.l1) THEN Zero ELSE Over(tmpr, tmpl)

(* W from Z and N: 0, or tmpr / tmpl. *)
Weight(z, n) ==
  LET sign == IF Positive(z) THEN One ELSE Neg(One)
      tmpr == Minus(z, Times(sign, param.l1))
      tmpl == Neg(Plus(Over(Plus(param.beta, Root(n)), param.alpha), param.l2))
  IN  IF Leq(Size(z), param.l1) THEN Zero ELSE Over(tmpr, tmpl)

(* Push, cmd 0: every key of the request gets its gradient. *)
Update(ks, g) ==
  LET ni == [k \in ks |-> Plus(N[k], Times(g[k], g[k]))]
      z == [k \in ks |-> Plus(Z[k], Minus(g[k], Times(Sigma(N[k], ni[k]), W[k])))]
      In(new, old) == [k \in Keys |-> IF k \in ks THEN new[k] ELSE old[k]]
  IN  /\ N' = In(ni, N) /\ Z' = In(z, Z)
      /\ W' = In([k \in ks |-> Weight(z[k], ni[k])], W)
      /\ log' = In([k \in ks |-> Append(log[k], [g |-> g[k], w |-> W[k]])], log)
      /\ computed' = In([k \in ks |-> TRUE], computed)
      /\ UNCHANGED <<param, steady>>

PushGradients ==
  \E ks \in (SUBSET Keys) \ {{}} : \E g \in [ks -> Gradients] :
    /\ \A k \in ks : Len(log[k]) < MaxGrads /\ IsSquare(Plus(N[k], Times(g[k], g[k])))
    /\ Update(ks, g)

(* Push, cmd 1: set_weight.  A worker pushes all keys of its file; Z and N *)
(* stay.                                                                   *)
SetWeight ==
  \E ks \in (SUBSET Keys) \ {{}} : \E v \in [ks -> Loads] :
    /\ W' = [k \in Keys |-> IF k \in ks THEN v[k] ELSE W[k]]
    /\ computed' = [k \in Keys |-> computed[k] /\ k \notin ks]
    /\ UNCHANGED <<Z, N, param, log, steady>>

(* Push, cmd 2: set_paramfromkv *)
SetParam ==
  \E p \in Params :
    /\ param' = p
    /\ steady' = [k \in Keys |-> steady[k] /\ (log[k] = <<>> \/ p = param)]
    /\ computed' = [k \in Keys |-> computed[k] /\ (log[k] = <<>> \/ p = param)]
    /\ UNCHANGED <<W, Z, N, log>>

FtrlNext == PushGradients \/ SetWeight \/ SetParam

FtrlSpec == FtrlInit /\ [][FtrlNext]_ftrlVars

-----------------------------------------------------------------------------
(* Properties. *)

(* A gradient g taken at w0 adds g * g to the squares n, and to the slope  *)
(* at w itself and the distance from w0 at the rate of its step.           *)
Term(alpha, t, e, w) ==
  LET n == Plus(t.n, Times(e.g, e.g))
      rate == Over(Minus(Root(n), Root(t.n)), alpha)
  IN  [n |-> n, s |-> Plus(t.s, Plus(e.g, Times(rate, Minus(w, e.w))))]

Sums(alpha, l, w) ==
  LET upto[i \in 0 .. Len(l)] ==
        IF i = 0 THEN [n |-> Zero, s |-> Zero] ELSE Term(alpha, upto[i - 1], l[i], w)
  IN  upto[Len(l)]

(* The derivative at w of what FTRL-proximal minimises, without l1|w|: the *)
(* gradients seen, the distance to the weights they were taken at, each at *)
(* the rate of its step, and the ridge.                                    *)
Slope(k, w) ==
  LET ridge == Plus(Over(param.beta, param.alpha), param.l2)
  IN  Plus(Sums(param.alpha, log[k], w).s, Times(ridge, w))

(* The derivatives of l1|w| include the negative of s. *)
Balanced(l1, s, w) ==
  CASE Positive(w) -> s = Neg(l1)
    [] Negative(w) -> s = l1
    [] OTHER -> Leq(Size(s), l1)

(* After a gradient W minimises the regularised sum of all gradients of    *)
(* its key, loads in between included (update 34-46 keeps of them only Z   *)
(* and N), as long as the parameters have not changed since the first.     *)
WeightMinimises ==
  \A k \in Keys : log[k] # <<>> /\ steady[k] /\ computed[k] =>
    Balanced(param.l1, Slope(k, W[k]), W[k])

(* A gradient moves a weight by at most |g| alpha / (beta + sqrt N) and    *)
(* the distance it was away from what Z and N make of it (38-45) with the  *)
(* parameters in force.  That is 0 after a gradient.  It is not after      *)
(* set_weight (69), which Z and N do not know of, nor after                *)
(* set_paramfromkv (55), which changes what they stand for: the next       *)
(* gradient, even one of 0, takes the weight back to where they put it.    *)
(* Further than that nothing ever moves it.                                *)
Curvature(p, n) == Plus(Over(Plus(p.beta, Root(n)), p.alpha), p.l2)
Moved(k) == Size(Minus(W'[k], W[k]))
Away(k) == Size(Minus(W[k], Weight(Z[k], N[k])))
StepBounded ==
  [][\A k \in Keys : log'[k] # log[k] =>
       LET curvature == Curvature(param, N'[k])
       IN  Leq(Times(Moved(k), curvature),
               Plus(Size(log'[k][Len(log'[k])].g), Times(Away(k), curvature)))]_ftrlVars
=============================================================================

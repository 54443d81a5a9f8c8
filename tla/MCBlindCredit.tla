---------------------------- MODULE MCBlindCredit ---------------------------
(* A small instance of BlindCredit: N = 33 = 3 * 11, E * D = 1 mod 20. *)
EXTENDS BlindCredit, TLC

CONSTANTS x, y,       \* credits
          s, t, u,    \* texts of serials: s and t stand for x's, u for y's
          a, b, c, d, \* redemptions
          one, ten    \* denominations

MCDecode == (s :> x) @@ (t :> x) @@ (u :> y)
MCTextOf == (a :> s) @@ (b :> s) @@ (c :> t) @@ (d :> u)
MCAsks == (a :> one) @@ (b :> one) @@ (c :> one) @@ (d :> ten)
MCValueOf == (x :> one) @@ (y :> one)

\* Units of Z_33, distinct for distinct serials and denominations.
MCFdh == (x :> ((one :> 2) @@ (ten :> 5))) @@ (y :> ((one :> 7) @@ (ten :> 8)))
=============================================================================

------------------------------ MODULE MCRouter ------------------------------
(* Small instances of Router for TLC. *)
EXTENDS Router, TLC

CONSTANTS p, q, r, s, m, n, \* providers
          v, w, x,     \* vouchers
          t1, t2       \* chats

MCProviders == {p, q, r, s, m, n}
MCVouchers == {v, w, x}
MCAmount == (v :> 1) @@ (w :> 2) @@ (x :> 1)
MCPrice == (p :> 2) @@ (q :> 1) @@ (r :> 2) @@ (s :> 2) @@ (m :> 1) @@ (n :> 2)

MCWallet == <<v, w, x>>

MCSchemes == (p :> {"pic", "x402"}) @@ (q :> {"pic"}) @@ (r :> {}) @@ (s :> {"x402"}) @@ (m :> {"pic"}) @@
             (n :> {"pic"})

\* One voucher is of an issuer that q does not take.
MCAccepts == [y \in MCProviders |-> IF y = q THEN {v, x} ELSE MCVouchers]

\* The first chat tries two that take vouchers.  The second passes a provider whose
\* challenge is malformed, one that takes x402 only, which it has a key for, and a
\* free one before it comes to a third that takes vouchers.
MCChats == {t1, t2}
MCCandidates == (t1 :> <<p, q>>) @@ (t2 :> <<m, s, r, n>>)
SameCandidates == [t \in MCChats |-> <<p, q>>]

\* Gateways have spent sets of their own, but for two of one operator.
MCGuard == [y \in MCProviders |-> IF y = n THEN p ELSE y]
=============================================================================

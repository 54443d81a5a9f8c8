---------------------------- MODULE MCRedemption ----------------------------
(* Small instances of Redemption for TLC. *)
EXTENDS Redemption, TLC

CONSTANTS a, b, c, d, \* calls
          v, w, n     \* two vouchers and an x402 nonce key

MCCalls == {a, b, c, d}
MCKeys == {v, w, n}
MCAmount == (v :> 2) @@ (w :> 1) @@ (n :> 1)

(***************************************************************************)
(* a and b present one payment, c pays with its second voucher.  d pays    *)
(* too little with a key that expires while requests are in flight.        *)
(***************************************************************************)
MCBatch == (a :> <<v, w>>) @@ (b :> <<v, w>>) @@ (c :> <<w>>) @@ (d :> <<n>>)
MCPrice == (a :> 3) @@ (b :> 3) @@ (c :> 1) @@ (d :> 3)
MCAccepts == [x \in MCCalls |-> MCKeys]
MCExpiry == (v :> 9) @@ (w :> 9) @@ (n :> 1)
=============================================================================

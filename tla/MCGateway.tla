----------------------------- MODULE MCGateway ------------------------------
(* Small instances of Gateway for TLC. *)
EXTENDS Gateway

CONSTANTS a, b, c,     \* requests
          v, w, x,     \* vouchers
          w1, w2, w3   \* workers

MCKeys == {v, w, x}
MCAmount == (v :> 1) @@ (w :> 2) @@ (x :> 2)

\* v expires while requests are in flight.
MCExpiry == (v :> 1) @@ (w :> 9) @@ (x :> 9)

Good(words, max_tokens) ==
    [auth |-> TRUE, parsed |-> TRUE, known |-> {w1, w2, w3},
     max_tokens |-> max_tokens, chars |-> words + 1, words |-> words]

(***************************************************************************)
(* a and b pay with the same vouchers in opposite orders, c with another.  *)
(* w1 and w2 ask for payment, w3 does not.  w1 does not offer c's model.   *)
(***************************************************************************)
MCCalls == {a, b, c}
MCRequest == (a :> Good(1, 2)) @@ (b :> Good(1, 2)) @@ (c :> [Good(1, 1) EXCEPT !.known = {w2, w3}])
MCBatch == (a :> <<v, w>>) @@ (b :> <<w, v>>) @@ (c :> <<x>>)
MCPrice == (a :> 3) @@ (b :> 3) @@ (c :> 2)
MCAccepts == [r \in MCCalls |-> MCKeys]

\* What the quote of c allows for, and more than any quote does.
MCUsage == {<<2, 1>>, <<9, 2>>}

MCSentTo == (a :> {w1, w2}) @@ (b :> {w2}) @@ (c :> {w1, w2, w3})

MCWorkers == {w1, w2, w3}
MCPaid == {w1, w2}
OwnLedgers == [u \in MCWorkers |-> u]

\* Two workers behind one ledger file, two unrelated payments.
PairCalls == {a, c}
PairRequest == (a :> Good(1, 2)) @@ (c :> Good(1, 1))
PairBatch == (a :> <<v, w>>) @@ (c :> <<x>>)
PairPrice == (a :> 3) @@ (c :> 2)
PairAccepts == [r \in PairCalls |-> MCKeys]
PairSentTo == [r \in PairCalls |-> {w1, w2}]
SharedLedger == [u \in MCWorkers |-> w1]
=============================================================================

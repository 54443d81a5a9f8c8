------------------------- MODULE RedemptionPromise -------------------------
(***************************************************************************)
(* What redeem_payment promises of a batch (payment.py: "Either the whole  *)
(* batch is consumed or none of it is"), with what becomes of the promise  *)
(* when a call does not return.  Keys are consumed one by one.  A call     *)
(* that accepts has consumed its whole batch, alone; a call that refuses   *)
(* had a reason to, and consumed nothing that it does not give back; a     *)
(* call that is cut short keeps what it has consumed so far.               *)
(***************************************************************************)
CONSTANTS Calls,    \* calls of redeem_payment
          Keys,     \* spend keys: voucher ids and "x402:" nonces
          Payment,  \* Payment[c]: the keys call c pays with
          Sound,    \* calls whose batch is well formed, authentic and enough
          Faulty    \* calls that may be cut short

VARIABLES outcome,  \* how each call stands or ended
          held,     \* held[c]: the keys c has consumed and not given back
          consumed, \* the keys that are taken
          expired   \* the keys that are no longer accepted

vars == <<outcome, held, consumed, expired>>

Init ==
    /\ outcome = [c \in Calls |-> "pending"]
    /\ held = [c \in Calls |-> {}]
    /\ consumed = {}
    /\ expired \in SUBSET Keys

\* The last key of a batch is what accepts the payment.
Consume(c, k) ==
    /\ outcome[c] = "pending" /\ c \in Sound
    /\ k \in Payment[c] \ consumed
    /\ consumed' = consumed \cup {k}
    /\ held' = [held EXCEPT ![c] = @ \cup {k}]
    /\ outcome' = [outcome EXCEPT ![c] = IF held'[c] = Payment[c] THEN "accepted" ELSE "pending"]
    /\ UNCHANGED expired

\* A payment is refused for what it is, for a key that has expired, or for a key
\* that somebody else has consumed.
Refusable(c) ==
    \/ c \notin Sound
    \/ Payment[c] \cap expired # {}
    \/ Payment[c] \cap (consumed \ held[c]) # {}

\* A refused call first gives back what it holds.
Refuse(c) ==
    /\ outcome[c] = "pending" /\ Refusable(c)
    /\ outcome' = [outcome EXCEPT ![c] = IF held[c] = {} THEN "refused" ELSE "yielding"]
    /\ UNCHANGED <<held, consumed, expired>>

GiveBack(c, k) ==
    /\ outcome[c] = "yielding"
    /\ k \in held[c]
    /\ consumed' = consumed \ {k}
    /\ held' = [held EXCEPT ![c] = @ \ {k}]
    /\ outcome' = [outcome EXCEPT ![c] = IF held'[c] = {} THEN "refused" ELSE "yielding"]
    /\ UNCHANGED expired

\* The call ends in an exception or with its process.
CutShort(c) ==
    /\ c \in Faulty
    /\ outcome[c] \in {"pending", "yielding"}
    /\ outcome' = [outcome EXCEPT ![c] = "cut short"]
    /\ UNCHANGED <<held, consumed, expired>>

Expire ==
    /\ expired \subseteq expired'
    /\ UNCHANGED <<outcome, held, consumed>>

Next ==
    \/ \E c \in Calls : Refuse(c) \/ CutShort(c) \/ \E k \in Keys : Consume(c, k) \/ GiveBack(c, k)
    \/ Expire

Spec == Init /\ [][Next]_vars
=============================================================================

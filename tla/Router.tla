------------------------------- MODULE Router -------------------------------
(***************************************************************************)
(* SovereignClient.chat paying from a Wallet or with x402.  A chat walks   *)
(* the ranked candidates, pays a provider that answers 402 with vouchers   *)
(* taken from the wallet, or with a payment it signs, and puts vouchers    *)
(* back when the paid request fails.  The proxy                            *)
(* runs chats in a thread pool on one wallet, which has no lock, so the    *)
(* statements of Wallet.select are separate steps.                         *)
(*                                                                         *)
(* A provider's redemption is one step here; its statements are the        *)
(* subject of Redemption.  A request the client has given up on may still  *)
(* be processed.  All vouchers of a wallet are in the unit of the prices.  *)
(***************************************************************************)
EXTENDS Integers, Sequences, SequencesExt

CONSTANTS Chats,
          Providers,
          Candidates,  \* Candidates[t]: resolve(...)[:max_providers] for the
                       \* model t asks for, a sequence of providers
          Vouchers,
          FirstWallet, \* the vouchers the wallet is created with, in order
          Amount,      \* Amount[v]: denomination
          Price,       \* Price[p]: the price in p's challenge
          Paid,        \* providers that require payment
          Malformed,   \* providers whose challenge has no decimal as the price
          Accepts,     \* Accepts[p]: the vouchers whose signature, unit and
                       \* issuer are right for p
          Expiring,    \* vouchers that a provider may find expired
          Schemes,     \* Schemes[p]: the payment schemes p accepts
          HasWallet,   \* chats that are given a wallet
          HasKey,      \* chats that are given an x402 key
          GuardOf,     \* GuardOf[p]: the SpentSet p checks, its own by default
          Untrusted    \* providers whose receipt does not verify

ASSUME RouterAssumption ==
    /\ Candidates \in [Chats -> Seq(Providers)]
    /\ FirstWallet \in Seq(Vouchers)
    /\ IsInjective(FirstWallet)
    /\ Amount \in [Vouchers -> Nat]
    /\ Price \in [Providers -> Nat]
    /\ Paid \subseteq Providers /\ Malformed \subseteq Providers
    /\ Accepts \in [Providers -> SUBSET Vouchers]
    /\ Expiring \subseteq Vouchers
    /\ Schemes \in [Providers -> SUBSET {"pic", "x402"}]
    /\ HasWallet \subseteq Chats /\ HasKey \subseteq Chats
    /\ Untrusted \subseteq Providers

VARIABLES wallet,   \* Wallet._vouchers
          pc,       \* where each chat is
          cand,     \* index of the candidate being tried
          reserved, \* vouchers picked for the payment under way
          left,     \* the list select is about to assign
          result,   \* how chat ended: "served", "exhausted", "raised" or "none"
          request,  \* request[t][i]: the paid request of t to candidate i
          consumed, \* consumed[g]: vouchers recorded by spent set g
          credited, \* <<t, i, v>>: candidate i redeemed v for t
          overlap,  \* history: two chats have run at the same time
          givenUp   \* history: <<t, i>>: t did not wait for i's answer

vars == <<wallet, pc, cand, reserved, left, result, request, consumed, credited,
          overlap, givenUp>>

serverVars == <<request, consumed, credited>>
historyVars == <<overlap, givenUp>>

Guards == {GuardOf[p] : p \in Providers}

Index(t) == 1..Len(Candidates[t])

PaidRequests == UNION {{t} \X Index(t) : t \in Chats}

Provider(t) == Candidates[t][cand[t]]

PC == {"new", "probe", "post", "balance", "pick", "filter", "assign", "pay", "wait",
       "done"}

\* build_x402_payment: each payment has a new nonce, and is bound to the provider
\* and the request.
Nonce(t, i) == <<"x402", t, i>>
Nonces == {Nonce(x[1], x[2]) : x \in PaidRequests}
Means == Vouchers \cup Nonces      \* what a payment consumes

\* Spend keys of x402 payments are "x402:" and the nonce, no voucher's id.
ASSUME NoncesAssumption == Vouchers \cap Nonces = {}

NoRequest == [state |-> "none", batch |-> <<>>]

PaidRequest == [state : {"none", "sent", "200", "402", "500", "502"}, batch : Seq(Means)]

TypeOK ==
    /\ wallet \in Seq(Vouchers)
    /\ pc \in [Chats -> PC]
    /\ cand \in [Chats -> Nat]
    /\ \A t \in Chats : cand[t] \in Index(t) \/ pc[t] \in {"new", "done"}
    /\ reserved \in [Chats -> Seq(Vouchers)]
    /\ left \in [Chats -> Seq(Vouchers)]
    /\ result \in [Chats -> {"none", "served", "exhausted", "raised"}]
    /\ DOMAIN request = Chats
    /\ \A t \in Chats : request[t] \in [Index(t) -> PaidRequest]
    /\ consumed \in [Guards -> SUBSET Means]
    /\ \A x \in credited : <<x[1], x[2]>> \in PaidRequests /\ x[3] \in Means
    /\ overlap \in BOOLEAN
    /\ givenUp \subseteq PaidRequests

Init ==
    /\ wallet = FirstWallet
    /\ pc = [t \in Chats |-> "new"]
    /\ cand = [t \in Chats |-> 1]
    /\ reserved = [t \in Chats |-> <<>>]
    /\ left = [t \in Chats |-> <<>>]
    /\ result = [t \in Chats |-> "none"]
    /\ request = [t \in Chats |-> [i \in Index(t) |-> NoRequest]]
    /\ consumed = [g \in Guards |-> {}]
    /\ credited = {}
    /\ overlap = FALSE
    /\ givenUp = {}

-----------------------------------------------------------------------------
Value(vouchers) ==
    LET sum[i \in 0..Len(vouchers)] == IF i = 0 THEN 0 ELSE sum[i - 1] + Amount[vouchers[i]]
    IN  sum[Len(vouchers)]

\* Mutant: after the last candidate the first is tried again.
WrapAround(t) ==
    /\ cand' = [cand EXCEPT ![t] = (@ % Len(Candidates[t])) + 1]
    /\ pc' = [pc EXCEPT ![t] = "probe"]
    /\ UNCHANGED result

\* The receipt verifies for this provider and answer, and honours the quote.
Trusted(t) == Provider(t) \notin Untrusted

\* Fail over to the next candidate, or raise NoProviderAvailable after the last.
NextCandidate(t) ==
    IF cand[t] < Len(Candidates[t])
    THEN /\ cand' = [cand EXCEPT ![t] = @ + 1]
         /\ pc' = [pc EXCEPT ![t] = "probe"]
         /\ UNCHANGED result
    ELSE /\ result' = [result EXCEPT ![t] = "exhausted"]
         /\ pc' = [pc EXCEPT ![t] = "done"]
         /\ UNCHANGED cand

Served(t) ==
    /\ result' = [result EXCEPT ![t] = "served"]
    /\ pc' = [pc EXCEPT ![t] = "done"]
    /\ UNCHANGED cand

\* An exception that is none of httpx's ends the chat.
Raised(t) ==
    /\ result' = [result EXCEPT ![t] = "raised"]
    /\ pc' = [pc EXCEPT ![t] = "done"]
    /\ UNCHANGED cand

Goto(t, label) ==
    /\ pc' = [pc EXCEPT ![t] = label]
    /\ UNCHANGED <<cand, result>>

\* chat is called: the candidates are resolved and ranked.
Start(t) ==
    /\ pc[t] = "new"
    /\ overlap' = (overlap \/ \E u \in Chats \ {t} : pc[u] \notin {"new", "done"})
    /\ IF Candidates[t] = <<>>
       THEN /\ pc' = [pc EXCEPT ![t] = "done"]
            /\ result' = [result EXCEPT ![t] = "exhausted"]
            /\ UNCHANGED cand
       ELSE Goto(t, "probe")
    /\ UNCHANGED <<wallet, reserved, left, givenUp>>
    /\ UNCHANGED serverVars

\* The health check and the optional signed quote.
Probe(t) ==
    /\ pc[t] = "probe"
    /\ Goto(t, "post") \/ NextCandidate(t)
    /\ UNCHANGED <<wallet, reserved, left, serverVars, historyVars>>

\* _prepare_payment: vouchers where the provider takes them, without x402 as the
\* fallback of a wallet that does not suffice; and fail over if neither fits.
TakesVouchers(t) == t \in HasWallet /\ "pic" \in Schemes[Provider(t)]
PreparePayment(t) ==
    IF TakesVouchers(t) THEN Goto(t, "balance")
    ELSE IF t \in HasKey /\ "x402" \in Schemes[Provider(t)] THEN Goto(t, "pay")
    ELSE NextCandidate(t)

\* The unpaid completion request: a paid provider challenges, the answer of a
\* free one is checked, and any other outcome fails over.
Post(t) ==
    /\ pc[t] = "post"
    /\ \/ NextCandidate(t)
       \/ Provider(t) \in Paid /\ PreparePayment(t)
       \/ Provider(t) \notin Paid /\ Trusted(t) /\ Served(t)
    /\ UNCHANGED <<wallet, reserved, left, serverVars, historyVars>>

\* Wallet.select: InvalidOperation if the price is no decimal, InsufficientFunds
\* unless the balance covers it.  Only the second is a reason to fail over.
Covered(t) == Value(wallet) >= Price[Provider(t)]

Balance(t) ==
    /\ pc[t] = "balance"
    /\ \/ Provider(t) \in Malformed /\ Raised(t)
       \/ Provider(t) \notin Malformed /\ ~Covered(t) /\ NextCandidate(t)
       \/ Provider(t) \notin Malformed /\ Covered(t) /\ Goto(t, "pick")
    /\ UNCHANGED <<wallet, reserved, left, serverVars, historyVars>>

\* Mutant: one voucher is picked, whatever it is worth.
PickOne(price) == SubSeq(wallet, 1, 1)

\* The greedy pick: vouchers in wallet order until the price is reached.
Reaching(price) == {n \in 0..Len(wallet) : Value(SubSeq(wallet, 1, n)) >= price}
Greedy(price) ==
    SubSeq(wallet, 1, IF Reaching(price) = {} THEN Len(wallet) ELSE Min(Reaching(price)))

Pick(t) ==
    /\ pc[t] = "pick"
    /\ reserved' = [reserved EXCEPT ![t] = Greedy(Price[Provider(t)])]
    /\ Goto(t, "filter")
    /\ UNCHANGED <<wallet, left, serverVars, historyVars>>

\* [v for v in self._vouchers if id(v) not in picked_ids]
Unpicked(vouchers, picked) ==
    LET kept[i \in 0..Len(vouchers)] ==
            IF i = 0 THEN <<>>
            ELSE IF vouchers[i] \in picked THEN kept[i - 1]
            ELSE Append(kept[i - 1], vouchers[i])
    IN  kept[Len(vouchers)]

Filter(t) ==
    /\ pc[t] = "filter"
    /\ left' = [left EXCEPT ![t] = Unpicked(wallet, Range(reserved[t]))]
    /\ Goto(t, "assign")
    /\ UNCHANGED <<wallet, reserved, serverVars, historyVars>>

\* Mutant: select forgets to take the picked vouchers out of the wallet.
KeepPicked(t) == wallet

\* self._vouchers = ...
Remaining(t) == left[t]

Assign(t) ==
    /\ pc[t] = "assign"
    /\ wallet' = Remaining(t)
    /\ left' = [left EXCEPT ![t] = <<>>]
    /\ Goto(t, "pay")
    /\ UNCHANGED <<reserved, serverVars, historyVars>>

\* What the payment is made of: the vouchers picked, or one x402 payment.
Payment(t) == IF TakesVouchers(t) THEN reserved[t] ELSE << Nonce(t, cand[t]) >>

\* The paid request to the same provider.
Pay(t) ==
    /\ pc[t] = "pay"
    /\ request' = [request EXCEPT ![t][cand[t]] =
                       [state |-> "sent", batch |-> Payment(t)]]
    /\ Goto(t, "wait")
    /\ UNCHANGED <<wallet, reserved, left, consumed, credited, historyVars>>

-----------------------------------------------------------------------------
\* An x402 payment is made out for the price; vouchers are worth what they are.
IsX402(batch) == batch # <<>> /\ Range(batch) \subseteq Nonces
Worth(p, batch) == IF IsX402(batch) THEN Price[p] ELSE Value(batch)
Suffices(p, batch) == batch # <<>> /\ Worth(p, batch) >= Price[p]

\* _validate_voucher passes each voucher and none is there twice, or the x402
\* payment verifies, whose amount is the text of the challenge.
Valid(p, batch) ==
    IF IsX402(batch) THEN p \notin Malformed
    ELSE IsInjective(batch) /\ Range(batch) \subseteq Accepts[p]

\* redeem_payment accepts the batch, as long as nothing of it is too old.
Redeemable(p, batch) ==
    /\ Suffices(p, batch)
    /\ Valid(p, batch)
    /\ Range(batch) \cap consumed[GuardOf[p]] = {}

\* An x402 payment has a time of its own, a voucher may have an expiry.
MayBeLate(batch) == IsX402(batch) \/ Range(batch) \cap Expiring # {}

\* The provider handles the paid request, whether or not the client waits.
\* 502 stands for every failure before the redemption (the runtime's, a rate
\* limit), 500 for a failure after it.
Handle(t, i) ==
    LET server == Candidates[t][i]
        batch == request[t][i].batch
        answer(s) == request' = [request EXCEPT ![t][i].state = s]
        redeem == /\ consumed' = [consumed EXCEPT ![GuardOf[server]] = @ \cup Range(batch)]
                  /\ credited' = credited \cup {<<t, i, v>> : v \in Range(batch)}
    IN
    /\ request[t][i].state = "sent"
    /\ \/ Redeemable(server, batch) /\ redeem /\ answer("200")
       \/ Redeemable(server, batch) /\ redeem /\ answer("500")
       \/ (MayBeLate(batch) \/ ~Redeemable(server, batch)) /\ answer("402") /\ UNCHANGED <<consumed, credited>>
       \/ answer("502") /\ UNCHANGED <<consumed, credited>>
    /\ UNCHANGED <<wallet, pc, cand, reserved, left, result, historyVars>>

-----------------------------------------------------------------------------
\* Mutant: a failed payment is not returned.
DropReserved(t) == wallet

\* wallet.add(*reserved)
Refilled(t) == wallet \o reserved[t]

GiveBack(t) ==
    /\ wallet' = Refilled(t)
    /\ reserved' = [reserved EXCEPT ![t] = <<>>]
    /\ NextCandidate(t)

\* Mutant: the trust check is inverted.
ReceiveInverted(t) ==
    /\ pc[t] = "wait"
    /\ request[t][cand[t]].state \notin {"none", "sent"}
    /\ IF request[t][cand[t]].state = "200" /\ ~Trusted(t)
       THEN Served(t) /\ UNCHANGED <<wallet, reserved>>
       ELSE GiveBack(t)
    /\ UNCHANGED <<left, serverVars, historyVars>>

\* The answer to the paid request arrives: a trusted 200 is returned, anything
\* else gives the vouchers back and fails over.
Receive(t) ==
    /\ pc[t] = "wait"
    /\ request[t][cand[t]].state \notin {"none", "sent"}
    /\ IF request[t][cand[t]].state = "200" /\ Trusted(t)
       THEN Served(t) /\ UNCHANGED <<wallet, reserved>>
       ELSE GiveBack(t)
    /\ UNCHANGED <<left, serverVars, historyVars>>

\* A timeout or a transport error: the provider may have got the request or not,
\* and may yet process it.
TransportError(t) ==
    /\ pc[t] = "wait"
    /\ GiveBack(t)
    /\ givenUp' = givenUp \cup {<<t, cand[t]>>}
    /\ UNCHANGED <<left, serverVars, overlap>>

Select(t) == Balance(t) \/ Pick(t) \/ Filter(t) \/ Assign(t)

ClientStep(t) ==
    \/ Start(t) \/ Probe(t) \/ Post(t) \/ Select(t) \/ Pay(t)
    \/ Receive(t) \/ TransportError(t)

Next ==
    \/ \E t \in Chats : ClientStep(t)
    \/ \E t \in Chats : \E i \in Index(t) : Handle(t, i)

Spec == Init /\ [][Next]_vars

\* The thread of a chat runs, and httpx gives up on a provider that is silent.
FairSpec == Spec /\ \A t \in Chats : WF_vars(ClientStep(t))

-----------------------------------------------------------------------------
\* "return them to the wallet so they are not lost": every voucher is in the
\* wallet, reserved for a payment under way, or paid for an answer received.
NothingLost ==
    \A v \in Range(FirstWallet) :
        v \in Range(wallet) \/ \E t \in Chats : v \in Range(reserved[t])

\* "chosen vouchers are removed from the wallet": once select has returned, a
\* voucher in flight is neither in the wallet nor in flight elsewhere, and the
\* wallet holds no voucher twice.
InFlight(t) == IF pc[t] \in {"pay", "wait"} THEN Range(reserved[t]) ELSE {}

OnePlace ==
    /\ IsInjective(wallet)
    /\ \A t \in Chats : InFlight(t) \cap Range(wallet) = {}
    /\ \A t, u \in Chats : t # u => InFlight(t) \cap InFlight(u) = {}

\* Chats that run one after another neither lose nor duplicate a voucher,
\* whatever fails, times out or is answered too late.
WalletConserved == ~overlap => NothingLost /\ OnePlace

\* A request that charges without serving: the client gave up on it, the gateway
\* failed after the redemption, or its receipt does not verify.
Miscarried(t, i) ==
    \/ <<t, i>> \in givenUp
    \/ request[t][i].state = "500"
    \/ request[t][i].state = "200" /\ Candidates[t][i] \in Untrusted

\* A provider has a spent set of its own, so that the client must keep a voucher
\* from a second one: for chats in sequence, two requests redeem one voucher only
\* if one of them miscarried.
RedeemedOnce ==
    ~overlap =>
        \A x, y \in credited :
            x[3] = y[3] /\ x[3] \in Vouchers /\ ~Miscarried(x[1], x[2]) /\ ~Miscarried(y[1], y[2])
            => x[1] = y[1] /\ x[2] = y[2]

\* The client can use what it holds: for chats in sequence, a voucher in the
\* wallet has been redeemed only by a request that miscarried.
WalletIsUnspent ==
    ~overlap => \A x \in credited : x[3] \in Range(wallet) => Miscarried(x[1], x[2])

\* A chat none of whose requests miscarried is charged by at most one provider,
\* and only if it was served; this holds for chats side by side too.
ChargedOnce ==
    \A t \in Chats : (\A i \in Index(t) : ~Miscarried(t, i)) =>
        LET charges == {x[2] : x \in {y \in credited : y[1] = t}} IN
        /\ Cardinality(charges) <= 1
        /\ pc[t] = "done" /\ charges # {} => result[t] = "served"

\* The client pays what it was asked: for chats in sequence, a provider whose
\* answer the client awaits refuses vouchers that it accepts and that do not
\* expire only if a request that miscarried used them up.
Unexceptionable(p, batch) ==
    Price[p] > 0 /\ ~MayBeLate(batch) /\ Range(batch) \subseteq Accepts[p]

PaymentAccepted ==
    ~overlap =>
        \A t \in Chats : \A i \in Index(t) :
            /\ request[t][i].state = "402" /\ <<t, i>> \notin givenUp
            /\ Unexceptionable(Candidates[t][i], request[t][i].batch)
            => \E x \in credited : x[3] \in Range(request[t][i].batch) /\ Miscarried(x[1], x[2])

\* What the wallet holds at any moment of _prepare_payment, _serve and
\* _payment_failover: nothing lost, nothing twice, and nothing spent but by a
\* request that miscarried.
WalletSound == TypeOK /\ WalletConserved /\ WalletIsUnspent

\* What chat and the gateways make of a payment between them: a voucher goes to
\* one provider, a chat is charged once and for an answer, and a payment that
\* nothing is wrong with is accepted.
PaidOnce == RedeemedOnce /\ ChargedOnce /\ PaymentAccepted

\* chat returns or raises.
EveryChatEnds == \A t \in Chats : <>(pc[t] = "done")

\* "Greedily pick held unit vouchers summing to >= amount": what select returned
\* covers the price.  Chats side by side can take vouchers from each other's pick.
PickCoversPrice ==
    \A t \in Chats : pc[t] = "pay" /\ TakesVouchers(t) => Value(reserved[t]) >= Price[Provider(t)]

\* "A provider that cannot be paid [...] fails over to the next candidate".  One
\* whose price is no decimal ends the chat.
CannotBePaidFailsOver == \A t \in Chats : result[t] # "raised"
=============================================================================

------------------------------ MODULE Gateway -------------------------------
(***************************************************************************)
(* The chat_completions handler of the provider gateway.  Several worker   *)
(* processes, each with its own create_app, share one SpentSet file; a     *)
(* Ledger file belongs to one worker or to several.                        *)
(*                                                                         *)
(* The handler is an async function that awaits nothing once the body is   *)
(* parsed, so a worker runs one handler at a time to its end.  Its two     *)
(* calls of redeem_payment are the steps of Redemption: verify before the  *)
(* model is run, commit after.                                             *)
(***************************************************************************)
EXTENDS Redemption, SequencesExt

CONSTANTS Workers,
          NoWorker,        \* not a worker
          SentTo,          \* SentTo[c]: the workers c may be sent to
          Request,         \* Request[c]: the fields of the HTTP request that
                           \* the handler decides on
          PaidWorkers,     \* those with create_app(require_payment=True)
          LedgerOf,        \* LedgerOf[w]: the file of create_app(ledger=...)
          MaxOutput,       \* create_app(max_output_tokens=...)
          MaxInput,        \* create_app(max_input_chars=...)
          InRate, OutRate, \* price per 10^6 tokens, in tenths of 10^-6 units
          Limit,           \* create_app(rate_limit_per_minute=...)
          Window,          \* the 60 seconds of _RateLimiter
          Usage,           \* the input and output counts a runtime may report
          MaxCrashes       \* bound on worker crashes

RequestType == [auth : BOOLEAN, parsed : BOOLEAN, known : SUBSET Workers,
                max_tokens : Int, chars : Nat, words : Nat]

ASSUME GatewayAssumption ==
    /\ IsFiniteSet(Workers) /\ NoWorker \notin Workers
    /\ Request \in [Calls -> RequestType]
    /\ SentTo \in [Calls -> SUBSET Workers]
    /\ PaidWorkers \subseteq Workers
    /\ DOMAIN LedgerOf = Workers
    /\ {MaxOutput, MaxInput, InRate, OutRate, Limit, Window, MaxCrashes} \subseteq Nat
    /\ Usage \subseteq Nat \X Nat
    /\ \A c \in Calls : Request[c].words <= Request[c].chars

-----------------------------------------------------------------------------
\* round(value, 6), in units of 10^-6.
FormatAmount(tenths) == (tenths + 5) \div 10

PriceAmount(inputs, outputs) == FormatAmount(inputs * InRate + outputs * OutRate)

\* The price of a paid request: its words, and all the output it asks for.
Required(c) == PriceAmount(Request[c].words, Request[c].max_tokens)

\* Mutant: the quote is priced on a prompt of half the allowed size.
QuoteOfHalfPrompt(c) == PriceAmount(MaxInput \div 2, Request[c].max_tokens)

\* max_price of a quote for the same max_tokens.
QuoteMaxPrice(c) == PriceAmount(MaxInput, Request[c].max_tokens)

ASSUME PriceAssumption ==
    \A c \in Calls : Request[c].max_tokens >= 1 => Price[c] = Required(c)

-----------------------------------------------------------------------------
VARIABLES stage,    \* where the handler of each request is
          worker,   \* the worker that runs it
          status,   \* HTTP status of the answer: 0 before it, -1 if the
                    \* connection died with the worker
          receipt,  \* the receipt sent: price_amount and the token counts
          hits,     \* hits[w]: _RateLimiter._hits
          admitted, \* admitted[c]: when the limiter let c through
          mem,      \* mem[w]: Ledger._entries of the worker
          disk,     \* disk[f]: the entries in ledger file f
          unread,   \* ledger files a restarted worker failed to read (history)
          crashes

gvars == <<vars, stage, worker, status, receipt, hits, admitted, mem, disk, unread, crashes>>

httpVars == <<stage, worker, status, receipt>>
limiterVars == <<hits, admitted>>
ledgerVars == <<mem, disk, unread>>

Ledgers == Range(LedgerOf)

Stages == {"new", "verify", "serve", "commit", "respond", "done"}

\* The refusals the handler chooses to send.
Errors == {400, 401, 402, 404, 413, 429, 502}

Statuses == Errors \cup {-1, 0, 200, 500}

\* A ledger entry: the amount credited and the payment it refers to.
Entry(c) == [ref |-> c, amount |-> Price[c]]

Receipts == [price : Nat, inputs : Nat, outputs : Nat]

GTypeOK ==
    /\ TypeOK
    /\ stage \in [Calls -> Stages]
    /\ worker \in [Calls -> Workers \cup {NoWorker}]
    /\ status \in [Calls -> Statuses]
    /\ receipt \in [Calls -> Receipts]
    /\ hits \in [Workers -> Seq(0..MaxTime)]
    /\ admitted \in [Calls -> -1..MaxTime]
    /\ mem \in [Workers -> Seq([ref : Calls, amount : Nat])]
    /\ disk \in [Ledgers -> Seq([ref : Calls, amount : Nat])]
    /\ unread \in SUBSET Ledgers
    /\ crashes \in 0..MaxCrashes

GInit ==
    /\ Init
    /\ stage = [c \in Calls |-> "new"]
    /\ worker = [c \in Calls |-> NoWorker]
    /\ status = [c \in Calls |-> 0]
    /\ receipt = [c \in Calls |-> [price |-> 0, inputs |-> 0, outputs |-> 0]]
    /\ hits = [w \in Workers |-> <<>>]
    /\ admitted = [c \in Calls |-> -1]
    /\ mem = [w \in Workers |-> <<>>]
    /\ disk = [f \in Ledgers |-> <<>>]
    /\ unread = {}
    /\ crashes = 0

-----------------------------------------------------------------------------
Active(c) == stage[c] \notin {"new", "done"}

RunBy(w) == {c \in Calls : Active(c) /\ worker[c] = w}

\* The request ends with HTTP status s.
Answer(c, s) ==
    /\ stage' = [stage EXCEPT ![c] = "done"]
    /\ status' = [status EXCEPT ![c] = s]

\* Steps 1 to 4 of the handler, in its order: 0 when none of them refuses.
\* r.known are the workers that offer the model asked for.
Refusal(c, w) ==
    LET r == Request[c] IN
    IF ~r.auth THEN 401
    ELSE IF ~r.parsed \/ r.max_tokens < 1 THEN 400
    ELSE IF w \notin r.known THEN 404
    ELSE IF r.max_tokens > MaxOutput \/ r.chars > MaxInput THEN 413
    ELSE 0

\* How many entries allow() pops from the left of _hits: the leading ones, at or
\* before window_start.
Popped(log, window_start) ==
    CHOOSE n \in 0..Len(log) :
        /\ \A i \in 1..n : log[i] <= window_start
        /\ n < Len(log) => log[n + 1] > window_start

\* Mutant: a hit is forgotten one instant early.
ShortWindow(w) == SubSeq(hits[w], Popped(hits[w], now - Window + 1) + 1, Len(hits[w]))

\* _hits once the leading entries are popped.
LiveHits(w) == SubSeq(hits[w], Popped(hits[w], now - Window) + 1, Len(hits[w]))

\* Mutant: one handler of a worker may start while another is suspended.
Reentrant(w) == TRUE

\* The event loop of w is not inside a handler.
Free(w) == RunBy(w) = {}

\* The request arrives: steps 1 to 5, none of which touches shared state.
Arrive(c, w) ==
    /\ stage[c] = "new"
    /\ Free(w)
    /\ worker' = [worker EXCEPT ![c] = w]
    /\ IF Refusal(c, w) # 0
       THEN Answer(c, Refusal(c, w)) /\ UNCHANGED limiterVars
       ELSE IF Len(LiveHits(w)) >= Limit
       THEN /\ Answer(c, 429)
            /\ hits' = [hits EXCEPT ![w] = LiveHits(w)]
            /\ UNCHANGED admitted
       ELSE /\ hits' = [hits EXCEPT ![w] = Append(LiveHits(w), now)]
            /\ admitted' = [admitted EXCEPT ![c] = now]
            /\ stage' = [stage EXCEPT ![c] = IF w \in PaidWorkers THEN "verify" ELSE "serve"]
            /\ UNCHANGED status
    /\ UNCHANGED <<vars, receipt, ledgerVars, crashes>>

\* redeem_payment(commit=False).
StartVerify(c) ==
    /\ stage[c] = "verify"
    /\ pc[c] = "idle"
    /\ Begin(c, FALSE)
    /\ UNCHANGED <<httpVars, limiterVars, ledgerVars, crashes>>

Verified(c) ==
    /\ stage[c] = "verify"
    /\ pc[c] = "verified"
    /\ stage' = [stage EXCEPT ![c] = "serve"]
    /\ UNCHANGED <<vars, worker, status, receipt, limiterVars, ledgerVars, crashes>>

\* adapter.chat returns a completion.
Serve(c) ==
    /\ stage[c] = "serve"
    /\ stage' = [stage EXCEPT ![c] =
                     IF worker[c] \in PaidWorkers THEN "commit" ELSE "respond"]
    /\ UNCHANGED <<vars, worker, status, receipt, limiterVars, ledgerVars, crashes>>

\* adapter.chat raises.
RuntimeFails(c) ==
    /\ stage[c] = "serve"
    /\ Answer(c, 502)
    /\ UNCHANGED <<vars, worker, receipt, limiterVars, ledgerVars, crashes>>

\* Mutant: the second call trusts the verdict of the first and goes straight to
\* the spend loop.
CommitUnchecked(c) ==
    /\ stage[c] = "commit"
    /\ pc[c] = "verified"
    /\ pc' = [pc EXCEPT ![c] = "spend"]
    /\ UNCHANGED <<spent, now, commit, at, pos, total, ins, del>>
    /\ UNCHANGED <<httpVars, limiterVars, ledgerVars, crashes>>

\* redeem_payment(commit=True).
StartCommit(c) ==
    /\ stage[c] = "commit"
    /\ pc[c] = "verified"
    /\ Begin(c, TRUE)
    /\ UNCHANGED <<httpVars, limiterVars, ledgerVars, crashes>>

\* One database access of a redemption under way.
RedeemStep(c) ==
    /\ stage[c] \in {"verify", "commit"}
    /\ Step(c)
    /\ UNCHANGED <<httpVars, limiterVars, ledgerVars, crashes>>

\* Mutant: a refused payment is only answered before the model was run.
NoLateAnswer(c) ==
    /\ stage[c] = "verify"
    /\ pc[c] = "refused"
    /\ Answer(c, 402)
    /\ UNCHANGED <<vars, worker, receipt, limiterVars, ledgerVars, crashes>>

\* Either redemption failed: the 402 challenge.
PaymentRequired(c) ==
    /\ stage[c] \in {"verify", "commit"}
    /\ pc[c] = "refused"
    /\ Answer(c, 402)
    /\ UNCHANGED <<vars, worker, receipt, limiterVars, ledgerVars, crashes>>

\* The database access raises: FastAPI answers 500.
RedeemRaises(c) ==
    /\ stage[c] \in {"verify", "commit"}
    /\ Raise(c)
    /\ Answer(c, 500)
    /\ UNCHANGED <<worker, receipt, limiterVars, ledgerVars, crashes>>

\* Mutant: the entry is saved when the next one is.
RecordInMemory(c) ==
    /\ stage[c] = "commit"
    /\ pc[c] = "redeemed"
    /\ mem' = [mem EXCEPT ![worker[c]] = Append(@, Entry(c))]
    /\ disk' = [disk EXCEPT ![LedgerOf[worker[c]]] = mem[worker[c]]]
    /\ stage' = [stage EXCEPT ![c] = "respond"]
    /\ UNCHANGED <<vars, worker, status, receipt, limiterVars, unread, crashes>>

\* Ledger.record: append to the worker's list, then replace the file by it.
Record(c) ==
    /\ stage[c] = "commit"
    /\ pc[c] = "redeemed"
    /\ mem' = [mem EXCEPT ![worker[c]] = Append(@, Entry(c))]
    /\ disk' = [disk EXCEPT ![LedgerOf[worker[c]]] = mem'[worker[c]]]
    /\ stage' = [stage EXCEPT ![c] = "respond"]
    /\ UNCHANGED <<vars, worker, status, receipt, limiterVars, unread, crashes>>

\* _save raises: the entry is in memory only and the handler ends in a 500.
RecordRaises(c) ==
    /\ c \in Faulty
    /\ stage[c] = "commit"
    /\ pc[c] = "redeemed"
    /\ mem' = [mem EXCEPT ![worker[c]] = Append(@, Entry(c))]
    /\ Answer(c, 500)
    /\ UNCHANGED <<vars, worker, receipt, limiterVars, disk, unread, crashes>>

\* receipt_price: what was charged, or the usage of an unpaid request.
ReceiptPrice(c, inputs, outputs) ==
    IF worker[c] \in PaidWorkers THEN Price[c] ELSE PriceAmount(inputs, outputs)

\* The receipt is signed and sent, with the token counts the runtime reports:
\* nothing bounds them by the prompt or by max_tokens.
Respond(c) ==
    /\ stage[c] = "respond"
    /\ \E u \in Usage :
           receipt' = [receipt EXCEPT ![c] =
               [price |-> ReceiptPrice(c, u[1], u[2]), inputs |-> u[1], outputs |-> u[2]]]
    /\ Answer(c, 200)
    /\ UNCHANGED <<vars, worker, limiterVars, ledgerVars, crashes>>

\* Mutant: a restarted worker starts an empty ledger.
LoadNothing(w) == <<>>

\* Ledger._load of a file that _save wrote.
LoadLedger(w) == disk[LedgerOf[w]]

\* Ledger._load at a restart: a file that cannot be read or parsed is taken for
\* an empty one, which the next _save puts in its place.
Reload(w) ==
    \/ /\ mem' = [mem EXCEPT ![w] = LoadLedger(w)]
       /\ UNCHANGED unread
    \/ /\ mem' = [mem EXCEPT ![w] = <<>>]
       /\ unread' = unread \cup {LedgerOf[w]}

\* The worker dies and is started again: its handler is cut short, its limiter
\* is empty and its ledger is loaded.
Crash(w) ==
    /\ crashes < MaxCrashes
    /\ crashes' = crashes + 1
    /\ \/ /\ Free(w)
          /\ UNCHANGED <<vars, stage, status>>
       \/ \E c \in RunBy(w) \cap Faulty :
              /\ \/ Raise(c)
                 \/ pc[c] \notin {"check", "spend", "undo"} /\ UNCHANGED vars
              /\ Answer(c, -1)
    /\ hits' = [hits EXCEPT ![w] = <<>>]
    /\ Reload(w)
    /\ UNCHANGED <<worker, receipt, admitted, disk>>

Clock ==
    /\ Tick
    /\ UNCHANGED <<httpVars, limiterVars, ledgerVars, crashes>>

HandlerStep(c) ==
    \/ StartVerify(c) \/ Verified(c) \/ Serve(c) \/ RuntimeFails(c)
    \/ StartCommit(c) \/ RedeemStep(c) \/ PaymentRequired(c)
    \/ Record(c) \/ Respond(c)

GNext ==
    \/ \E c \in Calls : \E w \in SentTo[c] : Arrive(c, w)
    \/ \E c \in Calls : HandlerStep(c) \/ RedeemRaises(c) \/ RecordRaises(c)
    \/ \E w \in Workers : Crash(w)
    \/ Clock

GSpec == GInit /\ [][GNext]_gvars

\* A handler under way is run to its end by its worker.
GFairSpec == GSpec /\ \A c \in Calls : WF_gvars(HandlerStep(c))

-----------------------------------------------------------------------------
(***************************************************************************)
(* Properties.                                                             *)
(***************************************************************************)
\* The handler uses the spent table only through redeem_payment: a gateway's
\* behaviour is one of Redemption's, so its theorems hold of the gateway.
ImplementsRedemption == Spec

\* "a runtime failure must NOT consume the payment", and neither does any other
\* refusal: a request answered with an error other than 500 has left no row of
\* its own in the spent table.
RefusedIsUncharged ==
    \A c \in Calls : status[c] \in Errors => Owned(c) = {}

\* Once a response is in hand the money nearly always is too: a payment that
\* verified is refused at commit, and the model was run for nothing, only if a
\* credit expired meanwhile or a request to ANOTHER worker, which pays with one
\* of the same credits, was past its own check.
Rival(c, d) ==
    /\ worker[d] # worker[c]
    /\ KeysOf(d) \cap KeysOf(c) # {}
    /\ commit[d]

ServedIsPaid ==
    \A c \in Calls : status[c] = 402 /\ commit[c] =>
        \/ \E k \in KeysOf(c) : ~Unexpired(c, k)
        \/ \E d \in Calls : Rival(c, d)

EntriesOf(c, log) == {i \in DOMAIN log : log[i].ref = c}

\* "receipt == ledger": a paid answer is entered in the ledger file of its worker
\* at most once, at the price of its receipt, and is there through crashes of the
\* worker and failures of _save, unless a restart could not read the file.
AnsweredIsRecorded ==
    \A c \in Calls : status[c] = 200 /\ worker[c] \in PaidWorkers =>
        LET file == LedgerOf[worker[c]]
            entries == EntriesOf(c, disk[file])
        IN  /\ file \notin unread => entries # {}
            /\ Cardinality(entries) <= 1
            /\ \A i \in entries : disk[file][i].amount = receipt[c].price

\* A ledger file only grows ("Append-only record of value credited", ledger.py).
\* Two processes that write one file break it, and so does a failed load.
LedgerAppendOnly == [][\A f \in Ledgers : IsPrefix(disk[f], disk'[f])]_disk

Credited(f) == FoldFunction(LAMBDA e, sum : e.amount + sum, 0, disk[f])

\* What the ledger files credit is covered by credits that were consumed.
LedgerIsBacked ==
    MapThenSumSet(Credited, Ledgers)
        <= SumFunctionOnSet(Amount, UNION {KeysOf(c) : c \in Redeemed})

\* "max_price must be a TRUE upper bound on the eventual receipt price" (app.py).
\* It is not one of a receipt whose counts exceed what the quote assumed.
QuoteBoundsReceipt ==
    \A c \in Calls : status[c] = 200 => receipt[c].price <= QuoteMaxPrice(c)

\* "an honest receipt can never exceed the committed price": one that reports no
\* more tokens than the prompt has characters and the request asks for.
Honest(c) ==
    receipt[c].inputs <= Request[c].chars /\ receipt[c].outputs <= Request[c].max_tokens

\* What holds of it: the counts, which are the runtime's word, move the price of
\* an unpaid receipt only, and an honest one stays within the quote.
PaidOrHonestIsWithinQuote ==
    \A c \in Calls : status[c] = 200 /\ (worker[c] \in PaidWorkers \/ Honest(c)) =>
        receipt[c].price <= QuoteMaxPrice(c)

\* The books of a gateway, in one: a request served and then refused was beaten
\* to its credit, a paid answer is recorded once at the price of its receipt, and
\* what the ledgers credit was consumed (the order of redeem, record and answer
\* in chat_completions).
LedgerSound == GTypeOK /\ ServedIsPaid /\ AnsweredIsRecorded /\ LedgerIsBacked

\* No Window holds more admissions of one worker than the limit, wherever the
\* window starts.
RateLimitHolds ==
    crashes = 0 =>
        \A w \in Workers, t \in 0..MaxTime :
            Cardinality({c \in Calls : /\ worker[c] = w
                                       /\ admitted[c] \in t..(t + Window - 1)}) <= Limit

\* Every request that a worker takes up is answered, or its worker died.
EveryRequestAnswered == \A c \in Calls : Active(c) ~> status[c] # 0

-----------------------------------------------------------------------------
(***************************************************************************)
(* The invariant behind RefusedIsUncharged: how the handler's stage bounds *)
(* the phase of its redemption.  The verify call never reaches the spend   *)
(* loop, and an error answer is only given where nothing is inserted.      *)
(***************************************************************************)
StageBoundsPhase ==
    \A c \in Calls :
        /\ stage[c] = "new" => pc[c] = "idle" /\ ~commit[c]
        /\ stage[c] = "verify" =>
               pc[c] \in {"idle", "check", "verified", "refused"} /\ ~commit[c]
        /\ stage[c] = "serve" => pc[c] \in {"idle", "verified"}
        /\ stage[c] # "done" => status[c] = 0
        /\ stage[c] = "done" /\ status[c] \in Errors =>
               pc[c] \in {"idle", "verified", "refused"}

HandlerInv ==
    /\ stage \in [Calls -> Stages]
    /\ status \in [Calls -> Statuses]
    /\ StageBoundsPhase
=============================================================================

----------------------------- MODULE Redemption -----------------------------
(***************************************************************************)
(* sip_pic.redeem_payment over a SpentSet shared by several processes.     *)
(*                                                                         *)
(* A call c carries one payment: a batch of spend keys.  A pic payment is  *)
(* a list of voucher ids; an x402 payment is the one key "x402:" + nonce.  *)
(* A payment without vouchers, without a nonce or of an unknown scheme is  *)
(* the empty batch.  SQLite runs in autocommit mode, so every SELECT,      *)
(* INSERT and DELETE is one step, and steps of different calls interleave. *)
(* A caller may verify (commit=False) and then call again with commit=True *)
(* on the same payment, which is what the gateway does.                    *)
(***************************************************************************)
EXTENDS Integers, Sequences, FiniteSets, Functions

CONSTANTS Calls,      \* requests that present a payment
          Keys,       \* spend keys
          Batch,      \* Batch[c]: the keys of c's payment, in order
          Amount,     \* Amount[k]: the face value of a key
          Price,      \* Price[c]: the price asked of c
          Accepts,    \* Accepts[c]: keys whose signature, unit, issuer and
                      \* provider/request binding are right for c
          ExpiresAt,  \* ExpiresAt[k]: first instant at which k is refused
          Faulty,     \* calls whose database access may raise (a lock held
                      \* past busy_timeout) or whose process may die
          MaxTime     \* bound on the clock

ASSUME BatchAssumption == IsFiniteSet(Keys) /\ Batch \in [Calls -> Seq(Keys)]

ASSUME ValueAssumption ==
    /\ Amount \in [Keys -> Nat]
    /\ Price \in [Calls -> Nat]
    /\ Accepts \in [Calls -> SUBSET Keys]
    /\ ExpiresAt \in [Keys -> Nat]
    /\ Faulty \subseteq Calls
    /\ MaxTime \in Nat

VARIABLES spent,   \* the rows of table spent
          now,     \* wall clock
          pc,      \* where each call is
          commit,  \* the commit argument of the call under way
          at,      \* the now argument of the call under way
          pos,     \* vouchers of the batch checked so far
          total,   \* their face value
          ins,     \* Len(spent_ids): keys of the batch inserted so far
          del      \* keys of the batch deleted again by the rollback

vars == <<spent, now, pc, commit, at, pos, total, ins, del>>

PC == {"idle", "check", "verified", "spend", "undo",
       "redeemed", "refused", "raised"}

KeysOf(c) == Range(Batch[c])

\* The keys call c has inserted and not deleted again.
Owned(c) == {Batch[c][i] : i \in (del[c] + 1)..ins[c]}

Redeemed == {c \in Calls : pc[c] = "redeemed"}

TypeOK ==
    /\ spent \in SUBSET Keys
    /\ now \in 0..MaxTime
    /\ pc \in [Calls -> PC]
    /\ commit \in [Calls -> BOOLEAN]
    /\ at \in [Calls -> 0..MaxTime]
    /\ pos \in [Calls -> Nat]
    /\ total \in [Calls -> Nat]
    /\ ins \in [Calls -> Nat]
    /\ del \in [Calls -> Nat]

Init ==
    /\ spent = {}
    /\ now = 0
    /\ pc = [c \in Calls |-> "idle"]
    /\ commit = [c \in Calls |-> FALSE]
    /\ at = [c \in Calls |-> 0]
    /\ pos = [c \in Calls |-> 0]
    /\ total = [c \in Calls |-> 0]
    /\ ins = [c \in Calls |-> 0]
    /\ del = [c \in Calls |-> 0]

-----------------------------------------------------------------------------
\* Signature, unit, and for a voucher the issuer, for an x402 payment the
\* provider and request it is bound to.
Authentic(c, k) == k \in Accepts[c]

\* A voucher is refused from its expires_at on.  verify_x402_payment takes a
\* payment up to max_age_seconds old, so for a nonce ExpiresAt is the first
\* instant after that.
Unexpired(c, k) == at[c] < ExpiresAt[k]

Valid(c, k) == Authentic(c, k) /\ Unexpired(c, k)

\* A payment is rejected outright when it is empty or repeats a voucher id.
WellFormed(c) == Batch[c] # <<>> /\ IsInjective(Batch[c])

\* Mutant: total <= price is refused, not total < price.
CoversStrictly(c) == total[c] > Price[c]

\* Mutant: the vouchers are counted, not their denominations.
CoversByCount(c) == pos[c] >= 1

Covers(c) == total[c] >= Price[c]

\* Enter redeem_payment.  The second call of a verify-then-commit pair starts
\* its checks again from nothing, with a fresh reading of the clock.
Begin(c, flag) ==
    /\ pc[c] = "idle" \/ (pc[c] = "verified" /\ flag)
    /\ commit' = [commit EXCEPT ![c] = flag]
    /\ at' = [at EXCEPT ![c] = now]
    /\ pos' = [pos EXCEPT ![c] = 0]
    /\ total' = [total EXCEPT ![c] = 0]
    /\ pc' = [pc EXCEPT ![c] = IF WellFormed(c) THEN "check" ELSE "refused"]
    /\ UNCHANGED <<spent, now, ins, del>>

\* One turn of the validation loop: the voucher must be valid and unspent.
Check(c) ==
    /\ pc[c] = "check"
    /\ pos[c] < Len(Batch[c])
    /\ LET k == Batch[c][pos[c] + 1] IN
       IF Valid(c, k) /\ k \notin spent
       THEN /\ pos' = [pos EXCEPT ![c] = @ + 1]
            /\ total' = [total EXCEPT ![c] = @ + Amount[k]]
            /\ UNCHANGED pc
       ELSE /\ pc' = [pc EXCEPT ![c] = "refused"]
            /\ UNCHANGED <<pos, total>>
    /\ UNCHANGED <<spent, now, commit, at, ins, del>>

\* After the loop: insufficient, verified only, or on to the spend loop.
Tally(c) ==
    /\ pc[c] = "check"
    /\ pos[c] = Len(Batch[c])
    /\ pc' = [pc EXCEPT ![c] = IF ~Covers(c) THEN "refused"
                               ELSE IF commit[c] THEN "spend" ELSE "verified"]
    /\ UNCHANGED <<spent, now, commit, at, pos, total, ins, del>>

\* Mutant: INSERT OR IGNORE, so that a duplicate key no longer raises.
InsertOrIgnore(k) == TRUE

\* SpentSet.spend: the UNIQUE constraint lets one INSERT of a key succeed.
CanInsert(k) == k \notin spent

\* Mutant: a collision returns double_spend and forgets the rollback.
NoRollback(c) == "refused"

\* Mutant: a collision is retried until the key is free.
RetryInsert(c) == "spend"

\* A collision on the first key has nothing to roll back.
AfterCollision(c) == IF ins[c] = 0 THEN "refused" ELSE "undo"

\* One turn of the spend loop.
Spend(c) ==
    /\ pc[c] = "spend"
    /\ LET k == Batch[c][ins[c] + 1] IN
       IF CanInsert(k)
       THEN /\ spent' = spent \cup {k}
            /\ ins' = [ins EXCEPT ![c] = @ + 1]
            /\ pc' = [pc EXCEPT ![c] =
                         IF ins[c] + 1 = Len(Batch[c]) THEN "redeemed" ELSE "spend"]
       ELSE /\ pc' = [pc EXCEPT ![c] = AfterCollision(c)]
            /\ UNCHANGED <<spent, ins>>
    /\ UNCHANGED <<now, commit, at, pos, total, del>>

\* Mutant: the rollback walks the whole batch, not only spent_ids.
RollbackWholeBatch(c) == Len(Batch[c])

\* for done in spent_ids
RollbackEnd(c) == ins[c]

\* One turn of the rollback loop: SpentSet.unspend of one key.
Unspend(c) ==
    /\ pc[c] = "undo"
    /\ spent' = spent \ {Batch[c][del[c] + 1]}
    /\ del' = [del EXCEPT ![c] = @ + 1]
    /\ pc' = [pc EXCEPT ![c] = IF del[c] + 1 = RollbackEnd(c) THEN "refused" ELSE "undo"]
    /\ UNCHANGED <<now, commit, at, pos, total, ins>>

\* sqlite3.OperationalError leaves redeem_payment (spend catches IntegrityError
\* only), or the process dies: what was inserted stays inserted.
Raise(c) ==
    /\ c \in Faulty
    /\ pc[c] \in {"check", "spend", "undo"}
    /\ pc' = [pc EXCEPT ![c] = "raised"]
    /\ UNCHANGED <<spent, now, commit, at, pos, total, ins, del>>

Tick ==
    /\ now < MaxTime
    /\ now' = now + 1
    /\ UNCHANGED <<spent, pc, commit, at, pos, total, ins, del>>

Step(c) == Check(c) \/ Tally(c) \/ Spend(c) \/ Unspend(c)

Next ==
    \/ \E c \in Calls, flag \in BOOLEAN : Begin(c, flag)
    \/ \E c \in Calls : Step(c) \/ Raise(c)
    \/ Tick

Spec == Init /\ [][Next]_vars

\* A call under way is run by a live thread; nothing obliges a client to call.
FairSpec == Spec /\ \A c \in Calls : WF_vars(Step(c))

-----------------------------------------------------------------------------
\* No key pays for two calls, however their statements interleave
\* (SpentSet: "the first spend() wins").
NoDoubleSpend ==
    \A c, d \in Redeemed : c # d => KeysOf(c) \cap KeysOf(d) = {}

\* A rollback deletes what its own call inserted and nothing else: the keys of
\* a redeemed payment are in the table in every later state.
RedeemedStaysSpent == \A c \in Redeemed : KeysOf(c) \subseteq spent

\* "Either the whole batch is consumed or none of it is" (payment.py): when no
\* call is between its first INSERT and its return, the table holds exactly the
\* keys of the redeemed payments.
Quiet == \A c \in Calls : pc[c] \notin {"spend", "undo"}

AllOrNothing == Quiet => spent = UNION {KeysOf(c) : c \in Redeemed}

\* What holds of it when calls may raise or die: a quiet table holds more than
\* the redeemed payments only if a call was cut short, and then only keys which
\* that call had inserted itself.
CutShort == {c \in Calls : pc[c] = "raised"}

NothingElseLeaks ==
    Quiet => spent = (UNION {KeysOf(c) : c \in Redeemed})
                         \cup (UNION {Owned(c) : c \in CutShort})

\* Checking first and inserting later does not let payments refuse each other:
\* when those that can pay list the vouchers they share in one order (as the
\* replays of a payment do), and all calls have been answered, one was accepted.
Payable(c) ==
    /\ WellFormed(c)
    /\ KeysOf(c) \subseteq Accepts[c]
    /\ SumFunctionOnSet(Amount, KeysOf(c)) >= Price[c]

Lasting(c) == \A k \in KeysOf(c) : MaxTime < ExpiresAt[k]

Ordered ==
    \E rank \in [Keys -> 1..Cardinality(Keys)] :
        /\ IsInjective(rank)
        /\ \A c \in Calls : Payable(c) =>
               \A i, j \in DOMAIN Batch[c] : i < j => rank[Batch[c][i]] < rank[Batch[c][j]]

NoMutualRefusal ==
    /\ Ordered
    /\ \A c \in Calls : pc[c] \in {"redeemed", "refused"}
    /\ \E c \in Calls : Payable(c) /\ Lasting(c)
    => Redeemed # {}

\* redeem_payment returns: neither loop waits for another call.
EveryCallReturns ==
    \A c \in Calls : pc[c] \in {"check", "spend", "undo"}
                        ~> pc[c] \in {"verified", "redeemed", "refused", "raised"}

-----------------------------------------------------------------------------
(***************************************************************************)
(* The invariant behind NoDoubleSpend.  Each call owns the rows it has     *)
(* inserted and not deleted again; owned rows are in the table, every row  *)
(* has an owner, and no row has two.                                       *)
(***************************************************************************)
Progress ==
    \A c \in Calls :
        /\ pc[c] \in {"idle", "check", "verified"} => ins[c] = 0 /\ del[c] = 0
        /\ pc[c] = "spend" => del[c] = 0 /\ ins[c] < Len(Batch[c])
        /\ pc[c] = "undo" => del[c] < ins[c] /\ ins[c] <= Len(Batch[c])
        /\ pc[c] = "redeemed" => del[c] = 0 /\ ins[c] = Len(Batch[c])
        /\ pc[c] = "refused" => del[c] = ins[c]
        /\ pc[c] = "raised" => ins[c] <= Len(Batch[c])
        /\ pc[c] \notin {"idle", "refused"} => WellFormed(c)

OwnedIsSpent == \A c \in Calls : Owned(c) \subseteq spent

OneOwner == \A c, d \in Calls : c # d => Owned(c) \cap Owned(d) = {}

SpentIsOwned == \A k \in spent : \E c \in Calls : k \in Owned(c)

Ownership == TypeOK /\ Progress /\ OwnedIsSpent /\ OneOwner /\ SpentIsOwned

-----------------------------------------------------------------------------
\* What the place q of a call says of its payment.
Outcome(q) ==
    CASE q = "redeemed" -> "accepted"
      [] q = "undo"     -> "yielding"
      [] q = "refused"  -> "refused"
      [] q = "raised"   -> "cut short"
      [] OTHER          -> "pending"

Expired == {k \in Keys : ExpiresAt[k] <= now}

\* What is consumed is what the table holds, in every state.
Promise == INSTANCE RedemptionPromise WITH
    Payment  <- [c \in Calls |-> KeysOf(c)],
    Sound    <- {c \in Calls : Payable(c)},
    outcome  <- [c \in Calls |-> Outcome(pc[c])],
    held     <- [c \in Calls |-> Owned(c)],
    consumed <- spent,
    expired  <- Expired

\* Every statement is a step of RedemptionPromise or leaves it alone: only a
\* payment that is sound and covers the price takes rows, a refusal has a reason
\* and ends with nothing held, and a rollback gives back what is its own.
KeepsPromise == Promise!Spec
=============================================================================

---------------------------- MODULE GatewayProofs ---------------------------
(***************************************************************************)
(* Proofs about Redemption and Gateway, for any number of workers, calls,  *)
(* keys and crashes: what redeem_payment guarantees, the gateway keeps; an *)
(* error answer costs the client nothing; the rate limit, the quote and    *)
(* the ledger are kept.                                                    *)
(***************************************************************************)
EXTENDS Gateway, FiniteSetTheorems, SequenceTheorems, WellFoundedInduction, TLAPS

-----------------------------------------------------------------------------
(***************************************************************************)
(* redeem_payment, for every set of calls, keys and batches.               *)
(***************************************************************************)
\* The keys of a batch are keys, and KeysOf is what the indices select.
LEMMA BatchFacts ==
    ASSUME NEW c \in Calls
    PROVE  /\ Batch[c] \in Seq(Keys)
           /\ Len(Batch[c]) \in Nat
           /\ DOMAIN Batch[c] = 1..Len(Batch[c])
           /\ \A i \in 1..Len(Batch[c]) : Batch[c][i] \in Keys
           /\ KeysOf(c) = {Batch[c][i] : i \in 1..Len(Batch[c])}
BY BatchAssumption DEF KeysOf, Range

\* In a well-formed batch an index is determined by its key.
LEMMA BatchInjective ==
    ASSUME NEW c \in Calls, WellFormed(c),
           NEW i \in 1..Len(Batch[c]), NEW j \in 1..Len(Batch[c]),
           Batch[c][i] = Batch[c][j]
    PROVE  i = j
BY BatchFacts DEF WellFormed, IsInjective

\* An empty table has no rows to own.
LEMMA InitOwnership == Init => Ownership
<1> SUFFICES ASSUME Init PROVE Ownership
  OBVIOUS
<1>1. TypeOK
  BY ValueAssumption DEF Init, TypeOK, PC
<1>2. Progress
  BY DEF Init, Progress
<1>3. \A c \in Calls : Owned(c) = {}
  BY DEF Init, Owned
<1> QED
  BY <1>1, <1>2, <1>3 DEF Init, Ownership, OwnedIsSpent, OneOwner, SpentIsOwned

\* A step that leaves the table and the ownership counters alone keeps the
\* ownership facts.
LEMMA OwnedUnchanged ==
    ASSUME Ownership, UNCHANGED <<spent, ins, del>>
    PROVE  OwnedIsSpent' /\ OneOwner' /\ SpentIsOwned'
<1>1. \A c \in Calls : Owned(c)' = Owned(c)
  BY DEF Owned
<1> QED
  BY <1>1 DEF Ownership, OwnedIsSpent, OneOwner, SpentIsOwned

\* Entering redeem_payment touches neither table nor counters.
LEMMA BeginOwnership ==
    ASSUME Ownership, NEW c \in Calls, NEW flag \in BOOLEAN, Begin(c, flag)
    PROVE  Ownership'
<1>1. TypeOK'
  BY DEF Ownership, TypeOK, Begin, PC
<1>2. Progress'
  BY DEF Ownership, TypeOK, Progress, Begin, WellFormed
<1>3. OwnedIsSpent' /\ OneOwner' /\ SpentIsOwned'
  BY OwnedUnchanged DEF Begin
<1> QED
  BY <1>1, <1>2, <1>3 DEF Ownership

\* The validation loop only reads the table.
LEMMA CheckOwnership ==
    ASSUME Ownership, NEW c \in Calls, Check(c)
    PROVE  Ownership'
<1>0. PICK k \in Keys : k = Batch[c][pos[c] + 1]
  BY BatchFacts DEF Ownership, TypeOK, Check
<1>1. TypeOK'
  <2>1. Amount[k] \in Nat
    BY ValueAssumption
  <2>2. UNCHANGED <<spent, now, commit, at, ins, del>>
    BY DEF Check
  <2>3. \/ /\ pos' = [pos EXCEPT ![c] = @ + 1]
           /\ total' = [total EXCEPT ![c] = @ + Amount[k]]
           /\ UNCHANGED pc
        \/ /\ pc' = [pc EXCEPT ![c] = "refused"]
           /\ UNCHANGED <<pos, total>>
    BY <1>0 DEF Check
  <2> QED
    BY <2>1, <2>2, <2>3 DEF Ownership, TypeOK, PC
<1>2. Progress'
  BY DEF Ownership, TypeOK, Progress, Check, WellFormed
<1>3. OwnedIsSpent' /\ OneOwner' /\ SpentIsOwned'
  BY OwnedUnchanged DEF Check
<1> QED
  BY <1>1, <1>2, <1>3 DEF Ownership

\* The price check hands a non-empty batch to the spend loop.
LEMMA TallyOwnership ==
    ASSUME Ownership, NEW c \in Calls, Tally(c)
    PROVE  Ownership'
<1>1. TypeOK'
  BY DEF Ownership, TypeOK, Tally, PC
<1>2. Progress'
  <2>1. Len(Batch[c]) > 0
    BY BatchFacts DEF Ownership, Progress, Tally, WellFormed
  <2> QED
    BY <2>1 DEF Ownership, TypeOK, Progress, Tally, WellFormed
<1>3. OwnedIsSpent' /\ OneOwner' /\ SpentIsOwned'
  BY OwnedUnchanged DEF Tally
<1> QED
  BY <1>1, <1>2, <1>3 DEF Ownership

\* An INSERT gives its row to the call that ran it, and only if nobody had it.
LEMMA SpendOwnership ==
    ASSUME Ownership, NEW c \in Calls, Spend(c)
    PROVE  Ownership'
<1> DEFINE k == Batch[c][ins[c] + 1]
<1>0. /\ ins[c] \in Nat /\ del[c] = 0 /\ ins[c] < Len(Batch[c])
      /\ Len(Batch[c]) \in Nat /\ WellFormed(c) /\ k \in Keys
  <2>1. pc[c] = "spend"
    BY DEF Spend
  <2>2. ins[c] \in Nat /\ del[c] = 0 /\ ins[c] < Len(Batch[c]) /\ WellFormed(c)
    BY <2>1 DEF Ownership, TypeOK, Progress
  <2>3. Len(Batch[c]) \in Nat /\ k \in Keys
    BY <2>2, BatchFacts
  <2> QED
    BY <2>2, <2>3
<1>1. CASE CanInsert(k)
  <2>0. /\ spent' = spent \cup {k}
        /\ ins' = [ins EXCEPT ![c] = @ + 1]
        /\ pc' = [pc EXCEPT ![c] =
                     IF ins[c] + 1 = Len(Batch[c]) THEN "redeemed" ELSE "spend"]
        /\ UNCHANGED <<now, commit, at, pos, total, del>>
    BY <1>1 DEF Spend
  <2>1. TypeOK'
    BY <1>0, <2>0 DEF Ownership, TypeOK, PC
  <2>2. Progress'
    BY <1>0, <2>0 DEF Ownership, TypeOK, Progress, WellFormed
  <2>3. Owned(c)' = Owned(c) \cup {k}
    BY <1>0, <2>0 DEF Ownership, TypeOK, Owned
  <2>4. \A d \in Calls : d # c => Owned(d)' = Owned(d)
    BY <2>0 DEF Ownership, TypeOK, Owned
  <2>5. \A d \in Calls : k \notin Owned(d)
    BY <1>1 DEF Ownership, OwnedIsSpent, CanInsert
  <2>6. OwnedIsSpent'
    BY <2>0, <2>3, <2>4 DEF Ownership, OwnedIsSpent
  <2>7. OneOwner'
    BY <2>3, <2>4, <2>5 DEF Ownership, OneOwner
  <2>8. SpentIsOwned'
    BY <2>0, <2>3, <2>4 DEF Ownership, SpentIsOwned
  <2> QED
    BY <2>1, <2>2, <2>6, <2>7, <2>8 DEF Ownership
<1>2. CASE ~CanInsert(k)
  <2>0. /\ pc' = [pc EXCEPT ![c] = AfterCollision(c)]
        /\ UNCHANGED <<spent, now, commit, at, pos, total, ins, del>>
    BY <1>2 DEF Spend
  <2>1. TypeOK'
    BY <2>0 DEF Ownership, TypeOK, PC, AfterCollision
  <2>2. Progress'
    BY <1>0, <2>0 DEF Ownership, TypeOK, Progress, AfterCollision, WellFormed
  <2>3. OwnedIsSpent' /\ OneOwner' /\ SpentIsOwned'
    BY <2>0, OwnedUnchanged
  <2> QED
    BY <2>1, <2>2, <2>3 DEF Ownership
<1> QED
  BY <1>1, <1>2

\* A DELETE of the rollback removes a row its own call had inserted.
LEMMA UnspendOwnership ==
    ASSUME Ownership, NEW c \in Calls, Unspend(c)
    PROVE  Ownership'
<1> DEFINE k == Batch[c][del[c] + 1]
<1>0. /\ ins[c] \in Nat /\ del[c] \in Nat /\ del[c] < ins[c]
      /\ ins[c] <= Len(Batch[c]) /\ Len(Batch[c]) \in Nat
      /\ WellFormed(c) /\ k \in Keys
  BY BatchFacts DEF Ownership, TypeOK, Progress, Unspend
<1>1. TypeOK'
  BY <1>0 DEF Ownership, TypeOK, Unspend, PC
<1>2. Progress'
  BY <1>0 DEF Ownership, TypeOK, Progress, Unspend, RollbackEnd, WellFormed
<1>3. Owned(c)' = Owned(c) \ {k}
  <2>1. Owned(c)' = {Batch[c][i] : i \in (del[c] + 2)..ins[c]}
    BY <1>0 DEF Ownership, TypeOK, Owned, Unspend
  <2>2. \A i \in (del[c] + 2)..ins[c] : Batch[c][i] # k
    <3> TAKE i \in (del[c] + 2)..ins[c]
    <3> SUFFICES ASSUME Batch[c][i] = k PROVE FALSE
      OBVIOUS
    <3>1. i \in 1..Len(Batch[c]) /\ del[c] + 1 \in 1..Len(Batch[c])
      BY <1>0
    <3>2. i = del[c] + 1
      BY <1>0, <3>1, BatchInjective
    <3> QED
      BY <1>0, <3>2
  <2>3. (del[c] + 1)..ins[c] = {del[c] + 1} \cup (del[c] + 2)..ins[c]
    BY <1>0
  <2> QED
    BY <2>1, <2>2, <2>3 DEF Owned
<1>4. \A d \in Calls : d # c => Owned(d)' = Owned(d)
  BY DEF Ownership, TypeOK, Owned, Unspend
<1>5. k \in Owned(c)
  BY <1>0 DEF Owned
<1>6. \A d \in Calls : d # c => k \notin Owned(d)
  BY <1>5 DEF Ownership, OneOwner
<1>7. spent' = spent \ {k}
  BY DEF Unspend
<1>8. OwnedIsSpent'
  BY <1>3, <1>4, <1>6, <1>7 DEF Ownership, OwnedIsSpent
<1>9. OneOwner'
  BY <1>3, <1>4 DEF Ownership, OneOwner
<1>10. SpentIsOwned'
  BY <1>3, <1>4, <1>7 DEF Ownership, SpentIsOwned
<1> QED
  BY <1>1, <1>2, <1>8, <1>9, <1>10 DEF Ownership

\* A call cut short keeps what it owned.
LEMMA RaiseOwnership ==
    ASSUME Ownership, NEW c \in Calls, Raise(c)
    PROVE  Ownership'
<1>1. TypeOK'
  BY DEF Ownership, TypeOK, Raise, PC
<1>2. Progress'
  BY BatchFacts DEF Ownership, TypeOK, Progress, Raise, WellFormed
<1>3. OwnedIsSpent' /\ OneOwner' /\ SpentIsOwned'
  BY OwnedUnchanged DEF Raise
<1> QED
  BY <1>1, <1>2, <1>3 DEF Ownership

\* The clock owns nothing.
LEMMA TickOwnership == Ownership /\ Tick => Ownership'
<1> SUFFICES ASSUME Ownership, Tick PROVE Ownership'
  OBVIOUS
<1>1. TypeOK'
  BY ValueAssumption DEF Ownership, TypeOK, Tick
<1>2. Progress'
  BY DEF Ownership, Progress, Tick, WellFormed
<1>3. OwnedIsSpent' /\ OneOwner' /\ SpentIsOwned'
  BY OwnedUnchanged DEF Tick
<1> QED
  BY <1>1, <1>2, <1>3 DEF Ownership

\* The ownership invariant is inductive.
LEMMA NextOwnership == Ownership /\ [Next]_vars => Ownership'
<1> SUFFICES ASSUME Ownership, [Next]_vars PROVE Ownership'
  OBVIOUS
<1>1. ASSUME NEW c \in Calls, NEW flag \in BOOLEAN, Begin(c, flag)
      PROVE  Ownership'
  BY <1>1, BeginOwnership
<1>2. ASSUME NEW c \in Calls, Step(c) PROVE Ownership'
  BY <1>2, CheckOwnership, TallyOwnership, SpendOwnership, UnspendOwnership DEF Step
<1>3. ASSUME NEW c \in Calls, Raise(c) PROVE Ownership'
  BY <1>3, RaiseOwnership
<1>4. CASE Tick
  BY <1>4, TickOwnership
<1>5. CASE UNCHANGED vars
  <2>1. TypeOK' /\ Progress'
    BY <1>5 DEF vars, Ownership, TypeOK, Progress, WellFormed
  <2>2. OwnedIsSpent' /\ OneOwner' /\ SpentIsOwned'
    BY <1>5, OwnedUnchanged DEF vars
  <2> QED
    BY <2>1, <2>2 DEF Ownership
<1> QED
  BY <1>1, <1>2, <1>3, <1>4, <1>5 DEF Next

\* Every reachable state satisfies the ownership invariant of redeem_payment:
\* a row of the spent table has at most one owner among the calls.
THEOREM OwnershipHolds == Spec => []Ownership
BY InitOwnership, NextOwnership, PTL DEF Spec

\* Type correctness, including that only keys are ever inserted.
THEOREM TypeCorrect == Spec => []TypeOK
<1>1. Ownership => TypeOK
  BY DEF Ownership
<1> QED
  BY <1>1, OwnershipHolds, PTL

\* A redeemed call owns its whole payment.
LEMMA RedeemedOwns ==
    ASSUME Ownership, NEW c \in Redeemed
    PROVE  c \in Calls /\ Owned(c) = KeysOf(c) /\ KeysOf(c) \subseteq spent
<1>1. c \in Calls /\ del[c] = 0 /\ ins[c] = Len(Batch[c])
  BY DEF Ownership, Progress, Redeemed
<1>2. Owned(c) = KeysOf(c)
  BY <1>1, BatchFacts DEF Owned
<1> QED
  BY <1>1, <1>2 DEF Ownership, OwnedIsSpent

\* Two redeemed calls own their payments, and owners do not share.
LEMMA OwnersDisjoint == Ownership => NoDoubleSpend
BY RedeemedOwns DEF Ownership, OneOwner, NoDoubleSpend

\* Two payments accepted by redeem_payment never share a spend key, for any
\* number of processes, batches and faults.
THEOREM NoDoubleSpendHolds == Spec => []NoDoubleSpend
BY OwnersDisjoint, OwnershipHolds, PTL

\* The rollback of a losing batch never frees a key an accepted one consumed.
THEOREM RedeemedStaysSpentHolds == Spec => []RedeemedStaysSpent
<1>1. Ownership => RedeemedStaysSpent
  BY RedeemedOwns DEF RedeemedStaysSpent
<1> QED
  BY <1>1, OwnershipHolds, PTL

\* "Either the whole batch is consumed or none of it is": between calls the
\* table holds the keys of the redeemed payments and what calls cut short by an
\* exception or a crash had inserted, never a key of an answered refusal.
THEOREM NothingElseLeaksHolds == Spec => []NothingElseLeaks
<1>1. Ownership => NothingElseLeaks
  <2> SUFFICES ASSUME Ownership, Quiet
               PROVE  spent = (UNION {KeysOf(c) : c \in Redeemed})
                                \cup (UNION {Owned(c) : c \in CutShort})
    BY DEF NothingElseLeaks
  <2>1. \A c \in Calls \ (Redeemed \cup CutShort) : Owned(c) = {}
    <3> TAKE c \in Calls \ (Redeemed \cup CutShort)
    <3>1. pc[c] \in {"idle", "check", "verified", "refused"}
      BY DEF Ownership, TypeOK, PC, Quiet, Redeemed, CutShort
    <3>2. ins[c] \in Nat /\ del[c] = ins[c]
      BY <3>1 DEF Ownership, TypeOK, Progress
    <3> QED
      BY <3>2 DEF Owned
  <2>2. \A k \in spent : \/ \E c \in Redeemed : k \in KeysOf(c)
                         \/ \E c \in CutShort : k \in Owned(c)
    BY <2>1, RedeemedOwns DEF Ownership, SpentIsOwned
  <2>3. \A c \in Redeemed : KeysOf(c) \subseteq spent
    BY RedeemedOwns
  <2>4. \A c \in CutShort : Owned(c) \subseteq spent
    BY DEF Ownership, OwnedIsSpent, CutShort
  <2> QED
    BY <2>2, <2>3, <2>4
<1> QED
  BY <1>1, OwnershipHolds, PTL

-----------------------------------------------------------------------------
(***************************************************************************)
(* What a payment is worth.  Payable adds up a set of keys with a fold     *)
(* that takes them in an order of its own; the validation loop adds them   *)
(* up in the order of the batch.                                           *)
(***************************************************************************)
\* Induction on the natural numbers, for a set of them.
LEMMA NatSet ==
    ASSUME NEW T \in SUBSET Nat, 0 \in T, \A n \in T : n + 1 \in T
    PROVE  T = Nat
<1> DEFINE R == OpToRel(<, Nat)
<1>1. \A U \in SUBSET Nat : U # {} => \E x \in U : \A y \in U : ~(<<y, x>> \in R)
  BY WFMin, NatLessThanWellFounded, Zenon
<1>2. \A x, y \in Nat : y < x => <<y, x>> \in R
  BY DEF OpToRel
<1> HIDE DEF R
<1> SUFFICES ASSUME T # Nat PROVE FALSE
  OBVIOUS
<1>3. PICK x \in Nat \ T : \A y \in Nat \ T : ~(<<y, x>> \in R)
  BY <1>1
<1>4. \A y \in Nat \ T : ~(y < x)
  BY <1>2, <1>3
<1>5. x # 0 /\ x - 1 \in T
  BY <1>4
<1> QED
  BY <1>5

\* The fold behind SumFunctionOnSet: the element it takes next, the equation of
\* its sums over the subsets of S, and the function that solves it.
AnyOf(s) == CHOOSE x \in s : TRUE
IsSumOver(g, f, S) == g = [s \in SUBSET S |-> IF s = {} THEN 0 ELSE f[AnyOf(s)] + g[s \ {AnyOf(s)}]]
SumOver(f, S) == CHOOSE g : IsSumOver(g, f, S)

\* SumFunctionOnSet is that function, at the whole set.
LEMMA SumUnfold ==
    ASSUME NEW f, NEW S
    PROVE  SumFunctionOnSet(f, S) = SumOver(f, S)[S]
BY DEF SumFunctionOnSet, FoldFunctionOnSet, MapThenFoldSet, SumOver, IsSumOver, AnyOf

\* A non-empty finite set has an element to pick, and one element less without it.
LEMMA Without ==
    ASSUME NEW s, IsFiniteSet(s), NEW x \in s
    PROVE  /\ IsFiniteSet(s \ {x}) /\ Cardinality(s) \in Nat
           /\ Cardinality(s \ {x}) = Cardinality(s) - 1
           /\ Cardinality(s) > 0
<1>1. IsFiniteSet(s \ {x}) /\ Cardinality(s \ {x}) = Cardinality(s) - 1
  BY FS_RemoveElement
<1>2. Cardinality(s) \in Nat /\ Cardinality(s \ {x}) \in Nat
  BY <1>1, FS_CardinalityType
<1> QED
  BY <1>1, <1>2

\* The fold takes an element of the set.
LEMMA AnyOfIsMember == \A s : s # {} => AnyOf(s) \in s
BY DEF AnyOf

\* The fold of a finite set exists.
LEMMA SumExists ==
    ASSUME NEW f, NEW S, IsFiniteSet(S)
    PROVE  \E g : IsSumOver(g, f, S)
<1> DEFINE Upto(n) == {s \in SUBSET S : Cardinality(s) <= n}
           Sums(g, n) == g = [s \in Upto(n) |-> IF s = {} THEN 0 ELSE f[AnyOf(s)] + g[s \ {AnyOf(s)}]]
           T == {n \in Nat : \E g : Sums(g, n)}
<1>0. \A s \in SUBSET S : IsFiniteSet(s) /\ Cardinality(s) \in Nat /\ Cardinality(s) <= Cardinality(S)
  BY FS_Subset, FS_CardinalityType
<1>1. 0 \in T
  <2> DEFINE g == [s \in Upto(0) |-> 0]
  <2>1. \A s \in Upto(0) : s = {}
    BY <1>0, FS_EmptySet
  <2>2. Sums(g, 0)
    BY <2>1
  <2> QED
    BY <2>2
<1>2. ASSUME NEW n \in T PROVE n + 1 \in T
  <2>1. PICK h : Sums(h, n)
    OBVIOUS
  <2> DEFINE g == [s \in Upto(n + 1) |-> IF s = {} THEN 0 ELSE f[AnyOf(s)] + h[s \ {AnyOf(s)}]]
  <2>2. \A s \in Upto(n + 1) : s # {} => s \ {AnyOf(s)} \in Upto(n)
    BY <1>0, Without, AnyOfIsMember
  <2>3. \A s \in Upto(n) : s \in Upto(n + 1) /\ g[s] = h[s]
    <3>1. \A s \in Upto(n) : s \in Upto(n + 1)
      BY <1>0
    <3> QED
      BY <2>1, <3>1
  <2>4. Sums(g, n + 1)
    <3>1. \A s \in Upto(n + 1) : s # {} => g[s \ {AnyOf(s)}] = h[s \ {AnyOf(s)}]
      BY <2>2, <2>3
    <3> QED
      BY <3>1
  <2> HIDE DEF g, Sums
  <2> QED
    BY <2>4
<1>3. T = Nat
  <2> HIDE DEF T
  <2> QED
    BY <1>1, <1>2, NatSet DEF T
<1>4. PICK g : Sums(g, Cardinality(S))
  BY <1>0, <1>3
<1>5. Upto(Cardinality(S)) = SUBSET S
  BY <1>0
<1> QED
  BY <1>4, <1>5 DEF IsSumOver

\* Sums of natural numbers: nothing sums to 0, and any element can be taken out.
LEMMA SumFactsOf ==
    ASSUME NEW g, NEW f, NEW S, IsSumOver(g, f, S), IsFiniteSet(S), \A x \in S : f[x] \in Nat
    PROVE  /\ g[{}] = 0
           /\ \A s \in SUBSET S : g[s] \in Nat
           /\ \A s \in SUBSET S : \A x \in s : g[s] = f[x] + g[s \ {x}]
<1>1. /\ g[{}] = 0
      /\ \A s \in SUBSET S : s # {} => g[s] = f[AnyOf(s)] + g[s \ {AnyOf(s)}]
  BY DEF IsSumOver
<1>2. \A s \in SUBSET S : IsFiniteSet(s) /\ Cardinality(s) \in Nat
  BY FS_Subset, FS_CardinalityType
<1>3. \A s \in SUBSET S : Cardinality(s) = 0 => s = {}
  BY <1>2, FS_EmptySet
<1> DEFINE Good(s) == g[s] \in Nat /\ \A x \in s : g[s] = f[x] + g[s \ {x}]
           T == {n \in Nat : \A s \in SUBSET S : Cardinality(s) <= n => Good(s)}
<1>4. 0 \in T
  <2>1. Good({})
    BY <1>1
  <2>2. \A s \in SUBSET S : Cardinality(s) <= 0 => s = {}
    BY <1>2, <1>3
  <2> QED
    BY <2>1, <2>2
<1>5. ASSUME NEW n \in T PROVE n + 1 \in T
  <2> SUFFICES ASSUME NEW s \in SUBSET S, Cardinality(s) = n + 1 PROVE Good(s)
    BY <1>2
  <2>0. n \in Nat /\ \A t \in SUBSET S : Cardinality(t) <= n => Good(t)
    OBVIOUS
  <2>1. \A x \in s : s \ {x} \in SUBSET S /\ Cardinality(s \ {x}) = n
    BY <1>2, Without
  <2>2. \A x \in s : Good(s \ {x})
    BY <2>1
  <2>3. s # {}
    <3> HIDE DEF T, Good
    <3> QED
      BY <2>0, FS_EmptySet
  <2> DEFINE p == AnyOf(s)
  <2>4. p \in s /\ g[s] = f[p] + g[s \ {p}] /\ f[p] \in Nat /\ g[s \ {p}] \in Nat
    BY <1>1, <2>2, <2>3, AnyOfIsMember
  <2> HIDE DEF p
  <2>5. ASSUME NEW x \in s PROVE g[s] = f[x] + g[s \ {x}]
    <3>1. CASE x = p
      BY <2>4, <3>1
    <3>2. CASE x # p
      <4>1. x \in s \ {p} /\ p \in s \ {x} /\ (s \ {p}) \ {x} = (s \ {x}) \ {p}
        BY <2>4, <3>2
      <4>2. g[s \ {p}] = f[x] + g[(s \ {p}) \ {x}] /\ g[s \ {x}] = f[p] + g[(s \ {x}) \ {p}]
        BY <2>2, <2>4, <4>1
      <4>3. f[x] \in Nat /\ (s \ {p}) \ {x} \in SUBSET S /\ g[s \ {x}] \in Nat
        BY <2>2
      <4>4. g[(s \ {x}) \ {p}] \in Nat
        <5>1. /\ IsFiniteSet(s \ {x}) /\ Cardinality(s \ {x}) = n
              /\ (s \ {x}) \ {p} \in SUBSET S
          BY <1>2, <2>1
        <5>2. Cardinality((s \ {x}) \ {p}) = n - 1
          BY <4>1, <5>1, Without
        <5>3. n \in Nat /\ \A t \in SUBSET S : Cardinality(t) = n - 1 => g[t] \in Nat
          BY <2>0
        <5> HIDE DEF T, Good
        <5> QED
          BY <5>1, <5>2, <5>3
      <4> DEFINE r == g[(s \ {x}) \ {p}]
      <4>5. g[s \ {p}] = f[x] + r /\ g[s \ {x}] = f[p] + r /\ r \in Nat
        BY <4>1, <4>2, <4>4
      <4> HIDE DEF r
      <4> QED
        BY <2>4, <4>3, <4>5
    <3> QED
      BY <3>1, <3>2
  <2>6. g[s] \in Nat
    BY <2>4
  <2> QED
    BY <2>5, <2>6
<1>6. T = Nat
  <2> HIDE DEF T
  <2> QED
    BY <1>4, <1>5, NatSet DEF T
<1>7. \A s \in SUBSET S : Good(s)
  BY <1>2, <1>6
<1> QED
  BY <1>1, <1>7

\* The sums that SumFunctionOnSet takes.
LEMMA SumFacts ==
    ASSUME NEW f, NEW S, IsFiniteSet(S), \A x \in S : f[x] \in Nat
    PROVE  /\ IsSumOver(SumOver(f, S), f, S)
           /\ SumOver(f, S)[{}] = 0
           /\ \A s \in SUBSET S : SumOver(f, S)[s] \in Nat
           /\ \A s \in SUBSET S : \A x \in s : SumOver(f, S)[s] = f[x] + SumOver(f, S)[s \ {x}]
<1> DEFINE g == SumOver(f, S)
<1>1. IsSumOver(g, f, S)
  BY SumExists DEF SumOver
<1> HIDE DEF g
<1>2. /\ g[{}] = 0
      /\ \A s \in SUBSET S : g[s] \in Nat
      /\ \A s \in SUBSET S : \A x \in s : g[s] = f[x] + g[s \ {x}]
  BY <1>1, SumFactsOf
<1> QED
  BY <1>1, <1>2 DEF g

-----------------------------------------------------------------------------
(***************************************************************************)
(* Payments do not refuse each other.  A call that meets a spent key is    *)
(* refused or rolls back; when the payments list the keys they share in    *)
(* one order, there is always a call that goes on, or has gone through,    *)
(* and holds a key at least as high in that order.                         *)
(***************************************************************************)
\* The order of Ordered, if there is one.
IsRank(rank) ==
    /\ IsInjective(rank)
    /\ \A c \in Calls : Payable(c) =>
           \A i, j \in DOMAIN Batch[c] : i < j => rank[Batch[c][i]] < rank[Batch[c][j]]
Rank == CHOOSE rank \in [Keys -> 1..Cardinality(Keys)] : IsRank(rank)

\* The keys of c that its validation loop has passed.
Passed(c) == {Batch[c][i] : i \in 1..pos[c]}

\* The loop has found them authentic, and total is what they are worth.
TalliedOf(c) ==
    /\ pos[c] <= Len(Batch[c]) /\ Passed(c) \subseteq Accepts[c]
    /\ total[c] = SumOver(Amount, KeysOf(c))[Passed(c)]
Tallied == \A c \in Calls : pc[c] = "check" => TalliedOf(c)

\* Whoever inserts, or has inserted, can pay.
SpendersPay == \A c \in Calls : pc[c] \in {"spend", "undo", "redeemed"} => Payable(c)

\* Call e goes on or has gone through, with its key Top(e).
Holding(e) == pc[e] \in {"spend", "redeemed"} /\ ins[e] > 0
Top(e) == Rank[Batch[e][ins[e]]]
HeldAbove(k) == \E e \in Calls : Holding(e) /\ Top(e) >= Rank[k]

\* As long as no call was cut short: for every call that rolls back there is one
\* holding a key no lower than the one it met, and for every call refused
\* although it could pay there is one holding a key.
BeatenByHolder ==
    Ordered /\ CutShort = {} =>
        /\ \A c \in Calls : pc[c] = "undo" =>
               ins[c] < Len(Batch[c]) /\ HeldAbove(Batch[c][ins[c] + 1])
        /\ \A c \in Calls : pc[c] = "refused" /\ Payable(c) /\ Lasting(c) =>
               \E e \in Calls : Holding(e)

ContentionInv == Ownership /\ Tallied /\ SpendersPay /\ BeatenByHolder

\* The sums of a batch.
LEMMA WorthFacts ==
    ASSUME NEW c \in Calls
    PROVE  /\ KeysOf(c) \subseteq Keys
           /\ SumOver(Amount, KeysOf(c))[{}] = 0
           /\ \A s \in SUBSET KeysOf(c) : SumOver(Amount, KeysOf(c))[s] \in Nat
           /\ \A s \in SUBSET KeysOf(c) : \A x \in s :
                  SumOver(Amount, KeysOf(c))[s] = Amount[x] + SumOver(Amount, KeysOf(c))[s \ {x}]
           /\ SumFunctionOnSet(Amount, KeysOf(c)) = SumOver(Amount, KeysOf(c))[KeysOf(c)]
<1>1. KeysOf(c) \subseteq Keys
  BY BatchFacts
<1>2. IsFiniteSet(KeysOf(c))
  BY <1>1, BatchAssumption, FS_Subset
<1>3. \A x \in KeysOf(c) : Amount[x] \in Nat
  BY <1>1, ValueAssumption
<1>4. SumFunctionOnSet(Amount, KeysOf(c)) = SumOver(Amount, KeysOf(c))[KeysOf(c)]
  BY SumUnfold
<1> DEFINE S == KeysOf(c)
<1> HIDE DEF S
<1>5. /\ SumOver(Amount, S)[{}] = 0
      /\ \A s \in SUBSET S : SumOver(Amount, S)[s] \in Nat
      /\ \A s \in SUBSET S : \A x \in s : SumOver(Amount, S)[s] = Amount[x] + SumOver(Amount, S)[s \ {x}]
  <2>1. IsFiniteSet(S) /\ \A x \in S : Amount[x] \in Nat
    BY <1>2, <1>3 DEF S
  <2> QED
    BY <2>1, SumFacts
<1> QED
  BY <1>1, <1>4, <1>5 DEF S

\* What one call has tallied depends on its own pos and total.
LEMMA TallyKept ==
    ASSUME NEW c \in Calls, TalliedOf(c), pos'[c] = pos[c], total'[c] = total[c]
    PROVE  TalliedOf(c)'
<1>1. Passed(c)' = Passed(c) /\ KeysOf(c)' = KeysOf(c)
  BY DEF Passed, KeysOf
<1> QED
  BY <1>1 DEF TalliedOf

\* The order, on the keys of a payment that can pay.
LEMMA RankFacts ==
    ASSUME Ordered
    PROVE  /\ \A k \in Keys : Rank[k] \in Nat
           /\ \A c \in Calls : Payable(c) => \A i, j \in 1..Len(Batch[c]) :
                  i < j => Rank[Batch[c][i]] < Rank[Batch[c][j]]
<1>1. \E rank \in [Keys -> 1..Cardinality(Keys)] : IsRank(rank)
  BY DEF Ordered, IsRank
<1>2. Rank \in [Keys -> 1..Cardinality(Keys)] /\ IsRank(Rank)
  BY <1>1 DEF Rank
<1>3. Cardinality(Keys) \in Nat
  BY BatchAssumption, FS_CardinalityType
<1>4. \A k \in Keys : Rank[k] \in Nat
  BY <1>2, <1>3
<1>5. ASSUME NEW c \in Calls, Payable(c), NEW i \in 1..Len(Batch[c]), NEW j \in 1..Len(Batch[c]), i < j
      PROVE  Rank[Batch[c][i]] < Rank[Batch[c][j]]
  BY <1>2, <1>5, BatchFacts DEF IsRank
<1> QED
  BY <1>4, <1>5

\* A spent key is held, or a higher one is, unless a call was cut short.
LEMMA SpentIsHeld ==
    ASSUME ContentionInv, Ordered, CutShort = {}, NEW k \in spent
    PROVE  HeldAbove(k)
<1>1. PICK d \in Calls : k \in Owned(d)
  BY DEF ContentionInv, Ownership, SpentIsOwned
<1>2. PICK i \in (del[d] + 1)..ins[d] : k = Batch[d][i]
  BY <1>1 DEF Owned
<1>3. ins[d] \in Nat /\ del[d] \in Nat /\ i \in Nat /\ 1 <= i /\ i <= ins[d] /\ del[d] < ins[d]
  <2>1. ins[d] \in Nat /\ del[d] \in Nat
    BY DEF ContentionInv, Ownership, TypeOK
  <2> QED
    BY <1>2, <2>1
<1>4. pc[d] \in {"spend", "undo", "redeemed"}
  <2>1. pc[d] \in PC /\ pc[d] # "raised"
    BY DEF ContentionInv, Ownership, TypeOK, CutShort
  <2>2. pc[d] \notin {"idle", "check", "verified", "refused"}
    BY <1>3 DEF ContentionInv, Ownership, Progress
  <2> QED
    BY <2>1, <2>2 DEF PC
<1>5. Payable(d) /\ Len(Batch[d]) \in Nat
  BY <1>4, BatchFacts DEF ContentionInv, SpendersPay
<1>6. CASE pc[d] \in {"spend", "redeemed"}
  <2>1. ins[d] <= Len(Batch[d])
    BY <1>3, <1>5, <1>6 DEF ContentionInv, Ownership, Progress
  <2>2. Rank[Batch[d][i]] <= Top(d)
    <3>1. CASE i = ins[d]
      <4>1. Batch[d][i] \in Keys
        BY <1>3, <1>5, <2>1, BatchFacts
      <4>2. Rank[Batch[d][i]] \in Nat
        BY <4>1, RankFacts
      <4> QED
        BY <3>1, <4>2 DEF Top
    <3>2. CASE i < ins[d]
      <4>1. i \in 1..Len(Batch[d]) /\ ins[d] \in 1..Len(Batch[d])
        BY <1>3, <1>5, <2>1
      <4>2. Batch[d][i] \in Keys /\ Batch[d][ins[d]] \in Keys
        BY <4>1, BatchFacts
      <4>3. /\ Rank[Batch[d][i]] \in Nat /\ Rank[Batch[d][ins[d]]] \in Nat
            /\ Rank[Batch[d][i]] < Rank[Batch[d][ins[d]]]
        BY <1>5, <3>2, <4>1, <4>2, RankFacts
      <4> QED
        BY <4>3 DEF Top
    <3> QED
      BY <1>3, <3>1, <3>2
  <2>3. Holding(d)
    BY <1>3, <1>6 DEF Holding
  <2> QED
    BY <1>2, <2>2, <2>3 DEF HeldAbove
<1>7. CASE pc[d] = "undo"
  <2>1. ins[d] < Len(Batch[d]) /\ HeldAbove(Batch[d][ins[d] + 1])
    BY <1>7 DEF ContentionInv, BeatenByHolder
  <2>2. i \in 1..Len(Batch[d]) /\ ins[d] + 1 \in 1..Len(Batch[d]) /\ i < ins[d] + 1
    BY <1>3, <1>5, <2>1
  <2>3. Batch[d][i] \in Keys /\ Batch[d][ins[d] + 1] \in Keys
    BY <2>2, BatchFacts
  <2>4. /\ Rank[k] \in Nat /\ Rank[Batch[d][ins[d] + 1]] \in Nat
        /\ Rank[k] < Rank[Batch[d][ins[d] + 1]]
    BY <1>2, <1>5, <2>2, <2>3, RankFacts
  <2>5. PICK e \in Calls : Holding(e) /\ Top(e) >= Rank[Batch[d][ins[d] + 1]]
    BY <2>1 DEF HeldAbove
  <2>6. Top(e) \in Nat
    <3>1. ins[e] \in 1..Len(Batch[e])
      BY <2>5, BatchFacts DEF Holding, ContentionInv, Ownership, TypeOK, Progress
    <3> QED
      BY <3>1, BatchFacts, RankFacts DEF Top
  <2> QED
    BY <2>4, <2>5, <2>6 DEF HeldAbove
<1> QED
  BY <1>4, <1>6, <1>7

\* A call that inserts nothing and was not holding leaves the holders alone; it
\* may be refused if somebody holds.
LEMMA HoldersStay ==
    ASSUME ContentionInv, NEW c \in Calls, NEW q \in PC, pc' = [pc EXCEPT ![c] = q], UNCHANGED ins,
           pc[c] \notin {"spend", "redeemed", "raised"},
           q = "undo" => pc[c] = "undo",
           q = "refused" /\ Payable(c) /\ Lasting(c) /\ Ordered /\ CutShort = {} =>
               \E e \in Calls : Holding(e)
    PROVE  BeatenByHolder'
<1> SUFFICES ASSUME Ordered, CutShort' = {} PROVE BeatenByHolder'
  BY DEF BeatenByHolder, Ordered, Payable, WellFormed, KeysOf
<1>1. \A d \in Calls : pc'[d] = IF d = c THEN q ELSE pc[d]
  BY DEF ContentionInv, Ownership, TypeOK
<1>2. CutShort = {}
  BY <1>1 DEF CutShort
<1>3. \A e \in Calls : Holding(e) => Holding(e)' /\ Top(e)' = Top(e)
  BY <1>1 DEF Holding, Top
<1>4. ASSUME NEW d \in Calls, pc'[d] = "undo"
      PROVE  (ins[d] < Len(Batch[d]))' /\ HeldAbove(Batch[d][ins[d] + 1])'
  <2>1. pc[d] = "undo"
    BY <1>1, <1>4
  <2>2. ins[d] < Len(Batch[d]) /\ HeldAbove(Batch[d][ins[d] + 1])
    BY <1>2, <2>1 DEF ContentionInv, BeatenByHolder
  <2>3. PICK e \in Calls : Holding(e) /\ Top(e) >= Rank[Batch[d][ins[d] + 1]]
    BY <2>2 DEF HeldAbove
  <2>4. Holding(e)' /\ Top(e)' >= Rank[Batch[d][ins[d] + 1]]'
    BY <1>3, <2>3
  <2> QED
    BY <2>2, <2>4 DEF HeldAbove
<1>5. ASSUME NEW d \in Calls, pc'[d] = "refused", Payable(d), Lasting(d)
      PROVE  \E e \in Calls : Holding(e)'
  <2>1. CASE d = c
    BY <1>1, <1>2, <1>3, <1>5, <2>1
  <2>2. CASE d # c
    BY <1>1, <1>2, <1>3, <1>5, <2>2 DEF ContentionInv, BeatenByHolder
  <2> QED
    BY <2>1, <2>2
<1> QED
  BY <1>4, <1>5 DEF BeatenByHolder, Payable, Lasting, WellFormed, KeysOf

\* Nothing has been checked or inserted at the start.
LEMMA InitContention == Init => ContentionInv
<1> SUFFICES ASSUME Init PROVE ContentionInv
  OBVIOUS
<1>1. \A c \in Calls : pc[c] = "idle"
  BY DEF Init
<1> QED
  BY <1>1, InitOwnership DEF ContentionInv, Tallied, SpendersPay, BeatenByHolder

\* Entering redeem_payment.
LEMMA BeginContention ==
    ASSUME ContentionInv, NEW c \in Calls, NEW flag \in BOOLEAN, Begin(c, flag)
    PROVE  ContentionInv'
<1> DEFINE q == IF WellFormed(c) THEN "check" ELSE "refused"
<1>0. /\ pc' = [pc EXCEPT ![c] = q] /\ pos' = [pos EXCEPT ![c] = 0] /\ total' = [total EXCEPT ![c] = 0]
      /\ UNCHANGED ins /\ pc[c] \in {"idle", "verified"} /\ q \in {"check", "refused"}
      /\ q = "refused" => ~WellFormed(c)
  BY DEF Begin
<1> HIDE DEF q
<1>1. Ownership'
  BY BeginOwnership DEF ContentionInv
<1>2. /\ \A d \in Calls : pc'[d] = IF d = c THEN q ELSE pc[d]
      /\ \A d \in Calls \ {c} : pos'[d] = pos[d] /\ total'[d] = total[d]
      /\ pos'[c] = 0 /\ total'[c] = 0
  BY <1>0 DEF ContentionInv, Ownership, TypeOK
<1>3. Tallied'
  <2>1. ASSUME NEW d \in Calls \ {c}, pc'[d] = "check"
        PROVE  TalliedOf(d)'
    BY <1>2, <2>1, TallyKept DEF ContentionInv, Tallied
  <2>2. TalliedOf(c)'
    <3>1. Passed(c)' = {} /\ KeysOf(c)' = KeysOf(c)
      BY <1>2 DEF Passed, KeysOf
    <3>2. 0 <= Len(Batch[c])
      BY BatchFacts
    <3>3. SumOver(Amount, KeysOf(c))[{}] = 0
      BY WorthFacts
    <3> QED
      BY <1>2, <3>1, <3>2, <3>3 DEF TalliedOf
  <2> QED
    BY <2>1, <2>2 DEF Tallied
<1>4. SpendersPay'
  BY <1>0, <1>2 DEF ContentionInv, SpendersPay, Payable, WellFormed, KeysOf
<1>5. BeatenByHolder'
  BY <1>0, HoldersStay DEF PC, Payable
<1> QED
  BY <1>1, <1>3, <1>4, <1>5 DEF ContentionInv

\* One turn of the validation loop: a key that is passed adds its value, and a
\* lasting payment is refused only for a key that is spent.
LEMMA CheckContention ==
    ASSUME ContentionInv, NEW c \in Calls, Check(c)
    PROVE  ContentionInv'
<1> DEFINE k == Batch[c][pos[c] + 1]
<1>0. /\ pc[c] = "check" /\ pos[c] \in Nat /\ pos[c] < Len(Batch[c]) /\ Len(Batch[c]) \in Nat
      /\ k \in KeysOf(c) /\ k \in Keys /\ WellFormed(c) /\ UNCHANGED <<at, ins>>
  BY BatchFacts DEF Check, ContentionInv, Ownership, TypeOK, Progress
<1>1. Ownership'
  BY CheckOwnership DEF ContentionInv
<1>2. \A d \in Calls : KeysOf(d)' = KeysOf(d)
  BY DEF KeysOf
<1>3. CASE Valid(c, k) /\ k \notin spent
  <2>1. /\ pos' = [pos EXCEPT ![c] = @ + 1] /\ total' = [total EXCEPT ![c] = @ + Amount[k]]
        /\ UNCHANGED pc
    BY <1>3 DEF Check
  <2>2. /\ \A d \in Calls \ {c} : pos'[d] = pos[d] /\ total'[d] = total[d]
        /\ pos'[c] = pos[c] + 1 /\ total'[c] = total[c] + Amount[k] /\ total[c] \in Nat
    BY <2>1 DEF ContentionInv, Ownership, TypeOK
  <2>3. Passed(c)' = Passed(c) \cup {k} /\ \A d \in Calls \ {c} : Passed(d)' = Passed(d)
    BY <1>0, <2>2 DEF Passed
  <2>4. k \notin Passed(c) /\ Passed(c) \subseteq KeysOf(c)
    <3>1. \A i \in 1..pos[c] : i \in 1..Len(Batch[c]) /\ pos[c] + 1 \in 1..Len(Batch[c]) /\ i # pos[c] + 1
      BY <1>0
    <3>2. \A i \in 1..pos[c] : Batch[c][i] # Batch[c][pos[c] + 1] /\ Batch[c][i] \in KeysOf(c)
      BY <1>0, <3>1, BatchInjective, BatchFacts
    <3> QED
      BY <3>2 DEF Passed
  <2>5. total'[c] = SumOver(Amount, KeysOf(c))[Passed(c) \cup {k}]
    <3> DEFINE G == SumOver(Amount, KeysOf(c))
    <3>1. total[c] = G[Passed(c)]
      BY <1>0 DEF ContentionInv, Tallied, TalliedOf
    <3>2. /\ Passed(c) \cup {k} \in SUBSET KeysOf(c) /\ k \in Passed(c) \cup {k}
          /\ (Passed(c) \cup {k}) \ {k} = Passed(c)
      BY <1>0, <2>4
    <3>3. G[Passed(c) \cup {k}] = Amount[k] + G[(Passed(c) \cup {k}) \ {k}]
      BY <3>2, WorthFacts
    <3>4. Amount[k] \in Nat
      BY <1>0, ValueAssumption
    <3> HIDE DEF G, k
    <3>5. G[Passed(c) \cup {k}] = Amount[k] + total[c]
      BY <3>1, <3>2, <3>3
    <3> QED
      BY <2>2, <3>4, <3>5 DEF G
  <2>6. k \in Accepts[c]
    BY <1>3 DEF Valid, Authentic
  <2>7. Tallied'
    <3>1. /\ pos'[c] <= Len(Batch[c]) /\ Passed(c)' \subseteq Accepts[c]
          /\ total'[c] = SumOver(Amount, KeysOf(c))[Passed(c)']
      BY <1>0, <2>2, <2>3, <2>5, <2>6 DEF ContentionInv, Tallied, TalliedOf
    <3>2. TalliedOf(c)'
      BY <1>2, <3>1 DEF TalliedOf
    <3>3. ASSUME NEW d \in Calls \ {c}, pc'[d] = "check"
          PROVE  TalliedOf(d)'
      BY <2>1, <2>2, <3>3, TallyKept DEF ContentionInv, Tallied
    <3> QED
      BY <3>2, <3>3 DEF Tallied
  <2>8. SpendersPay' /\ BeatenByHolder'
    BY <1>0, <2>1 DEF ContentionInv, SpendersPay, BeatenByHolder, HeldAbove, Holding, Top, CutShort,
                      Ordered, Payable, Lasting, WellFormed, KeysOf
  <2> QED
    BY <1>1, <2>7, <2>8 DEF ContentionInv
<1>4. CASE ~(Valid(c, k) /\ k \notin spent)
  <2>1. pc' = [pc EXCEPT ![c] = "refused"] /\ UNCHANGED <<pos, total>>
    BY <1>4 DEF Check
  <2>2. \A d \in Calls : pc'[d] = IF d = c THEN "refused" ELSE pc[d]
    BY <2>1 DEF ContentionInv, Ownership, TypeOK
  <2>3. Tallied' /\ SpendersPay'
    <3>1. ASSUME NEW d \in Calls, pc'[d] = "check"
          PROVE  TalliedOf(d)'
      BY <2>1, <2>2, <3>1, TallyKept DEF ContentionInv, Tallied
    <3>2. SpendersPay'
      BY <1>2, <2>2 DEF ContentionInv, SpendersPay, Payable, WellFormed
    <3> QED
      BY <3>1, <3>2 DEF Tallied
  <2>4. ASSUME Payable(c), Lasting(c), Ordered, CutShort = {}
        PROVE  \E e \in Calls : Holding(e)
    <3>1. Valid(c, k)
      <4>1. k \in Accepts[c]
        BY <1>0, <2>4 DEF Payable
      <4>2. at[c] \in 0..MaxTime /\ MaxTime < ExpiresAt[k] /\ ExpiresAt[k] \in Nat /\ MaxTime \in Nat
        BY <1>0, <2>4, ValueAssumption DEF Lasting, ContentionInv, Ownership, TypeOK
      <4> QED
        BY <4>1, <4>2 DEF Valid, Authentic, Unexpired
    <3>2. k \in spent
      BY <1>4, <3>1
    <3> HIDE DEF k
    <3> QED
      BY <2>4, <3>2, SpentIsHeld DEF HeldAbove
  <2>5. BeatenByHolder'
    BY <1>0, <2>1, <2>4, HoldersStay DEF PC
  <2> QED
    BY <1>1, <2>3, <2>5 DEF ContentionInv
<1> QED
  BY <1>3, <1>4

\* After the loop the whole batch is authentic, and total is what it is worth:
\* a payment is found to cover the price if and only if it can pay.
LEMMA TallyIsExact ==
    ASSUME ContentionInv, NEW c \in Calls, Tally(c)
    PROVE  Covers(c) <=> Payable(c)
<1>1. pc[c] = "check" /\ pos[c] = Len(Batch[c]) /\ WellFormed(c)
  BY DEF Tally, ContentionInv, Ownership, Progress
<1>2. Passed(c) = KeysOf(c)
  BY <1>1, BatchFacts DEF Passed
<1>3. KeysOf(c) \subseteq Accepts[c] /\ total[c] = SumFunctionOnSet(Amount, KeysOf(c))
  BY <1>1, <1>2, WorthFacts DEF ContentionInv, Tallied, TalliedOf
<1> QED
  BY <1>1, <1>3 DEF Covers, Payable

\* The payment is accepted, or refused for what it is worth.
LEMMA TallyContention ==
    ASSUME ContentionInv, NEW c \in Calls, Tally(c)
    PROVE  ContentionInv'
<1> DEFINE q == IF ~Covers(c) THEN "refused" ELSE IF commit[c] THEN "spend" ELSE "verified"
<1>0. /\ pc[c] = "check" /\ pos[c] = Len(Batch[c]) /\ WellFormed(c) /\ pc' = [pc EXCEPT ![c] = q]
      /\ UNCHANGED <<pos, total, ins>>
      /\ q \in {"refused", "spend", "verified"} /\ (q = "refused" <=> ~Covers(c))
  BY DEF Tally, ContentionInv, Ownership, Progress
<1> HIDE DEF q
<1>1. Ownership'
  BY TallyOwnership DEF ContentionInv
<1>2. \A d \in Calls : pc'[d] = IF d = c THEN q ELSE pc[d]
  BY <1>0 DEF ContentionInv, Ownership, TypeOK
<1>3. \A d \in Calls : KeysOf(d)' = KeysOf(d)
  BY DEF KeysOf
<1>4. Covers(c) <=> Payable(c)
  BY TallyIsExact
<1>5. Tallied'
  <2>1. ASSUME NEW d \in Calls, pc'[d] = "check"
        PROVE  TalliedOf(d)'
    BY <1>0, <1>2, <2>1, TallyKept DEF ContentionInv, Tallied
  <2> QED
    BY <2>1 DEF Tallied
<1>6. SpendersPay'
  BY <1>0, <1>2, <1>3, <1>4 DEF ContentionInv, SpendersPay, Payable, WellFormed
<1>7. BeatenByHolder'
  BY <1>0, <1>4, HoldersStay DEF PC
<1> QED
  BY <1>1, <1>5, <1>6, <1>7 DEF ContentionInv

\* One turn of the spend loop.  The call that meets a spent key held only lower
\* ones, so that the holder of that key, or of a higher one, is another call.
LEMMA SpendContention ==
    ASSUME ContentionInv, NEW c \in Calls, Spend(c)
    PROVE  ContentionInv'
<1> DEFINE k == Batch[c][ins[c] + 1]
<1>0. /\ pc[c] = "spend" /\ ins[c] \in Nat /\ ins[c] < Len(Batch[c]) /\ Len(Batch[c]) \in Nat
      /\ ins[c] + 1 \in 1..Len(Batch[c]) /\ k \in Keys /\ Payable(c) /\ UNCHANGED <<pos, total>>
  <2>1. /\ pc[c] = "spend" /\ ins[c] \in Nat /\ ins[c] < Len(Batch[c]) /\ Payable(c)
        /\ UNCHANGED <<pos, total>>
    BY DEF Spend, ContentionInv, SpendersPay, Ownership, TypeOK, Progress
  <2> QED
    BY <2>1, BatchFacts
<1>1. Ownership'
  BY SpendOwnership DEF ContentionInv
<1>2. \A d \in Calls : KeysOf(d)' = KeysOf(d)
  BY DEF KeysOf
<1>3. PICK q \in {"redeemed", "spend", "undo", "refused"} : pc' = [pc EXCEPT ![c] = q]
  BY DEF Spend, AfterCollision
<1>4. \A d \in Calls : pc'[d] = IF d = c THEN q ELSE pc[d]
  BY <1>3 DEF ContentionInv, Ownership, TypeOK
<1>5. Tallied'
  <2>1. ASSUME NEW d \in Calls, pc'[d] = "check"
        PROVE  TalliedOf(d)'
    BY <1>0, <1>4, <2>1, TallyKept DEF ContentionInv, Tallied
  <2> QED
    BY <2>1 DEF Tallied
<1>6. SpendersPay'
  BY <1>0, <1>2, <1>4 DEF ContentionInv, SpendersPay, Payable, WellFormed
<1>7. BeatenByHolder'
  <2> SUFFICES ASSUME Ordered, CutShort' = {} PROVE BeatenByHolder'
    BY DEF BeatenByHolder, Ordered, Payable, WellFormed, KeysOf
  <2>1. CutShort = {}
    BY <1>0, <1>4 DEF CutShort
  <2>2. Rank[k] \in Nat /\ (ins[c] > 0 => Top(c) \in Nat /\ Top(c) < Rank[k])
    <3>1. ins[c] > 0 => ins[c] \in 1..Len(Batch[c]) /\ ins[c] < ins[c] + 1
      BY <1>0
    <3> QED
      BY <1>0, <3>1, RankFacts, BatchFacts DEF Top
  <2>3. CASE CanInsert(k)
    <3>1. ins' = [ins EXCEPT ![c] = @ + 1] /\ q \in {"redeemed", "spend"}
      BY <1>0, <1>3, <1>4, <2>3 DEF Spend
    <3>2. \A d \in Calls : ins'[d] = IF d = c THEN ins[c] + 1 ELSE ins[d]
      BY <3>1 DEF ContentionInv, Ownership, TypeOK
    <3>3. Holding(c)' /\ Top(c)' = Rank[k]
      BY <1>0, <1>4, <3>1, <3>2 DEF Holding, Top
    <3>4. \A e \in Calls \ {c} : Holding(e) => Holding(e)' /\ Top(e)' = Top(e)
      BY <1>4, <3>2 DEF Holding, Top
    <3>5. ASSUME NEW d \in Calls, pc'[d] = "undo"
          PROVE  (ins[d] < Len(Batch[d]))' /\ HeldAbove(Batch[d][ins[d] + 1])'
      <4>1. d # c /\ pc[d] = "undo" /\ ins'[d] = ins[d]
        BY <1>4, <3>1, <3>2, <3>5
      <4>2. ins[d] < Len(Batch[d]) /\ HeldAbove(Batch[d][ins[d] + 1])
        BY <2>1, <4>1 DEF ContentionInv, BeatenByHolder
      <4>3. PICK e \in Calls : Holding(e) /\ Top(e) >= Rank[Batch[d][ins[d] + 1]]
        BY <4>2 DEF HeldAbove
      <4>4. Rank[Batch[d][ins[d] + 1]] \in Nat
        <5>1. ins[d] \in Nat /\ Len(Batch[d]) \in Nat
          BY BatchFacts DEF ContentionInv, Ownership, TypeOK
        <5>2. Batch[d][ins[d] + 1] \in Keys
          BY <4>2, <5>1, BatchFacts
        <5> QED
          BY <5>2, RankFacts
      <4>5. Holding(e)' /\ Top(e)' >= Rank[Batch[d][ins[d] + 1]]
        <5>1. CASE e = c
          BY <2>2, <3>3, <4>3, <4>4, <5>1 DEF Holding
        <5>2. CASE e # c
          BY <3>4, <4>3, <5>2
        <5> QED
          BY <5>1, <5>2
      <4> QED
        BY <4>1, <4>2, <4>5 DEF HeldAbove
    <3> QED
      BY <3>3, <3>5 DEF BeatenByHolder
  <2>4. CASE ~CanInsert(k)
    <3>1. UNCHANGED ins /\ q \in {"undo", "refused"}
      <4>1. UNCHANGED ins /\ pc' = [pc EXCEPT ![c] = AfterCollision(c)]
        BY <2>4 DEF Spend
      <4>2. pc'[c] = AfterCollision(c) /\ pc'[c] = q
        BY <1>4, <4>1 DEF ContentionInv, Ownership, TypeOK
      <4> QED
        BY <4>1, <4>2 DEF AfterCollision
    <3>2. HeldAbove(k)
      <4>1. k \in spent
        BY <2>4 DEF CanInsert
      <4> HIDE DEF k
      <4> QED
        BY <2>1, <4>1, SpentIsHeld
    <3>3. PICK e \in Calls : Holding(e) /\ Top(e) >= Rank[k]
      BY <3>2 DEF HeldAbove
    <3>4. e # c
      BY <2>2, <3>3 DEF Holding
    <3>5. \A f \in Calls \ {c} : Holding(f) => Holding(f)' /\ Top(f)' = Top(f)
      BY <1>4, <3>1 DEF Holding, Top
    <3>6. Top(e) \in Nat
      <4>1. ins[e] \in 1..Len(Batch[e])
        BY <3>3, BatchFacts DEF Holding, ContentionInv, Ownership, TypeOK, Progress
      <4> QED
        BY <4>1, BatchFacts, RankFacts DEF Top
    <3>7. ASSUME NEW d \in Calls, pc'[d] = "undo"
          PROVE  (ins[d] < Len(Batch[d]))' /\ HeldAbove(Batch[d][ins[d] + 1])'
      <4>1. CASE d = c
        BY <1>0, <3>1, <3>3, <3>4, <3>5, <4>1 DEF HeldAbove
      <4>2. CASE d # c
        <5>1. ins[d] < Len(Batch[d]) /\ HeldAbove(Batch[d][ins[d] + 1])
          BY <1>4, <2>1, <3>7, <4>2 DEF ContentionInv, BeatenByHolder
        <5>2. PICK f \in Calls : Holding(f) /\ Top(f) >= Rank[Batch[d][ins[d] + 1]]
          BY <5>1 DEF HeldAbove
        <5>3. Rank[Batch[d][ins[d] + 1]] \in Nat
          <6>1. ins[d] \in Nat /\ Len(Batch[d]) \in Nat
            BY BatchFacts DEF ContentionInv, Ownership, TypeOK
          <6>2. Batch[d][ins[d] + 1] \in Keys
            BY <5>1, <6>1, BatchFacts
          <6> QED
            BY <6>2, RankFacts
        <5>4. CASE f = c
          <6>1. Top(e) >= Rank[Batch[d][ins[d] + 1]]
            BY <2>2, <3>3, <3>6, <5>2, <5>3, <5>4 DEF Holding
          <6> QED
            BY <3>1, <3>3, <3>4, <3>5, <5>1, <6>1 DEF HeldAbove
        <5>5. CASE f # c
          BY <3>1, <3>5, <5>1, <5>2, <5>5 DEF HeldAbove
        <5> QED
          BY <5>4, <5>5
      <4> QED
        BY <4>1, <4>2
    <3> QED
      BY <3>3, <3>4, <3>5, <3>7 DEF BeatenByHolder
  <2> QED
    BY <2>3, <2>4
<1> QED
  BY <1>1, <1>5, <1>6, <1>7 DEF ContentionInv

\* One turn of the rollback loop: the key that was met is still held.
LEMMA UnspendContention ==
    ASSUME ContentionInv, NEW c \in Calls, Unspend(c)
    PROVE  ContentionInv'
<1>0. /\ pc[c] = "undo" /\ UNCHANGED <<pos, total, ins>>
      /\ \E q \in {"refused", "undo"} : pc' = [pc EXCEPT ![c] = q]
  BY DEF Unspend
<1>1. PICK q \in {"refused", "undo"} : pc' = [pc EXCEPT ![c] = q]
  BY <1>0
<1>2. Ownership'
  BY UnspendOwnership DEF ContentionInv
<1>3. \A d \in Calls : KeysOf(d)' = KeysOf(d)
  BY DEF KeysOf
<1>4. \A d \in Calls : pc'[d] = IF d = c THEN q ELSE pc[d]
  BY <1>1 DEF ContentionInv, Ownership, TypeOK
<1>5. Tallied'
  <2>1. ASSUME NEW d \in Calls, pc'[d] = "check"
        PROVE  TalliedOf(d)'
    BY <1>0, <1>4, <2>1, TallyKept DEF ContentionInv, Tallied
  <2> QED
    BY <2>1 DEF Tallied
<1>6. SpendersPay'
  BY <1>0, <1>3, <1>4 DEF ContentionInv, SpendersPay, Payable, WellFormed
<1>7. Ordered /\ CutShort = {} => \E e \in Calls : Holding(e)
  BY <1>0 DEF ContentionInv, BeatenByHolder, HeldAbove
<1>8. BeatenByHolder'
  BY <1>0, <1>1, <1>7, HoldersStay DEF PC
<1> QED
  BY <1>2, <1>5, <1>6, <1>8 DEF ContentionInv

\* A call is cut short.
LEMMA RaiseContention ==
    ASSUME ContentionInv, NEW c \in Calls, Raise(c)
    PROVE  ContentionInv'
<1>1. /\ \A d \in Calls : pc'[d] = IF d = c THEN "raised" ELSE pc[d]
      /\ UNCHANGED <<pos, total>>
  BY DEF Raise, ContentionInv, Ownership, TypeOK
<1>2. CutShort' # {}
  BY <1>1 DEF CutShort
<1>3. Ownership' /\ BeatenByHolder'
  BY <1>2, RaiseOwnership DEF ContentionInv, BeatenByHolder
<1>4. \A d \in Calls : KeysOf(d)' = KeysOf(d)
  BY DEF KeysOf
<1>5. ASSUME NEW d \in Calls, pc'[d] = "check"
      PROVE  TalliedOf(d)'
  BY <1>1, <1>5, TallyKept DEF ContentionInv, Tallied
<1>6. SpendersPay'
  BY <1>1, <1>4 DEF ContentionInv, SpendersPay, Payable, WellFormed
<1> QED
  BY <1>3, <1>5, <1>6 DEF ContentionInv, Tallied

\* Every step keeps the invariant.
LEMMA NextContention == ContentionInv /\ [Next]_vars => ContentionInv'
<1> SUFFICES ASSUME ContentionInv, [Next]_vars PROVE ContentionInv'
  OBVIOUS
<1>1. CASE Tick \/ UNCHANGED vars
  <2>1. UNCHANGED <<pc, pos, total, ins>>
    BY <1>1 DEF Tick, vars
  <2>2. Ownership'
    BY NextOwnership DEF ContentionInv
  <2>3. \A d \in Calls : KeysOf(d)' = KeysOf(d)
    BY DEF KeysOf
  <2>4. Tallied' /\ SpendersPay'
    <3>1. ASSUME NEW d \in Calls, pc'[d] = "check"
          PROVE  TalliedOf(d)'
      BY <2>1, <3>1, TallyKept DEF ContentionInv, Tallied
    <3>2. SpendersPay'
      BY <2>1, <2>3 DEF ContentionInv, SpendersPay, Payable, WellFormed
    <3> QED
      BY <3>1, <3>2 DEF Tallied
  <2>5. BeatenByHolder'
    BY <2>1, <2>3 DEF ContentionInv, BeatenByHolder, HeldAbove, Holding, Top, CutShort,
                      Ordered, Payable, Lasting, WellFormed
  <2> QED
    BY <2>2, <2>4, <2>5 DEF ContentionInv
<1>2. ASSUME NEW c \in Calls, Step(c) \/ Raise(c)
      PROVE  ContentionInv'
  BY <1>2, CheckContention, TallyContention, SpendContention, UnspendContention, RaiseContention DEF Step
<1> QED
  BY <1>1, <1>2, BeginContention DEF Next

\* What the validation loop has added up, and who holds what, in every state.
THEOREM ContentionInvHolds == Spec => []ContentionInv
BY InitContention, NextContention, PTL DEF Spec

\* Checking first and inserting later does not let payments refuse each other:
\* when those that can pay list the credits they share in one order, and all
\* calls have been answered, one was accepted, for any number of processes.
THEOREM NoMutualRefusalHolds == Spec => []NoMutualRefusal
<1>1. ContentionInv => NoMutualRefusal
  <2> SUFFICES ASSUME ContentionInv, Ordered,
                      \A c \in Calls : pc[c] \in {"redeemed", "refused"},
                      NEW c \in Calls, Payable(c), Lasting(c)
               PROVE  Redeemed # {}
    BY DEF NoMutualRefusal
  <2>1. CutShort = {}
    BY DEF CutShort
  <2>2. CASE pc[c] = "redeemed"
    BY <2>2 DEF Redeemed
  <2>3. CASE pc[c] = "refused"
    <3>1. PICK e \in Calls : Holding(e)
      BY <2>1, <2>3 DEF ContentionInv, BeatenByHolder
    <3> QED
      BY <3>1 DEF Holding, Redeemed
  <2> QED
    BY <2>2, <2>3
<1> QED
  BY <1>1, ContentionInvHolds, PTL

-----------------------------------------------------------------------------
(***************************************************************************)
(* redeem_payment keeps the promise of RedemptionPromise, statement by     *)
(* statement: an INSERT consumes a key, a refusal has its reason in what   *)
(* the checks know (Tallied), in the clock or in the table, and a DELETE   *)
(* gives back a key of the call's own.                                     *)
(***************************************************************************)
\* A call has read the clock before now.
ClockRead == \A c \in Calls : at[c] <= now

OutcomeMap == [d \in Calls |-> Outcome(pc[d])]
HeldMap == [d \in Calls |-> Owned(d)]

\* No row is there at the start, and no call has an outcome.
LEMMA InitPromise == Init => Promise!Init /\ ClockRead
<1> SUFFICES ASSUME Init PROVE Promise!Init /\ ClockRead
  OBVIOUS
<1>1. \A c \in Calls : Outcome(pc[c]) = "pending"
  BY DEF Init, Outcome
<1>2. \A c \in Calls : Owned(c) = {}
  BY DEF Init, Owned
<1> QED
  BY <1>1, <1>2 DEF Init, Promise!Init, ClockRead, Expired

\* The clock runs on.
LEMMA NextClock == Ownership /\ ClockRead /\ [Next]_vars => ClockRead'
<1> SUFFICES ASSUME Ownership, ClockRead, [Next]_vars PROVE ClockRead'
  OBVIOUS
<1>1. now \in Nat /\ \A c \in Calls : at[c] \in Nat
  BY ValueAssumption DEF Ownership, TypeOK
<1>2. ASSUME NEW c \in Calls, NEW flag \in BOOLEAN, Begin(c, flag)
      PROVE  ClockRead'
  BY <1>1, <1>2 DEF Begin, ClockRead, Ownership, TypeOK
<1>3. CASE Tick
  BY <1>1, <1>3 DEF Tick, ClockRead
<1>4. CASE UNCHANGED <<at, now>>
  BY <1>4 DEF ClockRead
<1>5. ASSUME NEW c \in Calls, Step(c) \/ Raise(c)
      PROVE  UNCHANGED <<at, now>>
  BY <1>5 DEF Step, Check, Tally, Spend, Unspend, Raise
<1> QED
  BY <1>2, <1>3, <1>4, <1>5 DEF Next, vars

\* One call goes from one place to another.
LEMMA OutcomeStep ==
    ASSUME Ownership, NEW c \in Calls, NEW q \in PC, pc' = [pc EXCEPT ![c] = q]
    PROVE  OutcomeMap' = [OutcomeMap EXCEPT ![c] = Outcome(q)]
<1>1. \A d \in Calls : pc'[d] = IF d = c THEN q ELSE pc[d]
  BY DEF Ownership, TypeOK
<1>2. \A d \in Calls : Outcome(pc'[d]) = IF d = c THEN Outcome(q) ELSE Outcome(pc[d])
  BY <1>1
<1>3. OutcomeMap' = [d \in Calls |-> Outcome(pc'[d])]
  BY DEF OutcomeMap
<1> QED
  BY <1>2, <1>3 DEF OutcomeMap

\* Nobody's rows change where no counter does.
LEMMA HeldStays ==
    ASSUME UNCHANGED <<ins, del>>
    PROVE  HeldMap' = HeldMap
<1>1. \A d \in Calls : Owned(d)' = Owned(d)
  BY DEF Owned
<1> QED
  BY <1>1 DEF HeldMap

\* A step between places that are all pending is not seen.
LEMMA UnseenStep ==
    ASSUME Ownership, NEW c \in Calls, NEW q \in PC, pc' = [pc EXCEPT ![c] = q],
           Outcome(q) = Outcome(pc[c]), UNCHANGED <<spent, ins, del, now>>
    PROVE  UNCHANGED Promise!vars
<1>1. OutcomeMap' = OutcomeMap
  BY OutcomeStep DEF OutcomeMap
<1>2. Expired' = Expired
  BY DEF Expired
<1> QED
  BY <1>1, <1>2, HeldStays DEF Promise!vars, OutcomeMap, HeldMap

\* What a call may be refused for.
Reason(c) ==
    \/ ~Payable(c)
    \/ KeysOf(c) \cap Expired # {}
    \/ KeysOf(c) \cap (spent \ Owned(c)) # {}

LEMMA RefusedStep ==
    ASSUME Ownership, NEW c \in Calls, NEW q \in {"refused", "undo"}, pc' = [pc EXCEPT ![c] = q],
           pc[c] \in {"idle", "verified", "check", "spend"}, Reason(c),
           q = "refused" <=> Owned(c) = {}, UNCHANGED <<spent, ins, del, now>>
    PROVE  Promise!Refuse(c)
<1>1. OutcomeMap' = [OutcomeMap EXCEPT ![c] = IF Owned(c) = {} THEN "refused" ELSE "yielding"]
  BY OutcomeStep DEF PC, Outcome
<1>2. OutcomeMap[c] = "pending" /\ HeldMap[c] = Owned(c)
  BY DEF OutcomeMap, HeldMap, Outcome
<1>3. Expired' = Expired
  BY DEF Expired
<1>4. Promise!Refusable(c)
  BY DEF Reason, Promise!Refusable
<1> QED
  BY <1>1, <1>2, <1>3, <1>4, HeldStays DEF Promise!Refuse, OutcomeMap, HeldMap

\* An INSERT: the key joins the rows of the call, and the last one makes them its
\* whole batch.
LEMMA ConsumeStep ==
    ASSUME ContentionInv, NEW c \in Calls, Spend(c), CanInsert(Batch[c][ins[c] + 1])
    PROVE  Promise!Consume(c, Batch[c][ins[c] + 1]) /\ Batch[c][ins[c] + 1] \in Keys
<1> DEFINE k == Batch[c][ins[c] + 1]
           q == IF ins[c] + 1 = Len(Batch[c]) THEN "redeemed" ELSE "spend"
<1>1. /\ pc[c] = "spend" /\ Payable(c) /\ WellFormed(c) /\ ins[c] \in Nat /\ del[c] = 0
      /\ ins[c] < Len(Batch[c]) /\ Len(Batch[c]) \in Nat
  BY BatchFacts DEF Spend, ContentionInv, SpendersPay, Ownership, TypeOK, Progress
<1>2. /\ spent' = spent \cup {k} /\ k \notin spent /\ UNCHANGED <<now, del>>
      /\ ins' = [ins EXCEPT ![c] = @ + 1] /\ pc' = [pc EXCEPT ![c] = q]
  BY DEF Spend, CanInsert
<1>3. k \in KeysOf(c) /\ k \in Keys
  BY <1>1, BatchFacts
<1>4. /\ Owned(c)' = Owned(c) \cup {k}
      /\ \A d \in Calls : d # c => Owned(d)' = Owned(d)
  <2>1. \A d \in Calls : ins'[d] = IF d = c THEN ins[c] + 1 ELSE ins[d]
    BY <1>2 DEF ContentionInv, Ownership, TypeOK
  <2>2. (del[c] + 1)..(ins[c] + 1) = ((del[c] + 1)..ins[c]) \cup {ins[c] + 1}
    BY <1>1
  <2> QED
    BY <1>2, <2>1, <2>2 DEF Owned
<1>5. HeldMap' = [HeldMap EXCEPT ![c] = @ \cup {k}] /\ HeldMap'[c] = Owned(c) \cup {k}
  BY <1>4 DEF HeldMap
<1>6. (Owned(c) \cup {k} = KeysOf(c)) <=> (ins[c] + 1 = Len(Batch[c]))
  <2>1. Owned(c) = {Batch[c][i] : i \in 1..ins[c]}
    BY <1>1 DEF Owned
  <2>2. ASSUME ins[c] + 1 = Len(Batch[c])
        PROVE  Owned(c) \cup {k} = KeysOf(c)
    <3>1. 1..Len(Batch[c]) = (1..ins[c]) \cup {ins[c] + 1}
      BY <1>1, <2>2
    <3> QED
      BY <2>1, <3>1, BatchFacts
  <2>3. ASSUME ins[c] + 1 # Len(Batch[c])
        PROVE  Batch[c][Len(Batch[c])] \in KeysOf(c) /\ Batch[c][Len(Batch[c])] \notin Owned(c) \cup {k}
    <3>1. Len(Batch[c]) \in 1..Len(Batch[c]) /\ ins[c] + 1 \in 1..Len(Batch[c])
      BY <1>1
    <3>2. \A i \in 1..ins[c] : i \in 1..Len(Batch[c]) /\ i # Len(Batch[c])
      BY <1>1
    <3> QED
      BY <1>1, <2>1, <2>3, <3>1, <3>2, BatchFacts, BatchInjective
  <2> QED
    BY <2>2, <2>3
<1>7. OutcomeMap' = [OutcomeMap EXCEPT ![c] = IF HeldMap'[c] = KeysOf(c) THEN "accepted" ELSE "pending"]
  <2>1. OutcomeMap' = [OutcomeMap EXCEPT ![c] = Outcome(q)]
    BY <1>2, OutcomeStep DEF ContentionInv, PC
  <2>2. Outcome(q) = IF ins[c] + 1 = Len(Batch[c]) THEN "accepted" ELSE "pending"
    BY DEF Outcome
  <2> HIDE DEF q, k
  <2> QED
    BY <1>5, <1>6, <2>1, <2>2
<1>8. OutcomeMap[c] = "pending"
  BY <1>1 DEF OutcomeMap, Outcome
<1>9. Expired' = Expired
  BY <1>2 DEF Expired
<1> HIDE DEF k, q
<1> QED
  BY <1>1, <1>2, <1>3, <1>5, <1>7, <1>8, <1>9 DEF Promise!Consume, OutcomeMap, HeldMap, k

\* A DELETE: the first key of those the call still holds.
LEMMA GiveBackStep ==
    ASSUME ContentionInv, NEW c \in Calls, Unspend(c)
    PROVE  Promise!GiveBack(c, Batch[c][del[c] + 1]) /\ Batch[c][del[c] + 1] \in Keys
<1> DEFINE k == Batch[c][del[c] + 1]
           q == IF del[c] + 1 = ins[c] THEN "refused" ELSE "undo"
<1>1. /\ pc[c] = "undo" /\ WellFormed(c) /\ ins[c] \in Nat /\ del[c] \in Nat
      /\ del[c] < ins[c] /\ ins[c] <= Len(Batch[c]) /\ Len(Batch[c]) \in Nat
  BY BatchFacts DEF Unspend, ContentionInv, Ownership, TypeOK, Progress
<1>2. /\ spent' = spent \ {k} /\ UNCHANGED <<now, ins>>
      /\ del' = [del EXCEPT ![c] = @ + 1] /\ pc' = [pc EXCEPT ![c] = q]
  BY DEF Unspend, RollbackEnd
<1>3. k \in Keys /\ k \in Owned(c)
  <2>1. del[c] + 1 \in 1..Len(Batch[c]) /\ del[c] + 1 \in (del[c] + 1)..ins[c]
    BY <1>1
  <2> QED
    BY <2>1, BatchFacts DEF Owned
<1>4. /\ Owned(c)' = Owned(c) \ {k}
      /\ \A d \in Calls : d # c => Owned(d)' = Owned(d)
  <2>1. \A d \in Calls : del'[d] = IF d = c THEN del[c] + 1 ELSE del[d]
    BY <1>2 DEF ContentionInv, Ownership, TypeOK
  <2>2. /\ (del[c] + 1)..ins[c] = ((del[c] + 2)..ins[c]) \cup {del[c] + 1}
        /\ \A i \in (del[c] + 2)..ins[c] : i \in 1..Len(Batch[c]) /\ i # del[c] + 1
        /\ del[c] + 1 \in 1..Len(Batch[c])
    BY <1>1
  <2>3. \A i \in (del[c] + 2)..ins[c] : Batch[c][i] # k
    BY <1>1, <2>2, BatchInjective
  <2>4. Owned(c)' = {Batch[c][i] : i \in (del[c] + 2)..ins[c]}
    <3>1. (del[c] + 1) + 1 = del[c] + 2
      BY <1>1
    <3> QED
      BY <1>2, <2>1, <3>1 DEF Owned
  <2>5. Owned(c) = {Batch[c][i] : i \in (del[c] + 2)..ins[c]} \cup {k}
    BY <2>2 DEF Owned
  <2> QED
    BY <1>2, <2>1, <2>3, <2>4, <2>5 DEF Owned
<1>5. HeldMap' = [HeldMap EXCEPT ![c] = @ \ {k}] /\ HeldMap'[c] = Owned(c)' /\ HeldMap[c] = Owned(c)
  BY <1>4 DEF HeldMap
<1>6. (Owned(c)' = {}) <=> (del[c] + 1 = ins[c])
  <2>1. Owned(c)' = {Batch[c][i] : i \in (del[c] + 2)..ins[c]}
    <3>1. del'[c] = del[c] + 1 /\ (del[c] + 1) + 1 = del[c] + 2
      BY <1>1, <1>2 DEF ContentionInv, Ownership, TypeOK
    <3> QED
      BY <1>2, <3>1 DEF Owned
  <2>2. del[c] + 1 = ins[c] => (del[c] + 2)..ins[c] = {}
    BY <1>1
  <2>3. del[c] + 1 # ins[c] => ins[c] \in (del[c] + 2)..ins[c]
    BY <1>1
  <2> QED
    BY <2>1, <2>2, <2>3
<1>7. OutcomeMap' = [OutcomeMap EXCEPT ![c] = IF HeldMap'[c] = {} THEN "refused" ELSE "yielding"]
  <2>1. OutcomeMap' = [OutcomeMap EXCEPT ![c] = Outcome(q)]
    BY <1>2, OutcomeStep DEF ContentionInv, PC
  <2>2. Outcome(q) = IF del[c] + 1 = ins[c] THEN "refused" ELSE "yielding"
    BY DEF Outcome
  <2> HIDE DEF q, k
  <2> QED
    BY <1>5, <1>6, <2>1, <2>2
<1>8. OutcomeMap[c] = "yielding"
  BY <1>1 DEF OutcomeMap, Outcome
<1>9. Expired' = Expired
  BY <1>2 DEF Expired
<1> HIDE DEF k, q
<1> QED
  BY <1>2, <1>3, <1>5, <1>7, <1>8, <1>9 DEF Promise!GiveBack, OutcomeMap, HeldMap, k

\* Every statement of redeem_payment.
LEMMA NextPromise ==
    ASSUME ContentionInv, ClockRead, [Next]_vars
    PROVE  [Promise!Next]_Promise!vars
<1>0. Ownership
  BY DEF ContentionInv
<1>1. ASSUME NEW c \in Calls, NEW flag \in BOOLEAN, Begin(c, flag)
      PROVE  [Promise!Next]_Promise!vars
  <2>1. pc[c] \in {"idle", "verified"} /\ UNCHANGED <<spent, now, ins, del>>
    BY <1>1 DEF Begin
  <2>2. CASE WellFormed(c)
    <3>1. pc' = [pc EXCEPT ![c] = "check"]
      BY <1>1, <2>2 DEF Begin
    <3> QED
      BY <1>0, <2>1, <3>1, UnseenStep DEF PC, Outcome
  <2>3. CASE ~WellFormed(c)
    <3>1. pc' = [pc EXCEPT ![c] = "refused"] /\ Reason(c)
      BY <1>1, <2>3 DEF Begin, Reason, Payable
    <3>2. Owned(c) = {}
      BY <1>0, <2>1 DEF Ownership, Progress, Owned
    <3> QED
      BY <1>0, <2>1, <3>1, <3>2, RefusedStep DEF Promise!Next
  <2> QED
    BY <2>2, <2>3
<1>2. ASSUME NEW c \in Calls, Check(c)
      PROVE  [Promise!Next]_Promise!vars
  <2> DEFINE k == Batch[c][pos[c] + 1]
  <2>1. /\ pc[c] = "check" /\ UNCHANGED <<spent, now, ins, del>> /\ ins[c] = 0 /\ del[c] = 0
        /\ pos[c] \in Nat /\ pos[c] < Len(Batch[c])
    BY <1>0, <1>2 DEF Check, Ownership, Progress, TypeOK
  <2>2. CASE UNCHANGED pc
    <3>1. pc' = [pc EXCEPT ![c] = "check"]
      BY <1>0, <2>1, <2>2 DEF Ownership, TypeOK
    <3> QED
      BY <1>0, <2>1, <3>1, UnseenStep DEF PC, Outcome
  <2>3. CASE pc' = [pc EXCEPT ![c] = "refused"] /\ ~(Valid(c, k) /\ k \notin spent)
    <3>1. Owned(c) = {}
      BY <2>1 DEF Owned
    <3>2. k \in KeysOf(c) /\ k \in Keys
      BY <2>1, BatchFacts
    <3>3. k \notin Accepts[c] => Reason(c)
      BY <3>2 DEF Reason, Payable
    <3>4. k \in spent => Reason(c)
      BY <3>1, <3>2 DEF Reason
    <3>5. ASSUME ~Unexpired(c, k) PROVE Reason(c)
      <4>1. ExpiresAt[k] \in Nat /\ at[c] \in Nat /\ now \in Nat /\ at[c] <= now
        BY <1>0, <3>2, ValueAssumption DEF ClockRead, Ownership, TypeOK
      <4>2. k \in Expired
        BY <3>2, <3>5, <4>1 DEF Unexpired, Expired
      <4> QED
        BY <3>2, <4>2 DEF Reason
    <3>6. Reason(c)
      BY <2>3, <3>3, <3>4, <3>5 DEF Valid, Authentic
    <3> QED
      BY <1>0, <2>1, <2>3, <3>1, <3>6, RefusedStep DEF Promise!Next
  <2> QED
    BY <1>2, <2>2, <2>3 DEF Check
<1>3. ASSUME NEW c \in Calls, Tally(c)
      PROVE  [Promise!Next]_Promise!vars
  <2>1. pc[c] = "check" /\ UNCHANGED <<spent, now, ins, del>> /\ ins[c] = 0 /\ del[c] = 0
    BY <1>0, <1>3 DEF Tally, Ownership, Progress
  <2>2. CASE ~Covers(c)
    <3>1. pc' = [pc EXCEPT ![c] = "refused"] /\ Owned(c) = {}
      BY <1>3, <2>1, <2>2 DEF Tally, Owned
    <3>2. Reason(c)
      BY <1>3, <2>2, TallyIsExact DEF Reason
    <3> QED
      BY <1>0, <2>1, <3>1, <3>2, RefusedStep DEF Promise!Next
  <2>3. CASE Covers(c)
    <3>1. PICK q \in {"spend", "verified"} : pc' = [pc EXCEPT ![c] = q]
      BY <1>3, <2>3 DEF Tally
    <3> QED
      BY <1>0, <2>1, <3>1, UnseenStep DEF PC, Outcome
  <2> QED
    BY <2>2, <2>3
<1>4. ASSUME NEW c \in Calls, Spend(c)
      PROVE  [Promise!Next]_Promise!vars
  <2> DEFINE k == Batch[c][ins[c] + 1]
  <2>1. CASE CanInsert(k)
    BY <1>4, <2>1, ConsumeStep DEF Promise!Next
  <2>2. CASE ~CanInsert(k)
    <3>1. /\ pc[c] = "spend" /\ WellFormed(c) /\ ins[c] \in Nat /\ del[c] = 0
          /\ ins[c] < Len(Batch[c]) /\ Len(Batch[c]) \in Nat
      BY <1>0, <1>4, BatchFacts DEF Spend, Ownership, TypeOK, Progress
    <3>2. k \in spent /\ UNCHANGED <<spent, now, ins, del>> /\ pc' = [pc EXCEPT ![c] = AfterCollision(c)]
      BY <1>4, <2>2 DEF Spend, CanInsert
    <3>3. Owned(c) = {Batch[c][i] : i \in 1..ins[c]} /\ (ins[c] = 0 <=> Owned(c) = {})
      <4>1. ins[c] = 0 => 1..ins[c] = {}
        BY <3>1
      <4>2. ins[c] # 0 => 1 \in 1..ins[c]
        BY <3>1
      <4>3. Owned(c) = {Batch[c][i] : i \in 1..ins[c]}
        BY <3>1 DEF Owned
      <4>4. ins[c] # 0 => Batch[c][1] \in Owned(c)
        BY <4>2, <4>3
      <4> QED
        BY <4>1, <4>3, <4>4
    <3>4. k \in KeysOf(c) /\ k \notin Owned(c)
      <4>1. ins[c] + 1 \in 1..Len(Batch[c])
        BY <3>1
      <4>2. \A i \in 1..ins[c] : i \in 1..Len(Batch[c]) /\ i # ins[c] + 1
        BY <3>1
      <4> QED
        BY <3>1, <3>3, <4>1, <4>2, BatchFacts, BatchInjective
    <3>5. Reason(c)
      BY <3>2, <3>4 DEF Reason
    <3>6. AfterCollision(c) \in {"refused", "undo"} /\ (AfterCollision(c) = "refused" <=> Owned(c) = {})
      BY <3>3 DEF AfterCollision
    <3> QED
      BY <1>0, <3>1, <3>2, <3>5, <3>6, RefusedStep DEF Promise!Next
  <2> QED
    BY <2>1, <2>2
<1>5. ASSUME NEW c \in Calls, Unspend(c)
      PROVE  [Promise!Next]_Promise!vars
  BY <1>5, GiveBackStep DEF Promise!Next
<1>6. ASSUME NEW c \in Calls, Raise(c)
      PROVE  [Promise!Next]_Promise!vars
  <2>1. /\ c \in Faulty /\ pc[c] \in {"check", "spend", "undo"} /\ pc' = [pc EXCEPT ![c] = "raised"]
        /\ UNCHANGED <<spent, now, ins, del>>
    BY <1>6 DEF Raise
  <2>2. OutcomeMap' = [OutcomeMap EXCEPT ![c] = "cut short"]
    BY <1>0, <2>1, OutcomeStep DEF PC, Outcome
  <2>3. OutcomeMap[c] \in {"pending", "yielding"}
    BY <2>1 DEF OutcomeMap, Outcome
  <2>4. Expired' = Expired
    BY <2>1 DEF Expired
  <2>5. Promise!CutShort(c)
    BY <2>1, <2>2, <2>3, <2>4, HeldStays DEF Promise!CutShort, OutcomeMap, HeldMap
  <2> QED
    BY <2>5 DEF Promise!Next
<1>7. CASE Tick
  <2>1. now' = now + 1 /\ UNCHANGED <<spent, pc, ins, del>>
    BY <1>7 DEF Tick
  <2>2. Expired \subseteq Expired'
    <3>1. now \in Nat /\ \A k \in Keys : ExpiresAt[k] \in Nat
      BY <1>0, ValueAssumption DEF Ownership, TypeOK
    <3> QED
      BY <2>1, <3>1 DEF Expired
  <2>3. OutcomeMap' = OutcomeMap
    BY <2>1 DEF OutcomeMap
  <2> QED
    BY <2>1, <2>2, <2>3, HeldStays DEF Promise!Next, Promise!Expire, OutcomeMap, HeldMap
<1>8. CASE UNCHANGED vars
  <2>1. OutcomeMap' = OutcomeMap /\ Expired' = Expired /\ UNCHANGED <<spent, ins, del>>
    BY <1>8 DEF OutcomeMap, Expired, vars
  <2> QED
    BY <2>1, HeldStays DEF Promise!vars, OutcomeMap, HeldMap
<1> QED
  BY <1>1, <1>2, <1>3, <1>4, <1>5, <1>6, <1>7, <1>8 DEF Next, Step

\* What the table holds is, in every state, what RedemptionPromise lets be
\* consumed: by payments that cover their price, given back by those refused.
THEOREM KeepsPromiseHolds == Spec => KeepsPromise
<1>1. ContentionInv /\ ClockRead /\ [Next]_vars => [Promise!Next]_Promise!vars
  BY NextPromise
<1>2. ContentionInv /\ ClockRead /\ [Next]_vars => ClockRead'
  BY NextClock DEF ContentionInv
<1> QED
  BY <1>1, <1>2, InitPromise, ContentionInvHolds, PTL DEF Spec, KeepsPromise, Promise!Spec

-----------------------------------------------------------------------------
(***************************************************************************)
(* The gateway.                                                            *)
(***************************************************************************)
\* Every step of the handler, a crash included, is a step of redeem_payment or
\* leaves its state alone.
LEMMA GatewayStep == [GNext]_gvars => [Next]_vars
<1> SUFFICES ASSUME [GNext]_gvars PROVE [Next]_vars
  OBVIOUS
<1>1. ASSUME NEW c \in Calls, NEW w \in SentTo[c], Arrive(c, w)
      PROVE  [Next]_vars
  BY <1>1 DEF Arrive
<1>2. ASSUME NEW c \in Calls, StartVerify(c) \/ StartCommit(c)
      PROVE  [Next]_vars
  BY <1>2 DEF StartVerify, StartCommit, Next
<1>3. ASSUME NEW c \in Calls, RedeemStep(c) \/ RedeemRaises(c)
      PROVE  [Next]_vars
  BY <1>3 DEF RedeemStep, RedeemRaises, Next
<1>4. ASSUME NEW c \in Calls,
             \/ Verified(c) \/ Serve(c) \/ RuntimeFails(c) \/ PaymentRequired(c)
             \/ Record(c) \/ RecordRaises(c) \/ Respond(c)
      PROVE  [Next]_vars
  BY <1>4 DEF Verified, Serve, RuntimeFails, PaymentRequired, Record, RecordRaises, Respond
<1>5. ASSUME NEW w \in Workers, Crash(w)
      PROVE  [Next]_vars
  BY <1>5 DEF Crash, RunBy, Next
<1>6. CASE Clock
  BY <1>6 DEF Clock, Next
<1>7. CASE UNCHANGED gvars
  BY <1>7 DEF gvars
<1> QED
  BY <1>1, <1>2, <1>3, <1>4, <1>5, <1>6, <1>7 DEF GNext, HandlerStep

\* A gateway with any number of workers uses the spent table as redeem_payment
\* does, crashes included.
THEOREM GatewayImplementsRedemption == GSpec => ImplementsRedemption
<1>1. GInit => Init
  BY DEF GInit
<1> QED
  BY <1>1, GatewayStep, PTL DEF GSpec, Spec, ImplementsRedemption

\* No two requests of a gateway are charged to one credit.
THEOREM GatewayNoDoubleSpend == GSpec => []NoDoubleSpend
BY GatewayImplementsRedemption, NoDoubleSpendHolds, PTL DEF ImplementsRedemption

\* No request has been taken up at the start.
LEMMA InitHandler == GInit => HandlerInv
BY DEF GInit, Init, HandlerInv, StageBoundsPhase, Stages, Statuses, Errors

\* A step that answers one request, and leaves its redemption alone or ends it
\* by raising, keeps the invariant when the status fits the phase.
LEMMA AnswerHandler ==
    ASSUME TypeOK, HandlerInv, NEW c \in Calls, NEW s \in Statuses, s # 0,
           Answer(c, s),
           \/ UNCHANGED <<pc, commit>>
           \/ pc' = [pc EXCEPT ![c] = "raised"] /\ UNCHANGED commit,
           s \in Errors => /\ pc[c] \in {"idle", "verified", "refused"}
                           /\ UNCHANGED pc
    PROVE  HandlerInv'
BY DEF TypeOK, HandlerInv, StageBoundsPhase, Answer, Stages

\* A step that moves one request to its next stage.
LEMMA StageHandler ==
    ASSUME TypeOK, HandlerInv, NEW c \in Calls,
           NEW g \in {"verify", "serve", "commit", "respond"},
           stage' = [stage EXCEPT ![c] = g],
           stage[c] # "done",
           g = "verify" => pc[c] = "idle" /\ ~commit[c],
           g = "serve" => pc[c] \in {"idle", "verified"},
           UNCHANGED <<pc, commit, status>>
    PROVE  HandlerInv'
BY DEF TypeOK, HandlerInv, StageBoundsPhase, Stages

\* The handler invariant is inductive relative to the ownership invariant.
LEMMA NextHandler ==
    ASSUME Ownership, HandlerInv, [GNext]_gvars
    PROVE  HandlerInv'
<1> TypeOK
  BY DEF Ownership
<1>1. ASSUME NEW c \in Calls, NEW w \in SentTo[c], Arrive(c, w)
      PROVE  HandlerInv'
  <2>1. stage[c] = "new" /\ UNCHANGED <<pc, commit>>
    BY <1>1 DEF Arrive, vars
  <2>2. pc[c] = "idle" /\ ~commit[c]
    BY <2>1 DEF HandlerInv, StageBoundsPhase
  <2>3. CASE Refusal(c, w) # 0
    <3>1. Refusal(c, w) \in Errors /\ Refusal(c, w) \in Statuses
      BY <2>3 DEF Refusal, Errors, Statuses
    <3>2. Answer(c, Refusal(c, w))
      BY <1>1, <2>3 DEF Arrive
    <3> QED
      BY <2>1, <2>2, <2>3, <3>1, <3>2, AnswerHandler
  <2>4. CASE Refusal(c, w) = 0 /\ Len(LiveHits(w)) >= Limit
    <3>1. Answer(c, 429)
      BY <1>1, <2>4 DEF Arrive
    <3>2. 429 \in Statuses
      BY DEF Statuses, Errors
    <3> QED
      BY <2>1, <2>2, <3>1, <3>2, AnswerHandler
  <2>5. CASE Refusal(c, w) = 0 /\ ~(Len(LiveHits(w)) >= Limit)
    <3>1. /\ stage' = [stage EXCEPT ![c] = IF w \in PaidWorkers THEN "verify" ELSE "serve"]
          /\ UNCHANGED status
      BY <1>1, <2>5 DEF Arrive
    <3> QED
      BY <2>1, <2>2, <3>1, StageHandler
  <2> QED
    BY <2>3, <2>4, <2>5
<1>2. ASSUME NEW c \in Calls, StartVerify(c) \/ StartCommit(c)
      PROVE  HandlerInv'
  BY <1>2 DEF StartVerify, StartCommit, Begin, httpVars, TypeOK, HandlerInv, StageBoundsPhase
<1>3. ASSUME NEW c \in Calls, RedeemStep(c)
      PROVE  HandlerInv'
  <2>1. stage[c] \in {"verify", "commit"} /\ Step(c) /\ UNCHANGED <<stage, status>>
    BY <1>3 DEF RedeemStep, httpVars
  <2>2. CASE Check(c)
    BY <2>1, <2>2 DEF Check, TypeOK, HandlerInv, StageBoundsPhase
  <2>3. CASE Tally(c)
    BY <2>1, <2>3 DEF Tally, TypeOK, HandlerInv, StageBoundsPhase
  <2>4. CASE Spend(c)
    BY <2>1, <2>4 DEF Spend, TypeOK, HandlerInv, StageBoundsPhase
  <2>5. CASE Unspend(c)
    BY <2>1, <2>5 DEF Unspend, TypeOK, HandlerInv, StageBoundsPhase
  <2> QED
    BY <2>1, <2>2, <2>3, <2>4, <2>5 DEF Step
<1>4. ASSUME NEW c \in Calls, Verified(c) \/ Serve(c) \/ Record(c)
      PROVE  HandlerInv'
  BY <1>4, StageHandler DEF Verified, Serve, Record, vars
<1>5. ASSUME NEW c \in Calls,
             RuntimeFails(c) \/ PaymentRequired(c) \/ RecordRaises(c) \/ Respond(c)
      PROVE  HandlerInv'
  <2>1. UNCHANGED <<pc, commit>>
    BY <1>5 DEF RuntimeFails, PaymentRequired, RecordRaises, Respond, vars
  <2>2. CASE RuntimeFails(c)
    BY <2>1, <2>2, AnswerHandler DEF RuntimeFails, HandlerInv, StageBoundsPhase, Statuses, Errors
  <2>3. CASE PaymentRequired(c)
    BY <2>1, <2>3, AnswerHandler DEF PaymentRequired, Statuses, Errors
  <2>4. CASE RecordRaises(c)
    BY <2>1, <2>4, AnswerHandler DEF RecordRaises, Statuses, Errors
  <2>5. CASE Respond(c)
    BY <2>1, <2>5, AnswerHandler DEF Respond, Statuses, Errors
  <2> QED
    BY <1>5, <2>2, <2>3, <2>4, <2>5
<1>6. ASSUME NEW c \in Calls, RedeemRaises(c)
      PROVE  HandlerInv'
  <2>1. Answer(c, 500) /\ pc' = [pc EXCEPT ![c] = "raised"] /\ UNCHANGED commit
    BY <1>6 DEF RedeemRaises, Raise
  <2>2. /\ 500 \in Statuses
        /\ 500 # 0
        /\ ~(500 \in Errors)
    BY DEF Statuses, Errors
  <2> QED
    BY <2>1, <2>2, AnswerHandler, Zenon
<1>7. ASSUME NEW w \in Workers, Crash(w)
      PROVE  HandlerInv'
  <2>1. CASE UNCHANGED <<vars, stage, status>>
    BY <2>1 DEF vars, HandlerInv, StageBoundsPhase
  <2>2. ASSUME NEW c \in Calls, Answer(c, -1), Raise(c) \/ UNCHANGED vars
        PROVE  HandlerInv'
    BY <2>2, AnswerHandler DEF Raise, vars, Statuses, Errors
  <2> QED
    BY <1>7, <2>1, <2>2 DEF Crash, RunBy
<1>8. CASE Clock \/ UNCHANGED gvars
  BY <1>8 DEF Clock, Tick, gvars, vars, httpVars, HandlerInv, StageBoundsPhase
<1> QED
  BY <1>1, <1>2, <1>3, <1>4, <1>5, <1>6, <1>7, <1>8 DEF GNext, HandlerStep

\* The verify call never inserts, and an error is only answered where nothing is
\* inserted.
THEOREM HandlerInvHolds == GSpec => []HandlerInv
<1>1. GSpec => []Ownership
  BY GatewayImplementsRedemption, OwnershipHolds, PTL DEF ImplementsRedemption
<1>2. Ownership /\ HandlerInv /\ [GNext]_gvars => HandlerInv'
  BY NextHandler
<1> QED
  BY <1>1, <1>2, InitHandler, PTL DEF GSpec

\* Charge on success: a request answered with an error the handler chose (a bad
\* request, the rate limit, a 402, a runtime failure) owns no row of the table.
THEOREM RefusedIsUnchargedHolds == GSpec => []RefusedIsUncharged
<1>1. Ownership /\ HandlerInv => RefusedIsUncharged
  <2> SUFFICES ASSUME Ownership, HandlerInv, NEW c \in Calls, status[c] \in Errors
               PROVE  Owned(c) = {}
    BY DEF RefusedIsUncharged
  <2>1. pc[c] \in {"idle", "verified", "refused"}
    BY DEF HandlerInv, StageBoundsPhase, Errors
  <2>2. ins[c] \in Nat /\ del[c] = ins[c]
    BY <2>1 DEF Ownership, TypeOK, Progress
  <2> QED
    BY <2>2 DEF Owned
<1>2. GSpec => []Ownership
  BY GatewayImplementsRedemption, OwnershipHolds, PTL DEF ImplementsRedemption
<1> QED
  BY <1>1, <1>2, HandlerInvHolds, PTL

-----------------------------------------------------------------------------
(***************************************************************************)
(* The state of the handlers, and what a request that is being served has  *)
(* been screened for.                                                      *)
(***************************************************************************)
\* A request under way, or answered with a completion, passed every check that
\* precedes the rate limiter, at the worker that runs it.
Screened ==
    \A c \in Calls : Active(c) \/ status[c] = 200 =>
        worker[c] \in Workers /\ Refusal(c, worker[c]) = 0

ServiceInv == HandlerInv /\ GTypeOK /\ Screened

\* The numbers of the configuration.
LEMMA Bounds ==
    /\ MaxOutput \in Nat /\ MaxInput \in Nat /\ InRate \in Nat /\ OutRate \in Nat
    /\ Limit \in Nat /\ Window \in Nat /\ MaxCrashes \in Nat /\ MaxTime \in Nat
BY GatewayAssumption, ValueAssumption

\* The fields of a request.
LEMMA RequestFacts ==
    ASSUME NEW c \in Calls
    PROVE  /\ Request[c].max_tokens \in Int /\ Request[c].chars \in Nat /\ Request[c].words \in Nat
           /\ Request[c].words <= Request[c].chars
           /\ SentTo[c] \subseteq Workers /\ Price[c] \in Nat
BY GatewayAssumption, ValueAssumption DEF RequestType

\* What a screened request asks for is within the limits of the gateway.
LEMMA ScreenedFacts ==
    ASSUME NEW c \in Calls, NEW w \in Workers, Refusal(c, w) = 0
    PROVE  /\ Request[c].max_tokens \in 1..MaxOutput /\ Request[c].chars \in 0..MaxInput
           /\ Price[c] = Required(c)
<1>1. Request[c].max_tokens >= 1 /\ ~(Request[c].max_tokens > MaxOutput \/ Request[c].chars > MaxInput)
  BY RequestFacts DEF Refusal
<1> QED
  BY <1>1, RequestFacts, Bounds, PriceAssumption

\* An amount is a number, and grows with the tokens that are priced.
LEMMA PriceMonotone ==
    ASSUME NEW i \in Nat, NEW j \in Nat, NEW m \in Nat, NEW n \in Nat, i <= j, m <= n
    PROVE  PriceAmount(i, m) \in Nat /\ PriceAmount(i, m) <= PriceAmount(j, n)
<1>1. i * InRate \in Nat /\ j * InRate \in Nat /\ i * InRate <= j * InRate
  BY Bounds
<1>2. m * OutRate \in Nat /\ n * OutRate \in Nat /\ m * OutRate <= n * OutRate
  BY Bounds
<1> DEFINE x == i * InRate + m * OutRate
           y == j * InRate + n * OutRate
<1>3. x \in Nat /\ y \in Nat /\ x <= y
  BY <1>1, <1>2
<1> HIDE DEF x, y
<1>4. (x + 5) \div 10 \in Nat /\ (x + 5) \div 10 <= (y + 5) \div 10
  BY <1>3
<1> QED
  BY <1>4 DEF PriceAmount, FormatAmount, x, y

\* Screening is done once: whoever else goes on, or is answered 200, was under
\* way before.
LEMMA ScreenedStays ==
    ASSUME Screened, UNCHANGED worker,
           \A c \in Calls : Active(c)' \/ status'[c] = 200 => Active(c) \/ status[c] = 200
    PROVE  Screened'
BY DEF Screened, Refusal

\* A set of natural numbers has a least element.
LEMMA LeastNat ==
    ASSUME NEW T \in SUBSET Nat, T # {}
    PROVE  \E n \in T : \A m \in T : n <= m
<1> DEFINE R == OpToRel(<, Nat)
<1>1. \A U \in SUBSET Nat : U # {} => \E x \in U : \A y \in U : ~(<<y, x>> \in R)
  BY WFMin, NatLessThanWellFounded, Zenon
<1>2. \A x, y \in Nat : y < x => <<y, x>> \in R
  BY DEF OpToRel
<1> HIDE DEF R
<1>3. PICK n \in T : \A m \in T : ~(<<m, n>> \in R)
  BY <1>1
<1>4. \A m \in T : m \in Nat /\ n \in Nat /\ ~(m < n)
  BY <1>2, <1>3
<1> QED
  BY <1>4

\* allow() pops the leading entries that are old, all of them and no other.
LEMMA PoppedFacts ==
    ASSUME NEW log \in Seq(Int), NEW start \in Int
    PROVE  /\ Popped(log, start) \in 0..Len(log)
           /\ \A i \in 1..Popped(log, start) : log[i] <= start
           /\ Popped(log, start) < Len(log) => log[Popped(log, start) + 1] > start
<1> DEFINE T == {n \in Nat : n >= Len(log) \/ log[n + 1] > start}
           P(n) == /\ \A i \in 1..n : log[i] <= start
                   /\ n < Len(log) => log[n + 1] > start
<1>1. Len(log) \in T /\ Len(log) \in Nat /\ \A i \in 1..Len(log) : log[i] \in Int
  OBVIOUS
<1>2. PICK n \in T : \A m \in T : n <= m
  <2> HIDE DEF T
  <2> QED
    BY <1>1, LeastNat DEF T
<1>3. n \in 0..Len(log) /\ \A i \in Nat : i < n => i \notin T
  <2>1. n \in Nat /\ n <= Len(log)
    BY <1>1, <1>2
  <2>2. ASSUME NEW i \in Nat, i < n PROVE i \notin T
    <3> HIDE DEF T
    <3> QED
      BY <1>2, <2>1, <2>2
  <2> QED
    BY <1>1, <2>1, <2>2
<1>4. ASSUME NEW i \in 1..n PROVE log[i] <= start
  <2>1. i - 1 \in Nat /\ i - 1 < n /\ i \in 1..Len(log)
    BY <1>3
  <2>2. i - 1 \notin T /\ (i - 1) + 1 = i
    <3> HIDE DEF T
    <3> QED
      BY <1>3, <2>1
  <2>3. ~(log[i] > start)
    BY <2>1, <2>2
  <2> QED
    BY <1>1, <2>1, <2>3
<1>5. n \in 0..Len(log) /\ P(n)
  BY <1>3, <1>4
<1>6. Popped(log, start) = CHOOSE m \in 0..Len(log) : P(m)
  BY DEF Popped
<1> HIDE DEF P
<1>7. Popped(log, start) \in 0..Len(log) /\ P(Popped(log, start))
  BY <1>5, <1>6
<1> QED
  BY <1>7 DEF P

\* What remains of _hits, without its first entries.
LEMMA LiveHitsFacts ==
    ASSUME GTypeOK, NEW w \in Workers
    PROVE  LET n == Popped(hits[w], now - Window) IN
           /\ n \in 0..Len(hits[w]) /\ \A i \in 1..n : hits[w][i] <= now - Window
           /\ LiveHits(w) \in Seq(0..MaxTime) /\ Len(LiveHits(w)) = Len(hits[w]) - n
           /\ \A i \in 1..(Len(hits[w]) - n) : LiveHits(w)[i] = hits[w][n + i]
<1> DEFINE h == hits[w]
           m == Len(h)
           n == Popped(h, now - Window)
<1>1. h \in Seq(0..MaxTime) /\ h \in Seq(Int) /\ now - Window \in Int /\ m \in Nat
  BY Bounds DEF GTypeOK, TypeOK
<1>2. n \in 0..m /\ \A i \in 1..n : h[i] <= now - Window
  BY <1>1, PoppedFacts
<1>3. LiveHits(w) = SubSeq(h, n + 1, m)
  BY DEF LiveHits
<1> HIDE DEF n, h
<1>4. ASSUME NEW i \in (n + 1)..m PROVE h[i] \in 0..MaxTime
  <2>1. i \in 1..Len(h)
    BY <1>1, <1>2
  <2> QED
    BY <1>1, <2>1, ElementOfSeq
<1> HIDE DEF m
<1>5. n + 1 \in Int /\ m \in Int /\ n \in Int
  BY <1>1, <1>2
<1>6. /\ SubSeq(h, n + 1, m) \in Seq(0..MaxTime)
      /\ Len(SubSeq(h, n + 1, m)) = IF n + 1 <= m THEN m - (n + 1) + 1 ELSE 0
      /\ \A i \in 1..(m - (n + 1) + 1) : SubSeq(h, n + 1, m)[i] = h[(n + 1) + i - 1]
  BY <1>4, <1>5, SubSeqProperties
<1>7. m - (n + 1) + 1 = m - n /\ \A i \in Int : (n + 1) + i - 1 = n + i
  BY <1>5
<1>8. Len(SubSeq(h, n + 1, m)) = m - n
  BY <1>1, <1>2, <1>6, <1>7
<1>9. \A i \in 1..(m - n) : SubSeq(h, n + 1, m)[i] = h[n + i]
  BY <1>6, <1>7
<1> QED
  BY <1>2, <1>3, <1>6, <1>8, <1>9 DEF h, m, n

\* A step of one handler under way, which leaves its worker alone.
LEMMA MoveScreened ==
    ASSUME HandlerInv, Screened, NEW c \in Calls, Active(c), UNCHANGED worker,
           \/ UNCHANGED stage
           \/ \E g \in Stages : stage' = [stage EXCEPT ![c] = g],
           \/ UNCHANGED status
           \/ \E s \in Statuses : status' = [status EXCEPT ![c] = s]
    PROVE  Screened'
<1>1. \A d \in Calls \ {c} : stage'[d] = stage[d] /\ status'[d] = status[d]
  BY DEF HandlerInv
<1>2. \A d \in Calls : Active(d)' \/ status'[d] = 200 => Active(d) \/ status[d] = 200
  BY <1>1 DEF Active
<1> QED
  BY <1>2, ScreenedStays

\* A request arrives.
LEMMA ArriveService ==
    ASSUME ServiceInv, NEW c \in Calls, NEW w \in SentTo[c], Arrive(c, w), TypeOK', HandlerInv'
    PROVE  ServiceInv'
<1>0. w \in Workers /\ worker' = [worker EXCEPT ![c] = w] /\ stage[c] = "new"
      /\ UNCHANGED <<now, receipt, mem, disk, unread, crashes>>
  BY RequestFacts DEF Arrive, vars, ledgerVars
<1>1. LiveHits(w) \in Seq(0..MaxTime) /\ now \in 0..MaxTime
  BY <1>0, LiveHitsFacts DEF ServiceInv, GTypeOK, TypeOK
<1>2. \A d \in Calls : worker'[d] = IF d = c THEN w ELSE worker[d]
  BY <1>0 DEF ServiceInv, GTypeOK
<1>3. status[c] = 0
  BY <1>0 DEF ServiceInv, HandlerInv, StageBoundsPhase
<1>4. CASE Refusal(c, w) # 0
  <2>1. Answer(c, Refusal(c, w)) /\ UNCHANGED <<hits, admitted>> /\ Refusal(c, w) # 200
    BY <1>4 DEF Arrive, limiterVars, Refusal
  <2>2. GTypeOK'
    BY <1>0, <2>1 DEF ServiceInv, GTypeOK, HandlerInv
  <2>3. ASSUME NEW d \in Calls, (Active(d) \/ status[d] = 200)'
        PROVE  d # c /\ (Active(d) \/ status[d] = 200)
    BY <2>1, <2>3 DEF Answer, Active, ServiceInv, HandlerInv
  <2> QED
    BY <1>2, <2>2, <2>3 DEF ServiceInv, Screened, Refusal
<1>5. CASE Refusal(c, w) = 0 /\ Len(LiveHits(w)) >= Limit
  <2>1. Answer(c, 429) /\ hits' = [hits EXCEPT ![w] = LiveHits(w)] /\ UNCHANGED admitted
    BY <1>5 DEF Arrive
  <2>2. GTypeOK'
    BY <1>0, <1>1, <2>1 DEF ServiceInv, GTypeOK, HandlerInv
  <2>3. ASSUME NEW d \in Calls, (Active(d) \/ status[d] = 200)'
        PROVE  d # c /\ (Active(d) \/ status[d] = 200)
    BY <2>1, <2>3 DEF Answer, Active, ServiceInv, HandlerInv
  <2> QED
    BY <1>2, <2>2, <2>3 DEF ServiceInv, Screened, Refusal
<1>6. CASE Refusal(c, w) = 0 /\ ~(Len(LiveHits(w)) >= Limit)
  <2>1. /\ hits' = [hits EXCEPT ![w] = Append(LiveHits(w), now)]
        /\ admitted' = [admitted EXCEPT ![c] = now] /\ UNCHANGED status
        /\ stage' = [stage EXCEPT ![c] = IF w \in PaidWorkers THEN "verify" ELSE "serve"]
    BY <1>6 DEF Arrive
  <2>2. Append(LiveHits(w), now) \in Seq(0..MaxTime)
    BY <1>1
  <2>3. GTypeOK'
    BY <1>0, <1>1, <2>1, <2>2 DEF ServiceInv, GTypeOK, HandlerInv
  <2>4. ASSUME NEW d \in Calls, d # c, (Active(d) \/ status[d] = 200)'
        PROVE  Active(d) \/ status[d] = 200
    BY <2>1, <2>4 DEF Active, ServiceInv, HandlerInv
  <2> QED
    BY <1>0, <1>2, <1>6, <2>3, <2>4 DEF ServiceInv, Screened, Refusal
<1> QED
  BY <1>4, <1>5, <1>6

\* The receipt of c for the counts u.
ReceiptOf(c, u) == [price |-> ReceiptPrice(c, u[1], u[2]), inputs |-> u[1], outputs |-> u[2]]

\* The receipt states an amount, which is within the quote when it is the price
\* of the request or that of counts within the request.
LEMMA ReceiptFacts ==
    ASSUME ServiceInv, NEW c \in Calls, stage[c] = "respond", NEW u \in Usage
    PROVE  /\ ReceiptOf(c, u) \in Receipts
           /\ \/ worker[c] \in PaidWorkers
              \/ u[1] <= Request[c].chars /\ u[2] <= Request[c].max_tokens
              => ReceiptOf(c, u).price <= QuoteMaxPrice(c)
<1>1. worker[c] \in Workers /\ Refusal(c, worker[c]) = 0
  BY DEF ServiceInv, Screened, Active
<1>2. /\ Request[c].max_tokens \in 1..MaxOutput /\ Request[c].chars \in 0..MaxInput
      /\ Price[c] = Required(c)
  BY <1>1, ScreenedFacts
<1>3. /\ Request[c].max_tokens \in Nat /\ Request[c].chars \in Nat /\ Request[c].words \in Nat
      /\ Request[c].words <= MaxInput /\ Request[c].chars <= MaxInput /\ MaxInput \in Nat
  BY <1>2, RequestFacts, Bounds
<1>4. u[1] \in Nat /\ u[2] \in Nat
  <2>1. u \in Nat \X Nat
    BY GatewayAssumption
  <2> QED
    BY <2>1
<1>5. /\ PriceAmount(u[1], u[2]) \in Nat
      /\ u[1] <= Request[c].chars /\ u[2] <= Request[c].max_tokens
             => PriceAmount(u[1], u[2]) <= QuoteMaxPrice(c)
  <2>1. PriceAmount(u[1], u[2]) \in Nat
    <3>1. u[1] <= u[1] /\ u[2] <= u[2]
      BY <1>4
    <3> QED
      BY <1>4, <3>1, PriceMonotone
  <2>2. ASSUME u[1] <= Request[c].chars, u[2] <= Request[c].max_tokens
        PROVE  PriceAmount(u[1], u[2]) <= QuoteMaxPrice(c)
    <3>1. u[1] <= MaxInput
      BY <1>3, <1>4, <2>2
    <3>2. PriceAmount(u[1], u[2]) <= PriceAmount(MaxInput, Request[c].max_tokens)
      BY <1>3, <1>4, <2>2, <3>1, PriceMonotone
    <3> QED
      BY <3>2 DEF QuoteMaxPrice
  <2> QED
    BY <2>1, <2>2
<1>6. Price[c] \in Nat /\ Price[c] <= QuoteMaxPrice(c)
  <2>1. Request[c].max_tokens <= Request[c].max_tokens
    BY <1>3
  <2>2. /\ PriceAmount(Request[c].words, Request[c].max_tokens) \in Nat
        /\ PriceAmount(Request[c].words, Request[c].max_tokens) <= PriceAmount(MaxInput, Request[c].max_tokens)
    BY <1>3, <2>1, PriceMonotone
  <2> QED
    BY <1>2, <2>2 DEF QuoteMaxPrice, Required
<1>7. ReceiptOf(c, u).price = IF worker[c] \in PaidWorkers THEN Price[c] ELSE PriceAmount(u[1], u[2])
  BY DEF ReceiptOf, ReceiptPrice
<1>8. ReceiptOf(c, u) \in Receipts
  BY <1>4, <1>5, <1>6 DEF ReceiptOf, ReceiptPrice, Receipts
<1> QED
  BY <1>5, <1>6, <1>7, <1>8

\* Every step of the gateway keeps the types and the screening.
LEMMA NextService ==
    ASSUME Ownership, ServiceInv, [GNext]_gvars
    PROVE  ServiceInv'
<1>1. TypeOK'
  BY GatewayStep, NextOwnership DEF Ownership
<1>2. HandlerInv'
  BY NextHandler DEF ServiceInv
<1>3. ASSUME NEW c \in Calls, NEW w \in SentTo[c], Arrive(c, w) PROVE ServiceInv'
  BY <1>1, <1>2, <1>3, ArriveService
<1>4. ASSUME NEW c \in Calls,
             \/ StartVerify(c) \/ StartCommit(c) \/ RedeemStep(c) \/ RedeemRaises(c)
             \/ Verified(c) \/ Serve(c) \/ RuntimeFails(c) \/ PaymentRequired(c)
      PROVE  ServiceInv'
  <2>1. UNCHANGED <<worker, receipt, hits, admitted, mem, disk, unread, crashes>> /\ Active(c)
    BY <1>4 DEF StartVerify, StartCommit, RedeemStep, RedeemRaises, Verified, Serve, RuntimeFails,
                PaymentRequired, httpVars, limiterVars, ledgerVars, Active
  <2>2. GTypeOK'
    BY <1>1, <1>2, <2>1 DEF ServiceInv, GTypeOK, HandlerInv
  <2>3. /\ UNCHANGED stage \/ \E g \in Stages : stage' = [stage EXCEPT ![c] = g]
        /\ UNCHANGED status \/ \E s \in Statuses : status' = [status EXCEPT ![c] = s]
    <3>1. CASE StartVerify(c) \/ StartCommit(c) \/ RedeemStep(c)
      BY <3>1 DEF StartVerify, StartCommit, RedeemStep, httpVars
    <3>2. CASE Verified(c) \/ Serve(c)
      BY <3>2 DEF Verified, Serve, Stages
    <3>3. CASE RedeemRaises(c) \/ RuntimeFails(c) \/ PaymentRequired(c)
      BY <3>3 DEF RedeemRaises, RuntimeFails, PaymentRequired, Answer, Stages, Statuses, Errors
    <3> QED
      BY <1>4, <3>1, <3>2, <3>3
  <2>4. Screened'
    BY <2>1, <2>3, MoveScreened DEF ServiceInv
  <2> QED
    BY <1>2, <2>2, <2>4 DEF ServiceInv
<1>5. ASSUME NEW c \in Calls, Record(c) \/ RecordRaises(c) PROVE ServiceInv'
  <2>1. /\ Active(c) /\ UNCHANGED <<worker, receipt, hits, admitted, unread, crashes>>
        /\ mem' = [mem EXCEPT ![worker[c]] = Append(@, Entry(c))]
        /\ disk' = [disk EXCEPT ![LedgerOf[worker[c]]] = mem'[worker[c]]] \/ UNCHANGED disk
    BY <1>5 DEF Record, RecordRaises, limiterVars, Active
  <2>2. worker[c] \in Workers /\ Entry(c) \in [ref : Calls, amount : Nat]
    BY <2>1, RequestFacts DEF ServiceInv, Screened, Entry
  <2>3. mem[worker[c]] \in Seq([ref : Calls, amount : Nat])
    BY <2>2 DEF ServiceInv, GTypeOK
  <2>4. Append(mem[worker[c]], Entry(c)) \in Seq([ref : Calls, amount : Nat])
    BY <2>2, <2>3
  <2>5. mem' \in [Workers -> Seq([ref : Calls, amount : Nat])]
    BY <2>1, <2>2, <2>4 DEF ServiceInv, GTypeOK
  <2>6. disk' \in [Ledgers -> Seq([ref : Calls, amount : Nat])]
    BY <2>1, <2>2, <2>5 DEF ServiceInv, GTypeOK
  <2>7. GTypeOK'
    BY <1>1, <1>2, <2>1, <2>5, <2>6 DEF ServiceInv, GTypeOK, HandlerInv
  <2>8. /\ UNCHANGED stage \/ \E g \in Stages : stage' = [stage EXCEPT ![c] = g]
        /\ UNCHANGED status \/ \E s \in Statuses : status' = [status EXCEPT ![c] = s]
    BY <1>5 DEF Record, RecordRaises, Answer, Stages, Statuses, Errors
  <2>9. Screened'
    BY <2>1, <2>8, MoveScreened DEF ServiceInv
  <2> QED
    BY <1>2, <2>7, <2>9 DEF ServiceInv
<1>6. ASSUME NEW c \in Calls, Respond(c) PROVE ServiceInv'
  <2>1. /\ stage[c] = "respond" /\ UNCHANGED <<worker, hits, admitted, mem, disk, unread, crashes>>
        /\ Answer(c, 200)
    BY <1>6 DEF Respond, limiterVars, ledgerVars
  <2>2. PICK u \in Usage : receipt' = [receipt EXCEPT ![c] = ReceiptOf(c, u)]
    BY <1>6 DEF Respond, ReceiptOf
  <2>3. ReceiptOf(c, u) \in Receipts
    BY <2>1, ReceiptFacts
  <2>4. GTypeOK'
    BY <1>1, <1>2, <2>1, <2>2, <2>3 DEF ServiceInv, GTypeOK, HandlerInv
  <2>5. Screened'
    BY <2>1, MoveScreened DEF ServiceInv, Answer, Active, Stages, Statuses
  <2> QED
    BY <1>2, <2>4, <2>5 DEF ServiceInv
<1>7. ASSUME NEW w \in Workers, Crash(w) PROVE ServiceInv'
  <2>1. /\ UNCHANGED <<worker, receipt, admitted, disk>> /\ crashes < MaxCrashes /\ crashes' = crashes + 1
        /\ hits' = [hits EXCEPT ![w] = <<>>] /\ unread' \in {unread, unread \cup {LedgerOf[w]}}
        /\ \E log \in {disk[LedgerOf[w]], <<>>} : mem' = [mem EXCEPT ![w] = log]
    BY <1>7 DEF Crash, Reload, LoadLedger
  <2>2. LedgerOf[w] \in Ledgers
    BY GatewayAssumption DEF Ledgers, Range
  <2>3. disk[LedgerOf[w]] \in Seq([ref : Calls, amount : Nat])
    BY <2>2 DEF ServiceInv, GTypeOK
  <2>4. crashes' \in 0..MaxCrashes
    BY <2>1, Bounds DEF ServiceInv, GTypeOK
  <2>5. hits' \in [Workers -> Seq(0..MaxTime)]
    BY <2>1 DEF ServiceInv, GTypeOK
  <2>6. mem' \in [Workers -> Seq([ref : Calls, amount : Nat])]
    <3>1. <<>> \in Seq([ref : Calls, amount : Nat])
      OBVIOUS
    <3> QED
      BY <2>1, <2>3, <3>1 DEF ServiceInv, GTypeOK
  <2>7. GTypeOK'
    BY <1>1, <1>2, <2>1, <2>2, <2>4, <2>5, <2>6 DEF ServiceInv, GTypeOK, HandlerInv
  <2>8. Screened'
    <3>1. CASE UNCHANGED <<stage, status>>
      BY <2>1, <3>1, ScreenedStays DEF ServiceInv, Active
    <3>2. ASSUME NEW c \in RunBy(w), Answer(c, -1) PROVE Screened'
      BY <2>1, <3>2, MoveScreened DEF ServiceInv, RunBy, Answer, Stages, Statuses
    <3> QED
      BY <1>7, <3>1, <3>2 DEF Crash
  <2> QED
    BY <1>2, <2>7, <2>8 DEF ServiceInv
<1>8. CASE Clock \/ UNCHANGED gvars
  <2>1. UNCHANGED <<stage, status, worker, receipt, hits, admitted, mem, disk, unread, crashes>>
    BY <1>8 DEF Clock, gvars, httpVars, limiterVars, ledgerVars
  <2> QED
    BY <1>1, <1>2, <2>1, ScreenedStays DEF ServiceInv, GTypeOK, Active
<1> QED
  BY <1>3, <1>4, <1>5, <1>6, <1>7, <1>8 DEF GNext, HandlerStep

\* Nothing is under way at the start.
LEMMA InitService == GInit => ServiceInv
<1> SUFFICES ASSUME GInit PROVE ServiceInv
  OBVIOUS
<1>1. TypeOK /\ HandlerInv
  BY InitOwnership, InitHandler DEF GInit, Ownership
<1>2. crashes \in 0..MaxCrashes /\ admitted \in [Calls -> -1..MaxTime]
  BY Bounds DEF GInit
<1>3. GTypeOK
  BY <1>1, <1>2 DEF GInit, GTypeOK, HandlerInv, Receipts
<1>4. \A c \in Calls : ~Active(c) /\ status[c] # 200
  BY DEF GInit, Active
<1> QED
  BY <1>1, <1>3, <1>4 DEF ServiceInv, Screened

\* The state of the gateway is well typed, and a request that is served was
\* screened by the worker that serves it.
THEOREM ServiceInvHolds == GSpec => []ServiceInv
<1>1. GSpec => []Ownership
  BY GatewayImplementsRedemption, OwnershipHolds, PTL DEF ImplementsRedemption
<1>2. Ownership /\ ServiceInv /\ [GNext]_gvars => ServiceInv'
  BY NextService
<1> QED
  BY <1>1, <1>2, InitService, PTL DEF GSpec

\* A request that is answered stays with its worker.
LEMMA AnsweredStays ==
    ASSUME ServiceInv, [GNext]_gvars, NEW d \in Calls, status[d] = 200
    PROVE  worker'[d] = worker[d]
<1>1. ASSUME NEW c \in Calls, NEW w \in SentTo[c], Arrive(c, w) PROVE worker'[d] = worker[d]
  <2>1. status[c] = 0 /\ worker' = [worker EXCEPT ![c] = w]
    BY <1>1 DEF Arrive, ServiceInv, HandlerInv, StageBoundsPhase
  <2> QED
    BY <2>1 DEF ServiceInv, GTypeOK
<1>2. ~(\E c \in Calls : \E w \in SentTo[c] : Arrive(c, w)) => UNCHANGED worker
  BY DEF GNext, HandlerStep, StartVerify, StartCommit, RedeemStep, RedeemRaises, Verified, Serve, RuntimeFails,
         PaymentRequired, Record, RecordRaises, Respond, Crash, Clock, httpVars, gvars
<1> QED
  BY <1>1, <1>2

\* A receipt is written once, by Respond, and stays.
LEMMA ReceiptStays ==
    ASSUME ServiceInv, [GNext]_gvars, NEW d \in Calls
    PROVE  \/ status'[d] # 200
           \/ status[d] = 200 /\ receipt'[d] = receipt[d]
           \/ stage[d] = "respond" /\ Respond(d)
<1> SUFFICES ASSUME status'[d] = 200, ~(stage[d] = "respond" /\ Respond(d))
             PROVE  status[d] = 200 /\ receipt'[d] = receipt[d]
  OBVIOUS
<1>0. status \in [Calls -> Statuses] /\ receipt \in [Calls -> Receipts]
  BY DEF ServiceInv, GTypeOK
<1>1. ASSUME NEW c \in Calls, NEW w \in SentTo[c], Arrive(c, w)
      PROVE  status[d] = 200 /\ receipt'[d] = receipt[d]
  <2>1. Refusal(c, w) # 200
    BY DEF Refusal
  <2> QED
    BY <1>0, <1>1, <2>1 DEF Arrive, Answer
<1>2. ASSUME NEW c \in Calls,
             \/ StartVerify(c) \/ StartCommit(c) \/ RedeemStep(c)
             \/ Verified(c) \/ Serve(c) \/ Record(c)
      PROVE  status[d] = 200 /\ receipt'[d] = receipt[d]
  BY <1>2 DEF StartVerify, StartCommit, RedeemStep, Verified, Serve, Record, httpVars
<1>3. ASSUME NEW c \in Calls,
             RedeemRaises(c) \/ RuntimeFails(c) \/ PaymentRequired(c) \/ RecordRaises(c)
      PROVE  status[d] = 200 /\ receipt'[d] = receipt[d]
  <2>1. UNCHANGED receipt /\ \E s \in {402, 500, 502} : status' = [status EXCEPT ![c] = s]
    BY <1>3 DEF RedeemRaises, RuntimeFails, PaymentRequired, RecordRaises, Answer
  <2> QED
    BY <1>0, <2>1
<1>4. ASSUME NEW c \in Calls, Respond(c)
      PROVE  status[d] = 200 /\ receipt'[d] = receipt[d]
  <2>1. stage[c] = "respond" /\ status' = [status EXCEPT ![c] = 200]
    BY <1>4 DEF Respond, Answer
  <2>2. c # d
    BY <1>4, <2>1
  <2>3. receipt'[d] = receipt[d]
    BY <1>0, <1>4, <2>2 DEF Respond
  <2> QED
    BY <1>0, <2>1, <2>2, <2>3
<1>5. ASSUME NEW w \in Workers, Crash(w)
      PROVE  status[d] = 200 /\ receipt'[d] = receipt[d]
  <2>1. UNCHANGED receipt /\ (UNCHANGED status \/ \E c \in Calls : status' = [status EXCEPT ![c] = -1])
    BY <1>5 DEF Crash, Answer, RunBy
  <2> QED
    BY <1>0, <2>1
<1>6. CASE Clock \/ UNCHANGED gvars
  BY <1>6 DEF Clock, httpVars, gvars
<1> QED
  BY <1>1, <1>2, <1>3, <1>4, <1>5, <1>6 DEF GNext, HandlerStep

\* max_price bounds the receipt of every paid request, and of every unpaid one
\* that is honest about its tokens, whatever the sizes of the request.
THEOREM PaidOrHonestIsWithinQuoteHolds == GSpec => []PaidOrHonestIsWithinQuote
<1>1. GInit => PaidOrHonestIsWithinQuote
  BY DEF GInit, PaidOrHonestIsWithinQuote
<1>2. ASSUME ServiceInv, PaidOrHonestIsWithinQuote, [GNext]_gvars
      PROVE  PaidOrHonestIsWithinQuote'
  <2> SUFFICES ASSUME NEW d \in Calls, status'[d] = 200,
                      worker'[d] \in PaidWorkers \/ Honest(d)'
               PROVE  receipt'[d].price <= QuoteMaxPrice(d)
    BY DEF PaidOrHonestIsWithinQuote, QuoteMaxPrice, PriceAmount, FormatAmount
  <2>1. CASE status[d] = 200 /\ receipt'[d] = receipt[d]
    <3>1. worker'[d] = worker[d]
      BY <1>2, <2>1, AnsweredStays
    <3> QED
      BY <1>2, <2>1, <3>1 DEF PaidOrHonestIsWithinQuote, Honest
  <2>2. CASE stage[d] = "respond" /\ Respond(d)
    <3>1. PICK u \in Usage : receipt' = [receipt EXCEPT ![d] = ReceiptOf(d, u)]
      BY <2>2 DEF Respond, ReceiptOf
    <3>2. receipt'[d] = ReceiptOf(d, u) /\ worker'[d] = worker[d]
      BY <1>2, <2>2, <3>1 DEF ServiceInv, GTypeOK, Respond
    <3>3. Honest(d)' => u[1] <= Request[d].chars /\ u[2] <= Request[d].max_tokens
      BY <3>2 DEF Honest, ReceiptOf
    <3> QED
      BY <1>2, <2>2, <3>2, <3>3, ReceiptFacts
  <2> QED
    BY <1>2, <2>1, <2>2, ReceiptStays
<1> QED
  BY <1>1, <1>2, ServiceInvHolds, PTL DEF GSpec

-----------------------------------------------------------------------------
(***************************************************************************)
(* The rate limiter.  As long as no worker was restarted, every request    *)
(* that a worker admitted within the last Window has an entry of its own   *)
(* in _hits, so that the length of _hits bounds their number.              *)
(***************************************************************************)
Admitted(w) == {c \in Calls : worker[c] = w /\ admitted[c] >= 0 /\ admitted[c] > now - Window}

\* f gives each of them its entry of the log.
Entered(f, w, log) ==
    /\ f \in Injection(Admitted(w), 1..Len(log))
    /\ \A c \in Admitted(w) : log[f[c]] = admitted[c]

InWindow(w, t) == {c \in Calls : worker[c] = w /\ admitted[c] \in t..(t + Window - 1)}

LimiterInv ==
    crashes = 0 =>
        /\ \A c \in Calls : admitted[c] <= now /\ (stage[c] = "new" => admitted[c] = -1)
        /\ \A w \in Workers : \E f : Entered(f, w, hits[w])
        /\ \A w \in Workers, t \in 0..MaxTime :
               IsFiniteSet(InWindow(w, t)) /\ Cardinality(InWindow(w, t)) <= Limit

\* The entries that are popped are of none of them.
LEMMA EnteredAfterPop ==
    ASSUME GTypeOK, NEW w \in Workers, NEW f, Entered(f, w, hits[w])
    PROVE  \E g : Entered(g, w, LiveHits(w))
<1> DEFINE n == Popped(hits[w], now - Window)
           A == Admitted(w)
           m == Len(hits[w])
           g == [c \in A |-> f[c] - n]
<1>1. /\ n \in 0..m /\ \A i \in 1..n : hits[w][i] <= now - Window
      /\ Len(LiveHits(w)) = m - n /\ \A i \in 1..(m - n) : LiveHits(w)[i] = hits[w][n + i]
  BY LiveHitsFacts
<1>2. m \in Nat /\ now \in Nat /\ Window \in Nat
  BY Bounds DEF GTypeOK, TypeOK
<1>3. f \in [A -> 1..m] /\ \A c, d \in A : f[c] = f[d] => c = d
  BY DEF Entered, Injection, IsInjective
<1>4. \A c \in A : admitted[c] \in Int /\ admitted[c] > now - Window /\ hits[w][f[c]] = admitted[c]
  BY DEF Admitted, Entered, GTypeOK
<1> HIDE DEF n, A, m
<1>5. \A c \in A : f[c] \in 1..m /\ ~(f[c] \in 1..n)
  <2> SUFFICES ASSUME NEW c \in A, f[c] \in 1..n PROVE FALSE
    BY <1>3
  <2>1. hits[w][f[c]] <= now - Window
    BY <1>1
  <2> QED
    BY <1>2, <1>4, <2>1
<1>6. \A c \in A : f[c] - n \in 1..(m - n) /\ n + (f[c] - n) = f[c]
  BY <1>1, <1>2, <1>5
<1>7. g \in [A -> 1..(m - n)]
  BY <1>6
<1>8. \A c, d \in A : g[c] = g[d] => c = d
  <2> SUFFICES ASSUME NEW c \in A, NEW d \in A, f[c] - n = f[d] - n PROVE c = d
    OBVIOUS
  <2>1. f[c] = f[d]
    BY <1>1, <1>2, <1>5
  <2> QED
    BY <1>3, <2>1
<1>9. \A c \in A : LiveHits(w)[g[c]] = admitted[c]
  BY <1>1, <1>4, <1>6
<1> HIDE DEF g
<1>10. g \in Injection(A, 1..Len(LiveHits(w)))
  BY <1>1, <1>7, <1>8 DEF Injection, IsInjective
<1> QED
  BY <1>9, <1>10 DEF Entered, A

\* A log bounds the number of requests that are entered in it.
LEMMA EnteredBound ==
    ASSUME NEW w, NEW log, Len(log) \in Nat, NEW f, Entered(f, w, log)
    PROVE  /\ IsFiniteSet(Admitted(w)) /\ Cardinality(Admitted(w)) \in Nat
           /\ Cardinality(Admitted(w)) <= Len(log)
<1>1. IsFiniteSet(1..Len(log)) /\ Cardinality(1..Len(log)) = Len(log)
  <2> DEFINE m == Len(log)
  <2>1. m \in Nat
    OBVIOUS
  <2> HIDE DEF m
  <2>2. IsFiniteSet(1..m) /\ Cardinality(1..m) = IF 1 > m THEN 0 ELSE m - 1 + 1
    BY <2>1, FS_Interval
  <2>3. Cardinality(1..m) = m
    BY <2>1, <2>2
  <2> QED
    BY <2>2, <2>3 DEF m
<1>2. f \in Injection(Admitted(w), 1..Len(log))
  BY DEF Entered
<1>3. IsFiniteSet(Admitted(w)) /\ Cardinality(Admitted(w)) <= Cardinality(1..Len(log))
  BY <1>1, <1>2, FS_Injection
<1> QED
  BY <1>1, <1>3, FS_CardinalityType

\* A step that leaves the limiter, the workers and the clock alone.
LEMMA LimiterStays ==
    ASSUME LimiterInv, UNCHANGED <<worker, admitted, hits, now, crashes>>,
           \A c \in Calls : stage'[c] = "new" => stage[c] = "new"
    PROVE  LimiterInv'
<1> SUFFICES ASSUME crashes = 0 PROVE LimiterInv'
  BY DEF LimiterInv
<1>1. \A w \in Workers : Admitted(w)' = Admitted(w)
  BY DEF Admitted
<1>2. \A w \in Workers, t \in 0..MaxTime : InWindow(w, t)' = InWindow(w, t)
  BY DEF InWindow
<1>3. \A c \in Calls : admitted'[c] <= now' /\ (stage'[c] = "new" => admitted'[c] = -1)
  BY DEF LimiterInv
<1>4. ASSUME NEW w \in Workers PROVE (\E f : Entered(f, w, hits[w]))'
  <2>1. PICK f : Entered(f, w, hits[w])
    BY DEF LimiterInv
  <2>2. Entered(f, w, hits[w])'
    BY <1>1, <2>1 DEF Entered
  <2> QED
    BY <2>2
<1>5. \A w \in Workers, t \in 0..MaxTime :
          (IsFiniteSet(InWindow(w, t)) /\ Cardinality(InWindow(w, t)) <= Limit)'
  BY <1>2 DEF LimiterInv
<1> QED
  BY <1>3, <1>4, <1>5 DEF LimiterInv

\* The clock advances, and some requests leave the last Window.
LEMMA ClockLimiter ==
    ASSUME GTypeOK, LimiterInv, Clock
    PROVE  LimiterInv'
<1> SUFFICES ASSUME crashes = 0 PROVE LimiterInv'
  BY DEF LimiterInv, Clock
<1>1. /\ UNCHANGED <<worker, admitted, hits, stage, crashes>> /\ now' = now + 1
      /\ now \in Nat /\ Window \in Nat
  BY Bounds DEF Clock, Tick, httpVars, limiterVars, GTypeOK, TypeOK
<1>2. \A c \in Calls : admitted[c] \in Int
  BY DEF GTypeOK
<1>3. \A w \in Workers : Admitted(w)' \subseteq Admitted(w)
  BY <1>1, <1>2 DEF Admitted
<1>4. \A w \in Workers, t \in 0..MaxTime : InWindow(w, t)' = InWindow(w, t)
  BY <1>1 DEF InWindow
<1>5. \A c \in Calls : admitted'[c] <= now' /\ (stage'[c] = "new" => admitted'[c] = -1)
  BY <1>1, <1>2 DEF LimiterInv
<1>6. ASSUME NEW w \in Workers PROVE (\E f : Entered(f, w, hits[w]))'
  <2>1. PICK f : Entered(f, w, hits[w])
    BY DEF LimiterInv
  <2> DEFINE A == Admitted(w)'
             g == [c \in A |-> f[c]]
  <2>2. /\ f \in [Admitted(w) -> 1..Len(hits[w])] /\ \A c, d \in Admitted(w) : f[c] = f[d] => c = d
        /\ \A c \in Admitted(w) : hits[w][f[c]] = admitted[c]
    BY <2>1 DEF Entered, Injection, IsInjective
  <2>3. A \subseteq Admitted(w)
    BY <1>3
  <2> HIDE DEF A
  <2>4. /\ g \in [A -> 1..Len(hits[w])] /\ \A c, d \in A : g[c] = g[d] => c = d
        /\ \A c \in A : hits[w][g[c]] = admitted[c]
    BY <2>2, <2>3
  <2>5. PICK k : k = g
    OBVIOUS
  <2> HIDE DEF g
  <2>6. k \in Injection(A, 1..Len(hits[w])) /\ \A c \in A : hits[w][k[c]] = admitted[c]
    BY <2>4, <2>5 DEF Injection, IsInjective
  <2>7. Entered(k, w, hits[w])'
    BY <1>1, <2>6 DEF Entered, A
  <2> QED
    BY <2>7
<1>7. \A w \in Workers, t \in 0..MaxTime :
          (IsFiniteSet(InWindow(w, t)) /\ Cardinality(InWindow(w, t)) <= Limit)'
  BY <1>4 DEF LimiterInv
<1> QED
  BY <1>5, <1>6, <1>7 DEF LimiterInv

\* A request is refused: it is not admitted, and the log is as it was or popped.
LEMMA RefuseLimiter ==
    ASSUME GTypeOK, LimiterInv, NEW c \in Calls, NEW u \in Workers, stage[c] = "new",
           worker' = [worker EXCEPT ![c] = u], UNCHANGED <<now, admitted, crashes>>,
           stage' = [stage EXCEPT ![c] = "done"],
           UNCHANGED hits \/ hits' = [hits EXCEPT ![u] = LiveHits(u)]
    PROVE  LimiterInv'
<1> SUFFICES ASSUME crashes = 0 PROVE LimiterInv'
  BY DEF LimiterInv
<1>1. admitted[c] = -1 /\ \A d \in Calls : worker'[d] = IF d = c THEN u ELSE worker[d]
  BY DEF LimiterInv, GTypeOK
<1>2. \A w \in Workers : Admitted(w)' = Admitted(w)
  BY <1>1 DEF Admitted
<1>3. \A w \in Workers, t \in 0..MaxTime : InWindow(w, t)' = InWindow(w, t)
  <2>1. \A t \in 0..MaxTime : ~(admitted[c] \in t..(t + Window - 1))
    BY <1>1
  <2> QED
    BY <1>1, <2>1 DEF InWindow
<1>4. \A d \in Calls : admitted'[d] <= now' /\ (stage'[d] = "new" => admitted'[d] = -1)
  BY DEF LimiterInv, GTypeOK
<1>5. ASSUME NEW w \in Workers PROVE (\E f : Entered(f, w, hits[w]))'
  <2>1. PICK f : Entered(f, w, hits[w])
    BY DEF LimiterInv
  <2>2. PICK g : Entered(g, w, LiveHits(w))
    BY <2>1, EnteredAfterPop
  <2>3. hits'[w] = hits[w] \/ hits'[w] = LiveHits(w)
    BY DEF GTypeOK
  <2>4. Entered(f, w, hits[w])' \/ Entered(g, w, hits[w])'
    BY <1>2, <2>1, <2>2, <2>3 DEF Entered
  <2> QED
    BY <2>4
<1>6. \A w \in Workers, t \in 0..MaxTime :
          (IsFiniteSet(InWindow(w, t)) /\ Cardinality(InWindow(w, t)) <= Limit)'
  BY <1>3 DEF LimiterInv
<1> QED
  BY <1>4, <1>5, <1>6 DEF LimiterInv

\* A request is admitted: it gets the new last entry, and the windows it falls
\* into hold only requests of the last Window, fewer than Limit before it.
LEMMA AdmitLimiter ==
    ASSUME GTypeOK, LimiterInv, NEW c \in Calls, NEW u \in Workers, stage[c] = "new",
           worker' = [worker EXCEPT ![c] = u], UNCHANGED <<now, crashes>>,
           NEW g \in Stages \ {"new"}, stage' = [stage EXCEPT ![c] = g],
           admitted' = [admitted EXCEPT ![c] = now],
           hits' = [hits EXCEPT ![u] = Append(LiveHits(u), now)], ~(Len(LiveHits(u)) >= Limit)
    PROVE  LimiterInv'
<1> SUFFICES ASSUME crashes = 0 PROVE LimiterInv'
  BY DEF LimiterInv
<1>1. /\ admitted[c] = -1 /\ \A d \in Calls : worker'[d] = IF d = c THEN u ELSE worker[d]
      /\ \A d \in Calls : admitted'[d] = IF d = c THEN now ELSE admitted[d]
      /\ \A d \in Calls : admitted[d] \in Int /\ admitted[d] <= now
      /\ now \in Nat /\ Window \in Nat /\ Limit \in Nat /\ MaxTime \in Nat
  BY Bounds DEF LimiterInv, GTypeOK, TypeOK
<1>2. /\ LiveHits(u) \in Seq(0..MaxTime) /\ Len(LiveHits(u)) \in Nat /\ now \in 0..MaxTime
  <2>1. LiveHits(u) \in Seq(0..MaxTime)
    BY LiveHitsFacts
  <2> QED
    BY <2>1 DEF GTypeOK, TypeOK
<1>3. PICK f : Entered(f, u, LiveHits(u))
  BY EnteredAfterPop DEF LimiterInv
<1>4. /\ IsFiniteSet(Admitted(u)) /\ Cardinality(Admitted(u)) \in Nat
      /\ Cardinality(Admitted(u)) + 1 <= Limit
  <2>1. /\ IsFiniteSet(Admitted(u)) /\ Cardinality(Admitted(u)) \in Nat
        /\ Cardinality(Admitted(u)) <= Len(LiveHits(u))
    BY <1>2, <1>3, EnteredBound
  <2> QED
    BY <1>1, <1>2, <2>1
<1>5. c \notin Admitted(u) /\ Admitted(u)' \subseteq Admitted(u) \cup {c}
      /\ \A w \in Workers \ {u} : Admitted(w)' = Admitted(w)
  BY <1>1 DEF Admitted
<1>6. \A d \in Calls : admitted'[d] <= now' /\ (stage'[d] = "new" => admitted'[d] = -1)
  <2>1. \A d \in Calls : d # c => stage'[d] = stage[d]
    BY DEF GTypeOK
  <2>2. stage'[c] # "new"
    BY DEF GTypeOK
  <2> QED
    BY <1>1, <2>1, <2>2 DEF LimiterInv
<1>7. (\E h : Entered(h, u, hits[u]))'
  <2> DEFINE A == Admitted(u)'
             m == Len(LiveHits(u))
             h == [d \in A |-> IF d = c THEN m + 1 ELSE f[d]]
             log == Append(LiveHits(u), now)
  <2>1. /\ f \in [Admitted(u) -> 1..m] /\ \A d, e \in Admitted(u) : f[d] = f[e] => d = e
        /\ \A d \in Admitted(u) : LiveHits(u)[f[d]] = admitted[d]
    BY <1>3 DEF Entered, Injection, IsInjective
  <2>2. /\ m \in Nat /\ Len(log) = m + 1 /\ log[m + 1] = now
        /\ \A i \in 1..m : log[i] = LiveHits(u)[i]
    BY <1>2
  <2>3. \A d \in A : d # c => d \in Admitted(u)
    BY <1>5
  <2>4. hits'[u] = log
    BY DEF GTypeOK
  <2>5. \A d \in A : d \in Calls
    BY DEF Admitted
  <2> HIDE DEF A, log, m
  <2>6. h \in [A -> 1..(m + 1)]
    BY <2>1, <2>2, <2>3
  <2>7. \A d, e \in A : h[d] = h[e] => d = e
    <3>1. \A d \in A : d # c => f[d] \in 1..m /\ f[d] # m + 1
      BY <2>1, <2>2, <2>3
    <3> QED
      BY <2>1, <2>3, <3>1
  <2>8. \A d \in A : log[h[d]] = admitted'[d]
    <3>1. ASSUME NEW d \in A, d = c PROVE log[h[d]] = admitted'[d]
      BY <1>1, <2>2, <3>1
    <3>2. ASSUME NEW d \in A, d # c PROVE log[h[d]] = admitted'[d]
      <4>1. h[d] = f[d] /\ f[d] \in 1..m /\ LiveHits(u)[f[d]] = admitted[d]
        BY <2>1, <2>3, <3>2
      <4> QED
        BY <1>1, <2>2, <2>5, <3>2, <4>1
    <3> QED
      BY <3>1, <3>2
  <2>9. PICK k : k = h
    OBVIOUS
  <2> HIDE DEF h
  <2>10. k \in Injection(A, 1..Len(log)) /\ \A d \in A : log[k[d]] = admitted'[d]
    BY <2>2, <2>6, <2>7, <2>8, <2>9 DEF Injection, IsInjective
  <2>11. Entered(k, u, hits[u])'
    BY <2>4, <2>10 DEF Entered, A
  <2> QED
    BY <2>11
<1>8. ASSUME NEW w \in Workers, w # u PROVE (\E h : Entered(h, w, hits[w]))'
  <2>1. PICK h : Entered(h, w, hits[w])
    BY DEF LimiterInv
  <2>2. hits'[w] = hits[w] /\ \A d \in Admitted(w) : admitted'[d] = admitted[d]
    <3>1. c \notin Admitted(w)
      BY <1>1 DEF Admitted
    <3> QED
      BY <1>1, <1>8, <3>1 DEF GTypeOK, Admitted
  <2>3. Entered(h, w, hits[w])'
    BY <1>5, <1>8, <2>1, <2>2 DEF Entered
  <2> QED
    BY <2>3
<1>9. ASSUME NEW w \in Workers, NEW t \in 0..MaxTime
      PROVE  IsFiniteSet(InWindow(w, t)') /\ Cardinality(InWindow(w, t)') <= Limit
  <2>1. CASE w = u /\ now \in t..(t + Window - 1)
    <3>1. InWindow(w, t)' \subseteq Admitted(u) \cup {c}
      BY <1>1, <2>1 DEF InWindow, Admitted
    <3>2. /\ IsFiniteSet(Admitted(u) \cup {c})
          /\ Cardinality(Admitted(u) \cup {c}) = Cardinality(Admitted(u)) + 1
      BY <1>4, <1>5, FS_AddElement
    <3>3. /\ IsFiniteSet(InWindow(w, t)')
          /\ Cardinality(InWindow(w, t)') <= Cardinality(Admitted(u) \cup {c})
      BY <3>1, <3>2, FS_Subset
    <3>4. Cardinality(InWindow(w, t)') \in Nat
      BY <3>3, FS_CardinalityType
    <3> QED
      BY <1>1, <1>4, <3>2, <3>3, <3>4
  <2>2. CASE ~(w = u /\ now \in t..(t + Window - 1))
    <3>1. ~(admitted[c] \in t..(t + Window - 1))
      BY <1>1
    <3>2. InWindow(w, t)' = InWindow(w, t)
      BY <1>1, <2>2, <3>1 DEF InWindow
    <3> QED
      BY <3>2 DEF LimiterInv
  <2> QED
    BY <2>1, <2>2
<1>10. \A w \in Workers, t \in 0..MaxTime :
          (IsFiniteSet(InWindow(w, t)) /\ Cardinality(InWindow(w, t)) <= Limit)'
  BY <1>9
<1>11. \A w \in Workers : (\E h : Entered(h, w, hits[w]))'
  BY <1>7, <1>8
<1> QED
  BY <1>6, <1>10, <1>11 DEF LimiterInv

\* Every step keeps the limiter's invariant; a crash ends what it claims.
LEMMA NextLimiter ==
    ASSUME ServiceInv, LimiterInv, [GNext]_gvars
    PROVE  LimiterInv'
<1>0. GTypeOK /\ stage \in [Calls -> Stages]
  BY DEF ServiceInv, HandlerInv
<1>1. ASSUME NEW c \in Calls, NEW u \in SentTo[c], Arrive(c, u) PROVE LimiterInv'
  <2>1. /\ stage[c] = "new" /\ worker' = [worker EXCEPT ![c] = u] /\ u \in Workers
        /\ UNCHANGED <<now, crashes>>
    BY <1>1, RequestFacts DEF Arrive, vars
  <2>2. CASE Refusal(c, u) # 0 \/ Len(LiveHits(u)) >= Limit
    <3>1. /\ UNCHANGED admitted /\ stage' = [stage EXCEPT ![c] = "done"]
          /\ UNCHANGED hits \/ hits' = [hits EXCEPT ![u] = LiveHits(u)]
      BY <1>1, <2>2 DEF Arrive, Answer, limiterVars
    <3> QED
      BY <1>0, <2>1, <3>1, RefuseLimiter
  <2>3. CASE Refusal(c, u) = 0 /\ ~(Len(LiveHits(u)) >= Limit)
    <3> DEFINE g == IF u \in PaidWorkers THEN "verify" ELSE "serve"
    <3>1. /\ admitted' = [admitted EXCEPT ![c] = now] /\ stage' = [stage EXCEPT ![c] = g]
          /\ hits' = [hits EXCEPT ![u] = Append(LiveHits(u), now)]
      BY <1>1, <2>3 DEF Arrive
    <3>2. g \in Stages \ {"new"}
      BY DEF Stages
    <3> HIDE DEF g
    <3> QED
      BY <1>0, <2>1, <2>3, <3>1, <3>2, AdmitLimiter
  <2> QED
    BY <2>2, <2>3
<1>2. ASSUME NEW c \in Calls, HandlerStep(c) \/ RedeemRaises(c) \/ RecordRaises(c)
      PROVE  LimiterInv'
  <2>1. UNCHANGED <<worker, hits, admitted, crashes>>
    BY <1>2 DEF HandlerStep, RedeemRaises, RecordRaises, StartVerify, StartCommit, RedeemStep, Verified,
                Serve, RuntimeFails, PaymentRequired, Record, Respond, httpVars, limiterVars
  <2>2. UNCHANGED now
    <3>1. CASE StartVerify(c) \/ StartCommit(c)
      BY <3>1 DEF StartVerify, StartCommit, Begin
    <3>2. CASE RedeemStep(c)
      BY <3>2 DEF RedeemStep, Step, Check, Tally, Spend, Unspend
    <3>3. CASE RedeemRaises(c)
      BY <3>3 DEF RedeemRaises, Raise
    <3>4. CASE \/ Verified(c) \/ Serve(c) \/ RuntimeFails(c) \/ PaymentRequired(c) \/ Record(c)
               \/ Respond(c) \/ RecordRaises(c)
      BY <3>4 DEF Verified, Serve, RuntimeFails, PaymentRequired, Record, Respond, RecordRaises, vars
    <3> QED
      BY <1>2, <3>1, <3>2, <3>3, <3>4 DEF HandlerStep
  <2>3. UNCHANGED stage \/ \E g \in Stages \ {"new"} : stage' = [stage EXCEPT ![c] = g]
    <3>1. CASE StartVerify(c) \/ StartCommit(c) \/ RedeemStep(c)
      BY <3>1 DEF StartVerify, StartCommit, RedeemStep, httpVars
    <3>2. CASE Verified(c) \/ Serve(c) \/ Record(c)
      BY <3>2 DEF Verified, Serve, Record, Stages
    <3>3. CASE RedeemRaises(c) \/ RuntimeFails(c) \/ PaymentRequired(c) \/ Respond(c) \/ RecordRaises(c)
      BY <3>3 DEF RedeemRaises, RuntimeFails, PaymentRequired, Respond, RecordRaises, Answer, Stages
    <3> QED
      BY <1>2, <3>1, <3>2, <3>3 DEF HandlerStep
  <2>4. \A d \in Calls : stage'[d] = "new" => stage[d] = "new"
    BY <1>0, <2>3
  <2> QED
    BY <2>1, <2>2, <2>4, LimiterStays
<1>3. ASSUME NEW w \in Workers, Crash(w) PROVE LimiterInv'
  <2>1. crashes' # 0
    BY <1>0, <1>3, Bounds DEF Crash, GTypeOK
  <2> QED
    BY <2>1 DEF LimiterInv
<1>4. CASE Clock
  BY <1>0, <1>4, ClockLimiter
<1>5. CASE UNCHANGED gvars
  BY <1>5, LimiterStays DEF gvars, vars
<1> QED
  BY <1>1, <1>2, <1>3, <1>4, <1>5 DEF GNext

\* Nobody has been admitted at the start.
LEMMA InitLimiter == GInit => LimiterInv
<1> SUFFICES ASSUME GInit PROVE LimiterInv
  OBVIOUS
<1>1. now = 0 /\ \A c \in Calls : admitted[c] = -1
  BY DEF GInit, Init
<1>2. \A c \in Calls : admitted[c] <= now
  BY <1>1
<1>3. ASSUME NEW w \in Workers PROVE \E f : Entered(f, w, hits[w])
  <2>1. Admitted(w) = {}
    BY <1>1 DEF Admitted
  <2>2. [c \in {} |-> 1] \in Injection({}, 1..Len(hits[w]))
    BY DEF Injection, IsInjective
  <2> QED
    BY <2>1, <2>2 DEF Entered
<1>4. ASSUME NEW w \in Workers, NEW t \in 0..MaxTime
      PROVE  IsFiniteSet(InWindow(w, t)) /\ Cardinality(InWindow(w, t)) <= Limit
  <2>1. InWindow(w, t) = {}
    BY <1>1, Bounds DEF InWindow
  <2> QED
    BY <2>1, FS_EmptySet, Bounds
<1> QED
  BY <1>1, <1>2, <1>3, <1>4 DEF LimiterInv

\* No Window holds more admissions of one worker than the limit, wherever the
\* window starts, for any number of requests and any arrival times.
THEOREM RateLimitHoldsAlways == GSpec => []RateLimitHolds
<1>1. LimiterInv => RateLimitHolds
  BY DEF LimiterInv, RateLimitHolds, InWindow
<1>2. ServiceInv /\ LimiterInv /\ [GNext]_gvars => LimiterInv'
  BY NextLimiter
<1> QED
  BY <1>1, <1>2, InitLimiter, ServiceInvHolds, PTL DEF GSpec

-----------------------------------------------------------------------------
(***************************************************************************)
(* The ledger, when every worker has a file of its own.  The list in       *)
(* memory runs ahead of the file by the entries whose _save raised; a      *)
(* restart forgets those.  A restart that cannot read the file begins an   *)
(* empty list: what is in either of the two is right, but from then on the *)
(* file need not hold what was answered.                                   *)
(***************************************************************************)
OwnLedger == \A u, w \in Workers : LedgerOf[u] = LedgerOf[w] => u = w

\* The list of a worker and the one in its file.
LogsOf(w) == {mem[w], disk[LedgerOf[w]]}

\* Log s is an initial part of log t.
ExtendedBy(s, t) == Len(s) <= Len(t) /\ \A i \in 1..Len(s) : s[i] = t[i]

\* No restart of the worker failed to read its file.
HasRead(w) == LedgerOf[w] \notin unread

\* The file is an initial part of the list.
Written == \A w \in Workers : HasRead(w) => ExtendedBy(disk[LedgerOf[w]], mem[w])

\* An entry is of a request that this worker has charged, at its price.
Faithful ==
    \A w \in Workers : \A log \in LogsOf(w) : \A i \in 1..Len(log) :
        /\ worker[log[i].ref] = w /\ stage[log[i].ref] \in {"respond", "done"}
        /\ log[i].amount = Price[log[i].ref]

\* No request has two entries.
EnteredOnce ==
    \A w \in Workers : \A log \in LogsOf(w) :
        \A i, j \in 1..Len(log) : log[i].ref = log[j].ref => i = j

\* A paid request that is answered, or about to be, is in the file.
LogOf(c) == disk[LedgerOf[worker[c]]]
InFile(c) == \E i \in 1..Len(LogOf(c)) : LogOf(c)[i].ref = c
Filed ==
    \A c \in Calls :
        /\ worker[c] \in PaidWorkers /\ HasRead(worker[c])
        /\ stage[c] = "respond" \/ status[c] = 200
        => InFile(c)

\* A paid receipt states the price.
Stated == \A c \in Calls : worker[c] \in PaidWorkers /\ status[c] = 200 => receipt[c].price = Price[c]

LedgerInv == OwnLedger => Written /\ Faithful /\ EnteredOnce /\ Filed /\ Stated

\* The logs of the workers, and the file of each.
LEMMA LogTypes ==
    ASSUME GTypeOK, NEW w \in Workers
    PROVE  /\ LedgerOf[w] \in Ledgers
           /\ mem[w] \in Seq([ref : Calls, amount : Nat]) /\ Len(mem[w]) \in Nat
           /\ disk[LedgerOf[w]] \in Seq([ref : Calls, amount : Nat]) /\ Len(disk[LedgerOf[w]]) \in Nat
           /\ \A log \in LogsOf(w) :
                  /\ log \in Seq([ref : Calls, amount : Nat]) /\ Len(log) \in Nat
                  /\ \A i \in 1..Len(log) : log[i] \in [ref : Calls, amount : Nat]
<1>1. LedgerOf[w] \in Ledgers
  BY GatewayAssumption DEF Ledgers, Range
<1>2. mem[w] \in Seq([ref : Calls, amount : Nat]) /\ disk[LedgerOf[w]] \in Seq([ref : Calls, amount : Nat])
  BY <1>1 DEF GTypeOK
<1>3. ASSUME NEW log \in LogsOf(w)
      PROVE  /\ log \in Seq([ref : Calls, amount : Nat]) /\ Len(log) \in Nat
             /\ \A i \in 1..Len(log) : log[i] \in [ref : Calls, amount : Nat]
  <2>1. log \in Seq([ref : Calls, amount : Nat])
    BY <1>2 DEF LogsOf
  <2>2. \A i \in 1..Len(log) : log[i] \in [ref : Calls, amount : Nat]
    BY <2>1, ElementOfSeq
  <2>3. Len(log) \in Nat
    BY <2>1
  <2> QED
    BY <2>1, <2>2, <2>3
<1>4. mem[w] \in LogsOf(w) /\ disk[LedgerOf[w]] \in LogsOf(w)
  BY DEF LogsOf
<1> QED
  BY <1>1, <1>2, <1>3, <1>4

\* A step that leaves the logs alone.
LEMMA LedgerStays ==
    ASSUME GTypeOK, LedgerInv, UNCHANGED <<mem, disk, unread>>,
           \A c \in Calls : stage[c] \in {"respond", "done"} =>
               stage'[c] \in {"respond", "done"} /\ worker'[c] = worker[c],
           \A c \in Calls : stage'[c] = "respond" /\ worker'[c] \in PaidWorkers =>
               stage[c] = "respond" /\ worker'[c] = worker[c],
           \A c \in Calls : status'[c] = 200 =>
               /\ worker'[c] = worker[c]
               /\ \/ status[c] = 200 /\ receipt'[c] = receipt[c]
                  \/ stage[c] = "respond" /\ (worker[c] \in PaidWorkers => receipt'[c].price = Price[c])
    PROVE  LedgerInv'
<1> SUFFICES ASSUME OwnLedger PROVE (Written /\ Faithful /\ EnteredOnce /\ Filed /\ Stated)'
  BY DEF LedgerInv, OwnLedger
<1>1. Written' /\ EnteredOnce'
  BY DEF LedgerInv, Written, EnteredOnce, ExtendedBy, LogsOf, HasRead
<1>2. Faithful'
  <2> SUFFICES ASSUME NEW w \in Workers, NEW log \in LogsOf(w), NEW i \in 1..Len(log)
               PROVE  /\ worker'[log[i].ref] = w /\ stage'[log[i].ref] \in {"respond", "done"}
                      /\ log[i].amount = Price[log[i].ref]
    BY DEF Faithful, LogsOf
  <2>1. log[i].ref \in Calls
    BY LogTypes
  <2> QED
    BY <2>1 DEF LedgerInv, Faithful
<1>3. Filed'
  <2> SUFFICES ASSUME NEW c \in Calls, worker'[c] \in PaidWorkers, HasRead(worker[c])',
                      stage'[c] = "respond" \/ status'[c] = 200
               PROVE  InFile(c)'
    BY DEF Filed
  <2>1. worker'[c] = worker[c] /\ (stage[c] = "respond" \/ status[c] = 200)
    OBVIOUS
  <2>2. InFile(c)
    BY <2>1 DEF LedgerInv, Filed, HasRead
  <2> QED
    BY <2>1, <2>2 DEF InFile, LogOf
<1>4. Stated'
  BY DEF LedgerInv, Stated
<1> QED
  BY <1>1, <1>2, <1>3, <1>4

\* Ledger.record, whether its _save succeeds or raises.
LEMMA RecordLedger ==
    ASSUME ServiceInv, LedgerInv, NEW c \in Calls, Record(c) \/ RecordRaises(c)
    PROVE  LedgerInv'
<1> SUFFICES ASSUME OwnLedger PROVE (Written /\ Faithful /\ EnteredOnce /\ Filed /\ Stated)'
  BY DEF LedgerInv, OwnLedger
<1> DEFINE u == worker[c]
           m == Len(mem[u])
<1>0. GTypeOK /\ stage[c] = "commit" /\ UNCHANGED <<worker, receipt, unread>>
      /\ mem' = [mem EXCEPT ![u] = Append(@, Entry(c))] /\ status[c] = 0
  BY DEF Record, RecordRaises, ServiceInv, HandlerInv, StageBoundsPhase
<1>1. u \in Workers
  BY <1>0 DEF ServiceInv, Screened, Active
<1>2. \/ disk' = [disk EXCEPT ![LedgerOf[u]] = mem'[u]] /\ stage' = [stage EXCEPT ![c] = "respond"]
         /\ UNCHANGED status
      \/ UNCHANGED disk /\ stage' = [stage EXCEPT ![c] = "done"] /\ status' = [status EXCEPT ![c] = 500]
  BY DEF Record, RecordRaises, Answer
<1>3. /\ \A d \in Calls \ {c} : stage'[d] = stage[d] /\ status'[d] = status[d]
      /\ stage'[c] \in {"respond", "done"} /\ status'[c] # 200
  BY <1>0, <1>2 DEF GTypeOK
<1>4. /\ m \in Nat /\ Len(mem'[u]) = m + 1 /\ mem'[u][m + 1] = Entry(c)
      /\ \A i \in 1..m : mem'[u][i] = mem[u][i]
      /\ \A w \in Workers \ {u} : mem'[w] = mem[w]
  <2>1. mem[u] \in Seq([ref : Calls, amount : Nat]) /\ m \in Nat
    BY <1>0, <1>1, LogTypes
  <2>2. mem'[u] = Append(mem[u], Entry(c)) /\ \A w \in Workers \ {u} : mem'[w] = mem[w]
    BY <1>0, <1>1 DEF GTypeOK
  <2> QED
    BY <2>1, <2>2
<1>5. \A w \in Workers \ {u} : disk'[LedgerOf[w]] = disk[LedgerOf[w]]
  <2> SUFFICES ASSUME NEW w \in Workers \ {u} PROVE disk'[LedgerOf[w]] = disk[LedgerOf[w]]
    OBVIOUS
  <2>1. LedgerOf[w] # LedgerOf[u] /\ LedgerOf[w] \in Ledgers
    BY <1>0, <1>1, LogTypes DEF OwnLedger
  <2> QED
    BY <1>0, <1>2, <2>1 DEF GTypeOK
<1>6. disk'[LedgerOf[u]] = mem'[u] \/ (disk'[LedgerOf[u]] = disk[LedgerOf[u]] /\ stage'[c] # "respond")
  <2>1. LedgerOf[u] \in Ledgers
    BY <1>0, <1>1, LogTypes
  <2> QED
    BY <1>0, <1>2, <2>1 DEF GTypeOK
<1>7. \A w \in Workers : \A log \in LogsOf(w) : \A i \in 1..Len(log) : log[i].ref \in Calls /\ log[i].ref # c
  <2> SUFFICES ASSUME NEW w \in Workers, NEW log \in LogsOf(w), NEW i \in 1..Len(log)
               PROVE  log[i].ref \in Calls /\ log[i].ref # c
    OBVIOUS
  <2>1. log[i].ref \in Calls
    BY <1>0, LogTypes
  <2> QED
    BY <1>0, <2>1 DEF LedgerInv, Faithful
<1>8. Entry(c).ref = c /\ Entry(c).amount = Price[c]
  BY DEF Entry
<1> HIDE DEF u, m
<1>9. Written'
  <2> SUFFICES ASSUME NEW w \in Workers, HasRead(w) PROVE ExtendedBy(disk'[LedgerOf[w]], mem'[w])
    BY <1>0 DEF Written, ExtendedBy, HasRead
  <2>1. CASE w # u
    BY <1>4, <1>5, <2>1 DEF LedgerInv, Written
  <2>2. CASE w = u /\ disk'[LedgerOf[u]] = mem'[u]
    BY <1>4, <2>2 DEF ExtendedBy
  <2>3. CASE w = u /\ disk'[LedgerOf[u]] = disk[LedgerOf[u]]
    <3>1. ExtendedBy(disk[LedgerOf[u]], mem[u]) /\ Len(disk[LedgerOf[u]]) \in Nat
      BY <1>0, <1>1, <2>3, LogTypes DEF LedgerInv, Written
    <3>2. Len(disk[LedgerOf[u]]) <= m
      BY <3>1 DEF ExtendedBy, m
    <3> QED
      BY <1>4, <2>3, <3>1, <3>2 DEF ExtendedBy
  <2> QED
    BY <1>6, <2>1, <2>2, <2>3
<1>10. ASSUME NEW w \in Workers, NEW log \in LogsOf(w)'
       PROVE  log \in LogsOf(w) \/ (w = u /\ log = mem'[u])
  <2>1. log = mem'[w] \/ log = disk'[LedgerOf[w]]
    BY DEF LogsOf
  <2> QED
    BY <1>4, <1>5, <1>6, <2>1 DEF LogsOf
<1>11. \A i \in 1..Len(mem'[u]) : i = m + 1 \/ (i \in 1..m /\ mem'[u][i] = mem[u][i])
  BY <1>4
<1>12. mem[u] \in LogsOf(u) /\ m = Len(mem[u])
  BY DEF LogsOf, m
<1>13. Faithful'
  <2> SUFFICES ASSUME NEW w \in Workers, NEW log \in LogsOf(w)', NEW i \in 1..Len(log)
               PROVE  /\ worker[log[i].ref] = w /\ stage'[log[i].ref] \in {"respond", "done"}
                      /\ log[i].amount = Price[log[i].ref]
    BY <1>0 DEF Faithful
  <2>1. ASSUME NEW old \in LogsOf(w), NEW j \in 1..Len(old)
        PROVE  /\ worker[old[j].ref] = w /\ stage'[old[j].ref] \in {"respond", "done"}
               /\ old[j].amount = Price[old[j].ref]
    BY <1>3, <1>7 DEF LedgerInv, Faithful
  <2>2. CASE w = u /\ log = mem'[u]
    <3>1. CASE i = m + 1
      BY <1>3, <1>4, <1>8, <2>2, <3>1 DEF u
    <3>2. CASE i \in 1..m /\ mem'[u][i] = mem[u][i]
      BY <1>12, <2>1, <2>2, <3>2
    <3> QED
      BY <1>11, <2>2, <3>1, <3>2
  <2> QED
    BY <1>10, <2>1, <2>2
<1>14. EnteredOnce'
  <2> SUFFICES ASSUME NEW w \in Workers, NEW log \in LogsOf(w)',
                      NEW i \in 1..Len(log), NEW j \in 1..Len(log), log[i].ref = log[j].ref
               PROVE  i = j
    BY DEF EnteredOnce
  <2>1. CASE log \in LogsOf(w)
    BY <2>1 DEF LedgerInv, EnteredOnce
  <2>2. CASE w = u /\ log = mem'[u]
    <3>1. CASE i = m + 1 /\ j \in 1..m
      BY <1>1, <1>4, <1>7, <1>8, <1>12, <2>2, <3>1
    <3>2. CASE j = m + 1 /\ i \in 1..m
      BY <1>1, <1>4, <1>7, <1>8, <1>12, <2>2, <3>2
    <3>3. CASE i \in 1..m /\ j \in 1..m
      BY <1>1, <1>4, <1>12, <2>2, <3>3 DEF LedgerInv, EnteredOnce
    <3> QED
      BY <1>11, <2>2, <3>1, <3>2, <3>3
  <2> QED
    BY <1>10, <2>1, <2>2
<1>15. Filed'
  <2> SUFFICES ASSUME NEW d \in Calls, worker[d] \in PaidWorkers, HasRead(worker[d]),
                      stage'[d] = "respond" \/ status'[d] = 200
               PROVE  InFile(d)'
    BY <1>0 DEF Filed, HasRead
  <2>1. worker[d] \in Workers
    BY GatewayAssumption
  <2>2. CASE d = c
    <3>1. disk'[LedgerOf[u]] = mem'[u] /\ worker'[d] = u
      BY <1>0, <1>3, <1>6, <2>2 DEF u
    <3> QED
      BY <1>4, <1>8, <2>2, <3>1 DEF InFile, LogOf
  <2>3. CASE d # c
    <3>1. PICK i \in 1..Len(LogOf(d)) : LogOf(d)[i].ref = d
      BY <1>3, <2>3 DEF LedgerInv, Filed, InFile
    <3>2. i \in 1..Len(disk'[LedgerOf[worker[d]]]) /\ disk'[LedgerOf[worker[d]]][i] = LogOf(d)[i]
      <4>1. CASE disk'[LedgerOf[worker[d]]] = disk[LedgerOf[worker[d]]]
        BY <3>1, <4>1 DEF LogOf
      <4>2. CASE worker[d] = u /\ disk'[LedgerOf[u]] = mem'[u]
        <5>1. ExtendedBy(disk[LedgerOf[u]], mem[u]) /\ Len(disk[LedgerOf[u]]) \in Nat
          BY <1>0, <1>1, <4>2, LogTypes DEF LedgerInv, Written
        <5>2. i \in 1..m /\ mem[u][i] = LogOf(d)[i]
          BY <1>4, <3>1, <4>2, <5>1 DEF ExtendedBy, LogOf, m
        <5> QED
          BY <1>4, <4>2, <5>2
      <4> QED
        BY <1>5, <1>6, <2>1, <4>1, <4>2
    <3> QED
      BY <1>0, <3>1, <3>2 DEF InFile, LogOf
  <2> QED
    BY <2>2, <2>3
<1>16. Stated'
  BY <1>0, <1>3 DEF LedgerInv, Stated
<1> QED
  BY <1>9, <1>13, <1>14, <1>15, <1>16

\* A worker is restarted with the ledger that is in its file, or with none.
LEMMA CrashLedger ==
    ASSUME ServiceInv, LedgerInv, NEW u \in Workers, Crash(u)
    PROVE  LedgerInv'
<1> SUFFICES ASSUME OwnLedger PROVE (Written /\ Faithful /\ EnteredOnce /\ Filed /\ Stated)'
  BY DEF LedgerInv, OwnLedger
<1>0. /\ GTypeOK /\ UNCHANGED <<worker, receipt, disk>> /\ unread \subseteq unread'
      /\ \/ mem' = [mem EXCEPT ![u] = disk[LedgerOf[u]]]
         \/ mem' = [mem EXCEPT ![u] = <<>>] /\ LedgerOf[u] \in unread'
  BY DEF Crash, Reload, LoadLedger, ServiceInv
<1>1. /\ \A c \in Calls : stage[c] \in {"respond", "done"} => stage'[c] \in {"respond", "done"}
      /\ \A c \in Calls : stage'[c] = "respond" => stage[c] = "respond"
      /\ \A c \in Calls : status'[c] = 200 => status[c] = 200
  <2>1. CASE UNCHANGED <<stage, status>>
    BY <2>1
  <2>2. ASSUME NEW c \in Calls, Answer(c, -1)
        PROVE  /\ \A d \in Calls : stage[d] \in {"respond", "done"} => stage'[d] \in {"respond", "done"}
               /\ \A d \in Calls : stage'[d] = "respond" => stage[d] = "respond"
               /\ \A d \in Calls : status'[d] = 200 => status[d] = 200
    BY <1>0, <2>2 DEF Answer, GTypeOK
  <2> QED
    BY <2>1, <2>2 DEF Crash, RunBy
<1>2. \A w \in Workers : w # u => mem'[w] = mem[w]
  BY <1>0 DEF GTypeOK
<1>3. mem'[u] = disk[LedgerOf[u]] \/ (mem'[u] = <<>> /\ LedgerOf[u] \in unread')
  BY <1>0 DEF GTypeOK
<1>4. ASSUME NEW w \in Workers, NEW log \in LogsOf(w)' PROVE log \in LogsOf(w) \/ log = <<>>
  BY <1>0, <1>2, <1>3 DEF LogsOf
<1>5. Written'
  <2> SUFFICES ASSUME NEW w \in Workers, HasRead(w)' PROVE ExtendedBy(disk[LedgerOf[w]], mem'[w])
    BY <1>0 DEF Written, ExtendedBy
  <2>1. CASE w = u
    <3>1. mem'[w] = disk[LedgerOf[w]] /\ Len(disk[LedgerOf[w]]) \in Nat
      BY <1>0, <1>3, <2>1, LogTypes DEF HasRead
    <3> QED
      BY <3>1 DEF ExtendedBy
  <2>2. CASE w # u
    BY <1>0, <1>2, <2>2 DEF LedgerInv, Written, HasRead
  <2> QED
    BY <2>1, <2>2
<1>6. Faithful'
  <2> SUFFICES ASSUME NEW w \in Workers, NEW log \in LogsOf(w)', NEW i \in 1..Len(log)
               PROVE  /\ worker'[log[i].ref] = w /\ stage'[log[i].ref] \in {"respond", "done"}
                      /\ log[i].amount = Price[log[i].ref]
    BY DEF Faithful
  <2>1. log \in LogsOf(w)
    BY <1>4
  <2>2. log[i].ref \in Calls
    BY <1>0, <2>1, LogTypes
  <2> QED
    BY <1>0, <1>1, <2>1, <2>2 DEF LedgerInv, Faithful
<1>7. EnteredOnce'
  <2> SUFFICES ASSUME NEW w \in Workers, NEW log \in LogsOf(w)',
                      NEW i \in 1..Len(log), NEW j \in 1..Len(log), log[i].ref = log[j].ref
               PROVE  i = j
    BY DEF EnteredOnce
  <2>1. log \in LogsOf(w)
    BY <1>4
  <2> QED
    BY <2>1 DEF LedgerInv, EnteredOnce
<1>8. Filed' /\ Stated'
  BY <1>0, <1>1 DEF LedgerInv, Filed, Stated, InFile, LogOf, HasRead
<1> QED
  BY <1>5, <1>6, <1>7, <1>8

\* Every step keeps the ledger's invariant.
LEMMA NextLedger ==
    ASSUME ServiceInv, LedgerInv, [GNext]_gvars
    PROVE  LedgerInv'
<1>0. GTypeOK
  BY DEF ServiceInv
<1>1. ASSUME NEW c \in Calls, NEW w \in SentTo[c], Arrive(c, w) PROVE LedgerInv'
  <2>1. /\ stage[c] = "new" /\ worker' = [worker EXCEPT ![c] = w] /\ UNCHANGED <<mem, disk, unread, receipt>>
        /\ status[c] = 0
    BY <1>1 DEF Arrive, ledgerVars, ServiceInv, HandlerInv, StageBoundsPhase
  <2>2. \A d \in Calls \ {c} : worker'[d] = worker[d] /\ stage'[d] = stage[d] /\ status'[d] = status[d]
    BY <1>0, <1>1, <2>1 DEF Arrive, Answer, GTypeOK
  <2>3. stage'[c] # "respond" /\ status'[c] # 200
    <3>1. Refusal(c, w) # 200
      BY DEF Refusal
    <3> QED
      BY <1>0, <1>1, <2>1, <3>1 DEF Arrive, Answer, GTypeOK
  <2> QED
    BY <1>0, <2>1, <2>2, <2>3, LedgerStays
<1>2. ASSUME NEW c \in Calls, Record(c) \/ RecordRaises(c) PROVE LedgerInv'
  BY <1>2, RecordLedger
<1>3. ASSUME NEW c \in Calls, Respond(c) PROVE LedgerInv'
  <2>1. /\ stage[c] = "respond" /\ UNCHANGED <<worker, mem, disk, unread>>
        /\ \A d \in Calls : stage'[d] = IF d = c THEN "done" ELSE stage[d]
        /\ \A d \in Calls : status'[d] = IF d = c THEN 200 ELSE status[d]
    BY <1>0, <1>3 DEF Respond, Answer, ledgerVars, GTypeOK
  <2>2. PICK u \in Usage : receipt' = [receipt EXCEPT ![c] = ReceiptOf(c, u)]
    BY <1>3 DEF Respond, ReceiptOf
  <2>3. \A d \in Calls \ {c} : receipt'[d] = receipt[d]
    BY <1>0, <2>2 DEF GTypeOK
  <2>4. worker[c] \in PaidWorkers => receipt'[c].price = Price[c]
    BY <1>0, <2>2 DEF GTypeOK, ReceiptOf, ReceiptPrice
  <2> QED
    BY <1>0, <2>1, <2>3, <2>4, LedgerStays
<1>4. ASSUME NEW c \in Calls,
             \/ StartVerify(c) \/ StartCommit(c) \/ RedeemStep(c) \/ RedeemRaises(c)
             \/ Verified(c) \/ Serve(c) \/ RuntimeFails(c) \/ PaymentRequired(c)
      PROVE  LedgerInv'
  <2>1. /\ UNCHANGED <<worker, receipt, mem, disk, unread>> /\ stage[c] \in {"verify", "serve", "commit"}
        /\ status[c] = 0
    BY <1>4 DEF StartVerify, StartCommit, RedeemStep, RedeemRaises, Verified, Serve, RuntimeFails,
                PaymentRequired, httpVars, ledgerVars, ServiceInv, HandlerInv, StageBoundsPhase
  <2>2. /\ \A d \in Calls \ {c} : stage'[d] = stage[d] /\ status'[d] = status[d]
        /\ stage'[c] = "respond" => ~(worker[c] \in PaidWorkers)
        /\ status'[c] # 200
    <3>1. CASE StartVerify(c) \/ StartCommit(c) \/ RedeemStep(c)
      <4>1. UNCHANGED <<stage, status>>
        BY <3>1 DEF StartVerify, StartCommit, RedeemStep, httpVars
      <4> QED
        BY <2>1, <4>1
    <3>2. CASE Verified(c) \/ Serve(c)
      BY <1>0, <2>1, <3>2 DEF Verified, Serve, GTypeOK
    <3>3. CASE RedeemRaises(c) \/ RuntimeFails(c) \/ PaymentRequired(c)
      BY <1>0, <2>1, <3>3 DEF RedeemRaises, RuntimeFails, PaymentRequired, Answer, GTypeOK
    <3> QED
      BY <1>4, <3>1, <3>2, <3>3
  <2> QED
    BY <1>0, <2>1, <2>2, LedgerStays
<1>5. ASSUME NEW w \in Workers, Crash(w) PROVE LedgerInv'
  BY <1>5, CrashLedger
<1>6. CASE Clock \/ UNCHANGED gvars
  <2>1. UNCHANGED <<stage, status, worker, receipt, mem, disk, unread>>
    BY <1>6 DEF Clock, gvars, httpVars, ledgerVars
  <2> QED
    BY <1>0, <2>1, LedgerStays
<1> QED
  BY <1>1, <1>2, <1>3, <1>4, <1>5, <1>6 DEF GNext, HandlerStep

\* The logs are empty at the start.
LEMMA InitLedger == GInit => LedgerInv
<1> SUFFICES ASSUME GInit, OwnLedger PROVE Written /\ Faithful /\ EnteredOnce /\ Filed /\ Stated
  BY DEF LedgerInv
<1>1. \A w \in Workers : mem[w] = <<>> /\ disk[LedgerOf[w]] = <<>>
  BY GatewayAssumption DEF GInit, Ledgers, Range
<1>2. \A c \in Calls : stage[c] = "new" /\ status[c] = 0
  BY DEF GInit
<1> QED
  BY <1>1, <1>2 DEF Written, Faithful, EnteredOnce, Filed, Stated, ExtendedBy, LogsOf

\* The ledger invariant holds of every gateway whose workers have files of their
\* own.
THEOREM LedgerInvHolds == GSpec => []LedgerInv
<1>1. ServiceInv /\ LedgerInv /\ [GNext]_gvars => LedgerInv'
  BY NextLedger
<1> QED
  BY <1>1, InitLedger, ServiceInvHolds, PTL DEF GSpec

\* "receipt == ledger": when workers do not share a file, a paid answer has at
\* most one entry in it, of the amount of its receipt, through crashes of the
\* worker and failures of _save; it has that entry as long as every restart of
\* the worker could read the file.
THEOREM AnsweredIsRecordedHolds == GSpec => [](OwnLedger => AnsweredIsRecorded)
<1>1. ServiceInv /\ LedgerInv => (OwnLedger => AnsweredIsRecorded)
  <2> SUFFICES ASSUME ServiceInv, LedgerInv, OwnLedger, NEW c \in Calls,
                      status[c] = 200, worker[c] \in PaidWorkers
               PROVE  /\ LedgerOf[worker[c]] \notin unread => EntriesOf(c, LogOf(c)) # {}
                      /\ Cardinality(EntriesOf(c, LogOf(c))) <= 1
                      /\ \A i \in EntriesOf(c, LogOf(c)) : LogOf(c)[i].amount = receipt[c].price
    BY DEF AnsweredIsRecorded, LogOf
  <2> DEFINE w == worker[c]
             log == LogOf(c)
             entries == EntriesOf(c, log)
  <2>1. w \in Workers /\ receipt[c].price = Price[c] /\ log \in LogsOf(w)
    BY GatewayAssumption DEF LedgerInv, Stated, LogOf, LogsOf
  <2>2. DOMAIN log = 1..Len(log)
    <3>1. log \in Seq([ref : Calls, amount : Nat])
      BY <2>1, LogTypes DEF ServiceInv
    <3> HIDE DEF log
    <3> QED
      BY <3>1
  <2>3. LedgerOf[w] \notin unread => \E i \in 1..Len(log) : log[i].ref = c
    BY DEF LedgerInv, Filed, InFile, HasRead
  <2> HIDE DEF log, w
  <2>4. entries = {i \in 1..Len(log) : log[i].ref = c}
    BY <2>2 DEF EntriesOf
  <2>5. LedgerOf[w] \notin unread => entries # {}
    BY <2>3, <2>4
  <2>6. \A i, j \in 1..Len(log) : log[i].ref = c /\ log[j].ref = c => i = j
    BY <2>1 DEF LedgerInv, EnteredOnce
  <2>7. \A i \in entries : log[i].amount = receipt[c].price
    BY <2>1, <2>4 DEF LedgerInv, Faithful
  <2>8. Cardinality(entries) <= 1
    <3>1. CASE entries = {}
      BY <3>1, FS_EmptySet
    <3>2. CASE entries # {}
      <4>1. PICK i : i \in entries
        BY <3>2
      <4>2. entries = {i}
        BY <2>4, <2>6, <4>1
      <4> QED
        BY <4>2, FS_Singleton
    <3> QED
      BY <3>1, <3>2
  <2> QED
    BY <2>5, <2>7, <2>8 DEF log, w
<1> QED
  BY <1>1, LedgerInvHolds, ServiceInvHolds, PTL

-----------------------------------------------------------------------------
(***************************************************************************)
(* A response that is thrown away.  A payment that was verified is refused *)
(* at commit only for a credit that expired, or that is owned by a request *)
(* to another worker: a worker runs one handler at a time, so that what    *)
(* its other requests own, they owned when this one was verified.          *)
(***************************************************************************)
\* The redemption of c, before and after its second call.
CommitPhase(c) ==
    /\ commit[c] => pc[c] \notin {"idle", "verified"}
    /\ pc[c] \in {"spend", "undo", "redeemed"} => commit[c]
    /\ ins[c] > 0 => commit[c]
    /\ pc[c] = "verified" \/ (commit[c] /\ pc[c] = "check") => Payable(c)

\* One handler at a time.
LoneHandler == \A c, d \in Calls : Active(c) /\ Active(d) /\ worker[c] = worker[d] => c = d

\* The keys that redeem_payment has found unspent for c.
SeenUnspent(c) ==
    IF pc[c] = "verified" \/ commit[c] THEN KeysOf(c)
    ELSE IF pc[c] = "check" THEN Passed(c) ELSE {}

\* No other request of c's worker owns any of them.
NotNextDoor ==
    \A c, d \in Calls : Active(c) /\ c # d /\ worker[c] = worker[d] =>
        SeenUnspent(c) \cap Owned(d) = {}

\* Why a payment that was verified is refused.
Beaten(c) == (\E k \in KeysOf(c) : ~Unexpired(c, k)) \/ (\E d \in Calls : Rival(c, d))
BeatenAtCommit == \A c \in Calls : commit[c] /\ pc[c] \in {"undo", "refused"} => Beaten(c)

CommitInv == (\A c \in Calls : CommitPhase(c)) /\ LoneHandler /\ NotNextDoor /\ BeatenAtCommit

\* The redemption of d is left alone.
Untouched(d) ==
    /\ pc'[d] = pc[d] /\ commit'[d] = commit[d] /\ at'[d] = at[d]
    /\ pos'[d] = pos[d] /\ ins'[d] = ins[d] /\ del'[d] = del[d]

\* A call of redeem_payment touches its own state only.
LEMMA CallFrame ==
    ASSUME TypeOK, NEW c \in Calls, (\E flag \in BOOLEAN : Begin(c, flag)) \/ Step(c) \/ Raise(c),
           NEW d \in Calls, d # c
    PROVE  Untouched(d)
<1>1. CASE \E flag \in BOOLEAN : Begin(c, flag)
  BY <1>1 DEF Begin, Untouched, TypeOK
<1>2. CASE Check(c)
  BY <1>2 DEF Check, Untouched, TypeOK
<1>3. CASE Tally(c)
  BY <1>3 DEF Tally, Untouched, TypeOK
<1>4. CASE Spend(c)
  BY <1>4 DEF Spend, Untouched, TypeOK
<1>5. CASE Unspend(c)
  BY <1>5 DEF Unspend, Untouched, TypeOK
<1>6. CASE Raise(c)
  BY <1>6 DEF Raise, Untouched
<1> QED
  BY <1>1, <1>2, <1>3, <1>4, <1>5, <1>6 DEF Step

\* What depends on the redemption of d alone.
LEMMA UntouchedFacts ==
    ASSUME NEW d \in Calls, Untouched(d)
    PROVE  /\ CommitPhase(d) => CommitPhase(d)'
           /\ SeenUnspent(d)' = SeenUnspent(d) /\ Owned(d)' = Owned(d)
           /\ \A k \in KeysOf(d) : Unexpired(d, k)' = Unexpired(d, k)
<1>1. KeysOf(d)' = KeysOf(d) /\ Passed(d)' = Passed(d)
  BY DEF KeysOf, Passed, Untouched
<1>2. CommitPhase(d) => CommitPhase(d)'
  BY <1>1 DEF CommitPhase, Untouched, Payable, WellFormed
<1>3. SeenUnspent(d)' = SeenUnspent(d)
  BY <1>1 DEF SeenUnspent, Untouched
<1>4. Owned(d)' = Owned(d)
  BY DEF Owned, Untouched
<1>5. \A k \in KeysOf(d) : Unexpired(d, k)' = Unexpired(d, k)
  BY DEF Unexpired, Untouched
<1> QED
  BY <1>2, <1>3, <1>4, <1>5

\* The steps of c's own redemption.
CallStep(c) == StartVerify(c) \/ StartCommit(c) \/ RedeemStep(c) \/ (Active(c) /\ Raise(c))

\* What a call knows of its payment when it commits.
LEMMA CallPhase ==
    ASSUME ContentionInv, NEW c \in Calls, CommitPhase(c), CallStep(c)
    PROVE  CommitPhase(c)'
<1>0. /\ pc \in [Calls -> PC] /\ commit \in [Calls -> BOOLEAN] /\ ins \in [Calls -> Nat]
      /\ Payable(c)' = Payable(c)
  BY DEF ContentionInv, Ownership, TypeOK, Payable, WellFormed, KeysOf
<1>1. CASE StartVerify(c)
  <2>1. pc[c] = "idle" /\ commit'[c] = FALSE /\ pc'[c] \in {"check", "refused"} /\ ins'[c] = ins[c]
    BY <1>0, <1>1 DEF StartVerify, Begin
  <2>2. ins[c] = 0
    BY <2>1 DEF ContentionInv, Ownership, Progress
  <2> QED
    BY <2>1, <2>2 DEF CommitPhase
<1>2. CASE StartCommit(c)
  <2>1. pc[c] = "verified" /\ commit'[c] = TRUE /\ pc'[c] \in {"check", "refused"}
    BY <1>0, <1>2 DEF StartCommit, Begin
  <2> QED
    BY <1>0, <2>1 DEF CommitPhase
<1>3. CASE Check(c)
  <2>1. commit' = commit /\ ins' = ins /\ pc[c] = "check" /\ pc'[c] \in {"check", "refused"}
    BY <1>0, <1>3 DEF Check
  <2> QED
    BY <1>0, <2>1 DEF CommitPhase
<1>4. CASE Tally(c)
  <2>1. /\ commit' = commit /\ ins' = ins /\ pc[c] = "check"
        /\ pc'[c] = IF ~Covers(c) THEN "refused" ELSE IF commit[c] THEN "spend" ELSE "verified"
    BY <1>0, <1>4 DEF Tally
  <2>2. Covers(c) <=> Payable(c)
    BY <1>4, TallyIsExact
  <2> QED
    BY <1>0, <2>1, <2>2 DEF CommitPhase
<1>5. CASE Spend(c)
  <2>1. commit' = commit /\ pc[c] = "spend" /\ pc'[c] \in {"spend", "redeemed", "undo", "refused"}
    BY <1>0, <1>5 DEF Spend, AfterCollision
  <2> QED
    BY <1>0, <2>1 DEF CommitPhase
<1>6. CASE Unspend(c)
  <2>1. commit' = commit /\ pc[c] = "undo" /\ pc'[c] \in {"undo", "refused"}
    BY <1>0, <1>6 DEF Unspend
  <2> QED
    BY <1>0, <2>1 DEF CommitPhase
<1>7. CASE Raise(c)
  <2>1. commit' = commit /\ ins' = ins /\ pc'[c] = "raised"
    BY <1>0, <1>7 DEF Raise
  <2> QED
    BY <1>0, <2>1 DEF CommitPhase
<1> QED
  BY <1>1, <1>2, <1>3, <1>4, <1>5, <1>6, <1>7 DEF CallStep, RedeemStep, Step

\* A call learns only of keys that are unspent at that moment.
LEMMA CallSees ==
    ASSUME ContentionInv, NEW c \in Calls, CommitPhase(c), CallStep(c)
    PROVE  SeenUnspent(c)' \subseteq SeenUnspent(c) \cup (KeysOf(c) \ spent)
<1>0. /\ pc \in [Calls -> PC] /\ commit \in [Calls -> BOOLEAN] /\ pos \in [Calls -> Nat]
      /\ KeysOf(c)' = KeysOf(c)
  BY DEF ContentionInv, Ownership, TypeOK, KeysOf
<1>1. CASE StartVerify(c)
  <2>1. commit'[c] = FALSE /\ pc'[c] \in {"check", "refused"} /\ pos'[c] = 0
    BY <1>0, <1>1 DEF StartVerify, Begin
  <2>2. Passed(c)' = {}
    BY <2>1 DEF Passed
  <2> QED
    BY <2>1, <2>2 DEF SeenUnspent
<1>2. CASE StartCommit(c)
  <2>1. pc[c] = "verified" /\ commit'[c]
    BY <1>0, <1>2 DEF StartCommit, Begin
  <2> QED
    BY <1>0, <2>1 DEF SeenUnspent
<1>3. CASE Check(c)
  <2> DEFINE k == Batch[c][pos[c] + 1]
  <2>1. commit' = commit /\ pc[c] = "check" /\ pos[c] < Len(Batch[c])
    BY <1>3 DEF Check
  <2>2. CASE Valid(c, k) /\ k \notin spent
    <3>1. pc' = pc /\ pos'[c] = pos[c] + 1
      BY <1>0, <1>3, <2>2 DEF Check
    <3>2. Passed(c)' = Passed(c) \cup {k} /\ k \in KeysOf(c)
      BY <1>0, <2>1, <3>1, BatchFacts DEF Passed
    <3> HIDE DEF k
    <3> QED
      BY <1>0, <2>1, <2>2, <3>1, <3>2 DEF SeenUnspent
  <2>3. CASE ~(Valid(c, k) /\ k \notin spent)
    <3>1. pc'[c] = "refused"
      BY <1>0, <1>3, <2>3 DEF Check
    <3> QED
      BY <1>0, <2>1, <3>1 DEF SeenUnspent
  <2> QED
    BY <2>2, <2>3
<1>4. CASE Tally(c)
  <2>1. commit' = commit /\ pc[c] = "check" /\ pos[c] = Len(Batch[c]) /\ pc'[c] # "check"
    BY <1>0, <1>4 DEF Tally
  <2>2. Passed(c) = KeysOf(c)
    BY <2>1, BatchFacts DEF Passed
  <2> QED
    BY <1>0, <2>1, <2>2 DEF SeenUnspent
<1>5. CASE Spend(c) \/ Unspend(c)
  <2>1. commit' = commit /\ pc[c] \in {"spend", "undo"}
    BY <1>5 DEF Spend, Unspend
  <2> QED
    BY <1>0, <2>1 DEF SeenUnspent, CommitPhase
<1>6. CASE Raise(c)
  <2>1. commit' = commit /\ pc'[c] = "raised"
    BY <1>0, <1>6 DEF Raise
  <2> QED
    BY <1>0, <2>1 DEF SeenUnspent
<1> QED
  BY <1>1, <1>2, <1>3, <1>4, <1>5, <1>6 DEF CallStep, RedeemStep, Step

\* The owner of a spent key that c had found unspent is a rival.
LEMMA OwnerIsRival ==
    ASSUME ContentionInv, CommitInv, NEW c \in Calls, Active(c), commit[c],
           NEW k \in KeysOf(c), k \in spent, k \notin Owned(c)
    PROVE  Beaten(c)
<1>1. PICK d \in Calls : k \in Owned(d)
  BY DEF ContentionInv, Ownership, SpentIsOwned
<1>2. d # c
  BY <1>1
<1>3. k \in KeysOf(d) /\ ins[d] > 0
  <2>1. PICK i \in (del[d] + 1)..ins[d] : k = Batch[d][i]
    BY <1>1 DEF Owned
  <2>2. ins[d] \in Nat /\ del[d] \in Nat /\ Len(Batch[d]) \in Nat
    BY BatchFacts DEF ContentionInv, Ownership, TypeOK
  <2>3. ins[d] <= Len(Batch[d])
    <3>1. pc[d] \in PC
      BY DEF ContentionInv, Ownership, TypeOK
    <3>2. del[d] # ins[d] /\ ins[d] # 0
      BY <2>1, <2>2
    <3> QED
      BY <2>2, <3>1, <3>2 DEF ContentionInv, Ownership, Progress, PC
  <2>4. i \in 1..Len(Batch[d]) /\ ins[d] > 0
    BY <2>1, <2>2, <2>3
  <2> QED
    BY <2>1, <2>4, BatchFacts
<1>4. commit[d]
  BY <1>3 DEF CommitInv, CommitPhase
<1>5. worker[d] # worker[c]
  <2>1. k \in SeenUnspent(c)
    BY DEF SeenUnspent
  <2> QED
    BY <1>1, <1>2, <2>1 DEF CommitInv, NotNextDoor
<1> QED
  BY <1>3, <1>4, <1>5 DEF Beaten, Rival

\* A payment that was verified, and is refused at commit, was beaten.
LEMMA CallBeaten ==
    ASSUME ContentionInv, CommitInv, NEW c \in Calls, CallStep(c), Active(c),
           commit'[c], pc'[c] \in {"undo", "refused"}
    PROVE  Beaten(c)
<1>0. /\ pc \in [Calls -> PC] /\ commit \in [Calls -> BOOLEAN] /\ CommitPhase(c)
      /\ pos[c] \in Nat /\ ins[c] \in Nat /\ del[c] \in Nat /\ Len(Batch[c]) \in Nat
  BY BatchFacts DEF ContentionInv, Ownership, TypeOK, CommitInv
<1>1. CASE StartVerify(c)
  BY <1>0, <1>1 DEF StartVerify, Begin
<1>2. CASE StartCommit(c)
  <2>1. pc[c] = "verified" /\ pc'[c] = IF WellFormed(c) THEN "check" ELSE "refused"
    BY <1>0, <1>2 DEF StartCommit, Begin
  <2>2. WellFormed(c)
    BY <2>1 DEF ContentionInv, Ownership, Progress
  <2> QED
    BY <2>1, <2>2
<1>3. CASE Check(c)
  <2> DEFINE k == Batch[c][pos[c] + 1]
  <2>1. commit[c] /\ pc[c] = "check" /\ pos[c] < Len(Batch[c]) /\ Payable(c) /\ ins[c] = 0 /\ del[c] = 0
    BY <1>0, <1>3 DEF Check, CommitPhase, ContentionInv, Ownership, Progress
  <2>2. k \in KeysOf(c) /\ k \in Accepts[c] /\ Owned(c) = {}
    BY <1>0, <2>1, BatchFacts DEF Payable, Owned
  <2>3. ~(Valid(c, k) /\ k \notin spent)
    BY <1>0, <1>3, <2>1 DEF Check
  <2>4. ~Unexpired(c, k) \/ k \in spent
    BY <2>2, <2>3 DEF Valid, Authentic
  <2> HIDE DEF k
  <2>5. CASE ~Unexpired(c, k)
    BY <2>2, <2>5 DEF Beaten
  <2>6. CASE k \in spent
    BY <2>1, <2>2, <2>6, OwnerIsRival
  <2> QED
    BY <2>4, <2>5, <2>6
<1>4. CASE Tally(c)
  <2>1. /\ commit[c] /\ pc[c] = "check"
        /\ pc'[c] = IF ~Covers(c) THEN "refused" ELSE IF commit[c] THEN "spend" ELSE "verified"
    BY <1>0, <1>4 DEF Tally
  <2>2. Covers(c)
    BY <1>0, <1>4, <2>1, TallyIsExact DEF CommitPhase
  <2> QED
    BY <2>1, <2>2
<1>5. CASE Spend(c)
  <2> DEFINE k == Batch[c][ins[c] + 1]
  <2>1. commit[c] /\ pc[c] = "spend" /\ ins[c] < Len(Batch[c]) /\ del[c] = 0 /\ WellFormed(c)
    BY <1>0, <1>5 DEF Spend, ContentionInv, Ownership, Progress
  <2>2. ~CanInsert(k)
    BY <1>0, <1>5, <2>1 DEF Spend
  <2>3. k \in KeysOf(c) /\ k \notin Owned(c)
    <3>1. ins[c] + 1 \in 1..Len(Batch[c])
      BY <1>0, <2>1
    <3>2. \A i \in 1..ins[c] : i \in 1..Len(Batch[c]) /\ i # ins[c] + 1
      BY <1>0, <2>1
    <3>3. \A i \in 1..ins[c] : Batch[c][i] # Batch[c][ins[c] + 1]
      BY <2>1, <3>1, <3>2, BatchInjective
    <3> QED
      BY <2>1, <3>1, <3>3, BatchFacts DEF Owned
  <2>4. k \in spent
    BY <2>2 DEF CanInsert
  <2> HIDE DEF k
  <2> QED
    BY <2>1, <2>3, <2>4, OwnerIsRival
<1>6. CASE Unspend(c)
  <2>1. commit[c] /\ pc[c] = "undo"
    BY <1>0, <1>6 DEF Unspend
  <2> QED
    BY <2>1 DEF CommitInv, BeatenAtCommit
<1>7. CASE Raise(c)
  BY <1>0, <1>7 DEF Raise
<1> QED
  BY <1>1, <1>2, <1>3, <1>4, <1>5, <1>6, <1>7 DEF CallStep, RedeemStep, Step

\* Once a request commits, its worker and its reading of the clock are settled.
Settled(e) == commit[e] => commit'[e] /\ worker'[e] = worker[e] /\ at'[e] = at[e]

\* A payment that was beaten stays beaten.
LEMMA BeatenStays ==
    ASSUME NEW c \in Calls, commit[c], Beaten(c), \A e \in Calls : Settled(e)
    PROVE  Beaten(c)'
<1>1. KeysOf(c)' = KeysOf(c) /\ at'[c] = at[c] /\ worker'[c] = worker[c]
  BY DEF KeysOf, Settled
<1>2. ASSUME NEW k \in KeysOf(c), ~Unexpired(c, k) PROVE Beaten(c)'
  BY <1>1, <1>2 DEF Beaten, Unexpired
<1>3. ASSUME NEW d \in Calls, Rival(c, d) PROVE Beaten(c)'
  <2>1. KeysOf(d)' = KeysOf(d) /\ commit'[d] /\ worker'[d] = worker[d]
    BY <1>3 DEF KeysOf, Settled, Rival
  <2>2. Rival(c, d)'
    BY <1>1, <1>3, <2>1 DEF Rival
  <2> QED
    BY <2>2 DEF Beaten
<1> QED
  BY <1>2, <1>3 DEF Beaten

\* A step of one handler, or of none, on the worker that runs it.
LEMMA MoveCommit ==
    ASSUME ContentionInv, CommitInv, UNCHANGED worker,
           \A d \in Calls : Active(d)' => Active(d),
           NEW c \in Calls,
           \A d \in Calls \ {c} : Untouched(d),
           Untouched(c) \/ (Active(c) /\ CallStep(c)),
           \A e \in Calls : Settled(e)
    PROVE  CommitInv'
<1>1. ASSUME NEW d \in Calls PROVE CommitPhase(d)'
  <2>1. CommitPhase(d)
    BY DEF CommitInv
  <2> QED
    BY <2>1, UntouchedFacts, CallPhase
<1>2. LoneHandler'
  BY DEF CommitInv, LoneHandler
<1>3. ASSUME NEW d \in Calls
      PROVE  SeenUnspent(d)' \subseteq SeenUnspent(d) \cup (KeysOf(d) \ spent)
  <2>1. CommitPhase(d)
    BY DEF CommitInv
  <2>2. CASE Untouched(d)
    BY <2>2, UntouchedFacts
  <2>3. CASE ~Untouched(d)
    BY <2>1, <2>3, CallSees
  <2> QED
    BY <2>2, <2>3
<1>4. ASSUME NEW d \in Calls, NEW e \in Calls, Active(d)', d # e, worker'[d] = worker'[e]
      PROVE  (SeenUnspent(d) \cap Owned(e) = {})'
  <2>1. Active(d) /\ worker[d] = worker[e]
    BY <1>4
  <2>2. CASE Untouched(e)
    <3>1. Owned(e)' = Owned(e) /\ Owned(e) \subseteq spent
      BY <2>2, UntouchedFacts DEF ContentionInv, Ownership, OwnedIsSpent
    <3>2. SeenUnspent(d) \cap Owned(e) = {}
      BY <1>4, <2>1 DEF CommitInv, NotNextDoor
    <3>3. SeenUnspent(d)' \subseteq SeenUnspent(d) \cup (KeysOf(d) \ spent)
      BY <1>3
    <3> QED
      BY <3>1, <3>2, <3>3
  <2>3. CASE ~Untouched(e)
    <3>1. e = c /\ Active(e)
      BY <2>3
    <3> QED
      BY <1>4, <2>1, <3>1 DEF CommitInv, LoneHandler
  <2> QED
    BY <2>2, <2>3
<1>5. ASSUME NEW d \in Calls, commit'[d], pc'[d] \in {"undo", "refused"} PROVE Beaten(d)'
  <2>1. Beaten(d) /\ commit[d]
    <3>1. CASE Untouched(d)
      BY <1>5, <3>1 DEF Untouched, CommitInv, BeatenAtCommit
    <3>2. CASE ~Untouched(d)
      <4>1. d = c /\ Active(c) /\ CallStep(c)
        BY <3>2
      <4>2. Beaten(d)
        BY <1>5, <4>1, CallBeaten
      <4>3. commit[d]
        <5>1. /\ pc \in [Calls -> PC] /\ commit \in [Calls -> BOOLEAN]
              /\ pc[d] \in {"idle", "verified"} => WellFormed(d) \/ pc[d] = "idle"
          BY DEF ContentionInv, Ownership, TypeOK, Progress
        <5>2. ~StartVerify(d) /\ ~StartCommit(d)
          BY <1>5, <5>1 DEF StartVerify, StartCommit, Begin
        <5>3. commit' = commit
          BY <4>1, <5>2 DEF CallStep, RedeemStep, Step, Check, Tally, Spend, Unspend, Raise
        <5> QED
          BY <1>5, <5>3
      <4> QED
        BY <4>2, <4>3
    <3> QED
      BY <3>1, <3>2
  <2> QED
    BY <2>1, BeatenStays
<1> QED
  BY <1>1, <1>2, <1>4, <1>5 DEF CommitInv, NotNextDoor, BeatenAtCommit

\* No step unsettles a request that commits.
LEMMA CommitSettles ==
    ASSUME ContentionInv, ServiceInv, CommitInv, [GNext]_gvars, NEW e \in Calls
    PROVE  Settled(e)
<1> SUFFICES ASSUME commit[e] PROVE commit'[e] /\ worker'[e] = worker[e] /\ at'[e] = at[e]
  BY DEF Settled
<1>0. /\ pc[e] \notin {"idle", "verified"} /\ stage[e] # "new"
      /\ commit \in [Calls -> BOOLEAN] /\ at \in [Calls -> 0..MaxTime] /\ GTypeOK
  BY DEF CommitInv, CommitPhase, ServiceInv, HandlerInv, StageBoundsPhase, ContentionInv, Ownership, TypeOK
<1>1. ASSUME NEW c \in Calls, NEW w \in SentTo[c], Arrive(c, w)
      PROVE  commit'[e] /\ worker'[e] = worker[e] /\ at'[e] = at[e]
  BY <1>0, <1>1 DEF Arrive, vars, GTypeOK
<1>2. ASSUME NEW c \in Calls, StartVerify(c) \/ StartCommit(c)
      PROVE  commit'[e] /\ worker'[e] = worker[e] /\ at'[e] = at[e]
  <2>1. c # e /\ UNCHANGED worker
    BY <1>0, <1>2 DEF StartVerify, StartCommit, httpVars
  <2>2. \E flag \in BOOLEAN : commit' = [commit EXCEPT ![c] = flag] /\ at' = [at EXCEPT ![c] = now]
    BY <1>2 DEF StartVerify, StartCommit, Begin
  <2> QED
    BY <1>0, <2>1, <2>2
<1>3. ASSUME NEW c \in Calls,
             \/ RedeemStep(c) \/ RedeemRaises(c) \/ RecordRaises(c) \/ Verified(c) \/ Serve(c)
             \/ RuntimeFails(c) \/ PaymentRequired(c) \/ Record(c) \/ Respond(c)
      PROVE  commit'[e] /\ worker'[e] = worker[e] /\ at'[e] = at[e]
  <2>1. UNCHANGED worker
    BY <1>3 DEF RedeemStep, RedeemRaises, RecordRaises, Verified, Serve, RuntimeFails, PaymentRequired,
                Record, Respond, httpVars
  <2>2. UNCHANGED <<commit, at>>
    <3>1. CASE RedeemStep(c)
      BY <3>1 DEF RedeemStep, Step, Check, Tally, Spend, Unspend
    <3>2. CASE RedeemRaises(c)
      BY <3>2 DEF RedeemRaises, Raise
    <3>3. CASE \/ RecordRaises(c) \/ Verified(c) \/ Serve(c) \/ RuntimeFails(c) \/ PaymentRequired(c)
               \/ Record(c) \/ Respond(c)
      BY <3>3 DEF RecordRaises, Verified, Serve, RuntimeFails, PaymentRequired, Record, Respond, vars
    <3> QED
      BY <1>3, <3>1, <3>2, <3>3
  <2> QED
    BY <2>1, <2>2
<1>4. ASSUME NEW w \in Workers, Crash(w)
      PROVE  commit'[e] /\ worker'[e] = worker[e] /\ at'[e] = at[e]
  BY <1>4 DEF Crash, Raise, vars
<1>5. CASE Clock \/ UNCHANGED gvars
  BY <1>5 DEF Clock, Tick, httpVars, gvars, vars
<1> QED
  BY <1>1, <1>2, <1>3, <1>4, <1>5 DEF GNext, HandlerStep

\* A request arrives at a worker that runs no other.
LEMMA ArriveCommit ==
    ASSUME ContentionInv, ServiceInv, CommitInv, NEW c \in Calls, NEW w \in SentTo[c], Arrive(c, w),
           \A e \in Calls : Settled(e)
    PROVE  CommitInv'
<1>0. /\ stage[c] = "new" /\ Free(w) /\ UNCHANGED vars
      /\ \A d \in Calls : worker'[d] = IF d = c THEN w ELSE worker[d]
  BY DEF Arrive, ServiceInv, GTypeOK
<1>1. pc[c] = "idle" /\ ~commit[c]
  BY <1>0 DEF ServiceInv, HandlerInv, StageBoundsPhase
<1>2. \A d \in Calls : Untouched(d)
  BY <1>0 DEF vars, Untouched
<1>3. \A d \in Calls \ {c} : Active(d)' <=> Active(d)
  <2>1. \A d \in Calls \ {c} : stage'[d] = stage[d]
    BY DEF Arrive, Answer, ServiceInv, GTypeOK
  <2> QED
    BY <2>1 DEF Active
<1>4. \A d \in Calls : Active(d) => worker[d] # w
  BY <1>0 DEF Free, RunBy
<1>5. \A d \in Calls : CommitPhase(d)'
  BY <1>2, UntouchedFacts DEF CommitInv
<1>6. LoneHandler'
  BY <1>0, <1>3, <1>4 DEF CommitInv, LoneHandler
<1>7. ASSUME NEW d \in Calls, NEW e \in Calls, Active(d)', d # e, worker'[d] = worker'[e]
      PROVE  (SeenUnspent(d) \cap Owned(e) = {})'
  <2>1. SeenUnspent(d)' = SeenUnspent(d) /\ Owned(e)' = Owned(e)
    BY <1>2, UntouchedFacts
  <2>2. CASE d = c
    BY <1>1, <2>1, <2>2 DEF SeenUnspent
  <2>3. CASE d # c
    <3>1. Active(d) /\ e # c /\ worker[d] = worker[e]
      BY <1>0, <1>3, <1>4, <1>7, <2>3
    <3> QED
      BY <1>7, <2>1, <3>1 DEF CommitInv, NotNextDoor
  <2> QED
    BY <2>2, <2>3
<1>8. ASSUME NEW d \in Calls, commit'[d], pc'[d] \in {"undo", "refused"} PROVE Beaten(d)'
  BY <1>2, <1>8, BeatenStays DEF Untouched, CommitInv, BeatenAtCommit
<1> QED
  BY <1>5, <1>6, <1>7, <1>8 DEF CommitInv, NotNextDoor, BeatenAtCommit

\* Every step keeps the invariant.
LEMMA NextCommit ==
    ASSUME ContentionInv, ServiceInv, CommitInv, [GNext]_gvars
    PROVE  CommitInv'
<1>0. GTypeOK /\ TypeOK /\ \A e \in Calls : Settled(e)
  BY CommitSettles DEF ServiceInv, GTypeOK
<1>1. ASSUME NEW c \in Calls, NEW w \in SentTo[c], Arrive(c, w) PROVE CommitInv'
  BY <1>0, <1>1, ArriveCommit
<1>2. ASSUME NEW c \in Calls, StartVerify(c) \/ StartCommit(c) \/ RedeemStep(c) \/ RedeemRaises(c)
      PROVE  CommitInv'
  <2>1. UNCHANGED worker /\ Active(c) /\ CallStep(c)
    BY <1>2 DEF StartVerify, StartCommit, RedeemStep, RedeemRaises, httpVars, Active, CallStep
  <2>2. \A d \in Calls \ {c} : Untouched(d)
    BY <1>0, <1>2, CallFrame DEF StartVerify, StartCommit, RedeemStep, RedeemRaises
  <2>3. \A d \in Calls : Active(d)' => Active(d)
    <3>1. CASE UNCHANGED stage
      BY <3>1 DEF Active
    <3>2. CASE RedeemRaises(c)
      BY <1>0, <2>1, <3>2 DEF RedeemRaises, Answer, Active, GTypeOK
    <3> QED
      BY <1>2, <3>1, <3>2 DEF StartVerify, StartCommit, RedeemStep, httpVars
  <2> QED
    BY <1>0, <2>1, <2>2, <2>3, MoveCommit
<1>3. ASSUME NEW c \in Calls,
             \/ RecordRaises(c) \/ Verified(c) \/ Serve(c) \/ RuntimeFails(c) \/ PaymentRequired(c)
             \/ Record(c) \/ Respond(c)
      PROVE  CommitInv'
  <2>1. UNCHANGED worker /\ UNCHANGED vars /\ Active(c)
    BY <1>3 DEF RecordRaises, Verified, Serve, RuntimeFails, PaymentRequired, Record, Respond, Active
  <2>2. \A d \in Calls : Untouched(d)
    BY <2>1 DEF vars, Untouched
  <2>3. \A d \in Calls \ {c} : stage'[d] = stage[d]
    BY <1>0, <1>3 DEF RecordRaises, Verified, Serve, RuntimeFails, PaymentRequired, Record, Respond, Answer, GTypeOK
  <2>4. \A d \in Calls : Active(d)' => Active(d)
    BY <2>1, <2>3 DEF Active
  <2> QED
    BY <1>0, <2>1, <2>2, <2>4, MoveCommit
<1>4. ASSUME NEW w \in Workers, Crash(w) PROVE CommitInv'
  <2>1. UNCHANGED worker
    BY <1>4 DEF Crash
  <2>2. ASSUME UNCHANGED <<vars, stage>> PROVE CommitInv'
    <3>1. \A d \in Calls : Untouched(d) /\ (Active(d)' => Active(d))
      BY <2>2 DEF vars, Untouched, Active
    <3>2. CASE Calls = {}
      BY <3>2 DEF CommitInv, LoneHandler, NotNextDoor, BeatenAtCommit
    <3>3. ASSUME NEW c \in Calls PROVE CommitInv'
      BY <1>0, <2>1, <3>1, MoveCommit
    <3> QED
      BY <3>2, <3>3
  <2>3. ASSUME NEW c \in RunBy(w), Raise(c) \/ UNCHANGED vars, Answer(c, -1) PROVE CommitInv'
    <3>1. c \in Calls /\ Active(c)
      BY DEF RunBy
    <3>2. \A d \in Calls : Active(d)' => Active(d)
      BY <1>0, <2>3, <3>1 DEF Answer, Active, GTypeOK
    <3>3. CASE Raise(c)
      <4>1. \A d \in Calls \ {c} : Untouched(d)
        BY <1>0, <3>1, <3>3, CallFrame
      <4> QED
        BY <1>0, <2>1, <3>1, <3>2, <3>3, <4>1, MoveCommit DEF CallStep
    <3>4. CASE UNCHANGED vars
      <4>1. \A d \in Calls : Untouched(d)
        BY <3>4 DEF vars, Untouched
      <4> QED
        BY <1>0, <2>1, <3>1, <3>2, <4>1, MoveCommit
    <3> QED
      BY <2>3, <3>3, <3>4
  <2> QED
    BY <1>4, <2>2, <2>3 DEF Crash
<1>5. CASE Clock \/ UNCHANGED gvars
  <2>1. UNCHANGED <<worker, stage>> /\ UNCHANGED <<pc, commit, at, pos, ins, del>>
    BY <1>5 DEF Clock, Tick, httpVars, gvars, vars
  <2>2. \A d \in Calls : Untouched(d) /\ (Active(d)' => Active(d))
    BY <2>1 DEF Untouched, Active
  <2>3. CASE Calls = {}
    BY <2>3 DEF CommitInv, LoneHandler, NotNextDoor, BeatenAtCommit
  <2>4. ASSUME NEW c \in Calls PROVE CommitInv'
    BY <1>0, <2>1, <2>2, MoveCommit
  <2> QED
    BY <2>3, <2>4
<1> QED
  BY <1>1, <1>2, <1>3, <1>4, <1>5 DEF GNext, HandlerStep

\* No request is under way at the start.
LEMMA InitCommit == GInit => CommitInv
<1> SUFFICES ASSUME GInit PROVE CommitInv
  OBVIOUS
<1>1. \A c \in Calls : pc[c] = "idle" /\ commit[c] = FALSE /\ ins[c] = 0 /\ stage[c] = "new"
  BY DEF GInit, Init
<1> QED
  BY <1>1 DEF CommitInv, CommitPhase, LoneHandler, NotNextDoor, BeatenAtCommit, Active

\* Once a response is in hand the money nearly always is too: a payment refused
\* at commit was beaten by the clock or by a request to another worker.
THEOREM ServedIsPaidHolds == GSpec => []ServedIsPaid
<1>1. GSpec => []ContentionInv
  BY GatewayImplementsRedemption, ContentionInvHolds, PTL DEF ImplementsRedemption
<1>2. ContentionInv /\ ServiceInv /\ CommitInv /\ [GNext]_gvars => CommitInv'
  BY NextCommit
<1>3. ServiceInv /\ CommitInv => ServedIsPaid
  <2> SUFFICES ASSUME ServiceInv, CommitInv, NEW c \in Calls, status[c] = 402, commit[c]
               PROVE  Beaten(c)
    BY DEF ServedIsPaid, Beaten
  <2>1. pc[c] \in {"idle", "verified", "refused"}
    BY DEF ServiceInv, HandlerInv, StageBoundsPhase, Errors
  <2>2. pc[c] = "refused"
    BY <2>1 DEF CommitInv, CommitPhase
  <2> QED
    BY <2>2 DEF CommitInv, BeatenAtCommit
<1> QED
  BY <1>1, <1>2, <1>3, InitCommit, ServiceInvHolds, PTL DEF GSpec

-----------------------------------------------------------------------------
(***************************************************************************)
(* What the ledgers credit.  More about sums: they do not depend on the    *)
(* set they are taken in, they split and they are monotone.                *)
(***************************************************************************)
\* g adds up f over the subsets of S.
Sums(g, f, S) == IsSumOver(g, f, S) /\ IsFiniteSet(S) /\ \A x \in S : f[x] \in Nat

\* The subsets of a finite set, by their size.
LEMMA SubsetSizes ==
    ASSUME NEW S, IsFiniteSet(S)
    PROVE  \A s \in SUBSET S : /\ IsFiniteSet(s) /\ Cardinality(s) \in Nat
                               /\ Cardinality(s) = 0 => s = {}
<1>1. \A s \in SUBSET S : IsFiniteSet(s) /\ Cardinality(s) \in Nat
  BY FS_Subset, FS_CardinalityType
<1> QED
  BY <1>1, FS_EmptySet

\* Two sums with the same terms, or with terms that are no smaller in the second.
LEMMA SumCompare ==
    ASSUME NEW g, NEW f, NEW S, Sums(g, f, S), NEW h, NEW e, NEW R, Sums(h, e, R), S \subseteq R,
           \A x \in S : f[x] <= e[x]
    PROVE  \A s \in SUBSET S : /\ g[s] <= h[s]
                               /\ (\A x \in s : f[x] = e[x]) => g[s] = h[s]
<1>1. /\ g[{}] = 0 /\ \A s \in SUBSET S : g[s] \in Nat
      /\ \A s \in SUBSET S : \A x \in s : g[s] = f[x] + g[s \ {x}]
  BY SumFactsOf DEF Sums
<1>2. /\ h[{}] = 0 /\ \A s \in SUBSET R : h[s] \in Nat
      /\ \A s \in SUBSET R : \A x \in s : h[s] = e[x] + h[s \ {x}]
  BY SumFactsOf DEF Sums
<1>3. \A s \in SUBSET S : IsFiniteSet(s) /\ Cardinality(s) \in Nat /\ (Cardinality(s) = 0 => s = {})
  BY SubsetSizes DEF Sums
<1> DEFINE Good(s) == g[s] <= h[s] /\ ((\A x \in s : f[x] = e[x]) => g[s] = h[s])
           T == {n \in Nat : \A s \in SUBSET S : Cardinality(s) <= n => Good(s)}
<1>4. 0 \in T
  <2>1. Good({})
    BY <1>1, <1>2
  <2>2. \A s \in SUBSET S : Cardinality(s) <= 0 => s = {}
    BY <1>3
  <2> QED
    BY <2>1, <2>2
<1>5. ASSUME NEW n \in T PROVE n + 1 \in T
  <2> SUFFICES ASSUME NEW s \in SUBSET S, Cardinality(s) = n + 1 PROVE Good(s)
    BY <1>3
  <2>0. n \in Nat /\ \A t \in SUBSET S : Cardinality(t) <= n => Good(t)
    OBVIOUS
  <2>1. s # {}
    <3> HIDE DEF T, Good
    <3> QED
      BY <2>0, FS_EmptySet
  <2>2. PICK x \in s : TRUE
    BY <2>1
  <2>3. s \ {x} \in SUBSET S /\ Cardinality(s \ {x}) = n /\ s \in SUBSET R /\ x \in R /\ x \in S
    BY <1>3, Without
  <2>4. Good(s \ {x})
    BY <2>3
  <2>5. /\ g[s] = f[x] + g[s \ {x}] /\ h[s] = e[x] + h[s \ {x}]
        /\ f[x] \in Nat /\ e[x] \in Nat /\ f[x] <= e[x]
        /\ g[s \ {x}] \in Nat /\ h[s \ {x}] \in Nat
    BY <1>1, <1>2, <2>3 DEF Sums
  <2> DEFINE p == g[s \ {x}]
             q == h[s \ {x}]
  <2>6. p <= q /\ ((\A y \in s : f[y] = e[y]) => p = q /\ f[x] = e[x])
    BY <2>4
  <2>7. g[s] = f[x] + p /\ h[s] = e[x] + q /\ p \in Nat /\ q \in Nat
    BY <2>5
  <2> HIDE DEF p, q
  <2>8. g[s] <= h[s]
    BY <2>5, <2>6, <2>7
  <2>9. (\A y \in s : f[y] = e[y]) => g[s] = h[s]
    BY <2>5, <2>6, <2>7
  <2> QED
    BY <2>8, <2>9
<1>6. T = Nat
  <2> HIDE DEF T
  <2> QED
    BY <1>4, <1>5, NatSet DEF T
<1>7. \A s \in SUBSET S : Good(s)
  BY <1>3, <1>6
<1> QED
  BY <1>7

\* The sum of two sets that have no element in common.
LEMMA SumSplit ==
    ASSUME NEW g, NEW f, NEW S, Sums(g, f, S), NEW a \in SUBSET S
    PROVE  \A b \in SUBSET S : a \cap b = {} => g[a \cup b] = g[a] + g[b]
<1>1. /\ g[{}] = 0 /\ \A s \in SUBSET S : g[s] \in Nat
      /\ \A s \in SUBSET S : \A x \in s : g[s] = f[x] + g[s \ {x}]
  BY SumFactsOf DEF Sums
<1>3. \A s \in SUBSET S : IsFiniteSet(s) /\ Cardinality(s) \in Nat /\ (Cardinality(s) = 0 => s = {})
  BY SubsetSizes DEF Sums
<1> DEFINE Good(b) == a \cap b = {} => g[a \cup b] = g[a] + g[b]
           T == {n \in Nat : \A b \in SUBSET S : Cardinality(b) <= n => Good(b)}
<1>4. 0 \in T
  <2>1. Good({})
    <3>1. a \cup {} = a
      OBVIOUS
    <3>2. g[a] = g[a] + g[{}]
      BY <1>1
    <3> QED
      BY <3>1, <3>2
  <2>2. \A b \in SUBSET S : Cardinality(b) <= 0 => b = {}
    BY <1>3
  <2> QED
    BY <2>1, <2>2
<1>5. ASSUME NEW n \in T PROVE n + 1 \in T
  <2>a. n + 1 \in Nat /\ \A t \in SUBSET S : Cardinality(t) <= n => Good(t)
    OBVIOUS
  <2>b. \A b \in SUBSET S : Cardinality(b) <= n + 1 => Cardinality(b) <= n \/ Cardinality(b) = n + 1
    BY <1>3
  <2> SUFFICES ASSUME NEW b \in SUBSET S, Cardinality(b) = n + 1, a \cap b = {}
               PROVE  g[a \cup b] = g[a] + g[b]
    <3>1. \A b \in SUBSET S : Cardinality(b) = n + 1 => Good(b)
      OBVIOUS
    <3> HIDE DEF Good
    <3> QED
      BY <2>a, <2>b, <3>1
  <2>0. n \in Nat /\ \A t \in SUBSET S : Cardinality(t) <= n => Good(t)
    OBVIOUS
  <2>1. b # {}
    <3> HIDE DEF T, Good
    <3> QED
      BY <2>0, FS_EmptySet
  <2>2. PICK x \in b : TRUE
    BY <2>1
  <2>3. b \ {x} \in SUBSET S /\ Cardinality(b \ {x}) = n /\ x \in S
    BY <1>3, Without
  <2>4. g[a \cup (b \ {x})] = g[a] + g[b \ {x}]
    BY <2>3
  <2>5. a \cup b \in SUBSET S /\ x \in a \cup b /\ (a \cup b) \ {x} = a \cup (b \ {x})
    BY <2>3
  <2>6. g[a \cup b] = f[x] + g[(a \cup b) \ {x}] /\ g[b] = f[x] + g[b \ {x}]
    BY <1>1, <2>5
  <2>7. g[a \cup b] = f[x] + (g[a] + g[b \ {x}])
    BY <2>4, <2>5, <2>6
  <2>8. f[x] \in Nat /\ g[a] \in Nat /\ g[b \ {x}] \in Nat
    BY <1>1, <2>3 DEF Sums
  <2> QED
    BY <2>6, <2>7, <2>8
<1>6. T = Nat
  <2> HIDE DEF T
  <2> QED
    BY <1>4, <1>5, NatSet DEF T
<1>7. \A s \in SUBSET S : Good(s)
  <2> HIDE DEF Good
  <2>1. \A n \in Nat : \A b \in SUBSET S : Cardinality(b) <= n => Good(b)
    BY <1>6
  <2>2. \A b \in SUBSET S : Cardinality(b) \in Nat /\ Cardinality(b) <= Cardinality(b)
    BY <1>3
  <2> QED
    BY <2>1, <2>2
<1> QED
  BY <1>7

\* Adding elements does not make a sum smaller.
LEMMA SumMonotone ==
    ASSUME NEW g, NEW f, NEW S, Sums(g, f, S), NEW t \in SUBSET S, NEW s \in SUBSET t
    PROVE  g[s] \in Nat /\ g[t] \in Nat /\ g[s] <= g[t]
<1>1. \A r \in SUBSET S : g[r] \in Nat
  BY SumFactsOf DEF Sums
<1>2. s \in SUBSET S /\ t \ s \in SUBSET S /\ s \cap (t \ s) = {} /\ s \cup (t \ s) = t
  OBVIOUS
<1>3. g[t] = g[s] + g[t \ s]
  BY <1>2, SumSplit
<1> QED
  BY <1>1, <1>2, <1>3

\* Every set of terms is covered by as much of the second sum as its terms are:
\* the shares A[x] have nothing in common.
LEMMA SumCovered ==
    ASSUME NEW g, NEW f, NEW S, Sums(g, f, S), NEW h, NEW e, NEW R, Sums(h, e, R),
           NEW A \in [S -> SUBSET R], \A x \in S : f[x] <= h[A[x]],
           \A x, y \in S : x # y => A[x] \cap A[y] = {}
    PROVE  \A s \in SUBSET S : g[s] <= h[UNION {A[x] : x \in s}]
<1>1. /\ g[{}] = 0 /\ \A s \in SUBSET S : g[s] \in Nat
      /\ \A s \in SUBSET S : \A x \in s : g[s] = f[x] + g[s \ {x}]
  BY SumFactsOf DEF Sums
<1>2. h[{}] = 0 /\ \A r \in SUBSET R : h[r] \in Nat
  BY SumFactsOf DEF Sums
<1>3. \A s \in SUBSET S : IsFiniteSet(s) /\ Cardinality(s) \in Nat /\ (Cardinality(s) = 0 => s = {})
  BY SubsetSizes DEF Sums
<1> DEFINE U(s) == UNION {A[x] : x \in s}
           Good(s) == g[s] <= h[U(s)]
           T == {n \in Nat : \A s \in SUBSET S : Cardinality(s) <= n => Good(s)}
<1>u. \A s \in SUBSET S : U(s) \in SUBSET R
  OBVIOUS
<1>4. 0 \in T
  <2>1. Good({})
    <3>1. U({}) = {}
      OBVIOUS
    <3> HIDE DEF U
    <3> QED
      BY <1>1, <1>2, <3>1
  <2>2. \A s \in SUBSET S : Cardinality(s) <= 0 => s = {}
    BY <1>3
  <2> HIDE DEF Good
  <2> QED
    BY <2>1, <2>2
<1>5. ASSUME NEW n \in T PROVE n + 1 \in T
  <2>0. n \in Nat /\ \A s \in SUBSET S : Cardinality(s) <= n => Good(s)
    <3> HIDE DEF Good
    <3> QED
      OBVIOUS
  <2>1. ASSUME NEW s \in SUBSET S, Cardinality(s) = n + 1 PROVE Good(s)
    <3>1. s # {}
      <4> HIDE DEF T, Good
      <4> QED
        BY <2>0, <2>1, FS_EmptySet
    <3>2. PICK x \in s : TRUE
      BY <3>1
    <3> DEFINE r == s \ {x}
    <3>3. r \in SUBSET S /\ Cardinality(r) = n /\ x \in S
      <4> HIDE DEF T, Good
      <4> QED
        BY <1>3, <2>0, <2>1, Without
    <3>4. Good(r)
      <4> HIDE DEF T, Good, r
      <4> QED
        BY <2>0, <3>3
    <3>5. U(s) = A[x] \cup U(r) /\ A[x] \cap U(r) = {} /\ A[x] \in SUBSET R /\ U(r) \in SUBSET R
      <4> HIDE DEF T, Good
      <4>1. U(s) = A[x] \cup U(r)
        OBVIOUS
      <4>2. A[x] \cap U(r) = {}
        OBVIOUS
      <4> QED
        BY <4>1, <4>2, <3>3
    <3>6. h[U(s)] = h[A[x]] + h[U(r)]
      <4> DEFINE a == A[x]
                 b == U(r)
      <4>1. a \in SUBSET R /\ b \in SUBSET R /\ a \cap b = {} /\ U(s) = a \cup b
        BY <3>5
      <4> HIDE DEF a, b, U, T, Good
      <4>2. h[a \cup b] = h[a] + h[b]
        BY <4>1, SumSplit
      <4> QED
        BY <4>1, <4>2 DEF a, b
    <3>7. g[s] = f[x] + g[r] /\ g[r] \in Nat /\ f[x] \in Nat /\ f[x] <= h[A[x]]
      BY <1>1, <3>3 DEF Sums
    <3>8. h[A[x]] \in Nat /\ h[U(r)] \in Nat /\ g[r] <= h[U(r)]
      <4>1. g[r] <= h[U(r)]
        BY <3>4
      <4> HIDE DEF U, T, Good, r
      <4> QED
        BY <1>2, <3>5, <4>1
    <3> DEFINE p == h[A[x]]
               q == h[U(r)]
               v == g[r]
    <3>9. h[U(s)] = p + q /\ g[s] = f[x] + v /\ f[x] <= p /\ v <= q
          /\ f[x] \in Nat /\ p \in Nat /\ q \in Nat /\ v \in Nat
      BY <3>6, <3>7, <3>8
    <3> HIDE DEF p, q, v, U, r, T
    <3> QED
      BY <3>9
  <2>2. \A s \in SUBSET S : Cardinality(s) <= n + 1 => Cardinality(s) <= n \/ Cardinality(s) = n + 1
    <3> HIDE DEF T, Good
    <3> QED
      BY <1>3, <2>0
  <2> HIDE DEF Good
  <2> QED
    BY <2>0, <2>1, <2>2
<1>6. T = Nat
  <2> HIDE DEF T
  <2> QED
    BY <1>4, <1>5, NatSet DEF T
<1>7. \A s \in SUBSET S : Good(s)
  <2> HIDE DEF Good
  <2>1. \A n \in Nat : \A s \in SUBSET S : Cardinality(s) <= n => Good(s)
    BY <1>6
  <2>2. \A s \in SUBSET S : Cardinality(s) \in Nat /\ Cardinality(s) <= Cardinality(s)
    BY <1>3
  <2> QED
    BY <2>1, <2>2
<1> QED
  BY <1>7

\* What a ledger credits was redeemed: the file is written after the commit.
Charged ==
    OwnLedger =>
        \A w \in Workers : \A log \in LogsOf(w) : \A i \in 1..Len(log) : pc[log[i].ref] = "redeemed"

\* A redeemed payment stays redeemed.
LEMMA RedeemedStays ==
    ASSUME TypeOK, [Next]_vars, NEW c \in Calls, pc[c] = "redeemed"
    PROVE  pc'[c] = "redeemed"
<1>1. ASSUME NEW d \in Calls, NEW flag \in BOOLEAN, Begin(d, flag) PROVE pc'[c] = "redeemed"
  BY <1>1 DEF Begin, TypeOK
<1>2. ASSUME NEW d \in Calls, Check(d) \/ Tally(d) PROVE pc'[c] = "redeemed"
  BY <1>2 DEF Check, Tally, TypeOK
<1>3. ASSUME NEW d \in Calls, Spend(d) \/ Unspend(d) \/ Raise(d) PROVE pc'[c] = "redeemed"
  BY <1>3 DEF Spend, Unspend, Raise, TypeOK
<1>4. CASE Tick \/ UNCHANGED vars
  BY <1>4 DEF Tick, vars
<1> QED
  BY <1>1, <1>2, <1>3, <1>4 DEF Next, Step

\* An entry is made for a redeemed payment, and a restart makes none.
LEMMA NextCharged ==
    ASSUME ServiceInv, Charged, [GNext]_gvars
    PROVE  Charged'
<1> SUFFICES ASSUME OwnLedger, NEW w \in Workers, NEW log \in LogsOf(w)', NEW i \in 1..Len(log)
             PROVE  pc'[log[i].ref] = "redeemed"
  BY DEF Charged, OwnLedger
<1>0. GTypeOK /\ TypeOK
  BY DEF ServiceInv, GTypeOK
<1>1. \A c \in Calls : pc[c] = "redeemed" => pc'[c] = "redeemed"
  BY <1>0, GatewayStep, RedeemedStays
<1>2. \A old \in LogsOf(w) : \A j \in 1..Len(old) : old[j].ref \in Calls /\ pc[old[j].ref] = "redeemed"
  BY <1>0, LogTypes DEF Charged
<1>3. CASE log \in LogsOf(w)
  BY <1>1, <1>2, <1>3
<1>4. CASE log = <<>>
  BY <1>4
<1>5. ASSUME NEW c \in Calls, pc[c] = "redeemed", log = Append(mem[w], Entry(c))
      PROVE  pc'[log[i].ref] = "redeemed"
  <2>1. mem[w] \in Seq([ref : Calls, amount : Nat]) /\ Len(mem[w]) \in Nat /\ mem[w] \in LogsOf(w)
    BY <1>0, LogTypes DEF LogsOf
  <2>2. /\ Len(log) = Len(mem[w]) + 1
        /\ \A j \in 1..Len(mem[w]) : log[j] = mem[w][j]
        /\ log[Len(mem[w]) + 1] = Entry(c)
    BY <1>5, <2>1
  <2>3. CASE i = Len(mem[w]) + 1
    BY <1>1, <1>5, <2>2, <2>3 DEF Entry
  <2>4. CASE i \in 1..Len(mem[w])
    BY <1>1, <1>2, <2>1, <2>2, <2>4
  <2> QED
    BY <2>1, <2>2, <2>3, <2>4
<1>6. ASSUME NEW u \in Workers, Crash(u) PROVE log \in LogsOf(w) \/ log = <<>>
  <2>1. UNCHANGED disk /\ \E new \in {disk[LedgerOf[u]], <<>>} : mem' = [mem EXCEPT ![u] = new]
    BY <1>6 DEF Crash, Reload, LoadLedger
  <2> QED
    BY <1>0, <2>1 DEF LogsOf, GTypeOK
<1>7. ASSUME NEW c \in Calls, Record(c) \/ RecordRaises(c)
      PROVE  pc[c] = "redeemed" /\ (log \in LogsOf(w) \/ log = Append(mem[w], Entry(c)))
  <2>1. /\ pc[c] = "redeemed" /\ mem' = [mem EXCEPT ![worker[c]] = Append(@, Entry(c))]
        /\ UNCHANGED disk \/ disk' = [disk EXCEPT ![LedgerOf[worker[c]]] = mem'[worker[c]]]
        /\ Active(c)
    BY <1>7 DEF Record, RecordRaises, Active
  <2>2. worker[c] \in Workers
    BY <2>1 DEF ServiceInv, Screened
  <2>3. mem'[w] = IF w = worker[c] THEN Append(mem[w], Entry(c)) ELSE mem[w]
    BY <1>0, <2>1, <2>2 DEF GTypeOK
  <2>4. disk'[LedgerOf[w]] = disk[LedgerOf[w]] \/ (w = worker[c] /\ disk'[LedgerOf[w]] = mem'[w])
    BY <1>0, <2>1, <2>2, LogTypes DEF GTypeOK, OwnLedger
  <2> QED
    BY <2>1, <2>3, <2>4 DEF LogsOf
<1>8. ASSUME NEW c \in Calls,
             \/ \E u \in SentTo[c] : Arrive(c, u)
             \/ StartVerify(c) \/ StartCommit(c) \/ RedeemStep(c) \/ RedeemRaises(c)
             \/ Verified(c) \/ Serve(c) \/ RuntimeFails(c) \/ PaymentRequired(c) \/ Respond(c)
      PROVE  UNCHANGED <<mem, disk>>
  BY <1>8 DEF Arrive, StartVerify, StartCommit, RedeemStep, RedeemRaises, Verified, Serve, RuntimeFails,
              PaymentRequired, Respond, ledgerVars
<1>9. Clock \/ UNCHANGED gvars => UNCHANGED <<mem, disk>>
  BY DEF Clock, ledgerVars, gvars
<1>10. UNCHANGED <<mem, disk>> => log \in LogsOf(w)
  BY DEF LogsOf
<1> QED
  BY <1>3, <1>4, <1>5, <1>6, <1>7, <1>8, <1>9, <1>10 DEF GNext, HandlerStep

\* A ledger never credits a payment that was not redeemed (record follows the
\* committing redeem_payment in chat_completions).
THEOREM ChargedHolds == GSpec => []Charged
<1>1. GInit => Charged
  <2>1. GInit => \A w \in Workers : mem[w] = <<>> /\ disk[LedgerOf[w]] = <<>>
    BY GatewayAssumption DEF GInit, Ledgers, Range
  <2> QED
    BY <2>1 DEF Charged, LogsOf
<1>2. ServiceInv /\ Charged /\ [GNext]_gvars => Charged'
  BY NextCharged
<1> QED
  BY <1>1, <1>2, ServiceInvHolds, PTL DEF GSpec

\* Credited and the total of the files are sums: of the amounts in a log, and of
\* the files.
AmountsOf(log) == [i \in DOMAIN log |-> log[i].amount]
CreditOf == [f \in Ledgers |-> Credited(f)]

LEMMA CreditedIsSum ==
    ASSUME NEW f, IsFiniteSet(DOMAIN disk[f]), \A i \in DOMAIN disk[f] : disk[f][i].amount \in Nat
    PROVE  \E g : /\ Sums(g, AmountsOf(disk[f]), DOMAIN disk[f])
                  /\ Credited(f) = g[DOMAIN disk[f]]
<1> DEFINE S == DOMAIN disk[f]
           a == AmountsOf(disk[f])
           Is(g) == g = [s \in SUBSET S |->
                            IF s = {} THEN 0 ELSE disk[f][AnyOf(s)].amount + g[s \ {AnyOf(s)}]]
<1>1. Credited(f) = (CHOOSE g : Is(g))[S]
  BY DEF Credited, FoldFunction, FoldFunctionOnSet, MapThenFoldSet, AnyOf
<1>2. \A s \in SUBSET S : s # {} => a[AnyOf(s)] = disk[f][AnyOf(s)].amount
  BY AnyOfIsMember DEF AmountsOf
<1>3. \A x \in S : a[x] \in Nat
  BY DEF AmountsOf
<1> HIDE DEF a, S
<1>4. \A g : IsSumOver(g, a, S) <=> Is(g)
  BY <1>2 DEF IsSumOver
<1>5. \E g : IsSumOver(g, a, S)
  BY SumExists DEF S
<1>6. Is(CHOOSE g : Is(g))
  <2> HIDE DEF Is
  <2> QED
    BY <1>4, <1>5
<1>7. IsSumOver(CHOOSE g : Is(g), a, S)
  <2> HIDE DEF Is
  <2> QED
    BY <1>4, <1>6
<1> HIDE DEF Is
<1> QED
  BY <1>1, <1>3, <1>7 DEF Sums, a, S

LEMMA TotalIsSum ==
    ASSUME \A f \in Ledgers : Credited(f) \in Nat, IsFiniteSet(Ledgers)
    PROVE  \E g : /\ Sums(g, CreditOf, Ledgers)
                  /\ MapThenSumSet(Credited, Ledgers) = g[Ledgers]
<1> DEFINE Is(g) == g = [s \in SUBSET Ledgers |->
                            IF s = {} THEN 0 ELSE Credited(AnyOf(s)) + g[s \ {AnyOf(s)}]]
<1>1. MapThenSumSet(Credited, Ledgers) = (CHOOSE g : Is(g))[Ledgers]
  BY DEF MapThenSumSet, MapThenFoldSet, AnyOf
<1>2. \A s \in SUBSET Ledgers : s # {} => CreditOf[AnyOf(s)] = Credited(AnyOf(s))
  BY AnyOfIsMember DEF CreditOf
<1>3. \A x \in Ledgers : CreditOf[x] \in Nat
  BY DEF CreditOf
<1>4. \A g : IsSumOver(g, CreditOf, Ledgers) <=> Is(g)
  BY <1>2 DEF IsSumOver
<1>5. \E g : IsSumOver(g, CreditOf, Ledgers)
  BY SumExists
<1>6. Is(CHOOSE g : Is(g))
  <2> HIDE DEF Is
  <2> QED
    BY <1>4, <1>5
<1>7. IsSumOver(CHOOSE g : Is(g), CreditOf, Ledgers)
  <2> HIDE DEF Is
  <2> QED
    BY <1>4, <1>6
<1> HIDE DEF Is
<1> QED
  BY <1>1, <1>3, <1>7 DEF Sums

\* What the redeemed payments are worth: together no less than their prices,
\* since no key is in two of them.
LEMMA RedeemedWorth ==
    ASSUME ContentionInv
    PROVE  /\ Sums(SumOver(Price, Redeemed), Price, Redeemed)
           /\ SumOver(Price, Redeemed)[Redeemed]
                  <= SumFunctionOnSet(Amount, UNION {KeysOf(c) : c \in Redeemed})
           /\ SumFunctionOnSet(Amount, UNION {KeysOf(c) : c \in Redeemed}) \in Nat
<1>1. \A c \in Redeemed : c \in Calls /\ Payable(c) /\ KeysOf(c) \in SUBSET Keys
  BY BatchFacts DEF ContentionInv, SpendersPay, Redeemed
<1>2. \A c, d \in Redeemed : c # d => KeysOf(c) \cap KeysOf(d) = {}
  BY OwnersDisjoint DEF ContentionInv, NoDoubleSpend
<1>3. IsFiniteSet(Redeemed)
  <2> DEFINE first == [c \in Redeemed |-> Batch[c][1]]
  <2>1. \A c \in Redeemed : Batch[c][1] \in KeysOf(c) /\ Batch[c][1] \in Keys
    <3> SUFFICES ASSUME NEW c \in Redeemed PROVE Batch[c][1] \in KeysOf(c) /\ Batch[c][1] \in Keys
      OBVIOUS
    <3>1. Batch[c] # <<>> /\ Batch[c] \in Seq(Keys) /\ Len(Batch[c]) \in Nat
      BY <1>1, BatchFacts DEF Payable, WellFormed
    <3>2. 1 \in 1..Len(Batch[c])
      BY <3>1, EmptySeq
    <3> QED
      BY <1>1, <3>2, BatchFacts
  <2>2. first \in Injection(Redeemed, Keys)
    BY <1>2, <2>1 DEF Injection, IsInjective
  <2> QED
    BY <2>2, FS_Injection, BatchAssumption
<1>4. \A c \in Redeemed : Price[c] \in Nat
  BY <1>1, ValueAssumption
<1> DEFINE g == SumOver(Price, Redeemed)
           h == SumOver(Amount, Keys)
           A == [c \in Redeemed |-> KeysOf(c)]
           U == UNION {KeysOf(c) : c \in Redeemed}
<1>5. Sums(g, Price, Redeemed)
  BY <1>3, <1>4, SumFacts DEF Sums
<1>6. Sums(h, Amount, Keys)
  BY BatchAssumption, ValueAssumption, SumFacts DEF Sums
<1>7. ASSUME NEW s \in SUBSET Keys PROVE SumFunctionOnSet(Amount, s) = h[s]
  <2>1. IsFiniteSet(s) /\ \A x \in s : Amount[x] \in Nat
    BY BatchAssumption, ValueAssumption, FS_Subset
  <2> DEFINE k == SumOver(Amount, s)
  <2>2. Sums(k, Amount, s)
    BY <2>1, SumFacts DEF Sums
  <2>3. \A x \in s : Amount[x] <= Amount[x]
    BY <2>1
  <2> HIDE DEF k, h
  <2>4. k[s] = h[s]
    BY <1>6, <2>2, <2>3, SumCompare
  <2> QED
    BY <2>4, SumUnfold DEF k
<1>8. \A c \in Redeemed : Price[c] <= h[A[c]]
  BY <1>1, <1>7 DEF Payable
<1>9. /\ A \in [Redeemed -> SUBSET Keys]
      /\ \A c, d \in Redeemed : c # d => A[c] \cap A[d] = {}
      /\ U = UNION {A[c] : c \in Redeemed} /\ U \in SUBSET Keys
  BY <1>1, <1>2
<1>10. g[Redeemed] <= h[UNION {A[c] : c \in Redeemed}]
  <2> HIDE DEF g, h, A, U
  <2>1. \A s \in SUBSET Redeemed : g[s] <= h[UNION {A[x] : x \in s}]
    BY <1>5, <1>6, <1>8, <1>9, SumCovered
  <2> QED
    BY <2>1
<1> HIDE DEF g, h, A, U
<1>11. h[U] \in Nat
  BY <1>6, <1>9, SumFactsOf DEF Sums
<1> QED
  BY <1>5, <1>7, <1>9, <1>10, <1>11 DEF g, U

\* The requests a log has entries for.
RefsOf(log) == {log[i].ref : i \in DOMAIN log}

\* The entries of one file: of redeemed requests to the one worker that writes
\* it, each entered once and at its price.
LEMMA FileFacts ==
    ASSUME GTypeOK, LedgerInv, Charged, OwnLedger, NEW f \in Ledgers
    PROVE  \E w \in Workers :
               /\ LedgerOf[w] = f /\ DOMAIN disk[f] = 1..Len(disk[f]) /\ Len(disk[f]) \in Nat
               /\ \A i \in DOMAIN disk[f] :
                      /\ disk[f][i].ref \in Redeemed /\ worker[disk[f][i].ref] = w
                      /\ disk[f][i].amount = Price[disk[f][i].ref] /\ disk[f][i].amount \in Nat
               /\ \A i, j \in DOMAIN disk[f] : disk[f][i].ref = disk[f][j].ref => i = j
<1>1. PICK w \in Workers : LedgerOf[w] = f
  BY GatewayAssumption DEF Ledgers, Range
<1>2. disk[f] \in LogsOf(w)
  BY <1>1 DEF LogsOf
<1>3. /\ disk[f] \in Seq([ref : Calls, amount : Nat]) /\ Len(disk[f]) \in Nat
      /\ \A i \in 1..Len(disk[f]) : disk[f][i] \in [ref : Calls, amount : Nat]
  BY <1>2, LogTypes
<1>4. DOMAIN disk[f] = 1..Len(disk[f])
  BY <1>3
<1>5. \A i \in DOMAIN disk[f] :
          /\ disk[f][i].ref \in Redeemed /\ worker[disk[f][i].ref] = w
          /\ disk[f][i].amount = Price[disk[f][i].ref] /\ disk[f][i].amount \in Nat
  BY <1>2, <1>3, <1>4 DEF LedgerInv, Faithful, Charged, Redeemed
<1>6. \A i, j \in DOMAIN disk[f] : disk[f][i].ref = disk[f][j].ref => i = j
  BY <1>2, <1>4 DEF LedgerInv, EnteredOnce
<1> QED
  BY <1>1, <1>3, <1>4, <1>5, <1>6

\* A file credits no more than the prices of the requests entered in it, and the
\* files no more than those of all redeemed requests.
LEMMA LedgersWorth ==
    ASSUME GTypeOK, LedgerInv, Charged, OwnLedger, NEW h, Sums(h, Price, Redeemed)
    PROVE  /\ MapThenSumSet(Credited, Ledgers) <= h[Redeemed]
           /\ MapThenSumSet(Credited, Ledgers) \in Nat /\ h[Redeemed] \in Nat
<1>0. \A r \in Redeemed : h[{r}] = Price[r]
  <2> SUFFICES ASSUME NEW r \in Redeemed PROVE h[{r}] = Price[r]
    OBVIOUS
  <2>1. h[{}] = 0 /\ Price[r] \in Nat /\ h[{r}] = Price[r] + h[{r} \ {r}]
    BY SumFactsOf DEF Sums
  <2>2. {r} \ {r} = {}
    OBVIOUS
  <2> QED
    BY <2>1, <2>2
<1>1. ASSUME NEW f \in Ledgers
      PROVE  Credited(f) \in Nat /\ Credited(f) <= h[RefsOf(disk[f])] /\ RefsOf(disk[f]) \in SUBSET Redeemed
  <2> DEFINE log == disk[f]
             S == DOMAIN log
             a == AmountsOf(log)
             A == [i \in S |-> {log[i].ref}]
  <2>1. /\ S = 1..Len(log) /\ Len(log) \in Nat
        /\ \A i \in S : /\ log[i].ref \in Redeemed
                        /\ log[i].amount = Price[log[i].ref] /\ log[i].amount \in Nat
        /\ \A i, j \in S : log[i].ref = log[j].ref => i = j
    BY FileFacts
  <2>2. IsFiniteSet(S)
    <3>1. IsFiniteSet(1..Len(log))
      BY <2>1, FS_Interval
    <3> HIDE DEF log
    <3> QED
      BY <2>1, <3>1
  <2>3. PICK g : Sums(g, a, S) /\ Credited(f) = g[S]
    BY <2>1, <2>2, CreditedIsSum
  <2>4. \A i \in S : a[i] <= h[A[i]]
    <3> SUFFICES ASSUME NEW i \in S PROVE a[i] <= h[A[i]]
      OBVIOUS
    <3> DEFINE r == log[i].ref
    <3>1. a[i] = log[i].amount /\ A[i] = {r}
      BY DEF AmountsOf
    <3>2. log[i].amount = Price[r] /\ log[i].amount \in Nat /\ h[{r}] = Price[r]
      BY <1>0, <2>1
    <3> HIDE DEF a, A, r, log
    <3> QED
      BY <3>1, <3>2
  <2>5. /\ A \in [S -> SUBSET Redeemed]
        /\ \A i, j \in S : i # j => A[i] \cap A[j] = {}
        /\ UNION {A[i] : i \in S} = RefsOf(log) /\ RefsOf(log) \in SUBSET Redeemed
    <3>1. \A i \in S : A[i] = {log[i].ref}
      OBVIOUS
    <3>2. RefsOf(log) = {log[i].ref : i \in S}
      BY DEF RefsOf
    <3>3. A \in [S -> SUBSET Redeemed] /\ \A i, j \in S : i # j => A[i] \cap A[j] = {}
      BY <2>1
    <3> HIDE DEF A, S, log
    <3>4. UNION {A[i] : i \in S} = RefsOf(log)
      <4> SUFFICES ASSUME NEW r PROVE r \in UNION {A[i] : i \in S} <=> \E i \in S : r = log[i].ref
        BY <3>2
      <4>1. r \in UNION {A[i] : i \in S} <=> \E i \in S : r \in A[i]
        OBVIOUS
      <4> QED
        BY <3>1, <4>1
    <3>5. RefsOf(log) \in SUBSET Redeemed
      BY <2>1, <3>2
    <3> QED
      BY <3>3, <3>4, <3>5
  <2> HIDE DEF a, A, S, log
  <2>6. \A s \in SUBSET S : g[s] <= h[UNION {A[i] : i \in s}]
    BY <2>3, <2>4, <2>5, SumCovered
  <2>7. g[S] \in Nat
    BY <2>3, SumFactsOf DEF Sums
  <2> QED
    BY <2>3, <2>5, <2>6, <2>7 DEF log
<1>2. \A e, f \in Ledgers : e # f => RefsOf(disk[e]) \cap RefsOf(disk[f]) = {}
  BY FileFacts DEF RefsOf
<1>3. IsFiniteSet(Ledgers)
  <2> DEFINE own == [w \in Workers |-> LedgerOf[w]]
  <2>1. own \in Surjection(Workers, Ledgers)
    BY GatewayAssumption DEF Surjection, Ledgers, Range
  <2> QED
    BY <2>1, FS_Surjection, GatewayAssumption
<1>4. PICK g : Sums(g, CreditOf, Ledgers) /\ MapThenSumSet(Credited, Ledgers) = g[Ledgers]
  BY <1>1, <1>3, TotalIsSum
<1> DEFINE A == [f \in Ledgers |-> RefsOf(disk[f])]
           U == UNION {A[f] : f \in Ledgers}
<1>5. /\ A \in [Ledgers -> SUBSET Redeemed] /\ U \in SUBSET Redeemed
      /\ \A f \in Ledgers : CreditOf[f] <= h[A[f]]
      /\ \A e, f \in Ledgers : e # f => A[e] \cap A[f] = {}
  BY <1>1, <1>2 DEF CreditOf
<1> HIDE DEF A
<1>6. g[Ledgers] <= h[U]
  <2>1. \A s \in SUBSET Ledgers : g[s] <= h[UNION {A[f] : f \in s}]
    BY <1>4, <1>5, SumCovered
  <2> QED
    BY <2>1
<1> HIDE DEF U
<1>7. h[U] \in Nat /\ h[Redeemed] \in Nat /\ h[U] <= h[Redeemed]
  BY <1>5, SumMonotone
<1>8. g[Ledgers] \in Nat
  BY <1>4, SumFactsOf DEF Sums
<1> QED
  BY <1>4, <1>6, <1>7, <1>8

\* What the ledger files of workers with files of their own credit is covered by
\* credits that were consumed.
THEOREM LedgerIsBackedHolds == GSpec => [](OwnLedger => LedgerIsBacked)
<1>1. GSpec => []ContentionInv
  BY GatewayImplementsRedemption, ContentionInvHolds, PTL DEF ImplementsRedemption
<1>2. ContentionInv /\ ServiceInv /\ LedgerInv /\ Charged => (OwnLedger => LedgerIsBacked)
  <2> SUFFICES ASSUME ContentionInv, ServiceInv, LedgerInv, Charged, OwnLedger PROVE LedgerIsBacked
    OBVIOUS
  <2> DEFINE h == SumOver(Price, Redeemed)
             m == MapThenSumSet(Credited, Ledgers)
             v == SumFunctionOnSet(Amount, UNION {KeysOf(c) : c \in Redeemed})
  <2>1. Sums(h, Price, Redeemed) /\ h[Redeemed] <= v /\ v \in Nat
    BY RedeemedWorth
  <2> HIDE DEF h
  <2>2. m <= h[Redeemed] /\ m \in Nat /\ h[Redeemed] \in Nat
    BY <2>1, LedgersWorth DEF ServiceInv
  <2>3. LedgerIsBacked <=> m <= v
    BY DEF LedgerIsBacked
  <2> HIDE DEF m, v
  <2> QED
    BY <2>1, <2>2, <2>3
<1> QED
  BY <1>1, <1>2, ServiceInvHolds, LedgerInvHolds, ChargedHolds, PTL

\* The books of a gateway are sound: a request that was served and then refused
\* was beaten to its credit, a paid answer is in the ledger at the price of its
\* receipt, and what the ledgers credit was consumed.
THEOREM LedgerSoundHolds == GSpec => [](OwnLedger => LedgerSound)
<1>1. ServiceInv /\ ServedIsPaid /\ (OwnLedger => AnsweredIsRecorded) /\ (OwnLedger => LedgerIsBacked)
          => (OwnLedger => LedgerSound)
  BY DEF ServiceInv, LedgerSound
<1> QED
  BY <1>1, ServiceInvHolds, ServedIsPaidHolds, AnsweredIsRecordedHolds, LedgerIsBackedHolds, PTL
=============================================================================

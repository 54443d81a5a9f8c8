---------------------------- MODULE RouterProofs ----------------------------
(***************************************************************************)
(* Proofs about Router: for chats in turn the wallet neither loses nor     *)
(* duplicates a voucher, and a chat is charged once, for an answer, by a   *)
(* payment that is accepted unless the provider has a reason of its own.   *)
(***************************************************************************)
EXTENDS Router, WellFoundedInduction, FiniteSetTheorems, SequenceTheorems, TLAPS

-----------------------------------------------------------------------------
(***************************************************************************)
(* Wallet.select: what the greedy pick takes and what the filter leaves.   *)
(***************************************************************************)
\* Induction on the natural numbers, for a set of them.
LEMMA NatSet ==
    ASSUME NEW T \in SUBSET Nat, 0 \in T, \A n \in T : n + 1 \in T
    PROVE  T = Nat
<1> DEFINE R == OpToRel(<, Nat)
<1>1. \A U \in SUBSET Nat : U # {} => \E x \in U : \A y \in U : ~(<<y, x>> \in R)
  BY WFMin, NatLessThanWellFounded, Zenon
<1>2. \A x, y \in Nat : y < x => <<y, x>> \in R
  BY DEF OpToRel
<1> HIDE DEF R
<1> SUFFICES ASSUME T # Nat PROVE FALSE
  OBVIOUS
<1>3. PICK x \in Nat \ T : \A y \in Nat \ T : ~(<<y, x>> \in R)
  BY <1>1
<1>4. \A y \in Nat \ T : ~(y < x)
  BY <1>2, <1>3
<1>5. x # 0 /\ x - 1 \in T
  BY <1>4
<1> QED
  BY <1>5

\* A set of natural numbers has a least element.
LEMMA LeastOf ==
    ASSUME NEW U \in SUBSET Nat, U # {}
    PROVE  Min(U) \in U /\ \A y \in U : Min(U) <= y
<1> DEFINE R == OpToRel(<, Nat)
<1>1. \A V \in SUBSET Nat : V # {} => \E x \in V : \A y \in V : ~(<<y, x>> \in R)
  BY WFMin, NatLessThanWellFounded, Zenon
<1>2. \A x, y \in Nat : y < x => <<y, x>> \in R
  BY DEF OpToRel
<1> HIDE DEF R
<1>3. PICK x \in U : \A y \in U : ~(<<y, x>> \in R)
  BY <1>1
<1>4. \A y \in U : x <= y
  <2>1. \A y \in U : ~(y < x) /\ y \in Nat /\ x \in Nat
    BY <1>2, <1>3
  <2> QED
    BY <2>1
<1> QED
  BY <1>3, <1>4 DEF Min

\* The elements of a sequence, by their positions.
LEMMA RangeOf ==
    ASSUME NEW S, NEW s \in Seq(S)
    PROVE  /\ Len(s) \in Nat /\ DOMAIN s = 1..Len(s)
           /\ \A i \in 1..Len(s) : s[i] \in S
           /\ Range(s) = {s[i] : i \in 1..Len(s)} /\ Range(s) \subseteq S
           /\ IsInjective(s) <=> \A i, j \in 1..Len(s) : s[i] = s[j] => i = j
           /\ s = <<>> <=> Len(s) = 0
<1>1. Len(s) \in Nat /\ DOMAIN s = 1..Len(s) /\ \A i \in 1..Len(s) : s[i] \in S
  BY LenProperties, ElementOfSeq
<1>2. s = <<>> <=> Len(s) = 0
  BY EmptySeq
<1> QED
  BY <1>1, <1>2 DEF Range, IsInjective

\* What the first i vouchers are worth.
Sums(f, vouchers, n) ==
    f = [i \in 0..n |-> IF i = 0 THEN 0 ELSE f[i - 1] + Amount[vouchers[i]]]

\* It is defined for every list.
LEMMA SumsExist ==
    ASSUME NEW vouchers \in Seq(Vouchers), NEW n \in Nat
    PROVE  \E f : Sums(f, vouchers, n)
<1> DEFINE T == {m \in Nat : \E f : Sums(f, vouchers, m)}
<1>1. 0 \in T
  <2> DEFINE f == [i \in 0..0 |-> 0]
  <2>1. Sums(f, vouchers, 0)
    BY DEF Sums
  <2> QED
    BY <2>1
<1>2. ASSUME NEW m \in T PROVE m + 1 \in T
  <2>1. PICK h : Sums(h, vouchers, m)
    OBVIOUS
  <2> DEFINE f == [i \in 0..(m + 1) |-> IF i = 0 THEN 0 ELSE h[i - 1] + Amount[vouchers[i]]]
  <2>2. m \in Nat
    OBVIOUS
  <2> HIDE DEF T
  <2>3. \A i \in 0..m : i \in 0..(m + 1) /\ f[i] = h[i]
    <3> SUFFICES ASSUME NEW i \in 0..m PROVE i \in 0..(m + 1) /\ f[i] = h[i]
      OBVIOUS
    <3>1. i \in 0..(m + 1)
      BY <2>2
    <3> DEFINE e == IF i = 0 THEN 0 ELSE h[i - 1] + Amount[vouchers[i]]
    <3>2. f[i] = e
      BY <3>1
    <3>3. h[i] = e
      BY <2>1 DEF Sums
    <3> QED
      BY <3>1, <3>2, <3>3
  <2>4. \A i \in 0..(m + 1) : i # 0 => i - 1 \in 0..m
    BY <2>2
  <2>5. \A i \in 0..(m + 1) : i # 0 => f[i - 1] = h[i - 1]
    BY <2>3, <2>4
  <2>6. Sums(f, vouchers, m + 1)
    BY <2>5 DEF Sums
  <2> HIDE DEF f
  <2> QED
    BY <2>2, <2>6 DEF T
<1>3. T = Nat
  <2> HIDE DEF T
  <2> QED
    BY <1>1, <1>2, NatSet DEF T
<1> QED
  BY <1>3

\* A list of vouchers is worth a natural number, and the empty one nothing.
LEMMA ValueFacts ==
    ASSUME NEW vouchers \in Seq(Vouchers)
    PROVE  Value(vouchers) \in Nat /\ (vouchers = <<>> => Value(vouchers) = 0)
<1> DEFINE n == Len(vouchers)
<1>0. n \in Nat /\ \A i \in 1..n : vouchers[i] \in Vouchers
  BY RangeOf
<1>1. PICK f : Sums(f, vouchers, n) /\ Value(vouchers) = f[n]
  <2>1. Value(vouchers) = (CHOOSE f : Sums(f, vouchers, n))[n]
    BY DEF Value, Sums
  <2>2. \E f : Sums(f, vouchers, n)
    BY <1>0, SumsExist
  <2> QED
    BY <2>1, <2>2
<1>2. f[0] = 0 /\ \A i \in 0..n : i # 0 => f[i] = f[i - 1] + Amount[vouchers[i]]
  <2>1. \A i \in 0..n : f[i] = IF i = 0 THEN 0 ELSE f[i - 1] + Amount[vouchers[i]]
    BY <1>1 DEF Sums
  <2>2. 0 \in 0..n
    BY <1>0
  <2> HIDE DEF n
  <2> QED
    BY <2>1, <2>2
<1> HIDE DEF n
<1> DEFINE T == {i \in Nat : i <= n => f[i] \in Nat}
<1>3. 0 \in T
  BY <1>2
<1>4. ASSUME NEW i \in T PROVE i + 1 \in T
  <2>0. i \in Nat /\ (i <= n => f[i] \in Nat)
    OBVIOUS
  <2>1. ASSUME i + 1 <= n PROVE f[i + 1] \in Nat
    <3>1. i + 1 \in 1..n /\ i + 1 \in 0..n /\ i + 1 # 0 /\ (i + 1) - 1 = i /\ f[i] \in Nat
      BY <1>0, <2>0, <2>1
    <3>2. f[i + 1] = f[i] + Amount[vouchers[i + 1]] /\ Amount[vouchers[i + 1]] \in Nat
      BY <1>0, <1>2, <3>1, RouterAssumption
    <3> QED
      BY <3>1, <3>2
  <2> QED
    BY <2>0, <2>1
<1>5. T = Nat
  <2> HIDE DEF T
  <2> QED
    BY <1>3, <1>4, NatSet DEF T
<1>6. f[n] \in Nat
  BY <1>0, <1>5
<1>7. vouchers = <<>> => n = 0
  BY RangeOf DEF n
<1> QED
  BY <1>1, <1>2, <1>6, <1>7

\* The pick is the first part of the wallet, and reaches the price if the wallet
\* does.
LEMMA GreedyFacts ==
    ASSUME wallet \in Seq(Vouchers), NEW price \in Nat
    PROVE  /\ Greedy(price) \in Seq(Vouchers)
           /\ Range(Greedy(price)) \subseteq Range(wallet)
           /\ IsInjective(wallet) => IsInjective(Greedy(price))
           /\ Value(wallet) >= price => Value(Greedy(price)) >= price
<1> DEFINE n == IF Reaching(price) = {} THEN Len(wallet) ELSE Min(Reaching(price))
<1>1. Reaching(price) \in SUBSET Nat /\ Len(wallet) \in Nat /\ Reaching(price) \subseteq 0..Len(wallet)
  BY LenProperties DEF Reaching
<1>2. /\ n \in 0..Len(wallet)
      /\ Reaching(price) # {} => n \in Reaching(price)
  BY <1>1, LeastOf
<1> HIDE DEF n
<1>3. /\ Greedy(price) = SubSeq(wallet, 1, n) /\ Greedy(price) \in Seq(Vouchers)
      /\ Len(Greedy(price)) = n /\ \A i \in 1..n : Greedy(price)[i] = wallet[i]
  <2>1. Greedy(price) = SubSeq(wallet, 1, n)
    BY DEF Greedy, n
  <2>2. /\ SubSeq(wallet, 1, n) \in Seq(Vouchers) /\ Len(SubSeq(wallet, 1, n)) = n
        /\ \A i \in 1..n : SubSeq(wallet, 1, n)[i] = wallet[i]
    BY <1>1, <1>2, SubSeqProperties
  <2> QED
    BY <2>1, <2>2
<1>4. 1..n \subseteq 1..Len(wallet)
  BY <1>1, <1>2
<1> DEFINE g == Greedy(price)
<1>a. /\ Range(g) = {g[i] : i \in 1..n} /\ \A i \in 1..n : g[i] = wallet[i]
      /\ IsInjective(g) <=> \A i, j \in 1..n : g[i] = g[j] => i = j
  <2>1. g \in Seq(Vouchers) /\ Len(g) = n /\ \A i \in 1..n : g[i] = wallet[i]
    BY <1>3
  <2> HIDE DEF g
  <2> QED
    BY <2>1, RangeOf
<1>b. /\ Range(wallet) = {wallet[i] : i \in 1..Len(wallet)}
      /\ IsInjective(wallet) <=> \A i, j \in 1..Len(wallet) : wallet[i] = wallet[j] => i = j
  BY RangeOf
<1>5. Range(g) \subseteq Range(wallet)
  <2> HIDE DEF g
  <2> QED
    BY <1>4, <1>a, <1>b
<1>6. IsInjective(wallet) => IsInjective(g)
  <2> HIDE DEF g
  <2> QED
    BY <1>4, <1>a, <1>b
<1>7. Value(wallet) >= price => Value(Greedy(price)) >= price
  <2>1. SubSeq(wallet, 1, Len(wallet)) = wallet
    BY <1>1, SubSeqFull
  <2>a. Value(SubSeq(wallet, 1, Len(wallet))) = Value(wallet)
    BY <2>1
  <2>2. Value(wallet) >= price => Len(wallet) \in Reaching(price)
    BY <1>1, <2>a DEF Reaching
  <2>3. n \in Reaching(price) => Value(SubSeq(wallet, 1, n)) >= price
    BY DEF Reaching
  <2> QED
    BY <1>2, <1>3, <2>2, <2>3
<1> QED
  BY <1>3, <1>5, <1>6, <1>7

\* The comprehension of select: what it keeps of the first i vouchers.
Comprehension(f, vouchers, picked, n) ==
    f = [i \in 0..n |-> IF i = 0 THEN <<>>
                        ELSE IF vouchers[i] \in picked THEN f[i - 1]
                        ELSE Append(f[i - 1], vouchers[i])]

\* It is defined for every list.
LEMMA ComprehensionExists ==
    ASSUME NEW vouchers \in Seq(Vouchers), NEW picked, NEW n \in Nat
    PROVE  \E f : Comprehension(f, vouchers, picked, n)
<1> DEFINE T == {m \in Nat : \E f : Comprehension(f, vouchers, picked, m)}
<1>1. 0 \in T
  <2> DEFINE f == [i \in 0..0 |-> <<>>]
  <2>1. Comprehension(f, vouchers, picked, 0)
    BY DEF Comprehension
  <2> QED
    BY <2>1
<1>2. ASSUME NEW m \in T PROVE m + 1 \in T
  <2>1. PICK h : Comprehension(h, vouchers, picked, m)
    OBVIOUS
  <2> DEFINE f == [i \in 0..(m + 1) |-> IF i = 0 THEN <<>>
                                       ELSE IF vouchers[i] \in picked THEN h[i - 1]
                                       ELSE Append(h[i - 1], vouchers[i])]
  <2>2. m \in Nat
    OBVIOUS
  <2> HIDE DEF T
  <2>3. \A i \in 0..m : i \in 0..(m + 1) /\ f[i] = h[i]
    <3> SUFFICES ASSUME NEW i \in 0..m PROVE i \in 0..(m + 1) /\ f[i] = h[i]
      OBVIOUS
    <3>1. i \in 0..(m + 1)
      BY <2>2
    <3> DEFINE e == IF i = 0 THEN <<>> ELSE IF vouchers[i] \in picked THEN h[i - 1]
                                           ELSE Append(h[i - 1], vouchers[i])
    <3>2. f[i] = e
      BY <3>1
    <3>3. h[i] = e
      BY <2>1 DEF Comprehension
    <3> QED
      BY <3>1, <3>2, <3>3
  <2>4. \A i \in 0..(m + 1) : i # 0 => i - 1 \in 0..m
    BY <2>2
  <2>5. \A i \in 0..(m + 1) : i # 0 => f[i - 1] = h[i - 1]
    BY <2>3, <2>4
  <2>6. Comprehension(f, vouchers, picked, m + 1)
    BY <2>5 DEF Comprehension
  <2> HIDE DEF f
  <2> QED
    BY <2>2, <2>6 DEF T
<1>3. T = Nat
  <2> HIDE DEF T
  <2> QED
    BY <1>1, <1>2, NatSet DEF T
<1> QED
  BY <1>3

\* It keeps what is not picked, each voucher once.
LEMMA UnpickedFacts ==
    ASSUME NEW vouchers \in Seq(Vouchers), NEW picked
    PROVE  /\ Unpicked(vouchers, picked) \in Seq(Vouchers)
           /\ Range(Unpicked(vouchers, picked)) = Range(vouchers) \ picked
           /\ IsInjective(vouchers) => IsInjective(Unpicked(vouchers, picked))
<1> DEFINE n == Len(vouchers)
           First(i) == {vouchers[j] : j \in 1..i}
           Kept(i, s) == /\ s \in Seq(Vouchers) /\ Range(s) = First(i) \ picked
                         /\ IsInjective(vouchers) => IsInjective(s)
<1>0. n \in Nat /\ \A i \in 1..n : vouchers[i] \in Vouchers
  BY RangeOf
<1>1. PICK f : Comprehension(f, vouchers, picked, n) /\ Unpicked(vouchers, picked) = f[n]
  <2>1. Unpicked(vouchers, picked) = (CHOOSE f : Comprehension(f, vouchers, picked, n))[n]
    BY DEF Unpicked, Comprehension
  <2>2. \E f : Comprehension(f, vouchers, picked, n)
    BY <1>0, ComprehensionExists
  <2> QED
    BY <2>1, <2>2
<1> DEFINE T == {i \in Nat : i <= n => Kept(i, f[i])}
<1>2. 0 \in T
  <2>1. f[0] = <<>>
    BY <1>0, <1>1 DEF Comprehension
  <2>2. <<>> \in Seq(Vouchers) /\ Len(<<>>) = 0
    BY EmptySeq
  <2>3. Range(<<>>) = {} /\ IsInjective(<<>>)
    BY DEF Range, IsInjective
  <2>4. First(0) = {}
    OBVIOUS
  <2> HIDE DEF First
  <2> QED
    BY <2>1, <2>2, <2>3, <2>4
<1>3. ASSUME NEW i \in T PROVE i + 1 \in T
  <2>0. i \in Nat /\ (i <= n => Kept(i, f[i]))
    OBVIOUS
  <2>1. ASSUME i + 1 <= n PROVE Kept(i + 1, f[i + 1])
    <3> DEFINE s == f[i]
               v == vouchers[i + 1]
    <3>1. Kept(i, s) /\ i \in 0..n /\ i + 1 \in 1..n /\ v \in Vouchers
      BY <1>0, <2>0, <2>1
    <3>2. f[i + 1] = IF v \in picked THEN s ELSE Append(s, v)
      <4>1. \A j \in 0..n : j # 0 =>
                f[j] = IF vouchers[j] \in picked THEN f[j - 1] ELSE Append(f[j - 1], vouchers[j])
        BY <1>1 DEF Comprehension
      <4>2. i + 1 \in 0..n /\ i + 1 # 0 /\ (i + 1) - 1 = i
        BY <1>0, <2>0, <2>1
      <4> QED
        BY <4>1, <4>2
    <3>3. First(i + 1) = First(i) \cup {v}
      BY <2>0
    <3>4. IsInjective(vouchers) => v \notin First(i)
      BY <1>0, <2>0, <2>1, RangeOf
    <3> HIDE DEF First, s, v
    <3>5. CASE v \in picked
      BY <3>1, <3>2, <3>3, <3>5
    <3>6. CASE v \notin picked
      <4>1. f[i + 1] = Append(s, v) /\ s \in Seq(Vouchers) /\ v \in Vouchers
        BY <3>1, <3>2, <3>6
      <4> DEFINE a == Append(s, v)
      <4>2. /\ a \in Seq(Vouchers) /\ Len(a) = Len(s) + 1 /\ Len(s) \in Nat
            /\ \A j \in 1..Len(s) : a[j] = s[j]
            /\ a[Len(s) + 1] = v
        BY <4>1, AppendProperties, LenProperties
      <4> HIDE DEF a
      <4>a. /\ Range(a) = {a[j] : j \in 1..Len(a)}
            /\ IsInjective(a) <=> \A j, k \in 1..Len(a) : a[j] = a[k] => j = k
        BY <4>2, RangeOf
      <4>b. /\ Range(s) = {s[j] : j \in 1..Len(s)}
            /\ IsInjective(s) <=> \A j, k \in 1..Len(s) : s[j] = s[k] => j = k
        BY <4>1, RangeOf
      <4>c. \A j \in 1..Len(a) : j \in 1..Len(s) \/ j = Len(s) + 1
        BY <4>2
      <4>d. Len(s) + 1 \in 1..Len(a) /\ \A j \in 1..Len(s) : j \in 1..Len(a)
        BY <4>2
      <4>3. Range(a) = Range(s) \cup {v}
        BY <4>2, <4>a, <4>b, <4>c, <4>d
      <4>4. IsInjective(s) /\ v \notin Range(s) => IsInjective(a)
        BY <4>2, <4>a, <4>b, <4>c, <4>d
      <4> QED
        BY <3>1, <3>3, <3>4, <3>6, <4>1, <4>2, <4>3, <4>4 DEF a
    <3> QED
      BY <3>5, <3>6
  <2> HIDE DEF Kept
  <2> QED
    BY <2>0, <2>1
<1>4. T = Nat
  <2> HIDE DEF T
  <2> QED
    BY <1>2, <1>3, NatSet DEF T
<1>5. Kept(n, f[n])
  <2> HIDE DEF Kept
  <2>1. n \in T
    BY <1>0, <1>4
  <2> QED
    BY <1>0, <2>1
<1>6. Range(vouchers) = First(n)
  BY RangeOf
<1> QED
  BY <1>1, <1>5, <1>6

-----------------------------------------------------------------------------
(***************************************************************************)
(* The requests.  A chat has at most one paid request it still waits for,  *)
(* or has taken its answer from; every other one miscarried or charged     *)
(* nothing.                                                                *)
(***************************************************************************)
\* The chat waits for the answer of candidate i, or has returned it.
Awaited(t, i) ==
    i = cand[t] /\ (pc[t] = "wait" \/ (pc[t] = "done" /\ result[t] = "served"))

\* A candidate is sent one paid request, once its turn has come.
NotYetPaid ==
    \A t \in Chats : \A i \in Index(t) :
        \/ pc[t] = "new" \/ i > cand[t]
        \/ i = cand[t] /\ pc[t] \notin {"wait", "done"}
        => request[t][i].state = "none"

\* What the chat has turned away from.
LeftBehind ==
    \A t \in Chats : \A i \in Index(t) :
        Awaited(t, i) \/ Miscarried(t, i) \/ request[t][i].state \in {"none", "402", "502"}

\* What it has returned is the answer of a free provider or a trusted 200.
ServedByTrusted ==
    \A t \in Chats : \A i \in Index(t) : Awaited(t, i) /\ pc[t] = "done" =>
        request[t][i].state \in {"none", "200"}

\* A provider credits what a request brought, and answers so.
CreditIsAnswered ==
    \A y \in credited : /\ request[y[1]][y[2]].state \in {"200", "500"}
                        /\ y[3] \in Range(request[y[1]][y[2]].batch)

\* A chat begins with its first candidate.
BeginsFirst == \A t \in Chats : pc[t] = "new" => cand[t] = 1

RequestInv == TypeOK /\ BeginsFirst /\ NotYetPaid /\ LeftBehind /\ ServedByTrusted /\ CreditIsAnswered

(***************************************************************************)
(* The spent sets.                                                         *)
(***************************************************************************)
\* A spent set holds nothing that was not credited.
SpentInv == \A g \in Guards : \A k \in consumed[g] : \E y \in credited : y[3] = k

(***************************************************************************)
(* The wallet, as long as one chat ran at a time.                          *)
(***************************************************************************)
Active(t) == pc[t] \notin {"new", "done"}

LoneChat == \A t, u \in Chats : Active(t) /\ Active(u) => t = u

\* A voucher is held once: in the wallet, or by one chat, but for the statements
\* of select between the pick and the assignment.
HeldOnce ==
    /\ IsInjective(wallet)
    /\ \A t \in Chats : IsInjective(reserved[t])
    /\ \A t \in Chats : pc[t] \notin {"filter", "assign"} => Range(reserved[t]) \cap Range(wallet) = {}
    /\ \A t, u \in Chats : t # u => Range(reserved[t]) \cap Range(reserved[u]) = {}

\* A chat holds vouchers from the pick on, until it returns them or is served.
Unreserved ==
    \A t \in Chats : \/ pc[t] \in {"new", "probe", "post", "balance", "pick"}
                     \/ pc[t] = "done" /\ result[t] # "served"
                     => reserved[t] = <<>>

\* What select is about to assign is the wallet without what it picked.
Filtered ==
    \A t \in Chats : pc[t] = "assign" =>
        IsInjective(left[t]) /\ Range(left[t]) = Range(wallet) \ Range(reserved[t])

\* select runs for a provider that takes vouchers.
Selecting ==
    \A t \in Chats : pc[t] \in {"balance", "pick", "filter", "assign"} => TakesVouchers(t)

\* The vouchers of a request that is awaited are in the chat's hands.
InHand ==
    \A t \in Chats : \A i \in Index(t) : Awaited(t, i) /\ request[t][i].state # "none" =>
        Range(request[t][i].batch) \cap Vouchers \subseteq Range(reserved[t])

WalletParts == LoneChat /\ HeldOnce /\ Unreserved /\ Filtered /\ Selecting /\ InHand /\ NothingLost

WalletInv == ~overlap => WalletParts

(***************************************************************************)
(* The payment, as long as one chat ran at a time.                         *)
(***************************************************************************)
\* select returns enough, if the balance was.
EnoughFor(t) ==
    /\ pc[t] = "pick" => Value(wallet) >= Price[Provider(t)]
    /\ pc[t] \in {"filter", "assign"} \/ (pc[t] = "pay" /\ TakesVouchers(t)) =>
           Value(reserved[t]) >= Price[Provider(t)]

Enough == \A t \in Chats : EnoughFor(t)

\* Every paid request is one x402 payment, or vouchers, each there once, that are
\* enough; a price that is zero is met by no voucher, which is no payment.
Offer(p, batch) ==
    \/ IsX402(batch)
    \/ /\ Range(batch) \subseteq Vouchers /\ IsInjective(batch)
       /\ Price[p] > 0 => Suffices(p, batch)

OffersEnough ==
    \A t \in Chats : \A i \in Index(t) :
        request[t][i].state # "none" => Offer(Candidates[t][i], request[t][i].batch)

\* A refusal without a reason of the provider's own.
Explained ==
    \A t \in Chats : \A i \in Index(t) :
        /\ request[t][i].state = "402" /\ <<t, i>> \notin givenUp
        /\ Unexceptionable(Candidates[t][i], request[t][i].batch)
        => \E y \in credited : y[3] \in Range(request[t][i].batch) /\ Miscarried(y[1], y[2])

OfferParts == Enough /\ OffersEnough /\ Explained

OfferInv == ~overlap => OfferParts

-----------------------------------------------------------------------------
\* One field of the table of requests is replaced.
LEMMA RequestReplaced ==
    ASSUME TypeOK, NEW t \in Chats, NEW i \in Index(t), NEW r \in PaidRequest,
           request' = [request EXCEPT ![t][i] = r]
    PROVE  /\ DOMAIN request' = Chats /\ \A u \in Chats : request'[u] \in [Index(u) -> PaidRequest]
           /\ \A u \in Chats : \A j \in Index(u) :
                  request'[u][j] = IF u = t /\ j = i THEN r ELSE request[u][j]
<1>1. DOMAIN request = Chats /\ \A u \in Chats : request[u] \in [Index(u) -> PaidRequest]
  BY DEF TypeOK
<1>2. \A u \in Chats : request'[u] = IF u = t THEN [request[t] EXCEPT ![i] = r] ELSE request[u]
  BY <1>1
<1>3. DOMAIN request' = Chats
  BY <1>1
<1> QED
  BY <1>1, <1>2, <1>3

\* The candidates of a chat, and its one of the moment.
LEMMA CandidateFacts ==
    ASSUME NEW t \in Chats
    PROVE  /\ Len(Candidates[t]) \in Nat /\ Index(t) = 1..Len(Candidates[t])
           /\ \A i \in Index(t) : Candidates[t][i] \in Providers
           /\ \A i \in Index(t) : <<t, i>> \in PaidRequests
           /\ Candidates[t] # <<>> => 1 \in Index(t)
<1>1. Candidates[t] \in Seq(Providers)
  BY RouterAssumption
<1>2. Len(Candidates[t]) \in Nat /\ \A i \in 1..Len(Candidates[t]) : Candidates[t][i] \in Providers
  BY <1>1, LenProperties, ElementOfSeq
<1>3. Candidates[t] # <<>> => Len(Candidates[t]) # 0
  BY <1>1, EmptySeq
<1> QED
  BY <1>2, <1>3 DEF Index, PaidRequests

\* A paid request is one of a chat, to one of its candidates.
LEMMA PaidRequestOf ==
    ASSUME NEW t, NEW i, <<t, i>> \in PaidRequests
    PROVE  t \in Chats /\ i \in Index(t)
<1>1. PICK u \in Chats : <<t, i>> \in {u} \X Index(u)
  BY DEF PaidRequests
<1> QED
  BY <1>1

\* Nobody but t moves.
OnlyMoves(t) ==
    \A u \in Chats \ {t} : pc'[u] = pc[u] /\ cand'[u] = cand[u] /\ result'[u] = result[u]

\* t stays with its candidate, goes to the next one or ends.
Stays(t) == cand'[t] = cand[t] /\ result'[t] = result[t] /\ pc'[t] \in PC \ {"new", "done"}
Passes(t) ==
    cand'[t] = cand[t] + 1 /\ cand'[t] \in Index(t) /\ result'[t] = result[t] /\ pc'[t] = "probe"
Ends(t, outcome) == cand'[t] = cand[t] /\ result'[t] = outcome /\ pc'[t] = "done"

Typed == /\ pc' \in [Chats -> PC] /\ cand' \in [Chats -> Nat]
         /\ result' \in [Chats -> {"none", "served", "exhausted", "raised"}]

\* The ways a chat goes on.
LEMMA MovesOf ==
    ASSUME TypeOK, NEW t \in Chats
    PROVE  /\ NextCandidate(t) /\ cand[t] \in Index(t) =>
                  Typed /\ OnlyMoves(t) /\ (Passes(t) \/ Ends(t, "exhausted"))
           /\ Served(t) => Typed /\ OnlyMoves(t) /\ Ends(t, "served")
           /\ Raised(t) => Typed /\ OnlyMoves(t) /\ Ends(t, "raised")
           /\ \A label \in PC \ {"new", "done"} : Goto(t, label) =>
                  Typed /\ OnlyMoves(t) /\ Stays(t) /\ pc'[t] = label
<1>1. ASSUME NextCandidate(t), cand[t] \in Index(t)
      PROVE  Typed /\ OnlyMoves(t) /\ (Passes(t) \/ Ends(t, "exhausted"))
  <2>1. cand[t] \in Nat /\ Len(Candidates[t]) \in Nat /\ Index(t) = 1..Len(Candidates[t])
    BY CandidateFacts DEF TypeOK
  <2>2. CASE cand[t] < Len(Candidates[t])
    <3>1. /\ cand' = [cand EXCEPT ![t] = @ + 1] /\ pc' = [pc EXCEPT ![t] = "probe"] /\ UNCHANGED result
          /\ cand[t] + 1 \in Index(t) /\ cand[t] + 1 \in Nat
      BY <1>1, <2>1, <2>2 DEF NextCandidate
    <3> QED
      BY <3>1 DEF TypeOK, Typed, OnlyMoves, Passes, PC
  <2>3. CASE ~(cand[t] < Len(Candidates[t]))
    BY <1>1, <2>3 DEF NextCandidate, TypeOK, Typed, OnlyMoves, Ends, PC
  <2> QED
    BY <2>2, <2>3
<1>2. ASSUME Served(t) PROVE Typed /\ OnlyMoves(t) /\ Ends(t, "served")
  BY <1>2 DEF Served, TypeOK, Typed, OnlyMoves, Ends, PC
<1>4. ASSUME Raised(t) PROVE Typed /\ OnlyMoves(t) /\ Ends(t, "raised")
  BY <1>4 DEF Raised, TypeOK, Typed, OnlyMoves, Ends, PC
<1>3. ASSUME NEW label \in PC \ {"new", "done"}, Goto(t, label)
      PROVE  Typed /\ OnlyMoves(t) /\ Stays(t) /\ pc'[t] = label
  BY <1>3 DEF Goto, TypeOK, Typed, OnlyMoves, Stays, PC
<1> QED
  BY <1>1, <1>2, <1>3, <1>4

\* The steps of a chat that are not about a paid request.
Unpaid(t) == Start(t) \/ Probe(t) \/ Post(t) \/ Balance(t) \/ Pick(t) \/ Filter(t) \/ Assign(t)

\* They move that chat alone and leave the providers alone.
LEMMA UnpaidMoves ==
    ASSUME TypeOK, BeginsFirst, NEW t \in Chats, Unpaid(t)
    PROVE  /\ pc[t] \in PC \ {"pay", "wait", "done"}
           /\ Typed /\ OnlyMoves(t)
           /\ \/ Stays(t) /\ pc'[t] # "wait" /\ cand[t] \in Index(t)
              \/ Passes(t) \/ \E o \in {"served", "exhausted", "raised"} : Ends(t, o)
           /\ UNCHANGED <<request, consumed, credited, givenUp>>
<1>0. pc[t] \notin {"new", "done"} => cand[t] \in Index(t)
  BY DEF TypeOK
<1>1. CASE Start(t)
  <2>1. pc[t] = "new" /\ cand[t] = 1 /\ UNCHANGED <<request, consumed, credited, givenUp>>
    BY <1>1 DEF Start, BeginsFirst, serverVars
  <2>2. CASE Candidates[t] = <<>>
    BY <1>1, <2>1, <2>2 DEF Start, TypeOK, Typed, OnlyMoves, Ends, PC
  <2>3. CASE Candidates[t] # <<>>
    <3>1. Goto(t, "probe") /\ "probe" \in PC \ {"new", "done"} /\ cand[t] \in Index(t)
      BY <1>1, <2>1, <2>3, CandidateFacts DEF Start, PC
    <3>2. Typed /\ OnlyMoves(t) /\ Stays(t) /\ pc'[t] = "probe"
      BY <3>1, MovesOf
    <3> QED
      BY <2>1, <3>1, <3>2 DEF PC
  <2> QED
    BY <2>2, <2>3
<1>2. ASSUME pc[t] \in {"probe", "post", "balance", "pick", "filter", "assign"},
             \/ NextCandidate(t) \/ Served(t) \/ Raised(t)
             \/ \E label \in {"post", "balance", "pick", "filter", "assign", "pay"} : Goto(t, label)
      PROVE  /\ Typed /\ OnlyMoves(t)
             /\ \/ Stays(t) /\ pc'[t] # "wait" /\ cand[t] \in Index(t)
                \/ Passes(t) \/ \E o \in {"served", "exhausted", "raised"} : Ends(t, o)
  BY <1>0, <1>2, MovesOf DEF PC
<1>3. CASE ~Start(t)
  <2>1. /\ pc[t] \in {"probe", "post", "balance", "pick", "filter", "assign"}
        /\ \/ NextCandidate(t) \/ Served(t) \/ Raised(t)
           \/ \E label \in {"post", "balance", "pick", "filter", "assign", "pay"} : Goto(t, label)
        /\ UNCHANGED <<request, consumed, credited, givenUp>>
    BY <1>3 DEF Unpaid, Probe, Post, PreparePayment, Balance, Pick, Filter, Assign, serverVars, historyVars
  <2> QED
    BY <1>2, <2>1 DEF PC
<1> QED
  BY <1>1, <1>3

\* What the steps of a chat without a request do to the wallet and its copies.
LEMMA UnpaidTypes ==
    ASSUME TypeOK, BeginsFirst, NEW t \in Chats, Unpaid(t)
    PROVE  TypeOK'
<1>1. /\ Typed /\ OnlyMoves(t)
      /\ cand'[t] \in Index(t) \/ pc'[t] = "done"
      /\ UNCHANGED <<request, consumed, credited, givenUp>>
  BY UnpaidMoves DEF Stays, Passes, Ends
<1>2. \A u \in Chats : cand'[u] \in Index(u) \/ pc'[u] \in {"new", "done"}
  BY <1>1 DEF OnlyMoves, TypeOK
<1>3. /\ wallet' \in Seq(Vouchers) /\ reserved' \in [Chats -> Seq(Vouchers)]
      /\ left' \in [Chats -> Seq(Vouchers)] /\ overlap' \in BOOLEAN
  <2>1. CASE Start(t) \/ Probe(t) \/ Post(t) \/ Balance(t)
    BY <2>1 DEF Start, Probe, Post, Balance, historyVars, TypeOK
  <2>2. CASE Pick(t)
    <3>1. cand[t] \in Index(t)
      BY <2>2 DEF Pick, TypeOK
    <3>2. Price[Provider(t)] \in Nat
      BY <3>1, CandidateFacts, RouterAssumption DEF Provider
    <3>3. Greedy(Price[Provider(t)]) \in Seq(Vouchers)
      BY <3>2, GreedyFacts DEF TypeOK
    <3> QED
      BY <2>2, <3>3 DEF Pick, historyVars, TypeOK
  <2>3. CASE Filter(t)
    <3>1. Unpicked(wallet, Range(reserved[t])) \in Seq(Vouchers)
      BY UnpickedFacts DEF TypeOK
    <3> QED
      BY <2>3, <3>1 DEF Filter, historyVars, TypeOK
  <2>4. CASE Assign(t)
    <3>1. <<>> \in Seq(Vouchers)
      BY EmptySeq
    <3> QED
      BY <2>4, <3>1 DEF Assign, Remaining, historyVars, TypeOK
  <2> QED
    BY <2>1, <2>2, <2>3, <2>4 DEF Unpaid
<1> QED
  BY <1>1, <1>2, <1>3 DEF TypeOK, Typed

\* None of them touches a request that matters.
LEMMA UnpaidRequests ==
    ASSUME RequestInv, NEW t \in Chats, Unpaid(t)
    PROVE  RequestInv'
<1>0. TypeOK /\ BeginsFirst
  BY DEF RequestInv
<1>1. /\ pc[t] \in PC \ {"pay", "wait", "done"}
      /\ OnlyMoves(t)
      /\ \/ Stays(t) /\ pc'[t] # "wait"
         \/ Passes(t) \/ \E o \in {"served", "exhausted", "raised"} : Ends(t, o)
      /\ UNCHANGED <<request, consumed, credited, givenUp>>
  BY <1>0, UnpaidMoves
<1>2. cand[t] \in Nat /\ \A i \in Index(t) : i \in Nat
  <2>1. Index(t) = 1..Len(Candidates[t]) /\ Len(Candidates[t]) \in Nat
    BY CandidateFacts
  <2> QED
    BY <1>0, <2>1 DEF TypeOK
<1>3. TypeOK'
  BY <1>0, UnpaidTypes
<1>4. BeginsFirst'
  BY <1>0, <1>1 DEF BeginsFirst, OnlyMoves, Stays, Passes, Ends
<1>5. \A i \in Index(t) :
          (pc[t] = "new" \/ i > cand[t] \/ i = cand[t]) => request[t][i].state = "none"
  BY <1>1 DEF RequestInv, NotYetPaid
<1>6. NotYetPaid'
  <2> SUFFICES ASSUME NEW u \in Chats, NEW i \in Index(u),
                      \/ pc'[u] = "new" \/ i > cand'[u]
                      \/ i = cand'[u] /\ pc'[u] \notin {"wait", "done"}
               PROVE  request[u][i].state = "none"
    BY <1>1 DEF NotYetPaid
  <2>1. CASE u # t
    BY <1>1, <2>1 DEF OnlyMoves, RequestInv, NotYetPaid
  <2>2. CASE u = t
    BY <1>1, <1>2, <1>5, <2>2 DEF Stays, Passes, Ends
  <2> QED
    BY <2>1, <2>2
<1>7. LeftBehind'
  <2> SUFFICES ASSUME NEW u \in Chats, NEW i \in Index(u)
               PROVE  Awaited(u, i)' \/ Miscarried(u, i) \/ request[u][i].state \in {"none", "402", "502"}
    BY <1>1 DEF LeftBehind, Miscarried
  <2>1. Awaited(u, i) \/ Miscarried(u, i) \/ request[u][i].state \in {"none", "402", "502"}
    BY DEF RequestInv, LeftBehind
  <2>2. Awaited(u, i) => u # t
    BY <1>1 DEF Awaited
  <2>3. u # t /\ Awaited(u, i) => Awaited(u, i)'
    BY <1>1 DEF Awaited, OnlyMoves
  <2> QED
    BY <2>1, <2>2, <2>3
<1>8. ServedByTrusted'
  <2> SUFFICES ASSUME NEW u \in Chats, NEW i \in Index(u), Awaited(u, i)', pc'[u] = "done"
               PROVE  request[u][i].state \in {"none", "200"}
    BY <1>1 DEF ServedByTrusted
  <2>1. CASE u # t
    BY <1>1, <2>1 DEF Awaited, OnlyMoves, RequestInv, ServedByTrusted
  <2>2. CASE u = t
    BY <1>1, <1>5, <2>2 DEF Awaited, Stays, Passes, Ends
  <2> QED
    BY <2>1, <2>2
<1>9. CreditIsAnswered'
  BY <1>1 DEF RequestInv, CreditIsAnswered
<1> QED
  BY <1>3, <1>4, <1>6, <1>7, <1>8, <1>9 DEF RequestInv

\* The paid request is sent.
LEMMA PayRequests ==
    ASSUME RequestInv, NEW t \in Chats, Pay(t)
    PROVE  RequestInv'
<1>0. TypeOK
  BY DEF RequestInv
<1>i. PICK i \in Index(t) : i = cand[t]
  BY <1>0 DEF Pay, TypeOK
<1> DEFINE r == [state |-> "sent", batch |-> Payment(t)]
<1>1. /\ pc[t] = "pay" /\ i = cand[t] /\ request' = [request EXCEPT ![t][i] = r] /\ Goto(t, "wait")
      /\ UNCHANGED <<wallet, reserved, left, consumed, credited, overlap, givenUp>>
  BY <1>0, <1>i DEF Pay, historyVars, TypeOK
<1>2. Typed /\ OnlyMoves(t) /\ Stays(t) /\ pc'[t] = "wait"
  BY <1>0, <1>1, MovesOf DEF PC
<1>3. r \in PaidRequest
  <2>1. reserved[t] \in Seq(Vouchers)
    BY <1>0 DEF TypeOK
  <2>2. reserved[t] \in Seq(Means)
    <3>1. Len(reserved[t]) \in Nat /\ reserved[t] \in [1..Len(reserved[t]) -> Means]
      BY <2>1, LenProperties DEF Means
    <3> QED
      BY <3>1
  <2>3. <<Nonce(t, i)>> \in Seq(Means)
    <3>1. <<t, i>> \in PaidRequests
      BY <1>1, CandidateFacts
    <3>2. Nonce(t, i) \in Means
      BY <3>1 DEF Means, Nonces, Nonce
    <3> QED
      BY <3>2
  <2> QED
    BY <1>1, <2>2, <2>3 DEF Payment, PaidRequest
<1> HIDE DEF r
<1>4. /\ DOMAIN request' = Chats /\ \A u \in Chats : request'[u] \in [Index(u) -> PaidRequest]
      /\ \A u \in Chats : \A j \in Index(u) :
             request'[u][j] = IF u = t /\ j = i THEN r ELSE request[u][j]
  <2>1. request' = [request EXCEPT ![t][i] = r]
    BY <1>1
  <2> QED
    BY <1>0, <1>3, <2>1, RequestReplaced
<1>5. request[t][i].state = "none"
  BY <1>1 DEF RequestInv, NotYetPaid
<1>6. TypeOK'
  <2>1. \A u \in Chats : cand'[u] \in Index(u) \/ pc'[u] \in {"new", "done"}
    BY <1>0, <1>1, <1>2 DEF OnlyMoves, Stays, TypeOK
  <2> QED
    BY <1>0, <1>1, <1>2, <1>4, <2>1 DEF TypeOK, Typed
<1>7. BeginsFirst'
  BY <1>2 DEF BeginsFirst, OnlyMoves, RequestInv
<1>8. NotYetPaid'
  <2> SUFFICES ASSUME NEW u \in Chats, NEW j \in Index(u),
                      \/ pc'[u] = "new" \/ j > cand'[u]
                      \/ j = cand'[u] /\ pc'[u] \notin {"wait", "done"}
               PROVE  request'[u][j].state = "none"
    BY DEF NotYetPaid
  <2>1. CASE u # t
    BY <1>2, <1>4, <2>1 DEF OnlyMoves, RequestInv, NotYetPaid
  <2>2. CASE u = t
    <3>1. j > i /\ i \in Nat
      BY <1>0, <1>1, <1>2, <2>2 DEF Stays, TypeOK
    <3>2. j # i
      BY <3>1, <2>2, CandidateFacts
    <3> QED
      BY <1>1, <1>4, <2>2, <3>1, <3>2 DEF RequestInv, NotYetPaid
  <2> QED
    BY <2>1, <2>2
<1>9. ASSUME NEW u \in Chats, NEW j \in Index(u), ~(u = t /\ j = i)
      PROVE  /\ request'[u][j] = request[u][j]
             /\ Awaited(u, j)' <=> Awaited(u, j)
             /\ Miscarried(u, j)' <=> Miscarried(u, j)
  <2>1. request'[u][j] = request[u][j]
    BY <1>4, <1>9
  <2>2. Awaited(u, j)' <=> Awaited(u, j)
    BY <1>1, <1>2, <1>9 DEF Awaited, OnlyMoves, Stays
  <2>3. Miscarried(u, j)' <=> Miscarried(u, j)
    BY <1>1, <2>1 DEF Miscarried
  <2> QED
    BY <2>1, <2>2, <2>3
<1>10. Awaited(t, i)' /\ pc'[t] # "done"
  BY <1>1, <1>2 DEF Awaited, Stays
<1>11. LeftBehind' /\ ServedByTrusted'
  <2> SUFFICES ASSUME NEW u \in Chats, NEW j \in Index(u)
               PROVE  /\ \/ Awaited(u, j)' \/ Miscarried(u, j)'
                         \/ request'[u][j].state \in {"none", "402", "502"}
                      /\ Awaited(u, j)' /\ pc'[u] = "done" => request'[u][j].state \in {"none", "200"}
    BY DEF LeftBehind, ServedByTrusted
  <2>1. CASE u = t /\ j = i
    BY <1>10, <2>1
  <2>2. CASE ~(u = t /\ j = i)
    <3>1. pc'[u] = "done" => u # t
      BY <1>2 DEF Stays
    <3>2. pc'[u] = "done" => pc[u] = "done"
      BY <1>2, <3>1 DEF OnlyMoves
    <3> QED
      BY <1>9, <2>2, <3>2 DEF LeftBehind, ServedByTrusted, RequestInv
  <2> QED
    BY <2>1, <2>2
<1>12. CreditIsAnswered'
  <2> SUFFICES ASSUME NEW x \in credited
               PROVE  /\ request'[x[1]][x[2]].state \in {"200", "500"}
                      /\ x[3] \in Range(request'[x[1]][x[2]].batch)
    BY <1>1 DEF CreditIsAnswered
  <2>1. x[1] \in Chats /\ x[2] \in Index(x[1])
    BY <1>0, PaidRequestOf DEF TypeOK
  <2>2. request[x[1]][x[2]].state \in {"200", "500"} /\ x[3] \in Range(request[x[1]][x[2]].batch)
    BY DEF RequestInv, CreditIsAnswered
  <2>3. ~(x[1] = t /\ x[2] = i)
    BY <1>5, <2>2
  <2> QED
    BY <1>9, <2>1, <2>2, <2>3
<1> QED
  BY <1>6, <1>7, <1>8, <1>11, <1>12 DEF RequestInv

\* The chat takes its answer, or turns away from the request.
Settles(t) == Receive(t) \/ TransportError(t)

\* What it did: the answer is returned, or the vouchers come back.
LEMMA SettlesAs ==
    ASSUME TypeOK, NEW t \in Chats, Settles(t)
    PROVE  /\ pc[t] = "wait" /\ cand[t] \in Index(t) /\ Typed /\ OnlyMoves(t)
           /\ \/ /\ Ends(t, "served") /\ request[t][cand[t]].state = "200"
                 /\ UNCHANGED <<wallet, reserved, givenUp>>
              \/ /\ Passes(t) \/ Ends(t, "exhausted")
                 /\ wallet' = wallet \o reserved[t] /\ reserved' = [reserved EXCEPT ![t] = <<>>]
                 /\ \/ /\ request[t][cand[t]].state \in {"402", "500", "502"} /\ UNCHANGED givenUp
                    \/ /\ request[t][cand[t]].state = "200" /\ Provider(t) \in Untrusted
                       /\ UNCHANGED givenUp
                    \/ givenUp' = givenUp \cup {<<t, cand[t]>>}
           /\ UNCHANGED <<left, request, consumed, credited, overlap>>
<1>1. pc[t] = "wait" /\ cand[t] \in Index(t) /\ UNCHANGED <<left, request, consumed, credited, overlap>>
  BY DEF Settles, Receive, TransportError, TypeOK, serverVars, historyVars
<1>2. /\ NextCandidate(t) => Typed /\ OnlyMoves(t) /\ (Passes(t) \/ Ends(t, "exhausted"))
      /\ Served(t) => Typed /\ OnlyMoves(t) /\ Ends(t, "served")
  BY <1>1, MovesOf
<1>3. CASE Receive(t)
  <2>1. /\ request[t][cand[t]].state \notin {"none", "sent"} /\ UNCHANGED givenUp
        /\ \/ /\ request[t][cand[t]].state = "200" /\ Trusted(t)
              /\ Served(t) /\ UNCHANGED <<wallet, reserved>>
           \/ /\ ~(request[t][cand[t]].state = "200" /\ Trusted(t))
              /\ GiveBack(t)
    BY <1>3 DEF Receive, historyVars
  <2>2. request[t][cand[t]].state \in {"none", "sent", "200", "402", "500", "502"}
    BY <1>1 DEF TypeOK, PaidRequest
  <2>3. GiveBack(t) => NextCandidate(t) /\ wallet' = wallet \o reserved[t]
                       /\ reserved' = [reserved EXCEPT ![t] = <<>>]
    BY DEF GiveBack, Refilled
  <2>4. ~Trusted(t) => Provider(t) \in Untrusted
    BY DEF Trusted
  <2> QED
    BY <1>1, <1>2, <2>1, <2>2, <2>3, <2>4
<1>4. CASE TransportError(t)
  BY <1>1, <1>2, <1>4 DEF TransportError, GiveBack, Refilled
<1> QED
  BY <1>3, <1>4 DEF Settles

\* Vouchers that come back go behind those that are there.
LEMMA RefilledFacts ==
    ASSUME NEW s \in Seq(Vouchers), NEW r \in Seq(Vouchers)
    PROVE  /\ s \o r \in Seq(Vouchers) /\ Range(s \o r) = Range(s) \cup Range(r)
           /\ IsInjective(s) /\ IsInjective(r) /\ Range(s) \cap Range(r) = {} => IsInjective(s \o r)
<1> DEFINE a == s \o r
           m == Len(s)
           n == Len(r)
<1>1. /\ m \in Nat /\ n \in Nat /\ a \in Seq(Vouchers) /\ Len(a) = m + n
      /\ \A i \in 1..(m + n) : a[i] = IF i <= m THEN s[i] ELSE r[i - m]
  BY ConcatProperties, LenProperties
<1>2. /\ Range(s) = {s[i] : i \in 1..m}
      /\ IsInjective(s) <=> \A i, j \in 1..m : s[i] = s[j] => i = j
  BY RangeOf
<1>3. /\ Range(r) = {r[i] : i \in 1..n}
      /\ IsInjective(r) <=> \A i, j \in 1..n : r[i] = r[j] => i = j
  BY RangeOf
<1>4. /\ Range(a) = {a[i] : i \in 1..(m + n)}
      /\ IsInjective(a) <=> \A i, j \in 1..(m + n) : a[i] = a[j] => i = j
  <2>1. a \in Seq(Vouchers) /\ Len(a) = m + n
    BY <1>1
  <2> HIDE DEF a, m, n
  <2>2. /\ Range(a) = {a[i] : i \in 1..Len(a)}
        /\ IsInjective(a) <=> \A i, j \in 1..Len(a) : a[i] = a[j] => i = j
    BY <2>1, RangeOf
  <2> QED
    BY <2>1, <2>2
<1> HIDE DEF a
<1> HIDE DEF m, n
<1>5. /\ \A i \in 1..m : i \in 1..(m + n) /\ a[i] = s[i]
      /\ \A i \in 1..n : i + m \in 1..(m + n) /\ a[i + m] = r[i]
      /\ \A i \in 1..(m + n) : \/ i \in 1..m /\ a[i] = s[i]
                               \/ i - m \in 1..n /\ a[i] = r[i - m]
  BY <1>1
<1>6. Range(a) = Range(s) \cup Range(r)
  <2>1. ASSUME NEW x \in Range(a) PROVE x \in Range(s) \cup Range(r)
    <3>1. PICK i \in 1..(m + n) : x = a[i]
      BY <1>4
    <3>2. CASE i \in 1..m /\ a[i] = s[i]
      BY <1>2, <3>1, <3>2
    <3>3. CASE i - m \in 1..n /\ a[i] = r[i - m]
      BY <1>3, <3>1, <3>3
    <3> QED
      BY <1>5, <3>1, <3>2, <3>3
  <2>2. ASSUME NEW x \in Range(s) PROVE x \in Range(a)
    <3>1. PICK i \in 1..m : x = s[i]
      BY <1>2
    <3> QED
      BY <1>4, <1>5, <3>1
  <2>3. ASSUME NEW x \in Range(r) PROVE x \in Range(a)
    <3>1. PICK i \in 1..n : x = r[i]
      BY <1>3
    <3> QED
      BY <1>4, <1>5, <3>1
  <2> QED
    BY <2>1, <2>2, <2>3
<1>7. ASSUME IsInjective(s), IsInjective(r), Range(s) \cap Range(r) = {} PROVE IsInjective(a)
  <2> SUFFICES ASSUME NEW i \in 1..(m + n), NEW j \in 1..(m + n), a[i] = a[j] PROVE i = j
    BY <1>4
  <2>1. CASE i \in 1..m /\ a[i] = s[i] /\ j \in 1..m /\ a[j] = s[j]
    BY <1>2, <1>7, <2>1
  <2>2. CASE i - m \in 1..n /\ a[i] = r[i - m] /\ j - m \in 1..n /\ a[j] = r[j - m]
    <3>1. i - m = j - m
      BY <1>3, <1>7, <2>2
    <3> QED
      BY <1>1, <3>1
  <2>a. \A k \in 1..m, l \in 1..n : s[k] # r[l]
    <3>1. \A k \in 1..m : s[k] \in Range(s)
      BY <1>2
    <3>2. \A l \in 1..n : r[l] \in Range(r)
      BY <1>3
    <3> QED
      BY <1>7, <3>1, <3>2
  <2>3. ASSUME i \in 1..m /\ a[i] = s[i] /\ j - m \in 1..n /\ a[j] = r[j - m] PROVE FALSE
    BY <2>a, <2>3
  <2>4. ASSUME j \in 1..m /\ a[j] = s[j] /\ i - m \in 1..n /\ a[i] = r[i - m] PROVE FALSE
    BY <2>a, <2>4
  <2> QED
    BY <1>5, <2>1, <2>2, <2>3, <2>4
<1> QED
  BY <1>1, <1>6, <1>7 DEF a

\* Settling one request leaves the others as they are.
LEMMA SettlesRequests ==
    ASSUME RequestInv, NEW t \in Chats, Settles(t)
    PROVE  RequestInv'
<1>0. TypeOK
  BY DEF RequestInv
<1>i. PICK i \in Index(t) : i = cand[t]
  BY <1>0, SettlesAs
<1>1. /\ pc[t] = "wait" /\ Typed /\ OnlyMoves(t) /\ i \in Nat /\ \A j \in Index(t) : j \in Nat
      /\ UNCHANGED <<left, request, consumed, credited, overlap>>
      /\ \/ Ends(t, "served") /\ request[t][i].state = "200"
         \/ Passes(t) \/ Ends(t, "exhausted")
      /\ \/ Ends(t, "served") \/ request[t][i].state \in {"402", "500", "502"}
         \/ request[t][i].state = "200" /\ Candidates[t][i] \in Untrusted
         \/ <<t, i>> \in givenUp'
      /\ givenUp \subseteq givenUp' /\ givenUp' \subseteq givenUp \cup {<<t, i>>}
  <2>1. i \in Nat /\ \A j \in Index(t) : j \in Nat
    <3>1. Index(t) = 1..Len(Candidates[t]) /\ Len(Candidates[t]) \in Nat
      BY CandidateFacts
    <3> QED
      BY <3>1
  <2> QED
    BY <1>0, <1>i, <2>1, SettlesAs DEF Provider
<1>2. TypeOK'
  <2>1. /\ wallet' \in Seq(Vouchers) /\ reserved' \in [Chats -> Seq(Vouchers)]
    <3>1. CASE UNCHANGED <<wallet, reserved>>
      BY <1>0, <3>1 DEF TypeOK
    <3>2. CASE wallet' = wallet \o reserved[t] /\ reserved' = [reserved EXCEPT ![t] = <<>>]
      <4>1. wallet \o reserved[t] \in Seq(Vouchers) /\ <<>> \in Seq(Vouchers)
        BY <1>0, RefilledFacts, EmptySeq DEF TypeOK
      <4> QED
        BY <1>0, <3>2, <4>1 DEF TypeOK
    <3> QED
      BY <1>0, <3>1, <3>2, SettlesAs
  <2>2. givenUp' \subseteq PaidRequests
    BY <1>0, <1>1, CandidateFacts DEF TypeOK
  <2>3. \A u \in Chats : cand'[u] \in Index(u) \/ pc'[u] \in {"new", "done"}
    BY <1>0, <1>1 DEF OnlyMoves, Passes, Ends, TypeOK
  <2> QED
    BY <1>0, <1>1, <2>1, <2>2, <2>3 DEF TypeOK, Typed
<1>3. BeginsFirst'
  BY <1>1 DEF BeginsFirst, OnlyMoves, Passes, Ends, RequestInv
<1>4. NotYetPaid'
  <2> SUFFICES ASSUME NEW u \in Chats, NEW j \in Index(u),
                      \/ pc'[u] = "new" \/ j > cand'[u]
                      \/ j = cand'[u] /\ pc'[u] \notin {"wait", "done"}
               PROVE  request[u][j].state = "none"
    BY <1>1 DEF NotYetPaid
  <2>1. CASE u # t
    BY <1>1, <2>1 DEF OnlyMoves, RequestInv, NotYetPaid
  <2>2. CASE u = t
    <3>1. j > cand[t]
      BY <1>i, <1>1, <2>2 DEF Passes, Ends
    <3> QED
      BY <2>2, <3>1 DEF RequestInv, NotYetPaid
  <2> QED
    BY <2>1, <2>2
<1>5. LeftBehind' /\ ServedByTrusted'
  <2> SUFFICES ASSUME NEW u \in Chats, NEW j \in Index(u)
               PROVE  /\ \/ Awaited(u, j)' \/ Miscarried(u, j)'
                         \/ request[u][j].state \in {"none", "402", "502"}
                      /\ Awaited(u, j)' /\ pc'[u] = "done" => request[u][j].state \in {"none", "200"}
    BY <1>1 DEF LeftBehind, ServedByTrusted
  <2>1. Miscarried(u, j) => Miscarried(u, j)'
    BY <1>1 DEF Miscarried
  <2>2. CASE u # t
    <3>1. Awaited(u, j)' <=> Awaited(u, j)
      BY <1>1, <2>2 DEF Awaited, OnlyMoves
    <3>2. pc'[u] = pc[u]
      BY <1>1, <2>2 DEF OnlyMoves
    <3> QED
      BY <2>1, <3>1, <3>2 DEF RequestInv, LeftBehind, ServedByTrusted
  <2>3. CASE u = t /\ j # i
    <3>1. ~Awaited(u, j)
      BY <1>i, <2>3 DEF Awaited
    <3>2. ~Awaited(u, j)'
      BY <1>i, <1>1, <2>3 DEF Awaited, Passes, Ends
    <3> QED
      BY <2>1, <3>1, <3>2 DEF RequestInv, LeftBehind, ServedByTrusted
  <2>4. CASE u = t /\ j = i
    <3>1. CASE Ends(t, "served") /\ request[t][i].state = "200"
      BY <1>i, <2>4, <3>1 DEF Awaited, Ends
    <3>2. CASE Passes(t) \/ Ends(t, "exhausted")
      <4>1. ~Awaited(t, j)' /\ ~Ends(t, "served")
        BY <1>i, <1>1, <2>4, <3>2 DEF Awaited, Passes, Ends
      <4>2. Miscarried(t, j)' \/ request[t][j].state \in {"402", "502"}
        BY <1>1, <2>4, <4>1 DEF Miscarried
      <4> QED
        BY <2>4, <4>1, <4>2
    <3> QED
      BY <1>1, <3>1, <3>2
  <2> QED
    BY <2>2, <2>3, <2>4
<1>6. CreditIsAnswered'
  BY <1>1 DEF RequestInv, CreditIsAnswered
<1> QED
  BY <1>2, <1>3, <1>4, <1>5, <1>6 DEF RequestInv

\* A provider answers s to a request that was sent.
Answers(t, i, s) ==
    /\ request[t][i].state = "sent"
    /\ DOMAIN request' = Chats /\ \A u \in Chats : request'[u] \in [Index(u) -> PaidRequest]
    /\ \A u \in Chats : \A j \in Index(u) :
           /\ request'[u][j].batch = request[u][j].batch
           /\ request'[u][j].state = IF u = t /\ j = i THEN s ELSE request[u][j].state
    /\ UNCHANGED <<wallet, pc, cand, reserved, left, result, overlap, givenUp>>

\* It redeems the batch, or does not and has a reason to say so.
Redeems(t, i) ==
    /\ Redeemable(Candidates[t][i], request[t][i].batch)
    /\ consumed' = [consumed EXCEPT ![GuardOf[Candidates[t][i]]] = @ \cup Range(request[t][i].batch)]
    /\ credited' = credited \cup {<<t, i, v>> : v \in Range(request[t][i].batch)}
Refuses(t, i, s) ==
    /\ UNCHANGED <<consumed, credited>>
    /\ s = "402" => \/ MayBeLate(request[t][i].batch)
                    \/ ~Redeemable(Candidates[t][i], request[t][i].batch)

\* A provider's answer is put into the request it answers.
LEMMA HandleAs ==
    ASSUME RequestInv, NEW t \in Chats, NEW i \in Index(t), Handle(t, i)
    PROVE  \E s \in {"200", "402", "500", "502"} :
               /\ Answers(t, i, s)
               /\ (s \in {"200", "500"} /\ Redeems(t, i)) \/ (s \in {"402", "502"} /\ Refuses(t, i, s))
<1> DEFINE batch == request[t][i].batch
           server == Candidates[t][i]
<1>0. TypeOK
  BY DEF RequestInv
<1>1. PICK s \in {"200", "402", "500", "502"} :
          /\ request[t][i].state = "sent"
          /\ request' = [request EXCEPT ![t][i].state = s]
          /\ \/ /\ s \in {"200", "500"} /\ Redeemable(server, batch)
                /\ consumed' = [consumed EXCEPT ![GuardOf[server]] = @ \cup Range(batch)]
                /\ credited' = credited \cup {<<t, i, v>> : v \in Range(batch)}
             \/ /\ s \in {"402", "502"} /\ UNCHANGED <<consumed, credited>>
                /\ s = "402" => MayBeLate(batch) \/ ~Redeemable(server, batch)
          /\ UNCHANGED <<wallet, pc, cand, reserved, left, result, overlap, givenUp>>
  BY DEF Handle, historyVars
<1> DEFINE r == [state |-> s, batch |-> request[t][i].batch]
<1>2. request[t] \in [Index(t) -> PaidRequest] /\ request[t][i] \in PaidRequest
  BY <1>0 DEF TypeOK
<1>3. r \in PaidRequest /\ [request[t][i] EXCEPT !.state = s] = r
  BY <1>2 DEF PaidRequest
<1>4. request' = [request EXCEPT ![t][i] = r]
  BY <1>0, <1>1, <1>2, <1>3 DEF TypeOK
<1>a. r.state = s /\ r.batch = request[t][i].batch
  OBVIOUS
<1> HIDE DEF r
<1>5. /\ DOMAIN request' = Chats /\ \A u \in Chats : request'[u] \in [Index(u) -> PaidRequest]
      /\ \A u \in Chats : \A j \in Index(u) :
             request'[u][j] = IF u = t /\ j = i THEN r ELSE request[u][j]
  BY <1>0, <1>3, <1>4, RequestReplaced
<1>6. Answers(t, i, s)
  BY <1>1, <1>5, <1>a DEF Answers
<1>7. (s \in {"200", "500"} /\ Redeems(t, i)) \/ (s \in {"402", "502"} /\ Refuses(t, i, s))
  BY <1>1 DEF Redeems, Refuses
<1> QED
  BY <1>6, <1>7

\* An answer changes one request that was sent.
LEMMA HandleRequests ==
    ASSUME RequestInv, NEW t \in Chats, NEW i \in Index(t), Handle(t, i)
    PROVE  RequestInv'
<1>0. TypeOK
  BY DEF RequestInv
<1> DEFINE batch == request[t][i].batch
           server == Candidates[t][i]
<1>a. PICK s \in {"200", "402", "500", "502"} :
          /\ Answers(t, i, s)
          /\ (s \in {"200", "500"} /\ Redeems(t, i)) \/ (s \in {"402", "502"} /\ Refuses(t, i, s))
  BY HandleAs
<1>1. /\ request[t][i].state = "sent"
      /\ DOMAIN request' = Chats /\ \A u \in Chats : request'[u] \in [Index(u) -> PaidRequest]
      /\ \A u \in Chats : \A j \in Index(u) :
             /\ request'[u][j].batch = request[u][j].batch
             /\ request'[u][j].state = IF u = t /\ j = i THEN s ELSE request[u][j].state
      /\ \/ /\ s \in {"200", "500"}
            /\ consumed' = [consumed EXCEPT ![GuardOf[server]] = @ \cup Range(batch)]
            /\ credited' = credited \cup {<<t, i, v>> : v \in Range(batch)}
         \/ UNCHANGED <<consumed, credited>>
      /\ UNCHANGED <<wallet, pc, cand, reserved, left, result, overlap, givenUp>>
  BY <1>a DEF Answers, Redeems, Refuses
<1>2. Range(batch) \subseteq Means
  <2>1. batch \in Seq(Means)
    BY <1>0 DEF TypeOK, PaidRequest
  <2> HIDE DEF batch
  <2> QED
    BY <2>1, RangeOf
<1>3. TypeOK'
  <2>1. consumed' \in [Guards -> SUBSET Means]
    BY <1>0, <1>1, <1>2 DEF TypeOK
  <2>2. <<t, i>> \in PaidRequests
    BY CandidateFacts
  <2>3. \A y \in credited' : <<y[1], y[2]>> \in PaidRequests /\ y[3] \in Means
    <3>1. \A y \in {<<t, i, v>> : v \in Range(batch)} : y[1] = t /\ y[2] = i /\ y[3] \in Range(batch)
      OBVIOUS
    <3> HIDE DEF batch
    <3> QED
      BY <1>0, <1>1, <1>2, <2>2, <3>1 DEF TypeOK
  <2> QED
    BY <1>0, <1>1, <2>1, <2>3 DEF TypeOK
<1>4. BeginsFirst'
  BY <1>1 DEF BeginsFirst, RequestInv
<1>5. ASSUME NEW u \in Chats, NEW j \in Index(u)
      PROVE  Awaited(u, j)' <=> Awaited(u, j)
  BY <1>1 DEF Awaited
<1>6. NotYetPaid'
  BY <1>1 DEF RequestInv, NotYetPaid
<1>7. ASSUME NEW u \in Chats, NEW j \in Index(u)
      PROVE  Awaited(u, j)' \/ Miscarried(u, j)' \/ request'[u][j].state \in {"none", "402", "502"}
  <2>1. Awaited(u, j) \/ Miscarried(u, j) \/ request[u][j].state \in {"none", "402", "502"}
    BY DEF RequestInv, LeftBehind
  <2>2. Miscarried(u, j) => Miscarried(u, j)'
    BY <1>1 DEF Miscarried
  <2>3. CASE ~(u = t /\ j = i)
    BY <1>1, <1>5, <2>1, <2>2, <2>3
  <2>4. CASE u = t /\ j = i
    BY <1>1, <1>5, <2>1, <2>2, <2>4
  <2> QED
    BY <2>3, <2>4
<1>8. LeftBehind'
  BY <1>7 DEF LeftBehind
<1>9. ServedByTrusted'
  <2> SUFFICES ASSUME NEW u \in Chats, NEW j \in Index(u), Awaited(u, j)', pc'[u] = "done"
               PROVE  request'[u][j].state \in {"none", "200"}
    BY DEF ServedByTrusted
  <2>1. request[u][j].state \in {"none", "200"}
    BY <1>1, <1>5 DEF RequestInv, ServedByTrusted
  <2> QED
    BY <1>1, <2>1
<1>10. CreditIsAnswered'
  <2> SUFFICES ASSUME NEW y \in credited'
               PROVE  /\ request'[y[1]][y[2]].state \in {"200", "500"}
                      /\ y[3] \in Range(request'[y[1]][y[2]].batch)
    BY DEF CreditIsAnswered
  <2>1. CASE y \in credited
    <3>1. y[1] \in Chats /\ y[2] \in Index(y[1])
      BY <1>0, <2>1, PaidRequestOf DEF TypeOK
    <3>2. request[y[1]][y[2]].state \in {"200", "500"} /\ y[3] \in Range(request[y[1]][y[2]].batch)
      BY <2>1 DEF RequestInv, CreditIsAnswered
    <3> QED
      BY <1>1, <3>1, <3>2
  <2>2. CASE y \notin credited
    <3>1. s \in {"200", "500"} /\ y \in {<<t, i, v>> : v \in Range(batch)}
      BY <1>1, <2>2
    <3>2. y[1] = t /\ y[2] = i /\ y[3] \in Range(batch)
      BY <3>1
    <3> QED
      BY <1>1, <3>1, <3>2
  <2> QED
    BY <2>1, <2>2
<1> QED
  BY <1>3, <1>4, <1>6, <1>8, <1>9, <1>10 DEF RequestInv

\* No request is paid at the start.
LEMMA InitRequests == Init => RequestInv
<1> SUFFICES ASSUME Init PROVE RequestInv
  OBVIOUS
<1>1. FirstWallet \in Seq(Vouchers) /\ <<>> \in Seq(Vouchers) /\ <<>> \in Seq(Means)
  BY RouterAssumption, EmptySeq
<1>2. NoRequest \in PaidRequest /\ NoRequest.state = "none"
  BY <1>1 DEF NoRequest, PaidRequest
<1>3. \A t \in Chats : request[t] = [i \in Index(t) |-> NoRequest]
  BY DEF Init
<1>4. TypeOK
  <2>1. wallet \in Seq(Vouchers) /\ reserved \in [Chats -> Seq(Vouchers)] /\ left \in [Chats -> Seq(Vouchers)]
    BY <1>1 DEF Init
  <2>2. /\ DOMAIN request = Chats /\ \A t \in Chats : request[t] \in [Index(t) -> PaidRequest]
    BY <1>2, <1>3 DEF Init
  <2>3. /\ pc \in [Chats -> PC] /\ cand \in [Chats -> Nat] /\ result \in [Chats -> {"none", "served", "exhausted", "raised"}]
        /\ consumed \in [Guards -> SUBSET Means]
    BY DEF Init, PC
  <2> QED
    BY <2>1, <2>2, <2>3 DEF Init, TypeOK
<1>5. BeginsFirst
  BY DEF Init, BeginsFirst
<1>6. NotYetPaid /\ LeftBehind /\ ServedByTrusted
  BY <1>2, <1>3 DEF NotYetPaid, LeftBehind, ServedByTrusted
<1>7. CreditIsAnswered
  BY DEF Init, CreditIsAnswered
<1> QED
  BY <1>4, <1>5, <1>6, <1>7 DEF RequestInv

\* What a step is about.
LEMMA NextIs ==
    ASSUME Next
    PROVE  \/ \E t \in Chats : Unpaid(t) \/ Pay(t) \/ Settles(t)
           \/ \E t \in Chats : \E i \in Index(t) : Handle(t, i)
  BY DEF Next, ClientStep, Select, Unpaid, Settles

\* Every step keeps the requests in order.
LEMMA NextRequests == RequestInv /\ [Next]_vars => RequestInv'
<1> SUFFICES ASSUME RequestInv, [Next]_vars PROVE RequestInv'
  OBVIOUS
<1>1. CASE Next
  BY <1>1, NextIs, UnpaidRequests, PayRequests, SettlesRequests, HandleRequests
<1>2. CASE UNCHANGED vars
  <2>1. UNCHANGED <<wallet, pc, cand, reserved, left, result, request, consumed, credited, overlap, givenUp>>
    BY <1>2 DEF vars
  <2>2. TypeOK'
    BY <2>1 DEF RequestInv, TypeOK
  <2>3. \A u \in Chats : \A i \in Index(u) :
            (Awaited(u, i)' <=> Awaited(u, i)) /\ (Miscarried(u, i)' <=> Miscarried(u, i))
    BY <2>1 DEF Awaited, Miscarried
  <2> QED
    BY <2>1, <2>2, <2>3 DEF RequestInv, BeginsFirst, NotYetPaid, LeftBehind, ServedByTrusted, CreditIsAnswered
<1> QED
  BY <1>1, <1>2

\* In every state, what a chat does not wait for or return has miscarried or was
\* refused, and what a provider credited was brought to it and answered.
THEOREM RequestInvHolds == Spec => []RequestInv
<1>1. Init => RequestInv
  BY InitRequests
<1>2. RequestInv /\ [Next]_vars => RequestInv'
  BY NextRequests
<1> QED
  BY <1>1, <1>2, PTL DEF Spec

\* A set with no two members has at most one.
LEMMA AtMostOne ==
    ASSUME NEW S, NEW x, S \subseteq {x}
    PROVE  Cardinality(S) <= 1
<1>1. S = {} \/ S = {x}
  OBVIOUS
<1>2. Cardinality({}) = 0 /\ Cardinality({x}) = 1
  BY FS_EmptySet, FS_Singleton
<1> QED
  BY <1>1, <1>2

\* A chat none of whose requests miscarried is charged by one provider, and only
\* if it was served, for every order of its steps, the providers' and the other
\* chats'.
THEOREM ChargedOnceHolds == Spec => []ChargedOnce
<1>1. RequestInv => ChargedOnce
  <2> SUFFICES ASSUME RequestInv, NEW t \in Chats, \A i \in Index(t) : ~Miscarried(t, i)
               PROVE  LET charges == {x[2] : x \in {y \in credited : y[1] = t}} IN
                      /\ Cardinality(charges) <= 1
                      /\ pc[t] = "done" /\ charges # {} => result[t] = "served"
    BY DEF ChargedOnce
  <2> DEFINE charges == {x[2] : x \in {y \in credited : y[1] = t}}
  <2>1. ASSUME NEW y \in credited, y[1] = t PROVE Awaited(t, y[2])
    <3>1. y[2] \in Index(t)
      BY <2>1, PaidRequestOf DEF RequestInv, TypeOK
    <3>2. request[t][y[2]].state \in {"200", "500"}
      BY <2>1 DEF RequestInv, CreditIsAnswered
    <3> QED
      BY <3>1, <3>2 DEF RequestInv, LeftBehind
  <2>2. charges \subseteq {cand[t]}
    BY <2>1 DEF Awaited
  <2>3. pc[t] = "done" /\ charges # {} => result[t] = "served"
    BY <2>1 DEF Awaited
  <2> HIDE DEF charges
  <2>4. Cardinality(charges) <= 1
    BY <2>2, AtMostOne
  <2> QED
    BY <2>3, <2>4 DEF charges
<1> QED
  BY <1>1, RequestInvHolds, PTL

-----------------------------------------------------------------------------
(***************************************************************************)
(* The spent set.                                                          *)
(***************************************************************************)
\* What is put there is credited.
LEMMA NextSpent == RequestInv /\ SpentInv /\ [Next]_vars => SpentInv'
<1> SUFFICES ASSUME RequestInv, SpentInv, [Next]_vars PROVE SpentInv'
  OBVIOUS
<1>0. TypeOK
  BY DEF RequestInv
<1>1. CASE UNCHANGED <<consumed, credited>>
  BY <1>1 DEF SpentInv
<1>2. ASSUME NEW t \in Chats, NEW i \in Index(t), Redeems(t, i)
      PROVE  SpentInv'
  <2> DEFINE keys == Range(request[t][i].batch)
             new == {<<t, i, v>> : v \in keys}
  <2>1. credited' = credited \cup new /\ \A h \in Guards : consumed'[h] \subseteq consumed[h] \cup keys
    BY <1>0, <1>2 DEF Redeems, TypeOK
  <2>2. ASSUME NEW v \in keys PROVE \E y \in new : y[3] = v
    <3>1. <<t, i, v>> \in new
      OBVIOUS
    <3>2. <<t, i, v>>[3] = v
      OBVIOUS
    <3> HIDE DEF new
    <3> QED
      BY <3>1, <3>2
  <2> HIDE DEF new, keys
  <2>3. ASSUME NEW h \in Guards, NEW k \in consumed'[h] PROVE \E y \in credited' : y[3] = k
    BY <2>1, <2>2 DEF SpentInv
  <2> QED
    BY <2>3 DEF SpentInv
<1>3. ASSUME NEW t \in Chats, NEW i \in Index(t), Handle(t, i)
      PROVE  Redeems(t, i) \/ UNCHANGED <<consumed, credited>>
  BY <1>3, HandleAs DEF Refuses
<1>4. ASSUME NEW t \in Chats, Unpaid(t) \/ Pay(t) \/ Settles(t)
      PROVE  UNCHANGED <<consumed, credited>>
  BY <1>0, <1>4, UnpaidMoves, SettlesAs DEF Pay, RequestInv
<1>5. CASE UNCHANGED vars
  BY <1>1, <1>5 DEF vars
<1> QED
  BY <1>1, <1>2, <1>3, <1>4, <1>5, NextIs

-----------------------------------------------------------------------------
(***************************************************************************)
(* The wallet.                                                             *)
(***************************************************************************)
\* No chat but t is under way.
Quiet(t) == \A u \in Chats \ {t} : pc[u] \in {"new", "done"}

\* As long as chats did not overlap, the one that moves is the only one.
LEMMA MoverIsAlone ==
    ASSUME RequestInv, WalletInv, ~overlap', NEW t \in Chats, Unpaid(t) \/ Pay(t) \/ Settles(t)
    PROVE  WalletParts /\ Quiet(t) /\ OnlyMoves(t) /\ LoneChat'
<1>0. TypeOK /\ BeginsFirst
  BY DEF RequestInv
<1>1. OnlyMoves(t)
  <2>1. CASE Pay(t)
    BY <1>0, <2>1, MovesOf DEF Pay, PC
  <2> QED
    BY <1>0, <2>1, UnpaidMoves, SettlesAs
<1>2. ~overlap /\ (Start(t) => Quiet(t)) /\ (~Start(t) => Active(t))
  <2>1. CASE Start(t)
    <3>1. ~(overlap \/ \E u \in Chats \ {t} : pc[u] \notin {"new", "done"})
      BY <2>1 DEF Start
    <3> QED
      BY <2>1, <3>1 DEF Quiet
  <2>2. CASE ~Start(t) /\ Unpaid(t)
    BY <2>2 DEF Unpaid, Probe, Post, Balance, Pick, Filter, Assign, Active, historyVars
  <2>3. CASE Pay(t)
    BY <2>3 DEF Pay, Start, Active, historyVars
  <2>4. CASE Settles(t)
    BY <1>0, <2>4, SettlesAs DEF Start, Active
  <2> QED
    BY <2>1, <2>2, <2>3, <2>4
<1>3. WalletParts
  BY <1>2 DEF WalletInv
<1>4. Quiet(t)
  BY <1>2, <1>3 DEF WalletParts, LoneChat, Active, Quiet
<1>5. LoneChat'
  BY <1>1, <1>4 DEF LoneChat, Active, Quiet, OnlyMoves
<1> QED
  BY <1>1, <1>3, <1>4, <1>5

\* The steps before select, and its look at the balance, move no voucher.
LEMMA LooksWallet ==
    ASSUME RequestInv, WalletParts, NEW t \in Chats, Quiet(t), OnlyMoves(t), LoneChat',
           Start(t) \/ Probe(t) \/ Post(t) \/ Balance(t)
    PROVE  WalletParts'
<1>0. TypeOK /\ BeginsFirst
  BY DEF RequestInv
<1>1. /\ pc[t] \in {"new", "probe", "post", "balance"}
      /\ UNCHANGED <<wallet, reserved, left, request>>
  BY DEF Start, Probe, Post, Balance, serverVars
<1>2. /\ \/ Stays(t) /\ pc'[t] # "wait" /\ cand[t] \in Index(t)
         \/ Passes(t) \/ \E o \in {"served", "exhausted", "raised"} : Ends(t, o)
      /\ Typed
  BY <1>0, UnpaidMoves DEF Unpaid
<1>3. /\ pc'[t] \notin {"filter", "assign"}
      /\ pc'[t] \in {"balance", "pick"} => TakesVouchers(t) /\ cand'[t] = cand[t]
  <2>1. /\ NextCandidate(t) \/ Served(t) \/ Raised(t) => pc'[t] \in {"probe", "done"}
        /\ \A label \in {"probe", "post", "balance", "pick", "pay"} :
               Goto(t, label) => pc'[t] = label /\ cand'[t] = cand[t]
    BY <1>0 DEF NextCandidate, Served, Raised, Goto, TypeOK
  <2>2. CASE Start(t)
    BY <1>0, <2>1, <2>2 DEF Start, TypeOK
  <2>3. CASE Probe(t)
    BY <2>1, <2>3 DEF Probe
  <2>4. CASE Post(t)
    BY <2>1, <2>4 DEF Post, PreparePayment
  <2>5. CASE Balance(t)
    <3>1. TakesVouchers(t)
      BY <2>5 DEF Balance, WalletParts, Selecting
    <3> QED
      BY <2>1, <2>5, <3>1 DEF Balance
  <2> QED
    BY <2>2, <2>3, <2>4, <2>5
<1>4. HeldOnce'
  BY <1>1, <1>3 DEF WalletParts, HeldOnce, OnlyMoves
<1>5. Unreserved'
  BY <1>1 DEF WalletParts, Unreserved, OnlyMoves
<1>6. Filtered'
  BY <1>3 DEF Filtered, OnlyMoves, Quiet
<1>7. Selecting'
  BY <1>3 DEF Selecting, OnlyMoves, Quiet, TakesVouchers, Provider
<1>8. InHand'
  <2> SUFFICES ASSUME NEW u \in Chats, NEW i \in Index(u), Awaited(u, i)', request[u][i].state # "none"
               PROVE  Range(request[u][i].batch) \cap Vouchers \subseteq Range(reserved[u])
    BY <1>1 DEF InHand
  <2>1. CASE u = t
    <3>1. i = cand[t]
      BY <1>2, <2>1 DEF Awaited, Stays, Passes, Ends
    <3> QED
      BY <1>1, <2>1, <3>1 DEF RequestInv, NotYetPaid
  <2>2. CASE u # t
    BY <2>2 DEF Awaited, OnlyMoves, WalletParts, InHand
  <2> QED
    BY <2>1, <2>2
<1>9. NothingLost'
  BY <1>1 DEF WalletParts, NothingLost
<1> QED
  BY <1>4, <1>5, <1>6, <1>7, <1>8, <1>9 DEF WalletParts

\* The rest of select: the pick, the list without it and the assignment.
LEMMA SelectsWallet ==
    ASSUME RequestInv, WalletParts, NEW t \in Chats, Quiet(t), OnlyMoves(t), LoneChat',
           Pick(t) \/ Filter(t) \/ Assign(t)
    PROVE  WalletParts'
<1>0. TypeOK
  BY DEF RequestInv
<1>1. /\ pc[t] \in {"pick", "filter", "assign"} /\ UNCHANGED <<cand, result, request>>
      /\ pc'[t] \in {"filter", "assign", "pay"} /\ TakesVouchers(t)
  BY <1>0 DEF Pick, Filter, Assign, Goto, TypeOK, serverVars, WalletParts, Selecting
<1>2. Selecting'
  BY <1>1 DEF Selecting, OnlyMoves, Quiet, TakesVouchers, Provider
<1>3. ASSUME NEW u \in Chats, u # t, reserved'[u] = reserved[u], NEW i \in Index(u),
             Awaited(u, i)', request[u][i].state # "none"
      PROVE  Range(request[u][i].batch) \cap Vouchers \subseteq Range(reserved'[u])
  BY <1>3 DEF Awaited, OnlyMoves, WalletParts, InHand
<1>4. (\A u \in Chats : u # t => reserved'[u] = reserved[u]) => InHand'
  BY <1>1, <1>3 DEF InHand, Awaited
<1>a. \A u \in Chats : u # t => pc[u] \notin {"filter", "assign"} /\ pc'[u] \notin {"filter", "assign"}
  BY DEF Quiet, OnlyMoves
<1>b. /\ IsInjective(wallet) /\ \A u \in Chats : IsInjective(reserved[u])
      /\ \A u \in Chats : u # t => Range(reserved[u]) \cap Range(wallet) = {}
      /\ \A u, v \in Chats : u # v => Range(reserved[u]) \cap Range(reserved[v]) = {}
  BY <1>a DEF WalletParts, HeldOnce
<1>5. CASE Pick(t)
  <2> DEFINE g == Greedy(Price[Provider(t)])
  <2>1. /\ pc[t] = "pick" /\ pc'[t] = "filter" /\ UNCHANGED <<wallet, left>>
        /\ reserved' = [reserved EXCEPT ![t] = g] /\ reserved[t] = <<>>
    BY <1>0, <1>5 DEF Pick, Goto, TypeOK, WalletParts, Unreserved
  <2>2. Range(g) \subseteq Range(wallet) /\ IsInjective(g)
    <3>1. cand[t] \in Index(t)
      BY <1>0, <2>1 DEF TypeOK
    <3>2. Price[Provider(t)] \in Nat
      BY <3>1, CandidateFacts, RouterAssumption DEF Provider
    <3> QED
      BY <1>0, <1>b, <3>2, GreedyFacts DEF TypeOK
  <2> HIDE DEF g
  <2>3. reserved'[t] = g /\ \A u \in Chats : u # t => reserved'[u] = reserved[u]
    BY <1>0, <2>1 DEF TypeOK
  <2>4. HeldOnce'
    <3>1. \A u \in Chats : IsInjective(reserved'[u])
      BY <1>b, <2>2, <2>3
    <3>2. \A u \in Chats : pc'[u] \notin {"filter", "assign"} => Range(reserved'[u]) \cap Range(wallet') = {}
      BY <1>b, <2>1, <2>3
    <3>3. \A u, v \in Chats : u # v => Range(reserved'[u]) \cap Range(reserved'[v]) = {}
      <4>1. \A u \in Chats : u # t => Range(reserved'[u]) \cap Range(reserved'[t]) = {}
        BY <1>b, <2>2, <2>3
      <4>2. \A u, v \in Chats : u # t /\ v # t /\ u # v => Range(reserved'[u]) \cap Range(reserved'[v]) = {}
        BY <1>b, <2>3
      <4> QED
        BY <4>1, <4>2
    <3> QED
      BY <1>b, <2>1, <3>1, <3>2, <3>3 DEF HeldOnce
  <2>5. Unreserved' /\ Filtered'
    BY <1>a, <2>1, <2>3 DEF Unreserved, Filtered, OnlyMoves, WalletParts
  <2>6. NothingLost'
    <3>1. Range(reserved[t]) = {}
      BY <2>1 DEF Range
    <3> QED
      BY <2>1, <2>3, <3>1 DEF WalletParts, NothingLost
  <2> QED
    BY <1>2, <1>4, <2>3, <2>4, <2>5, <2>6 DEF WalletParts
<1>6. CASE Filter(t)
  <2>1. /\ pc[t] = "filter" /\ pc'[t] = "assign" /\ UNCHANGED <<wallet, reserved>>
        /\ left'[t] = Unpicked(wallet, Range(reserved[t]))
    BY <1>0, <1>6 DEF Filter, Goto, TypeOK
  <2>2. HeldOnce' /\ Unreserved' /\ NothingLost'
    <3>1. HeldOnce'
      BY <1>a, <1>b, <2>1 DEF HeldOnce
    <3>2. Unreserved'
      BY <2>1 DEF Unreserved, OnlyMoves, WalletParts
    <3>3. NothingLost'
      BY <2>1 DEF NothingLost, WalletParts
    <3> QED
      BY <3>1, <3>2, <3>3
  <2>3. Filtered'
    <3>1. IsInjective(left'[t]) /\ Range(left'[t]) = Range(wallet) \ Range(reserved[t])
      BY <1>0, <1>b, <2>1, UnpickedFacts DEF TypeOK
    <3> QED
      BY <1>a, <2>1, <3>1 DEF Filtered
  <2> QED
    BY <1>2, <1>4, <2>1, <2>2, <2>3 DEF WalletParts
<1>7. CASE Assign(t)
  <2>1. pc[t] = "assign" /\ pc'[t] = "pay" /\ wallet' = left[t] /\ UNCHANGED reserved
    BY <1>0, <1>7 DEF Assign, Remaining, Goto, TypeOK
  <2>2. IsInjective(wallet') /\ Range(wallet') = Range(wallet) \ Range(reserved[t])
    BY <2>1 DEF WalletParts, Filtered
  <2>3. HeldOnce'
    BY <1>b, <2>1, <2>2 DEF HeldOnce
  <2>4. Unreserved' /\ Filtered'
    BY <1>a, <2>1 DEF Unreserved, Filtered, OnlyMoves, WalletParts
  <2>5. NothingLost'
    BY <2>1, <2>2 DEF NothingLost, WalletParts
  <2> QED
    BY <1>2, <1>4, <2>1, <2>3, <2>4, <2>5 DEF WalletParts
<1> QED
  BY <1>5, <1>6, <1>7

\* The chat pays with what it holds, or with a payment of its own.
LEMMA PaysWallet ==
    ASSUME RequestInv, WalletParts, NEW t \in Chats, Quiet(t), OnlyMoves(t), LoneChat', Pay(t)
    PROVE  WalletParts'
<1>0. TypeOK
  BY DEF RequestInv
<1>i. PICK i \in Index(t) : i = cand[t]
  BY <1>0 DEF Pay, TypeOK
<1> DEFINE r == [state |-> "sent", batch |-> Payment(t)]
<1>1. /\ pc[t] = "pay" /\ pc'[t] = "wait" /\ cand'[t] = i /\ UNCHANGED <<wallet, reserved, left>>
      /\ request' = [request EXCEPT ![t][i] = r]
  BY <1>0, <1>i DEF Pay, Goto, TypeOK
<1>2. r.batch = Payment(t)
  OBVIOUS
<1> HIDE DEF r
<1>3. request'[t][i] = r /\ \A u \in Chats : u # t => request'[u] = request[u]
  BY <1>0, <1>1 DEF TypeOK
<1>4. Range(Payment(t)) \cap Vouchers \subseteq Range(reserved[t])
  <2>1. CASE TakesVouchers(t)
    BY <2>1 DEF Payment
  <2>2. CASE ~TakesVouchers(t)
    <3> DEFINE n == Nonce(t, i)
    <3>1. <<t, i>> \in PaidRequests
      BY CandidateFacts
    <3>2. n \in Nonces
      BY <3>1 DEF Nonces, Nonce
    <3>3. Payment(t) = <<n>>
      BY <1>i, <2>2 DEF Payment
    <3> HIDE DEF n
    <3>4. Range(<<n>>) = {n}
      BY DEF Range
    <3> QED
      BY <3>2, <3>3, <3>4, NoncesAssumption
  <2> QED
    BY <2>1, <2>2
<1>5. HeldOnce'
  BY <1>1 DEF WalletParts, HeldOnce, OnlyMoves
<1>6. Unreserved' /\ Filtered' /\ Selecting'
  BY <1>1 DEF Unreserved, Filtered, Selecting, Quiet, OnlyMoves, WalletParts
<1>7. InHand'
  <2> SUFFICES ASSUME NEW u \in Chats, NEW j \in Index(u), Awaited(u, j)', request'[u][j].state # "none"
               PROVE  Range(request'[u][j].batch) \cap Vouchers \subseteq Range(reserved[u])
    BY <1>1 DEF InHand
  <2>1. CASE u = t
    BY <1>1, <1>2, <1>3, <1>4, <2>1 DEF Awaited
  <2>2. CASE u # t
    BY <1>3, <2>2 DEF Awaited, OnlyMoves, WalletParts, InHand
  <2> QED
    BY <2>1, <2>2
<1>8. NothingLost'
  BY <1>1 DEF NothingLost, WalletParts
<1> QED
  BY <1>5, <1>6, <1>7, <1>8 DEF WalletParts

\* It keeps what it paid for an answer it returns, and gets the rest back.
LEMMA SettlesWallet ==
    ASSUME RequestInv, WalletParts, NEW t \in Chats, Quiet(t), OnlyMoves(t), LoneChat', Settles(t)
    PROVE  WalletParts'
<1>0. TypeOK
  BY DEF RequestInv
<1>1. /\ pc[t] = "wait" /\ UNCHANGED <<left, request>>
      /\ \/ Ends(t, "served") /\ UNCHANGED <<wallet, reserved>>
         \/ /\ Passes(t) \/ Ends(t, "exhausted")
            /\ wallet' = wallet \o reserved[t] /\ reserved' = [reserved EXCEPT ![t] = <<>>]
  BY <1>0, SettlesAs
<1>2. Filtered' /\ Selecting'
  <2>1. pc'[t] \in {"probe", "done"}
    BY <1>1 DEF Passes, Ends
  <2> QED
    BY <2>1 DEF Filtered, Selecting, Quiet, OnlyMoves
<1>3. ASSUME NEW u \in Chats, u # t, reserved'[u] = reserved[u], NEW i \in Index(u),
             Awaited(u, i)', request[u][i].state # "none"
      PROVE  Range(request[u][i].batch) \cap Vouchers \subseteq Range(reserved'[u])
  BY <1>3 DEF Awaited, OnlyMoves, WalletParts, InHand
<1>4. CASE Ends(t, "served") /\ UNCHANGED <<wallet, reserved>>
  <2>1. HeldOnce' /\ Unreserved' /\ NothingLost'
    <3>1. HeldOnce'
      BY <1>1, <1>4 DEF WalletParts, HeldOnce, OnlyMoves
    <3>2. Unreserved'
      BY <1>1, <1>4 DEF WalletParts, Unreserved, OnlyMoves, Ends
    <3>3. NothingLost'
      BY <1>4 DEF WalletParts, NothingLost
    <3> QED
      BY <3>1, <3>2, <3>3
  <2>2. InHand'
    <3>1. \A i \in Index(t) : Awaited(t, i)' => Awaited(t, i)
      BY <1>1, <1>4 DEF Awaited, Ends
    <3> QED
      BY <1>1, <1>3, <1>4, <3>1 DEF InHand, WalletParts
  <2> QED
    BY <1>2, <2>1, <2>2 DEF WalletParts
<1>5. CASE /\ Passes(t) \/ Ends(t, "exhausted")
           /\ wallet' = wallet \o reserved[t] /\ reserved' = [reserved EXCEPT ![t] = <<>>]
  <2>1. reserved'[t] = <<>> /\ \A u \in Chats : u # t => reserved'[u] = reserved[u]
    BY <1>0, <1>5 DEF TypeOK
  <2>2. Range(reserved'[t]) = {} /\ IsInjective(reserved'[t])
    BY <2>1 DEF Range, IsInjective
  <2>a. \A u \in Chats : u # t => pc[u] \notin {"filter", "assign"}
    BY DEF Quiet
  <2>3. /\ IsInjective(wallet) /\ \A u \in Chats : IsInjective(reserved[u])
        /\ \A u \in Chats : Range(reserved[u]) \cap Range(wallet) = {}
        /\ \A u, v \in Chats : u # v => Range(reserved[u]) \cap Range(reserved[v]) = {}
    BY <1>1, <2>a DEF WalletParts, HeldOnce
  <2>4. IsInjective(wallet') /\ Range(wallet') = Range(wallet) \cup Range(reserved[t])
    BY <1>0, <1>5, <2>3, RefilledFacts DEF TypeOK
  <2>5. HeldOnce'
    <3>1. \A u \in Chats : IsInjective(reserved'[u]) /\ Range(reserved'[u]) \subseteq Range(reserved[u])
      BY <2>1, <2>2, <2>3
    <3>2. \A u \in Chats : Range(reserved'[u]) \cap Range(wallet') = {}
      BY <2>1, <2>2, <2>3, <2>4
    <3>3. \A u, v \in Chats : u # v => Range(reserved'[u]) \cap Range(reserved'[v]) = {}
      BY <2>3, <3>1
    <3> QED
      BY <2>4, <3>1, <3>2, <3>3 DEF HeldOnce
  <2>6. Unreserved'
    BY <2>1 DEF WalletParts, Unreserved, OnlyMoves
  <2>7. NothingLost'
    BY <2>1, <2>4 DEF WalletParts, NothingLost
  <2>8. InHand'
    <3>1. \A i \in Index(t) : ~Awaited(t, i)'
      BY <1>1, <1>5 DEF Awaited, Passes, Ends
    <3> QED
      BY <1>1, <1>3, <2>1, <3>1 DEF InHand
  <2> QED
    BY <1>2, <2>5, <2>6, <2>7, <2>8 DEF WalletParts
<1> QED
  BY <1>1, <1>4, <1>5

\* As long as chats do not overlap, the wallet keeps account of every voucher.
LEMMA NextWallet == RequestInv /\ WalletInv /\ [Next]_vars => WalletInv'
<1> SUFFICES ASSUME RequestInv, WalletInv, [Next]_vars, ~overlap'
             PROVE  WalletParts'
  BY DEF WalletInv
<1>1. ASSUME NEW t \in Chats, Unpaid(t) \/ Pay(t) \/ Settles(t)
      PROVE  WalletParts'
  <2>1. WalletParts /\ Quiet(t) /\ OnlyMoves(t) /\ LoneChat'
    BY <1>1, MoverIsAlone
  <2> QED
    BY <1>1, <2>1, LooksWallet, SelectsWallet, PaysWallet, SettlesWallet DEF Unpaid
<1>2. ASSUME UNCHANGED <<wallet, pc, cand, reserved, left, result, overlap>>,
             \A u \in Chats : \A j \in Index(u) :
                 /\ request'[u][j].batch = request[u][j].batch
                 /\ request'[u][j].state # request[u][j].state => request[u][j].state # "none"
      PROVE  WalletParts'
  <2>1. WalletParts
    BY <1>2 DEF WalletInv
  <2>2. LoneChat' /\ HeldOnce' /\ Unreserved' /\ Filtered'
    <3>1. LoneChat' /\ Unreserved' /\ Filtered'
      BY <1>2, <2>1 DEF WalletParts, LoneChat, Active, Unreserved, Filtered
    <3>2. HeldOnce'
      BY <1>2, <2>1 DEF WalletParts, HeldOnce
    <3> QED
      BY <3>1, <3>2
  <2>3. Selecting' /\ NothingLost'
    BY <1>2, <2>1 DEF WalletParts, Selecting, TakesVouchers, Provider, NothingLost
  <2>4. InHand'
    <3>1. \A u \in Chats : \A i \in Index(u) : Awaited(u, i)' <=> Awaited(u, i)
      BY <1>2 DEF Awaited
    <3> QED
      BY <1>2, <2>1, <3>1 DEF WalletParts, InHand
  <2> QED
    BY <2>2, <2>3, <2>4 DEF WalletParts
<1>3. ASSUME NEW t \in Chats, NEW i \in Index(t), Handle(t, i)
      PROVE  WalletParts'
  <2>1. PICK s \in {"200", "402", "500", "502"} : Answers(t, i, s)
    BY <1>3, HandleAs
  <2> QED
    BY <1>2, <2>1 DEF Answers
<1>4. CASE UNCHANGED vars
  BY <1>2, <1>4 DEF vars
<1> QED
  BY <1>1, <1>3, <1>4, NextIs

\* A chat that has not been called holds nothing.
LEMMA InitWallet == Init => WalletInv
<1> SUFFICES ASSUME Init PROVE WalletParts
  BY DEF WalletInv
<1>1. Range(<<>>) = {} /\ IsInjective(<<>>)
  BY DEF Range, IsInjective
<1>2. /\ wallet = FirstWallet /\ \A t \in Chats : pc[t] = "new" /\ reserved[t] = <<>>
  BY DEF Init
<1>3. HeldOnce
  BY <1>1, <1>2, RouterAssumption DEF HeldOnce
<1>4. LoneChat /\ Unreserved /\ Filtered /\ Selecting
  BY <1>2 DEF LoneChat, Active, Unreserved, Filtered, Selecting
<1>5. InHand
  BY <1>2 DEF InHand, Awaited
<1>6. NothingLost
  BY <1>2 DEF NothingLost
<1> QED
  BY <1>3, <1>4, <1>5, <1>6 DEF WalletParts

\* For chats in turn the wallet and the payment under way hold every voucher
\* once, and what the wallet holds was redeemed only by a request that miscarried:
\* for any wallet, prices, candidates and providers, and whatever fails.
THEOREM WalletSoundHolds == Spec => []WalletSound
<1>1. RequestInv /\ WalletInv => WalletSound
  <2> SUFFICES ASSUME RequestInv, WalletInv PROVE WalletConserved /\ WalletIsUnspent
    BY DEF WalletSound, RequestInv
  <2>1. TypeOK
    BY DEF RequestInv
  <2>2. WalletConserved
    <3> SUFFICES ASSUME WalletParts PROVE NothingLost /\ OnePlace
      BY DEF WalletConserved, WalletInv
    <3>1. \A t \in Chats : InFlight(t) \subseteq Range(reserved[t])
      BY DEF InFlight
    <3>2. \A t \in Chats : InFlight(t) \cap Range(wallet) = {}
      BY DEF InFlight, WalletParts, HeldOnce
    <3>3. \A t, u \in Chats : t # u => InFlight(t) \cap InFlight(u) = {}
      BY <3>1 DEF WalletParts, HeldOnce
    <3> QED
      BY <3>2, <3>3 DEF OnePlace, WalletParts, HeldOnce
  <2>3. WalletIsUnspent
    <3> SUFFICES ASSUME WalletParts, NEW y \in credited, y[3] \in Range(wallet), ~Miscarried(y[1], y[2])
                 PROVE  FALSE
      BY DEF WalletIsUnspent, WalletInv
    <3> DEFINE t == y[1]
               i == y[2]
    <3>1. t \in Chats /\ i \in Index(t)
      BY <2>1, PaidRequestOf DEF TypeOK
    <3>2. request[t][i].state \in {"200", "500"} /\ y[3] \in Range(request[t][i].batch)
      BY DEF RequestInv, CreditIsAnswered
    <3>3. Awaited(t, i)
      BY <3>1, <3>2 DEF RequestInv, LeftBehind
    <3>4. Range(wallet) \subseteq Vouchers
      BY <2>1, RangeOf DEF TypeOK
    <3>5. y[3] \in Range(reserved[t])
      BY <3>1, <3>2, <3>3, <3>4 DEF WalletParts, InHand
    <3>6. pc[t] \notin {"filter", "assign"}
      BY <3>3 DEF Awaited
    <3> QED
      BY <3>1, <3>5, <3>6 DEF WalletParts, HeldOnce
  <2> QED
    BY <2>2, <2>3
<1>2. RequestInv /\ WalletInv /\ [Next]_vars => WalletInv'
  BY NextWallet
<1> QED
  BY <1>1, <1>2, InitWallet, RequestInvHolds, PTL DEF Spec

-----------------------------------------------------------------------------
(***************************************************************************)
(* The payment.                                                            *)
(***************************************************************************)
\* A lone chat has picked enough when it pays.
LEMMA UnpaidEnough ==
    ASSUME RequestInv, Enough, NEW t \in Chats, Quiet(t), OnlyMoves(t), Unpaid(t)
    PROVE  Enough'
<1>0. TypeOK /\ BeginsFirst /\ EnoughFor(t)
  BY DEF RequestInv, Enough
<1>1. ASSUME NEW u \in Chats, u # t PROVE EnoughFor(u)'
  BY <1>1 DEF Quiet, OnlyMoves, EnoughFor
<1>2. /\ NextCandidate(t) \/ Served(t) \/ Raised(t) => pc'[t] \in {"probe", "done"}
      /\ \A label : Goto(t, label) => pc'[t] = label /\ cand' = cand
  BY <1>0 DEF NextCandidate, Served, Raised, Goto, TypeOK
<1>3. cand' = cand => (Provider(t)' = Provider(t) /\ (TakesVouchers(t)' <=> TakesVouchers(t)))
  BY DEF Provider, TakesVouchers
<1>4. cand[t] \in Index(t) => Price[Provider(t)] \in Nat
  BY CandidateFacts, RouterAssumption DEF Provider
<1>5. EnoughFor(t)'
  <2>1. CASE pc'[t] \in {"probe", "post", "done"}
    BY <2>1 DEF EnoughFor
  <2>2. CASE Start(t) \/ Probe(t)
    <3>1. pc'[t] \in {"probe", "post", "done"}
      BY <1>0, <1>2, <2>2 DEF Start, Probe, TypeOK
    <3> QED
      BY <2>1, <3>1
  <2>3. CASE Post(t)
    <3>1. CASE NextCandidate(t) \/ Served(t)
      BY <1>2, <2>1, <3>1
    <3>2. CASE Provider(t) \in Paid /\ TakesVouchers(t) /\ Goto(t, "balance")
      BY <1>2, <1>3, <3>2 DEF EnoughFor
    <3>3. CASE Provider(t) \in Paid /\ ~TakesVouchers(t) /\ Goto(t, "pay")
      BY <1>2, <1>3, <3>3 DEF EnoughFor
    <3> QED
      BY <2>3, <3>1, <3>2, <3>3 DEF Post, PreparePayment
  <2>4. CASE Balance(t)
    <3>1. CASE NextCandidate(t) \/ Raised(t)
      BY <1>2, <2>1, <3>1
    <3>2. CASE Covered(t) /\ Goto(t, "pick")
      <4>1. wallet' = wallet /\ pc'[t] = "pick" /\ cand' = cand
        BY <1>2, <2>4, <3>2 DEF Balance
      <4>2. Value(wallet) >= Price[Provider(t)]
        BY <3>2 DEF Covered
      <4>3. Value(wallet)' = Value(wallet)
        BY <4>1
      <4> QED
        BY <1>3, <4>1, <4>2, <4>3 DEF EnoughFor
    <3> QED
      BY <2>4, <3>1, <3>2 DEF Balance
  <2>5. CASE Pick(t)
    <3> DEFINE g == Greedy(Price[Provider(t)])
    <3>1. pc[t] = "pick" /\ pc'[t] = "filter" /\ cand' = cand /\ reserved'[t] = g
      BY <1>0, <1>2, <2>5 DEF Pick, TypeOK
    <3>2. Price[Provider(t)] \in Nat
      BY <1>0, <1>4, <3>1 DEF TypeOK
    <3>3. Value(g) >= Price[Provider(t)]
      BY <1>0, <3>1, <3>2, GreedyFacts DEF TypeOK, EnoughFor
    <3> HIDE DEF g
    <3>4. Value(reserved[t])' = Value(g)
      BY <3>1
    <3> QED
      BY <1>3, <3>1, <3>3, <3>4 DEF EnoughFor
  <2>6. CASE Filter(t) \/ Assign(t)
    <3>1. /\ pc[t] \in {"filter", "assign"} /\ pc'[t] \in {"assign", "pay"} /\ cand' = cand
          /\ reserved' = reserved
      BY <1>2, <2>6 DEF Filter, Assign
    <3>2. Value(reserved[t])' = Value(reserved[t])
      BY <3>1
    <3> QED
      BY <1>0, <1>3, <3>1, <3>2 DEF EnoughFor
  <2> QED
    BY <2>2, <2>3, <2>4, <2>5, <2>6 DEF Unpaid
<1>6. \A u \in Chats : EnoughFor(u)'
  BY <1>1, <1>5
<1> QED
  BY <1>6 DEF Enough

\* What has miscarried stays so.
LEMMA MiscarriedStays ==
    ASSUME RequestInv, [Next]_vars, NEW y \in credited, Miscarried(y[1], y[2])
    PROVE  y \in credited' /\ Miscarried(y[1], y[2])'
<1>0. TypeOK /\ BeginsFirst
  BY DEF RequestInv
<1> DEFINE t == y[1]
           i == y[2]
<1>1. t \in Chats /\ i \in Index(t)
  BY <1>0, PaidRequestOf DEF TypeOK
<1>2. request[t][i].state \in {"200", "500"}
  BY DEF RequestInv, CreditIsAnswered
<1>3. ASSUME givenUp \subseteq givenUp', credited \subseteq credited', request'[t][i].state = request[t][i].state
      PROVE  y \in credited' /\ Miscarried(t, i)'
  BY <1>3 DEF Miscarried
<1>4. ASSUME NEW u \in Chats, Unpaid(u) \/ Settles(u)
      PROVE  y \in credited' /\ Miscarried(t, i)'
  <2>1. request' = request /\ credited' = credited /\ givenUp \subseteq givenUp'
    <3>1. CASE Unpaid(u)
      BY <1>0, <3>1, UnpaidMoves
    <3>2. CASE Settles(u)
      BY <1>0, <3>2, SettlesAs
    <3> QED
      BY <1>4, <3>1, <3>2
  <2> QED
    BY <1>3, <2>1
<1>5. ASSUME NEW u \in Chats, Pay(u)
      PROVE  y \in credited' /\ Miscarried(t, i)'
  <2>1. PICK j \in Index(u) : j = cand[u]
    BY <1>0, <1>5 DEF Pay, TypeOK
  <2> DEFINE r == [state |-> "sent", batch |-> Payment(u)]
  <2>2. request' = [request EXCEPT ![u][j] = r] /\ pc[u] = "pay" /\ UNCHANGED <<credited, givenUp>>
    BY <1>5, <2>1 DEF Pay, historyVars
  <2> HIDE DEF r
  <2>3. request[u][j].state = "none"
    BY <2>1, <2>2 DEF RequestInv, NotYetPaid
  <2>4. ~(u = t /\ j = i)
    BY <1>2, <2>3
  <2>5. request'[t][i] = request[t][i]
    BY <1>0, <1>1, <2>2, <2>4 DEF TypeOK
  <2> QED
    BY <1>3, <2>2, <2>5
<1>6. ASSUME NEW u \in Chats, NEW j \in Index(u), Handle(u, j)
      PROVE  y \in credited' /\ Miscarried(t, i)'
  <2>1. PICK s \in {"200", "402", "500", "502"} :
            Answers(u, j, s) /\ (Redeems(u, j) \/ Refuses(u, j, s))
    BY <1>6, HandleAs
  <2>2. credited \subseteq credited' /\ givenUp' = givenUp
    BY <2>1 DEF Answers, Redeems, Refuses
  <2>3. request'[t][i].state = request[t][i].state
    BY <1>1, <1>2, <2>1 DEF Answers
  <2> QED
    BY <1>3, <2>2, <2>3
<1>7. CASE UNCHANGED vars
  BY <1>3, <1>7 DEF vars
<1> QED
  BY <1>4, <1>5, <1>6, <1>7, NextIs

\* A voucher redeemed by a request that did not miscarry is in the chat's hands.
LEMMA CreditInHand ==
    ASSUME RequestInv, WalletParts, NEW y \in credited, y[3] \in Vouchers, ~Miscarried(y[1], y[2])
    PROVE  /\ y[1] \in Chats /\ y[2] \in Index(y[1])
           /\ Awaited(y[1], y[2]) /\ y[3] \in Range(reserved[y[1]])
           /\ request[y[1]][y[2]].state \in {"200", "500"}
<1>1. y[1] \in Chats /\ y[2] \in Index(y[1])
  BY PaidRequestOf DEF RequestInv, TypeOK
<1>2. /\ request[y[1]][y[2]].state \in {"200", "500"}
      /\ y[3] \in Range(request[y[1]][y[2]].batch)
  BY DEF RequestInv, CreditIsAnswered
<1>3. Awaited(y[1], y[2])
  BY <1>1, <1>2 DEF RequestInv, LeftBehind
<1>4. y[3] \in Range(reserved[y[1]])
  BY <1>1, <1>2, <1>3 DEF WalletParts, InHand
<1> QED
  BY <1>1, <1>2, <1>3, <1>4

\* Two such requests are one: another chat does not hold the voucher, and the
\* chat awaits one candidate.
LEMMA OneAwaited ==
    ASSUME RequestInv, WalletParts, NEW t \in Chats, NEW u \in Chats, NEW i, NEW j,
           Awaited(t, i), Awaited(u, j), NEW v, v \in Range(reserved[t]), v \in Range(reserved[u])
    PROVE  t = u /\ i = j
<1>1. t = u
  BY DEF WalletParts, HeldOnce
<1> QED
  BY <1>1 DEF Awaited

\* A refusal of an offer with nothing wrong in it means that a voucher is in the
\* provider's spent set; it was used up by a request that miscarried, since by
\* another one it would be in the hands of two chats, or of one chat for two
\* candidates.
LEMMA RefusalExplained ==
    ASSUME RequestInv, SpentInv, WalletParts, OffersEnough,
           NEW t \in Chats, NEW i \in Index(t), request[t][i].state = "sent", <<t, i>> \notin givenUp,
           Unexceptionable(Candidates[t][i], request[t][i].batch),
           ~Redeemable(Candidates[t][i], request[t][i].batch)
    PROVE  \E y \in credited : y[3] \in Range(request[t][i].batch) /\ Miscarried(y[1], y[2])
<1> DEFINE batch == request[t][i].batch
           g == GuardOf[Candidates[t][i]]
<1>1. /\ ~IsX402(batch) /\ Range(batch) \subseteq Vouchers /\ IsInjective(batch)
      /\ Range(batch) \subseteq Accepts[Candidates[t][i]] /\ Suffices(Candidates[t][i], batch)
  BY DEF OffersEnough, Offer, Unexceptionable, MayBeLate
<1>2. Range(batch) \cap consumed[g] # {}
  BY <1>1 DEF Redeemable, Valid
<1>3. g \in Guards
  BY CandidateFacts DEF Guards
<1> HIDE DEF g
<1>4. PICK y \in credited : y[3] \in Range(batch)
  BY <1>2, <1>3 DEF SpentInv
<1>5. ASSUME ~Miscarried(y[1], y[2]) PROVE FALSE
  <2>1. /\ y[1] \in Chats /\ Awaited(y[1], y[2]) /\ y[3] \in Range(reserved[y[1]])
        /\ request[y[1]][y[2]].state \in {"200", "500"}
    BY <1>1, <1>4, <1>5, CreditInHand
  <2>2. Awaited(t, i)
    BY DEF RequestInv, LeftBehind, Miscarried
  <2>3. y[3] \in Range(reserved[t])
    BY <1>1, <1>4, <2>2 DEF WalletParts, InHand
  <2>4. y[1] = t /\ y[2] = i
    BY <2>1, <2>2, <2>3, OneAwaited
  <2> QED
    BY <2>1, <2>4
<1> QED
  BY <1>4, <1>5

\* A refusal that was explained stays so.
LEMMA AcceptedStays ==
    ASSUME RequestInv, [Next]_vars, Explained,
           \A t \in Chats : \A i \in Index(t) :
               /\ request'[t][i].state = "402" /\ <<t, i>> \notin givenUp'
               /\ Unexceptionable(Candidates[t][i], request'[t][i].batch)
               => /\ request'[t][i].batch = request[t][i].batch
                  /\ \/ request[t][i].state = "402" /\ <<t, i>> \notin givenUp
                     \/ \E y \in credited : y[3] \in Range(request[t][i].batch) /\ Miscarried(y[1], y[2])
    PROVE  Explained'
<1> SUFFICES ASSUME NEW t \in Chats, NEW i \in Index(t),
                    request'[t][i].state = "402", <<t, i>> \notin givenUp',
                    Unexceptionable(Candidates[t][i], request'[t][i].batch)
             PROVE  \E y \in credited' : y[3] \in Range(request'[t][i].batch) /\ Miscarried(y[1], y[2])'
  BY DEF Explained, Unexceptionable, MayBeLate, IsX402
<1>1. /\ request'[t][i].batch = request[t][i].batch
      /\ \/ request[t][i].state = "402" /\ <<t, i>> \notin givenUp
         \/ \E y \in credited : y[3] \in Range(request[t][i].batch) /\ Miscarried(y[1], y[2])
  OBVIOUS
<1>2. PICK y \in credited : y[3] \in Range(request[t][i].batch) /\ Miscarried(y[1], y[2])
  BY <1>1 DEF Explained
<1>3. y \in credited' /\ Miscarried(y[1], y[2])'
  BY <1>2, MiscarriedStays
<1> QED
  BY <1>1, <1>2, <1>3

\* The payment a chat makes is of one kind, and enough.
LEMMA PaysEnough ==
    ASSUME RequestInv, WalletParts, Enough, OffersEnough, NEW t \in Chats, Pay(t)
    PROVE  /\ OffersEnough'
           /\ \A u \in Chats : \A i \in Index(u) :
                  request'[u][i].state = "402" => request'[u][i] = request[u][i]
<1>0. TypeOK
  BY DEF RequestInv
<1>i. PICK i \in Index(t) : i = cand[t]
  BY <1>0 DEF Pay, TypeOK
<1> DEFINE r == [state |-> "sent", batch |-> Payment(t)]
           p == Provider(t)
<1>1. pc[t] = "pay" /\ request' = [request EXCEPT ![t][i] = r] /\ p = Candidates[t][i]
  BY <1>i DEF Pay, Provider
<1>2. r.batch = Payment(t) /\ r.state = "sent"
  OBVIOUS
<1>3. Offer(p, Payment(t))
  <2>1. CASE TakesVouchers(t)
    <3> DEFINE b == reserved[t]
    <3>1. Payment(t) = b /\ b \in Seq(Vouchers) /\ IsInjective(b) /\ Value(b) >= Price[p]
      BY <1>0, <1>1, <2>1 DEF Payment, TypeOK, Enough, EnoughFor, WalletParts, HeldOnce
    <3>2. Price[p] \in Nat
      BY <1>1, CandidateFacts, RouterAssumption
    <3> HIDE DEF b, p
    <3>3. Range(b) \subseteq Vouchers
      BY <3>1, RangeOf
    <3>4. ASSUME Price[p] > 0 PROVE Suffices(p, b)
      <4>1. b # <<>>
        BY <3>1, <3>2, <3>4, ValueFacts
      <4>2. /\ Range(b) = {b[j] : j \in 1..Len(b)} /\ Len(b) \in Nat
            /\ b = <<>> <=> Len(b) = 0
        BY <3>1, RangeOf
      <4>3. 1 \in 1..Len(b)
        BY <4>1, <4>2
      <4>4. ~IsX402(b)
        BY <3>3, <4>2, <4>3, NoncesAssumption DEF IsX402
      <4> QED
        BY <3>1, <4>1, <4>4 DEF Suffices, Worth
    <3> QED
      BY <3>1, <3>3, <3>4 DEF Offer
  <2>2. CASE ~TakesVouchers(t)
    <3> DEFINE n == Nonce(t, i)
    <3>1. <<t, i>> \in PaidRequests
      BY CandidateFacts
    <3>2. n \in Nonces
      BY <3>1 DEF Nonces, Nonce
    <3>3. Payment(t) = <<n>>
      BY <1>i, <2>2 DEF Payment
    <3> HIDE DEF n
    <3>4. Range(<<n>>) = {n} /\ <<n>> # <<>>
      BY DEF Range
    <3> QED
      BY <3>2, <3>3, <3>4 DEF IsX402, Offer
  <2> QED
    BY <2>1, <2>2
<1> HIDE DEF r, p
<1>4. request'[t][i] = r /\ \A u \in Chats : \A j \in Index(u) :
          u # t \/ j # i => request'[u][j] = request[u][j]
  BY <1>0, <1>1 DEF TypeOK
<1>5. ASSUME NEW u \in Chats, NEW j \in Index(u), request'[u][j].state # "none"
      PROVE  Offer(Candidates[u][j], request'[u][j].batch)
  <2>1. CASE u = t /\ j = i
    BY <1>1, <1>2, <1>3, <1>4, <2>1
  <2>2. CASE u # t \/ j # i
    BY <1>4, <1>5, <2>2 DEF OffersEnough
  <2> QED
    BY <2>1, <2>2
<1>6. OffersEnough'
  BY <1>5 DEF OffersEnough, Offer, IsX402, Suffices, Worth, Value
<1> QED
  BY <1>2, <1>4, <1>6

\* As long as chats do not overlap, every payment is enough and is accepted.
LEMMA NextOffer == RequestInv /\ SpentInv /\ WalletInv /\ OfferInv /\ [Next]_vars => OfferInv'
<1> SUFFICES ASSUME RequestInv, SpentInv, WalletInv, OfferInv, [Next]_vars, ~overlap'
             PROVE  OfferParts'
  BY DEF OfferInv
<1>0. TypeOK /\ BeginsFirst
  BY DEF RequestInv
<1>1. ASSUME UNCHANGED request, ~overlap, OfferParts, givenUp \subseteq givenUp'
      PROVE  OffersEnough' /\ Explained'
  <2>1. OffersEnough'
    BY <1>1 DEF OfferParts, OffersEnough
  <2>2. Explained'
    BY <1>1, AcceptedStays DEF OfferParts
  <2> QED
    BY <2>1, <2>2
<1>2. ASSUME NEW t \in Chats, Unpaid(t) \/ Pay(t) \/ Settles(t)
      PROVE  OfferParts'
  <2>1. WalletParts /\ Quiet(t) /\ OnlyMoves(t)
    BY <1>2, MoverIsAlone
  <2>2. ~overlap
    <3>1. CASE Start(t)
      BY <3>1 DEF Start
    <3>2. CASE ~Start(t)
      BY <1>0, <1>2, <3>2, SettlesAs
         DEF Unpaid, Probe, Post, Balance, Pick, Filter, Assign, Pay, historyVars
    <3> QED
      BY <3>1, <3>2
  <2>3. OfferParts
    BY <2>2 DEF OfferInv
  <2>4. CASE Unpaid(t)
    <3>1. UNCHANGED <<request, givenUp>>
      BY <1>0, <2>4, UnpaidMoves
    <3>2. Enough'
      BY <2>1, <2>3, <2>4, UnpaidEnough DEF OfferParts
    <3> QED
      BY <1>1, <2>2, <2>3, <3>1, <3>2 DEF OfferParts
  <2>5. CASE Settles(t)
    <3>1. UNCHANGED request /\ givenUp \subseteq givenUp' /\ (Passes(t) \/ \E o \in {"served", "exhausted"} : Ends(t, o))
      BY <1>0, <2>5, SettlesAs
    <3>2. \A u \in Chats : pc'[u] \in {"new", "probe", "done"}
      BY <2>1, <3>1 DEF Quiet, OnlyMoves, Passes, Ends
    <3>3. Enough'
      BY <3>2 DEF Enough, EnoughFor
    <3> QED
      BY <1>1, <2>2, <2>3, <3>1, <3>3 DEF OfferParts
  <2>6. CASE Pay(t)
    <3>1. /\ OffersEnough'
          /\ \A u \in Chats : \A i \in Index(u) :
                 request'[u][i].state = "402" => request'[u][i] = request[u][i]
      BY <2>1, <2>3, <2>6, PaysEnough DEF OfferParts
    <3>2. givenUp' = givenUp
      BY <2>6 DEF Pay, historyVars
    <3>3. Explained'
      BY <2>2, <2>3, <3>1, <3>2, AcceptedStays DEF OfferParts
    <3>4. \A u \in Chats : pc'[u] \in {"new", "wait", "done"}
      BY <1>0, <2>1, <2>6 DEF Quiet, OnlyMoves, Pay, Goto, TypeOK
    <3>5. Enough'
      BY <3>4 DEF Enough, EnoughFor
    <3> QED
      BY <3>1, <3>3, <3>5 DEF OfferParts
  <2> QED
    BY <1>2, <2>4, <2>5, <2>6
<1>3. ASSUME NEW t \in Chats, NEW i \in Index(t), Handle(t, i)
      PROVE  OfferParts'
  <2>1. PICK s \in {"200", "402", "500", "502"} :
            /\ Answers(t, i, s)
            /\ (s \in {"200", "500"} /\ Redeems(t, i)) \/ (s \in {"402", "502"} /\ Refuses(t, i, s))
    BY <1>3, HandleAs
  <2>2. /\ UNCHANGED <<wallet, pc, cand, reserved, overlap, givenUp>>
        /\ request[t][i].state = "sent"
        /\ \A u \in Chats : \A j \in Index(u) :
              /\ request'[u][j].batch = request[u][j].batch
              /\ request'[u][j].state = IF u = t /\ j = i THEN s ELSE request[u][j].state
    BY <2>1 DEF Answers
  <2>3. ~overlap /\ WalletParts /\ OfferParts
    BY <2>2 DEF WalletInv, OfferInv
  <2>4. Enough'
    <3>1. ASSUME NEW u \in Chats PROVE EnoughFor(u)'
      <4>1. EnoughFor(u)
        BY <2>3 DEF OfferParts, Enough
      <4>2. Provider(u)' = Provider(u) /\ TakesVouchers(u)' = TakesVouchers(u)
        BY <2>2 DEF Provider, TakesVouchers
      <4>3. Value(wallet)' = Value(wallet) /\ Value(reserved[u])' = Value(reserved[u])
        BY <2>2
      <4> QED
        BY <2>2, <4>1, <4>2, <4>3 DEF EnoughFor
    <3> QED
      BY <3>1 DEF Enough
  <2>5. OffersEnough'
    <3>1. ASSUME NEW u \in Chats, NEW j \in Index(u), request'[u][j].state # "none"
          PROVE  Offer(Candidates[u][j], request'[u][j].batch)
      <4>1. request[u][j].state # "none" /\ request'[u][j].batch = request[u][j].batch
        BY <2>2, <3>1
      <4> QED
        BY <2>3, <4>1 DEF OfferParts, OffersEnough
    <3> QED
      BY <3>1 DEF OffersEnough, Offer, IsX402, Suffices, Worth, Value
  <2>6. Explained'
    <3>1. ASSUME NEW u \in Chats, NEW j \in Index(u), request'[u][j].state = "402",
                 <<u, j>> \notin givenUp', Unexceptionable(Candidates[u][j], request'[u][j].batch)
          PROVE  /\ request'[u][j].batch = request[u][j].batch
                 /\ \/ request[u][j].state = "402" /\ <<u, j>> \notin givenUp
                    \/ \E y \in credited : y[3] \in Range(request[u][j].batch) /\ Miscarried(y[1], y[2])
      <4>1. CASE ~(u = t /\ j = i)
        BY <2>2, <3>1, <4>1
      <4>2. CASE u = t /\ j = i
        <5>1. /\ s = "402" /\ <<t, i>> \notin givenUp
              /\ Unexceptionable(Candidates[t][i], request[t][i].batch)
          BY <2>2, <3>1, <4>2
        <5>2. ~Redeemable(Candidates[t][i], request[t][i].batch)
          BY <2>1, <5>1 DEF Refuses, Unexceptionable
        <5>3. \E y \in credited : y[3] \in Range(request[t][i].batch) /\ Miscarried(y[1], y[2])
          BY <2>2, <2>3, <5>1, <5>2, RefusalExplained DEF OfferParts
        <5> QED
          BY <2>2, <4>2, <5>3
      <4> QED
        BY <4>1, <4>2
    <3> QED
      BY <2>3, <3>1, AcceptedStays DEF OfferParts
  <2> QED
    BY <2>4, <2>5, <2>6 DEF OfferParts
<1>4. CASE UNCHANGED vars
  <2>1. UNCHANGED <<wallet, pc, cand, reserved, request, credited, overlap, givenUp>>
    BY <1>4 DEF vars
  <2>2. ~overlap /\ OfferParts
    BY <2>1 DEF OfferInv
  <2>3. Enough'
    <3>1. ASSUME NEW u \in Chats PROVE EnoughFor(u)'
      BY <2>1, <2>2 DEF OfferParts, Enough, EnoughFor, Provider, TakesVouchers, Value
    <3> QED
      BY <3>1 DEF Enough
  <2> QED
    BY <1>1, <2>1, <2>2, <2>3 DEF OfferParts
<1> QED
  BY <1>2, <1>3, <1>4, NextIs

\* For every wallet, price, spent set and set of vouchers a provider accepts: a
\* chat is charged once and for an answer, and for chats in turn two requests
\* redeem one voucher, or a payment that nothing is wrong with is refused, only
\* after a request that miscarried.
THEOREM PaidOnceHolds == Spec => []PaidOnce
<1>1. Init => SpentInv
  BY DEF Init, SpentInv
<1>2. Init => OfferInv
  <2> SUFFICES ASSUME Init PROVE OfferParts
    BY DEF OfferInv
  <2>1. \A t \in Chats : pc[t] = "new" /\ request[t] = [i \in Index(t) |-> NoRequest]
    BY DEF Init
  <2>2. NoRequest.state = "none"
    BY DEF NoRequest
  <2> QED
    BY <2>1, <2>2 DEF OfferParts, Enough, EnoughFor, OffersEnough, Explained
<1>3. OfferInv => PaymentAccepted
  BY DEF OfferInv, OfferParts, Explained, PaymentAccepted
<1>4. RequestInv /\ WalletInv => RedeemedOnce
  <2> SUFFICES ASSUME RequestInv, WalletParts, NEW x \in credited, NEW y \in credited,
                      x[3] = y[3], x[3] \in Vouchers,
                      ~Miscarried(x[1], x[2]), ~Miscarried(y[1], y[2])
               PROVE  x[1] = y[1] /\ x[2] = y[2]
    BY DEF WalletInv, RedeemedOnce
  <2>1. x[1] \in Chats /\ Awaited(x[1], x[2]) /\ x[3] \in Range(reserved[x[1]])
    BY CreditInHand
  <2>2. y[1] \in Chats /\ Awaited(y[1], y[2]) /\ y[3] \in Range(reserved[y[1]])
    BY CreditInHand
  <2> QED
    BY <2>1, <2>2, OneAwaited
<1>5. RedeemedOnce /\ ChargedOnce /\ PaymentAccepted => PaidOnce
  BY DEF PaidOnce
<1>6. RequestInv /\ SpentInv /\ [Next]_vars => SpentInv'
  BY NextSpent
<1>7. RequestInv /\ WalletInv /\ [Next]_vars => WalletInv'
  BY NextWallet
<1>8. RequestInv /\ SpentInv /\ WalletInv /\ OfferInv /\ [Next]_vars => OfferInv'
  BY NextOffer
<1> QED
  BY <1>1, <1>2, <1>3, <1>4, <1>5, <1>6, <1>7, <1>8, InitWallet, RequestInvHolds,
     ChargedOnceHolds, PTL DEF Spec
=============================================================================

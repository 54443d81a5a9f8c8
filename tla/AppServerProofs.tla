-------------------------- MODULE AppServerProofs --------------------------
(***************************************************************************)
(* Proofs about AppServer, for any number of handlers, any requests and    *)
(* any files left by earlier sessions: what is pinned and routed is always *)
(* trusted and never contested, and as long as handlers do not overlap and *)
(* saves do not fail, memory, file, routing table and live model agree     *)
(* between handlers, and the file changes by one request at a time.        *)
(***************************************************************************)
EXTENDS AppServer, SequenceTheorems, WellFoundedInduction, TLAPS

-----------------------------------------------------------------------------
(***************************************************************************)
(* The inductive invariants.                                               *)
(***************************************************************************)
\* A manifest that may be routed to: signed, for an endpoint that is safe.
Trusted(e) == TrustedProviderEntry(e, UriOf[e])

\* Manifests that may be pinned, under distinct keys and for distinct endpoints.
Good(entries) ==
    /\ entries \in Seq(Entries)
    /\ \A i \in 1..Len(entries) : Trusted(entries[i])
    /\ \A i, j \in 1..Len(entries) : i # j =>
           UriOf[entries[i]] # UriOf[entries[j]] /\ KeyOf[entries[i]] # KeyOf[entries[j]]

\* Whatever is pinned, or about to be, may be.
PinnedAreGood ==
    /\ Good(config.providers) /\ Good(disk.providers) /\ Good(backend.remote)
    /\ \A r \in Requests : Good(merged[r]) /\ Good(draft[r].providers) /\ Good(built[r].remote)

\* A handler knows what was asked, and is about to publish a local model only
\* where it has fronted one, or looked for the live one.
Asked == \A r \in Requests : Active(r) => op[r] \in Ops
NothingFronted == \A r \in Requests : pc[r] \notin {"local", "swap"} => built[r].local = NoLocal

SoundInv == TypeOK /\ PinnedAreGood /\ Asked /\ NothingFronted

\* The live model is the one that cfg names, unless its restart failed.
LocalFits(cfg) == local.model = cfg.local_use \/ (local = NoLocal /\ warning # None)

\* What the handler of r has done so far, if it is alone: up to the assignment the
\* memory is the file, up to the save it is the effect of what was asked on it.
Result(r) == Effect(op[r], disk)
Stage(r) ==
    /\ pc[r] = "local" =>
           /\ config = disk
           /\ \/ op[r].kind = "start_local_use" /\ built[r].local.model = op[r].model
              \/ op[r].kind = "stop_local_use" /\ built[r].local = NoLocal
    /\ pc[r] = "draft"   => config = disk /\ DraftOf(r) = Result(r) /\ LocalFits(Result(r))
    /\ pc[r] = "assign"  => config = disk /\ draft[r] = Result(r) /\ LocalFits(Result(r))
    /\ pc[r] = "save"    => config = Result(r) /\ LocalFits(config)
    /\ pc[r] = "replace" => config = Result(r) /\ draft[r] = Result(r) /\ LocalFits(config)
    /\ pc[r] \in {"build", "front", "entry", "swap"} => config = disk /\ LocalFits(config)
    /\ pc[r] \in {"front", "entry", "swap"} => Covers(built[r].remote, config)
    /\ pc[r] = "swap" => built[r].local = local

Agreed == config = disk /\ backend.local = local /\ LocalFits(config) /\ Covers(backend.remote, config)

\* As long as handlers do not overlap and saves do not fail, one handler runs, is
\* where it should be, and between handlers everything agrees.
SettleInv ==
    Orderly => /\ \A q, r \in Requests : Active(q) /\ Active(r) => q = r
               /\ \A r \in Requests : Stage(r)
               /\ AtRest => Agreed

-----------------------------------------------------------------------------
(***************************************************************************)
(* Sequences.                                                              *)
(***************************************************************************)
\* Induction on the natural numbers, for a set of them.
LEMMA NatSet ==
    ASSUME NEW T \in SUBSET Nat, 0 \in T, \A n \in T : n + 1 \in T
    PROVE  T = Nat
<1> DEFINE R == OpToRel(<, Nat)
<1>1. \A U \in SUBSET Nat : U # {} => \E x \in U : \A y \in U : ~(<<y, x>> \in R)
  BY WFMin, NatLessThanWellFounded, Zenon
<1>2. \A x, y \in Nat : y < x => <<y, x>> \in R
  BY DEF OpToRel
<1> HIDE DEF R
<1> SUFFICES ASSUME T # Nat PROVE FALSE
  OBVIOUS
<1>3. PICK x \in Nat \ T : \A y \in Nat \ T : ~(<<y, x>> \in R)
  BY <1>1
<1>4. \A y \in Nat \ T : ~(y < x)
  BY <1>2, <1>3
<1>5. x # 0 /\ x - 1 \in T
  BY <1>4
<1> QED
  BY <1>5

\* The elements of a sequence, by their positions.
LEMMA RangeOf ==
    ASSUME NEW S, NEW s \in Seq(S)
    PROVE  /\ Len(s) \in Nat /\ DOMAIN s = 1..Len(s)
           /\ \A i \in 1..Len(s) : s[i] \in S
           /\ Range(s) = {s[i] : i \in 1..Len(s)} /\ Range(s) \subseteq S
<1>1. Len(s) \in Nat /\ DOMAIN s = 1..Len(s) /\ \A i \in 1..Len(s) : s[i] \in S
  BY LenProperties, ElementOfSeq
<1> QED
  BY <1>1 DEF Range

\* What is appended is the one new element.
LEMMA RangeAppend ==
    ASSUME NEW S, NEW s \in Seq(S), NEW e \in S
    PROVE  Append(s, e) \in Seq(S) /\ Range(Append(s, e)) = Range(s) \cup {e}
<1> DEFINE a == Append(s, e)
<1>1. /\ a \in Seq(S) /\ Len(a) = Len(s) + 1 /\ Len(s) \in Nat
      /\ \A j \in 1..Len(s) : a[j] = s[j]
      /\ a[Len(s) + 1] = e
  BY AppendProperties, LenProperties
<1> HIDE DEF a
<1>2. Range(a) = {a[j] : j \in 1..Len(a)} /\ Range(s) = {s[j] : j \in 1..Len(s)}
  BY <1>1, RangeOf
<1>3. \A j \in 1..Len(a) : j \in 1..Len(s) \/ j = Len(s) + 1
  BY <1>1
<1>4. Len(s) + 1 \in 1..Len(a) /\ \A j \in 1..Len(s) : j \in 1..Len(a)
  BY <1>1
<1> QED
  BY <1>1, <1>2, <1>3, <1>4 DEF a

\* The turns of the loop of Those.
Turns(f, seq, kept, n) ==
    f = [i \in 0..n |-> IF i = 0 THEN <<>>
                        ELSE IF seq[i] \in kept THEN Append(f[i - 1], seq[i]) ELSE f[i - 1]]

\* There are as many as there are entries.
LEMMA TurnsExist ==
    ASSUME NEW seq, NEW kept, NEW n \in Nat
    PROVE  \E f : Turns(f, seq, kept, n)
<1> DEFINE T == {m \in Nat : \E f : Turns(f, seq, kept, m)}
<1>1. 0 \in T
  <2>1. Turns([i \in 0..0 |-> <<>>], seq, kept, 0)
    BY DEF Turns
  <2> QED
    BY <2>1
<1>2. ASSUME NEW m \in T PROVE m + 1 \in T
  <2>1. PICK h : Turns(h, seq, kept, m)
    OBVIOUS
  <2>2. m \in Nat
    OBVIOUS
  <2> DEFINE f == [i \in 0..(m + 1) |->
                      IF i = 0 THEN <<>>
                      ELSE IF seq[i] \in kept THEN Append(h[i - 1], seq[i]) ELSE h[i - 1]]
  <2>3. \A i \in 0..m : f[i] = h[i]
    <3> SUFFICES ASSUME NEW i \in 0..m PROVE f[i] = h[i]
      OBVIOUS
    <3>1. i \in 0..(m + 1)
      BY <2>2
    <3> DEFINE e == IF i = 0 THEN <<>>
                    ELSE IF seq[i] \in kept THEN Append(h[i - 1], seq[i]) ELSE h[i - 1]
    <3>2. f[i] = e
      BY <3>1
    <3>3. h[i] = e
      BY <2>1 DEF Turns
    <3> QED
      BY <3>1, <3>2, <3>3
  <2>4. \A i \in 0..(m + 1) : i # 0 => i - 1 \in 0..m
    BY <2>2
  <2>5. \A i \in 0..(m + 1) : i # 0 => f[i - 1] = h[i - 1]
    BY <2>3, <2>4
  <2>6. Turns(f, seq, kept, m + 1)
    BY <2>5 DEF Turns
  <2> HIDE DEF f
  <2> QED
    BY <2>2, <2>6 DEF T
<1>3. T = Nat
  <2> HIDE DEF T
  <2> QED
    BY <1>1, <1>2, NatSet DEF T
<1> QED
  BY <1>3

\* The loop of Those, one turn after the other.
Takes(f, seq, kept) ==
    /\ f[0] = <<>> /\ Those(seq, kept) = f[Len(seq)]
    /\ \A i \in Nat : i + 1 <= Len(seq) =>
           f[i + 1] = IF seq[i + 1] \in kept THEN Append(f[i], seq[i + 1]) ELSE f[i]

\* Those is such a loop.
LEMMA ThoseTurns ==
    ASSUME NEW seq, NEW kept, Len(seq) \in Nat
    PROVE  \E f : Takes(f, seq, kept)
<1> DEFINE n == Len(seq)
<1>1. PICK f : Turns(f, seq, kept, n) /\ Those(seq, kept) = f[n]
  <2>1. Those(seq, kept) = (CHOOSE f : Turns(f, seq, kept, n))[n]
    BY DEF Those, Turns
  <2>2. \E f : Turns(f, seq, kept, n)
    BY TurnsExist
  <2> QED
    BY <2>1, <2>2
<1>2. f[0] = <<>>
  BY <1>1 DEF Turns
<1>3. ASSUME NEW i \in Nat, i + 1 <= n
      PROVE  f[i + 1] = IF seq[i + 1] \in kept THEN Append(f[i], seq[i + 1]) ELSE f[i]
  <2>1. \A j \in 0..n : j # 0 =>
            f[j] = IF seq[j] \in kept THEN Append(f[j - 1], seq[j]) ELSE f[j - 1]
    BY <1>1 DEF Turns
  <2>2. i + 1 \in 0..n /\ i + 1 # 0 /\ (i + 1) - 1 = i
    BY <1>3
  <2> QED
    BY <2>1, <2>2
<1> QED
  BY <1>1, <1>2, <1>3 DEF Takes

\* It keeps the elements that are not skipped, and nothing else.
LEMMA ThoseFacts ==
    ASSUME NEW S, NEW seq \in Seq(S), NEW kept
    PROVE  /\ Those(seq, kept) \in Seq(S)
           /\ Range(Those(seq, kept)) = Range(seq) \cap kept
<1> DEFINE n == Len(seq)
           First(i) == {seq[j] : j \in 1..i}
           Took(i, s) == s \in Seq(S) /\ Range(s) = First(i) \cap kept
<1>0. n \in Nat /\ \A i \in 1..n : seq[i] \in S
  BY RangeOf
<1>1. PICK f : Takes(f, seq, kept)
  BY <1>0, ThoseTurns
<1> DEFINE T == {i \in Nat : i <= n => Took(i, f[i])}
<1>2. 0 \in T
  <2>1. <<>> \in Seq(S) /\ Range(<<>>) = {}
    BY EmptySeq DEF Range
  <2>2. First(0) = {}
    OBVIOUS
  <2> HIDE DEF First
  <2> QED
    BY <1>1, <2>1, <2>2 DEF Takes
<1>3. ASSUME NEW i \in T PROVE i + 1 \in T
  <2>0. i \in Nat /\ (i <= n => Took(i, f[i]))
    OBVIOUS
  <2>1. ASSUME i + 1 <= n PROVE Took(i + 1, f[i + 1])
    <3> DEFINE s == f[i]
               m == seq[i + 1]
    <3>1. Took(i, s) /\ m \in S
      BY <1>0, <2>0, <2>1
    <3>2. f[i + 1] = IF m \in kept THEN Append(s, m) ELSE s
      BY <1>1, <2>0, <2>1 DEF Takes
    <3>3. First(i + 1) = First(i) \cup {m}
      BY <2>0
    <3> HIDE DEF First, s, m
    <3>4. Append(s, m) \in Seq(S) /\ Range(Append(s, m)) = Range(s) \cup {m}
      BY <3>1, RangeAppend
    <3> QED
      BY <3>1, <3>2, <3>3, <3>4
  <2> HIDE DEF Took
  <2> QED
    BY <2>0, <2>1
<1>4. T = Nat
  <2> HIDE DEF T
  <2> QED
    BY <1>2, <1>3, NatSet DEF T
<1>5. Took(n, f[n])
  <2> HIDE DEF Took
  <2>1. n \in T
    BY <1>0, <1>4
  <2> QED
    BY <1>0, <2>1
<1>6. Range(seq) = First(n)
  BY RangeOf
<1> QED
  BY <1>1, <1>5, <1>6 DEF Takes

\* The turns of the loop of FlattenSeq.
Flattens(f, seqs, n) ==
    f = [i \in 1..n |-> IF i = 1 THEN seqs[i] ELSE f[i - 1] \o seqs[i]]

\* There are as many as there are sequences.
LEMMA FlattensExist ==
    ASSUME NEW seqs, NEW n \in Nat
    PROVE  \E f : Flattens(f, seqs, n)
<1> DEFINE T == {m \in Nat : \E f : Flattens(f, seqs, m)}
<1>1. 0 \in T
  <2>1. Flattens([i \in 1..0 |-> <<>>], seqs, 0)
    BY DEF Flattens
  <2> QED
    BY <2>1
<1>2. ASSUME NEW m \in T PROVE m + 1 \in T
  <2>1. PICK h : Flattens(h, seqs, m)
    OBVIOUS
  <2>2. m \in Nat
    OBVIOUS
  <2> DEFINE f == [i \in 1..(m + 1) |-> IF i = 1 THEN seqs[i] ELSE h[i - 1] \o seqs[i]]
  <2>3. \A i \in 1..m : f[i] = h[i]
    <3> SUFFICES ASSUME NEW i \in 1..m PROVE f[i] = h[i]
      OBVIOUS
    <3>1. i \in 1..(m + 1)
      BY <2>2
    <3> DEFINE e == IF i = 1 THEN seqs[i] ELSE h[i - 1] \o seqs[i]
    <3>2. f[i] = e
      BY <3>1
    <3>3. h[i] = e
      BY <2>1 DEF Flattens
    <3> QED
      BY <3>1, <3>2, <3>3
  <2>4. \A i \in 1..(m + 1) : i # 1 => i - 1 \in 1..m
    BY <2>2
  <2>5. \A i \in 1..(m + 1) : i # 1 => f[i - 1] = h[i - 1]
    BY <2>3, <2>4
  <2>6. Flattens(f, seqs, m + 1)
    BY <2>5 DEF Flattens
  <2> HIDE DEF f
  <2> QED
    BY <2>2, <2>6 DEF T
<1>3. T = Nat
  <2> HIDE DEF T
  <2> QED
    BY <1>1, <1>2, NatSet DEF T
<1> QED
  BY <1>3

\* Sequences of elements of S, one after the other, are one.
LEMMA FlattenType ==
    ASSUME NEW S, NEW n \in Nat, NEW seqs \in [1..n -> Seq(S)]
    PROVE  FlattenSeq(seqs) \in Seq(S)
<1>0. seqs \in Seq(Seq(S)) /\ Len(seqs) = n
  OBVIOUS
<1>1. CASE n = 0
  <2>1. FlattenSeq(seqs) = seqs /\ seqs = <<>>
    BY <1>0, <1>1 DEF FlattenSeq
  <2> QED
    BY <2>1
<1>2. CASE n # 0
  <2>1. PICK f : Flattens(f, seqs, n) /\ FlattenSeq(seqs) = f[n]
    <3>1. FlattenSeq(seqs) = (CHOOSE f : Flattens(f, seqs, n))[n]
      BY <1>0, <1>2 DEF FlattenSeq, Flattens
    <3> QED
      BY <3>1, FlattensExist
  <2> DEFINE T == {i \in Nat : i + 1 <= n => f[i + 1] \in Seq(S)}
  <2>2. \A i \in 1..n : seqs[i] \in Seq(S)
    OBVIOUS
  <2>3. 0 \in T
    <3>1. 1 \in 1..n
      BY <1>2
    <3>2. f[1] = seqs[1]
      BY <2>1, <3>1 DEF Flattens
    <3> QED
      BY <2>2, <3>1, <3>2
  <2>4. ASSUME NEW i \in T PROVE i + 1 \in T
    <3>0. i \in Nat /\ (i + 1 <= n => f[i + 1] \in Seq(S))
      OBVIOUS
    <3>1. ASSUME (i + 1) + 1 <= n PROVE f[(i + 1) + 1] \in Seq(S)
      <4> DEFINE j == (i + 1) + 1
      <4>1. j \in 1..n /\ j # 1 /\ j - 1 = i + 1 /\ i + 1 <= n
        BY <3>0, <3>1
      <4> HIDE DEF j
      <4>2. f[j] = f[j - 1] \o seqs[j]
        BY <2>1, <4>1 DEF Flattens
      <4>3. f[j - 1] \in Seq(S) /\ seqs[j] \in Seq(S)
        BY <2>2, <3>0, <4>1
      <4> QED
        BY <4>2, <4>3, ConcatProperties DEF j
    <3> QED
      BY <3>0, <3>1
  <2>5. T = Nat
    <3> HIDE DEF T
    <3> QED
      BY <2>3, <2>4, NatSet DEF T
  <2>6. n - 1 \in Nat /\ (n - 1) + 1 = n
    BY <1>2
  <2>7. n - 1 \in T
    <3> HIDE DEF T
    <3> QED
      BY <2>5, <2>6
  <2> QED
    BY <2>1, <2>6, <2>7
<1> QED
  BY <1>1, <1>2

-----------------------------------------------------------------------------
(***************************************************************************)
(* sources.py.                                                             *)
(***************************************************************************)
\* Nothing is pinned.
LEMMA NothingPinned == Good(<<>>)
BY EmptySeq DEF Good

\* Pinned manifests are manifests, and trusted.
LEMMA GoodFacts ==
    ASSUME NEW entries, Good(entries)
    PROVE  /\ entries \in Seq(Entries) /\ Range(entries) \subseteq Entries
           /\ \A e \in Range(entries) : Trusted(e)
           /\ OneToOne(entries)
<1>1. entries \in Seq(Entries)
  BY DEF Good
<1>2. /\ DOMAIN entries = 1..Len(entries) /\ Range(entries) \subseteq Entries
      /\ Range(entries) = {entries[i] : i \in 1..Len(entries)}
  BY <1>1, RangeOf
<1> QED
  BY <1>1, <1>2 DEF Good, OneToOne

\* What is appended is trusted, and has a key and an endpoint of its own.
LEMMA GoodAppend ==
    ASSUME NEW entries, Good(entries), NEW e \in Entries, Trusted(e),
           \A f \in Range(entries) : UriOf[f] # UriOf[e] /\ KeyOf[f] # KeyOf[e]
    PROVE  Good(Append(entries, e))
<1> DEFINE n == Len(entries)
           new == Append(entries, e)
<1>1. entries \in Seq(Entries)
  BY DEF Good
<1>2. /\ new \in Seq(Entries) /\ n \in Nat /\ Len(new) = n + 1
      /\ \A i \in 1..n : new[i] = entries[i]
      /\ new[n + 1] = e
  BY <1>1, AppendProperties, LenProperties
<1> HIDE DEF new
<1>3. \A i \in 1..n : /\ Trusted(new[i])
                      /\ UriOf[new[i]] # UriOf[e] /\ KeyOf[new[i]] # KeyOf[e]
  <2>1. \A i \in 1..n : entries[i] \in Range(entries)
    BY <1>1, RangeOf
  <2> QED
    BY <1>2, <2>1 DEF Good
<1>4. \A i \in 1..(n + 1) : i \in 1..n \/ i = n + 1
  BY <1>2
<1>5. ASSUME NEW i \in 1..(n + 1), NEW j \in 1..(n + 1), i # j
      PROVE  UriOf[new[i]] # UriOf[new[j]] /\ KeyOf[new[i]] # KeyOf[new[j]]
  <2>1. CASE i \in 1..n /\ j \in 1..n
    BY <1>2, <1>5, <2>1 DEF Good
  <2>2. CASE ~(i \in 1..n /\ j \in 1..n)
    BY <1>2, <1>3, <1>4, <1>5, <2>2
  <2> QED
    BY <2>1, <2>2
<1>6. \A i \in 1..(n + 1) : Trusted(new[i])
  BY <1>2, <1>3, <1>4
<1> HIDE DEF n
<1> QED
  BY <1>2, <1>5, <1>6 DEF Good, new

\* Manifests that may be pinned may still be when some are left out.
LEMMA GoodThose ==
    ASSUME NEW entries, Good(entries), NEW kept
    PROVE  Good(Those(entries, kept))
<1> DEFINE n == Len(entries)
           First(i) == {entries[j] : j \in 1..i}
           Took(i, s) == Good(s) /\ Range(s) \subseteq First(i)
<1>0. entries \in Seq(Entries) /\ n \in Nat /\ \A i \in 1..n : entries[i] \in Entries
  BY RangeOf DEF Good
<1>1. PICK f : Takes(f, entries, kept)
  BY <1>0, ThoseTurns
<1> DEFINE T == {i \in Nat : i <= n => Took(i, f[i])}
<1>2. 0 \in T
  <2>1. Range(<<>>) = {}
    BY DEF Range
  <2> QED
    BY <1>1, <2>1, NothingPinned DEF Takes
<1>3. ASSUME NEW i \in T PROVE i + 1 \in T
  <2>0. i \in Nat /\ (i <= n => Took(i, f[i]))
    OBVIOUS
  <2>1. ASSUME i + 1 <= n PROVE Took(i + 1, f[i + 1])
    <3> DEFINE s == f[i]
               m == entries[i + 1]
    <3>1. Took(i, s) /\ m \in Entries /\ i + 1 \in 1..n
      BY <1>0, <2>0, <2>1
    <3>2. f[i + 1] = IF m \in kept THEN Append(s, m) ELSE s
      BY <1>1, <2>0, <2>1 DEF Takes
    <3>3. First(i + 1) = First(i) \cup {m}
      BY <2>0
    <3>4. Trusted(m) /\ \A g \in First(i) : UriOf[g] # UriOf[m] /\ KeyOf[g] # KeyOf[m]
      <4>1. \A j \in 1..i : j \in 1..n /\ j # i + 1
        BY <1>0, <2>0, <3>1
      <4> QED
        BY <3>1, <4>1 DEF Good
    <3> HIDE DEF First, s, m
    <3>5. s \in Seq(Entries)
      BY <3>1 DEF Good
    <3>6. Range(Append(s, m)) = Range(s) \cup {m}
      BY <3>1, <3>5, RangeAppend
    <3>7. Good(Append(s, m))
      BY <3>1, <3>4, GoodAppend
    <3> QED
      BY <3>1, <3>2, <3>3, <3>6, <3>7
  <2> HIDE DEF Took
  <2> QED
    BY <2>0, <2>1
<1>4. T = Nat
  <2> HIDE DEF T
  <2> QED
    BY <1>2, <1>3, NatSet DEF T
<1>5. Good(f[n])
  <2> HIDE DEF n
  <2> QED
    BY <1>0, <1>4
<1> QED
  BY <1>1, <1>5 DEF Takes

\* merge_provider of an entry it accepts: all keys stay, and the new one is there.
LEMMA MergeFacts ==
    ASSUME NEW entries, Good(entries), NEW e \in Entries, Trusted(e), ~Clashes(entries, e)
    PROVE  /\ Good(MergeProvider(entries, e))
           /\ Range(MergeProvider(entries, e)) \subseteq Range(entries) \cup {e}
           /\ \A f \in Range(entries) \cup {e} :
                  \E b \in Range(MergeProvider(entries, e)) : KeyOf[b] = KeyOf[f]
<1> DEFINE others == {f \in Entries : KeyOf[f] # KeyOf[e]}
           left == Those(entries, others)
<1>1. entries \in Seq(Entries) /\ Range(entries) \subseteq Entries
  BY GoodFacts
<1>2. left \in Seq(Entries) /\ Range(left) = Range(entries) \cap others /\ Good(left)
  BY <1>1, ThoseFacts, GoodThose
<1>3. MergeProvider(entries, e) = Append(left, e)
  BY DEF MergeProvider, WithoutKey
<1> HIDE DEF left
<1>4. Range(Append(left, e)) = Range(left) \cup {e}
  BY <1>2, RangeAppend
<1>5. \A f \in Range(left) : UriOf[f] # UriOf[e] /\ KeyOf[f] # KeyOf[e]
  BY <1>2 DEF Clashes
<1>6. Good(Append(left, e))
  BY <1>2, <1>5, GoodAppend
<1>7. \A f \in Range(entries) \cup {e} : \E b \in Range(left) \cup {e} : KeyOf[b] = KeyOf[f]
  BY <1>1, <1>2
<1> QED
  BY <1>2, <1>3, <1>4, <1>6, <1>7

\* The loop of build_registry over a set of positions, the last one taken last.
Loop(f, es, D) ==
    f = [s \in SUBSET D |-> IF s = {} THEN <<>> ELSE TryAdd(f[s \ {Max(s)}], es[Max(s)])]

\* It is defined for the positions of every list.
LEMMA LoopExists ==
    ASSUME NEW es, NEW n \in Nat
    PROVE  \E f : Loop(f, es, 1..n)
<1> DEFINE T == {m \in Nat : \E f : Loop(f, es, 1..m)}
<1>1. 0 \in T
  <2> DEFINE f == [s \in SUBSET (1..0) |-> <<>>]
  <2>1. Loop(f, es, 1..0)
    <3>1. \A s \in SUBSET (1..0) : s = {}
      OBVIOUS
    <3> QED
      BY <3>1 DEF Loop
  <2> QED
    BY <2>1
<1>2. ASSUME NEW m \in T PROVE m + 1 \in T
  <2>1. PICK h : Loop(h, es, 1..m)
    OBVIOUS
  <2>2. m \in Nat
    OBVIOUS
  <2> DEFINE D == 1..(m + 1)
             f == [s \in SUBSET D |->
                      IF m + 1 \in s THEN TryAdd(h[s \ {m + 1}], es[m + 1]) ELSE h[s]]
  <2> HIDE DEF T
  <2>3. \A s \in SUBSET (1..m) : s \in SUBSET D /\ f[s] = h[s]
    <3>1. \A s \in SUBSET (1..m) : s \in SUBSET D /\ m + 1 \notin s
      BY <2>2
    <3> QED
      BY <3>1
  <2>4. \A s \in SUBSET D : m + 1 \notin s => s \in SUBSET (1..m)
    BY <2>2
  <2>5. \A s \in SUBSET D : m + 1 \in s => Max(s) = m + 1 /\ s \ {m + 1} \in SUBSET (1..m)
    <3> SUFFICES ASSUME NEW s \in SUBSET D, m + 1 \in s
                 PROVE  Max(s) = m + 1 /\ s \ {m + 1} \in SUBSET (1..m)
      OBVIOUS
    <3>1. \A x \in s : x \in Nat /\ x <= m + 1
      BY <2>2
    <3>2. \A y \in s : m + 1 >= y
      BY <2>2, <3>1
    <3>3. \A x \in s : (\A y \in s : x >= y) => x = m + 1
      BY <2>2, <3>1
    <3>4. Max(s) = m + 1
      BY <3>2, <3>3 DEF Max
    <3>5. s \ {m + 1} \in SUBSET (1..m)
      BY <2>2
    <3> QED
      BY <3>4, <3>5
  <2>6. \A s \in SUBSET (1..m) : s # {} => s \ {Max(s)} \in SUBSET (1..m)
    OBVIOUS
  <2>7. ASSUME NEW s \in SUBSET D
        PROVE  f[s] = IF s = {} THEN <<>> ELSE TryAdd(f[s \ {Max(s)}], es[Max(s)])
    <3>1. CASE m + 1 \in s
      <4>1. f[s] = TryAdd(h[s \ {m + 1}], es[m + 1])
        BY <3>1
      <4>2. f[s \ {m + 1}] = h[s \ {m + 1}] /\ Max(s) = m + 1
        BY <2>3, <2>5, <3>1
      <4> QED
        BY <3>1, <4>1, <4>2
    <3>2. CASE m + 1 \notin s
      <4>1. s \in SUBSET (1..m) /\ f[s] = h[s]
        BY <2>3, <2>4, <3>2
      <4>2. h[s] = IF s = {} THEN <<>> ELSE TryAdd(h[s \ {Max(s)}], es[Max(s)])
        BY <2>1, <4>1 DEF Loop
      <4>3. s # {} => f[s \ {Max(s)}] = h[s \ {Max(s)}]
        BY <2>3, <2>6, <4>1
      <4> QED
        BY <4>1, <4>2, <4>3
    <3> QED
      BY <3>1, <3>2
  <2>8. f = [s \in SUBSET D |-> f[s]]
    OBVIOUS
  <2>9. Loop(f, es, D)
    <3> HIDE DEF f
    <3> QED
      BY <2>7, <2>8 DEF Loop
  <2> HIDE DEF f
  <2> QED
    BY <2>2, <2>9 DEF T
<1>3. T = Nat
  <2> HIDE DEF T
  <2> QED
    BY <1>1, <1>2, NatSet DEF T
<1> QED
  BY <1>3

\* build_registry pins what may be pinned, of its sources; the first p of them may
\* all be and are all there, under their keys.
LEMMA FoldFacts ==
    ASSUME NEW es \in Seq(Entries), NEW p \in Nat, p <= Len(es),
           \A i \in 1..p : Trusted(es[i]),
           \A i, j \in 1..p : i # j => UriOf[es[i]] # UriOf[es[j]]
    PROVE  /\ Good(FoldLeft(TryAdd, <<>>, es))
           /\ Range(FoldLeft(TryAdd, <<>>, es)) \subseteq Range(es)
           /\ \A i \in 1..p : \E b \in Range(FoldLeft(TryAdd, <<>>, es)) : KeyOf[b] = KeyOf[es[i]]
<1> DEFINE n == Len(es)
           First(i) == {es[j] : j \in 1..i}
           Added(i, s) == /\ Good(s)
                          /\ Range(s) \subseteq First(i)
                          /\ \A j \in 1..i : j <= p => \E b \in Range(s) : KeyOf[b] = KeyOf[es[j]]
<1>0. n \in Nat /\ DOMAIN es = 1..n /\ \A i \in 1..n : es[i] \in Entries
  BY RangeOf
<1>1. PICK f : Loop(f, es, 1..n) /\ FoldLeft(TryAdd, <<>>, es) = f[1..n]
  <2>1. FoldLeft(TryAdd, <<>>, es) = (CHOOSE f : Loop(f, es, DOMAIN es))[DOMAIN es]
    BY DEF FoldLeft, MapThenFoldSet, Loop
  <2>2. \E f : Loop(f, es, 1..n)
    BY <1>0, LoopExists
  <2> QED
    BY <1>0, <2>1, <2>2
<1>2. f[{}] = <<>>
  BY <1>1 DEF Loop
<1>3. ASSUME NEW i \in Nat, i + 1 <= n
      PROVE  f[1..(i + 1)] = TryAdd(f[1..i], es[i + 1])
  <2> DEFINE s == 1..(i + 1)
  <2>1. s \in SUBSET (1..n) /\ s # {}
    <3> HIDE DEF n
    <3>1. 1 \in s
      OBVIOUS
    <3>2. \A x \in s : x \in 1..n
      BY <1>0, <1>3
    <3> QED
      BY <3>1, <3>2
  <2>2. Max(s) = i + 1
    <3>1. i + 1 \in s /\ \A y \in s : i + 1 >= y
      OBVIOUS
    <3>2. \A x \in s : (\A y \in s : x >= y) => x = i + 1
      BY <3>1
    <3> HIDE DEF s
    <3> QED
      BY <3>1, <3>2 DEF Max
  <2>3. s \ {i + 1} = 1..i
    OBVIOUS
  <2>4. f[s] = TryAdd(f[s \ {Max(s)}], es[Max(s)])
    <3> HIDE DEF s
    <3> QED
      BY <1>1, <2>1 DEF Loop
  <2> HIDE DEF s
  <2> QED
    BY <2>2, <2>3, <2>4 DEF s
<1> HIDE DEF n
<1> DEFINE T == {i \in Nat : i <= n => Added(i, f[1..i])}
<1>4. 0 \in T
  <2>1. 1..0 = {} /\ Range(<<>>) = {}
    BY DEF Range
  <2> QED
    BY <1>2, <2>1, NothingPinned
<1>5. ASSUME NEW i \in T PROVE i + 1 \in T
  <2>0. i \in Nat /\ (i <= n => Added(i, f[1..i]))
    OBVIOUS
  <2>1. ASSUME i + 1 <= n PROVE Added(i + 1, f[1..(i + 1)])
    <3> DEFINE s == f[1..i]
               t == f[1..(i + 1)]
               e == es[i + 1]
    <3>1. i <= n /\ i + 1 \in 1..n
      BY <1>0, <2>0, <2>1
    <3>2. Added(i, s) /\ e \in Entries /\ t = TryAdd(s, e)
      BY <1>0, <1>3, <2>0, <2>1, <3>1
    <3>3. First(i + 1) = First(i) \cup {e}
      BY <2>0
    <3>4. i + 1 <= p => Trusted(e) /\ ~Clashes(s, e)
      <4> SUFFICES ASSUME i + 1 <= p PROVE Trusted(e) /\ ~Clashes(s, e)
        OBVIOUS
      <4>1. i + 1 \in 1..p /\ i <= p /\ \A j \in 1..i : j \in 1..p /\ j # i + 1
        BY <2>0
      <4>2. \A g \in First(i) : UriOf[g] # UriOf[e]
        BY <4>1
      <4>3. Range(s) \subseteq First(i)
        BY <3>2, <4>1
      <4> HIDE DEF First, s, e
      <4>4. ~Clashes(s, e)
        BY <4>2, <4>3 DEF Clashes
      <4> QED
        BY <4>1, <4>4 DEF e
    <3>5. \A j \in 1..(i + 1) : j \in 1..i \/ j = i + 1
      BY <2>0
    <3> HIDE DEF t, s, e, First
    <3>7. CASE Trusted(e) /\ ~Clashes(s, e)
      <4>1. t = MergeProvider(s, e)
        BY <3>2, <3>7 DEF TryAdd, Trusted
      <4>2. /\ Good(t) /\ Range(t) \subseteq Range(s) \cup {e}
            /\ \A g \in Range(s) \cup {e} : \E b \in Range(t) : KeyOf[b] = KeyOf[g]
        BY <3>2, <3>7, <4>1, MergeFacts
      <4>3. ASSUME NEW j \in 1..(i + 1), j <= p
            PROVE  \E b \in Range(t) : KeyOf[b] = KeyOf[es[j]]
        <5>1. CASE j \in 1..i
          <6>1. PICK g \in Range(s) : KeyOf[g] = KeyOf[es[j]]
            BY <3>2, <4>3, <5>1
          <6> QED
            BY <4>2, <6>1
        <5>2. CASE j = i + 1
          BY <4>2, <5>2 DEF e
        <5> QED
          BY <3>5, <5>1, <5>2
      <4>4. Range(t) \subseteq First(i + 1)
        BY <3>2, <3>3, <4>2
      <4> QED
        BY <4>2, <4>3, <4>4 DEF t
    <3>8. CASE ~(Trusted(e) /\ ~Clashes(s, e))
      <4>1. t = s /\ ~(i + 1 <= p)
        BY <3>2, <3>4, <3>8 DEF TryAdd, Trusted
      <4>2. \A j \in 1..(i + 1) : j <= p => j \in 1..i
        BY <3>5, <4>1
      <4> QED
        BY <3>2, <3>3, <4>1, <4>2 DEF t
    <3> QED
      BY <3>7, <3>8
  <2> HIDE DEF Added
  <2> QED
    BY <2>0, <2>1
<1>6. T = Nat
  <2> HIDE DEF T
  <2> QED
    BY <1>4, <1>5, NatSet DEF T
<1>7. Added(n, f[1..n])
  <2> HIDE DEF Added
  <2> QED
    BY <1>0, <1>6
<1>8. \A j \in 1..p : j \in 1..n
  BY <1>0 DEF n
<1>9. First(n) = Range(es)
  BY RangeOf DEF n
<1> QED
  BY <1>1, <1>7, <1>8, <1>9

\* build_registry routes to manifests that may be pinned, and to every provider
\* the user has added, as added or as a directory lists it.
LEMMA BuildFacts ==
    ASSUME NEW cfg \in Configs, Good(cfg.providers), NEW reachable
    PROVE  Good(BuildRegistry(cfg, reachable)) /\ Covers(BuildRegistry(cfg, reachable), cfg)
<1> DEFINE own == cfg.providers
           dirs == cfg.directories
           lists == [i \in DOMAIN dirs |-> IF dirs[i] \in reachable THEN Listing[dirs[i]] ELSE <<>>]
           p == Len(own)
           es == SourcesOf(cfg, reachable)
<1>1. own \in Seq(Entries) /\ dirs \in Seq(Directories)
  BY DEF Configs
<1>2. /\ Len(dirs) \in Nat /\ DOMAIN dirs = 1..Len(dirs)
      /\ \A i \in 1..Len(dirs) : dirs[i] \in Directories
  BY <1>1, RangeOf
<1>3. lists \in [1..Len(dirs) -> Seq(Entries)]
  <2>1. <<>> \in Seq(Entries)
    BY EmptySeq
  <2>2. \A i \in 1..Len(dirs) : Listing[dirs[i]] \in Seq(Entries)
    BY <1>2, ServerAssumption
  <2> HIDE DEF own, dirs
  <2> QED
    BY <1>2, <2>1, <2>2
<1>4. Discovered(cfg, reachable) = FlattenSeq(lists)
  BY DEF Discovered
<1> HIDE DEF lists
<1>5. Discovered(cfg, reachable) \in Seq(Entries)
  BY <1>2, <1>3, <1>4, FlattenType
<1>a. Range(Discovered(cfg, reachable)) \subseteq Listed(cfg)
  <2>1. lists \in [1..Len(dirs) -> Seq(Listed(cfg))]
    <3>1. <<>> \in Seq(Listed(cfg))
      BY EmptySeq
    <3>2. ASSUME NEW i \in 1..Len(dirs) PROVE Listing[dirs[i]] \in Seq(Listed(cfg))
      <4> DEFINE list == Listing[dirs[i]]
      <4>1. list \in Seq(Entries)
        BY <1>2, ServerAssumption
      <4>2. dirs[i] \in Range(dirs)
        BY <1>2 DEF Range
      <4>3. Range(list) \subseteq Listed(cfg)
        BY <4>2 DEF Listed
      <4> HIDE DEF list
      <4>4. Len(list) \in Nat /\ list = [j \in 1..Len(list) |-> list[j]] /\ \A j \in 1..Len(list) : list[j] \in Range(list)
        BY <4>1, RangeOf
      <4>5. \A j \in 1..Len(list) : list[j] \in Listed(cfg)
        BY <4>3, <4>4
      <4> QED
        BY <4>4, <4>5 DEF list
    <3> HIDE DEF own, dirs
    <3> QED
      BY <1>2, <3>1, <3>2 DEF lists
  <2>2. Discovered(cfg, reachable) \in Seq(Listed(cfg))
    BY <1>2, <1>4, <2>1, FlattenType
  <2> QED
    BY <2>2, RangeOf
<1>6. /\ es \in Seq(Entries) /\ p \in Nat /\ p <= Len(es)
      /\ \A i \in 1..p : es[i] = own[i]
      /\ Range(es) \subseteq Range(own) \cup Range(Discovered(cfg, reachable))
  <2> DEFINE more == Discovered(cfg, reachable)
  <2> HIDE DEF more
  <2>1. more \in Seq(Entries)
    BY <1>5 DEF more
  <2>2. /\ own \o more \in Seq(Entries) /\ Len(own \o more) = p + Len(more)
        /\ p \in Nat /\ Len(more) \in Nat
        /\ \A i \in 1..(p + Len(more)) :
               (own \o more)[i] = IF i <= p THEN own[i] ELSE more[i - p]
    BY <1>1, <2>1, ConcatProperties, LenProperties
  <2>3. \A i \in 1..p : i \in 1..(p + Len(more)) /\ i <= p
    BY <2>2
  <2>4. es = own \o more
    BY DEF SourcesOf, more
  <2>a. Range(own) = {own[i] : i \in 1..p} /\ Range(more) = {more[i] : i \in 1..Len(more)}
    BY <1>1, <2>1, RangeOf
  <2>b. es \in Seq(Entries) /\ Len(es) = p + Len(more)
    BY <2>2, <2>4
  <2>c. Range(es) = {es[i] : i \in 1..Len(es)}
    <3> HIDE DEF es
    <3> QED
      BY <2>b, RangeOf
  <2>5. /\ Range(own) = {own[i] : i \in 1..p} /\ Range(more) = {more[i] : i \in 1..Len(more)}
        /\ Range(es) = {es[i] : i \in 1..(p + Len(more))}
    BY <2>a, <2>b, <2>c
  <2>6. \A i \in 1..(p + Len(more)) : i \in 1..p \/ (~(i <= p) /\ i - p \in 1..Len(more))
    BY <2>2
  <2>7. Range(es) \subseteq Range(own) \cup Range(more)
    <3> HIDE DEF own, p, es
    <3> QED
      BY <2>2, <2>4, <2>5, <2>6
  <2> HIDE DEF own, p
  <2> QED
    BY <2>2, <2>3, <2>4, <2>7 DEF more
<1>7. /\ \A i \in 1..p : Trusted(own[i])
      /\ \A i, j \in 1..p : i # j => UriOf[own[i]] # UriOf[own[j]]
  BY DEF Good
<1>8. Range(own) = {own[i] : i \in 1..p}
  BY <1>1, RangeOf
<1>c. \A i \in 1..p : Trusted(es[i])
  BY <1>6, <1>7
<1>d. \A i, j \in 1..p : i # j => UriOf[es[i]] # UriOf[es[j]]
  <2> HIDE DEF es, own, p
  <2> QED
    BY <1>6, <1>7
<1>b. \A i, j \in 1..p : KeyOf[own[i]] = KeyOf[own[j]] => own[i] = own[j]
  BY DEF Good
<1> HIDE DEF es, own, p
<1>9. /\ Good(FoldLeft(TryAdd, <<>>, es))
      /\ Range(FoldLeft(TryAdd, <<>>, es)) \subseteq Range(es)
      /\ \A i \in 1..p : \E b \in Range(FoldLeft(TryAdd, <<>>, es)) : KeyOf[b] = KeyOf[es[i]]
  BY <1>6, <1>c, <1>d, FoldFacts
<1>10. BuildRegistry(cfg, reachable) = FoldLeft(TryAdd, <<>>, es)
  BY DEF BuildRegistry, es
<1>11. Covers(BuildRegistry(cfg, reachable), cfg)
  <2> SUFFICES ASSUME NEW e \in Range(own)
               PROVE  \E b \in Range(FoldLeft(TryAdd, <<>>, es)) :
                          KeyOf[b] = KeyOf[e] /\ (b = e \/ b \in Listed(cfg))
    BY <1>10 DEF Covers, own
  <2>1. PICK i \in 1..p : e = own[i]
    BY <1>8
  <2>2. PICK b \in Range(FoldLeft(TryAdd, <<>>, es)) : KeyOf[b] = KeyOf[e]
    BY <1>6, <1>9, <2>1
  <2>3. b \in Range(own) => b = e
    BY <1>8, <1>b, <2>1, <2>2
  <2>4. b \in Range(own) \/ b \in Listed(cfg)
    BY <1>6, <1>9, <1>a
  <2> QED
    BY <2>2, <2>3, <2>4
<1> QED
  BY <1>9, <1>10, <1>11

-----------------------------------------------------------------------------
(***************************************************************************)
(* What is asked, what it makes of a configuration, and what is restored.  *)
(***************************************************************************)
\* The seven operations and their arguments.
LEMMA OpFacts ==
    ASSUME NEW o \in Ops
    PROVE  /\ o.kind \in {"complete_onboarding", "stop_local_use", "add_provider", "remove_provider",
                          "add_directory", "remove_directory", "start_local_use"}
           /\ o.kind = "add_provider" => o.entry \in Entries
           /\ o.kind \in {"add_directory", "remove_directory"} => o.spec \in Directories
           /\ o.kind = "start_local_use" => o.model \in Models
BY DEF Ops

\* replace gives a configuration; only start and stop change what is in local use.
LEMMA ReplacedFacts ==
    ASSUME NEW o \in Ops, NEW ms, Good(ms), NEW base \in Configs, Good(base.providers)
    PROVE  /\ Replaced(o, ms, base) \in Configs /\ Good(Replaced(o, ms, base).providers)
           /\ o.kind = "start_local_use" => Replaced(o, ms, base).local_use = o.model
           /\ o.kind = "stop_local_use" => Replaced(o, ms, base).local_use = None
           /\ o.kind \notin {"start_local_use", "stop_local_use"} =>
                  Replaced(o, ms, base).local_use = base.local_use
<1> DEFINE new == Replaced(o, ms, base)
<1>0. ms \in Seq(Entries)
  BY DEF Good
<1>1. CASE o.kind = "complete_onboarding"
  <2>1. new = [base EXCEPT !.onboarded = TRUE]
    BY <1>1 DEF Replaced
  <2> HIDE DEF new
  <2>2. new \in Configs /\ new.providers = base.providers /\ new.local_use = base.local_use
    BY <2>1 DEF Configs
  <2> QED
    BY <1>1, <2>2 DEF new
<1>2. CASE o.kind \in {"add_provider", "remove_provider"}
  <2>1. new = [base EXCEPT !.providers = ms]
    BY <1>2 DEF Replaced
  <2> HIDE DEF new
  <2>2. new \in Configs /\ new.providers = ms /\ new.local_use = base.local_use
    BY <1>0, <2>1 DEF Configs
  <2> QED
    BY <1>2, <2>2 DEF new
<1>3. CASE o.kind \in {"add_directory", "remove_directory"}
  <2> DEFINE ds == base.directories
             added == Append(ds, o.spec)
             left == Those(ds, Directories \ {o.spec})
  <2>1. ds \in Seq(Directories) /\ o.spec \in Directories
    BY <1>3, OpFacts DEF Configs
  <2>2. added \in Seq(Directories) /\ left \in Seq(Directories)
    BY <2>1, AppendProperties, ThoseFacts
  <2>3. new \in {[base EXCEPT !.directories = added], [base EXCEPT !.directories = left]}
    BY <1>3 DEF Replaced
  <2> HIDE DEF new, added, left
  <2>4. new \in Configs /\ new.providers = base.providers /\ new.local_use = base.local_use
    BY <2>2, <2>3 DEF Configs
  <2> QED
    BY <1>3, <2>4 DEF new
<1>4. CASE o.kind \in {"start_local_use", "stop_local_use"}
  <2> DEFINE m == IF o.kind = "start_local_use" THEN o.model ELSE None
  <2>1. new = [base EXCEPT !.local_use = m] /\ m \in Models \cup {None}
    BY <1>4, OpFacts DEF Replaced
  <2> HIDE DEF new
  <2>2. new \in Configs /\ new.providers = base.providers /\ new.local_use = m
    BY <2>1 DEF Configs
  <2> QED
    BY <1>4, <2>2 DEF new
<1> QED
  BY <1>1, <1>2, <1>3, <1>4, OpFacts

\* _restore_local and rebuild on a configuration: what is live is what it names,
\* or nothing with a warning, and what is routed is what it lists.
LEMMA BootedFacts ==
    ASSUME NEW cfg \in Configs, Good(cfg.providers), NEW s \in Booted(cfg)
    PROVE  /\ s.live \in Locals /\ s.warning \in Models \cup {None} /\ s.backend \in Backends
           /\ Good(s.backend.remote) /\ Covers(s.backend.remote, cfg)
           /\ s.backend.local = s.live
           /\ s.live.model = cfg.local_use \/ (s.live = NoLocal /\ s.warning # None)
<1>1. PICK t \in Restored(cfg), reachable \in SUBSET Range(cfg.directories) :
          s = [live |-> t.live, warning |-> t.warning,
               backend |-> [remote |-> BuildRegistry(cfg, reachable), local |-> t.live]]
  BY DEF Booted
<1>2. /\ t.live \in Locals /\ t.warning \in Models \cup {None}
      /\ t.live.model = cfg.local_use \/ (t.live = NoLocal /\ t.warning # None)
  <2>1. cfg.local_use \in Models \cup {None}
    BY DEF Configs
  <2>2. CASE cfg.local_use = None
    BY <2>2 DEF Restored, NoLocal, Locals
  <2>3. CASE cfg.local_use # None
    BY <2>1, <2>3 DEF Restored, FrontLocalModel, NoLocal, Locals
  <2> QED
    BY <2>2, <2>3
<1> DEFINE entries == BuildRegistry(cfg, reachable)
<1> HIDE DEF entries
<1>3. Good(entries) /\ Covers(entries, cfg)
  BY BuildFacts DEF entries
<1>4. entries \in Seq(Entries)
  BY <1>3 DEF Good
<1>5. /\ s.live = t.live /\ s.warning = t.warning
      /\ s.backend = [remote |-> entries, local |-> t.live]
  BY <1>1 DEF entries
<1>6. s.backend \in Backends /\ s.backend.remote = entries /\ s.backend.local = t.live
  BY <1>2, <1>4, <1>5 DEF Backends
<1> QED
  BY <1>2, <1>3, <1>5, <1>6

\* A configuration an earlier session has left.
LEMMA FileFacts ==
    ASSUME NEW cfg \in Files
    PROVE  cfg \in Configs /\ Good(cfg.providers)
<1> DEFINE ps == cfg.providers
<1>1. /\ cfg \in Configs
      /\ \A e \in Range(ps) : TrustedProviderEntry(e, UriOf[e])
      /\ \A i, j \in DOMAIN ps : i # j => UriOf[ps[i]] # UriOf[ps[j]] /\ KeyOf[ps[i]] # KeyOf[ps[j]]
  BY ServerAssumption DEF Configs
<1>2. ps \in Seq(Entries)
  BY <1>1 DEF Configs
<1> HIDE DEF ps
<1>3. DOMAIN ps = 1..Len(ps) /\ \A i \in 1..Len(ps) : ps[i] \in Range(ps)
  BY <1>2, RangeOf
<1> QED
  BY <1>1, <1>2, <1>3 DEF Good, Trusted, ps

\* AppConfig() and an empty backend.
LEMMA DefaultFacts ==
    /\ DefaultConfig \in Configs /\ Good(DefaultConfig.providers)
    /\ NoLocal \in Locals
    /\ NoBackend \in Backends /\ Good(NoBackend.remote) /\ NoBackend.local = NoLocal
<1>1. <<>> \in Seq(Entries) /\ <<>> \in Seq(Directories)
  BY EmptySeq
<1>2. NoLocal \in Locals
  BY DEF Locals
<1> QED
  BY <1>1, <1>2, NothingPinned DEF DefaultConfig, Configs, NoBackend, Backends

-----------------------------------------------------------------------------
(***************************************************************************)
(* Types, trust and pins.                                                  *)
(***************************************************************************)
\* A new start of the server, at first and after a crash.
LEMMA InitSound == Init => SoundInv
<1> SUFFICES ASSUME Init PROVE SoundInv
  OBVIOUS
<1>1. disk \in Configs /\ Good(disk.providers) /\ config = disk
  BY FileFacts DEF Init
<1>2. PICK s \in Booted(disk) : local = s.live /\ warning = s.warning /\ backend = s.backend
  BY DEF Init
<1>3. /\ local \in Locals /\ warning \in Models \cup {None} /\ backend \in Backends
      /\ Good(backend.remote)
  BY <1>1, <1>2, BootedFacts
<1>4. <<>> \in Seq(Entries)
  BY EmptySeq
<1>5. TypeOK
  <2>1. crashes \in 0..MaxCrashes
    <3>1. MaxCrashes \in Nat
      BY ServerAssumption
    <3> QED
      BY <3>1 DEF Init
  <2>2. /\ op = [r \in Requests |-> NoOp] /\ pc = [r \in Requests |-> "new"]
        /\ merged = [r \in Requests |-> <<>>] /\ draft = [r \in Requests |-> DefaultConfig]
        /\ built = [r \in Requests |-> NoBackend] /\ overlap = FALSE
    BY DEF Init
  <2> QED
    BY <1>1, <1>3, <1>4, <2>1, <2>2, DefaultFacts DEF TypeOK, PC
<1>6. PinnedAreGood
  BY <1>1, <1>3, DefaultFacts, NothingPinned DEF PinnedAreGood, Init
<1>7. Asked /\ NothingFronted
  BY DefaultFacts DEF Asked, NothingFronted, Init, Active
<1> QED
  BY <1>5, <1>6, <1>7 DEF SoundInv

\* One step of one handler.
LEMMA HandlerSound ==
    ASSUME SoundInv, NEW r \in Requests, NEW o \in Ops, NEW label \in PC, GotoFor(r, o, label),
           config' \in Configs, Good(config'.providers),
           disk' \in Configs, Good(disk'.providers),
           backend' \in Backends, Good(backend'.remote),
           local' \in Locals, warning' = warning, crashes' = crashes, overlap' \in BOOLEAN,
           NEW ms, Good(ms), merged' = [merged EXCEPT ![r] = ms],
           NEW cfg \in Configs, Good(cfg.providers), draft' = [draft EXCEPT ![r] = cfg],
           NEW b \in Backends, Good(b.remote), built' = [built EXCEPT ![r] = b],
           label \notin {"local", "swap"} => b.local = NoLocal
    PROVE  SoundInv'
<1>0. TypeOK /\ PinnedAreGood /\ Asked /\ NothingFronted /\ ms \in Seq(Entries)
  BY DEF SoundInv, Good
<1>1. /\ pc' = [pc EXCEPT ![r] = label]
      /\ op' = [op EXCEPT ![r] = IF label \in Ended THEN NoOp ELSE o]
  BY DEF GotoFor
<1>2. TypeOK'
  BY <1>0, <1>1 DEF TypeOK
<1>3. PinnedAreGood'
  <2>1. ASSUME NEW q \in Requests
        PROVE  Good(merged'[q]) /\ Good(draft'[q].providers) /\ Good(built'[q].remote)
    <3>1. CASE q = r
      BY <1>0, <3>1 DEF TypeOK
    <3>2. CASE q # r
      BY <1>0, <3>2 DEF TypeOK, PinnedAreGood
    <3> QED
      BY <3>1, <3>2
  <2> QED
    BY <2>1 DEF PinnedAreGood
<1>4. Asked' /\ NothingFronted'
  <2>1. ASSUME NEW q \in Requests
        PROVE  /\ Active(q)' => op'[q] \in Ops
               /\ pc'[q] \notin {"local", "swap"} => built'[q].local = NoLocal
    <3>1. CASE q = r
      BY <1>0, <1>1, <3>1 DEF TypeOK, Active
    <3>2. CASE q # r
      BY <1>0, <1>1, <3>2 DEF TypeOK, Asked, NothingFronted, Active
    <3> QED
      BY <3>1, <3>2
  <2> QED
    BY <2>1 DEF Asked, NothingFronted
<1> QED
  BY <1>2, <1>3, <1>4 DEF SoundInv

\* What is known of a handler and of the state before its step.
LEMMA BeforeStep ==
    ASSUME SoundInv, NEW r \in Requests
    PROVE  /\ config \in Configs /\ disk \in Configs /\ local \in Locals /\ backend \in Backends
           /\ overlap \in BOOLEAN /\ crashes \in 0..MaxCrashes /\ warning \in Models \cup {None}
           /\ Good(config.providers) /\ Good(disk.providers) /\ Good(backend.remote)
           /\ Good(merged[r]) /\ draft[r] \in Configs /\ Good(draft[r].providers)
           /\ built[r] \in Backends /\ Good(built[r].remote)
           /\ merged = [merged EXCEPT ![r] = merged[r]]
           /\ draft = [draft EXCEPT ![r] = draft[r]]
           /\ built = [built EXCEPT ![r] = built[r]]
           /\ Active(r) => op[r] \in Ops
           /\ pc[r] \notin {"local", "swap"} => built[r].local = NoLocal
BY DEF SoundInv, TypeOK, PinnedAreGood, Asked, NothingFronted

\* A handler under way is at one of the labels of its statements.
LEMMA ActiveFacts ==
    ASSUME NEW r \in Requests,
           pc[r] \in {"local", "draft", "assign", "save", "replace", "build", "front", "entry", "swap"}
    PROVE  Active(r)
BY DEF Active, Ended

\* A call that does no more than start its handler, or end it.
LEMMA BeginSound ==
    ASSUME SoundInv, NEW r \in Requests, NEW o \in Ops, Begin(r),
           NEW label \in {"local", "draft", "refused", "done"}, GotoFor(r, o, label),
           NEW ms, Good(ms), merged' = [merged EXCEPT ![r] = ms], UNCHANGED built
    PROVE  SoundInv'
<1>1. /\ UNCHANGED <<config, disk, local, backend, warning, draft, crashes>>
      /\ pc[r] = "new" /\ label \in PC /\ overlap' \in BOOLEAN
  <2>1. overlap' \in BOOLEAN
    BY BeforeStep DEF Begin
  <2> QED
    BY <2>1 DEF Begin, PC, Ended
<1>2. built' = [built EXCEPT ![r] = built[r]] /\ draft' = [draft EXCEPT ![r] = draft[r]]
  BY <1>1, BeforeStep
<1> QED
  BY <1>1, <1>2, BeforeStep, HandlerSound

\* A request is taken up.
LEMMA ReceiveSound ==
    ASSUME SoundInv, NEW r \in Requests, NEW o \in Ops, Receive(r, o)
    PROVE  SoundInv'
<1>0. Good(merged[r]) /\ merged = [merged EXCEPT ![r] = merged[r]]
  BY BeforeStep
<1>1. CASE CompleteOnboarding(r, o)
  BY <1>0, <1>1, BeginSound DEF CompleteOnboarding
<1>2. CASE AddProvider(r, o)
  <2>0. Begin(r) /\ UNCHANGED built /\ o.kind = "add_provider"
    BY <1>2 DEF AddProvider
  <2>1. CASE TrustedProviderEntry(o.entry, o.base_url) /\ ~Clashes(config.providers, o.entry)
    <3> DEFINE ms == MergeProvider(config.providers, o.entry)
    <3>1. o.entry \in Entries /\ Trusted(o.entry)
      <4>1. o.entry \in Entries
        BY <2>0, OpFacts
      <4> QED
        BY <2>1, <4>1 DEF Trusted, TrustedProviderEntry
    <3>2. Good(ms)
      BY <2>1, <3>1, BeforeStep, MergeFacts
    <3>3. merged' = [merged EXCEPT ![r] = ms] /\ GotoFor(r, o, "draft")
      BY <1>2, <2>1 DEF AddProvider
    <3> HIDE DEF ms
    <3> QED
      BY <2>0, <3>2, <3>3, BeginSound
  <2>2. CASE ~(TrustedProviderEntry(o.entry, o.base_url) /\ ~Clashes(config.providers, o.entry))
    <3>1. UNCHANGED merged /\ GotoFor(r, o, "refused")
      BY <1>2, <2>2 DEF AddProvider
    <3> QED
      BY <1>0, <2>0, <3>1, BeginSound
  <2> QED
    BY <2>1, <2>2
<1>3. CASE RemoveProvider(r, o)
  <2> DEFINE ms == WithoutKey(config.providers, o.key)
  <2>1. Good(ms)
    BY BeforeStep, GoodThose DEF WithoutKey
  <2>2. /\ merged' = [merged EXCEPT ![r] = ms] /\ GotoFor(r, o, "draft")
        /\ Begin(r) /\ UNCHANGED built
    BY <1>3 DEF RemoveProvider
  <2> HIDE DEF ms
  <2> QED
    BY <2>1, <2>2, BeginSound
<1>4. CASE AddDirectory(r, o)
  <2>1. Begin(r) /\ UNCHANGED <<merged, built>>
    BY <1>4 DEF AddDirectory
  <2>2. PICK label \in {"refused", "done", "draft"} : GotoFor(r, o, label)
    BY <1>4 DEF AddDirectory
  <2> QED
    BY <1>0, <2>1, <2>2, BeginSound
<1>5. CASE RemoveDirectory(r, o)
  <2>1. Begin(r) /\ UNCHANGED <<merged, built>>
    BY <1>5 DEF RemoveDirectory
  <2>2. PICK label \in {"done", "draft"} : GotoFor(r, o, label)
    BY <1>5 DEF RemoveDirectory
  <2> QED
    BY <1>0, <2>1, <2>2, BeginSound
<1>6. CASE StartLocalUse(r, o)
  <2>0. Begin(r) /\ UNCHANGED merged /\ o.kind = "start_local_use"
    BY <1>6 DEF StartLocalUse
  <2>1. CASE GotoFor(r, o, "refused") /\ UNCHANGED built
    BY <1>0, <2>0, <2>1, BeginSound
  <2>2. CASE /\ built' = [built EXCEPT ![r].local = FrontLocalModel(o.model, r)]
             /\ GotoFor(r, o, "local")
    <3> DEFINE b == [built[r] EXCEPT !.local = FrontLocalModel(o.model, r)]
    <3>1. built' = [built EXCEPT ![r] = b]
      BY <2>2
    <3>2. o.model \in Models
      BY <2>0, OpFacts
    <3>3. FrontLocalModel(o.model, r) \in Locals
      BY <3>2 DEF FrontLocalModel, Locals
    <3>4. b \in Backends /\ Good(b.remote)
      BY <3>3, BeforeStep DEF Backends
    <3> HIDE DEF b
    <3>5. /\ UNCHANGED <<config, disk, local, backend, warning, draft, crashes>>
          /\ overlap' \in BOOLEAN /\ "local" \in PC
      <4>1. overlap' \in BOOLEAN
        BY <2>0, BeforeStep DEF Begin
      <4> QED
        BY <2>0, <4>1 DEF Begin, PC
    <3>6. /\ merged' = [merged EXCEPT ![r] = merged[r]] /\ draft' = [draft EXCEPT ![r] = draft[r]]
          /\ Good(merged[r]) /\ draft[r] \in Configs /\ Good(draft[r].providers)
      BY <2>0, <3>5, BeforeStep
    <3>7. /\ config' \in Configs /\ Good(config'.providers) /\ disk' \in Configs
          /\ Good(disk'.providers) /\ backend' \in Backends /\ Good(backend'.remote)
          /\ local' \in Locals
      BY <3>5, BeforeStep
    <3> QED
      BY <2>2, <3>1, <3>4, <3>5, <3>6, <3>7, HandlerSound
  <2> QED
    BY <1>6, <2>1, <2>2 DEF StartLocalUse
<1>7. CASE StopLocalUse(r, o)
  BY <1>0, <1>7, BeginSound DEF StopLocalUse
<1> QED
  BY <1>1, <1>2, <1>3, <1>4, <1>5, <1>6, <1>7 DEF Receive

\* A handler goes on.
LEMMA StepSound ==
    ASSUME SoundInv, NEW r \in Requests, Step(r)
    PROVE  SoundInv'
<1>0. Active(r) /\ op[r] \in Ops /\ overlap' = overlap /\ overlap \in BOOLEAN
  <2>1. /\ pc[r] \in {"local", "draft", "assign", "save", "replace", "build", "front", "entry", "swap"}
        /\ overlap' = overlap
    BY DEF Step, SetLocal, Draft, Assign, Save, Replace, SaveRaises, Build, FrontsLocal, AddLocal,
           RebuildRaises, Swap
  <2> QED
    BY <2>1, ActiveFacts, BeforeStep
<1> DEFINE o == op[r]
<1>a. /\ config \in Configs /\ disk \in Configs /\ local \in Locals /\ backend \in Backends
      /\ Good(config.providers) /\ Good(disk.providers) /\ Good(backend.remote)
      /\ Good(merged[r]) /\ draft[r] \in Configs /\ Good(draft[r].providers)
      /\ built[r] \in Backends /\ Good(built[r].remote)
      /\ merged = [merged EXCEPT ![r] = merged[r]]
      /\ draft = [draft EXCEPT ![r] = draft[r]]
      /\ built = [built EXCEPT ![r] = built[r]]
  BY BeforeStep
<1>b. pc[r] \notin {"local", "swap"} => built[r].local = NoLocal
  BY BeforeStep
<1>c. /\ {"draft", "assign", "save", "replace", "build", "front", "entry", "swap", "failed", "done"}
             \subseteq PC
      /\ DefaultConfig \in Configs /\ Good(DefaultConfig.providers) /\ Good(<<>>)
      /\ NoBackend \in Backends /\ Good(NoBackend.remote) /\ NoBackend.local = NoLocal
  BY DefaultFacts, NothingPinned DEF PC, Ended
<1>1. CASE SetLocal(r)
  <2>1. /\ local' = built[r].local /\ built' = [built EXCEPT ![r] = NoBackend]
        /\ GotoFor(r, o, "draft")
        /\ UNCHANGED <<config, disk, backend, warning, merged, draft, crashes>>
    BY <1>1 DEF SetLocal, Goto
  <2>2. built[r].local \in Locals
    BY <1>a DEF Backends
  <2> HIDE DEF o
  <2> QED
    BY <1>0, <1>a, <1>c, <2>1, <2>2, HandlerSound DEF o
<1>2. CASE Draft(r)
  <2>1. /\ draft' = [draft EXCEPT ![r] = DraftOf(r)] /\ merged' = [merged EXCEPT ![r] = <<>>]
        /\ GotoFor(r, o, "assign") /\ pc[r] = "draft"
        /\ UNCHANGED <<config, disk, local, backend, warning, built, crashes>>
    BY <1>2 DEF Draft, Goto
  <2>2. DraftOf(r) \in Configs /\ Good(DraftOf(r).providers)
    BY <1>0, <1>a, ReplacedFacts DEF DraftOf
  <2> HIDE DEF o
  <2> QED
    BY <1>0, <1>a, <1>b, <1>c, <2>1, <2>2, HandlerSound DEF o
<1>3. CASE Assign(r)
  <2>1. /\ config' = draft[r] /\ GotoFor(r, o, "save") /\ pc[r] = "assign"
        /\ UNCHANGED <<disk, local, backend, warning, merged, draft, built, crashes>>
    BY <1>3 DEF Assign, Goto
  <2> HIDE DEF o
  <2> QED
    BY <1>0, <1>a, <1>b, <1>c, <2>1, HandlerSound DEF o
<1>4. CASE Save(r)
  <2>1. /\ draft' = [draft EXCEPT ![r] = config] /\ GotoFor(r, o, "replace") /\ pc[r] = "save"
        /\ UNCHANGED <<config, disk, local, backend, warning, merged, built, crashes>>
    BY <1>4 DEF Save, Goto
  <2> HIDE DEF o
  <2> QED
    BY <1>0, <1>a, <1>b, <1>c, <2>1, HandlerSound DEF o
<1>5. CASE Replace(r) \/ SaveRaises(r)
  <2>1. /\ draft' = [draft EXCEPT ![r] = DefaultConfig] /\ pc[r] = "replace"
        /\ disk' \in {draft[r], disk}
        /\ UNCHANGED <<config, local, backend, warning, merged, built, crashes>>
    BY <1>5 DEF Replace, SaveRaises
  <2>2. PICK label \in {"build", "failed"} : GotoFor(r, o, label)
    BY <1>5 DEF Replace, SaveRaises, Goto
  <2>3. disk' \in Configs /\ Good(disk'.providers)
    BY <1>a, <2>1
  <2> HIDE DEF o
  <2> QED
    BY <1>0, <1>a, <1>b, <1>c, <2>1, <2>2, <2>3, HandlerSound DEF o
<1>6. CASE Build(r)
  <2>1. PICK reachable \in SUBSET Range(config.directories) :
            built' = [built EXCEPT ![r].remote = BuildRegistry(config, reachable)]
    BY <1>6 DEF Build
  <2> DEFINE entries == BuildRegistry(config, reachable)
             b == [built[r] EXCEPT !.remote = entries]
  <2>2. Good(entries)
    BY <1>a, BuildFacts
  <2>3. built' = [built EXCEPT ![r] = b]
    BY <2>1
  <2> HIDE DEF entries
  <2>4. entries \in Seq(Entries)
    BY <2>2 DEF Good
  <2>5. /\ GotoFor(r, o, "front") /\ pc[r] = "build"
        /\ UNCHANGED <<config, disk, local, backend, warning, merged, draft, crashes>>
    BY <1>6 DEF Build, Goto
  <2>6. b \in Backends /\ Good(b.remote) /\ b.local = NoLocal
    BY <1>a, <1>b, <2>2, <2>4, <2>5 DEF Backends
  <2> HIDE DEF o, b
  <2> QED
    BY <1>0, <1>a, <1>c, <2>3, <2>5, <2>6, HandlerSound DEF o
<1>7. CASE FrontsLocal(r)
  <2>1. /\ pc[r] = "front"
        /\ UNCHANGED <<config, disk, local, backend, warning, merged, draft, built, crashes>>
    BY <1>7 DEF FrontsLocal
  <2>2. PICK label \in {"swap", "entry"} : GotoFor(r, o, label)
    BY <1>7 DEF FrontsLocal, Goto
  <2> HIDE DEF o
  <2> QED
    BY <1>0, <1>a, <1>b, <1>c, <2>1, <2>2, HandlerSound DEF o
<1>8. CASE AddLocal(r)
  <2> DEFINE b == [built[r] EXCEPT !.local = local]
  <2>1. /\ built' = [built EXCEPT ![r] = b] /\ GotoFor(r, o, "swap")
        /\ UNCHANGED <<config, disk, local, backend, warning, merged, draft, crashes>>
    BY <1>8 DEF AddLocal, Goto
  <2>2. b \in Backends /\ Good(b.remote)
    BY <1>a DEF Backends
  <2> HIDE DEF o, b
  <2> QED
    BY <1>0, <1>a, <1>c, <2>1, <2>2, HandlerSound DEF o
<1>9. CASE RebuildRaises(r)
  <2>1. /\ built' = [built EXCEPT ![r] = NoBackend] /\ GotoFor(r, o, "failed")
        /\ UNCHANGED <<config, disk, local, backend, warning, merged, draft, crashes>>
    BY <1>9 DEF RebuildRaises, Goto
  <2> HIDE DEF o
  <2> QED
    BY <1>0, <1>a, <1>c, <2>1, HandlerSound DEF o
<1>10. CASE Swap(r)
  <2>1. /\ backend' = built[r] /\ built' = [built EXCEPT ![r] = NoBackend]
        /\ GotoFor(r, o, "done")
        /\ UNCHANGED <<config, disk, local, warning, merged, draft, crashes>>
    BY <1>10 DEF Swap, Goto
  <2> HIDE DEF o
  <2> QED
    BY <1>0, <1>a, <1>c, <2>1, HandlerSound DEF o
<1> QED
  BY <1>1, <1>2, <1>3, <1>4, <1>5, <1>6, <1>7, <1>8, <1>9, <1>10 DEF Step

\* The server dies and is started again.
LEMMA CrashSound == SoundInv /\ Crash => SoundInv'
<1> SUFFICES ASSUME SoundInv, Crash PROVE SoundInv'
  OBVIOUS
<1>0. TypeOK /\ PinnedAreGood
  BY DEF SoundInv
<1>1. disk \in Configs /\ Good(disk.providers) /\ config' = disk /\ disk' = disk
  BY <1>0 DEF TypeOK, PinnedAreGood, Crash
<1>2. PICK s \in Booted(disk) : local' = s.live /\ warning' = s.warning /\ backend' = s.backend
  BY DEF Crash
<1>3. /\ local' \in Locals /\ warning' \in Models \cup {None} /\ backend' \in Backends
      /\ Good(backend'.remote)
  BY <1>1, <1>2, BootedFacts
<1>4. /\ op' = [r \in Requests |-> NoOp] /\ merged' = [r \in Requests |-> <<>>]
      /\ draft' = [r \in Requests |-> DefaultConfig]
      /\ built' = [r \in Requests |-> NoBackend]
      /\ <<>> \in Seq(Entries)
  BY EmptySeq DEF Crash
<1>5. pc' \in [Requests -> PC] /\ \A r \in Requests : ~Active(r)'
  <2>1. \A r \in Requests : pc'[r] = IF Active(r) THEN "dead" ELSE pc[r]
    BY DEF Crash
  <2>2. "dead" \in PC /\ "dead" \in Ended
    BY DEF PC, Ended
  <2>3. pc' = [r \in Requests |-> IF Active(r) THEN "dead" ELSE pc[r]]
    BY DEF Crash
  <2>4. pc' \in [Requests -> PC]
    BY <1>0, <2>2, <2>3 DEF TypeOK
  <2> QED
    BY <2>1, <2>2, <2>4 DEF Active
<1>6. crashes' \in 0..MaxCrashes /\ overlap' \in BOOLEAN
  <2>1. MaxCrashes \in Nat
    BY ServerAssumption
  <2>2. crashes' \in 0..MaxCrashes
    BY <1>0, <2>1 DEF TypeOK, Crash
  <2>3. overlap' \in BOOLEAN
    BY <1>0 DEF TypeOK, Crash
  <2> QED
    BY <2>2, <2>3
<1>7. TypeOK'
  BY <1>1, <1>3, <1>4, <1>5, <1>6, DefaultFacts DEF TypeOK
<1>8. PinnedAreGood'
  BY <1>1, <1>3, <1>4, DefaultFacts, NothingPinned DEF PinnedAreGood
<1>9. Asked' /\ NothingFronted'
  BY <1>4, <1>5, DefaultFacts DEF Asked, NothingFronted
<1> QED
  BY <1>7, <1>8, <1>9 DEF SoundInv

\* Every step keeps what is pinned trusted and uncontested.
LEMMA NextSound == SoundInv /\ [Next]_vars => SoundInv'
<1> SUFFICES ASSUME SoundInv, [Next]_vars PROVE SoundInv'
  OBVIOUS
<1>1. CASE UNCHANGED vars
  BY <1>1 DEF vars, SoundInv, TypeOK, PinnedAreGood, Asked, NothingFronted, Active
<1>2. \A o \in Calls : o \in Ops
  BY ServerAssumption
<1>3. CASE Next
  BY <1>2, <1>3, ReceiveSound, StepSound, CrashSound DEF Next
<1> QED
  BY <1>1, <1>3

-----------------------------------------------------------------------------
(***************************************************************************)
(* Handlers that do not overlap.                                           *)
(***************************************************************************)
\* What SettleInv says of an orderly state.
Settled ==
    /\ \A q, r \in Requests : Active(q) /\ Active(r) => q = r
    /\ \A r \in Requests : Stage(r)
    /\ AtRest => Agreed

\* A handler that is not under way has done nothing.
LEMMA NotUnderWay ==
    ASSUME NEW r \in Requests, ~Active(r)
    PROVE  Stage(r)
BY DEF Active, Ended, Stage

\* At the start the file has been loaded and its model restored.
LEMMA InitSettled == Init => SettleInv
<1> SUFFICES ASSUME Init PROVE SettleInv
  OBVIOUS
<1>1. disk \in Configs /\ Good(disk.providers) /\ config = disk
  BY FileFacts DEF Init
<1>2. PICK s \in Booted(disk) : local = s.live /\ warning = s.warning /\ backend = s.backend
  BY DEF Init
<1>3. Agreed
  BY <1>1, <1>2, BootedFacts DEF Agreed, LocalFits
<1>4. \A r \in Requests : ~Active(r)
  BY DEF Init, Active
<1> QED
  BY <1>3, <1>4, NotUnderWay DEF SettleInv

\* An orderly state was reached through orderly states: what has overlapped or
\* failed has done so for good.
LEMMA OrderlyBefore ==
    ASSUME SoundInv, Next, Orderly'
    PROVE  Orderly
<1>0. pc \in [Requests -> PC] /\ overlap \in BOOLEAN
  BY DEF SoundInv, TypeOK
<1>1. overlap => overlap'
  BY DEF Next, Receive, CompleteOnboarding, AddProvider, RemoveProvider, AddDirectory,
         RemoveDirectory, StartLocalUse, StopLocalUse, Begin, Step, SetLocal, Draft, Assign, Save,
         Replace, SaveRaises, Build, FrontsLocal, AddLocal, RebuildRaises, Swap, Crash
<1>2. ASSUME NEW q \in Requests, pc[q] = "failed" PROVE pc'[q] = "failed"
  <2>1. ASSUME NEW r \in Requests, NEW label, pc[r] # "failed", pc' = [pc EXCEPT ![r] = label]
        PROVE  pc'[q] = "failed"
    BY <1>0, <1>2, <2>1
  <2>2. ASSUME NEW r \in Requests, NEW o \in Calls, Receive(r, o) PROVE pc'[q] = "failed"
    <3>1. pc[r] = "new" /\ \E label : pc' = [pc EXCEPT ![r] = label]
      BY <2>2, Zenon
         DEF Receive, CompleteOnboarding, AddProvider, RemoveProvider, AddDirectory,
             RemoveDirectory, StartLocalUse, StopLocalUse, Begin, GotoFor
    <3> QED
      BY <2>1, <3>1
  <2>3. ASSUME NEW r \in Requests, Step(r) PROVE pc'[q] = "failed"
    <3>1. pc[r] # "failed"
      BY <2>3 DEF Step, SetLocal, Draft, Assign, Save, Replace, SaveRaises, Build, FrontsLocal,
                  AddLocal, RebuildRaises, Swap
    <3>2. \E label : pc' = [pc EXCEPT ![r] = label]
      BY <2>3, Zenon
         DEF Step, SetLocal, Draft, Assign, Save, Replace, SaveRaises, Build, FrontsLocal,
             AddLocal, RebuildRaises, Swap, Goto, GotoFor
    <3> QED
      BY <2>1, <3>1, <3>2
  <2>4. CASE Crash
    BY <1>2, <2>4 DEF Crash, Active, Ended
  <2> QED
    BY <2>2, <2>3, <2>4 DEF Next
<1> QED
  BY <1>0, <1>1, <1>2 DEF Orderly, Unsaved

\* The one handler under way goes on, or ends and leaves everything in agreement.
LEMMA OneGoesOn ==
    ASSUME SoundInv, NEW r \in Requests, \A q \in Requests : Active(q) => q = r,
           NEW label, pc' = [pc EXCEPT ![r] = label],
           label \notin Ended \cup {"new"} => Stage(r)',
           label \in Ended => Agreed'
    PROVE  label # "new" => Settled'
<1> SUFFICES ASSUME label # "new" PROVE Settled'
  OBVIOUS
<1>0. pc \in [Requests -> PC]
  BY DEF SoundInv, TypeOK
<1>1. /\ pc'[r] = label
      /\ \A q \in Requests : q # r => pc'[q] = pc[q]
  BY <1>0
<1>2. \A q \in Requests : q # r => ~Active(q)'
  BY <1>1 DEF Active
<1>3. Active(r)' <=> label \notin Ended
  BY <1>1 DEF Active
<1>4. \A q \in Requests : ~Active(q)' => Stage(q)'
  BY DEF Active, Ended, Stage
<1>5. \A q \in Requests : Stage(q)'
  BY <1>2, <1>3, <1>4
<1>6. AtRest' => Agreed'
  BY <1>3 DEF AtRest
<1> QED
  BY <1>2, <1>5, <1>6 DEF Settled

\* What replace is about to make of the configuration is what was asked.
LEMMA ReplacedIsEffect ==
    ASSUME NEW o \in Ops, NEW cfg, NEW ms,
           o.kind = "add_provider" => ms = MergeProvider(cfg.providers, o.entry),
           o.kind = "remove_provider" => ms = WithoutKey(cfg.providers, o.key),
           o.kind = "add_directory" => ~Contains(cfg.directories, o.spec)
    PROVE  Replaced(o, ms, cfg) = Effect(o, cfg)
<1>1. CASE o.kind \in {"add_provider", "remove_provider", "add_directory"}
  BY <1>1 DEF Effect, Replaced
<1>2. CASE o.kind \notin {"add_provider", "remove_provider", "add_directory"}
  <2>1. Effect(o, cfg) = Replaced(o, <<>>, cfg)
    BY <1>2 DEF Effect
  <2>2. o.kind \in {"complete_onboarding", "remove_directory", "start_local_use", "stop_local_use"}
    BY <1>2, OpFacts
  <2> QED
    BY <2>1, <2>2 DEF Replaced
<1> QED
  BY <1>1, <1>2

\* A handler is started, with nothing else under way.
LEMMA TakenUp ==
    ASSUME SoundInv, Agreed, \A q \in Requests : ~Active(q),
           NEW r \in Requests, NEW o \in Ops, o.kind \notin {"start_local_use", "stop_local_use"},
           Begin(r), GotoFor(r, o, "draft"),
           NEW ms, Good(ms), merged' = [merged EXCEPT ![r] = ms],
           o.kind = "add_provider" => ms = MergeProvider(config.providers, o.entry),
           o.kind = "remove_provider" => ms = WithoutKey(config.providers, o.key),
           o.kind = "add_directory" => ~Contains(config.directories, o.spec)
    PROVE  Settled'
<1>0. op \in [Requests -> Ops \cup {NoOp}] /\ merged \in [Requests -> Seq(Entries)]
      /\ pc \in [Requests -> PC] /\ config \in Configs /\ Good(config.providers)
  BY DEF SoundInv, TypeOK, PinnedAreGood
<1>1. /\ pc' = [pc EXCEPT ![r] = "draft"] /\ pc'[r] = "draft" /\ op'[r] = o /\ merged'[r] = ms
      /\ UNCHANGED <<config, disk, local, warning>>
  BY <1>0 DEF GotoFor, Begin, Ended
<1>2. config = disk /\ LocalFits(config)
  BY DEF Agreed
<1>3. Replaced(o, ms, config) = Effect(o, config)
  BY ReplacedIsEffect
<1>4. DraftOf(r)' = Effect(o, disk) /\ Result(r)' = Effect(o, disk)
  BY <1>1, <1>2, <1>3 DEF DraftOf, Result
<1>5. Effect(o, config).local_use = config.local_use
  BY <1>0, <1>3, ReplacedFacts
<1>6. LocalFits(Result(r))'
  BY <1>1, <1>2, <1>4, <1>5 DEF LocalFits
<1>7. Stage(r)'
  BY <1>1, <1>2, <1>4, <1>6 DEF Stage
<1> QED
  BY <1>1, <1>7, OneGoesOn DEF Ended

\* A call is refused, or does nothing.
LEMMA TurnedAway ==
    ASSUME SoundInv, Agreed, \A q \in Requests : ~Active(q),
           NEW r \in Requests, NEW o, Begin(r),
           NEW label \in {"refused", "done"}, GotoFor(r, o, label)
    PROVE  Settled'
<1>1. pc' = [pc EXCEPT ![r] = label] /\ UNCHANGED <<config, disk, local, backend, warning>>
  BY DEF GotoFor, Begin
<1>2. Agreed'
  BY <1>1 DEF Agreed, LocalFits
<1> QED
  BY <1>1, <1>2, OneGoesOn DEF Ended

\* A local model is about to be published, or taken back.
LEMMA LocalTakenUp ==
    ASSUME SoundInv, Agreed, \A q \in Requests : ~Active(q),
           NEW r \in Requests, NEW o, Begin(r), GotoFor(r, o, "local"),
           \/ o.kind = "start_local_use" /\ built'[r].local.model = o.model
           \/ o.kind = "stop_local_use" /\ built'[r].local = NoLocal
    PROVE  Settled'
<1>0. op \in [Requests -> Ops \cup {NoOp}] /\ pc \in [Requests -> PC]
  BY DEF SoundInv, TypeOK
<1>1. /\ pc' = [pc EXCEPT ![r] = "local"] /\ pc'[r] = "local" /\ op'[r] = o
      /\ UNCHANGED <<config, disk>>
  BY <1>0 DEF GotoFor, Begin, Ended
<1>2. Stage(r)'
  BY <1>1 DEF Stage, Agreed
<1> QED
  BY <1>1, <1>2, OneGoesOn DEF Ended

\* A request is taken up.
LEMMA ReceiveSettled ==
    ASSUME SoundInv, Agreed, \A q \in Requests : ~Active(q),
           NEW r \in Requests, NEW o \in Ops, Receive(r, o)
    PROVE  Settled'
<1>0. /\ Good(merged[r]) /\ merged = [merged EXCEPT ![r] = merged[r]]
      /\ Good(config.providers) /\ built[r] \in Backends
  BY BeforeStep
<1>1. CASE CompleteOnboarding(r, o)
  BY <1>0, <1>1, TakenUp DEF CompleteOnboarding
<1>2. CASE AddProvider(r, o)
  <2>0. Begin(r) /\ o.kind = "add_provider"
    BY <1>2 DEF AddProvider
  <2>1. CASE TrustedProviderEntry(o.entry, o.base_url) /\ ~Clashes(config.providers, o.entry)
    <3> DEFINE ms == MergeProvider(config.providers, o.entry)
    <3>1. o.entry \in Entries /\ Trusted(o.entry)
      <4>1. o.entry \in Entries
        BY <2>0, OpFacts
      <4> QED
        BY <2>1, <4>1 DEF Trusted, TrustedProviderEntry
    <3>2. Good(ms)
      BY <1>0, <2>1, <3>1, MergeFacts
    <3>3. merged' = [merged EXCEPT ![r] = ms] /\ GotoFor(r, o, "draft")
      BY <1>2, <2>1 DEF AddProvider
    <3> QED
      BY <2>0, <3>2, <3>3, TakenUp
  <2>2. CASE ~(TrustedProviderEntry(o.entry, o.base_url) /\ ~Clashes(config.providers, o.entry))
    BY <1>2, <2>0, <2>2, TurnedAway DEF AddProvider
  <2> QED
    BY <2>1, <2>2
<1>3. CASE RemoveProvider(r, o)
  <2> DEFINE ms == WithoutKey(config.providers, o.key)
  <2>1. Good(ms)
    BY <1>0, GoodThose DEF WithoutKey
  <2>2. /\ merged' = [merged EXCEPT ![r] = ms] /\ GotoFor(r, o, "draft") /\ Begin(r)
        /\ o.kind = "remove_provider"
    BY <1>3 DEF RemoveProvider
  <2> QED
    BY <2>1, <2>2, TakenUp
<1>4. CASE AddDirectory(r, o)
  <2>1. Begin(r) /\ UNCHANGED merged /\ o.kind = "add_directory"
    BY <1>4 DEF AddDirectory
  <2>2. \/ GotoFor(r, o, "refused") \/ GotoFor(r, o, "done")
        \/ GotoFor(r, o, "draft") /\ ~Contains(config.directories, o.spec)
    BY <1>4 DEF AddDirectory
  <2>3. CASE GotoFor(r, o, "draft") /\ ~Contains(config.directories, o.spec)
    BY <1>0, <2>1, <2>3, TakenUp
  <2> QED
    BY <2>1, <2>2, <2>3, TurnedAway
<1>5. CASE RemoveDirectory(r, o)
  <2>1. Begin(r) /\ UNCHANGED merged /\ o.kind = "remove_directory"
    BY <1>5 DEF RemoveDirectory
  <2>2. GotoFor(r, o, "done") \/ GotoFor(r, o, "draft")
    BY <1>5 DEF RemoveDirectory
  <2> QED
    BY <1>0, <2>1, <2>2, TakenUp, TurnedAway
<1>6. CASE StartLocalUse(r, o)
  <2>1. Begin(r) /\ o.kind = "start_local_use"
    BY <1>6 DEF StartLocalUse
  <2>2. CASE GotoFor(r, o, "refused")
    BY <2>1, <2>2, TurnedAway
  <2>3. CASE /\ built' = [built EXCEPT ![r].local = FrontLocalModel(o.model, r)]
             /\ GotoFor(r, o, "local")
    <3>1. built'[r].local.model = o.model
      BY <1>0, <2>3 DEF SoundInv, TypeOK, FrontLocalModel, Backends
    <3> QED
      BY <2>1, <2>3, <3>1, LocalTakenUp
  <2> QED
    BY <1>6, <2>2, <2>3 DEF StartLocalUse
<1>7. CASE StopLocalUse(r, o)
  <2>1. Begin(r) /\ o.kind = "stop_local_use" /\ GotoFor(r, o, "local") /\ UNCHANGED built
    BY <1>7 DEF StopLocalUse
  <2>2. built[r].local = NoLocal
    BY <2>1, BeforeStep DEF Begin
  <2> QED
    BY <2>1, <2>2, LocalTakenUp
<1> QED
  BY <1>1, <1>2, <1>3, <1>4, <1>5, <1>6, <1>7 DEF Receive

\* The one handler under way takes a step, and neither its save nor its rebuild
\* raises.
LEMMA StepSettled ==
    ASSUME SoundInv, NEW r \in Requests, \A q \in Requests : Active(q) => q = r,
           Stage(r), Step(r), ~Unsaved'
    PROVE  Settled'
<1>0. /\ pc \in [Requests -> PC] /\ op \in [Requests -> Ops \cup {NoOp}]
      /\ draft \in [Requests -> Configs] /\ built \in [Requests -> Backends]
      /\ merged \in [Requests -> Seq(Entries)]
      /\ config \in Configs /\ disk \in Configs /\ Good(config.providers)
  BY DEF SoundInv, TypeOK, PinnedAreGood
<1>a. ASSUME NEW label, label \notin Ended, Goto(r, label)
      PROVE  pc' = [pc EXCEPT ![r] = label] /\ pc'[r] = label /\ op'[r] = op[r]
  BY <1>0, <1>a DEF Goto, GotoFor
<1>b. {"draft", "assign", "save", "replace", "build", "front", "entry", "swap"} \cap Ended = {}
  BY DEF Ended
<1>c. ASSUME NEW label \in {"draft", "assign", "save", "replace", "build", "front", "entry", "swap"},
             pc' = [pc EXCEPT ![r] = label], Stage(r)'
      PROVE  Settled'
  BY <1>b, <1>c, OneGoesOn
<1>d. op'[r] = op[r] /\ disk' = disk => Result(r)' = Result(r)
  BY DEF Result
<1>1. CASE SetLocal(r)
  <2>1. /\ pc[r] = "local" /\ local' = built[r].local /\ Goto(r, "draft")
        /\ UNCHANGED <<config, disk, merged>>
    BY <1>1 DEF SetLocal
  <2>2. pc' = [pc EXCEPT ![r] = "draft"] /\ pc'[r] = "draft" /\ op'[r] = op[r]
    BY <1>a, <1>b, <2>1
  <2>3. op[r] \in Ops /\ Good(merged[r])
    BY <2>1, ActiveFacts, BeforeStep
  <2>4. /\ config = disk
        /\ \/ op[r].kind = "start_local_use" /\ built[r].local.model = op[r].model
           \/ op[r].kind = "stop_local_use" /\ built[r].local = NoLocal
    BY <2>1 DEF Stage
  <2>5. Replaced(op[r], merged[r], config) = Effect(op[r], config)
    BY <2>3, <2>4, ReplacedIsEffect
  <2>6. DraftOf(r)' = Result(r)' /\ Result(r)' = Effect(op[r], config)
    BY <2>1, <2>2, <2>4, <2>5 DEF DraftOf, Result
  <2>7. local'.model = Effect(op[r], config).local_use
    <3>1. NoLocal.model = None
      BY DEF NoLocal
    <3> QED
      BY <1>0, <2>1, <2>3, <2>4, <2>5, <3>1, ReplacedFacts
  <2>8. LocalFits(Result(r))'
    BY <2>6, <2>7 DEF LocalFits
  <2>9. Stage(r)'
    BY <2>1, <2>2, <2>4, <2>6, <2>8 DEF Stage
  <2> QED
    BY <1>c, <2>2, <2>9
<1>2. CASE Draft(r)
  <2>1. /\ pc[r] = "draft" /\ draft' = [draft EXCEPT ![r] = DraftOf(r)] /\ Goto(r, "assign")
        /\ UNCHANGED <<config, disk, local, warning>>
    BY <1>2 DEF Draft
  <2>2. pc' = [pc EXCEPT ![r] = "assign"] /\ pc'[r] = "assign" /\ op'[r] = op[r]
    BY <1>a, <1>b, <2>1
  <2>3. draft'[r] = Result(r) /\ config = disk /\ LocalFits(Result(r))
    BY <1>0, <2>1 DEF Stage
  <2>4. Result(r)' = Result(r) /\ LocalFits(Result(r))'
    BY <1>d, <2>1, <2>2, <2>3 DEF LocalFits
  <2>5. Stage(r)'
    BY <2>1, <2>2, <2>3, <2>4 DEF Stage
  <2> QED
    BY <1>c, <2>2, <2>5
<1>3. CASE Assign(r)
  <2>1. /\ pc[r] = "assign" /\ config' = draft[r] /\ Goto(r, "save")
        /\ UNCHANGED <<disk, local, warning>>
    BY <1>3 DEF Assign
  <2>2. pc' = [pc EXCEPT ![r] = "save"] /\ pc'[r] = "save" /\ op'[r] = op[r]
    BY <1>a, <1>b, <2>1
  <2>3. config' = Result(r) /\ LocalFits(Result(r))
    BY <2>1 DEF Stage
  <2>4. Result(r)' = Result(r) /\ LocalFits(config)'
    BY <1>d, <2>1, <2>2, <2>3 DEF LocalFits
  <2>5. Stage(r)'
    BY <2>2, <2>3, <2>4 DEF Stage
  <2> QED
    BY <1>c, <2>2, <2>5
<1>4. CASE Save(r)
  <2>1. /\ pc[r] = "save" /\ draft' = [draft EXCEPT ![r] = config] /\ Goto(r, "replace")
        /\ UNCHANGED <<config, disk, local, warning>>
    BY <1>4 DEF Save
  <2>2. pc' = [pc EXCEPT ![r] = "replace"] /\ pc'[r] = "replace" /\ op'[r] = op[r]
    BY <1>a, <1>b, <2>1
  <2>3. draft'[r] = config /\ config = Result(r) /\ LocalFits(config)
    BY <1>0, <2>1 DEF Stage
  <2>4. Result(r)' = Result(r) /\ LocalFits(config)'
    BY <1>d, <2>1, <2>2, <2>3 DEF LocalFits
  <2>5. Stage(r)'
    BY <2>1, <2>2, <2>3, <2>4 DEF Stage
  <2> QED
    BY <1>c, <2>2, <2>5
<1>5. CASE Replace(r)
  <2>1. /\ pc[r] = "replace" /\ disk' = draft[r] /\ Goto(r, "build")
        /\ UNCHANGED <<config, local, warning>>
    BY <1>5 DEF Replace
  <2>2. pc' = [pc EXCEPT ![r] = "build"] /\ pc'[r] = "build"
    BY <1>a, <1>b, <2>1
  <2>3. config' = disk' /\ LocalFits(config)'
    BY <2>1 DEF Stage, LocalFits
  <2>4. Stage(r)'
    BY <2>2, <2>3 DEF Stage
  <2> QED
    BY <1>c, <2>2, <2>4
<1>6. CASE SaveRaises(r) \/ RebuildRaises(r)
  <2>1. pc'[r] = "failed"
    BY <1>0, <1>6 DEF SaveRaises, RebuildRaises, Goto, GotoFor
  <2> QED
    BY <2>1 DEF Unsaved
<1>7. CASE Build(r)
  <2>1. PICK reachable \in SUBSET Range(config.directories) :
            built' = [built EXCEPT ![r].remote = BuildRegistry(config, reachable)]
    BY <1>7 DEF Build
  <2>2. pc[r] = "build" /\ Goto(r, "front") /\ UNCHANGED <<config, disk, local, warning>>
    BY <1>7 DEF Build
  <2>3. pc' = [pc EXCEPT ![r] = "front"] /\ pc'[r] = "front"
    BY <1>a, <1>b, <2>2
  <2>4. Covers(BuildRegistry(config, reachable), config)
    BY <1>0, BuildFacts
  <2>5. built'[r].remote = BuildRegistry(config, reachable)
    BY <1>0, <2>1 DEF Backends
  <2>6. Covers(built[r].remote, config)'
    BY <2>2, <2>4, <2>5 DEF Covers, Listed
  <2>7. config' = disk' /\ LocalFits(config)'
    BY <2>2 DEF Stage, LocalFits
  <2>8. Stage(r)'
    BY <2>3, <2>6, <2>7 DEF Stage
  <2> QED
    BY <1>c, <2>3, <2>8
<1>8. CASE FrontsLocal(r)
  <2>1. pc[r] = "front" /\ UNCHANGED <<config, disk, local, warning, built>>
    BY <1>8 DEF FrontsLocal
  <2>2. PICK label \in {"swap", "entry"} : Goto(r, label) /\ (label = "swap" => local = NoLocal)
    BY <1>8 DEF FrontsLocal
  <2>3. pc' = [pc EXCEPT ![r] = label] /\ pc'[r] = label
    BY <1>a, <1>b, <2>2
  <2>4. /\ config' = disk' /\ LocalFits(config)' /\ Covers(built[r].remote, config)'
        /\ built[r].local = NoLocal
    BY <2>1, BeforeStep DEF Stage, LocalFits, Covers, Listed
  <2>5. Stage(r)'
    BY <2>1, <2>2, <2>3, <2>4 DEF Stage
  <2> QED
    BY <1>c, <2>3, <2>5
<1>9. CASE AddLocal(r)
  <2>1. /\ pc[r] = "entry" /\ built' = [built EXCEPT ![r].local = local] /\ Goto(r, "swap")
        /\ UNCHANGED <<config, disk, local, warning>>
    BY <1>9 DEF AddLocal
  <2>2. pc' = [pc EXCEPT ![r] = "swap"] /\ pc'[r] = "swap"
    BY <1>a, <1>b, <2>1
  <2>3. built'[r].remote = built[r].remote /\ built'[r].local = local
    BY <1>0, <2>1 DEF Backends
  <2>4. config' = disk' /\ LocalFits(config)' /\ Covers(built[r].remote, config)'
    BY <2>1, <2>3 DEF Stage, LocalFits, Covers, Listed
  <2>5. Stage(r)'
    BY <2>1, <2>2, <2>3, <2>4 DEF Stage
  <2> QED
    BY <1>c, <2>2, <2>5
<1>10. CASE Swap(r)
  <2>1. /\ pc[r] = "swap" /\ backend' = built[r] /\ pc' = [pc EXCEPT ![r] = "done"]
        /\ UNCHANGED <<config, disk, local, warning>>
    BY <1>10 DEF Swap, Goto, GotoFor
  <2>2. Agreed'
    BY <2>1 DEF Stage, Agreed, LocalFits, Covers, Listed
  <2>3. "done" \in Ended /\ "done" # "new"
    BY DEF Ended
  <2> QED
    BY <2>1, <2>2, <2>3, OneGoesOn
<1> QED
  BY <1>1, <1>2, <1>3, <1>4, <1>5, <1>6, <1>7, <1>8, <1>9, <1>10 DEF Step

\* The server dies and is started again: the file is loaded and its model restored.
LEMMA CrashSettled == SoundInv /\ Crash => Settled'
<1> SUFFICES ASSUME SoundInv, Crash PROVE Settled'
  OBVIOUS
<1>1. disk \in Configs /\ Good(disk.providers) /\ config' = disk /\ disk' = disk
  BY DEF SoundInv, TypeOK, PinnedAreGood, Crash
<1>2. PICK s \in Booted(disk) : local' = s.live /\ warning' = s.warning /\ backend' = s.backend
  BY DEF Crash
<1>3. Agreed'
  BY <1>1, <1>2, BootedFacts DEF Agreed, LocalFits, Covers, Listed
<1>4. \A r \in Requests : ~Active(r)'
  BY DEF Crash, Active, Ended
<1>5. \A r \in Requests : ~Active(r)' => Stage(r)'
  BY DEF Active, Ended, Stage
<1> QED
  BY <1>3, <1>4, <1>5 DEF Settled

\* Every step of an orderly run keeps the stage of the one handler, or the agreement.
LEMMA NextSettled == SoundInv /\ SettleInv /\ [Next]_vars => SettleInv'
<1> SUFFICES ASSUME SoundInv, SettleInv, [Next]_vars PROVE SettleInv'
  OBVIOUS
<1>1. CASE UNCHANGED vars
  BY <1>1 DEF vars, SettleInv, Orderly, Unsaved, Active, AtRest, Stage, Agreed, LocalFits, Covers, Listed,
              Result, DraftOf
<1>2. CASE Next
  <2> SUFFICES ASSUME Orderly' PROVE Settled'
    BY DEF SettleInv, Settled
  <2>1. Orderly /\ Settled
    BY <1>2, OrderlyBefore DEF SettleInv, Settled
  <2>2. ~overlap' /\ ~Unsaved'
    BY DEF Orderly
  <2>3. ASSUME NEW r \in Requests, NEW o \in Calls, Receive(r, o) PROVE Settled'
    <3>1. o \in Ops
      BY ServerAssumption
    <3>2. \A q \in Requests : ~Active(q)
      BY <2>2, <2>3 DEF Receive, CompleteOnboarding, AddProvider, RemoveProvider, AddDirectory,
                        RemoveDirectory, StartLocalUse, StopLocalUse, Begin
    <3>3. Agreed
      BY <2>1, <3>2 DEF Settled, AtRest
    <3> QED
      BY <2>3, <3>1, <3>2, <3>3, ReceiveSettled
  <2>4. ASSUME NEW r \in Requests, Step(r) PROVE Settled'
    <3>1. pc[r] \in {"local", "draft", "assign", "save", "replace", "build", "front", "entry", "swap"}
      BY <2>4 DEF Step, SetLocal, Draft, Assign, Save, Replace, SaveRaises, Build, FrontsLocal,
                  AddLocal, RebuildRaises, Swap
    <3>2. \A q \in Requests : Active(q) => q = r
      BY <2>1, <3>1, ActiveFacts DEF Settled
    <3>3. Stage(r)
      BY <2>1 DEF Settled
    <3> QED
      BY <2>2, <2>4, <3>2, <3>3, StepSettled
  <2> QED
    BY <1>2, <2>3, <2>4, CrashSettled DEF Next
<1> QED
  BY <1>1, <1>2

-----------------------------------------------------------------------------
\* The administration API keeps its state together: in memory, on disk and in the
\* routing table every provider is trusted, under one key and for one endpoint,
\* however handlers, failures and crashes interleave; and as long as handlers do
\* not overlap and saves do not fail, memory, file, routing table and live model
\* agree between handlers.
THEOREM ConfigSoundHolds == Spec => []ConfigSound
<1>1. SoundInv /\ SettleInv => ConfigSound
  <2> SUFFICES ASSUME SoundInv, SettleInv PROVE ConfigSound
    OBVIOUS
  <2>0. TypeOK /\ PinnedAreGood
    BY DEF SoundInv
  <2>1. PinnedEndpoints
    BY <2>0, GoodFacts DEF PinnedAreGood, PinnedEndpoints
  <2>2. RoutedIsTrusted
    <3> SUFFICES ASSUME NEW e \in Range(config.providers) \cup Range(disk.providers)
                                  \cup Range(backend.remote)
                 PROVE  /\ e \in Verified /\ UriOf[e] # None
                        /\ UriOf[e].host \notin {"blocked name", "internal address"}
      BY DEF RoutedIsTrusted
    <3>1. Trusted(e)
      BY <2>0, GoodFacts DEF PinnedAreGood
    <3> QED
      BY <3>1 DEF Trusted, TrustedProviderEntry, IsSafeRemoteUrl
  <2>3. SettledAgrees
    BY DEF SettleInv, SettledAgrees, Agreed, LocalFits, Covers, Listed
  <2> QED
    BY <2>0, <2>1, <2>2, <2>3 DEF ConfigSound
<1>2. Spec => [](SoundInv /\ SettleInv)
  BY InitSound, NextSound, InitSettled, NextSettled, PTL DEF Spec
<1> QED
  BY <1>1, <1>2, PTL

\* As long as handlers do not overlap and saves do not fail, a write to the file
\* is the effect, on what was in it, of the request whose handler makes it.
THEOREM EachWriteIsOneChangeHolds == Spec => EachWriteIsOneChange
<1> DEFINE OneChange ==
        Orderly /\ disk' # disk =>
            \E r \in Requests : pc[r] = "replace" /\ disk' = Effect(op[r], disk)
<1>1. SoundInv /\ SettleInv /\ [Next]_vars => OneChange
  <2> SUFFICES ASSUME SoundInv, SettleInv, [Next]_vars, Orderly, disk' # disk
               PROVE  \E r \in Requests : pc[r] = "replace" /\ disk' = Effect(op[r], disk)
    OBVIOUS
  <2>1. PICK r \in Requests : Replace(r)
    BY DEF vars, Next, Receive, CompleteOnboarding, AddProvider, RemoveProvider, AddDirectory,
           RemoveDirectory, StartLocalUse, StopLocalUse, Begin, Step, SetLocal, Draft, Assign,
           Save, SaveRaises, Build, FrontsLocal, AddLocal, RebuildRaises, Swap, Crash
  <2>2. pc[r] = "replace" /\ disk' = draft[r] /\ Stage(r)
    BY <2>1 DEF Replace, SettleInv
  <2> QED
    BY <2>2 DEF Stage, Result
<1>2. Spec => [][SoundInv /\ SettleInv /\ [Next]_vars]_vars
  BY InitSound, NextSound, InitSettled, NextSettled, PTL DEF Spec
<1>3. Spec => [][OneChange]_vars
  BY <1>1, <1>2, PTL
<1> QED
  BY <1>3 DEF EachWriteIsOneChange
=============================================================================
